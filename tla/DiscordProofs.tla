---------------------------- MODULE DiscordProofs ----------------------------
(***************************************************************************)
(* Proofs about the announcement of module DiscordNotify, for every number *)
(* of tries and every number and kind of faults.                           *)
(*                                                                         *)
(* Inv is inductive.  Its parts follow the actors: the connection (Budget, *)
(* Link), the ready tasks and the handlers they lead to (Dispatched), the  *)
(* requests (Once), and the closing of the client (Closed, Reasons).       *)
(* Promise adds what the refinement of module Announcement needs: that the *)
(* client is not closed before there is a message or a reason for none.    *)
(* Spends is no invariant but a ranking: every step uses something up.     *)
(***************************************************************************)
EXTENDS DiscordProperties, TLAPS

\* TypeOK, by actor.
LinkTypes ==
    /\ main \in MainSteps /\ closing \in {"no", "ws", "http", "done"}
    /\ resume \in BOOLEAN /\ session \in BOOLEAN /\ cached \in BOOLEAN
    /\ ws \in {"none", "up", "lost"}
    /\ stage \in {"identify", "resume", "live"}
    /\ identifies \in 0 .. MaxFaults + 1

TaskTypes ==
    /\ task \in [Sessions -> {"none", "wait", "cancelled", "over"}]
    /\ readyTask \in {0} \cup Sessions
    /\ handler \in [Sessions -> HandlerSteps]

PostTypes ==
    /\ tries \in [Sessions -> 0 .. MaxTries]
    /\ flight \in [Sessions -> {"none", "sent", "stored"}]
    /\ log \in [Sessions -> {"none", "sent", "nochannel", "error"}]
    /\ posted \in Nat
    /\ faults \in 0 .. MaxFaults
    /\ met \in SUBSET Faults

\* The client will ask for another session without a further fault.
Owed ==
    \/ main \in {"login", "connect", "backoff"} /\ (~ resume \/ ~ session)
    \/ Connected /\ stage = "resume" /\ ~ session

\* Every session but the first is accounted for by a fault.
Budget == identifies + (IF Owed THEN 1 ELSE 0) <= faults + 1

\* What is known of the connection.
Link ==
    /\ main \in {"poll", "backoff"} => ws # "none"
    /\ main = "login" => ws = "none"
    /\ ws = "none" => ~ resume
    /\ main = "backoff" => resume
    /\ main \in {"login", "connect"} /\ ~ resume => ~ session
    /\ ws # "none" => identifies > 0
    /\ Connected /\ stage = "identify" => ~ session /\ ~ resume

\* A session that was not asked for has no task, one that waits has no
\* handler yet, and the one being asked for has neither.
Dispatched ==
    /\ main # "done" =>
        \A k \in Sessions :
            /\ k > identifies => task[k] = "none"
            /\ task[k] # "over" => handler[k] = "none"
    /\ main = "done" =>
        \A k \in Sessions : task[k] = "over" /\ handler[k] = "over"
    /\ Connected /\ stage = "identify" => task[identifies] = "none"

\* A handler that has not made its request has nothing under way; without a
\* busy answer the one message is that of the first session.
Once ==
    /\ \A k \in Sessions :
        /\ k > identifies => flight[k] = "none"
        /\ handler[k] \in {"none", "new", "wait"} =>
              tries[k] = 0 /\ flight[k] = "none"
        /\ handler[k] = "pause" => tries[k] < MaxTries /\ ~ Without({"busy"})
    /\ identifies <= 1 /\ Without({"busy"}) =>
          posted = IF flight[1] = "stored" THEN 1 ELSE 0

\* A task that is the first to wait is the one the state knows of.
Known ==
    \A j \in Sessions :
        task[j] = "wait" /\ (\A i \in Sessions \ {j} : task[i] = "none")
            => readyTask = j

\* A closed client has no connection.
Closed ==
    /\ closing = "done" => ws # "up"
    /\ main = "done" => closing = "done"

\* A handler has begun to close the client.
Dismissed == \E k \in Sessions : handler[k] \in {"close", "over"}

\* Why the client is closed.
Reasons ==
    /\ closing # "no" => main \in {"close", "done"} \/ Dismissed
    /\ main = "poll" /\ ws = "lost" => closing # "no"

Inv ==
    /\ LinkTypes /\ Budget /\ Link
    /\ TaskTypes /\ Dispatched /\ Known /\ OneWaits
    /\ PostTypes /\ Once
    /\ Closed /\ Reasons /\ Persists

-----------------------------------------------------------------------------
LEMMA InvInit == Init => Inv
<1> SUFFICES ASSUME Init PROVE Inv
  OBVIOUS
<1> USE DiscordAssumption DEF Init, Sessions
<1>1. LinkTypes /\ TaskTypes /\ PostTypes
  <2>1. LinkTypes
    <3>1. identifies \in 0 .. MaxFaults + 1  OBVIOUS
    <3>2. resume \in BOOLEAN /\ session \in BOOLEAN /\ cached \in BOOLEAN
      OBVIOUS
    <3> QED  BY <3>1, <3>2 DEF LinkTypes, MainSteps
  <2>2. TaskTypes  BY DEF TaskTypes, HandlerSteps
  <2>3. PostTypes  BY DEF PostTypes
  <2> QED  BY <2>1, <2>2, <2>3
<1>2. Budget /\ Link
  BY DEF Budget, Owed, Connected, Link
<1>3. 1 \in Sessions
  OBVIOUS
<1>4. Dispatched /\ Once
  BY <1>3 DEF Dispatched, Once, Connected
<1>5. Known /\ OneWaits
  BY DEF Known, OneWaits
<1>6. Closed /\ Reasons /\ Persists
  BY DEF Closed, Reasons, Persists
<1> QED  BY <1>1, <1>2, <1>4, <1>5, <1>6 DEF Inv

(* A fault is one of those that may happen, and is counted.                *)
LEMMA FaultStep ==
    ASSUME NEW f, Fault(f), met \in SUBSET Faults, faults \in Nat
    PROVE  /\ faults' = faults + 1 /\ faults' \in 0 .. MaxFaults
           /\ met' \in SUBSET Faults
           /\ met \subseteq met' /\ f \in met'
BY DiscordAssumption DEF Fault

(* No step spends more than the faults that have happened.                 *)
LEMMA FaultsGrow ==
    ASSUME Inv, [Next]_vars
    PROVE  /\ faults' \in 0 .. MaxFaults /\ met' \in SUBSET Faults
           /\ faults <= faults' /\ met \subseteq met'
<1> DEFINE Goal == /\ faults' \in 0 .. MaxFaults /\ met' \in SUBSET Faults
                   /\ faults <= faults' /\ met \subseteq met'
<1>1. ASSUME UNCHANGED budget PROVE Goal
  BY <1>1 DEF budget, Inv, PostTypes
<1>2. ASSUME NEW f, Fault(f) PROVE Goal
  BY <1>2, FaultStep DEF Inv, PostTypes
<1> HIDE DEF Goal
<1>3. Goal
  BY <1>1, <1>2
  DEF Next, vars, Client, Login, Connect, ConnectFails, ConnectClosed,
      BackoffEnds, PollClosed, Return, Gateway, Ready, Resumed, GuildCreate,
      Invalidate, Drop, Refuse, CloseWs, CloseHttp, ReadyTask,
      ReadyCancelled, ReadyTimeout, OnReady, Lookup, Request, Sent, Busy,
      SendFails, HandlerEnds, Store
<1> QED  BY <1>3 DEF Goal

(* The connection: every step of the handlers leaves it as it is.          *)
LEMMA LinkStep == Inv /\ [Next]_vars => (LinkTypes /\ Budget /\ Link)'
<1> SUFFICES ASSUME Inv, [Next]_vars PROVE (LinkTypes /\ Budget /\ Link)'
  OBVIOUS
<1> USE DiscordAssumption, FaultsGrow
    DEF Inv, LinkTypes, MainSteps, Connected, Link, gateway, ready, post
<1>0. faults \in 0 .. MaxFaults  BY DEF PostTypes
<1>1. CASE Login
  <2> USE <1>1 DEF Login, Leave, Close
  <2>1. Budget'  BY <1>0, FaultStep DEF Budget, Owed, budget, PostTypes
  <2>2. (LinkTypes /\ Link)'  OBVIOUS
  <2> QED  BY <2>1, <2>2
<1>2. CASE Connect
  <2> USE <1>2 DEF Connect
  <2>1. Budget'  BY <1>0 DEF Budget, Owed
  <2>2. identifies' <= MaxFaults + 1  BY <1>0 DEF Budget, Owed
  <2>3. (LinkTypes /\ Link)'  BY <2>2
  <2> QED  BY <2>1, <2>3
<1>3. CASE ConnectFails
  <2> USE <1>3 DEF ConnectFails, Leave, Close, Again
  <2>1. Budget'  BY <1>0, FaultStep DEF Budget, Owed, budget, PostTypes
  <2>2. LinkTypes'  OBVIOUS
  <2>3. Link'  OBVIOUS
  <2> QED  BY <2>1, <2>2, <2>3
<1>4. CASE ConnectClosed
  <2> USE <1>4 DEF ConnectClosed, Leave, Close
  <2>1. Budget'  BY <1>0 DEF Budget, Owed
  <2>2. (LinkTypes /\ Link)'  OBVIOUS
  <2> QED  BY <2>1, <2>2
<1>5. CASE BackoffEnds
  <2> USE <1>5 DEF BackoffEnds, Again, Leave, Close
  <2>1. Budget'  BY <1>0 DEF Budget, Owed
  <2>2. (LinkTypes /\ Link)'  OBVIOUS
  <2> QED  BY <2>1, <2>2
<1>6. CASE PollClosed
  <2> USE <1>6 DEF PollClosed, Leave, Close
  <2>1. Budget'  BY <1>0 DEF Budget, Owed
  <2>2. (LinkTypes /\ Link)'  OBVIOUS
  <2> QED  BY <2>1, <2>2
<1>7. CASE Return
  <2> USE <1>7 DEF Return
  <2>1. Budget'  BY <1>0 DEF Budget, Owed
  <2>2. (LinkTypes /\ Link)'  OBVIOUS
  <2> QED  BY <2>1, <2>2
<1>8. CASE Ready
  <2> USE <1>8 DEF Ready, ParseReady
  <2>1. Budget'  BY <1>0 DEF Budget, Owed
  <2>2. (LinkTypes /\ Link)'  OBVIOUS
  <2> QED  BY <2>1, <2>2
<1>9. CASE Resumed
  <2> USE <1>9 DEF Resumed
  <2>1. Budget'  BY <1>0 DEF Budget, Owed
  <2>2. (LinkTypes /\ Link)'  OBVIOUS
  <2> QED  BY <2>1, <2>2
<1>10. CASE Invalidate
  <2> USE <1>10 DEF Invalidate, Again, Leave, Close
  <2>1. Budget'  BY <1>0, FaultStep DEF Budget, Owed, budget, PostTypes
  <2>2. (LinkTypes /\ Link)'  OBVIOUS
  <2> QED  BY <2>1, <2>2
<1>11. CASE Drop
  <2> USE <1>11 DEF Drop, Again, Leave, Close
  <2>1. Budget'  BY <1>0, FaultStep DEF Budget, Owed, budget, PostTypes
  <2>2. (LinkTypes /\ Link)'  OBVIOUS
  <2> QED  BY <2>1, <2>2
<1>12. CASE Refuse
  <2> USE <1>12 DEF Refuse, Leave, Close
  <2>1. Budget'  BY <1>0, FaultStep DEF Budget, Owed, budget, PostTypes
  <2>2. (LinkTypes /\ Link)'  OBVIOUS
  <2> QED  BY <2>1, <2>2
<1>13. CASE CloseWs
  <2> USE <1>13 DEF CloseWs, Hangup
  <2>1. Budget'  BY <1>0 DEF Budget, Owed
  <2>2. (LinkTypes /\ Link)'  OBVIOUS
  <2> QED  BY <2>1, <2>2
<1>14. CASE CloseHttp
  <2> USE <1>14 DEF CloseHttp, Hangup
  <2>1. Budget'  BY <1>0 DEF Budget, Owed
  <2>2. (LinkTypes /\ Link)'  OBVIOUS
  <2> QED  BY <2>1, <2>2
<1>15. CASE GuildCreate
  BY <1>0, <1>15 DEF GuildCreate, Budget, Owed
<1>16. ASSUME NEW k \in Sessions, ReadyTask(k) \/ OnReady(k) \/ Store(k)
       PROVE  (LinkTypes /\ Budget /\ Link)'
  <2>1. /\ UNCHANGED <<main, gateway, cached>>
        /\ closing' = closing \/ closing' = "ws"
    BY <1>16
    DEF ReadyTask, ReadyCancelled, ReadyTimeout, OnReady, Lookup, Request,
        Sent, Busy, SendFails, HandlerEnds, Store, Finish, Close
  <2>2. Owed' <=> Owed  BY <2>1 DEF Owed
  <2> QED  BY <1>0, <2>1, <2>2 DEF Budget
<1>17. CASE UNCHANGED vars
  BY <1>0, <1>17 DEF vars, Budget, Owed
<1> QED
  BY <1>1, <1>2, <1>3, <1>4, <1>5, <1>6, <1>7, <1>8, <1>9, <1>10, <1>11,
       <1>12, <1>13, <1>14, <1>15, <1>16, <1>17
  DEF Next, Client, Gateway

(* The tasks and the handlers: READY begins a task, its time-out begins a  *)
(* handler, and no other step begins either.                               *)
LEMMA TaskStep ==
    Inv /\ [Next]_vars => (TaskTypes /\ Dispatched /\ Known /\ OneWaits)'
<1> DEFINE Goal == TaskTypes /\ Dispatched /\ Known /\ OneWaits
<1> SUFFICES ASSUME Inv, [Next]_vars PROVE Goal'
  OBVIOUS
<1> USE DEF Inv, TaskTypes, HandlerSteps, Sessions, Connected, Dispatched,
            Known, OneWaits, gateway, ready, LinkTypes, MainSteps
<1>1. CASE Connect
  <2>1. /\ UNCHANGED <<task, readyTask, handler>> /\ main' # "done"
        /\ identifies' = identifies \/ identifies' = identifies + 1
        /\ stage' = "identify" => identifies' = identifies + 1
    BY <1>1 DEF Connect
  <2>2. identifies' \in 0 .. MaxFaults + 1  BY LinkStep
  <2>3. (TaskTypes /\ Known /\ OneWaits)'  BY <2>1
  <2>4. Dispatched'  BY <1>1, <2>1, <2>2 DEF Connect
  <2> QED  BY <2>3, <2>4
<1>2. CASE Return
  BY <1>2 DEF Return
<1>3. CASE Ready
  <2> USE <1>3 DEF Ready, ParseReady, Link
  <2>1. TaskTypes'  OBVIOUS
  <2>2. Dispatched'  OBVIOUS
  <2>3. Known'  OBVIOUS
  <2>4. OneWaits'  OBVIOUS
  <2> QED  BY <2>1, <2>2, <2>3, <2>4
<1>4. CASE \/ Login \/ ConnectFails \/ ConnectClosed \/ BackoffEnds
           \/ PollClosed \/ Resumed \/ GuildCreate \/ Invalidate \/ Drop
           \/ Refuse \/ CloseWs \/ CloseHttp
  <2>1. /\ UNCHANGED <<identifies, task, readyTask, handler>>
        /\ main' = "done" <=> main = "done"
        /\ (Connected /\ stage = "identify")'
              => Connected /\ stage = "identify"
    BY <1>4
    DEF Login, ConnectFails, ConnectClosed, BackoffEnds, PollClosed, Resumed,
        GuildCreate, Invalidate, Drop, Refuse, CloseWs, CloseHttp, Hangup,
        Again, Leave
  <2> QED  BY <2>1
<1>5. ASSUME NEW k \in Sessions, ReadyCancelled(k) PROVE Goal'
  BY <1>5 DEF ReadyCancelled
<1>6. ASSUME NEW k \in Sessions, ReadyTimeout(k) PROVE Goal'
  BY <1>6 DEF ReadyTimeout
<1>7. ASSUME NEW k \in Sessions, OnReady(k) \/ Store(k) PROVE Goal'
  <2>1. /\ UNCHANGED <<main, gateway, ready>>
        /\ \/ handler' = handler
           \/ /\ handler[k] \notin {"none", "over"}
              /\ \E h \in HandlerSteps : handler' = [handler EXCEPT ![k] = h]
    BY <1>7
    DEF OnReady, Lookup, Request, Sent, Busy, SendFails, HandlerEnds, Store,
        Finish
  <2> QED  BY <2>1
<1>8. CASE UNCHANGED vars
  BY <1>8 DEF vars
<1> QED
  BY <1>1, <1>2, <1>3, <1>4, <1>5, <1>6, <1>7, <1>8
  DEF Next, Client, Gateway, ReadyTask

(* The requests: only a handler makes one, and once without a busy answer. *)
LEMMA PostStep == Inv /\ [Next]_vars => (PostTypes /\ Once)'
<1> SUFFICES ASSUME Inv, [Next]_vars PROVE (PostTypes /\ Once)'
  OBVIOUS
<1> USE DiscordAssumption, FaultsGrow
    DEF Inv, PostTypes, TaskTypes, HandlerSteps, Sessions, Once, Without,
        gateway, post, LinkTypes
<1>1. CASE Client \/ Gateway \/ CloseWs \/ CloseHttp \/ UNCHANGED vars
  <2>1. /\ UNCHANGED post
        /\ identifies' = identifies \/ identifies' = identifies + 1
        /\ \/ handler' = handler
           \/ handler' = [k \in Sessions |-> "over"]
    BY <1>1
    DEF Client, Login, Connect, ConnectFails, ConnectClosed, BackoffEnds,
        PollClosed, Return, Gateway, Ready, Resumed, GuildCreate, Invalidate,
        Drop, Refuse, CloseWs, CloseHttp, vars
  <2>2. Without({"busy"})' => Without({"busy"})  OBVIOUS
  <2>3. PostTypes'  BY <2>1
  <2>4. Once'  BY <2>1, <2>2
  <2> QED  BY <2>3, <2>4
<1>2. ASSUME NEW k \in Sessions, ReadyTask(k) PROVE (PostTypes /\ Once)'
  <2>1. /\ UNCHANGED <<identifies, post>>
        /\ \/ handler' = handler
           \/ /\ task[k] = "wait"
              /\ handler' = [handler EXCEPT ![k] = "new"]
    BY <1>2 DEF ReadyTask, ReadyCancelled, ReadyTimeout
  <2>2. task[k] = "wait" => handler[k] = "none"  BY DEF Dispatched
  <2> QED  BY <2>1, <2>2
<1>3. ASSUME NEW k \in Sessions, Lookup(k) PROVE (PostTypes /\ Once)'
  BY <1>3 DEF Lookup, Finish
<1>4. ASSUME NEW k \in Sessions, Request(k) PROVE (PostTypes /\ Once)'
  <2>1. k <= identifies  BY <1>4 DEF Request, Dispatched
  <2>2. handler[k] = "wait" \/ ~ Without({"busy"})  BY <1>4 DEF Request
  <2>3. CASE closing # "done"
    <3>1. tries[k] + 1 \in 0 .. MaxTries  BY <1>4 DEF Request
    <3>2. PostTypes'  BY <1>4, <2>3, <3>1 DEF Request, Finish, budget
    <3>3. Once'  BY <1>4, <2>1, <2>2, <2>3 DEF Request, Finish, budget
    <3> QED  BY <3>2, <3>3
  <2>4. CASE closing = "done"
    BY <1>4, <2>4 DEF Request, Finish, budget
  <2> QED  BY <2>3, <2>4
<1>5. ASSUME NEW k \in Sessions, Sent(k) PROVE (PostTypes /\ Once)'
  BY <1>5 DEF Sent, Finish
<1>6. ASSUME NEW k \in Sessions, Busy(k) PROVE (PostTypes /\ Once)'
  <2>1. ~ Without({"busy"})'  BY <1>6, FaultStep DEF Busy
  <2>2. PostTypes'  BY <1>6 DEF Busy, Finish
  <2>3. Once'  BY <1>6, <2>1 DEF Busy, Finish
  <2> QED  BY <2>2, <2>3
<1>7. ASSUME NEW k \in Sessions, SendFails(k) PROVE (PostTypes /\ Once)'
  BY <1>7 DEF SendFails, Finish
<1>8. ASSUME NEW k \in Sessions, HandlerEnds(k) PROVE (PostTypes /\ Once)'
  BY <1>8 DEF HandlerEnds
<1>9. ASSUME NEW k \in Sessions, Store(k) PROVE (PostTypes /\ Once)'
  <2>1. k <= identifies  BY <1>9 DEF Store
  <2>2. PostTypes'  BY <1>9 DEF Store
  <2>3. Once'  BY <1>9, <2>1 DEF Store, budget
  <2> QED  BY <2>2, <2>3
<1> QED
  BY <1>1, <1>2, <1>3, <1>4, <1>5, <1>6, <1>7, <1>8, <1>9
  DEF Next, OnReady

(* The closing of the client: what has begun it, and what it has closed.   *)
LEMMA CloseStep == Inv /\ [Next]_vars => (Closed /\ Reasons /\ Persists)'
<1> DEFINE Goal == Closed /\ Reasons /\ Persists
<1> SUFFICES ASSUME Inv, [Next]_vars PROVE Goal'
  OBVIOUS
<1> USE DEF Inv, LinkTypes, TaskTypes, Sessions, Connected, Closed, Reasons,
            Persists, Dismissed, Link, gateway, ready
<1>0. \A F : Without(F)' => Without(F)  BY FaultsGrow DEF Without
<1>1. CASE Login
  BY <1>0, <1>1 DEF Login, Leave, Close
<1>2. CASE Connect
  BY <1>0, <1>2 DEF Connect
<1>3. CASE ConnectFails
  BY <1>0, <1>3 DEF ConnectFails, Leave, Close, Again
<1>4. CASE ConnectClosed
  BY <1>0, <1>4 DEF ConnectClosed, Leave, Close
<1>5. CASE BackoffEnds
  BY <1>0, <1>5 DEF BackoffEnds, Again, Leave, Close
<1>6. CASE PollClosed
  BY <1>0, <1>6 DEF PollClosed, Leave, Close
<1>7. CASE Return
  BY <1>0, <1>7 DEF Return
<1>8. CASE Ready
  BY <1>0, <1>8 DEF Ready
<1>9. CASE Resumed
  BY <1>0, <1>9 DEF Resumed
<1>10. CASE Invalidate
  BY <1>0, <1>10 DEF Invalidate, Again, Leave, Close
<1>11. CASE Drop
  BY <1>0, <1>11 DEF Drop, Again, Leave, Close
<1>12. CASE Refuse
  <2>1. ~ Without({"refuse"})'
    BY <1>12, FaultStep DEF Refuse, PostTypes, Without
  <2> QED  BY <1>12, <2>1 DEF Refuse, Leave, Close
<1>13. CASE CloseWs
  BY <1>0, <1>13 DEF CloseWs, Hangup
<1>14. CASE CloseHttp
  BY <1>0, <1>14 DEF CloseHttp, Hangup
<1>15. CASE GuildCreate
  BY <1>0, <1>15 DEF GuildCreate
<1>16. ASSUME NEW k \in Sessions, ReadyTask(k) PROVE Goal'
  BY <1>0, <1>16 DEF ReadyTask, ReadyCancelled, ReadyTimeout, Dispatched
<1>17. ASSUME NEW k \in Sessions, OnReady(k) \/ Store(k) PROVE Goal'
  <2>1. /\ UNCHANGED <<main, ws>>
        /\ \/ UNCHANGED <<handler, closing>>
           \/ /\ handler' = [handler EXCEPT ![k] = "close"]
              /\ closing' = IF closing = "no" THEN "ws" ELSE closing
           \/ /\ handler[k] = "close" /\ UNCHANGED closing
              /\ handler' = [handler EXCEPT ![k] = "over"]
           \/ /\ handler[k] \notin {"close", "over"} /\ UNCHANGED closing
              /\ \E h : handler' = [handler EXCEPT ![k] = h]
    BY <1>17
    DEF OnReady, Lookup, Request, Sent, Busy, SendFails, HandlerEnds, Store,
        Finish, Close
  <2> QED  BY <1>0, <2>1
<1>18. CASE UNCHANGED vars
  BY <1>0, <1>18 DEF vars
<1> QED
  BY <1>1, <1>2, <1>3, <1>4, <1>5, <1>6, <1>7, <1>8, <1>9, <1>10, <1>11,
       <1>12, <1>13, <1>14, <1>15, <1>16, <1>17, <1>18
  DEF Next, Client, Gateway

LEMMA InvStep == Inv /\ [Next]_vars => Inv'
BY LinkStep, TaskStep, PostStep, CloseStep DEF Inv

-----------------------------------------------------------------------------
LEMMA Invariant == Spec => []Inv
<1> QED  BY InvInit, InvStep, PTL DEF Spec

(* Every variable of the client keeps its type, and every session but the  *)
(* first is accounted for by a fault.                                      *)
THEOREM TypeCorrect == Spec => []TypeOK
<1>1. Inv => TypeOK  BY DEF Inv, TypeOK, LinkTypes, TaskTypes, PostTypes
<1> QED  BY Invariant, <1>1, PTL

(* However often the connection is lost and resumed, one session without a *)
(* busy answer posts one message.                                          *)
THEOREM SaysItOnce == Spec => []NoRepeat
<1>1. Inv => NoRepeat
  BY DEF Inv, NoRepeat, Once, Without, LinkTypes, PostTypes
<1> QED  BY Invariant, <1>1, PTL

(* Once connected, the client is not ended by a failure of the network.    *)
THEOREM KeepsTrying == Spec => []Persists
<1>1. Inv => Persists  BY DEF Inv
<1> QED  BY Invariant, <1>1, PTL

(* The second READY takes the place of the first.                          *)
THEOREM OneTaskWaits == Spec => []OneWaits
<1>1. Inv => OneWaits  BY DEF Inv
<1> QED  BY Invariant, <1>1, PTL

-----------------------------------------------------------------------------
\* Why there may be no message: what module Announcement takes for lost.
NoChannel == \E k \in Sessions : log[k] = "nochannel"

Lost == ~ Without(Losses) \/ NeverConnected \/ NoChannel

\* A handler logs its line when it is done, and what Discord has stored the
\* players have read.
Lines ==
    \A k \in Sessions :
        /\ main # "done" /\ handler[k] \notin {"close", "over"} =>
              log[k] = "none"
        /\ flight[k] = "stored" => posted > 0

\* The client is not closed before the message is sent or lost.
Excused == closing # "no" => posted > 0 \/ Lost

\* A first connection that fails is the last.
Barred == NeverConnected => main \in {"close", "done"}

Promise == Inv /\ Lines /\ Excused /\ Barred

LEMMA PromiseInit == Init => Promise
BY InvInit, DiscordAssumption
DEF Promise, Init, Lines, Excused, Barred, NeverConnected, Sessions

(* Nothing connects the client after that.                                 *)
LEMMA BarredStays ==
    ASSUME Promise, [Next]_vars
    PROVE  Barred' /\ (NeverConnected => NeverConnected')
<1> USE DEF Promise, Inv, LinkTypes, PostTypes
<1>0. /\ met \subseteq met'
      /\ "connect" \in met' /\ "connect" \notin met => ConnectFails
  BY DEF Next, Client, Return, Gateway, Ready, Resumed, GuildCreate,
         Invalidate, Drop, Refuse, CloseWs, CloseHttp, Login, Connect,
         ConnectFails, ConnectClosed, BackoffEnds, PollClosed, ReadyTask,
         ReadyCancelled, ReadyTimeout, Store, OnReady, Lookup, Request,
         Sent, Busy, SendFails, HandlerEnds, vars, budget, Fault
<1>1. ws' = "none" => ws = "none"
  BY DEF Next, Client, Return, Gateway, Ready, Resumed, GuildCreate,
         Invalidate, Drop, Refuse, CloseWs, CloseHttp, Hangup, Login, Connect,
         ConnectFails, ConnectClosed, BackoffEnds, PollClosed, ReadyTask,
         ReadyCancelled, ReadyTimeout, Store, OnReady, Lookup, Request,
         Sent, Busy, SendFails, HandlerEnds, vars, gateway
<1>2. ws = "none" /\ main \in {"close", "done"}
        => ws' = "none" /\ main' \in {"close", "done"}
  BY DEF Next, Client, Return, Gateway, Ready, Resumed, GuildCreate,
         Invalidate, Drop, Refuse, CloseWs, CloseHttp, Hangup, Login, Connect,
         ConnectFails, ConnectClosed, BackoffEnds, PollClosed, ReadyTask,
         ReadyCancelled, ReadyTimeout, Store, OnReady, Lookup, Request,
         Sent, Busy, SendFails, HandlerEnds, vars, gateway, Connected
<1>3. ConnectFails /\ ws = "none" => main' = "close"
  BY DEF ConnectFails, Leave
<1> QED  BY <1>0, <1>1, <1>2, <1>3 DEF Barred, NeverConnected

(* What has cost the message is not undone.                                *)
LEMMA LostStays == ASSUME Promise, [Next]_vars PROVE Lost => Lost'
<1> USE DEF Promise, Inv, TaskTypes, PostTypes, Sessions
<1>1. Without(Losses)' => Without(Losses)  BY FaultsGrow DEF Without
<1>2. ASSUME NEW j \in Sessions, log[j] = "nochannel" PROVE log'[j] = log[j]
  <2>1. UNCHANGED log \/ main # "done"
    BY DEF Next, Client, Return, Gateway, Ready, Resumed, GuildCreate,
           Invalidate, Drop, Refuse, Connected, CloseWs, CloseHttp, Login,
           Connect, ConnectFails, ConnectClosed, BackoffEnds, PollClosed,
           ReadyTask, ReadyCancelled, ReadyTimeout, Store, OnReady, Lookup,
           Request, Sent, Busy, SendFails, HandlerEnds, Dispatched, vars, post
  <2>2. CASE main # "done"
    <3>1. handler[j] \in {"close", "over"}  BY <1>2, <2>2 DEF Lines
    <3>2. ASSUME NEW k \in Sessions, OnReady(k) PROVE log'[j] = log[j]
      BY <1>2, <3>1, <3>2
      DEF OnReady, Lookup, Request, Sent, Busy, SendFails, HandlerEnds,
          Finish, post
    <3>3. (~ \E k \in Sessions : OnReady(k)) => UNCHANGED log
      BY DEF Next, Client, Return, Gateway, Ready, Resumed, GuildCreate,
             Invalidate, Drop, Refuse, CloseWs, CloseHttp, Login, Connect,
             ConnectFails, ConnectClosed, BackoffEnds, PollClosed, ReadyTask,
             ReadyCancelled, ReadyTimeout, Store, vars, post
    <3> QED  BY <3>2, <3>3
  <2> QED  BY <2>1, <2>2
<1> QED  BY <1>1, <1>2, BarredStays DEF Lost, NoChannel

LEMMA PromiseStep == Promise /\ [Next]_vars => Promise'
<1> SUFFICES ASSUME Promise, [Next]_vars PROVE (Lines /\ Excused)'
  BY InvStep, BarredStays DEF Promise
<1> USE DEF Promise, Inv, LinkTypes, TaskTypes, PostTypes, Sessions
<1>0. Lost => Lost'  BY LostStays
<1>1. CASE Client \/ Gateway \/ CloseWs \/ CloseHttp \/ UNCHANGED vars
  <2>1. /\ UNCHANGED post
        /\ main = "done" => main' = "done"
        /\ main' = "done" \/ UNCHANGED handler
    BY <1>1
    DEF Client, Login, Connect, ConnectFails, ConnectClosed, BackoffEnds,
        PollClosed, Return, Gateway, Ready, Resumed, GuildCreate, Invalidate,
        Drop, Refuse, CloseWs, CloseHttp, vars, Again, Leave, Connected
  <2>2. Lines'  BY <2>1 DEF Lines, post
  <2>3. closing = "no" /\ closing' # "no"
          => ~ Without(Losses)' \/ NeverConnected'
    BY <1>1, FaultStep
    DEF Client, Login, Connect, ConnectFails, ConnectClosed, BackoffEnds,
        PollClosed, Return, Gateway, Ready, Resumed, GuildCreate, Invalidate,
        Drop, Refuse, CloseWs, CloseHttp, vars, Again, Leave, Close, Reasons,
        Without, Losses, NeverConnected
  <2> QED  BY <1>0, <2>1, <2>2, <2>3 DEF Excused, Lost, post
<1>2. ASSUME NEW k \in Sessions, ReadyTask(k) PROVE (Lines /\ Excused)'
  <2>1. UNCHANGED <<main, post, closing>>
    BY <1>2 DEF ReadyTask, ReadyCancelled, ReadyTimeout
  <2>2. main # "done" /\ handler[k] = "none"
    BY <1>2 DEF ReadyTask, ReadyCancelled, ReadyTimeout, Dispatched
  <2>3. \/ UNCHANGED handler
        \/ handler' = [handler EXCEPT ![k] = "new"]
    BY <1>2 DEF ReadyTask, ReadyCancelled, ReadyTimeout
  <2> QED  BY <1>0, <2>1, <2>2, <2>3 DEF Lines, Excused, post
<1>3. ASSUME NEW k \in Sessions, Lookup(k) PROVE (Lines /\ Excused)'
  <2>1. UNCHANGED <<main, flight, posted>>
    BY <1>3 DEF Lookup
  <2>2. /\ handler[k] = "new"
        /\ \/ /\ UNCHANGED <<log, closing>>
              /\ handler' = [handler EXCEPT ![k] = "wait"]
           \/ Finish(k, "nochannel")
    BY <1>3 DEF Lookup
  <2>3. Lines'  BY <2>1, <2>2 DEF Lines, Finish
  <2>4. Finish(k, "nochannel") => NoChannel'
    BY DEF Finish, NoChannel
  <2> QED  BY <1>0, <2>1, <2>2, <2>3, <2>4 DEF Excused, Lost
<1>4. ASSUME NEW k \in Sessions, Request(k) PROVE (Lines /\ Excused)'
  <2>1. UNCHANGED <<main, posted>> /\ closing' # "no" => closing # "no"
    BY <1>4 DEF Request, Finish, Close
  <2>2. /\ handler[k] \in {"wait", "pause"}
        /\ \/ /\ handler' = [handler EXCEPT ![k] = "send"]
              /\ flight' = [flight EXCEPT ![k] = "sent"]
              /\ UNCHANGED log
           \/ /\ handler' = [handler EXCEPT ![k] = "close"]
              /\ log' = [log EXCEPT ![k] = "error"]
              /\ UNCHANGED flight
    BY <1>4 DEF Request, Finish
  <2>3. UNCHANGED <<main, posted>>  BY <1>4 DEF Request
  <2>4. Lines'  BY <2>2, <2>3 DEF Lines
  <2> QED  BY <1>0, <2>1, <2>3, <2>4 DEF Excused
<1>5. ASSUME NEW k \in Sessions, Sent(k) PROVE (Lines /\ Excused)'
  BY <1>0, <1>5 DEF Sent, Finish, Lines, Excused
<1>6. ASSUME NEW k \in Sessions, Busy(k) PROVE (Lines /\ Excused)'
  <2>1. ~ Without(Losses)'
    BY <1>6, FaultStep DEF Busy, Without, Losses
  <2>2. Lines'  BY <1>6 DEF Busy, Finish, Lines
  <2> QED  BY <2>1, <2>2 DEF Excused, Lost
<1>7. ASSUME NEW k \in Sessions, SendFails(k) PROVE (Lines /\ Excused)'
  <2>1. ~ Without(Losses)' \/ closing # "no"
    BY <1>7, FaultStep DEF SendFails, Without, Losses
  <2>2. Lines'  BY <1>7 DEF SendFails, Finish, Lines
  <2> QED  BY <1>0, <1>7, <2>1, <2>2 DEF Excused, Lost, SendFails
<1>8. ASSUME NEW k \in Sessions, HandlerEnds(k) PROVE (Lines /\ Excused)'
  BY <1>0, <1>8 DEF HandlerEnds, Lines, Excused, post
<1>9. ASSUME NEW k \in Sessions, Store(k) PROVE (Lines /\ Excused)'
  BY <1>0, <1>9 DEF Store, Lines, Excused
<1> QED
  BY <1>1, <1>2, <1>3, <1>4, <1>5, <1>6, <1>7, <1>8, <1>9 DEF Next, OnReady

LEMMA AnnounceInit == Init => A!Init
BY DiscordAssumption
DEF Init, A!Init, Without, NeverConnected, Sessions

(* A step of the announcement tells, shuts, returns or excuses, or does    *)
(* none of it.                                                             *)
LEMMA AnnounceStep == Promise /\ [Next]_vars => [A!Next]_(A!vars)
<1> SUFFICES ASSUME Promise, [Next]_vars PROVE [A!Next]_(A!vars)
  OBVIOUS
<1> DEFINE open == closing # "done" \/ ws = "up"
           again == identifies > 1 \/ ~ Without({"busy"})
<1> USE DEF Promise, Inv, LinkTypes, PostTypes
<1>0. /\ Lost => Lost'
      /\ again => again'
  <2>1. Without({"busy"})' => Without({"busy"})  BY FaultsGrow DEF Without
  <2>2. identifies' \in Nat /\ identifies <= identifies'
    BY DEF Next, Client, Return, Gateway, Ready, Resumed, GuildCreate,
           Invalidate, Drop, Refuse, CloseWs, CloseHttp, Login, Connect,
           ConnectFails, ConnectClosed, BackoffEnds, PollClosed, ReadyTask,
           ReadyCancelled, ReadyTimeout, Store, OnReady, Lookup, Request,
           Sent, Busy, SendFails, HandlerEnds, vars, gateway
  <2> QED  BY <2>1, <2>2, LostStays
<1>1. ASSUME UNCHANGED <<posted, open>>, main # "done", main' # "done"
      PROVE  A!Excuse
  BY <1>0, <1>1 DEF A!Excuse, Lost, NoChannel
<1>2. ASSUME NEW k \in Sessions, Store(k) PROVE A!Tell
  <2>1. posted = 0 \/ again
    BY <1>2 DEF Store, Once, Sessions
  <2>2. /\ posted' = posted + 1
        /\ UNCHANGED <<main, closing, ws, identifies, met, log>>
    BY <1>2 DEF Store, gateway, budget
  <2> QED  BY <2>1, <2>2 DEF A!Tell, Without, NeverConnected
<1>3. CASE CloseHttp
  <2>1. /\ closing = "http" /\ main # "done"
        /\ closing' = "done" /\ ws' # "up"
        /\ ws' = "none" <=> ws = "none"
        /\ UNCHANGED <<main, identifies, met, log, posted>>
    BY <1>3 DEF CloseHttp, Hangup, Closed, post, budget
  <2> QED  BY <2>1 DEF A!Next, A!Shut, Without, NeverConnected
<1>4. CASE Return
  <2>1. /\ main # "done" /\ main' = "done"
        /\ closing = "done" /\ ws # "up"
        /\ UNCHANGED <<closing, ws, identifies, met, log, posted>>
    BY <1>4 DEF Return, Closed, gateway, post, budget
  <2>2. posted > 0 \/ Lost  BY <2>1 DEF Excused
  <2> QED
    BY <2>1, <2>2
    DEF A!Next, A!Return, Without, Lost, NoChannel, NeverConnected
<1>5. CASE \/ Login \/ Connect \/ ConnectFails \/ ConnectClosed
           \/ BackoffEnds \/ PollClosed \/ Gateway \/ CloseWs
  <2>1. main # "done" /\ main' # "done" /\ UNCHANGED posted
    BY <1>5
    DEF Login, Connect, ConnectFails, ConnectClosed, BackoffEnds, PollClosed,
        Gateway, Ready, Resumed, GuildCreate, Invalidate, Drop, Refuse,
        CloseWs, Again, Leave, Connected, Closed, post
  <2>2. UNCHANGED open
    BY <1>5
    DEF Login, Connect, ConnectFails, ConnectClosed, BackoffEnds, PollClosed,
        Gateway, Ready, Resumed, GuildCreate, Invalidate, Drop, Refuse,
        CloseWs, Hangup, Again, Leave, Close, Connected, Closed, gateway
  <2> QED  BY <1>1, <2>1, <2>2 DEF A!Next
<1>6. ASSUME NEW k \in Sessions, ReadyTask(k) \/ OnReady(k) PROVE A!Excuse
  <2>1. /\ main # "done" /\ UNCHANGED <<main, ws, posted>>
        /\ UNCHANGED closing \/ (closing = "no" /\ closing' = "ws")
    BY <1>6
    DEF ReadyTask, ReadyCancelled, ReadyTimeout, OnReady, Lookup, Request,
        Sent, Busy, SendFails, HandlerEnds, Finish, Close, Dispatched,
        gateway, post
  <2> QED  BY <1>1, <2>1
<1>7. CASE UNCHANGED vars
  BY <1>7 DEF vars, gateway, post, budget, A!vars, Without, NeverConnected
<1> QED
  BY <1>2, <1>3, <1>4, <1>5, <1>1, <1>6, <1>7 DEF Next, Client, A!Next

(* send_message does what module Announcement promises: whatever the       *)
(* network and Discord do, the message is not repeated without a reason,   *)
(* everything is closed before it returns, and it does not return without  *)
(* a message but for a reason.                                             *)
THEOREM KeepsPromise == Spec => KeepsAnnouncement
<1>1. Spec => []Promise
  BY PromiseInit, PromiseStep, PTL DEF Spec
<1> QED
  BY <1>1, AnnounceInit, AnnounceStep, PTL
  DEF Spec, KeepsAnnouncement, A!Spec

-----------------------------------------------------------------------------
\* What a handler, or the task it comes from, can still do.
HandlerLeft(k) ==
    CASE handler[k] = "over"  -> 0
      [] handler[k] = "close" -> 1
      [] handler[k] = "send"  -> 2 * (MaxTries - tries[k]) + 4
      [] handler[k] \in {"wait", "pause"} -> 2 * (MaxTries - tries[k]) + 3
      [] handler[k] = "new"   -> 2 * MaxTries + 4
      [] handler[k] = "none" /\ task[k] = "over"      -> 0
      [] handler[k] = "none" /\ task[k] = "cancelled" -> 2 * MaxTries + 5
      [] handler[k] = "none" /\ task[k] = "wait"      -> 2 * MaxTries + 6
      [] handler[k] = "none" /\ task[k] = "none"      -> 2 * MaxTries + 7

SessionLeft(k) == 2 * HandlerLeft(k) + (IF flight[k] = "sent" THEN 1 ELSE 0)

\* What send_message can still do until the next fault.
MainLeft ==
    CASE main = "done"    -> 0
      [] main = "close"   -> 1
      [] main = "poll"    ->
            IF ws # "up" THEN 2
            ELSE IF stage = "live" THEN (IF cached THEN 3 ELSE 4)
            ELSE IF stage = "identify" \/ session THEN 5 ELSE 7
      [] main = "connect" -> IF resume /\ ~ session THEN 8 ELSE 6
      [] main = "backoff" -> IF session THEN 7 ELSE 9
      [] main = "login"   -> 7

ClientLeft == 10 * (MaxFaults - faults) + MainLeft

CloseLeft ==
    CASE closing = "no"   -> 3
      [] closing = "ws"   -> 2
      [] closing = "http" -> 1
      [] closing = "done" -> 0

\* A step uses something up and gives nothing back.
Spends ==
    /\ ClientLeft' <= ClientLeft /\ CloseLeft' <= CloseLeft
    /\ \A k \in Sessions : SessionLeft(k)' <= SessionLeft(k)
    /\ \/ ClientLeft' < ClientLeft \/ CloseLeft' < CloseLeft
       \/ \E k \in Sessions : SessionLeft(k)' < SessionLeft(k)

LeftTypes ==
    /\ MainLeft \in 0 .. 9 /\ ClientLeft \in Nat /\ CloseLeft \in Nat
    /\ \A k \in Sessions : HandlerLeft(k) \in Nat /\ SessionLeft(k) \in Nat

LEMMA LeftTyped == Inv => LeftTypes
<1> SUFFICES ASSUME Inv PROVE LeftTypes
  OBVIOUS
<1>1. MainLeft \in 0 .. 9
  BY DEF Inv, LinkTypes, MainSteps, MainLeft
<1>2. ClientLeft \in Nat
  BY <1>1, DiscordAssumption DEF ClientLeft, Inv, PostTypes
<1>3. CloseLeft \in Nat
  BY DEF Inv, LinkTypes, CloseLeft
<1>4. ASSUME NEW k \in Sessions
      PROVE  HandlerLeft(k) \in Nat /\ SessionLeft(k) \in Nat
  <2>1. /\ handler[k] \in HandlerSteps
        /\ task[k] \in {"none", "wait", "cancelled", "over"}
        /\ MaxTries - tries[k] \in Nat /\ MaxTries \in Nat
    BY DiscordAssumption DEF Inv, TaskTypes, PostTypes
  <2>2. HandlerLeft(k) \in Nat
    BY <2>1 DEF HandlerLeft, HandlerSteps
  <2> QED  BY <2>2 DEF SessionLeft
<1> QED  BY <1>1, <1>2, <1>3, <1>4 DEF LeftTypes

LEMMA LeftTypedNext == Inv' => LeftTypes'
<1>1. (Inv => LeftTypes)'  BY LeftTyped, PTL
<1> QED  BY <1>1

(* A fault pays for whatever send_message does until the next one.         *)
LEMMA FaultPays ==
    ASSUME Inv, Inv', faults' = faults + 1
    PROVE  ClientLeft' < ClientLeft
<1>1. MainLeft \in 0 .. 9 /\ MainLeft' \in 0 .. 9
  BY LeftTyped, LeftTypedNext DEF LeftTypes
<1>2. MaxFaults \in Nat /\ faults \in Nat
  BY DiscordAssumption DEF Inv, PostTypes
<1>3. ASSUME NEW m \in Nat, NEW f \in Nat, NEW a \in 0 .. 9, NEW b \in 0 .. 9
      PROVE  10 * (m - (f + 1)) + b < 10 * (m - f) + a
  OBVIOUS
<1> QED  BY <1>1, <1>2, <1>3 DEF ClientLeft

(* One session spends, if it alone has moved.                              *)
LEMMA SessionSpends ==
    ASSUME Inv, Inv', NEW k \in Sessions,
           \A j \in Sessions \ {k} :
              UNCHANGED <<task[j], handler[j], tries[j], flight[j]>>,
           HandlerLeft(k)' < HandlerLeft(k)
              \/ (HandlerLeft(k)' = HandlerLeft(k) /\ flight[k] = "sent"
                  /\ flight'[k] # "sent"),
           ClientLeft' <= ClientLeft, CloseLeft' <= CloseLeft
    PROVE  Spends
<1>1. \A j \in Sessions :
        /\ HandlerLeft(j) \in Nat /\ HandlerLeft(j)' \in Nat
        /\ SessionLeft(j) \in Nat /\ SessionLeft(j)' \in Nat
  BY LeftTyped, LeftTypedNext DEF LeftTypes
<1>2. ASSUME NEW j \in Sessions \ {k} PROVE SessionLeft(j)' = SessionLeft(j)
  BY <1>2 DEF SessionLeft, HandlerLeft
<1>3. SessionLeft(k)' < SessionLeft(k)
  <2>1. CASE HandlerLeft(k)' < HandlerLeft(k)
    <3>1. ASSUME NEW a \in Nat, NEW b \in Nat, a < b,
                 NEW c \in {0, 1}, NEW d \in {0, 1}
          PROVE  2 * a + c < 2 * b + d
      BY <3>1
    <3> QED  BY <1>1, <2>1, <3>1 DEF SessionLeft
  <2>2. CASE HandlerLeft(k)' = HandlerLeft(k)
    BY <1>1, <2>2 DEF SessionLeft
  <2> QED  BY <2>1, <2>2
<1> QED  BY <1>1, <1>2, <1>3 DEF Spends

(* The client spends, if no session has moved.                             *)
LEMMA ClientSpends ==
    ASSUME Inv, Inv', UNCHANGED <<task, handler, tries, flight>>,
           ClientLeft' <= ClientLeft, CloseLeft' <= CloseLeft,
           ClientLeft' < ClientLeft \/ CloseLeft' < CloseLeft
    PROVE  Spends
<1>1. ASSUME NEW k \in Sessions
      PROVE  SessionLeft(k)' = SessionLeft(k) /\ SessionLeft(k) \in Nat
  BY LeftTyped DEF LeftTypes, SessionLeft, HandlerLeft
<1> QED  BY <1>1 DEF Spends

(* Every step of the announcement uses something up.                       *)
LEMMA SpendStep == ASSUME Inv, Inv', Next PROVE Spends
<1> USE DEF Sessions
<1>a. /\ MainLeft \in 0 .. 9 /\ MainLeft' \in 0 .. 9
      /\ ClientLeft \in Nat /\ ClientLeft' \in Nat
      /\ CloseLeft \in Nat /\ CloseLeft' \in Nat
  BY LeftTyped, LeftTypedNext DEF LeftTypes
<1>b. MaxFaults \in Nat /\ faults \in Nat
  BY DiscordAssumption DEF Inv, PostTypes
<1>c. /\ UNCHANGED faults /\ MainLeft' < MainLeft => ClientLeft' < ClientLeft
      /\ UNCHANGED faults /\ MainLeft' <= MainLeft => ClientLeft' <= ClientLeft
  BY <1>a, <1>b DEF ClientLeft
<1>d. faults' = faults + 1 => ClientLeft' < ClientLeft
  BY FaultPays
<1>e. CloseLeft' <= CloseLeft
  <2>1. \/ UNCHANGED closing
        \/ closing = "no" /\ closing' = "ws"
        \/ closing = "ws" /\ closing' = "http"
        \/ closing = "http" /\ closing' = "done"
    BY DEF Next, Client, Login, Connect, ConnectFails, ConnectClosed,
           BackoffEnds, PollClosed, Return, Gateway, Ready, Resumed,
           GuildCreate, Invalidate, Drop, Refuse, CloseWs, CloseHttp,
           ReadyTask, ReadyCancelled, ReadyTimeout, OnReady, Lookup, Request,
           Sent, Busy, SendFails, HandlerEnds, Store, Finish, Again, Leave,
           Close
  <2>2. CASE UNCHANGED closing
    <3>1. CloseLeft' = CloseLeft  BY <2>2 DEF CloseLeft
    <3> QED  BY <1>a, <3>1
  <2>3. CASE closing = "no" /\ closing' = "ws"
    <3>1. CloseLeft = 3 /\ CloseLeft' = 2  BY <2>3 DEF CloseLeft
    <3> QED  BY <3>1
  <2>4. CASE closing = "ws" /\ closing' = "http"
    <3>1. CloseLeft = 2 /\ CloseLeft' = 1  BY <2>4 DEF CloseLeft
    <3> QED  BY <3>1
  <2>5. CASE closing = "http" /\ closing' = "done"
    <3>1. CloseLeft = 1 /\ CloseLeft' = 0  BY <2>5 DEF CloseLeft
    <3> QED  BY <3>1
  <2> QED  BY <2>1, <2>2, <2>3, <2>4, <2>5
<1>1. CASE \/ Login \/ Connect \/ ConnectFails \/ ConnectClosed
           \/ BackoffEnds \/ PollClosed
  <2>1. UNCHANGED <<task, handler, tries, flight>>
    BY <1>1 DEF Login, Connect, ConnectFails, ConnectClosed, BackoffEnds,
                PollClosed, ready, post
  <2>2. \/ faults' = faults + 1
        \/ UNCHANGED faults /\ MainLeft' < MainLeft
    <3> USE DEF MainLeft, Inv, LinkTypes, Link
    <3>1. CASE Login
      BY <3>1 DEF Login, Leave, Fault, gateway, ready, budget
    <3>2. CASE Connect
      BY <3>2 DEF Connect, ready, budget
    <3>3. CASE ConnectFails
      BY <3>3 DEF ConnectFails, Fault
    <3>4. CASE ConnectClosed
      BY <3>4 DEF ConnectClosed, Leave, gateway, ready, budget
    <3>5. CASE BackoffEnds
      BY <3>5 DEF BackoffEnds, Again, Leave, gateway, ready, budget
    <3>6. CASE PollClosed
      BY <3>6 DEF PollClosed, Leave, gateway, ready, budget
    <3> QED  BY <1>1, <3>1, <3>2, <3>3, <3>4, <3>5, <3>6
  <2> QED  BY <1>a, <1>c, <1>d, <1>e, <2>1, <2>2, ClientSpends
<1>2. CASE Resumed \/ GuildCreate \/ Invalidate \/ Drop \/ Refuse
  <2>1. UNCHANGED <<task, handler, tries, flight>>
    BY <1>2 DEF Resumed, GuildCreate, Invalidate, Drop, Refuse, ready, post
  <2>2. \/ faults' = faults + 1
        \/ UNCHANGED faults /\ MainLeft' < MainLeft
    <3> USE DEF MainLeft, Inv, LinkTypes, Link, Connected
    <3>1. CASE Resumed
      BY <3>1 DEF Resumed, ready, budget
    <3>2. CASE GuildCreate
      BY <3>2 DEF GuildCreate, gateway, budget
    <3>3. CASE Invalidate
      BY <3>3 DEF Invalidate, Again, Leave, Fault, ready, budget
    <3>4. CASE Drop \/ Refuse
      BY <3>4 DEF Drop, Refuse, Fault
    <3> QED  BY <1>2, <3>1, <3>2, <3>3, <3>4
  <2> QED  BY <1>a, <1>c, <1>d, <1>e, <2>1, <2>2, ClientSpends
<1>3. CASE CloseWs \/ CloseHttp
  <2>1. UNCHANGED <<task, handler, tries, flight, faults>>
    BY <1>3 DEF CloseWs, CloseHttp, ready, post, budget
  <2>2. MainLeft' <= MainLeft
    BY <1>a, <1>3
    DEF MainLeft, CloseWs, CloseHttp, Hangup, ready, Inv, LinkTypes, MainSteps
  <2>3. CloseLeft' < CloseLeft
    BY <1>3 DEF CloseLeft, CloseWs, CloseHttp
  <2>4. ClientLeft' <= ClientLeft
    BY <1>c, <2>1, <2>2
  <2> QED  BY <1>e, <2>1, <2>3, <2>4, ClientSpends
<1>4. CASE Ready
  <2>1. UNCHANGED <<handler, tries, flight, faults>> /\ MainLeft' < MainLeft
    BY <1>4 DEF Ready, ParseReady, post, budget, MainLeft, Connected
  <2>2. ASSUME NEW k \in Sessions PROVE SessionLeft(k)' <= SessionLeft(k)
    <3>1. /\ task[k] \in {"none", "wait", "cancelled", "over"}
          /\ handler[k] \in HandlerSteps
          /\ tries[k] \in 0 .. MaxTries /\ MaxTries \in Nat
          /\ task'[k] = task[k]
             \/ (task[k] = "none" /\ handler[k] = "none" /\ task'[k] = "wait")
             \/ (task[k] = "wait" /\ task'[k] = "cancelled")
      BY <1>4, DiscordAssumption
      DEF Ready, ParseReady, Inv, TaskTypes, PostTypes, Dispatched, Connected,
          LinkTypes, MainSteps
    <3>2. /\ HandlerLeft(k)' <= HandlerLeft(k)
          /\ HandlerLeft(k) \in Nat /\ HandlerLeft(k)' \in Nat
      BY <2>1, <3>1 DEF HandlerLeft, HandlerSteps
    <3> QED  BY <2>1, <3>2 DEF SessionLeft
  <2> QED  BY <1>a, <1>c, <1>e, <2>1, <2>2 DEF Spends
<1>5. CASE Return
  <2>1. /\ UNCHANGED <<flight, faults>> /\ MainLeft' < MainLeft
        /\ handler' = [k \in Sessions |-> "over"]
    BY <1>5 DEF Return, post, budget, MainLeft
  <2>2. ASSUME NEW k \in Sessions PROVE SessionLeft(k)' <= SessionLeft(k)
    <3>1. HandlerLeft(k)' = 0  BY <2>1 DEF HandlerLeft
    <3>2. HandlerLeft(k) \in Nat  BY LeftTyped DEF LeftTypes
    <3> QED  BY <2>1, <3>1, <3>2 DEF SessionLeft
  <2> QED  BY <1>a, <1>c, <1>e, <2>1, <2>2 DEF Spends
<1>6. ASSUME NEW k \in Sessions, ReadyTask(k) \/ OnReady(k) \/ Store(k)
      PROVE  Spends
  <2>0. /\ task[k] \in {"none", "wait", "cancelled", "over"}
        /\ task \in [Sessions -> {"none", "wait", "cancelled", "over"}]
        /\ handler \in [Sessions -> HandlerSteps]
        /\ tries \in [Sessions -> 0 .. MaxTries]
        /\ flight \in [Sessions -> {"none", "sent", "stored"}]
        /\ tries[k] \in 0 .. MaxTries /\ MaxTries \in Nat
    BY DiscordAssumption DEF Inv, TaskTypes, PostTypes
  <2>1. \A j \in Sessions \ {k} :
           UNCHANGED <<task[j], handler[j], tries[j], flight[j]>>
    BY <1>6, <2>0
    DEF ReadyTask, ReadyCancelled, ReadyTimeout, OnReady, Lookup, Request,
        Sent, Busy, SendFails, HandlerEnds, Store, Finish, ready, post
  <2>2. ClientLeft' <= ClientLeft
    <3>1. UNCHANGED <<main, gateway, cached>>
      BY <1>6
      DEF ReadyTask, ReadyCancelled, ReadyTimeout, OnReady, Lookup, Request,
          Sent, Busy, SendFails, HandlerEnds, Store, ready
    <3>2. MainLeft' <= MainLeft
      <4>1. MainLeft' = MainLeft  BY <3>1 DEF MainLeft, gateway
      <4> QED  BY <1>a, <4>1
    <3>3. UNCHANGED faults \/ faults' = faults + 1
      BY <1>6
      DEF ReadyTask, ReadyCancelled, ReadyTimeout, OnReady, Lookup, Request,
          Sent, Busy, SendFails, HandlerEnds, Store, Fault, budget
    <3> QED  BY <1>a, <1>c, <1>d, <3>2, <3>3
  <2>3. \/ HandlerLeft(k)' < HandlerLeft(k)
        \/ /\ HandlerLeft(k)' = HandlerLeft(k)
           /\ flight[k] = "sent" /\ flight'[k] # "sent"
    <3> DEFINE Moved(h, t, n) ==
                  handler'[k] = h /\ task'[k] = t /\ tries'[k] = n
    <3> USE DEF HandlerLeft
    <3>1. CASE ReadyTask(k)
      <4>1. task[k] \in {"wait", "cancelled"} /\ handler[k] = "none"
        BY <3>1
        DEF ReadyTask, ReadyCancelled, ReadyTimeout, Inv, Dispatched
      <4>2. \/ Moved("none", "over", tries[k])
            \/ task[k] = "wait" /\ Moved("new", "over", tries[k])
        BY <2>0, <3>1, <4>1 DEF ReadyTask, ReadyCancelled, ReadyTimeout, post
      <4> QED  BY <2>0, <4>1, <4>2
    <3>2. CASE Lookup(k)
      <4>1. tries[k] = 0 /\ handler[k] = "new"
        BY <3>2 DEF Lookup, Inv, Once
      <4>2. \/ Moved("wait", task[k], tries[k])
            \/ Moved("close", task[k], tries[k])
        BY <2>0, <3>2 DEF Lookup, Finish, ready
      <4> QED  BY <2>0, <4>1, <4>2
    <3>3. CASE Request(k)
      <4>1. handler[k] \in {"wait", "pause"}
        BY <3>3 DEF Request
      <4>2. \/ Moved("send", task[k], tries[k] + 1)
            \/ Moved("close", task[k], tries[k])
        BY <2>0, <3>3 DEF Request, Finish, ready
      <4>3. HandlerLeft(k) = 2 * (MaxTries - tries[k]) + 3
        BY <4>1
      <4>4. CASE Moved("send", task[k], tries[k] + 1)
        <5>1. HandlerLeft(k)' = 2 * (MaxTries - (tries[k] + 1)) + 4
          BY <4>4
        <5> HIDE DEF HandlerLeft
        <5> QED  BY <2>0, <4>3, <5>1
      <4>5. CASE Moved("close", task[k], tries[k])
        <5>1. HandlerLeft(k)' = 1  BY <4>5
        <5> HIDE DEF HandlerLeft
        <5> QED  BY <2>0, <4>3, <5>1
      <4> QED  BY <4>2, <4>4, <4>5
    <3>4. CASE Sent(k) \/ Busy(k) \/ SendFails(k)
      <4>1. handler[k] = "send"
        BY <3>4 DEF Sent, Busy, SendFails
      <4>2. \/ Moved("pause", task[k], tries[k])
            \/ Moved("close", task[k], tries[k])
        BY <2>0, <3>4 DEF Sent, Busy, SendFails, Finish, ready
      <4> QED  BY <2>0, <4>1, <4>2
    <3>5. CASE HandlerEnds(k)
      BY <2>0, <3>5 DEF HandlerEnds, ready, post
    <3>6. CASE Store(k)
      BY <2>0, <3>6 DEF Store, ready
    <3> QED  BY <1>6, <3>1, <3>2, <3>3, <3>4, <3>5, <3>6 DEF OnReady
  <2> QED  BY <1>e, <2>1, <2>2, <2>3, SessionSpends
<1> QED
  BY <1>1, <1>2, <1>3, <1>4, <1>5, <1>6 DEF Next, Client, Gateway

(* An announcement comes to rest, whatever the order of its steps: each    *)
(* uses up a fault, a step of send_message until the next fault, a step of *)
(* closing, or a step of one session, and gives none back.  There is no    *)
(* endless reconnecting, and no endless repeating of a request             *)
(* (client.py:661-727, http.py:618-773).                                   *)
THEOREM ComesToRest == Spec => [][Spends]_vars
<1>1. Inv /\ Inv' /\ [Next]_vars => [Spends]_vars  BY SpendStep
<1> QED  BY Invariant, <1>1, PTL DEF Spec
=============================================================================
