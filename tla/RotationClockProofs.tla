------------------------- MODULE RotationClockProofs -------------------------
(***************************************************************************)
(* Proofs about the waits of module RotationClock, for every length of the *)
(* calls, the boots and the certificate job.                               *)
(*                                                                         *)
(* Inv relates the two clocks: what is left of the handler's sleep and     *)
(* what is left of the machine's boot were set at the same time, so their  *)
(* difference stays what it was.                                           *)
(***************************************************************************)
EXTENDS RotationClockProperties, Integers, TLAPS

\* The steps before the request is delivered.
Before == {"prepare", "poll", "settle", "post"}

\* The machine, its firewall and its cron belong together.
Host ==
    /\ pc = "prepare" => host = "none"
    /\ pc = "poll" => host # "none"
    /\ pc \in {"settle", "post", "reply"} \cup Posted => Running
    /\ pc \in Before => ~ named
    /\ host \in {"none", "pending"} => ~ named
    /\ host # "up" => job = "off"
    /\ host = "up" => rules = named
    /\ pc = "reply" => named

\* What is left of a boot is no more than the boot takes.
Boot ==
    /\ host = "booting" /\ ~ named => timer <= took
    /\ host = "booting" /\ named => timer <= again

\* The handler's sleep and the first boot end in this order.
Settling ==
    took < Settle =>
        /\ pc = "settle" /\ host = "booting" => timer + Settle <= took + wait
        /\ pc = "post" => host = "up"
        /\ pc \in Posted => named

\* The ticks that sleeps since the request, which are over, have taken.
Slept ==
    (IF answer = "ok" THEN Rest ELSE 0) + IF pc \in Opened THEN Hold ELSE 0

\* The handler's later sleeps and the reboot.
Rebooting ==
    named /\ host = "booting" =>
        /\ pc = "rest" => answer = "ok" /\ timer + Rest <= again + wait
        /\ pc = "sweep" => timer + Slept <= again
        /\ pc = "hold" => timer + Slept + Hold <= again + wait
        /\ pc \in Opened => timer + Slept <= again

Syncing ==
    /\ job = "sleep" => left <= JobDelay
    /\ job = "work" => \E j \in Jobs : left <= j
    /\ job = "off" /\ host = "up" /\ ~ named => synced
    /\ pc = "settle" /\ job = "sleep" =>
        left + Settle <= took + JobDelay + wait
    /\ Quick =>
        /\ pc = "settle" /\ job = "work" => left < wait
        /\ pc = "post" => synced
        /\ named => synced

Inv == TypeOK /\ Host /\ Boot /\ Settling /\ Rebooting /\ Syncing

-----------------------------------------------------------------------------
LEMMA InvInit == Init => Inv
<1> SUFFICES ASSUME Init PROVE Inv
  OBVIOUS
<1> USE ClockAssumption
    DEF Init, Steps, Endless, Ends, Running, Posted, Opened, Before
<1>1. TypeOK
  <2>1. wait \in Nat  OBVIOUS
  <2>2. pc \in Steps \cup Endless \cup Ends  OBVIOUS
  <2> HIDE DEF Steps, Endless, Ends
  <2>3. now \in 0 .. Limit /\ polls \in 0 .. Polls  BY DEF Limit, Polls
  <2>4. timer \in Nat /\ took \in Nat /\ again \in Nat /\ left \in Nat  OBVIOUS
  <2> QED  BY <2>1, <2>2, <2>3, <2>4 DEF TypeOK
<1>2. Host /\ Boot  BY DEF Host, Boot
<1>3. Settling /\ Rebooting  BY DEF Settling, Rebooting
<1>4. Syncing  BY DEF Syncing
<1> QED  BY <1>1, <1>2, <1>3, <1>4 DEF Inv

LEMMA InvStep == Inv /\ [Next]_vars => Inv'
<1> SUFFICES ASSUME Inv, [Next]_vars PROVE Inv'
  OBVIOUS
<1> USE ClockAssumption
    DEF Inv, TypeOK, Host, Boot, Settling, Rebooting, Syncing, Slept, Quick,
        Steps, Endless, Ends, Posted, Opened, Before, Running, Limit, Polls,
        Settle, Rest, Hold, Late, JobDelay, Connect, Goto, Through, handler,
        machine, cron
<1>1. CASE Launch
  BY <1>1 DEF Launch
<1>2. CASE Poll
  BY <1>2 DEF Poll, Look
<1>3. CASE Post
  <2> USE <1>3 DEF Post
  <2>1. Quick => took < 3
    <3> PICK j \in Jobs : TRUE  OBVIOUS
    <3> QED  OBVIOUS
  <2>2. took < Settle => host = "up"
    OBVIOUS
  <2>3. Quick => synced
    BY <2>1, <2>2
  <2>4. TypeOK' /\ Host' /\ Boot'
    OBVIOUS
  <2>5. Settling' /\ Rebooting'
    BY <2>2
  <2>6. Syncing'
    BY <2>3
  <2> QED  BY <2>4, <2>5, <2>6
<1>4. CASE Deliver
  BY <1>4 DEF Deliver
<1>5. CASE Raise
  BY <1>5 DEF Raise
<1>6. CASE Answer
  <2> USE <1>6 DEF Answer
  <2>1. TypeOK'  OBVIOUS
  <2>2. Host'  OBVIOUS
  <2>3. Boot'  OBVIOUS
  <2>4. Settling'  OBVIOUS
  <2>5. Rebooting'  OBVIOUS
  <2>6. Syncing'  OBVIOUS
  <2> QED  BY <2>1, <2>2, <2>3, <2>4, <2>5, <2>6
<1>7. CASE GoOn
  <2> USE <1>7 DEF GoOn
  <2>1. TypeOK'
    <3>1. wait' \in Calls \cup {Hold, Late, 0}  OBVIOUS
    <3>3. wait' \in Nat  BY <3>1
    <3>2. pc' \in Steps \cup Endless \cup Ends  OBVIOUS
    <3> HIDE DEF Steps, Endless, Ends
    <3> QED  BY <3>2, <3>3
  <2>2. Host'  OBVIOUS
  <2>3. Boot'  OBVIOUS
  <2>4. Settling'  OBVIOUS
  <2>5. Rebooting'
    <3>1. CASE Through("rest") BY <3>1
    <3>2. CASE Through("sweep") BY <3>2
    <3>3. CASE Through("hold") BY <3>3
    <3>4. CASE Through("announce") \/ Through("late") BY <3>4
    <3> QED  BY <3>1, <3>2, <3>3, <3>4
  <2>6. Syncing'  OBVIOUS
  <2> QED  BY <2>1, <2>2, <2>3, <2>4, <2>5, <2>6
<1>8. CASE Hang
  BY <1>8 DEF Hang
<1>9. CASE Stop
  BY <1>9 DEF Stop
<1>10. CASE Appear
  <2> USE <1>10 DEF Appear
  <2>1. TypeOK'  OBVIOUS
  <2>2. Host'  OBVIOUS
  <2>3. Boot'  OBVIOUS
  <2>4. Settling'  OBVIOUS
  <2>5. Rebooting'  OBVIOUS
  <2>6. Syncing'  OBVIOUS
  <2> QED  BY <2>1, <2>2, <2>3, <2>4, <2>5, <2>6
<1>11. CASE Up
  BY <1>11 DEF Up
<1>12. CASE JobStarts
  BY <1>12 DEF JobStarts
<1>13. CASE JobEnds
  BY <1>13 DEF JobEnds
<1>14. CASE Tick
  BY <1>14 DEF Tick, Due, Less
<1>15. CASE UNCHANGED vars
  BY <1>15 DEF vars
<1> QED
  BY <1>1, <1>2, <1>3, <1>4, <1>5, <1>6, <1>7, <1>8, <1>9, <1>10, <1>11,
     <1>12, <1>13, <1>14, <1>15
  DEF Next, Handler, Machine

LEMMA Invariant == Spec => []Inv
BY InvInit, InvStep, PTL DEF Spec

(* Every variable keeps its type, whatever takes how long. *)
THEOREM TypeCorrect == Spec => []TypeOK
<1>1. Inv => TypeOK  BY DEF Inv
<1> QED  BY Invariant, <1>1, PTL

(* When the request is over, a machine that boots in less than two minutes *)
(* has its place.                                                          *)
THEOREM TakesUpdate == Spec => []UpdateTaken
<1>1. Inv => UpdateTaken  BY DEF Inv, Settling, UpdateTaken
<1> QED  BY Invariant, <1>1, PTL

(* When port 6112 is opened, the machine is up again, if it reboots in     *)
(* less time than the handler has slept since.                             *)
THEOREM OpensUp == Spec => []OpensToServer
<1>1. Inv => OpensToServer
  <2> SUFFICES ASSUME Inv, took < Settle, again < Left, pc \in Opened
               PROVE  host = "up"
    BY DEF OpensToServer
  <2>1. named /\ Running
    BY DEF Inv, Settling, Host, Posted
  <2>2. host # "booting"
    BY <2>1 DEF Inv, TypeOK, Rebooting, Slept, Left, Hold, Rest
  <2> QED  BY <2>1, <2>2 DEF Running
<1> QED  BY Invariant, <1>1, PTL

-----------------------------------------------------------------------------
\* The machine has appeared at most n ticks ago.
Elapsed(n) ==
    /\ host = "booting" => took <= timer + n
    /\ job = "sleep" => took + JobDelay <= left + n
    /\ job = "work" => \E j \in Jobs : took + JobDelay + j <= left + n

\* The handler notices a machine a tick late at most, and the request finds
\* it with its first job still to do, or not up.
Noticed ==
    /\ pc = "poll" => wait <= 1
    /\ host \in {"none", "pending"} => ~ synced
    /\ Slow =>
        /\ pc = "poll" /\ Running => ~ synced /\ Elapsed(1 - wait)
        /\ pc = "settle" => ~ synced /\ Elapsed(Settle + 1 - wait)
        /\ pc = "post" => ~ synced
        /\ pc = "post" /\ host = "up" =>
              (job = "sleep" /\ left = JobDelay) \/ Elapsed(Settle + 1)
        /\ named => ~ synced

\* What the job takes is added on both sides.
LEMMA JobAdds ==
    ASSUME NEW n \in Int, NEW t \in Nat, NEW j \in Nat, t + JobDelay <= n
    PROVE  t + JobDelay + j <= j + n
BY DEF JobDelay

LEMMA NoticedStep == Inv /\ Noticed /\ [Next]_vars => Noticed'
<1> SUFFICES ASSUME Inv, Noticed, [Next]_vars PROVE Noticed'
  OBVIOUS
<1> USE ClockAssumption
    DEF Inv, TypeOK, Host, Noticed, Elapsed, Slow, Posted, Opened, Before,
        Running, Settle, JobDelay, Connect, Goto, Through, handler, machine,
        cron
<1>1. CASE Launch
  BY <1>1 DEF Launch
<1>2. CASE Poll
  BY <1>2 DEF Poll, Look
<1>3. CASE Post
  BY <1>3 DEF Post
<1>4. CASE Deliver
  BY <1>4 DEF Deliver
<1>5. CASE Raise \/ Answer \/ GoOn \/ Hang \/ Stop
  BY <1>5 DEF Raise, Answer, GoOn, Hang, Stop
<1>6. CASE Appear
  <2>1. /\ pc \notin {"settle", "post"} /\ ~ named /\ ~ synced
        /\ job = "off" /\ host' = "booting"
        /\ UNCHANGED <<pc, wait, job, left, synced, named>>
    BY <1>6 DEF Appear
  <2>2. took' = timer' /\ took' \in Nat /\ wait \in Nat
    BY <1>6 DEF Appear
  <2>3. ASSUME pc = "poll" PROVE Elapsed(1 - wait)'
    <3>1. wait' = 0 \/ wait' = 1  BY <2>1, <2>2, <2>3
    <3> HIDE DEF Inv, Noticed, Slow
    <3>2. took' <= timer' + (1 - wait')  BY <2>2, <3>1
    <3> QED  BY <2>1, <3>2 DEF Elapsed
  <2>4. (pc = "poll" => wait <= 1) /\ pc' # "settle" /\ pc' # "post" /\ ~ named'
    BY <2>1
  <2> HIDE DEF Slow, Elapsed
  <2> QED  BY <2>1, <2>3, <2>4
<1>7. CASE Up
  BY <1>7 DEF Up
<1>8. CASE JobStarts
  <2>1. /\ job = "sleep" /\ left = 0 /\ job' = "work" /\ left' \in Jobs
        /\ UNCHANGED <<pc, wait, host, took, synced, named>>
    BY <1>8 DEF JobStarts
  <2>2. ASSUME NEW n \in Int, Elapsed(n) PROVE Elapsed(n)'
    <3>1. took' \in Nat /\ left' \in Nat /\ took' + JobDelay <= n
      BY <2>1, <2>2
    <3>2. host' # "booting" /\ job' = "work" /\ left' \in Jobs
      BY <2>1
    <3> HIDE DEF Inv, Noticed, Slow
    <3>3. took' + JobDelay + left' <= left' + n
      BY <3>1, JobAdds
    <3> QED  BY <3>2, <3>3 DEF Elapsed
  <2> HIDE DEF Slow, Elapsed
  <2>3. /\ 1 - wait \in Int /\ Settle + 1 - wait \in Int
        /\ Settle + 1 \in Int
    OBVIOUS
  <2>4. Slow' = Slow  BY <2>1 DEF Slow
  <2>5. pc = "post" /\ left = 0 /\ job = "sleep" => left # JobDelay
    OBVIOUS
  <2>6. (pc = "poll" /\ Running /\ Slow => ~ synced /\ Elapsed(1 - wait))'
    BY <2>1, <2>2, <2>3, <2>4
  <2>7. (pc = "settle" /\ Slow => ~ synced /\ Elapsed(Settle + 1 - wait))'
    BY <2>1, <2>2, <2>3, <2>4
  <2>8. (pc = "post" /\ host = "up" /\ Slow => Elapsed(Settle + 1))'
    BY <2>1, <2>2, <2>3, <2>4, <2>5
  <2> QED  BY <2>1, <2>4, <2>6, <2>7, <2>8
<1>9. CASE JobEnds
  BY <1>9 DEF JobEnds, Syncing
<1>10. CASE Tick
  BY <1>10 DEF Tick, Due, Less, Steps, Endless
<1>11. CASE UNCHANGED vars
  BY <1>11 DEF vars
<1> QED
  BY <1>1, <1>2, <1>3, <1>4, <1>5, <1>6, <1>7, <1>8, <1>9, <1>10, <1>11
  DEF Next, Handler, Machine

(* The boot of a machine decides whether its certificate job reaches S3:   *)
(* if boot, cron's sleep and job take less than the orchestrator's sleep   *)
(* it always does, if they take a tick more it never does.                 *)
THEOREM SyncsQuick == Spec => []SyncsWhenQuick
<1>1. Init => Noticed
  BY DEF Init, Noticed, Running
<1>2. Inv /\ Noticed => SyncsWhenQuick
  BY DEF Inv, Syncing, Noticed, SyncsWhenQuick
<1> QED  BY Invariant, NoticedStep, <1>1, <1>2, PTL DEF Spec

(* What readme.md:273 says is true of a machine whose boot, cron's sleep   *)
(* and job together take less than two minutes: when the rotation is done  *)
(* it has reached S3.                                                      *)
THEOREM QuickComesUpLatest == Spec => [](Quick => FreshComesUpLatest)
<1>1. TypeOK /\ UpdateTaken /\ SyncsWhenQuick => (Quick => FreshComesUpLatest)
  <2> SUFFICES ASSUME TypeOK, UpdateTaken, SyncsWhenQuick, Quick, pc = "done"
               PROVE  synced
    BY DEF FreshComesUpLatest
  <2>1. PICK j \in Jobs : took + JobDelay + j < Settle
    BY ClockAssumption DEF Quick
  <2>2. took < Settle
    BY <2>1, ClockAssumption DEF JobDelay, Settle, TypeOK
  <2> QED  BY <2>2 DEF UpdateTaken, SyncsWhenQuick, Posted, Opened
<1> QED  BY TypeCorrect, TakesUpdate, SyncsQuick, <1>1, PTL

(* A certificate job reaches S3 only before the machine has its place. *)
THEOREM SyncsNoLater == Spec => SyncsUnnamed
<1>1. Inv /\ [Next]_vars => [synced' /\ ~ synced => ~ named]_vars
  <2> SUFFICES ASSUME Inv, [Next]_vars, synced', ~ synced PROVE ~ named
    OBVIOUS
  <2>1. JobEnds
    BY DEF Next, Handler, Machine, Launch, Poll, Look, Post, Deliver, Raise,
           Answer, GoOn, Hang, Stop, Appear, Up, JobStarts, Tick, vars, cron
  <2>2. host = "up" /\ ~ rules
    BY <2>1 DEF JobEnds, Inv, Host, TypeOK
  <2> QED  BY <2>2 DEF Inv, Host
<1> QED  BY Invariant, <1>1, PTL DEF Spec, SyncsUnnamed

-----------------------------------------------------------------------------
\* The latest moment at which every step is over, if the calls are short.
InTime ==
    CallsShort =>
        /\ pc = "prepare" => now + wait <= 4
        /\ pc = "poll" => now + wait <= 4 + polls
        /\ pc = "settle" => now + wait <= 45
        /\ took < Settle =>
            /\ pc = "post" => now <= 45
            /\ pc = "reply" => wait = 0 \/ (wait = 1 /\ now <= 45)
            /\ pc = "rest" => now + wait <= 63
            /\ pc = "sweep" => now + wait <= 67
            /\ pc = "hold" => now + wait <= 73
            /\ pc = "announce" => now + wait <= 77
            /\ pc = "late" => now + wait <= 89

LEMMA InTimeStep == Inv /\ InTime /\ [Next]_vars => InTime'
<1> SUFFICES ASSUME Inv, InTime, CallsShort, [Next]_vars PROVE InTime'
  BY DEF InTime, CallsShort
<1>0. \A c \in Calls : c \in 0 .. 4
  BY ClockAssumption DEF CallsShort, Limit
<1> USE DEF InTime, Inv, TypeOK, Goto, Through, Polls, handler
<1>1. CASE Launch
  BY <1>1 DEF Launch
<1>2. CASE Poll
  BY <1>2 DEF Poll, Look, Settle
<1>3. CASE Post
  BY <1>3 DEF Post, Connect, machine
<1>4. CASE Deliver
  BY <1>4 DEF Deliver
<1>5. CASE Raise
  <2>1. took < Settle => pc # "post"
    BY <1>5 DEF Raise, Settling
  <2> QED  BY <1>0, <1>5, <2>1 DEF Raise, machine
<1>6. CASE Answer
  BY <1>6 DEF Answer, Rest, machine
<1>7. CASE GoOn
  <2> USE <1>0, <1>7 DEF GoOn, Hold, Late, machine
  <2>1. CASE Through("rest")  BY <2>1
  <2>2. CASE Through("sweep")  BY <2>2
  <2>3. CASE Through("hold")  BY <2>3
  <2>4. CASE Through("announce")  BY <2>4
  <2>5. CASE Through("late")  BY <2>5
  <2> QED  BY <2>1, <2>2, <2>3, <2>4, <2>5
<1>8. CASE Hang \/ Stop
  BY <1>8 DEF Hang, Stop, machine
<1>9. CASE Appear
  <2>1. pc \notin {"settle", "post", "reply"} \cup Posted
    BY <1>9 DEF Appear, Host, Running
  <2> QED  BY <1>9, <2>1 DEF Appear, Posted, Opened
<1>10. CASE Up \/ JobStarts \/ JobEnds
  BY <1>10 DEF Up, JobStarts, JobEnds, machine
<1>11. CASE Tick
  <2>1. took < Settle => pc # "post"
    BY <1>11 DEF Tick, Due, Settling
  <2>2. pc \in Steps \ Endless => wait > 0 /\ wait' = wait - 1
    BY <1>11 DEF Tick, Due, Less
  <2>3. pc = "reply" /\ took < Settle => wait' = 0
    BY <1>11 DEF Tick, Less
  <2> QED  BY <1>11, <2>1, <2>2, <2>3 DEF Tick, Steps, Endless, machine
<1>12. CASE UNCHANGED vars
  BY <1>12 DEF vars, machine
<1> QED
  BY <1>1, <1>2, <1>3, <1>4, <1>5, <1>6, <1>7, <1>8, <1>9, <1>10, <1>11, <1>12
  DEF Next, Handler, Machine

(* A run with short calls, on a machine that boots in less than two        *)
(* minutes, is stopped only when it waits for an answer without end.       *)
THEOREM StopsHung == Spec => StopsOnlyHung
<1>1. Init => InTime
  BY ClockAssumption DEF Init, InTime, CallsShort, Limit
<1>2. Inv /\ InTime /\ [Next]_vars
        => [CallsShort /\ took < Settle /\ pc' = "stopped" /\ pc # "stopped"
              => pc \in Endless]_vars
  <2> SUFFICES ASSUME Inv, InTime, [Next]_vars, CallsShort, took < Settle,
                      pc' = "stopped", pc # "stopped"
               PROVE  pc \in Endless
    OBVIOUS
  <2>1. Stop
    BY DEF Next, Handler, Machine, Launch, Poll, Look, Post, Deliver, Raise,
           Answer, GoOn, Hang, Appear, Up, JobStarts, JobEnds, Tick, Goto,
           vars, handler
  <2>2. now = 90 /\ pc \notin Ends  BY <2>1 DEF Stop, Limit
  <2> QED
    BY <2>2 DEF Inv, TypeOK, InTime, Steps, Endless, Ends, Polls
<1> QED  BY Invariant, InTimeStep, <1>1, <1>2, PTL DEF Spec, StopsOnlyHung
=============================================================================
