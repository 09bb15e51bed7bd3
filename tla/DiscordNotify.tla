---------------------------- MODULE DiscordNotify ----------------------------
(***************************************************************************)
(* One announcement: the orchestrator's send_message and what it runs      *)
(* through in the Discord client.  One thread runs an asyncio loop with    *)
(* the task of send_message, which logs in and then keeps a connection to  *)
(* the gateway; one task per READY event, which waits until the guilds     *)
(* have come in and then dispatches on_ready; one on_ready handler per     *)
(* dispatch, which posts the message and closes the client; and the task   *)
(* that closes it.  The gateway may drop a connection, and invalidate or   *)
(* refuse a session, at any time.                                          *)
(*                                                                         *)
(* An IDENTIFY starts a session, and READY answers it: both carry its      *)
(* number, and so do the task and the handler that follow from it.         *)
(***************************************************************************)
EXTENDS Naturals

CONSTANTS
    MaxTries,   \* how often a request is tried
    Faults,     \* the kinds of fault that may happen
    MaxFaults   \* bound on the number of faults

FaultKinds ==
    { "login",    \* the log-in fails
      "connect",  \* a connection cannot be made
      "drop",     \* a connection is lost
      "invalid",  \* Discord invalidates the session
      "refuse",   \* Discord closes with a code that is not for reconnecting
      "busy",     \* Discord answers a request with 5xx or 429
      "send" }    \* a request fails otherwise

ASSUME DiscordAssumption ==
    /\ MaxTries \in Nat \ {0}
    /\ Faults \subseteq FaultKinds
    /\ MaxFaults \in Nat

VARIABLES
    main,        \* the step of send_message
    resume,      \* whether the next connection resumes the session
    ws,          \* the websocket in client.ws
    stage,       \* what it was opened for, "live" once answered
    session,     \* whether the client has the id of a session
    cached,      \* whether the channel is in the cache
    identifies,  \* how many sessions the client has asked for
    task,        \* the tasks that wait for the guilds
    readyTask,   \* the task the state knows of, or 0
    handler,     \* the step of every on_ready handler
    tries,       \* how often a handler has tried its request
    flight,      \* what became of its last request
    log,         \* the line it has logged
    posted,      \* the messages in the channel
    closing,     \* the step of the task that closes the client
    faults, met  \* how many faults have happened, and of which kinds

gateway == <<resume, ws, stage, session, identifies>>
ready == <<cached, task, readyTask>>
post == <<tries, flight, log, posted>>
budget == <<faults, met>>
vars == <<main, gateway, ready, handler, post, closing, budget>>

\* No more sessions than this are ever asked for.
Sessions == 1 .. MaxFaults + 1

MainSteps == {"login", "connect", "poll", "backoff", "close", "done"}

HandlerSteps == {"none", "new", "wait", "send", "pause", "close", "over"}

-----------------------------------------------------------------------------
Fault(f) ==
    /\ f \in Faults
    /\ faults < MaxFaults
    /\ faults' = faults + 1
    /\ met' = met \cup {f}

\* client.close(): the first call creates the task, every call waits for it.
Close == closing' = IF closing = "no" THEN "ws" ELSE closing

Connected == main = "poll" /\ ws = "up"

\* start() has returned or raised; send_message closes the client.
Leave == main' = "close" /\ Close

\* while not self.is_closed(), after which connect returns.
Again ==
    \/ closing = "no" /\ main' = "connect" /\ UNCHANGED closing
    \/ closing # "no" /\ Leave

\* A handler is about to make its request, or is waiting to repeat it.
Requesting(k) == handler[k] \in {"send", "pause"}

\* The rate limit lets one request through until an answer has told the
\* limit.
Unlimited(k) ==
    \/ \A j \in Sessions \ {k} : ~ Requesting(j)
    \/ \E j \in Sessions : log[j] = "sent" \/ tries[j] > 1

-----------------------------------------------------------------------------
Init ==
    /\ main = "login" /\ closing = "no"
    /\ resume = FALSE
    /\ ws = "none" /\ stage = "identify" /\ session = FALSE
    /\ cached = FALSE
    /\ identifies = 0
    /\ task = [k \in Sessions |-> "none"] /\ readyTask = 0
    /\ handler = [k \in Sessions |-> "none"]
    /\ tries = [k \in Sessions |-> 0]
    /\ flight = [k \in Sessions |-> "none"]
    /\ log = [k \in Sessions |-> "none"]
    /\ posted = 0
    /\ faults = 0 /\ met = {}

(* client.start: the token is tried, then the connection is made. *)
Login ==
    /\ main = "login"
    /\ \/ main' = "connect" /\ UNCHANGED <<closing, budget>>
       \/ Leave /\ Fault("login")
    /\ UNCHANGED <<gateway, ready, handler, post>>

(* A connection is made, up to IDENTIFY or RESUME. *)
Connect ==
    /\ main = "connect" /\ closing # "done"
    /\ main' = "poll" /\ ws' = "up"
    /\ \/ resume /\ stage' = "resume" /\ UNCHANGED identifies
       \/ ~ resume /\ stage' = "identify" /\ identifies' = identifies + 1
    /\ UNCHANGED <<resume, session, ready, handler, post, closing, budget>>

(* It is not made.  The next one is to resume, with what is in client.ws;  *)
(* when there is nothing yet, reading it raises.                           *)
ConnectFails ==
    /\ main = "connect"
    /\ Fault("connect")
    /\ \/ ws = "none" /\ Leave /\ UNCHANGED resume
       \/ ws # "none" /\ Again /\ resume' = TRUE
       \/ /\ ws # "none" /\ closing = "no"
          /\ main' = "backoff" /\ resume' = TRUE /\ UNCHANGED closing
    /\ UNCHANGED <<ws, stage, session, identifies, ready, handler, post>>

(* Once the HTTP session is closed, making one raises. *)
ConnectClosed ==
    /\ main = "connect" /\ closing = "done"
    /\ Leave
    /\ UNCHANGED <<gateway, ready, handler, post, budget>>

(* The sleep before another attempt is over. *)
BackoffEnds ==
    /\ main = "backoff"
    /\ Again
    /\ UNCHANGED <<gateway, ready, handler, post, budget>>

-----------------------------------------------------------------------------
(* What the gateway sends, and what becomes of the connection. *)

\* A variant with a bug: the task that waits is left alone.
ParseReadyKeeps(k) ==
    /\ task' = [task EXCEPT ![k] = "wait"]
    /\ readyTask' = k
    /\ cached' = FALSE

\* parse_ready: a task that waits is cancelled, and a new one is created.
ParseReady(k) ==
    /\ task' = [j \in Sessions |->
                    IF j = k THEN "wait"
                    ELSE IF j = readyTask /\ task[j] = "wait" THEN "cancelled"
                    ELSE task[j]]
    /\ readyTask' = k
    /\ cached' = FALSE

(* READY: the cache is cleared; the guilds are known, their channels not.  *)
Ready ==
    /\ Connected /\ stage = "identify"
    /\ stage' = "live" /\ session' = TRUE
    /\ ParseReady(identifies)
    /\ UNCHANGED <<main, resume, ws, identifies, handler, post, closing,
                   budget>>

(* A variant with a bug: a session that is resumed is taken for ready. *)
ResumedReady ==
    /\ Connected /\ stage = "resume" /\ session
    /\ stage' = "live"
    /\ handler' = [handler EXCEPT ![identifies] = "new"]
    /\ UNCHANGED <<main, resume, ws, session, identifies, ready, post,
                   closing, budget>>

(* RESUMED, if there was a session to resume. *)
Resumed ==
    /\ Connected /\ stage = "resume" /\ session
    /\ stage' = "live"
    /\ UNCHANGED <<main, resume, ws, session, identifies, ready, handler,
                   post, closing, budget>>

(* GUILD_CREATE brings the channels. *)
GuildCreate ==
    /\ Connected /\ stage = "live" /\ ~ cached
    /\ cached' = TRUE
    /\ UNCHANGED <<main, gateway, task, readyTask, handler, post, closing,
                   budget>>

(* Op 9: the session cannot be resumed; the client asks for another. *)
Invalidate ==
    /\ Connected
    /\ \/ stage = "resume" /\ ~ session /\ UNCHANGED budget
       \/ Fault("invalid")
    /\ session' = FALSE /\ resume' = FALSE /\ ws' = "lost"
    /\ Again
    /\ UNCHANGED <<stage, identifies, ready, handler, post>>

(* A variant with a bug: a connection that is lost is not made again. *)
DropEnds ==
    /\ Connected
    /\ Fault("drop")
    /\ ws' = "lost"
    /\ Leave
    /\ UNCHANGED <<resume, stage, session, identifies, ready, handler, post>>

(* Op 7, op 9 for a session that can be resumed, a missing heartbeat, a    *)
(* read that times out, a code for reconnecting: the client reconnects.    *)
Drop ==
    /\ Connected
    /\ Fault("drop")
    /\ ws' = "lost" /\ resume' = TRUE
    /\ Again
    /\ UNCHANGED <<stage, session, identifies, ready, handler, post>>

(* Codes 4004 and 4010 to 4014 end the client; 1000 is for trying again. *)
Refuse ==
    /\ Connected
    /\ Fault("refuse")
    /\ ws' = "lost"
    /\ \/ Leave /\ UNCHANGED resume
       \/ /\ closing = "no"
          /\ main' = "backoff" /\ resume' = TRUE /\ UNCHANGED closing
    /\ UNCHANGED <<stage, session, identifies, ready, handler, post>>

(* The client has closed the connection: connect returns. *)
PollClosed ==
    /\ main = "poll" /\ ws = "lost"
    /\ Leave
    /\ UNCHANGED <<gateway, ready, handler, post, budget>>

-----------------------------------------------------------------------------
(* A task that is cancelled ends; whichever it is, readyTask is reset. *)
ReadyCancelled(k) ==
    /\ task[k] = "cancelled"
    /\ task' = [task EXCEPT ![k] = "over"]
    /\ readyTask' = 0
    /\ UNCHANGED <<main, gateway, cached, handler, post, closing, budget>>

(* A variant with a bug: the task ends as if it had been cancelled. *)
ReadyTimeoutSilent(k) ==
    /\ task[k] = "wait"
    /\ task' = [task EXCEPT ![k] = "over"]
    /\ readyTask' = 0
    /\ UNCHANGED <<main, gateway, cached, handler, post, closing, budget>>

(* No guild has come in for two seconds: on_ready is dispatched. *)
ReadyTimeout(k) ==
    /\ task[k] = "wait"
    /\ task' = [task EXCEPT ![k] = "over"]
    /\ readyTask' = 0
    /\ handler' = [handler EXCEPT ![k] = "new"]
    /\ UNCHANGED <<main, gateway, cached, post, closing, budget>>

-----------------------------------------------------------------------------
(* on_ready. *)

\* The handler logs a line and closes the client.
Finish(k, line) ==
    /\ handler' = [handler EXCEPT ![k] = "close"]
    /\ log' = [log EXCEPT ![k] = line]
    /\ Close

(* The channel is looked up in the cache. *)
Lookup(k) ==
    /\ handler[k] = "new"
    /\ \/ /\ cached
          /\ handler' = [handler EXCEPT ![k] = "wait"]
          /\ UNCHANGED <<log, closing>>
       \/ ~ cached /\ Finish(k, "nochannel")
    /\ UNCHANGED <<main, gateway, ready, tries, flight, posted, budget>>

(* The request is made, or repeated after a pause. *)
Request(k) ==
    /\ \/ handler[k] = "wait" /\ Unlimited(k)
       \/ handler[k] = "pause"
    /\ \/ /\ closing # "done"
          /\ handler' = [handler EXCEPT ![k] = "send"]
          /\ tries' = [tries EXCEPT ![k] = @ + 1]
          /\ flight' = [flight EXCEPT ![k] = "sent"]
          /\ UNCHANGED <<log, closing>>
       \/ /\ closing = "done"
          /\ Finish(k, "error")
          /\ UNCHANGED <<tries, flight>>
    /\ UNCHANGED <<main, gateway, ready, posted, budget>>

(* Discord stores the message, whatever has become of the client since. *)
Store(k) ==
    /\ flight[k] = "sent"
    /\ flight' = [flight EXCEPT ![k] = "stored"]
    /\ posted' = posted + 1
    /\ UNCHANGED <<main, gateway, ready, handler, tries, log, closing, budget>>

(* The answer comes. *)
Sent(k) ==
    /\ handler[k] = "send" /\ flight[k] = "stored" /\ closing # "done"
    /\ Finish(k, "sent")
    /\ UNCHANGED <<main, gateway, ready, tries, flight, posted, budget>>

(* A variant with a bug: the request is repeated once too often. *)
BusyOnceMore(k) ==
    /\ handler[k] = "send" /\ closing # "done"
    /\ Fault("busy")
    /\ flight' = [flight EXCEPT ![k] = "none"]
    /\ \/ /\ tries[k] <= MaxTries
          /\ handler' = [handler EXCEPT ![k] = "pause"]
          /\ UNCHANGED <<log, closing>>
       \/ tries[k] > MaxTries /\ Finish(k, "error")
    /\ UNCHANGED <<main, gateway, ready, tries, posted>>

(* An answer 5xx, with the message stored or not, or 429. *)
Busy(k) ==
    /\ handler[k] = "send" /\ closing # "done"
    /\ Fault("busy")
    /\ flight' = [flight EXCEPT ![k] = "none"]
    /\ \/ /\ tries[k] < MaxTries
          /\ handler' = [handler EXCEPT ![k] = "pause"]
          /\ UNCHANGED <<log, closing>>
       \/ tries[k] = MaxTries /\ Finish(k, "error")
    /\ UNCHANGED <<main, gateway, ready, tries, posted>>

(* Any other error, or the connection is cut when the client closes. *)
SendFails(k) ==
    /\ handler[k] = "send"
    /\ \/ Fault("send")
       \/ closing = "done" /\ UNCHANGED budget
    /\ Finish(k, "error")
    /\ UNCHANGED <<main, gateway, ready, tries, flight, posted>>

(* The client is closed. *)
HandlerEnds(k) ==
    /\ handler[k] = "close" /\ closing = "done"
    /\ handler' = [handler EXCEPT ![k] = "over"]
    /\ UNCHANGED <<main, gateway, ready, post, closing, budget>>

-----------------------------------------------------------------------------
\* A connection that is closed from this side.
Hangup == ws' = IF ws = "up" THEN "lost" ELSE ws

(* _close: the websocket first. *)
CloseWs ==
    /\ closing = "ws"
    /\ closing' = "http"
    /\ Hangup
    /\ UNCHANGED <<main, resume, stage, session, identifies, ready, handler,
                   post, budget>>

(* A variant with a bug: the HTTP session is left open. *)
CloseNoHttp ==
    /\ closing = "http"
    /\ closing' = "done"
    /\ UNCHANGED <<main, gateway, ready, handler, post, budget>>

(* Then the HTTP session, with every connection made through it. *)
CloseHttp ==
    /\ closing = "http"
    /\ closing' = "done"
    /\ Hangup
    /\ UNCHANGED <<main, resume, stage, session, identifies, ready, handler,
                   post, budget>>

(* A variant with a bug: send_message does not close the client itself. *)
ReturnUnclosed ==
    /\ main = "close"
    /\ main' = "done"
    /\ task' = [k \in Sessions |-> "over"]
    /\ handler' = [k \in Sessions |-> "over"]
    /\ readyTask' = 0
    /\ UNCHANGED <<gateway, cached, post, closing, budget>>

(* send_message returns, and asyncio.run cancels what is left. *)
Return ==
    /\ main = "close" /\ closing = "done"
    /\ main' = "done"
    /\ task' = [k \in Sessions |-> "over"]
    /\ handler' = [k \in Sessions |-> "over"]
    /\ readyTask' = 0
    /\ UNCHANGED <<gateway, cached, post, closing, budget>>

-----------------------------------------------------------------------------
Client ==
    \/ Login \/ Connect \/ ConnectFails \/ ConnectClosed \/ BackoffEnds
    \/ PollClosed \/ Return

Gateway == Ready \/ Resumed \/ GuildCreate \/ Invalidate \/ Drop \/ Refuse

OnReady(k) ==
    \/ Lookup(k) \/ Request(k) \/ Sent(k) \/ Busy(k) \/ SendFails(k)
    \/ HandlerEnds(k)

ReadyTask(k) == ReadyCancelled(k) \/ ReadyTimeout(k)

Next ==
    \/ Client \/ Gateway \/ CloseWs \/ CloseHttp
    \/ \E k \in Sessions : ReadyTask(k) \/ OnReady(k) \/ Store(k)

Spec == Init /\ [][Next]_vars

(* The event loop runs what can run, sleeps and time-outs end, and Discord *)
(* stores a message before it answers; READY need never come.              *)
Fairness ==
    /\ WF_vars(Client)
    /\ WF_vars(CloseWs) /\ WF_vars(CloseHttp)
    /\ \A k \in Sessions :
          WF_vars(ReadyTask(k)) /\ WF_vars(OnReady(k)) /\ WF_vars(Store(k))

FairSpec == Spec /\ Fairness
=============================================================================
