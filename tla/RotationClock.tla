---------------------------- MODULE RotationClock ----------------------------
(***************************************************************************)
(* One run of the orchestrator and the machine it launches, on one clock:  *)
(* the waits of lambda_handler, the limit Lambda sets to it, the two boots *)
(* of the machine, its firewall and the certificate job that cron starts   *)
(* after each boot.  Time passes in ticks of ten seconds.                  *)
(*                                                                         *)
(* The code does not wait for the machine, it only waits long enough; how  *)
(* long Amazon, the machine and the calls take is left to the constants.   *)
(* What fails otherwise is in modules Rotation, Agent and CertRenew.       *)
(***************************************************************************)
EXTENDS Naturals

CONSTANTS        \* how many ticks it may take
    Calls,       \* all of the handler's calls between two of its waits
    Launches,    \* from the launch until EC2 reports the machine as running
    Boots,       \* from there until agent and cron are at work
    Reboots,     \* from the agent's reboot until they are again
    Jobs         \* cert-renew.sh, from its start to its end

ASSUME ClockAssumption ==
    /\ Calls \subseteq Nat /\ Jobs \subseteq Nat /\ Jobs # {}
    /\ Launches \subseteq Nat \ {0}
    /\ Boots \subseteq Nat \ {0} /\ Reboots \subseteq Nat \ {0}

\* What the code and the deployment fix.
Limit == 90      \* Lambda's limit
Polls == 30      \* how often the handler looks whether the machine runs
Settle == 12     \* its sleep before the request to the agent
Rest == 18       \* its sleep after a request that was answered
Hold == 6        \* its sleep before port 6112 is opened
Late == 12       \* its sleep before port 443 is opened
JobDelay == 9    \* cron's sleep before the job
Connect == 13    \* how long Linux tries to connect

VARIABLES
    now,           \* ticks since the run began
    pc, wait,      \* the handler's step and what is left of it
    polls,         \* how often it has looked
    answer,        \* what became of its request
    host, timer,   \* the machine, and what is left of its booting
    took, again,   \* how long its first boot and its reboot take
    named, rules,  \* whether it has its place, and drops what Amazon sends
    job, left,     \* the certificate job, and what is left of it
    synced         \* whether one has reached S3

handler == <<pc, wait, polls, answer>>
machine == <<host, timer, took, again, named, rules>>
cron    == <<job, left, synced>>
vars    == <<now, handler, machine, cron>>

Steps == {"prepare", "poll", "settle", "post", "reply", "rest", "sweep",
          "hold", "announce", "late"}

Ends == {"done", "failed", "stopped"}

\* Steps that may never be over: nothing limits the time of a request.
Endless == {"reply", "hung"}

-----------------------------------------------------------------------------
\* The handler goes on to step s, which takes one of the times in T.
Goto(s, T) ==
    /\ pc' = s
    /\ wait' \in T

\* The handler is through with step s.
Through(s) == pc = s /\ wait = 0

Init ==
    /\ now = 0
    /\ pc = "prepare" /\ wait \in Calls
    /\ polls = 0 /\ answer = "none"
    /\ host = "none" /\ timer = 0 /\ took = 0 /\ again = 0
    /\ named = FALSE /\ rules = TRUE
    /\ job = "off" /\ left = 0 /\ synced = FALSE

(* run_instances, after the calls that prepare it. *)
Launch ==
    /\ Through("prepare")
    /\ Goto("poll", {0})
    /\ host' = "pending" /\ timer' \in Launches
    /\ UNCHANGED <<now, polls, answer, took, again, named, rules, cron>>

\* What describe_instances calls running.
Running == host \in {"booting", "up"}

\* The handler looks whether the machine runs: it sleeps for n ticks if so,
\* else for m ticks before it looks again, until it has looked often enough.
Look(n, m) ==
    /\ Through("poll")
    /\ \/ /\ polls < Polls /\ Running
          /\ Goto("settle", {n}) /\ UNCHANGED polls
       \/ /\ polls < Polls /\ ~ Running
          /\ Goto("poll", {m}) /\ polls' = polls + 1
       \/ /\ polls = Polls
          /\ Goto("failed", {0}) /\ UNCHANGED polls
    /\ UNCHANGED <<now, answer, machine, cron>>

(* A variant with a bug: it sleeps for twenty seconds between two looks. *)
PollSlow == Look(Settle, 2)

(* A variant with a bug: the machine gets ten seconds to come up. *)
PollShort == Look(1, 1)

(* A variant with a bug: the looks are not counted. *)
PollOn ==
    /\ Through("poll")
    /\ \/ Running /\ Goto("settle", {Settle}) /\ UNCHANGED polls
       \/ ~ Running /\ Goto("poll", {1}) /\ polls' = polls + 1
    /\ UNCHANGED <<now, answer, machine, cron>>

(* wait_for_instance_running, and the sleep after it. *)
Poll == Look(Settle, 1)

(* requests.post begins to connect to the agent. *)
Post ==
    /\ Through("settle")
    /\ Goto("post", {Connect})
    /\ UNCHANGED <<now, polls, answer, machine, cron>>

(* The agent takes the request: it fills the place in, closes the firewall *)
(* and reboots the machine, and with it ends what cron has started.        *)
Deliver ==
    /\ pc = "post" /\ host = "up" /\ ~ rules
    /\ Goto("reply", {1})
    /\ named' = TRUE /\ rules' = TRUE
    /\ host' = "booting" /\ timer' \in Reboots /\ again' = timer'
    /\ job' = "off" /\ left' = 0
    /\ UNCHANGED <<now, polls, answer, took, synced>>

(* The request raises: nobody listens, or the agent is ended before it has *)
(* answered.  The handler goes on without its long sleep.                  *)
Raise ==
    /\ \/ pc = "post" /\ host = "booting"
       \/ pc = "reply" /\ wait = 1
    /\ Goto("sweep", Calls)
    /\ answer' = "raised"
    /\ UNCHANGED <<now, polls, machine, cron>>

(* A variant with a bug: the answer is taken for the end of the reboot. *)
AnswerNoRest ==
    /\ pc = "reply" /\ wait = 1
    /\ Goto("sweep", Calls)
    /\ answer' = "ok"
    /\ UNCHANGED <<now, polls, machine, cron>>

(* The agent answers before it is ended.  When neither its answer nor its  *)
(* end gets through the handler waits on.                                  *)
Answer ==
    /\ pc = "reply" /\ wait = 1
    /\ Goto("rest", {Rest})
    /\ answer' = "ok"
    /\ UNCHANGED <<now, polls, machine, cron>>

(* The handler goes on: it retires the other servers and moves the name,   *)
(* opens port 6112, announces the machine and opens port 443.              *)
GoOn ==
    /\ \/ Through("rest")     /\ Goto("sweep", Calls)
       \/ Through("sweep")    /\ Goto("hold", {Hold})
       \/ Through("hold")     /\ Goto("announce", Calls)
       \/ Through("announce") /\ Goto("late", {Late})
       \/ Through("late")     /\ Goto("done", {0})
    /\ UNCHANGED <<now, polls, answer, machine, cron>>

(* LocationIQ does not answer, or the client never gets ready. *)
Hang ==
    /\ Through("announce")
    /\ Goto("hung", {0})
    /\ UNCHANGED <<now, polls, answer, machine, cron>>

(* Lambda stops the run. *)
Stop ==
    /\ now = Limit /\ pc \notin Ends
    /\ Goto("stopped", {0})
    /\ UNCHANGED <<now, polls, answer, machine, cron>>

-----------------------------------------------------------------------------
(* EC2 reports the machine as running. *)
Appear ==
    /\ host = "pending" /\ timer = 0
    /\ host' = "booting" /\ timer' \in Boots
    /\ took' = timer'
    /\ UNCHANGED <<now, handler, again, named, rules, cron>>

\* A variant with a bug: the agent opens the firewall whatever the file says.
UpOpen ==
    /\ host = "booting" /\ timer = 0
    /\ host' = "up" /\ rules' = FALSE
    /\ job' = "sleep" /\ left' = JobDelay
    /\ UNCHANGED <<now, handler, timer, took, again, named, synced>>

(* It is up: the agent opens the firewall unless the machine has its       *)
(* place, and cron starts to wait.                                         *)
Up ==
    /\ host = "booting" /\ timer = 0
    /\ host' = "up" /\ rules' = named
    /\ job' = "sleep" /\ left' = JobDelay
    /\ UNCHANGED <<now, handler, timer, took, again, named, synced>>

(* cert-renew.sh starts ... *)
JobStarts ==
    /\ job = "sleep" /\ left = 0
    /\ job' = "work" /\ left' \in Jobs
    /\ UNCHANGED <<now, handler, machine, synced>>

(* ... and ends.  Through the closed firewall it reaches nothing. *)
JobEnds ==
    /\ job = "work" /\ left = 0
    /\ job' = "off"
    /\ synced' = (synced \/ ~ rules)
    /\ UNCHANGED <<now, handler, machine, left>>

-----------------------------------------------------------------------------
\* What does not take any more time happens first.
Due ==
    \/ pc \in Steps \ Endless /\ wait = 0
    \/ pc = "post" /\ host = "up"
    \/ host \in {"pending", "booting"} /\ timer = 0
    \/ job # "off" /\ left = 0

Less(n) == IF n = 0 THEN 0 ELSE n - 1

(* Ten seconds pass. *)
Tick ==
    /\ now < Limit /\ ~ Due
    /\ now' = now + 1
    /\ wait' = Less(wait) /\ timer' = Less(timer) /\ left' = Less(left)
    /\ UNCHANGED <<pc, polls, answer, host, took, again, named, rules,
                   job, synced>>

Handler ==
    \/ Launch \/ Poll \/ Post \/ Deliver \/ Raise \/ Answer \/ GoOn \/ Hang
    \/ Stop

Machine == Appear \/ Up \/ JobStarts \/ JobEnds

Next == Handler \/ Machine \/ Tick

Spec == Init /\ [][Next]_vars
=============================================================================
