-------------------------------- MODULE Agent --------------------------------
(***************************************************************************)
(* One game server machine, from the build of its image on: the agent on   *)
(* it (agent.py, a Flask server in a thread of its own beside a Discord    *)
(* bot in the main thread), the files and firewall the agent works on,     *)
(* systemd, which restarts the agent, and init6, which reads its           *)
(* configuration when it starts.                                           *)
(*                                                                         *)
(* Packer installs and starts the agent, then loads and saves the rules of *)
(* a firewall that drops everything that comes from AWS.  As long as the   *)
(* configuration has a placeholder for the place the agent opens that      *)
(* firewall when it starts, so that the orchestrator can reach it; the     *)
(* orchestrator's one request to a machine that runs from the image fills  *)
(* the placeholder in, closes the firewall and reboots the machine.        *)
(***************************************************************************)
EXTENDS Naturals

CONSTANTS
    Updates,     \* the requests for /update-location
    Activities,  \* the requests for /d2_activity
    Faults,      \* the kinds of fault that may happen
    MaxFaults,   \* bound on the number of faults
    MaxStarts    \* how often systemd starts the agent after a boot

FaultKinds ==
    { "flush",   \* nft flush ruleset fails
      "nft",     \* nft -f fails
      "reboot",  \* sudo reboot fails
      "send",    \* Discord refuses a message
      "bot",     \* the bot raises: Discord refuses its token, or later
      "init6" }  \* init6 crashes

ASSUME AgentAssumption ==
    /\ Updates \cap Activities = {}
    /\ Faults \subseteq FaultKinds
    /\ MaxFaults \in Nat /\ MaxStarts \in Nat

VARIABLES
    build,      \* the play Packer is at, "image" on a machine from the image
    saved,      \* whether nftables.conf, loaded at boot, has the rules
    config,     \* the text of init6.conf
    rules,      \* whether the firewall drops what comes from AWS
    rebooting,  \* whether the machine is going down to come up again
    rebooted,   \* whether it has done so
    init6,      \* the configuration init6 runs with, or "down"
    main,       \* the step of the agent's main thread
    starts,     \* how often systemd has started the agent since the boot
    loop,       \* whether discord_loop is set
    bot,        \* how far the bot is: "new", "login", "ready"
    pc,         \* the step of every request's thread
    text,       \* what an update's thread has read of init6.conf
    answer,     \* the answer to every request
    overlapped, \* history: whether an update came while one was handled
    faults, met \* how many faults have happened, and of which kinds

image == <<build, saved>>
server == <<rebooting, rebooted, init6>>
machine == <<image, server>>
process == <<main, starts, loop, bot>>
budget == <<faults, met>>
history == <<overlapped, budget>>
vars == <<config, rules, machine, process, pc, text, answer, history>>

Requests == Updates \cup Activities

\* What init6.conf may hold: the placeholder, a place, or nothing.
Texts == {"template", "named", "empty"}

Plays == {"agent", "nginx", "block", "blockmore", "save", "bake", "image",
          "failed"}

MainSteps == {"off", "read", "flush", "serve", "getloop", "bot"}

UpdateSteps == {"read", "open", "write", "nft", "reboot", "reply"}

Steps == {"new", "over", "call", "wait"} \cup UpdateSteps

-----------------------------------------------------------------------------
Fault(f) ==
    /\ f \in Faults
    /\ faults < MaxFaults
    /\ faults' = faults + 1
    /\ met' = met \cup {f}

\* Flask answers on port 8889.
Serving == main \in {"getloop", "bot"} /\ ~ rebooting

Handling == {u \in Updates : pc[u] \in UpdateSteps}

Goto(r, from, to) ==
    /\ pc[r] = from
    /\ pc' = [pc EXCEPT ![r] = to]

Answer(r, from, a) ==
    /\ Goto(r, from, "over")
    /\ answer' = [answer EXCEPT ![r] = a]

BuildGoto(from, to) ==
    /\ build = from
    /\ build' = to

MainGoto(from, to) ==
    /\ main = from
    /\ main' = to

\* The requests' threads are daemons: they end with the process.
ThreadsEnd ==
    pc' = [r \in Requests |-> IF pc[r] = "new" THEN "new" ELSE "over"]

\* The process is gone.
ProcessEnds ==
    /\ main' = "off"
    /\ loop' = FALSE /\ bot' = "new"
    /\ ThreadsEnd

-----------------------------------------------------------------------------
Init ==
    /\ build = "agent" /\ saved = FALSE
    /\ config = "template" /\ rules = FALSE
    /\ rebooting = FALSE /\ rebooted = FALSE
    /\ init6 = "down"
    /\ main = "off" /\ starts = 0
    /\ loop = FALSE /\ bot = "new"
    /\ pc = [r \in Requests |-> "new"]
    /\ text = [u \in Updates |-> "template"]
    /\ answer = [r \in Requests |-> "none"]
    /\ overlapped = FALSE
    /\ faults = 0 /\ met = {}

(* The play of agent.yaml enables the agent's service. *)
AgentPlay ==
    /\ BuildGoto("agent", "nginx")
    /\ UNCHANGED <<saved, config, rules, server, process, pc, text, answer,
                   history>>

(* A variant with a bug: the play is over before the agent has started. *)
NginxPlayShort ==
    /\ BuildGoto("nginx", "block")
    /\ UNCHANGED <<saved, config, rules, server, process, pc, text, answer,
                   history>>

(* The play of nginx.yaml takes minutes, in which the agent starts and     *)
(* perhaps ends.                                                           *)
NginxPlay ==
    /\ BuildGoto("nginx", "block")
    /\ starts > 0 /\ main \in {"bot", "off"}
    /\ UNCHANGED <<saved, config, rules, server, process, pc, text, answer,
                   history>>

(* iptables.yaml makes table and chain, with the first of the rules ...    *)
Block ==
    /\ BuildGoto("block", "blockmore")
    /\ rules' = TRUE
    /\ UNCHANGED <<saved, config, server, process, pc, text, answer, history>>

(* ... adds the others, which fails once the chain is gone ...             *)
BlockMore ==
    /\ BuildGoto("blockmore", IF rules THEN "save" ELSE "failed")
    /\ UNCHANGED <<saved, config, rules, server, process, pc, text, answer,
                   history>>

(* ... and saves what there is.                                            *)
Save ==
    /\ BuildGoto("save", "bake")
    /\ saved' = rules
    /\ UNCHANGED <<config, rules, server, process, pc, text, answer, history>>

(* The image is made, and the machine is one that boots from it. *)
Bake ==
    /\ BuildGoto("bake", "image")
    /\ rules' = saved
    /\ starts' = 0
    /\ ProcessEnds
    /\ UNCHANGED <<saved, config, server, text, answer, history>>

-----------------------------------------------------------------------------
(* systemd starts the agent, until its limit is met. *)
Start ==
    /\ build # "agent"
    /\ MainGoto("off", "read")
    /\ ~ rebooting
    /\ starts < MaxStarts
    /\ starts' = starts + 1
    /\ UNCHANGED <<config, rules, machine, loop, bot, pc, text, answer,
                   history>>

(* A variant with a bug: the firewall is opened whatever the file says. *)
ReadConfigUnread ==
    /\ MainGoto("read", "flush")
    /\ UNCHANGED <<config, rules, machine, starts, loop, bot, pc, text, answer,
                   history>>

(* The agent looks for the placeholder. *)
ReadConfig ==
    /\ MainGoto("read", IF config = "template" THEN "flush" ELSE "serve")
    /\ UNCHANGED <<config, rules, machine, starts, loop, bot, pc, text, answer,
                   history>>

(* nft flush ruleset; a failure is only logged. *)
Flush ==
    /\ MainGoto("flush", "serve")
    /\ \/ rules' = FALSE /\ UNCHANGED budget
       \/ Fault("flush") /\ UNCHANGED rules
    /\ UNCHANGED <<config, machine, starts, loop, bot, pc, text, answer,
                   overlapped>>

(* The thread of the Flask server starts. *)
Serve ==
    /\ MainGoto("serve", "getloop")
    /\ UNCHANGED <<config, rules, machine, starts, loop, bot, pc, text, answer,
                   history>>

(* Only then is discord_loop set. *)
GetLoop ==
    /\ MainGoto("getloop", "bot")
    /\ loop' = TRUE
    /\ UNCHANGED <<config, rules, machine, starts, bot, pc, text, answer,
                   history>>

(* bot.start begins to log in. *)
BotStart ==
    /\ main = "bot" /\ bot = "new"
    /\ bot' = "login"
    /\ UNCHANGED <<config, rules, machine, main, starts, loop, pc, text,
                   answer, history>>

(* Discord lets the bot in, which it need not do. *)
BotReady ==
    /\ main = "bot" /\ bot = "login"
    /\ bot' = "ready"
    /\ UNCHANGED <<config, rules, machine, main, starts, loop, pc, text,
                   answer, history>>

(* A variant with a bug: an exception of the bot is only logged. *)
BotEndsUnseen ==
    /\ main = "bot" /\ bot \in {"login", "ready"}
    /\ Fault("bot")
    /\ bot' = "ended"
    /\ UNCHANGED <<config, rules, machine, main, starts, loop, pc, text,
                   answer, overlapped>>

(* The token is refused, or the bot raises later: the main thread ends.    *)
BotEnds ==
    /\ main = "bot" /\ bot \in {"login", "ready"}
    /\ Fault("bot")
    /\ ProcessEnds
    /\ UNCHANGED <<config, rules, machine, starts, text, answer, overlapped>>

-----------------------------------------------------------------------------
(* The orchestrator's request gets through the firewall. *)
Receive(u) ==
    /\ build = "image"
    /\ Serving /\ ~ rules
    /\ Goto(u, "new", "read")
    /\ overlapped' = (overlapped \/ Handling # {})
    /\ UNCHANGED <<config, rules, machine, process, text, answer, budget>>

ReadFile(u) ==
    /\ Goto(u, "read", "open")
    /\ text' = [text EXCEPT ![u] = config]
    /\ UNCHANGED <<config, rules, machine, process, answer, history>>

(* open(CONFIG_PATH, "w") empties the file. *)
Open(u) ==
    /\ Goto(u, "open", "write")
    /\ config' = "empty"
    /\ UNCHANGED <<rules, machine, process, text, answer, history>>

(* A variant with a bug: what was read is written back. *)
WriteBack(u) ==
    /\ Goto(u, "write", "nft")
    /\ config' = IF text[u] = "empty" THEN config ELSE text[u]
    /\ UNCHANGED <<rules, machine, process, text, answer, history>>

(* The text is written with its placeholder filled in; all updates of one  *)
(* machine carry the same place and address.                               *)
Write(u) ==
    /\ Goto(u, "write", "nft")
    /\ config' = IF text[u] = "empty" THEN config ELSE "named"
    /\ UNCHANGED <<rules, machine, process, text, answer, history>>

(* A variant with a bug: the exit status of nft is not looked at. *)
RestoreUnchecked(u) ==
    /\ Goto(u, "nft", "reboot")
    /\ \/ rules' = (rules \/ saved) /\ UNCHANGED budget
       \/ Fault("nft") /\ UNCHANGED rules
    /\ UNCHANGED <<config, machine, process, text, answer, overlapped>>

(* nft -f adds the saved rules to those there are. *)
Restore(u) ==
    /\ \/ /\ Goto(u, "nft", "reboot")
          /\ rules' = (rules \/ saved)
          /\ UNCHANGED <<answer, budget>>
       \/ /\ Answer(u, "nft", "error")
          /\ Fault("nft")
          /\ UNCHANGED rules
    /\ UNCHANGED <<config, machine, process, text, overlapped>>

(* sudo reboot, which returns before the machine goes down. *)
Reboot(u) ==
    /\ \/ /\ Goto(u, "reboot", "reply")
          /\ rebooting' = TRUE
          /\ UNCHANGED <<answer, budget>>
       \/ /\ Answer(u, "reboot", "error")
          /\ Fault("reboot")
          /\ UNCHANGED rebooting
    /\ UNCHANGED <<image, config, rules, rebooted, init6, process, text,
                   overlapped>>

(* The answer, when it comes before the machine is down. *)
Reply(u) ==
    /\ Answer(u, "reply", "ok")
    /\ UNCHANGED <<config, rules, machine, process, text, history>>

-----------------------------------------------------------------------------
(* WarCast, on the same machine, has a message to post. *)
ReceiveActivity(a) ==
    /\ build = "image"
    /\ Serving
    /\ Goto(a, "new", "call")
    /\ UNCHANGED <<config, rules, machine, process, text, answer, history>>

(* The coroutine goes to discord_loop, or raises when there is none yet. *)
Call(a) ==
    /\ \/ loop /\ Goto(a, "call", "wait") /\ UNCHANGED answer
       \/ ~ loop /\ Answer(a, "call", "error")
    /\ UNCHANGED <<config, rules, machine, process, text, history>>

(* It waits for the bot, without limit, unless the bot has not begun to    *)
(* log in, which raises; then it posts the message.                        *)
Post(a) ==
    /\ main = "bot"
    /\ \/ bot = "new" /\ Answer(a, "wait", "error") /\ UNCHANGED budget
       \/ bot = "ready" /\ Answer(a, "wait", "ok") /\ UNCHANGED budget
       \/ bot = "ready" /\ Answer(a, "wait", "error") /\ Fault("send")
    /\ UNCHANGED <<config, rules, machine, process, text, overlapped>>

-----------------------------------------------------------------------------
(* The machine goes down and comes up, with the firewall's saved rules. *)
Boot ==
    /\ rebooting
    /\ rebooting' = FALSE /\ rebooted' = TRUE
    /\ rules' = saved
    /\ init6' = "down"
    /\ starts' = 0
    /\ ProcessEnds
    /\ UNCHANGED <<image, config, text, answer, history>>

(* systemd starts init6, which does not run without its configuration. *)
StartInit6 ==
    /\ build = "image"
    /\ init6 = "down" /\ ~ rebooting
    /\ config # "empty"
    /\ init6' = config
    /\ UNCHANGED <<image, config, rules, rebooting, rebooted, process, pc,
                   text, answer, history>>

Init6Crashes ==
    /\ init6 # "down"
    /\ init6' = "down"
    /\ Fault("init6")
    /\ UNCHANGED <<image, config, rules, rebooting, rebooted, process, pc,
                   text, answer, overlapped>>

-----------------------------------------------------------------------------
Build == AgentPlay \/ NginxPlay \/ Block \/ BlockMore \/ Save \/ Bake

Main == Start \/ ReadConfig \/ Flush \/ Serve \/ GetLoop \/ BotStart

Discord == BotReady \/ BotEnds

UpdateLocation(u) ==
    \/ ReadFile(u) \/ Open(u) \/ Write(u)
    \/ Restore(u) \/ Reboot(u) \/ Reply(u)

D2Activity(a) == Call(a) \/ Post(a)

Next ==
    \/ Build \/ Main \/ Discord
    \/ \E u \in Updates : Receive(u) \/ UpdateLocation(u)
    \/ \E a \in Activities : ReceiveActivity(a) \/ D2Activity(a)
    \/ Boot \/ StartInit6 \/ Init6Crashes

Spec == Init /\ [][Next]_vars

(* Threads that run go on, systemd starts what is down, and a machine that *)
(* reboots comes up.  What Discord does is not fair: a bot that gets no    *)
(* connection tries again for ever, and is never ready.                    *)
Fairness ==
    /\ WF_vars(Main)
    /\ \A u \in Updates : WF_vars(UpdateLocation(u))
    /\ \A a \in Activities : WF_vars(D2Activity(a))
    /\ WF_vars(Boot)
    /\ WF_vars(StartInit6)

FairSpec == Spec /\ Fairness
=============================================================================
