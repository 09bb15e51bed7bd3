--------------------------- MODULE AgentProperties ---------------------------
(***************************************************************************)
(* What the agent of module Agent promises about its machine.              *)
(***************************************************************************)
EXTENDS Agent

\* Until now updates have not overlapped and the agent has not been stopped.
Calm == ~ overlapped /\ "bot" \notin met

(* Every variable of the agent and its machine keeps its type. *)
TypeOK ==
    /\ build \in Plays /\ saved \in BOOLEAN
    /\ config \in Texts
    /\ rules \in BOOLEAN /\ rebooting \in BOOLEAN /\ rebooted \in BOOLEAN
    /\ init6 \in {"down", "template", "named"}
    /\ main \in MainSteps
    /\ starts \in Nat
    /\ loop \in BOOLEAN
    /\ bot \in {"new", "login", "ready"}
    /\ pc \in [Requests -> Steps]
    /\ text \in [Updates -> Texts]
    /\ answer \in [Requests -> {"none", "ok", "error"}]
    /\ overlapped \in BOOLEAN
    /\ faults \in Nat /\ met \subseteq Faults

(* An image comes with its firewall rules (readme.md:187-193), although    *)
(* the agent is at work when they are loaded and saved (agent.yaml:43-47,  *)
(* iptables.yaml:16-8446): unless it is started over, it has opened the    *)
(* firewall for the last time before the first rule.                       *)
ImageGuarded == "bot" \notin met /\ build = "image" => saved

(* Once the placeholder is gone nothing opens the firewall again, whatever *)
(* overlaps, fails or restarts: the agent decides on what it read when it  *)
(* started (agent.py:88-95) and takes requests only after that (97-98).    *)
FirewallKept == [][config # "template" /\ rules => rules']_vars

(* The firewall is open only as long as the machine has no name, but for   *)
(* the moment between agent.py:62 and 66, unless an update was answered    *)
(* with an error.  It takes updates that have not overlapped and an agent  *)
(* that has not been stopped.                                              *)
OpenOnlyUnnamed ==
    Calm /\ ~ rules
        => \/ config = "template"
           \/ \E u \in Updates :
                 pc[u] \in {"write", "nft"} \/ answer[u] = "error"

(* "Location updated successfully ... and nftables restored", says the     *)
(* answer (agent.py:71), and it stays true, across the reboot as well: so  *)
(* long as updates do not overlap and the agent is not stopped.            *)
OkMeansNamed ==
    Calm /\ (\E u \in Updates : answer[u] = "ok")
        => config = "named" /\ rules

(* After the reboot no player is shown the placeholder (init6.conf:87),    *)
(* whatever overlaps and fails: init6 runs with the name or not at all.    *)
NamedAfterReboot == rebooted => init6 # "template"

-----------------------------------------------------------------------------
(* The machine as module Naming sees it: its files and firewall matter     *)
(* from the moment it is told to reboot.                                   *)
Ordered == rebooting \/ rebooted

N == INSTANCE Naming
        WITH stage <- IF rebooted THEN "back"
                      ELSE IF rebooting THEN "going" ELSE "new",
             place <- IF Ordered THEN config ELSE "template",
             gate <- Ordered /\ rules,
             shown <- IF rebooted THEN init6 ELSE "down",
             sound <- Calm

(* update-location is one step, as module Naming has it: the machine is    *)
(* told to reboot only with its place on disk and its firewall closed, and *)
(* then both stay as they are, whatever nft, reboot and init6 do           *)
(* (agent.py:53-69, 88-95), as long as updates have not overlapped and the *)
(* agent has not been stopped; when they have, a firewall that is closed   *)
(* still stays closed, and no placeholder is shown.                        *)
KeepsNaming == N!Spec

-----------------------------------------------------------------------------
\* The machine has its name, its firewall is closed and init6 shows it.
Settled == config = "named" /\ rules /\ init6 = "named" /\ ~ rebooting

(* A machine that has been rebooted with its name on disk takes it up and  *)
(* keeps it, if its image has the rules: no update can reach it any more,  *)
(* and restarts of the agent and of init6 leave file and firewall alone    *)
(* (agent.py:68-69, 88-95).                                                *)
UpdateSettles == (rebooted /\ config = "named" /\ saved) ~> []Settled

(* A message of WarCast waits for ever, if it does, for one reason only:   *)
(* the bot has begun to log in and is neither let in nor ended any more    *)
(* (agent.py:36-37, warnet.py:31, 42-43), for future.result() has no limit *)
(* and the bot's connection is tried again without end.  An update never   *)
(* waits for the bot and always ends (agent.py:53-79).                     *)
RequestsEnd ==
    /\ \A u \in Updates : pc[u] # "new" ~> pc[u] = "over"
    /\ \A a \in Activities :
          pc[a] # "new" ~> \/ pc[a] = "over"
                          \/ [](pc[a] = "wait" /\ bot = "login")
=============================================================================
