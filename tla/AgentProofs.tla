----------------------------- MODULE AgentProofs -----------------------------
(***************************************************************************)
(* Proofs about the agent of module Agent, for every set of requests.      *)
(*                                                                         *)
(* Inv holds whatever overlaps, fails and restarts.  SerialInv holds until *)
(* the first time two updates overlap or the agent is stopped.  Kept, like *)
(* Inv, holds to the end: nothing changes a machine that was rebooted with *)
(* its rules.  The refinement of module Naming rests on it, and on Back.   *)
(***************************************************************************)
EXTENDS AgentProperties, TLAPS

\* The steps after init6.conf has been opened for writing.
Opened == {"write", "nft", "reboot", "reply"}

\* The main thread before it has started Flask.
Starting == {"off", "read", "flush", "serve"}

\* The placeholder is there when the firewall is opened,
\* no update runs before that is over,
\* and once an update has opened the file the placeholder is gone.
Placeholder ==
    /\ main = "flush" => config = "template"
    /\ main \in Starting => \A u \in Updates : pc[u] \notin UpdateSteps
    /\ \A u \in Updates : pc[u] \in Opened => config # "template"
    /\ rebooting \/ rebooted => config # "template"

\* While the image is built nobody sends requests,
\* and the firewall of a machine from the image is the saved one or open.
Baked ==
    /\ build # "image" =>
        config = "template" /\ \A u \in Updates : pc[u] = "new"
    /\ build = "image" /\ rules => saved

Inv == TypeOK /\ Placeholder /\ Baked /\ NamedAfterReboot

\* Updates do not overlap.
Alone ==
    \A u, v \in Updates :
        pc[u] \in UpdateSteps /\ pc[v] \in UpdateSteps => u = v

\* What an update has read and written.
Written ==
    /\ config = "empty" => \E u \in Updates : pc[u] = "write"
    /\ \A u \in Updates :
        /\ pc[u] = "write" => text[u] # "empty"
        /\ pc[u] = "open" => text[u] # "empty"
        /\ pc[u] \in {"nft", "reboot", "reply"} => config = "named"
        /\ pc[u] \in {"reboot", "reply"} => rules

\* When everything is done the firewall keeps further updates out.
Done ==
    /\ rebooting =>
        /\ config = "named" /\ rules
        /\ \A u \in Updates : pc[u] \in UpdateSteps => pc[u] = "reply"
    /\ \A u \in Updates : answer[u] = "ok" =>
        /\ config = "named" /\ rules
        /\ \A v \in Updates : pc[v] \notin UpdateSteps

\* The agent has started for the last time when the rules are loaded.
Built ==
    /\ starts > 0 => main # "off" \/ build = "image"
    /\ build \notin {"agent", "nginx", "image"} => main = "bot"
    /\ build \in {"blockmore", "save"} => rules
    /\ build \in {"bake", "image"} => saved

SerialInv == Inv /\ Alone /\ Written /\ Done /\ Built

OpenInv == SerialInv /\ OpenOnlyUnnamed

-----------------------------------------------------------------------------
LEMMA InvInit == Init => Inv
<1> SUFFICES ASSUME Init PROVE Inv
  OBVIOUS
<1>1. TypeOK
  BY AgentAssumption DEF Init, TypeOK, Texts, Plays, MainSteps, Steps
<1>2. Placeholder /\ Baked /\ NamedAfterReboot
  BY DEF Init, Placeholder, Baked, NamedAfterReboot, UpdateSteps,
         Opened, Requests
<1> QED  BY <1>1, <1>2 DEF Inv

(* Every step keeps the types and what is known of the placeholder. *)
LEMMA InvStep == Inv /\ [Next]_vars => Inv'
<1> SUFFICES ASSUME Inv, [Next]_vars PROVE Inv'
  OBVIOUS
<1> USE AgentAssumption
    DEF Inv, TypeOK, Placeholder, Baked, NamedAfterReboot, Texts, Plays,
        MainSteps, Steps, UpdateSteps, Opened, Starting, Requests, image,
        server, machine, process, budget, history
<1>1. CASE Start
  BY <1>1 DEF Start, MainGoto, machine, process
<1>2. CASE ReadConfig
  BY <1>2 DEF ReadConfig, MainGoto, machine, process
<1>3. CASE Flush
  <2>1. CASE rules' = FALSE /\ UNCHANGED budget
    BY <1>3, <2>1 DEF Flush, MainGoto, machine
  <2>2. CASE Fault("flush") /\ UNCHANGED rules
    BY <1>3, <2>2 DEF Flush, MainGoto, Fault, machine
  <2> QED  BY <1>3, <2>1, <2>2 DEF Flush
<1>4. CASE Serve
  BY <1>4 DEF Serve, MainGoto, machine, process
<1>5. CASE GetLoop
  BY <1>5 DEF GetLoop, MainGoto, machine, process
<1>6. CASE BotStart
  BY <1>6 DEF BotStart, machine, process
<1>7. CASE BotReady
  BY <1>7 DEF BotReady, machine, process
<1>8. CASE BotEnds
  <2> USE <1>8 DEF BotEnds, ProcessEnds, ThreadsEnd, machine, image
  <2>1. faults' \in Nat /\ met' \subseteq Faults  BY DEF Fault
  <2>2. TypeOK'  BY <2>1
  <2>3. (Placeholder /\ Baked /\ NamedAfterReboot)'  OBVIOUS
  <2> QED  BY <2>2, <2>3
<1>9. ASSUME NEW u \in Updates, Receive(u) PROVE Inv'
  BY <1>9 DEF Receive, Goto, Serving, machine, process
<1>10. ASSUME NEW u \in Updates, ReadFile(u) PROVE Inv'
  BY <1>10 DEF ReadFile, Goto, machine, process
<1>11. ASSUME NEW u \in Updates, Open(u) PROVE Inv'
  BY <1>11 DEF Open, Goto, machine, process
<1>12. ASSUME NEW u \in Updates, Write(u) PROVE Inv'
  BY <1>12 DEF Write, Goto, machine, process
<1>13. ASSUME NEW u \in Updates, Restore(u) PROVE Inv'
  <2>1. CASE /\ Goto(u, "nft", "reboot")
             /\ rules' = (rules \/ saved) /\ UNCHANGED <<answer, budget>>
    BY <1>13, <2>1 DEF Restore, Goto, machine, process
  <2>2. CASE Answer(u, "nft", "error") /\ Fault("nft") /\ UNCHANGED rules
    BY <1>13, <2>2 DEF Restore, Goto, Answer, Fault, machine, process
  <2> QED  BY <1>13, <2>1, <2>2 DEF Restore
<1>14. ASSUME NEW u \in Updates, Reboot(u) PROVE Inv'
  <2>1. CASE /\ Goto(u, "reboot", "reply")
             /\ rebooting' = TRUE /\ UNCHANGED <<answer, budget>>
    BY <1>14, <2>1 DEF Reboot, Goto, process
  <2>2. CASE /\ Answer(u, "reboot", "error")
             /\ Fault("reboot") /\ UNCHANGED rebooting
    BY <1>14, <2>2 DEF Reboot, Goto, Answer, Fault, process
  <2> QED  BY <1>14, <2>1, <2>2 DEF Reboot
<1>15. ASSUME NEW u \in Updates, Reply(u) PROVE Inv'
  BY <1>15 DEF Reply, Goto, Answer, machine, process
<1>16. ASSUME NEW a \in Activities, ReceiveActivity(a) PROVE Inv'
  BY <1>16 DEF ReceiveActivity, Goto, Serving, machine, process
<1>17. ASSUME NEW a \in Activities, Call(a) PROVE Inv'
  BY <1>17 DEF Call, Goto, Answer, machine, process
<1>18. ASSUME NEW a \in Activities, Post(a) PROVE Inv'
  BY <1>18 DEF Post, Goto, Answer, Fault, machine, process
<1>19. CASE Boot
  BY <1>19 DEF Boot, ProcessEnds, ThreadsEnd, machine, process
<1>20. CASE StartInit6
  BY <1>20 DEF StartInit6, machine, process
<1>21. CASE Init6Crashes
  BY <1>21 DEF Init6Crashes, Fault, machine, process
<1>22. CASE UNCHANGED vars
  BY <1>22 DEF vars, machine, process
<1>23. CASE AgentPlay
  BY <1>23 DEF AgentPlay, BuildGoto
<1>24. CASE NginxPlay
  BY <1>24 DEF NginxPlay, BuildGoto
<1>25. CASE Block
  BY <1>25 DEF Block, BuildGoto
<1>26. CASE BlockMore
  BY <1>26 DEF BlockMore, BuildGoto
<1>27. CASE Save
  BY <1>27 DEF Save, BuildGoto
<1>28. CASE Bake
  BY <1>28 DEF Bake, BuildGoto, ProcessEnds, ThreadsEnd
<1> QED
  BY <1>1, <1>2, <1>3, <1>4, <1>5, <1>6, <1>7, <1>8, <1>9, <1>10, <1>11,
     <1>12, <1>13, <1>14, <1>15, <1>16, <1>17, <1>18, <1>19, <1>20, <1>21,
     <1>22, <1>23, <1>24, <1>25, <1>26, <1>27, <1>28
  DEF Next, Build, Main, Discord, UpdateLocation, D2Activity

(* Every variable of the agent and its machine keeps its type, whatever    *)
(* overlaps, fails and restarts.                                           *)
THEOREM TypeCorrect == Spec => []TypeOK
<1>1. Inv => TypeOK  BY DEF Inv
<1> QED  BY InvInit, InvStep, <1>1, PTL DEF Spec

(* Whatever overlaps, fails and restarts, init6 does not run with the      *)
(* placeholder once the agent has rebooted the machine.                    *)
THEOREM ShowsNoPlaceholder == Spec => []NamedAfterReboot
<1>1. Inv => NamedAfterReboot  BY DEF Inv
<1> QED  BY InvInit, InvStep, <1>1, PTL DEF Spec

(* Whatever overlaps, fails and restarts, nothing opens the firewall once  *)
(* the placeholder is gone.                                                *)
THEOREM KeepsFirewall == Spec => FirewallKept
<1>1. Inv /\ [Next]_vars => [config # "template" /\ rules => rules']_vars
  <2> SUFFICES ASSUME Inv, [Next]_vars, config # "template", rules
               PROVE  rules'
    OBVIOUS
  <2>1. ~ Flush /\ ~ Bake
    BY DEF Inv, Placeholder, Baked, Flush, MainGoto, Bake, BuildGoto
  <2>4. CASE rules' = saved
    BY <2>4 DEF Inv, Baked
  <2>5. CASE rules' = (rules \/ saved)
    BY <2>5
  <2>2. CASE UNCHANGED rules  BY <2>2
  <2>3. CASE rules' = TRUE  BY <2>3
  <2> QED
    BY <2>1, <2>2, <2>3, <2>4, <2>5
    DEF Next, vars, Build, AgentPlay, NginxPlay, Block, BlockMore, Save,
        Main, Discord, Start, ReadConfig, Serve, GetLoop, BotStart,
        BotReady, BotEnds, Receive, UpdateLocation, ReadFile, Open, Write,
        Restore, Reboot, Reply, ReceiveActivity, D2Activity, Call, Post,
        Boot, StartInit6, Init6Crashes
<1> QED  BY InvInit, InvStep, <1>1, PTL DEF Spec, FirewallKept

-----------------------------------------------------------------------------
(* As long as the agent is not started over the image gets its rules. *)
LEMMA BuiltStep == Inv /\ Built /\ "bot" \notin met' /\ [Next]_vars => Built'
<1> SUFFICES ASSUME Inv, Built, "bot" \notin met', [Next]_vars PROVE Built'
  OBVIOUS
<1> USE DEF Built, Inv, TypeOK, Baked, Plays, image, machine, process
<1>1. CASE Start
  BY <1>1 DEF Start, MainGoto
<1>2. CASE ReadConfig \/ Serve \/ GetLoop \/ BotStart \/ BotReady
  BY <1>2 DEF ReadConfig, Serve, GetLoop, BotStart, BotReady, MainGoto
<1>3. CASE Flush
  BY <1>3 DEF Flush, MainGoto
<1>4. CASE BotEnds
  BY <1>4 DEF BotEnds, Fault
<1>5. ASSUME NEW u \in Updates, Receive(u) \/ UpdateLocation(u)
      PROVE  Built'
  <2>1. build = "image"
    BY <1>5 DEF Receive, UpdateLocation, ReadFile, Open, Write, Restore,
                Reboot, Reply, Goto, Answer
  <2>2. UNCHANGED <<build, saved>>
    BY <1>5 DEF Receive, UpdateLocation, ReadFile, Open, Write, Restore,
                Reboot, Reply
  <2> QED  BY <2>1, <2>2
<1>6. ASSUME NEW a \in Activities, ReceiveActivity(a) \/ D2Activity(a)
      PROVE  Built'
  BY <1>6 DEF ReceiveActivity, D2Activity, Call, Post
<1>7. CASE Boot
  <2>1. build = "image"  BY <1>7 DEF Boot, Placeholder
  <2> QED  BY <1>7, <2>1 DEF Boot
<1>8. CASE StartInit6 \/ Init6Crashes
  BY <1>8 DEF StartInit6, Init6Crashes
<1>9. CASE AgentPlay \/ NginxPlay \/ Block \/ BlockMore
  BY <1>9 DEF AgentPlay, NginxPlay, Block, BlockMore, BuildGoto
<1>10. CASE Save \/ Bake
  BY <1>10 DEF Save, Bake, BuildGoto
<1>11. CASE UNCHANGED vars
  BY <1>11 DEF vars
<1> QED
  BY <1>1, <1>2, <1>3, <1>4, <1>5, <1>6, <1>7, <1>8, <1>9, <1>10, <1>11
  DEF Next, Build, Main, Discord

(* What has happened stays happened. *)
LEMMA MetGrows ==
    [Next]_vars => (overlapped => overlapped') /\ met \subseteq met'
<1> SUFFICES ASSUME [Next]_vars
             PROVE  (overlapped => overlapped') /\ met \subseteq met'
  OBVIOUS
<1>1. ASSUME NEW u \in Updates, Receive(u)
      PROVE  (overlapped => overlapped') /\ met \subseteq met'
  BY <1>1 DEF Receive, budget
<1>2. CASE /\ UNCHANGED overlapped
           /\ UNCHANGED budget \/ \E f \in Faults : Fault(f)
  BY <1>2 DEF budget, Fault
<1>3. ASSUME NEW f, Fault(f) PROVE \E g \in Faults : Fault(g)
  BY <1>3 DEF Fault
<1> QED
  BY <1>1, <1>2, <1>3
  DEF Next, vars, history, Build, AgentPlay, NginxPlay, Block, BlockMore,
      Save, Bake, Main, Discord, Start, ReadConfig, Flush, Serve, GetLoop,
      BotStart, BotReady, BotEnds, UpdateLocation, ReadFile, Open, Write,
      Restore, Reboot, Reply, ReceiveActivity, D2Activity, Call, Post, Boot,
      StartInit6, Init6Crashes

LEMMA CalmBefore == [Next]_vars /\ Calm' => Calm
BY MetGrows DEF Calm

LEMMA SerialInit == Init => SerialInv
BY InvInit, AgentAssumption
DEF Init, SerialInv, Alone, Written, Done, Built, UpdateSteps, Requests

(* An agent that is not stopped and takes one update at a time does not    *)
(* lose its configuration, and when it is done it takes no more updates.   *)
LEMMA SerialStep ==
    Calm' /\ SerialInv /\ [Next]_vars => SerialInv'
<1> SUFFICES ASSUME Calm', SerialInv, [Next]_vars
             PROVE  (Alone /\ Written /\ Done)'
  BY InvStep, BuiltStep DEF SerialInv, Calm
<1> USE AgentAssumption
    DEF SerialInv, Alone, Written, Done, Built, Inv, TypeOK, Placeholder, Baked,
        Texts, Plays, image, server, machine, process,
        UpdateSteps, Opened, Starting, Requests, budget, history
<1>1. CASE Start
  BY <1>1 DEF Start, MainGoto, machine, process
<1>2. CASE ReadConfig
  BY <1>2 DEF ReadConfig, MainGoto, machine, process
<1>3. CASE Flush
  BY <1>3 DEF Flush, MainGoto, Fault, machine, process
<1>4. CASE Serve
  BY <1>4 DEF Serve, MainGoto, machine, process
<1>5. CASE GetLoop
  BY <1>5 DEF GetLoop, MainGoto, machine, process
<1>6. CASE BotStart
  BY <1>6 DEF BotStart, machine, process
<1>7. CASE BotReady
  BY <1>7 DEF BotReady, machine, process
<1>8. CASE BotEnds
  BY <1>8 DEF BotEnds, Calm, Fault
<1>9. ASSUME NEW u \in Updates, Receive(u) PROVE (Alone /\ Written /\ Done)'
  BY <1>9 DEF Receive, Goto, Serving, Handling, Calm, machine, process
<1>10. ASSUME NEW u \in Updates, ReadFile(u) PROVE (Alone /\ Written /\ Done)'
  BY <1>10 DEF ReadFile, Goto, machine, process
<1>11. ASSUME NEW u \in Updates, Open(u) PROVE (Alone /\ Written /\ Done)'
  BY <1>11 DEF Open, Goto, machine, process
<1>12. ASSUME NEW u \in Updates, Write(u) PROVE (Alone /\ Written /\ Done)'
  BY <1>12 DEF Write, Goto, machine, process
<1>13. ASSUME NEW u \in Updates, Restore(u) PROVE (Alone /\ Written /\ Done)'
  BY <1>13 DEF Restore, Goto, Answer, Fault, machine, process
<1>14. ASSUME NEW u \in Updates, Reboot(u) PROVE (Alone /\ Written /\ Done)'
  BY <1>14 DEF Reboot, Goto, Answer, Fault, machine, process
<1>15. ASSUME NEW u \in Updates, Reply(u) PROVE (Alone /\ Written /\ Done)'
  BY <1>15 DEF Reply, Goto, Answer, machine, process
<1>16. ASSUME NEW a \in Activities,
    ReceiveActivity(a) PROVE (Alone /\ Written /\ Done)'
  BY <1>16 DEF ReceiveActivity, Goto, Serving, machine, process
<1>17. ASSUME NEW a \in Activities, Call(a) PROVE (Alone /\ Written /\ Done)'
  BY <1>17 DEF Call, Goto, Answer, machine, process
<1>18. ASSUME NEW a \in Activities, Post(a) PROVE (Alone /\ Written /\ Done)'
  BY <1>18 DEF Post, Goto, Answer, Fault, machine, process
<1>19. CASE Boot
  BY <1>19 DEF Boot, ProcessEnds, ThreadsEnd, machine, process
<1>20. CASE StartInit6
  BY <1>20 DEF StartInit6, machine, process
<1>21. CASE Init6Crashes
  BY <1>21 DEF Init6Crashes, Fault, machine, process
<1>22. CASE UNCHANGED vars
  BY <1>22 DEF vars, machine, process
<1>23. CASE AgentPlay
  BY <1>23 DEF AgentPlay, BuildGoto
<1>24. CASE NginxPlay
  BY <1>24 DEF NginxPlay, BuildGoto
<1>25. CASE Block
  BY <1>25 DEF Block, BuildGoto
<1>26. CASE BlockMore
  BY <1>26 DEF BlockMore, BuildGoto
<1>27. CASE Save
  BY <1>27 DEF Save, BuildGoto
<1>28. CASE Bake
  BY <1>28 DEF Bake, BuildGoto, ProcessEnds, ThreadsEnd
<1> QED
  BY <1>1, <1>2, <1>3, <1>4, <1>5, <1>6, <1>7, <1>8, <1>9, <1>10, <1>11,
     <1>12, <1>13, <1>14, <1>15, <1>16, <1>17, <1>18, <1>19, <1>20, <1>21,
     <1>22, <1>23, <1>24, <1>25, <1>26, <1>27, <1>28
  DEF Next, Build, Main, Discord, UpdateLocation, D2Activity

LEMMA SerialInvariant == Spec => [](Calm => SerialInv)
<1> DEFINE I == Calm => SerialInv
<1>1. Init => I  BY SerialInit
<1>2. I /\ [Next]_vars => I'  BY SerialStep, CalmBefore
<1> QED  BY <1>1, <1>2, PTL DEF Spec

(* An answer "ok" means that the machine has its name and its firewall,    *)
(* from then on.                                                           *)
THEOREM OkNames == Spec => []OkMeansNamed
<1>1. (Calm => SerialInv) => OkMeansNamed
  BY DEF SerialInv, Done, OkMeansNamed
<1> QED  BY SerialInvariant, <1>1, PTL

(* An image comes with its firewall rules unless the agent was started     *)
(* over while it was built.                                                *)
THEOREM GuardsImage == Spec => []ImageGuarded
<1> DEFINE I == Inv /\ ("bot" \notin met => Built)
<1>1. Init => I  BY InvInit DEF Init, Built
<1>2. I /\ [Next]_vars => I'
  <2> SUFFICES ASSUME I, [Next]_vars, "bot" \notin met' PROVE Built'
    BY InvStep
  <2>1. "bot" \notin met  BY MetGrows
  <2> QED  BY <2>1, BuiltStep
<1>3. I => ImageGuarded  BY DEF Built, ImageGuarded
<1> QED  BY <1>1, <1>2, <1>3, PTL DEF Spec

-----------------------------------------------------------------------------
(* Unless an update has failed, the firewall is open only on a machine     *)
(* without a name.                                                         *)
LEMMA OpenStep ==
    Calm /\ Calm' /\ SerialInv /\ OpenOnlyUnnamed /\ [Next]_vars
        => OpenOnlyUnnamed'
<1> DEFINE Goal ==
      \/ config' = "template"
      \/ \E u \in Updates : pc'[u] \in {"write", "nft"} \/ answer'[u] = "error"
<1> SUFFICES ASSUME Calm, Calm', SerialInv, OpenOnlyUnnamed, [Next]_vars,
                    ~ rules'
             PROVE  Goal
  BY DEF OpenOnlyUnnamed
<1> USE AgentAssumption
    DEF OpenOnlyUnnamed, SerialInv, Built, Inv, TypeOK, Placeholder, Baked,
        Texts, Plays, image, server, machine, process,
        UpdateSteps, Opened, Starting, Requests, budget, history
<1>1. CASE Start
  BY <1>1 DEF Start, MainGoto, machine, process
<1>2. CASE ReadConfig
  BY <1>2 DEF ReadConfig, MainGoto, machine, process
<1>3. CASE Flush
  BY <1>3 DEF Flush, MainGoto, Fault, machine, process
<1>4. CASE Serve
  BY <1>4 DEF Serve, MainGoto, machine, process
<1>5. CASE GetLoop
  BY <1>5 DEF GetLoop, MainGoto, machine, process
<1>6. CASE BotStart
  BY <1>6 DEF BotStart, machine, process
<1>7. CASE BotReady
  BY <1>7 DEF BotReady, machine, process
<1>8. CASE BotEnds
  BY <1>8 DEF BotEnds, Calm, Fault
<1>9. ASSUME NEW u \in Updates, Receive(u) PROVE Goal
  BY <1>9 DEF Receive, Goto, Serving, machine, process
<1>10. ASSUME NEW u \in Updates, ReadFile(u) PROVE Goal
  BY <1>10 DEF ReadFile, Goto, machine, process
<1>11. ASSUME NEW u \in Updates, Open(u) PROVE Goal
  BY <1>11 DEF Open, Goto, machine, process
<1>12. ASSUME NEW u \in Updates, Write(u) PROVE Goal
  BY <1>12 DEF Write, Goto, machine, process
<1>13. ASSUME NEW u \in Updates, Restore(u) PROVE Goal
  BY <1>13 DEF Restore, Goto, Answer, Fault, machine, process
<1>14. ASSUME NEW u \in Updates, Reboot(u) PROVE Goal
  BY <1>14 DEF Reboot, Goto, Answer, Fault, machine, process
<1>15. ASSUME NEW u \in Updates, Reply(u) PROVE Goal
  BY <1>15 DEF Reply, Goto, Answer, Written, machine, process
<1>16. ASSUME NEW a \in Activities, ReceiveActivity(a) PROVE Goal
  BY <1>16 DEF ReceiveActivity, Goto, Serving, machine, process
<1>17. ASSUME NEW a \in Activities, Call(a) PROVE Goal
  BY <1>17 DEF Call, Goto, Answer, machine, process
<1>18. ASSUME NEW a \in Activities, Post(a) PROVE Goal
  BY <1>18 DEF Post, Goto, Answer, Fault, machine, process
<1>19. CASE Boot
  BY <1>19 DEF Boot, ProcessEnds, ThreadsEnd, machine, process
<1>20. CASE StartInit6
  BY <1>20 DEF StartInit6, machine, process
<1>21. CASE Init6Crashes
  BY <1>21 DEF Init6Crashes, Fault, machine, process
<1>22. CASE UNCHANGED vars
  BY <1>22 DEF vars, machine, process
<1>23. CASE AgentPlay
  BY <1>23 DEF AgentPlay, BuildGoto
<1>24. CASE NginxPlay
  BY <1>24 DEF NginxPlay, BuildGoto
<1>25. CASE Block
  BY <1>25 DEF Block, BuildGoto
<1>26. CASE BlockMore
  BY <1>26 DEF BlockMore, BuildGoto
<1>27. CASE Save
  BY <1>27 DEF Save, BuildGoto
<1>28. CASE Bake
  BY <1>28 DEF Bake, BuildGoto, ProcessEnds, ThreadsEnd
<1> QED
  BY <1>1, <1>2, <1>3, <1>4, <1>5, <1>6, <1>7, <1>8, <1>9, <1>10, <1>11,
     <1>12, <1>13, <1>14, <1>15, <1>16, <1>17, <1>18, <1>19, <1>20, <1>21,
     <1>22, <1>23, <1>24, <1>25, <1>26, <1>27, <1>28
  DEF Next, Build, Main, Discord, UpdateLocation, D2Activity

THEOREM OpensOnlyUnnamed == Spec => []OpenOnlyUnnamed
<1> DEFINE I == /\ Calm => SerialInv
                /\ OpenOnlyUnnamed
<1>1. Init => I  BY SerialInit DEF OpenOnlyUnnamed, Init
<1>2. I /\ [Next]_vars => I'
  <2> SUFFICES ASSUME I, [Next]_vars PROVE I'
    OBVIOUS
  <2>1. CASE Calm'
    BY <2>1, CalmBefore, SerialStep, OpenStep
  <2>2. CASE ~ Calm'
    BY <2>2 DEF OpenOnlyUnnamed
  <2> QED  BY <2>1, <2>2
<1>3. I => OpenOnlyUnnamed  OBVIOUS
<1> QED  BY <1>1, <1>2, <1>3, PTL DEF Spec

-----------------------------------------------------------------------------
\* A machine that has been rebooted, from an image with its rules, is out
\* of reach.
Kept ==
    rebooted /\ saved =>
        /\ rules /\ ~ rebooting
        /\ \A u \in Updates : pc[u] \notin UpdateSteps

\* A machine that was rebooted without a mishap has its name.
Back == Calm /\ rebooted => config = "named"

(* Nothing reaches a machine that is out of reach.                         *)
LEMMA QuietStep ==
    ASSUME Inv, Kept, [Next]_vars, rebooted, saved
    PROVE  /\ UNCHANGED <<config, rules, image, rebooting, rebooted>>
           /\ \A u \in Updates : pc'[u] \notin UpdateSteps
<1> DEFINE Goal == /\ UNCHANGED <<config, rules, image, rebooting, rebooted>>
                   /\ \A u \in Updates : pc'[u] \notin UpdateSteps
<1>0. /\ config # "template" /\ build = "image" /\ rules /\ ~ rebooting
      /\ \A u \in Updates : pc[u] \notin UpdateSteps
      /\ pc \in [Requests -> Steps]
  BY DEF Inv, TypeOK, Placeholder, Baked, Kept
<1>1. CASE Build
  BY <1>0, <1>1 DEF Build, AgentPlay, NginxPlay, Block, BlockMore, Save, Bake,
                    BuildGoto
<1>2. CASE Flush
  BY <1>0, <1>2 DEF Flush, MainGoto, Inv, Placeholder
<1>3. CASE \/ Start \/ ReadConfig \/ Serve \/ GetLoop \/ BotStart \/ BotReady
           \/ StartInit6 \/ Init6Crashes \/ UNCHANGED vars
  BY <1>0, <1>3
  DEF Start, ReadConfig, Serve, GetLoop, BotStart, BotReady, StartInit6,
      Init6Crashes, vars, machine, server
<1>4. CASE BotEnds
  BY <1>0, <1>4
  DEF BotEnds, ProcessEnds, ThreadsEnd, machine, server, Requests, UpdateSteps
<1>5. ASSUME NEW u \in Updates, Receive(u) \/ UpdateLocation(u) PROVE Goal
  BY <1>0, <1>5
  DEF Receive, UpdateLocation, ReadFile, Open, Write, Restore, Reboot, Reply,
      Goto, Answer, UpdateSteps
<1>6. ASSUME NEW a \in Activities, ReceiveActivity(a) \/ D2Activity(a)
      PROVE  Goal
  <2>1. UNCHANGED <<config, rules, machine>>
    BY <1>6 DEF ReceiveActivity, D2Activity, Call, Post
  <2>2. \/ pc' = pc
        \/ \E t \in {"call", "wait", "over"} : pc' = [pc EXCEPT ![a] = t]
    BY <1>6 DEF ReceiveActivity, D2Activity, Call, Post, Goto, Answer
  <2> QED
    BY <1>0, <2>1, <2>2 DEF machine, server, Requests, UpdateSteps
<1>7. CASE Boot
  BY <1>0, <1>7 DEF Boot
<1> QED
  BY <1>1, <1>2, <1>3, <1>4, <1>5, <1>6, <1>7 DEF Next, Main, Discord

LEMMA KeptStep == Inv /\ Kept /\ [Next]_vars => Kept'
<1> SUFFICES ASSUME Inv, Kept, [Next]_vars PROVE Kept'
  OBVIOUS
<1>1. CASE rebooted /\ saved
  BY <1>1, QuietStep DEF Kept, image
<1>2. CASE Boot
  BY <1>2 DEF Boot, ProcessEnds, ThreadsEnd, Kept, Inv, TypeOK, Requests,
              UpdateSteps, image
<1>3. CASE Build
  <2>1. ~ rebooted'
    BY <1>3 DEF Build, AgentPlay, NginxPlay, Block, BlockMore, Save, Bake,
                BuildGoto, Inv, Placeholder, Baked, server
  <2> QED  BY <2>1 DEF Kept
<1>4. CASE ~ Boot /\ ~ Build /\ ~ (rebooted /\ saved)
  <2>1. UNCHANGED <<rebooted, saved>>
    BY <1>4
    DEF Next, vars, Main, Discord, Start, ReadConfig, Flush, Serve, GetLoop,
        BotStart, BotReady, BotEnds, Receive, UpdateLocation, ReadFile, Open, Write,
        Restore, Reboot, Reply, ReceiveActivity, D2Activity, Call, Post,
        StartInit6, Init6Crashes, machine, image, server
  <2> QED  BY <1>4, <2>1 DEF Kept
<1> QED  BY <1>1, <1>2, <1>3, <1>4

LEMMA KeptInvariant == Spec => [](Inv /\ Kept)
<1>1. Init => Inv /\ Kept  BY InvInit DEF Init, Kept
<1>2. Inv /\ Kept /\ [Next]_vars => (Inv /\ Kept)'  BY InvStep, KeptStep
<1> QED  BY <1>1, <1>2, PTL DEF Spec

(* A rebooted machine keeps what it has on disk and its closed firewall,   *)
(* for good and for bad: a name stays, and a configuration that overlapping *)
(* updates have emptied stays empty (agent.py:62-69, 88-98).  Its image    *)
(* must have its rules.                                                    *)
THEOREM StaysPut ==
    Spec => [][rebooted /\ saved => rules /\ UNCHANGED <<config, rules>>]_vars
<1>1. Inv /\ Kept /\ [Next]_vars
        => [rebooted /\ saved => rules /\ UNCHANGED <<config, rules>>]_vars
  BY QuietStep DEF Kept
<1> QED  BY KeptInvariant, <1>1, PTL DEF Spec

LEMMA BackStep ==
    Calm' /\ SerialInv /\ Kept /\ Back /\ [Next]_vars => Back'
<1> SUFFICES ASSUME Calm', SerialInv, Kept, Back, [Next]_vars, rebooted'
             PROVE  config' = "named"
  BY DEF Back
<1>0. Inv /\ Calm  BY CalmBefore DEF SerialInv
<1>1. CASE rebooted
  <2>1. saved  BY <1>0, <1>1 DEF SerialInv, Built, Inv, Placeholder, Baked
  <2> QED  BY <1>0, <1>1, <2>1, QuietStep DEF Back
<1>2. CASE Boot
  BY <1>2 DEF Boot, SerialInv, Done
<1>3. CASE ~ rebooted /\ ~ Boot
  <2>1. UNCHANGED rebooted
    BY <1>3
    DEF Next, vars, Build, AgentPlay, NginxPlay, Block, BlockMore, Save, Bake,
        Main, Discord, Start, ReadConfig, Flush, Serve, GetLoop, BotStart,
        BotReady, BotEnds, Receive, UpdateLocation, ReadFile, Open, Write, Restore,
        Reboot, Reply, ReceiveActivity, D2Activity, Call, Post, StartInit6,
        Init6Crashes, machine, server
  <2> QED  BY <1>3, <2>1
<1> QED  BY <1>1, <1>2, <1>3

NamingInv == Inv /\ Kept /\ (Calm => SerialInv /\ Back)

LEMMA NamingInvariant == Spec => []NamingInv
<1>1. Init => NamingInv
  BY InvInit, SerialInit DEF NamingInv, Kept, Back, Init
<1>2. NamingInv /\ [Next]_vars => NamingInv'
  BY InvStep, KeptStep, CalmBefore, SerialStep, BackStep DEF NamingInv
<1> QED  BY <1>1, <1>2, PTL DEF Spec

\* The machine as module Naming sees it.
Stage == IF rebooted THEN "back" ELSE IF rebooting THEN "going" ELSE "new"
Place == IF Ordered THEN config ELSE "template"
Gate  == Ordered /\ rules
Shown == IF rebooted THEN init6 ELSE "down"

\* A step that the rest of the system does not see.
Unseen == UNCHANGED <<Stage, Place, Gate, Shown>>

LEMMA UnseenStep ==
    ASSUME [Next]_vars, Unseen PROVE [N!Next]_(N!vars)
<1>1. CASE Calm' <=> Calm
  BY <1>1 DEF Unseen, Stage, Place, Gate, Shown, N!vars, Calm
<1>2. CASE Calm /\ ~ Calm'
  BY <1>2 DEF Unseen, Stage, Place, Gate, Shown, N!Next, N!Lapse
<1> QED  BY <1>1, <1>2, CalmBefore

(* Every step of the machine is one that module Naming allows.             *)
LEMMA NamingStep == NamingInv /\ [Next]_vars => [N!Next]_(N!vars)
<1> SUFFICES ASSUME NamingInv, [Next]_vars PROVE [N!Next]_(N!vars)
  OBVIOUS
<1>0. Inv /\ Kept  BY DEF NamingInv
<1>a. /\ config \in Texts /\ rules \in BOOLEAN /\ saved \in BOOLEAN
      /\ rebooting \in BOOLEAN /\ rebooted \in BOOLEAN
      /\ Ordered => config \in {"named", "empty"} /\ build = "image"
      /\ Ordered /\ rules => saved
  BY <1>0 DEF Inv, TypeOK, Placeholder, Baked, Texts, Ordered
<1>b. ASSUME Calm, Ordered
      PROVE  /\ saved
             /\ \A u \in Updates : pc[u] \notin {"open", "write", "nft"}
  BY <1>a, <1>b
  DEF NamingInv, SerialInv, Done, Built, Kept, Ordered, UpdateSteps
<1>1. CASE \/ Start \/ ReadConfig \/ Serve \/ GetLoop \/ BotStart \/ BotReady
           \/ BotEnds \/ AgentPlay \/ NginxPlay \/ BlockMore \/ Save
           \/ UNCHANGED vars
  <2>1. UNCHANGED <<config, rules, server>>
    BY <1>1
    DEF Start, ReadConfig, Serve, GetLoop, BotStart, BotReady, BotEnds,
        AgentPlay, NginxPlay, BlockMore, Save, vars, machine
  <2> QED
    BY <2>1, UnseenStep DEF Unseen, Stage, Place, Gate, Shown, Ordered, server
<1>2. ASSUME NEW a \in Activities, ReceiveActivity(a) \/ D2Activity(a)
      PROVE  [N!Next]_(N!vars)
  <2>1. UNCHANGED <<config, rules, server>>
    BY <1>2 DEF ReceiveActivity, D2Activity, Call, Post, machine
  <2> QED
    BY <2>1, UnseenStep DEF Unseen, Stage, Place, Gate, Shown, Ordered, server
<1>3. ASSUME NEW u \in Updates, Receive(u) \/ ReadFile(u) \/ Reply(u)
      PROVE  [N!Next]_(N!vars)
  <2>1. UNCHANGED <<config, rules, server>>
    BY <1>3 DEF Receive, ReadFile, Reply, machine
  <2> QED
    BY <2>1, UnseenStep DEF Unseen, Stage, Place, Gate, Shown, Ordered, server
<1>4. CASE Block \/ Bake \/ Flush
  <2>1. ~ Ordered /\ UNCHANGED server
    BY <1>a, <1>4, <1>0
    DEF Block, Bake, Flush, BuildGoto, MainGoto, Inv, Placeholder, machine
  <2> QED
    BY <2>1, UnseenStep DEF Unseen, Stage, Place, Gate, Shown, Ordered, server
<1>5. ASSUME NEW u \in Updates, Open(u) \/ Write(u) \/ Restore(u)
      PROVE  [N!Next]_(N!vars)
  <2>1. /\ UNCHANGED server
        /\ pc[u] \in {"open", "write", "nft"}
        /\ config' = config \/ config' \in {"named", "empty"}
        /\ rules => rules'
    BY <1>a, <1>5
    DEF Open, Write, Restore, Goto, Answer, machine
  <2>2. CASE ~ Ordered
    BY <2>1, <2>2, UnseenStep
    DEF Unseen, Stage, Place, Gate, Shown, Ordered, server
  <2>3. CASE Ordered
    <3>1. ~ Calm  BY <1>b, <2>1, <2>3
    <3>2. ~ Calm'  BY <3>1, CalmBefore
    <3>3. N!Botch
      BY <1>a, <2>1, <2>3, <3>1, <3>2 DEF N!Botch, Ordered, server, Calm
    <3> QED  BY <3>3 DEF N!Next
  <2> QED  BY <2>2, <2>3
<1>6. ASSUME NEW u \in Updates, Reboot(u) PROVE [N!Next]_(N!vars)
  <2>1. /\ UNCHANGED <<config, rules, rebooted, init6, overlapped>>
        /\ pc[u] = "reboot" /\ config # "template"
        /\ \/ rebooting' = TRUE /\ UNCHANGED met
           \/ UNCHANGED rebooting
    BY <1>0, <1>6
    DEF Reboot, Goto, Answer, budget, history, Inv, Placeholder, Opened
  <2>2. CASE UNCHANGED rebooting \/ Ordered
    BY <1>a, <2>1, <2>2, UnseenStep
    DEF Unseen, Stage, Place, Gate, Shown, Ordered
  <2>3. CASE rebooting' = TRUE /\ ~ Ordered /\ UNCHANGED met
    <3>1. Calm => config = "named" /\ rules
      BY <2>1 DEF NamingInv, SerialInv, Written
    <3>2. Calm' <=> Calm  BY <2>1, <2>3 DEF Calm
    <3>3. N!Name
      BY <1>a, <2>1, <2>3, <3>1, <3>2 DEF N!Name, Ordered, Texts, Calm
    <3> QED  BY <3>3 DEF N!Next
  <2> QED  BY <2>1, <2>2, <2>3
<1>7. CASE Boot
  <2>1. /\ rebooting /\ ~ rebooting' /\ rebooted'
        /\ rules' = saved /\ init6' = "down"
        /\ UNCHANGED <<config, overlapped, met>>
    BY <1>7 DEF Boot, history, budget
  <2>2. Calm' <=> Calm  BY <2>1 DEF Calm
  <2>3. CASE ~ rebooted
    <3>1. N!Return
      BY <1>a, <2>1, <2>2, <2>3 DEF N!Return, Ordered, Calm
    <3> QED  BY <3>1 DEF N!Next
  <2>4. CASE rebooted
    <3>1. ~ Calm  BY <1>0, <1>b, <2>1, <2>4 DEF Kept, Ordered
    <3>2. N!Botch
      BY <1>a, <2>1, <2>2, <2>4, <3>1 DEF N!Botch, Ordered, Calm
    <3> QED  BY <3>2 DEF N!Next
  <2> QED  BY <1>a, <2>3, <2>4
<1>8. CASE StartInit6
  <2>1. /\ init6 = "down" /\ config # "empty" /\ init6' = config
        /\ UNCHANGED <<config, rules, rebooting, rebooted, overlapped, met>>
    BY <1>8 DEF StartInit6, history, budget
  <2>2. CASE ~ rebooted
    BY <2>1, <2>2, UnseenStep DEF Unseen, Stage, Place, Gate, Shown, Ordered
  <2>3. CASE rebooted
    <3>1. N!Show
      BY <1>a, <2>1, <2>3 DEF N!Show, Ordered, Calm
    <3> QED  BY <3>1 DEF N!Next
  <2> QED  BY <2>2, <2>3
<1>9. CASE Init6Crashes
  <2>1. /\ init6' = "down" /\ met' = met \cup {"init6"}
        /\ UNCHANGED <<config, rules, rebooting, rebooted, overlapped>>
    BY <1>9 DEF Init6Crashes, Fault
  <2>2. Calm' <=> Calm  BY <2>1 DEF Calm
  <2>3. N!Hide
    BY <1>a, <2>1, <2>2 DEF N!Hide, Ordered, Calm
  <2> QED  BY <2>3 DEF N!Next
<1> QED
  BY <1>1, <1>2, <1>3, <1>4, <1>5, <1>6, <1>7, <1>8, <1>9
  DEF Next, Build, Main, Discord, UpdateLocation

(* To the rest of the system update-location is one step, as module Naming *)
(* has it, whatever nft, reboot and init6 do; and whatever overlaps and    *)
(* restarts, a closed firewall stays closed and no placeholder is shown.   *)
THEOREM NamesInOneStep == Spec => KeepsNaming
<1>1. Init => N!Init
  BY DEF Init, N!Init, Ordered, Calm
<1> QED
  BY <1>1, NamingInvariant, NamingStep, PTL DEF Spec, KeepsNaming, N!Spec
=============================================================================
