--------------------------- MODULE RotationProofs ---------------------------
(***************************************************************************)
(* Proofs about the orchestrator of module Rotation, for every set of      *)
(* regions, instances and invocations and every combination of faults.     *)
(*                                                                         *)
(* The inductive invariant has two halves.  Inv holds whatever overlaps    *)
(* and gives PredecessorsRetired.  SoloInv adds what is true only while    *)
(* one invocation runs at a time, above all that a server, once seen       *)
(* running, stays up until the next invocation begins.  Between the two,   *)
(* Gates holds while invocations that overlap stand in different regions.  *)
(***************************************************************************)
EXTENDS RotationProperties, TLAPS

\* The steps at which an invocation has a region, and a server of its own.
HasRegion == {"record", "lookup", "revoke", "revoke443", "launch", "await",
              "address", "post", "sweep", "allow", "announce", "allow443",
              "done"}
HasServer == {"await", "address", "post", "sweep", "allow", "announce",
              "allow443", "done"}
Swept     == {"allow", "announce", "allow443", "done"}

\* EC2 knows the region of an instance as long as it knows the instance.
Housed == \A i \in Instances : status[i] = "absent" <=> host[i] = NoRegion

\* The Windows boxes run, and no invocation takes one for its server.
WindowsUp ==
    /\ \A w \in Windows : status[w] = "running"
    /\ \A l \in Invocations : pc[l] \in HasServer => fresh[l] \notin Windows

\* An invocation's region and server are set when it relies on them.
LocalsSet ==
    \A l \in Invocations :
        /\ pc[l] \in HasRegion => region[l] \in Regions
        /\ pc[l] \in HasServer => fresh[l] \in Instances

Typed == TypeOK /\ LocalsSet

\* The sweep's two lists: everything is still to do before it, nothing is
\* listed outside it, and the wrong instances are never on it.
Lists ==
    \A l \in Invocations :
        /\ pc[l] \notin {"idle", "sweep"} \cup Swept => todo[l] = Regions
        /\ pc[l] # "sweep" => victims[l] = {}
        /\ fresh[l] \notin victims[l]
        /\ victims[l] \cap Windows = {}

\* What an invocation found running is not Windows', is not its own server
\* and cannot come up again.
Inherited ==
    \A l \in Invocations :
        /\ fresh[l] \notin inherited[l]
        /\ \A i \in inherited[l] : status[i] \in {"running", "terminated"}

\* What an invocation found running and still runs is yet to be swept.
Hunted ==
    \A l \in Invocations : pc[l] \in {"sweep"} \cup Swept =>
        \A i \in inherited[l] \cap Servers :
            pc[l] = "sweep" /\ (host[i] \in todo[l] \/ i \in victims[l])

Inv == Typed /\ Housed /\ WindowsUp /\ Lists /\ Inherited /\ Hunted

-----------------------------------------------------------------------------
\* A server that was seen running stays up while nobody else runs.
FreshUp ==
    \A l \in Invocations :
        /\ pc[l] = "await" /\ Without({"boot"})
               => status[fresh[l]] \in {"pending", "running"}
        /\ pc[l] \in HasServer \ {"await"} => status[fresh[l]] = "running"
        /\ pc[l] \in HasServer /\ status[fresh[l]] # "absent"
               => host[fresh[l]] = region[l]

\* The name is the server's once the record has been written, and never
\* that of a server which is still to come up.
NameMoved ==
    /\ \A l \in Invocations : pc[l] \in Swept => dns = fresh[l]
    /\ dns # NoInstance => status[dns] # "pending"

\* What the calls whose failure is swallowed achieve when they do not fail.
PortsOpened ==
    Without({"sg"}) => \A l \in Invocations :
        /\ pc[l] \in {"announce", "allow443", "done"}
               => Bncs \in open[region[l]]
        /\ pc[l] = "done" => Wss \in open[region[l]]

Told ==
    Without({"post"}) => \A l \in Invocations :
        pc[l] \in {"sweep"} \cup Swept => fresh[l] \in located

\* Port 443 is never open alone, except between the two revocations.
WssOnlyWithBncs ==
    Without({"sg", "kill", "apply"}) =>
        /\ \A r \in Regions :
             Wss \in open[r] /\ Bncs \notin open[r]
               => \E l \in Invocations : pc[l] = "revoke443" /\ region[l] = r
        /\ \A l \in Invocations :
             /\ pc[l] = "revoke443" => Bncs \notin open[region[l]]
             /\ pc[l] \in {"launch", "await", "address", "post", "sweep",
                           "allow"} => open[region[l]] = {}

\* While every run ends normally the parameter is the region of the name.
Settled ==
    Without(Aborts) =>
        /\ (\A l \in Invocations : pc[l] \in AtRest \cup {"choose", "record"})
             /\ dns # NoInstance
               => dns \in Servers /\ host[dns] = lastUsed
        /\ \A l \in Invocations :
             /\ pc[l] \in HasRegion \ {"record"} => lastUsed = region[l]
             /\ pc[l] \in HasRegion \ Swept /\ dns # NoInstance
                    => host[dns] # region[l]

SoloInv ==
    /\ Inv /\ FreshUp /\ NameMoved /\ PortsOpened /\ Told
    /\ WssOnlyWithBncs /\ Settled

-----------------------------------------------------------------------------
(* Types. *)

LEMMA TypeInit == Init => Typed
BY DEF Init, Typed, TypeOK, LocalsSet, HasRegion, HasServer, AtRest, Ports

(* Every step keeps every variable's type. *)
LEMMA TypeStep == Typed /\ [Next]_vars => Typed'
<1> SUFFICES ASSUME Typed, [Next]_vars PROVE Typed'
  OBVIOUS
<1> USE DEF Typed, TypeOK, LocalsSet, HasRegion, HasServer, AtRest, Steps,
            budget
<1>1. ASSUME NEW l \in Invocations, Begin(l) PROVE Typed'
  BY <1>1, RotationAssumption
  DEF Begin, Servers, Goto, Leave, Fault, Ports, Bncs, Wss, cloud, locals
<1>2. ASSUME NEW l \in Invocations, ChooseRegion(l) PROVE Typed'
  BY <1>2, RotationAssumption
  DEF ChooseRegion, Candidates, Goto, Leave, Fault, Ports, Bncs, Wss, cloud,
      locals
<1>3. ASSUME NEW l \in Invocations, RecordRegion(l) PROVE Typed'
  BY <1>3, RotationAssumption
  DEF RecordRegion, Goto, Leave, Fault, Ports, Bncs, Wss, cloud, locals
<1>4. ASSUME NEW l \in Invocations, LookUp(l) PROVE Typed'
  BY <1>4, RotationAssumption
  DEF LookUp, Goto, Leave, Fault, Ports, Bncs, Wss, cloud, locals
<1>5. ASSUME NEW l \in Invocations, RevokeBncs(l) PROVE Typed'
  BY <1>5, RotationAssumption
  DEF RevokeBncs, Goto, Leave, Fault, Ports, Bncs, Wss, cloud, locals
<1>6. ASSUME NEW l \in Invocations, RevokeWss(l) PROVE Typed'
  BY <1>6, RotationAssumption
  DEF RevokeWss, Goto, Leave, Fault, Ports, Bncs, Wss, cloud, locals
<1>7. ASSUME NEW l \in Invocations, Launch(l) PROVE Typed'
  BY <1>7, RotationAssumption
  DEF Launch, RunInstance, Unused, Goto, Leave, Fault, Ports, Bncs, Wss,
      cloud, locals
<1>8. ASSUME NEW l \in Invocations, AwaitRunning(l) PROVE Typed'
  BY <1>8, RotationAssumption
  DEF AwaitRunning, Goto, Leave, Fault, Ports, Bncs, Wss, cloud, locals
<1>9. ASSUME NEW l \in Invocations, ReadAddress(l) PROVE Typed'
  BY <1>9, RotationAssumption
  DEF ReadAddress, Goto, Leave, Fault, Ports, Bncs, Wss, cloud, locals
<1>10. ASSUME NEW l \in Invocations, PostLocation(l) PROVE Typed'
  BY <1>10, RotationAssumption
  DEF PostLocation, Goto, Leave, Fault, Ports, Bncs, Wss, cloud, locals
<1>11. ASSUME NEW l \in Invocations, Survey(l) PROVE Typed'
  BY <1>11, RotationAssumption
  DEF Survey, SweptIn, Servers, Goto, Leave, Fault, Ports, Bncs, Wss, cloud,
      locals
<1>12. ASSUME NEW l \in Invocations, Terminate(l) PROVE Typed'
  BY <1>12, RotationAssumption
  DEF Terminate, Goto, Leave, Fault, Ports, Bncs, Wss, cloud, locals
<1>13. ASSUME NEW l \in Invocations, Upsert(l) PROVE Typed'
  BY <1>13, RotationAssumption
  DEF Upsert, Goto, Leave, Fault, Ports, Bncs, Wss, cloud, locals
<1>14. ASSUME NEW l \in Invocations, AllowBncs(l) PROVE Typed'
  BY <1>14, RotationAssumption
  DEF AllowBncs, Allow, Goto, Leave, Fault, Ports, Bncs, Wss, cloud, locals
<1>15. ASSUME NEW l \in Invocations, Announce(l) PROVE Typed'
  BY <1>15, RotationAssumption
  DEF Announce, Goto, Leave, Fault, Ports, Bncs, Wss, cloud, locals
<1>16. ASSUME NEW l \in Invocations, AllowWss(l) PROVE Typed'
  BY <1>16, RotationAssumption
  DEF AllowWss, Allow, Goto, Leave, Fault, Ports, Bncs, Wss, cloud, locals
<1>17. ASSUME NEW l \in Invocations, Raise(l) PROVE Typed'
  BY <1>17, RotationAssumption
  DEF Raise, FreshGone, Goto, Leave, Fault, Ports, Bncs, Wss, cloud, locals
<1>18. ASSUME NEW l \in Invocations, LaunchLost(l) PROVE Typed'
  BY <1>18, RotationAssumption
  DEF LaunchLost, RunInstance, Unused, Goto, Leave, Fault, Ports, Bncs, Wss,
      cloud, locals
<1>19. ASSUME NEW l \in Invocations, Kill(l) PROVE Typed'
  BY <1>19, RotationAssumption
  DEF Kill, Goto, Leave, Fault, Ports, Bncs, Wss, cloud, locals
<1>20. ASSUME NEW i \in Instances, Boot(i) PROVE Typed'
  BY <1>20, RotationAssumption
  DEF Boot, Goto, Leave, Fault, Ports, Bncs, Wss, cloud, locals
<1>21. ASSUME NEW i \in Instances, BootFails(i) PROVE Typed'
  BY <1>21, RotationAssumption
  DEF BootFails, Goto, Leave, Fault, Ports, Bncs, Wss, cloud, locals
<1>22. ASSUME NEW i \in Instances, Forget(i) PROVE Typed'
  BY <1>22, RotationAssumption
  DEF Forget, Goto, Leave, Fault, Ports, Bncs, Wss, cloud, locals
<1>23. ASSUME NEW r \in Regions, TerraformApply(r) PROVE Typed'
  BY <1>23, RotationAssumption
  DEF TerraformApply, Goto, Leave, Fault, Ports, Bncs, Wss, cloud, locals
<1>24. CASE UNCHANGED vars
  BY <1>24, RotationAssumption
  DEF vars, Goto, Leave, Fault, Ports, Bncs, Wss, cloud, locals
<1> QED
  BY <1>1, <1>2, <1>3, <1>4, <1>5, <1>6, <1>7, <1>8, <1>9, <1>10, <1>11,
     <1>12, <1>13, <1>14, <1>15, <1>16, <1>17, <1>18, <1>19, <1>20, <1>21,
     <1>22, <1>23, <1>24
  DEF Next, Handler, Cloud

(* Every variable of the orchestrator keeps its type, with any number of   *)
(* overlapping invocations and any faults.                                 *)
THEOREM TypeCorrect == Spec => []TypeOK
<1>1. Typed => TypeOK  BY DEF Typed
<1> QED  BY TypeInit, TypeStep, <1>1, PTL DEF Spec

-----------------------------------------------------------------------------
LEMMA InvInit == Init => Inv
BY TypeInit, RotationAssumption
DEF Init, Inv, Housed, WindowsUp, Lists, Inherited, Hunted, HasServer, Swept,
    AtRest

LEMMA InvStep == Inv /\ [Next]_vars => Inv'
<1> SUFFICES ASSUME Inv, [Next]_vars PROVE Inv'
  OBVIOUS
<1> USE DEF Inv, Typed, TypeOK, LocalsSet, Housed, WindowsUp, Lists,
            Inherited, Hunted, HasRegion, HasServer, Swept, Steps, AtRest,
            Servers
<1>0. Typed'  BY TypeStep
<1>1. ASSUME NEW l \in Invocations, Begin(l) PROVE Inv'
  BY <1>1, <1>0, RotationAssumption DEF Begin, cloud, locals
<1>2. ASSUME NEW l \in Invocations, ChooseRegion(l) PROVE Inv'
  BY <1>2, <1>0, RotationAssumption
  DEF ChooseRegion, Goto, Candidates, cloud, locals
<1>3. ASSUME NEW l \in Invocations, RecordRegion(l) PROVE Inv'
  BY <1>3, <1>0, RotationAssumption DEF RecordRegion, Goto, cloud, locals
<1>4. ASSUME NEW l \in Invocations, LookUp(l) PROVE Inv'
  BY <1>4, <1>0, RotationAssumption DEF LookUp, Goto, cloud, locals
<1>5. ASSUME NEW l \in Invocations, RevokeBncs(l) PROVE Inv'
  BY <1>5, <1>0, RotationAssumption DEF RevokeBncs, Goto, cloud, locals
<1>6. ASSUME NEW l \in Invocations, RevokeWss(l) PROVE Inv'
  BY <1>6, <1>0, RotationAssumption DEF RevokeWss, Goto, cloud, locals
<1>7. ASSUME NEW l \in Invocations, Launch(l) PROVE Inv'
  BY <1>7, <1>0, RotationAssumption
  DEF Launch, Goto, RunInstance, Unused, cloud, locals
<1>8. ASSUME NEW l \in Invocations, AwaitRunning(l) PROVE Inv'
  BY <1>8, <1>0, RotationAssumption DEF AwaitRunning, Goto, cloud, locals
<1>9. ASSUME NEW l \in Invocations, ReadAddress(l) PROVE Inv'
  BY <1>9, <1>0, RotationAssumption DEF ReadAddress, Goto, cloud, locals
<1>10. ASSUME NEW l \in Invocations, PostLocation(l) PROVE Inv'
  BY <1>10, <1>0, RotationAssumption DEF PostLocation, Goto, cloud, locals
<1>11. ASSUME NEW l \in Invocations, Survey(l) PROVE Inv'
  BY <1>11, <1>0, RotationAssumption DEF Survey, SweptIn, cloud, locals
<1>12. ASSUME NEW l \in Invocations, Terminate(l) PROVE Inv'
  BY <1>12, <1>0, RotationAssumption DEF Terminate, cloud, locals
<1>13. ASSUME NEW l \in Invocations, Upsert(l) PROVE Inv'
  BY <1>13, <1>0, RotationAssumption DEF Upsert, Goto, SweepOver, cloud, locals
<1>14. ASSUME NEW l \in Invocations, AllowBncs(l) PROVE Inv'
  BY <1>14, <1>0, RotationAssumption DEF AllowBncs, Goto, Allow, cloud, locals
<1>15. ASSUME NEW l \in Invocations, Announce(l) PROVE Inv'
  BY <1>15, <1>0, RotationAssumption DEF Announce, Goto, cloud, locals
<1>16. ASSUME NEW l \in Invocations, AllowWss(l) PROVE Inv'
  BY <1>16, <1>0, RotationAssumption DEF AllowWss, Goto, Allow, cloud, locals
<1>17. ASSUME NEW l \in Invocations, Raise(l) PROVE Inv'
  BY <1>17, <1>0, RotationAssumption
    DEF Raise, Leave, FreshGone, cloud, locals
<1>18. ASSUME NEW l \in Invocations, LaunchLost(l) PROVE Inv'
  BY <1>18, <1>0, RotationAssumption
  DEF LaunchLost, Leave, RunInstance, Unused, cloud, locals
<1>19. ASSUME NEW l \in Invocations, Kill(l) PROVE Inv'
  BY <1>19, <1>0, RotationAssumption DEF Kill, Leave, cloud, locals
<1>20. ASSUME NEW i \in Instances, Boot(i) PROVE Inv'
  BY <1>20, <1>0, RotationAssumption DEF Boot, cloud, locals
<1>21. ASSUME NEW i \in Instances, BootFails(i) PROVE Inv'
  BY <1>21, <1>0, RotationAssumption DEF BootFails, cloud, locals
<1>22. ASSUME NEW i \in Instances, Forget(i) PROVE Inv'
  BY <1>22, <1>0, RotationAssumption DEF Forget, cloud, locals
<1>23. ASSUME NEW r \in Regions, TerraformApply(r) PROVE Inv'
  BY <1>23, <1>0, RotationAssumption DEF TerraformApply, cloud, locals
<1>24. CASE UNCHANGED vars
  BY <1>24, <1>0, RotationAssumption DEF vars, cloud, locals
<1> QED
  BY <1>1, <1>2, <1>3, <1>4, <1>5, <1>6, <1>7, <1>8, <1>9, <1>10, <1>11,
     <1>12, <1>13, <1>14, <1>15, <1>16, <1>17, <1>18, <1>19, <1>20, <1>21,
     <1>22, <1>23, <1>24
  DEF Next, Handler, Cloud

(* Whatever overlaps and whatever fails, no server that was running when   *)
(* an invocation began still runs once that invocation has moved the name. *)
THEOREM Retired == Spec => []PredecessorsRetired
<1>1. Inv => PredecessorsRetired  BY DEF Inv, Hunted, PredecessorsRetired,
                                         Swept
<1> QED  BY InvInit, InvStep, <1>1, PTL DEF Spec

-----------------------------------------------------------------------------
LEMMA SoloInit == Init => SoloInv
BY InvInit, RotationAssumption
DEF Init, SoloInv, Without, FreshUp, NameMoved, PortsOpened, Told,
    WssOnlyWithBncs, Settled, HasServer, HasRegion, Swept, AtRest, Ports,
    Bncs, Wss

\* A fault that has happened has happened.
LEMMA NothingUndone ==
    ASSUME [Next]_vars, NEW F, Without(F)' PROVE Without(F)
<1> SUFFICES met \subseteq met'
  BY DEF Without
<1>1. \A f : Fault(f) => met \subseteq met'  BY DEF Fault
<1>2. UNCHANGED budget => met \subseteq met'  BY DEF budget
<1> QED
  BY <1>1, <1>2
  DEF Next, vars, Handler, Cloud, Begin, ChooseRegion, RecordRegion, LookUp,
      RevokeBncs, RevokeWss, Launch, LaunchLost, AwaitRunning, ReadAddress,
      PostLocation, Survey, Terminate, Upsert, Allow, AllowBncs, Announce,
      AllowWss, Raise, Kill, Boot, BootFails, Forget, TerraformApply

LEMMA FaultMet ==
    ASSUME NEW f, Fault(f), NEW F, f \in F PROVE ~ Without(F)'
BY DEF Fault, Without

LEMMA SoloStep == Solo /\ SoloInv /\ [Next]_vars => SoloInv'
<1> SUFFICES ASSUME Solo, SoloInv, [Next]_vars PROVE SoloInv'
  OBVIOUS
<1>a. /\ Without(Aborts)' => Without(Aborts) /\ Without({"boot"})
      /\ Without({"boot"})' => Without({"boot"})
      /\ Without({"sg"})' => Without({"sg"})
      /\ Without({"post"})' => Without({"post"})
      /\ Without({"sg", "kill", "apply"})'
             => Without({"sg", "kill", "apply"}) /\ Without({"sg"})
  <2>1. Without(Aborts)' => Without(Aborts)  BY NothingUndone
  <2>2. Without(Aborts) => Without({"boot"})  BY DEF Without, Aborts
  <2>3. Without({"sg", "kill", "apply"}) => Without({"sg"})  BY DEF Without
  <2> QED  BY <2>1, <2>2, <2>3, NothingUndone
<1>b. /\ Without(Aborts)' =>
            ~ (Fault("api") \/ Fault("lost") \/ Fault("boot") \/ Fault("kill"))
      /\ Without({"boot"})' => ~ Fault("boot")
      /\ Without({"sg"})' => ~ Fault("sg")
      /\ Without({"post"})' => ~ Fault("post")
      /\ Without({"sg", "kill", "apply"})' =>
            ~ (Fault("sg") \/ Fault("kill") \/ Fault("apply"))
  BY FaultMet DEF Aborts
<1> USE <1>a, <1>b DEF SoloInv, Solo, FreshUp, NameMoved, PortsOpened,
            Told, WssOnlyWithBncs, Settled, Inv, Typed, TypeOK, LocalsSet,
            Housed, WindowsUp, Lists, Inherited, Hunted, HasRegion, HasServer,
            Swept, Steps, AtRest, Servers, Ports, Bncs, Wss
<1>0. Inv'  BY InvStep
<1>1. ASSUME NEW l \in Invocations, Begin(l) PROVE SoloInv'
  BY <1>1, <1>0, RotationAssumption DEF Begin, cloud, locals
<1>2. ASSUME NEW l \in Invocations, ChooseRegion(l) PROVE SoloInv'
  BY <1>2, <1>0, RotationAssumption
  DEF ChooseRegion, Goto, Candidates, cloud, locals
<1>3. ASSUME NEW l \in Invocations, RecordRegion(l) PROVE SoloInv'
  BY <1>3, <1>0, RotationAssumption
  DEF RecordRegion, Goto, cloud, locals
<1>4. ASSUME NEW l \in Invocations, LookUp(l) PROVE SoloInv'
  BY <1>4, <1>0, RotationAssumption DEF LookUp, Goto, cloud, locals
<1>5. ASSUME NEW l \in Invocations, RevokeBncs(l) PROVE SoloInv'
  BY <1>5, <1>0, RotationAssumption DEF RevokeBncs, Goto, cloud, locals
<1>6. ASSUME NEW l \in Invocations, RevokeWss(l) PROVE SoloInv'
  BY <1>6, <1>0, RotationAssumption DEF RevokeWss, Goto, cloud, locals
<1>7. ASSUME NEW l \in Invocations, Launch(l) PROVE SoloInv'
  BY <1>7, <1>0, RotationAssumption
  DEF Launch, Goto, RunInstance, Unused, cloud, locals
<1>8. ASSUME NEW l \in Invocations, AwaitRunning(l) PROVE SoloInv'
  BY <1>8, <1>0, RotationAssumption
  DEF AwaitRunning, Goto, cloud, locals
<1>9. ASSUME NEW l \in Invocations, ReadAddress(l) PROVE SoloInv'
  BY <1>9, <1>0, RotationAssumption DEF ReadAddress, Goto, cloud, locals
<1>10. ASSUME NEW l \in Invocations, PostLocation(l) PROVE SoloInv'
  BY <1>10, <1>0, RotationAssumption
  DEF PostLocation, Goto, cloud, locals
<1>11. ASSUME NEW l \in Invocations, Survey(l) PROVE SoloInv'
  BY <1>11, <1>0, RotationAssumption DEF Survey, SweptIn, cloud, locals
<1>12. ASSUME NEW l \in Invocations, Terminate(l) PROVE SoloInv'
  BY <1>12, <1>0, RotationAssumption DEF Terminate, cloud, locals
<1>13. ASSUME NEW l \in Invocations, Upsert(l) PROVE SoloInv'
  BY <1>13, <1>0, RotationAssumption
  DEF Upsert, Goto, SweepOver, cloud, locals
<1>14. ASSUME NEW l \in Invocations, AllowBncs(l) PROVE SoloInv'
  BY <1>14, <1>0, RotationAssumption
  DEF AllowBncs, Goto, Allow, cloud, locals
<1>15. ASSUME NEW l \in Invocations, Announce(l) PROVE SoloInv'
  BY <1>15, <1>0, RotationAssumption DEF Announce, Goto, cloud, locals
<1>16. ASSUME NEW l \in Invocations, AllowWss(l) PROVE SoloInv'
  <2>1. (FreshUp /\ NameMoved)'
    BY <1>16, <1>0, RotationAssumption DEF AllowWss, Goto, Allow, cloud, locals
  <2>2. (PortsOpened /\ Told)'
    BY <1>16, <1>0, RotationAssumption DEF AllowWss, Goto, Allow, cloud, locals
  <2>3. WssOnlyWithBncs'
    BY <1>16, <1>0, RotationAssumption DEF AllowWss, Goto, Allow, cloud, locals
  <2>4. Settled'
    <3>1. /\ dns = fresh[l] /\ dns \in Servers
          /\ host[dns] = region[l]
      BY <1>16 DEF AllowWss, Goto
    <3>2. UNCHANGED <<Servers, host, dns, lastUsed, region>>
      BY <1>16 DEF AllowWss, Allow, locals
    <3> QED  BY <1>16, <3>1, <3>2 DEF AllowWss, Goto
  <2> QED  BY <1>0, <2>1, <2>2, <2>3, <2>4
<1>17. ASSUME NEW l \in Invocations, Raise(l) PROVE SoloInv'
  <2>1. (FreshUp /\ NameMoved)'
    BY <1>17, <1>0, RotationAssumption
    DEF Raise, Leave, FreshGone, cloud, locals
  <2>2. (PortsOpened /\ Told)'
    BY <1>17, <1>0, RotationAssumption
    DEF Raise, Leave, FreshGone, cloud, locals
  <2>3. WssOnlyWithBncs'
    BY <1>17, <1>0, RotationAssumption
    DEF Raise, Leave, FreshGone, cloud, locals
  <2>4. Settled'
    BY <1>17, <1>0, RotationAssumption
    DEF Raise, Leave, FreshGone, cloud, locals
  <2> QED  BY <1>0, <2>1, <2>2, <2>3, <2>4
<1>18. ASSUME NEW l \in Invocations, LaunchLost(l) PROVE SoloInv'
  BY <1>18, <1>0, RotationAssumption
  DEF LaunchLost, Leave, RunInstance, Unused, cloud, locals
<1>19. ASSUME NEW l \in Invocations, Kill(l) PROVE SoloInv'
  BY <1>19, <1>0, RotationAssumption DEF Kill, Leave, cloud, locals
<1>20. ASSUME NEW i \in Instances, Boot(i) PROVE SoloInv'
  BY <1>20, <1>0, RotationAssumption DEF Boot, cloud, locals
<1>21. ASSUME NEW i \in Instances, BootFails(i) PROVE SoloInv'
  BY <1>21, <1>0, RotationAssumption DEF BootFails, cloud, locals
<1>22. ASSUME NEW i \in Instances, Forget(i) PROVE SoloInv'
  BY <1>22, <1>0, RotationAssumption DEF Forget, cloud, locals
<1>23. ASSUME NEW r \in Regions, TerraformApply(r) PROVE SoloInv'
  BY <1>23, <1>0, RotationAssumption DEF TerraformApply, cloud, locals
<1>24. CASE UNCHANGED vars
  BY <1>24, <1>0, RotationAssumption DEF vars, cloud, locals
<1> QED
  BY <1>1, <1>2, <1>3, <1>4, <1>5, <1>6, <1>7, <1>8, <1>9, <1>10, <1>11,
     <1>12, <1>13, <1>14, <1>15, <1>16, <1>17, <1>18, <1>19, <1>20, <1>21,
     <1>22, <1>23, <1>24
  DEF Next, Handler, Cloud

\* SoloInv as an invariant of every behaviour, whatever overlaps.
LEMMA SoloInvariant == Spec => [](Solo => SoloInv)
<1>1. Init => (Solo => SoloInv)  BY SoloInit
<1>2. (Solo => SoloInv) /\ [Next]_vars => (Solo => SoloInv)'
  BY SoloStep DEF Solo
<1> QED  BY <1>1, <1>2, PTL DEF Spec

(* While invocations do not overlap, a run that gets to the end repairs    *)
(* whatever any number of earlier, failed runs left behind.                *)
THEOREM Heals == Spec => []CompletedRunHeals
<1>1. (Solo => SoloInv) => CompletedRunHeals
  <2> SUFFICES ASSUME Solo, SoloInv, NEW l \in Invocations, pc[l] = "done"
               PROVE  /\ dns = fresh[l] /\ dns \in Servers
                      /\ inherited[l] \cap Servers = {}
                      /\ \A w \in Windows : status[w] = "running"
                      /\ Without({"post"}) => dns \in located
                      /\ Without({"sg"}) => open[host[dns]] = Ports
    BY DEF CompletedRunHeals
  <2> USE DEF SoloInv, Inv, Typed, TypeOK, LocalsSet, HasRegion, HasServer,
              Swept
  <2>1. dns = fresh[l] /\ dns \in Servers /\ host[dns] = region[l]
    BY DEF NameMoved, FreshUp, WindowsUp, Servers
  <2>2. inherited[l] \cap Servers = {}
    BY DEF Hunted
  <2>3. Without({"post"}) => dns \in located
    BY <2>1 DEF Told
  <2>4. Without({"sg"}) => open[host[dns]] = Ports
    BY <2>1 DEF PortsOpened, Ports
  <2> QED  BY <2>1, <2>2, <2>3, <2>4 DEF WindowsUp
<1> QED  BY SoloInvariant, <1>1, PTL

(* While invocations do not overlap, none is stopped half way, and every   *)
(* security-group call works, both player ports of the new region are      *)
(* closed from the launch until the name has moved.                        *)
THEOREM GateClosed == Spec => []GateClosedUntilNamed
<1>1. (Solo => SoloInv) => GateClosedUntilNamed
  BY DEF SoloInv, WssOnlyWithBncs, GateClosedUntilNamed
<1> QED  BY SoloInvariant, <1>1, PTL
-----------------------------------------------------------------------------
(* The ports while invocations overlap. *)

\* The steps at which an invocation stands in its region.
Standing == Steps \ {"choose"}

\* Invocations that overlap stand in different regions.
Apart ==
    \A k, l \in Invocations :
        k # l /\ pc[k] \in Standing /\ pc[l] \in Standing
            => region[k] # region[l]

\* Every region's ports are in the hands of the one invocation that stands
\* there: port 443 is never open alone but between its two revocations, both
\* are closed until its name has moved, and 6112 is open when it opens 443.
Gates ==
    /\ \A r \in Regions :
         Wss \in open[r] /\ Bncs \notin open[r]
           => \E l \in Invocations : pc[l] = "revoke443" /\ region[l] = r
    /\ \A l \in Invocations :
         /\ pc[l] = "revoke443" => Bncs \notin open[region[l]]
         /\ pc[l] \in {"announce", "allow443"} => Bncs \in open[region[l]]
         /\ pc[l] \in {"launch", "await", "address", "post", "sweep", "allow"}
              => open[region[l]] = {}

\* The faults that leave a port behind.
GateFaults == {"sg", "kill", "apply"}

GateInv == Typed /\ (Without(GateFaults) => Gates)

LEMMA GateInit == Init => GateInv
BY TypeInit DEF Init, GateInv, Gates, AtRest, Ports, Bncs, Wss

LEMMA GateStep ==
    Apart /\ Apart' /\ GateInv /\ [Next]_vars => GateInv'
<1> SUFFICES ASSUME Apart, Apart', GateInv, [Next]_vars, Without(GateFaults)'
             PROVE  Gates'
  BY TypeStep DEF GateInv
<1>0. Typed' /\ Gates
  BY TypeStep, NothingUndone DEF GateInv
<1>a. ~ (Fault("sg") \/ Fault("kill") \/ Fault("apply"))
  BY FaultMet DEF GateFaults
<1> USE <1>0, <1>a, RotationAssumption
    DEF GateInv, Gates, Apart, Standing, Typed, TypeOK, LocalsSet, HasRegion,
        Steps, AtRest, Ports, Bncs, Wss
<1>1. ASSUME NEW l \in Invocations, RevokeBncs(l) PROVE Gates'
  BY <1>1 DEF RevokeBncs, Goto, cloud, locals
<1>2. ASSUME NEW l \in Invocations, RevokeWss(l) PROVE Gates'
  BY <1>2 DEF RevokeWss, Goto, cloud, locals
<1>3. ASSUME NEW l \in Invocations, AllowBncs(l) PROVE Gates'
  BY <1>3 DEF AllowBncs, Allow, Goto, cloud, locals
<1>4. ASSUME NEW l \in Invocations, AllowWss(l) PROVE Gates'
  BY <1>4 DEF AllowWss, Allow, Goto, cloud, locals
<1>5. ASSUME NEW l \in Invocations, UNCHANGED open,
             \/ Begin(l) \/ ChooseRegion(l) \/ RecordRegion(l) \/ LookUp(l)
             \/ Launch(l) \/ AwaitRunning(l) \/ ReadAddress(l)
             \/ PostLocation(l) \/ Survey(l) \/ Terminate(l) \/ Upsert(l)
             \/ Announce(l)
      PROVE  Gates'
  BY <1>5
  DEF Begin, ChooseRegion, RecordRegion, LookUp, Launch, AwaitRunning,
      ReadAddress, PostLocation, Survey, Terminate, Upsert, Announce, Goto,
      cloud, locals
<1>6. ASSUME NEW l \in Invocations, Raise(l) \/ LaunchLost(l) PROVE Gates'
  BY <1>6 DEF Raise, LaunchLost, Leave, cloud
<1>7. CASE UNCHANGED <<open, pc, region>>
  BY <1>7
<1> QED
  BY <1>1, <1>2, <1>3, <1>4, <1>5, <1>6, <1>7
  DEF Next, Handler, Cloud, Begin, ChooseRegion, RecordRegion, LookUp, Launch,
      AwaitRunning, ReadAddress, PostLocation, Survey, Terminate, Upsert,
      Announce, Kill, Boot, BootFails, Forget, TerraformApply, vars, cloud,
      locals

(* Invocations may overlap, as long as no two of them ever stand in the    *)
(* same region: then too, without a failed security-group call, a run      *)
(* stopped by Lambda and an apply, both player ports of a new region are   *)
(* closed from the launch until the name has moved                         *)
(* (lambda_function.py:76-152).  That regions differ is not seen to by the *)
(* code: two runs that read the parameter before either has written it     *)
(* draw from the same candidates (lambda_function.py:48-51).               *)
THEOREM GatesApart ==
    Spec /\ []Apart =>
        [](Without({"sg", "kill", "apply"}) =>
             \A l \in Invocations :
                pc[l] \in {"launch", "await", "address", "post", "sweep",
                           "allow"}
                    => open[region[l]] = {})
<1>1. GateInv =>
        (Without({"sg", "kill", "apply"}) =>
             \A l \in Invocations :
                pc[l] \in {"launch", "await", "address", "post", "sweep",
                           "allow"}
                    => open[region[l]] = {})
  BY DEF GateInv, Gates, GateFaults
<1> QED  BY GateInit, GateStep, <1>1, PTL DEF Spec

-----------------------------------------------------------------------------
(* Which action changes what. *)

LEMMA OnlyAnnounce ==
    [Next]_vars /\ announced' # announced => \E l \in Invocations : Announce(l)
BY DEF Next, Handler, Cloud, vars, cloud, locals, Leave, Begin, ChooseRegion,
       RecordRegion, LookUp, RevokeBncs, RevokeWss, Launch, LaunchLost,
       AwaitRunning, ReadAddress, PostLocation, Survey, Terminate, Upsert,
       Allow, AllowBncs, AllowWss, Raise, Kill, Boot, BootFails, Forget,
       TerraformApply

LEMMA OnlyUpsert ==
    [Next]_vars /\ dns' # dns => \E l \in Invocations : Upsert(l)
BY DEF Next, Handler, Cloud, vars, cloud, locals, Leave, Begin, ChooseRegion,
       RecordRegion, LookUp, RevokeBncs, RevokeWss, Launch, LaunchLost,
       AwaitRunning, ReadAddress, PostLocation, Survey, Terminate, Announce,
       Allow, AllowBncs, AllowWss, Raise, Kill, Boot, BootFails, Forget,
       TerraformApply

LEMMA OnlyRevoke ==
    ASSUME TypeOK, [Next]_vars, NEW r \in Regions, ~ open[r] \subseteq open'[r]
    PROVE  \E l \in Invocations :
              region[l] = r /\ (RevokeBncs(l) \/ RevokeWss(l))
<1>1. CASE \E l \in Invocations : RevokeBncs(l)
  BY <1>1 DEF RevokeBncs, cloud, TypeOK
<1>2. CASE \E l \in Invocations : RevokeWss(l)
  BY <1>2 DEF RevokeWss, cloud, TypeOK
<1>3. CASE \E l \in Invocations : AllowBncs(l) \/ AllowWss(l)
  BY <1>3 DEF AllowBncs, AllowWss, Allow, TypeOK
<1>4. CASE \E q \in Regions : TerraformApply(q)
  BY <1>4 DEF TerraformApply, TypeOK
<1>5. CASE UNCHANGED open
  BY <1>5
<1> QED
  BY <1>1, <1>2, <1>3, <1>4, <1>5
  DEF Next, Handler, Cloud, vars, cloud, locals, Leave, Begin, ChooseRegion,
      RecordRegion, LookUp, Launch, LaunchLost, AwaitRunning, ReadAddress,
      PostLocation, Survey, Terminate, Upsert, Announce, Raise, Kill, Boot,
      BootFails, Forget

(* While invocations do not overlap, Discord is told of a server only when *)
(* it is up, has the name and, unless a security-group call failed, is     *)
(* reachable.                                                              *)
THEOREM AnnouncesCurrent == Spec => AnnounceCurrent
<1>1. (Solo => SoloInv) /\ [Next]_vars =>
        (Solo /\ announced' # announced =>
           /\ announced' = dns /\ dns \in Servers
           /\ Without({"sg"}) => Bncs \in open[host[dns]])
  <2> SUFFICES ASSUME Solo, SoloInv, NEW l \in Invocations, Announce(l),
                      announced' # announced
               PROVE  /\ announced' = dns /\ dns \in Servers
                      /\ Without({"sg"}) => Bncs \in open[host[dns]]
    BY OnlyAnnounce
  <2>1. pc[l] = "announce" /\ announced' = fresh[l]
    BY DEF Announce, Goto
  <2>2. dns = fresh[l] /\ dns \in Servers /\ host[dns] = region[l]
    BY <2>1 DEF SoloInv, Inv, Typed, LocalsSet, HasServer, Swept, NameMoved,
                FreshUp, WindowsUp, Servers
  <2> QED  BY <2>1, <2>2 DEF SoloInv, PortsOpened
<1> QED  BY SoloInvariant, <1>1, PTL DEF Spec, AnnounceCurrent

(* While invocations do not overlap and every run ends normally, the name  *)
(* always moves to another region.                                         *)
THEOREM Moves == Spec => MovesRegion
<1>1. (Solo => SoloInv) /\ [Next]_vars =>
        (Solo /\ Without(Aborts) /\ dns' # dns /\ dns # NoInstance
           => host[dns'] # host[dns])
  <2> SUFFICES ASSUME Solo, SoloInv, Without(Aborts), dns # NoInstance,
                      NEW l \in Invocations, Upsert(l)
               PROVE  host[dns'] # host[dns]
    BY OnlyUpsert
  <2>1. pc[l] = "sweep" /\ dns' = fresh[l]
    BY DEF Upsert, Goto
  <2>2. host[fresh[l]] = region[l]
    BY <2>1 DEF SoloInv, FreshUp, HasServer
  <2> QED  BY <2>1, <2>2 DEF SoloInv, Settled, HasRegion, Swept
<1> QED  BY SoloInvariant, <1>1, PTL DEF Spec, MovesRegion

(* While invocations do not overlap and every run ends normally, no        *)
(* revocation closes a port of the region the name stands in.              *)
THEOREM SparesLive == Spec => RevokeSparesLive
<1>1. (Solo => SoloInv) /\ [Next]_vars =>
        (Solo /\ Without(Aborts) =>
           \A r \in Regions : ~ open[r] \subseteq open'[r] =>
               ~ (dns \in Servers /\ host[dns] = r))
  <2> SUFFICES ASSUME Solo, SoloInv, Without(Aborts), [Next]_vars,
                      NEW r \in Regions, ~ open[r] \subseteq open'[r]
               PROVE  ~ (dns \in Servers /\ host[dns] = r)
    OBVIOUS
  <2>1. PICK l \in Invocations :
          region[l] = r /\ pc[l] \in {"revoke", "revoke443"}
    BY OnlyRevoke DEF RevokeBncs, RevokeWss, Goto, SoloInv, Inv, Typed
  <2>2. dns # NoInstance => host[dns] # r
    BY <2>1 DEF SoloInv, Settled, HasRegion, Swept
  <2> QED  BY <2>2, RotationAssumption DEF Servers
<1> QED  BY SoloInvariant, <1>1, PTL DEF Spec, RevokeSparesLive
-----------------------------------------------------------------------------
\* The faults that can end a run in its sweep.
CutOffs == {"api", "kill"}

\* Between sweeps the name stands for a server that is up.
NameStands ==
    (\A l \in Invocations : pc[l] # "sweep") /\ dns # NoInstance
        => dns \in Servers

LEMMA NameStandsStep ==
    Solo /\ SoloInv /\ NameStands /\ Without(CutOffs)' /\ [Next]_vars
        => NameStands'
<1> SUFFICES ASSUME Solo, SoloInv, NameStands, Without(CutOffs)', [Next]_vars
             PROVE  NameStands'
  OBVIOUS
<1> USE DEF SoloInv, Inv, Typed, TypeOK, LocalsSet, NameStands
<1>a. /\ ~ Fault("api") /\ ~ Fault("kill")
      /\ \A l \in Invocations : pc[l] = "sweep" =>
            /\ \A l2 \in Invocations : l2 = l
            /\ fresh[l] \in Servers
  BY FaultMet DEF CutOffs, Solo, FreshUp, HasServer, Servers, WindowsUp, Lists
<1>1. ASSUME NEW l \in Invocations, Upsert(l) PROVE NameStands'
  BY <1>1, <1>a DEF Upsert, Goto, Servers
<1>2. ASSUME NEW l \in Invocations, Terminate(l) \/ Survey(l) PROVE NameStands'
  BY <1>2 DEF Terminate, Survey
<1>3. ASSUME NEW l \in Invocations, PostLocation(l) PROVE NameStands'
  BY <1>3 DEF PostLocation, Goto
<1>4. ASSUME NEW l \in Invocations, Raise(l) \/ Kill(l) \/ LaunchLost(l)
      PROVE  NameStands'
  <2>1. pc[l] # "sweep" /\ UNCHANGED dns
    BY <1>4, <1>a DEF Raise, Kill, LaunchLost, FreshGone, cloud
  <2>2. dns # NoInstance /\ dns \in Servers => dns \in Servers'
    BY <1>4 DEF Raise, Kill, LaunchLost, RunInstance, Unused, Servers, cloud
  <2>3. \A l2 \in Invocations : pc[l2] # "sweep"
    BY <2>1 DEF Solo
  <2> QED  BY <2>1, <2>2, <2>3
<1>5. ASSUME NEW l \in Invocations,
             \/ Begin(l) \/ ChooseRegion(l) \/ RecordRegion(l) \/ LookUp(l)
             \/ RevokeBncs(l) \/ RevokeWss(l) \/ Launch(l) \/ AwaitRunning(l)
             \/ ReadAddress(l) \/ AllowBncs(l) \/ Announce(l) \/ AllowWss(l)
      PROVE  NameStands'
  <2>1. pc[l] # "sweep" /\ UNCHANGED dns
    BY <1>5 DEF Begin, ChooseRegion, RecordRegion, LookUp, RevokeBncs,
                RevokeWss, Launch, AwaitRunning, ReadAddress, AllowBncs,
                Announce, AllowWss, Allow, Goto, AtRest, cloud
  <2>2. Servers \subseteq Servers'
    BY <1>5 DEF Begin, ChooseRegion, RecordRegion, LookUp, RevokeBncs,
                RevokeWss, Launch, RunInstance, Unused, AwaitRunning,
                ReadAddress, AllowBncs, Announce, AllowWss, Allow, Servers,
                cloud
  <2>3. \A l2 \in Invocations : pc[l2] # "sweep"
    BY <2>1 DEF Solo
  <2> QED  BY <2>1, <2>2, <2>3
<1>6. ASSUME NEW i \in Instances, Cloud(i) PROVE NameStands'
  BY <1>6 DEF Cloud, Boot, BootFails, Forget, Servers
<1>7. ASSUME NEW r \in Regions, TerraformApply(r) PROVE NameStands'
  BY <1>7 DEF TerraformApply, Servers, locals
<1>8. CASE UNCHANGED vars
  BY <1>8 DEF vars, cloud, locals, Servers
<1> QED
  BY <1>1, <1>2, <1>3, <1>4, <1>5, <1>6, <1>7, <1>8 DEF Next, Handler

(* What readme.md:198 says of the record is true while invocations do not  *)
(* overlap as long as no call of the handler has raised and none has been  *)
(* stopped: whatever else fails, between two rotations the name stands for *)
(* a server that is up.                                                    *)
THEOREM NamesActive ==
    Spec => [](Solo /\ Without(CutOffs) => DnsNamesActiveInstance)
<1>1. Init => NameStands  BY DEF Init, NameStands
<1>2. /\ (Solo => SoloInv) /\ (Solo /\ Without(CutOffs) => NameStands)
      /\ [Next]_vars
      => (Solo /\ Without(CutOffs) => NameStands)'
  <2>1. [Next]_vars /\ Without(CutOffs)' => Without(CutOffs)
    BY NothingUndone
  <2> QED  BY <2>1, NameStandsStep DEF Solo
<1>3. (Solo /\ Without(CutOffs) => NameStands)
        => (Solo /\ Without(CutOffs) => DnsNamesActiveInstance)
  BY DEF NameStands, DnsNamesActiveInstance, AtRest
<1> QED  BY SoloInvariant, <1>1, <1>2, <1>3, PTL DEF Spec

-----------------------------------------------------------------------------
(* The rotation implements module Service. *)

LEMMA ServiceInit == Init => S!Init
BY DEF Init, S!Init, Servers

\* A step of the orchestrator is a step of Service or changes neither the
\* servers nor the name.
LEMMA ServiceStep ==
    Solo /\ SoloInv /\ [Next]_vars => [S!Next]_<<Servers, dns>>
<1> SUFFICES ASSUME Solo, SoloInv, [Next]_vars
             PROVE  S!Next \/ UNCHANGED <<Servers, dns>>
  OBVIOUS
<1> USE DEF SoloInv, Inv, Typed, TypeOK
<1>1. ASSUME NEW i \in Instances, Boot(i) PROVE S!Next
  <2>1. Servers' = Servers \cup {i} /\ UNCHANGED dns
    BY <1>1 DEF Boot, Servers, WindowsUp
  <2> QED  BY <2>1 DEF S!Next, S!Arrive
<1>2. ASSUME NEW l \in Invocations, Terminate(l)
      PROVE  S!Next \/ UNCHANGED <<Servers, dns>>
  <2>1. PICK i \in victims[l] :
          status' = IF status[i] = "absent" THEN status
                    ELSE [status EXCEPT ![i] = "terminated"]
    BY <1>2 DEF Terminate
  <2>2. fresh[l] \in Servers /\ fresh[l] # i
    BY <1>2, <2>1 DEF Terminate, FreshUp, WindowsUp, LocalsSet, Lists,
                      HasServer, Servers
  <2>3. UNCHANGED dns  BY <1>2 DEF Terminate
  <2>4. CASE status[i] = "absent"
    BY <2>1, <2>3, <2>4 DEF Servers
  <2>5. CASE status[i] # "absent"
    <3>1. Servers' = Servers \ {i}  BY <2>1, <2>5 DEF Servers
    <3>2. Servers' # {}  BY <2>2, <3>1
    <3> QED  BY <2>3, <3>1, <3>2 DEF S!Next, S!Retire
  <2> QED  BY <2>4, <2>5
<1>3. ASSUME NEW l \in Invocations, Upsert(l) PROVE S!Next
  <2>1. fresh[l] \in Servers /\ dns' = fresh[l] /\ UNCHANGED Servers
    BY <1>3 DEF Upsert, Goto, FreshUp, WindowsUp, LocalsSet, HasServer, Servers
  <2> QED  BY <2>1 DEF S!Next, S!Name, Servers
<1>4. ASSUME NEW i \in Instances, BootFails(i) \/ Forget(i)
      PROVE  UNCHANGED <<Servers, dns>>
  BY <1>4 DEF BootFails, Forget, Servers
<1>5. ASSUME NEW l \in Invocations, Launch(l) \/ LaunchLost(l)
      PROVE  UNCHANGED <<Servers, dns>>
  BY <1>5 DEF Launch, LaunchLost, RunInstance, Unused, Servers
<1>6. CASE UNCHANGED <<status, dns>>
  BY <1>6 DEF Servers
<1> QED
  BY <1>1, <1>2, <1>3, <1>4, <1>5, <1>6
  DEF Next, Handler, Cloud, vars, cloud, locals, Leave, Begin, ChooseRegion,
      RecordRegion, LookUp, RevokeBncs, RevokeWss, AwaitRunning, ReadAddress,
      PostLocation, Survey, Announce, Allow, AllowBncs, AllowWss, Raise, Kill,
      TerraformApply

(* While invocations do not overlap, and whatever fails, a server is only  *)
(* retired while another is up and the name is only given to a server that *)
(* is up.                                                                  *)
THEOREM Implements == Solo => (Spec => KeepsService)
<1>1. SUFFICES ASSUME Solo PROVE Spec => KeepsService
  OBVIOUS
<1>2. (Solo => SoloInv) /\ [Next]_vars => [S!Next]_<<Servers, dns>>
  BY <1>1, ServiceStep
<1> QED
  BY SoloInvariant, ServiceInit, <1>2, PTL DEF Spec, KeepsService, S!Spec

-----------------------------------------------------------------------------
(* No run goes on for ever. *)

\* How many more steps an invocation takes, a sweep counting as one.
StepsLeft ==
    [ choose |-> 13, record |-> 12, lookup |-> 11, revoke |-> 10,
      revoke443 |-> 9, launch |-> 8, await |-> 7, address |-> 6, post |-> 5,
      sweep |-> 4, allow |-> 3, announce |-> 2, allow443 |-> 1, done |-> 0,
      idle |-> 0 ]

Fewer(new, old) == new \subseteq old /\ new # old

\* An invocation gets nearer to its end: to a later step or, in the sweep,
\* to fewer regions or to fewer victims in the region it is at.
Nearer(l) ==
    \/ StepsLeft[pc'[l]] < StepsLeft[pc[l]]
    \/ pc'[l] = pc[l] /\ Fewer(todo'[l], todo[l])
    \/ UNCHANGED <<pc[l], todo[l]>> /\ Fewer(victims'[l], victims[l])

\* Every step of a run takes it nearer to its end, and nobody takes it back.
RunsDown ==
    \A l \in Invocations :
        /\ Handler(l) => Nearer(l)
        /\ pc[l] \in Steps =>
             Nearer(l) \/ UNCHANGED <<pc[l], todo[l], victims[l]>>

LEMMA HandlerNearer ==
    ASSUME Typed, NEW l \in Invocations,
           Handler(l) \/ LaunchLost(l) \/ Kill(l)
    PROVE  /\ Nearer(l)
           /\ \A k \in Invocations \ {l} :
                UNCHANGED <<pc[k], todo[k], victims[k]>>
<1> USE DEF Typed, TypeOK
<1>1. \A k \in Invocations \ {l} : UNCHANGED <<pc[k], todo[k], victims[k]>>
  BY DEF Handler, LaunchLost, Kill, Leave, Goto, ChooseRegion, RecordRegion,
         LookUp, RevokeBncs, RevokeWss, Launch, AwaitRunning, ReadAddress,
         PostLocation, Survey, Terminate, Upsert, Allow, AllowBncs, Announce,
         AllowWss, Raise, cloud, locals
<1>2. CASE Survey(l)
  BY <1>2 DEF Survey, Nearer, Fewer
<1>3. CASE Terminate(l)
  BY <1>3 DEF Terminate, Nearer, Fewer
<1>4. CASE LaunchLost(l) \/ Kill(l) \/ Raise(l)
  <2>1. pc[l] \in Steps /\ pc'[l] = "idle"
    BY <1>4 DEF LaunchLost, Kill, Raise, Leave, Steps
  <2>2. StepsLeft["idle"] = 0
    BY DEF StepsLeft, AtRest
  <2>3. StepsLeft[pc[l]] > 0
    BY <2>1 DEF StepsLeft, Steps, AtRest
  <2> QED  BY <1>1, <2>1, <2>2, <2>3 DEF Nearer
<1>5. CASE \/ ChooseRegion(l) \/ RecordRegion(l) \/ LookUp(l)
           \/ RevokeBncs(l) \/ RevokeWss(l) \/ Launch(l)
           \/ AwaitRunning(l) \/ ReadAddress(l) \/ PostLocation(l)
           \/ Upsert(l) \/ AllowBncs(l) \/ Announce(l) \/ AllowWss(l)
  <2>1. <<pc[l], pc'[l]>> \in
          { <<"choose", "record">>, <<"record", "lookup">>,
            <<"lookup", "revoke">>, <<"revoke", "revoke443">>,
            <<"revoke", "launch">>, <<"revoke443", "launch">>,
            <<"launch", "await">>, <<"await", "address">>,
            <<"address", "post">>, <<"post", "sweep">>, <<"sweep", "allow">>,
            <<"allow", "announce">>, <<"announce", "allow443">>,
            <<"allow443", "done">> }
    BY <1>5
    DEF Goto, ChooseRegion, RecordRegion, LookUp, RevokeBncs, RevokeWss,
        Launch, AwaitRunning, ReadAddress, PostLocation, Upsert, AllowBncs,
        Announce, AllowWss
  <2>2. StepsLeft[pc'[l]] < StepsLeft[pc[l]]
    BY <2>1 DEF StepsLeft, AtRest
  <2> QED  BY <1>1, <2>2 DEF Nearer
<1> QED  BY <1>1, <1>2, <1>3, <1>4, <1>5 DEF Handler

LEMMA RunsDownStep == ASSUME Typed, Next PROVE RunsDown
<1> SUFFICES ASSUME NEW l \in Invocations
             PROVE  /\ Handler(l) => Nearer(l)
                    /\ pc[l] \in Steps =>
                         \/ Nearer(l)
                         \/ UNCHANGED <<pc[l], todo[l], victims[l]>>
  BY DEF RunsDown
<1>1. Handler(l) => Nearer(l)
  BY HandlerNearer
<1>2. ASSUME NEW k \in Invocations, Handler(k) \/ LaunchLost(k) \/ Kill(k)
      PROVE  Nearer(l) \/ UNCHANGED <<pc[l], todo[l], victims[l]>>
  BY <1>2, HandlerNearer
<1>3. ASSUME NEW k \in Invocations, Begin(k), pc[l] \in Steps
      PROVE  UNCHANGED <<pc[l], todo[l], victims[l]>>
  <2>1. k # l  BY <1>3 DEF Begin, Steps, AtRest
  <2> QED  BY <1>3, <2>1 DEF Begin, Typed, TypeOK
<1>4. CASE \/ \E i \in Instances : Cloud(i)
           \/ \E r \in Regions : TerraformApply(r)
  BY <1>1, <1>4 DEF Cloud, Boot, BootFails, Forget, TerraformApply, locals
<1> QED  BY <1>1, <1>2, <1>3, <1>4 DEF Next

(* A run of the handler takes it nearer to its end at every step, in an    *)
(* order without infinite descent when there are finitely many regions and *)
(* instances, and neither another run nor EC2 nor the operator takes it    *)
(* back: an instance terminated, started or forgotten under a sweep adds   *)
(* nothing to it, since both loops go over lists read before               *)
(* (lambda_function.py:113-131).                                           *)
THEOREM NoRunGoesBack == Spec => [][RunsDown]_vars
<1>1. Typed /\ [Next]_vars => [RunsDown]_vars  BY RunsDownStep
<1> QED  BY TypeInit, TypeStep, <1>1, PTL DEF Spec

-----------------------------------------------------------------------------
(* What no sweep touches. *)

(* Whatever overlaps and whatever fails, no invocation ever terminates a   *)
(* Windows box or its own server (lambda_function.py:120-126).             *)
THEOREM Spares ==
    Spec => /\ [](\A w \in Windows : status[w] = "running")
            /\ [][\A l \in Invocations : Terminate(l) =>
                    status'[fresh[l]] = status[fresh[l]]]_vars
<1>1. Inv => \A w \in Windows : status[w] = "running"
  BY DEF Inv, WindowsUp
<1>2. ASSUME Inv, NEW l \in Invocations, Terminate(l)
      PROVE  status'[fresh[l]] = status[fresh[l]]
  BY <1>2 DEF Inv, Lists, Terminate, Typed, TypeOK
<1>3. Inv => [\A l \in Invocations : Terminate(l) =>
                 status'[fresh[l]] = status[fresh[l]]]_vars
  BY <1>2
<1> QED  BY InvInit, InvStep, <1>1, <1>3, PTL DEF Spec
=============================================================================
