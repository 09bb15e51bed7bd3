------------------------- MODULE RotationProperties -------------------------
(***************************************************************************)
(* What the orchestrator of module Rotation must not do, whatever fails,   *)
(* and what it eventually does once failures stop.                         *)
(***************************************************************************)
EXTENDS Rotation

\* No two invocations overlap: what the two-hour schedule gives as long as
\* nobody invokes the function by hand and no event is delivered twice.
Solo == \A l1, l2 \in Invocations : l1 = l2

\* None of the faults in F has happened so far.
Without(F) == met \cap F = {}

\* The faults that end a run early.
Aborts == {"api", "lost", "boot", "kill"}

(* Every variable of the orchestrator and of its cloud keeps its type. *)
TypeOK ==
    /\ lastUsed \in Regions \cup {NoRegion}
    /\ status \in [Instances -> {"absent", "pending", "running", "terminated"}]
    /\ host \in [Instances -> Regions \cup {NoRegion}]
    /\ located \in SUBSET Instances
    /\ open \in [Regions -> SUBSET Ports]
    /\ dns \in Instances \cup {NoInstance}
    /\ announced \in Instances \cup {NoInstance}
    /\ pc \in [Invocations -> AtRest \cup Steps]
    /\ region \in [Invocations -> Regions \cup {NoRegion}]
    /\ fresh \in [Invocations -> Instances \cup {NoInstance}]
    /\ todo \in [Invocations -> SUBSET Regions]
    /\ victims \in [Invocations -> SUBSET Instances]
    /\ inherited \in [Invocations -> SUBSET Instances]
    /\ faults \in Nat
    /\ met \subseteq Faults

-----------------------------------------------------------------------------
(* The sweep of lambda_function.py:113-131 is complete: once an invocation *)
(* has given its server the name, no server that was running when it began *)
(* runs any more.  It holds with overlapping invocations and any faults:   *)
(* a run that could not finish its sweep never gets as far as the name.    *)
PredecessorsRetired ==
    \A l \in Invocations :
        pc[l] \in {"allow", "announce", "allow443", "done"}
            => inherited[l] \cap Servers = {}

(* A run that gets to the end repairs whatever earlier runs left behind    *)
(* (lambda_function.py:44-169): its server is up and has the name, its     *)
(* predecessors are retired, the Windows box is untouched and, unless one  *)
(* of the calls whose failure is swallowed failed, the agent knows the     *)
(* location and both player ports are open.                                *)
CompletedRunHeals ==
    Solo => \A l \in Invocations : pc[l] = "done" =>
        /\ dns = fresh[l] /\ dns \in Servers
        /\ inherited[l] \cap Servers = {}
        /\ \A w \in Windows : status[w] = "running"
        /\ Without({"post"}) => dns \in located
        /\ Without({"sg"}) => open[host[dns]] = Ports

(* From the revocation on (lambda_function.py:76) no player reaches the    *)
(* region of the new server before the name has moved there: both ports    *)
(* are closed until line 152.  It takes security-group calls that work and *)
(* no invocation stopped between the two revocations, in this run and in   *)
(* every run before it, because revoke_port_6112 skips the second port     *)
(* when the first is found closed.                                         *)
GateClosedUntilNamed ==
    Solo /\ Without({"sg", "kill", "apply"}) =>
        \A l \in Invocations :
            pc[l] \in {"launch", "await", "address", "post", "sweep", "allow"}
                => open[region[l]] = {}

-----------------------------------------------------------------------------
(* When the name moves it moves to another region: what the exclusion of   *)
(* lambda_function.py:232-234 is for.  It needs every run to end normally: *)
(* the parameter is written before the region is used.                     *)
MovesRegion ==
    [][Solo /\ Without(Aborts) /\ dns' # dns /\ dns # NoInstance
         => host[dns'] # host[dns]]_vars

(* Closing a region's ports (lambda_function.py:352-370) never cuts off    *)
(* the server the players are on.  Again only when every run ends          *)
(* normally: after an aborted run the region in use can be drawn again.    *)
RevokeSparesLive ==
    [][Solo /\ Without(Aborts) =>
         \A r \in Regions : ~ open[r] \subseteq open'[r] =>
             ~ (dns \in Servers /\ host[dns] = r)]_vars

(* Discord is told of a server only when it is up and has the name         *)
(* (lambda_function.py:133-158), and its game port is open unless a        *)
(* security-group call failed unseen.                                      *)
AnnounceCurrent ==
    [][Solo /\ announced' # announced =>
         /\ announced' = dns /\ dns \in Servers
         /\ Without({"sg"}) => Bncs \in open[host[dns]]]_vars

(* The servers and the name, seen as module Service sees them. *)
S == INSTANCE Service
        WITH Hosts <- Instances, NoHost <- NoInstance,
             up <- Servers, named <- dns

(* While invocations do not overlap the rotation keeps the promise of      *)
(* module Service: whatever fails, a server is retired only while another  *)
(* is up, and the name is only given to a server that is up                *)
(* (lambda_function.py:99-149).                                            *)
KeepsService == S!Spec

-----------------------------------------------------------------------------
\* Players that resolve the name find a server that is up with its port open.
Serving == dns \in Servers /\ Bncs \in open[host[dns]]

(* Once faults stop, players are served again and again: every failed run  *)
(* is made good by the runs after it (lambda_function.py:163-164 only logs *)
(* the failure and leaves the repair to the next tick).                    *)
Recovers == []<>Serving

(* Every invocation comes to an end, one way or another. *)
RunsEnd == \A l \in Invocations : pc[l] = "choose" ~> pc[l] \in AtRest

-----------------------------------------------------------------------------
(* readme.md:198: "Route53 DNS points to the active instance".  Read for   *)
(* the moments when no rotation is under way.                              *)
DnsNamesActiveInstance ==
    (\A l \in Invocations : pc[l] \in AtRest) /\ dns # NoInstance
        => dns \in Servers
=============================================================================
