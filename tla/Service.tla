------------------------------- MODULE Service -------------------------------
(***************************************************************************)
(* What the rotation promises the players, without regions, invocations or *)
(* faults: servers come up and are retired one at a time, the last one     *)
(* that is up is never retired, and the name war.pianka.io is only ever    *)
(* given to a server that is up.                                           *)
(***************************************************************************)
CONSTANTS Hosts, NoHost

VARIABLES up,   \* the servers that are up
          named \* the server the name stands for

Init == up = {} /\ named = NoHost

\* A server comes up.
Arrive(i) == up' = up \cup {i} /\ UNCHANGED named

\* A server is retired; another one stays.
Retire(i) == up' = up \ {i} /\ up' # {} /\ UNCHANGED named

\* The name moves to a server that is up.
Name(i) == i \in up /\ named' = i /\ UNCHANGED up

Next == \E i \in Hosts : Arrive(i) \/ Retire(i) \/ Name(i)

Spec == Init /\ [][Next]_<<up, named>>
=============================================================================
