-------------------------------- MODULE Naming --------------------------------
(***************************************************************************)
(* What the agent's update-location is to the rest of the system: a        *)
(* request after which the machine goes down once and comes back with its  *)
(* place, its gate closed, and nothing that changes either.  As long as    *)
(* all is sound the request takes effect at once, when the machine is told *)
(* to go down; when it is not, the place may be missing and the gate open, *)
(* but a gate that is closed stays closed, and the players are never shown *)
(* anything but a place.                                                   *)
(***************************************************************************)

VARIABLES stage,   \* "new", "going" down, "back"
          place,   \* what the machine has of its place on disk
          gate,    \* whether its gate is closed
          shown,   \* what the players are shown since it is back, or "down"
          sound    \* whether all has been sound so far

vars == <<stage, place, gate, shown, sound>>

Init ==
    /\ stage = "new"
    /\ place = "template" /\ gate = FALSE
    /\ shown = "down"
    /\ sound = TRUE

\* The machine is given its place, and goes down.
Name ==
    /\ stage = "new" /\ stage' = "going"
    /\ place' \in IF sound THEN {"named"} ELSE {"named", "empty"}
    /\ sound => gate' = TRUE
    /\ UNCHANGED <<shown, sound>>

\* It comes back.
Return ==
    /\ stage = "going" /\ stage' = "back"
    /\ gate => gate'
    /\ UNCHANGED <<place, shown, sound>>

\* The players are shown its place, ...
Show ==
    /\ stage = "back"
    /\ shown = "down" /\ place = "named"
    /\ shown' = place
    /\ UNCHANGED <<stage, place, gate, sound>>

\* ... until the server goes down.
Hide ==
    /\ shown' = "down"
    /\ UNCHANGED <<stage, place, gate, sound>>

\* From now on something is wrong.
Lapse ==
    /\ sound' = FALSE
    /\ UNCHANGED <<stage, place, gate, shown>>

\* A request that should not have been handled any more is.
Botch ==
    /\ ~ sound /\ stage # "new"
    /\ place' \in {"named", "empty"}
    /\ gate => gate'
    /\ shown' \in {shown, "down"}
    /\ UNCHANGED <<stage, sound>>

Next == Name \/ Return \/ Show \/ Hide \/ Lapse \/ Botch

Spec == Init /\ [][Next]_vars
=============================================================================
