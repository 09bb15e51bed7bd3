----------------------------- MODULE Announcement -----------------------------
(***************************************************************************)
(* What the orchestrator's send_message promises to its caller: the        *)
(* players are told, once, and when the call is over nothing is left open. *)
(* It may be over without a message only when something has gone wrong     *)
(* that costs the message, and a message may be repeated only when         *)
(* something has happened that repeats it.                                 *)
(***************************************************************************)
EXTENDS Naturals

VARIABLES told,   \* how many messages the players have read
          open,   \* whether the call holds a connection or a session
          over,   \* whether it has returned
          again,  \* whether something has happened that repeats the message
          lost    \* whether something has happened that costs it

vars == <<told, open, over, again, lost>>

Init ==
    /\ told = 0
    /\ open = TRUE /\ over = FALSE
    /\ again = FALSE /\ lost = FALSE

\* The players read a message; it may still come when the call is over.
Tell ==
    /\ told = 0 \/ again
    /\ told' = told + 1
    /\ UNCHANGED <<open, over, again, lost>>

\* The connections are given back, ...
Shut ==
    /\ open /\ ~ over
    /\ open' = FALSE
    /\ UNCHANGED <<told, over, again, lost>>

\* ... and only then the call returns.
Return ==
    /\ ~ open /\ ~ over
    /\ told > 0 \/ lost
    /\ over' = TRUE
    /\ UNCHANGED <<told, open, again, lost>>

\* Something happens that is an excuse, and stays one.
Excuse ==
    /\ ~ over
    /\ again => again'
    /\ lost => lost'
    /\ UNCHANGED <<told, open, over>>

Next == Tell \/ Shut \/ Return \/ Excuse

Spec == Init /\ [][Next]_vars
=============================================================================
