----------------------------- MODULE MCRotation -----------------------------
(* TLC instances of RotationProperties. *)
EXTENDS RotationProperties, TLC

\* Regions are interchangeable, and so are the instances of each kind; used
\* by the runs that check no liveness property.
Symmetry ==
    Permutations(Regions) \cup Permutations(Instances \ Windows)
        \cup Permutations(Invocations)
=============================================================================
