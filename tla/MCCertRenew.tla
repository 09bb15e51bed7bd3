---------------------------- MODULE MCCertRenew -----------------------------
(* TLC instances of CertRenewProperties. *)
EXTENDS CertRenewProperties, TLC

\* Instances are interchangeable.
Symmetry == Permutations(Instances)

\* As rotations do it: an instance is launched once the ones before it have
\* been named and rebooted.
InTurn == \A i, j \in up \ rebooted : i = j
=============================================================================
