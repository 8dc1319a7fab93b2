--------------------------- MODULE MCActiveNames ---------------------------
(***************************************************************************)
(* The instances of ActiveNames that TLC explores.                         *)
(***************************************************************************)
EXTENDS ActiveNames, TLC

\* Every namespace in the one tenant of the host.
OneTenant == [ns \in Namespace |-> CHOOSE t \in Tenant : TRUE]

\* Names of the same length and flushes of the same task may trade places.
Symmetry == Permutations(Name \ LongName) \cup Permutations(Flusher)
=============================================================================
