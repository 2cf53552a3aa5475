------------------------- MODULE MCDomainLifecycle -------------------------
(* Sets of requests and symmetry for TLC. *)
EXTENDS DomainLifecycle, TLC

Symmetry == Permutations(Actors)

AllOps == Ops

\* The requests of domain managers.
ManagerOps == SessionOps \cup {"user hold"}

=============================================================================
