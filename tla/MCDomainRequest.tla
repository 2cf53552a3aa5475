-------------------------- MODULE MCDomainRequest --------------------------
(* Instances of DomainRequest for TLC. *)
EXTENDS DomainRequest, TLC

\* Tabs are alike, and so are requests for the same name.
Symmetry == Permutations(Tabs) \cup Permutations(Requests)

=============================================================================
