--------------------------- MODULE MCNameServers ---------------------------
(* Two domains whose names are alike: both take ns1 for their own, and ns2 *)
(* is below the second one only.                                           *)
EXTENDS NameServers, TLC

CONSTANTS d1, d2, ns1, ns2, ns3, t1, t2, t3, s1, s2

ParentMC == [h \in Host |-> IF h \in {ns1, ns2} THEN d2 ELSE NoDomain]
OwnMC == [d \in Domain |-> IF d = d1 THEN {ns1} ELSE {ns1, ns2}]
InitiallyMC == [d \in Domain |-> IF d = d1 THEN {} ELSE {ns1, ns2}]
SessionOfMC == [a \in Tab |-> IF a = t3 THEN s2 ELSE s1]

\* One domain with name servers elsewhere.
NoParent == [h \in Host |-> NoDomain]
NoneOwn == [d \in Domain |-> {}]
AllHosts == [d \in Domain |-> Host]

Symmetry == Permutations({t1, t2}) \cup Permutations(Address)

=============================================================================
