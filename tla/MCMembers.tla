----------------------------- MODULE MCMembers -----------------------------
(* The portfolio of each domain and symmetry for TLC. *)
EXTENDS Members, TLC

CONSTANTS A, B, d1

OrgMC == (d1 :> A)

=============================================================================
