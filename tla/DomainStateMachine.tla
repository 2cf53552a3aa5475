------------------------ MODULE DomainStateMachine ------------------------
(***************************************************************************)
(* What a Domain row promises to whoever reads the table: the states of    *)
(* the FSM field, the transitions that the decorators allow, and a         *)
(* first_ready that is stamped when the domain first becomes ready.        *)
(***************************************************************************)
EXTENDS Naturals

VARIABLES
  state,       \* the column `state`
  firstReady,  \* the column `first_ready`, 0 for null
  outdated     \* is a copy of the row about to be written that is not of today?

Init == state = "unknown" /\ firstReady = 0

\* The domain is created at the registry on its first visit; or the registry
\* turns out to know it, with name servers that the same request removes.
Register ==
  /\ state = "unknown"
  /\ state' = "dns needed"
  /\ UNCHANGED firstReady \/ firstReady' \in Nat \ {0}

\* The domain has name servers; from "unknown" in one request with the
\* repair of a domain that the registry turns out to know.
BecomeReady ==
  /\ state \in {"unknown", "dns needed", "on hold"}
  /\ state' = "ready"
  /\ IF firstReady = 0 THEN firstReady' \in Nat \ {0} ELSE UNCHANGED firstReady
  /\ state = "on hold" => UNCHANGED firstReady

LoseNameservers ==
  /\ state = "ready"
  /\ state' = "dns needed"
  /\ UNCHANGED firstReady

Hold ==
  /\ state = "ready"
  /\ state' = "on hold"
  /\ UNCHANGED firstReady

Delete ==
  /\ state \in {"on hold", "dns needed"}
  /\ state' = "deleted"
  /\ UNCHANGED firstReady

\* What an outdated copy says of a domain that was not deleted replaces what
\* the row says.
Overwritten ==
  /\ outdated
  /\ state # "deleted"
  /\ state' \in {"unknown", "dns needed", "ready", "on hold"}
  /\ firstReady' \in Nat

Next == Register \/ BecomeReady \/ LoseNameservers \/ Hold \/ Delete \/ Overwritten

Spec == Init /\ [][Next]_<<state, firstReady>>

=============================================================================
