----------------------- MODULE DomainRequestStatuses -----------------------
(***************************************************************************)
(* What the FSM field `status` of DomainRequest promises: the statuses a   *)
(* set of requests goes through, one transition of one request at a time.  *)
(* This is the table a reader finds in the @transition decorators, without *)
(* anything of how the status gets into the database.                      *)
(***************************************************************************)

CONSTANT Requests
VARIABLE status

Statuses == {"started", "submitted", "in review", "in review - omb", "action needed",
             "approved", "rejected", "ineligible", "withdrawn"}

\* "none" stands for a request whose row has been deleted.
Init == status = [r \in Requests |-> "started"]

Moves(sources, target) ==
  \E r \in Requests :
    /\ status[r] \in sources
    /\ status' = [status EXCEPT ![r] = target]

Submit == Moves({"started", "in review", "in review - omb", "action needed", "withdrawn"},
                "submitted")
\* The wizard submits a request that OMB reviews and passes it on at once.
SubmitToOmb == Moves({"started", "in review", "in review - omb", "action needed", "withdrawn"},
                     "in review - omb")
InReview == Moves({"submitted", "action needed", "approved", "rejected", "ineligible"},
                  "in review")
ActionNeeded == Moves({"in review", "in review - omb", "approved", "rejected", "ineligible"},
                      "action needed")
Approve == Moves({"in review", "in review - omb", "action needed", "rejected"}, "approved")
Withdraw == Moves({"submitted", "in review", "in review - omb", "action needed"}, "withdrawn")
Reject == Moves({"in review", "in review - omb", "action needed", "approved"}, "rejected")
RejectWithPrejudice == Moves({"submitted", "in review", "in review - omb", "action needed",
                              "approved", "rejected"}, "ineligible")
Delete == Moves({"started", "withdrawn"}, "none")

Next == \/ Submit \/ SubmitToOmb \/ InReview \/ ActionNeeded \/ Approve
        \/ Withdraw \/ Reject \/ RejectWithPrejudice \/ Delete

Spec == Init /\ [][Next]_status

=============================================================================
