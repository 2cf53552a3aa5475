--------------------- MODULE DomainRequestSerialProofs ---------------------
(***************************************************************************)
(* What holds of the requests for a name as long as transactions do not    *)
(* overlap, for any number of requests, tabs and domains: stale forms,     *)
(* failures of the registry and long histories are still in play.          *)
(***************************************************************************)
EXTENDS DomainRequestProofs

-----------------------------------------------------------------------------
(* The inductive invariants *)

\* While transactions do not overlap, one is under way at most.
SerialInv == \A a, b \in Tabs : tx[a] \in Tx /\ tx[b] \in Tx => a = b

\* The rows refer to Domain rows that exist, and no two to the same one.
Links ==
  /\ \A r \in Requests : dr[r].approved # NoDomain => dom[dr[r].approved] \notin {"none", "removed"}
  /\ \A r, s \in Requests : dr[r].approved # NoDomain /\ dr[r].approved = dr[s].approved => r = s
  /\ \A r \in Requests : dr[r].status = "approved" => dr[r].approved # NoDomain

\* What a transaction found when it was admitted, and what it decided from it,
\* is still so.
Fresh(a) ==
  /\ ~restricted
  /\ tx[a].op \in {"edit"} \cup AdminOps => page[a] = tx[a].at
  /\ tx[a].step = "act" => tx[a].mem = dr[tx[a].at]
  /\ tx[a].step = "commit" =>
       /\ tx[a].mem.approved \in {NoDomain, dr[tx[a].at].approved}
       /\ tx[a].mem.status = "approved" /\ tx[a].todo.do \notin Creates => tx[a].mem.approved # NoDomain
       /\ tx[a].mem.status # "approved" /\ dr[tx[a].at].status = "approved"
            => dom[dr[tx[a].at].approved] # "ready"
       /\ tx[a].todo.do = "remove" =>
            /\ tx[a].todo.dom = dr[tx[a].at].approved
            /\ tx[a].mem.approved = NoDomain

FreshInv == Links /\ \A a \in Tabs : tx[a] \in Tx => Fresh(a)

\* What one transaction may make of a status: nothing, a transition of the
\* admin's form, the two transitions of the wizard's end, or a deletion.
StatusMove(from, to) ==
  \/ to = from
  \/ \E t \in AdminOps : from \in Sources(t) /\ to = Target(t)
  \/ from \in Sources("submit") /\ to = "in review - omb"
  \/ from \in {"started", "withdrawn"} /\ to = "none"

\* Every transaction about to commit makes such a move of the row as it is.
MovesLawfully ==
  \A a \in Tabs : tx[a] \in Tx /\ tx[a].step = "commit" =>
    StatusMove(dr[tx[a].at].status, tx[a].mem.status)

-----------------------------------------------------------------------------
(* One transaction at a time *)

LEMMA SerialNext ==
  ASSUME IInv, SerialInv, ~Overlap, [Next]_vars
  PROVE  SerialInv'
<1>1. ASSUME \A b \in Tabs : tx'[b] \in Tx => tx[b] \in Tx PROVE SerialInv'
  BY <1>1 DEF SerialInv
<1>2. ASSUME NEW a \in Tabs, NEW r \in Requests,
             Edit(a, r) \/ Done(a, r) \/ Withdrawn(a, r) \/ Delete(a, r)
               \/ \E t \in AdminOps : ChangeStatus(a, r, t)
      PROVE  SerialInv'
  <2>1. \A b \in Tabs : tx[b] \notin Tx
    BY <1>2, TxFacts DEF Edit, Done, Withdrawn, Delete, ChangeStatus, Begin, Quiet, Idle, IInv
  <2>2. \E t : tx' = [tx EXCEPT ![a] = t]
    BY <1>2 DEF Edit, Done, Withdrawn, Delete, ChangeStatus, Begin
  <2>3. \A b \in Tabs : tx'[b] \in Tx => b = a
    BY <2>1, <2>2 DEF IInv, TypeOK
  <2> QED BY <2>3 DEF SerialInv
<1>3. ASSUME NEW a \in Tabs, Decisions(a) PROVE SerialInv'
  <2>1. tx[a] \in Tx
    BY <1>3, TxFacts DEF IInv, Decisions, SaveUnchanged, Transition, Approve, ApproveRefused
  <2>2. \E t : tx' = [tx EXCEPT ![a] = t]
    BY <1>3 DEF Decisions, SaveUnchanged, Transition, Approve, ApproveRefused, Decided
  <2> QED BY <1>1, <2>1, <2>2 DEF IInv, TypeOK
<1>4. ASSUME NEW a \in Tabs, Refuse(a) \/ CommitFails(a) \/ Commit(a) \/ CommitCreate(a) \/ CommitRemove(a)
      PROVE  SerialInv'
  <2>1. tx' = [tx EXCEPT ![a] = NoTx]
    BY <1>4 DEF Refuse, CommitFails, Commit, CommitCreate, CommitRemove, Written
  <2> QED BY <1>1, <2>1, TxFacts DEF IInv, TypeOK
<1>5. ASSUME UNCHANGED tx PROVE SerialInv'
  BY <1>1, <1>5
<1> QED BY <1>2, <1>3, <1>4, <1>5
        DEF Next, Decisions, Open, LoadUnknown, CreateAtRegistry, CreationSaved, CreationUnsaved,
            CreationRolledBack, MoveDomain, Unrestrict, vars

-----------------------------------------------------------------------------
(* The row an author saw is the row that is decided about and written *)

\* Steps that leave no transaction under way, or none but those before them,
\* and the requests alone, and that take no domain away or into use.
LEMMA FreshStutters ==
  ASSUME IInv, FreshInv, UNCHANGED <<dr, restricted>>,
         \A d \in Domains : dom[d] \notin {"none", "removed"} => dom'[d] \notin {"none", "removed"},
         \A d \in Domains : dom'[d] = "ready" => dom[d] = "ready",
         \A b \in Tabs : tx'[b] \in Tx => tx'[b] = tx[b] /\ page'[b] = page[b]
  PROVE  FreshInv'
<1>0. \A r \in Requests : dr[r].approved \in Domains \cup {NoDomain}
  BY DEF IInv, TypeOK, Row
<1>1. Links'
  BY <1>0 DEF FreshInv, Links
<1>2. ASSUME NEW b \in Tabs, tx'[b] \in Tx PROVE Fresh(b)'
  <2>1. tx[b] = tx'[b] /\ page'[b] = page[b] /\ Fresh(b)
    BY <1>2 DEF FreshInv
  <2>2. tx[b].at \in Requests
    BY <1>2, <2>1 DEF Tx
  <2>3. dr[tx[b].at].status = "approved" => dr[tx[b].at].approved \in Domains
    BY <1>0, <2>2 DEF FreshInv, Links
  <2> QED BY <2>1, <2>2, <2>3 DEF Fresh
<1> QED BY <1>1, <1>2 DEF FreshInv

\* A transaction begins with the row as it is: to decide about it, or with
\* the row it will write.
LEMMA FreshBegins ==
  ASSUME IInv, FreshInv, ~Overlap, NEW a \in Tabs, NEW r \in Requests, NEW o \in Ops,
         NEW m \in Row, NEW next \in {"act", "commit"}, Begin(a, r, o, m, next),
         m.approved \in {NoDomain, dr[r].approved},
         m = dr[r] \/ (next = "commit" /\ m.status # "approved" /\ dr[r].status # "approved")
  PROVE  FreshInv'
<1> DEFINE t == [step |-> next, op |-> o, at |-> r, mem |-> m, todo |-> Nothing]
<1>1. \A b \in Tabs : tx[b] \notin Tx
  BY TxFacts DEF IInv, Begin, Quiet, Idle
<1>2. /\ tx' = [tx EXCEPT ![a] = t] /\ UNCHANGED <<dr, dom, page, restricted>>
      /\ ~restricted /\ (o \in {"edit"} \cup AdminOps => page[a] = r)
  BY DEF Begin, Admitted
<1>3. tx'[a] = t /\ \A b \in Tabs : tx'[b] \in Tx => b = a
  BY <1>1, <1>2 DEF IInv, TypeOK
<1>4. Links /\ Links'
  BY <1>2 DEF FreshInv, Links
<1>5. m = dr[r] /\ m.status = "approved" => m.approved # NoDomain
  BY <1>4 DEF Links
<1>6. t.todo.do = "nothing" /\ t.step = next /\ t.op = o /\ t.at = r /\ t.mem = m
  BY DEF Nothing
<1> HIDE DEF t
<1>7. Fresh(a)'
  BY <1>2, <1>3, <1>5, <1>6 DEF Fresh, Creates
<1> QED BY <1>3, <1>4, <1>7 DEF FreshInv

\* What is decided from the row that was admitted.
LEMMA FreshDecides ==
  ASSUME IInv, SerialInv, FreshInv, NEW a \in Tabs, tx[a] \in Tx, tx[a].op \in AdminOps,
         NEW o \in Ops, NEW m \in Row, NEW what \in Todo, Decided(a, o, m, what),
         m.approved \in {NoDomain, dr[tx[a].at].approved},
         m.status = "approved" /\ what.do \notin Creates => m.approved # NoDomain,
         m.status # "approved" /\ dr[tx[a].at].status = "approved"
           => dom[dr[tx[a].at].approved] # "ready",
         what.do = "remove" => what.dom = dr[tx[a].at].approved /\ m.approved = NoDomain
  PROVE  FreshInv'
<1> DEFINE t == [step |-> "commit", op |-> o, at |-> tx[a].at, mem |-> m, todo |-> what]
<1>1. tx' = [tx EXCEPT ![a] = t] /\ UNCHANGED <<dr, dom, page, restricted>>
  BY DEF Decided
<1>2. tx'[a] = t /\ \A b \in Tabs : tx'[b] \in Tx => b = a
  BY <1>1 DEF IInv, TypeOK, SerialInv
<1>3. Links'
  BY <1>1 DEF FreshInv, Links
<1>4. ~restricted /\ page[a] = tx[a].at
  BY DEF FreshInv, Fresh
<1>5. t.todo = what /\ t.step = "commit" /\ t.at = tx[a].at /\ t.mem = m
  OBVIOUS
<1> HIDE DEF t
<1>6. Fresh(a)'
  BY <1>1, <1>2, <1>4, <1>5 DEF Fresh
<1> QED BY <1>2, <1>3, <1>6 DEF FreshInv

LEMMA FreshDecisions ==
  ASSUME IInv, SerialInv, FreshInv, NEW a \in Tabs, Decisions(a)
  PROVE  FreshInv'
<1> DEFINE o == tx[a].op
           m == Object(a)
<1>1. tx[a] \in Tx /\ Step(a, "act")
  BY TxFacts DEF IInv, Decisions, SaveUnchanged, Transition, Approve, ApproveRefused
<1>2. o \in AdminOps /\ o \in Transitions /\ o \in Ops
  BY <1>1 DEF IInv, DecisionsHold, GoodTx, Step, AdminOps, Ops
<1>3. tx[a].mem = dr[tx[a].at] /\ tx[a].at \in Requests
  BY <1>1 DEF FreshInv, Fresh, Step, Tx
<1>4. dr[tx[a].at] \in Row
  BY <1>3 DEF IInv, TypeOK
<1>5. m = dr[tx[a].at]
  BY <1>3, <1>4 DEF Object, Row
<1>6. Links
  BY DEF FreshInv
<1>7. m.status = "approved" => m.approved # NoDomain
  BY <1>3, <1>5, <1>6 DEF Links
<1>8. Nothing \in Todo /\ Nothing.do = "nothing"
  BY DEF Nothing, Todo
<1>9. "edit" \in Ops /\ "approve" \in Ops /\ "approve" \in Transitions
  BY DEF Ops, AdminOps, Transitions
<1> HIDE DEF o, m
<1>10. CASE SaveUnchanged(a) \/ ApproveRefused(a)
  <2>1. Decided(a, "edit", m, Nothing) \/ Decided(a, "approve", m, Nothing)
    BY <1>10 DEF SaveUnchanged, ApproveRefused, m
  <2> QED BY <1>1, <1>2, <1>4, <1>5, <1>7, <1>8, <1>9, <2>1, FreshDecides DEF Creates, o
<1>11. CASE Approve(a)
  <2> DEFINE what == [do |-> IF info[tx[a].at] = NoDomain THEN "create" ELSE "create bare",
                      dom |-> NoDomain]
  <2>1. Decided(a, "approve", Moved("approve", m), what)
    BY <1>11 DEF Approve, m
  <2>2. what \in Todo /\ what.do \in Creates
    BY DEF Todo, Creates
  <2>3. Moved("approve", m) \in Row /\ Moved("approve", m).status = "approved"
    BY <1>4, <1>5, <1>9, MovedFacts DEF Target
  <2>4. Moved("approve", m).approved = m.approved
    BY <1>4, <1>5 DEF Moved, Row
  <2> HIDE DEF what
  <2> QED BY <1>1, <1>2, <1>5, <1>9, <2>1, <2>2, <2>3, <2>4, FreshDecides DEF Creates, o
<1>12. CASE Transition(a)
  <2>1. o # "approve" /\ DomainIsNotActive(m)
    BY <1>12 DEF Transition, m, o
  <2>2. m.status = "approved" => dom[m.approved] # "ready"
    BY <1>7, <2>1 DEF DomainIsNotActive
  <2>3. CASE m.status = "approved"
    <3>1. PICK done \in CleanUp(m) : Decided(a, o, Moved(o, done.row), done.todo)
      BY <1>12, <2>3 DEF Transition, m, o
    <3>2. /\ done.row \in Row /\ done.todo \in Todo /\ done.todo.do \notin Creates
          /\ done.row.approved \in {NoDomain, m.approved}
          /\ done.todo.do = "remove" => done.todo.dom = m.approved /\ done.row.approved = NoDomain
      BY <1>4, <1>5, CleanUpFacts DEF IInv
    <3>3. Moved(o, done.row) \in Row /\ Moved(o, done.row).status # "approved"
      BY <1>2, <2>1, <3>2, MovedFacts
    <3>4. Moved(o, done.row).approved = done.row.approved
      BY <3>2 DEF Moved, Row
    <3> QED BY <1>1, <1>2, <1>5, <2>2, <2>3, <3>1, <3>2, <3>3, <3>4, FreshDecides DEF o
  <2>4. CASE m.status # "approved"
    <3>1. Decided(a, o, Moved(o, m), Nothing)
      BY <1>12, <2>4 DEF Transition, m, o
    <3>2. Moved(o, m) \in Row /\ Moved(o, m).status # "approved"
      BY <1>2, <1>4, <1>5, <2>1, MovedFacts
    <3>3. Moved(o, m).approved = m.approved
      BY <1>4, <1>5 DEF Moved, Row
    <3> QED BY <1>1, <1>2, <1>5, <1>8, <2>4, <3>1, <3>2, <3>3, FreshDecides DEF o
  <2> QED BY <2>3, <2>4
<1> QED BY <1>10, <1>11, <1>12 DEF Decisions

LEMMA NoneLeft ==
  ASSUME IInv, SerialInv, NEW a \in Tabs, tx[a] \in Tx, Written(a)
  PROVE  \A b \in Tabs : tx'[b] \notin Tx
  BY WrittenFacts DEF IInv, SerialInv

LEMMA FreshCommit ==
  ASSUME IInv, SerialInv, FreshInv, NEW a \in Tabs, Commit(a)
  PROVE  FreshInv'
<1> DEFINE t == tx[a]
<1>1. t \in Tx /\ Step(a, "commit") /\ Written(a)
  BY TxFacts DEF IInv, Commit
<1>2. t.mem \in Row /\ t.at \in Requests
  BY <1>1 DEF Tx
<1>3. /\ t.mem.approved \in {NoDomain, dr[t.at].approved}
      /\ t.mem.status = "approved" => t.mem.approved # NoDomain
  BY <1>1 DEF FreshInv, Fresh, Step, Commit, Creates
<1>4. /\ dr' = [dr EXCEPT ![t.at] = t.mem]
      /\ dom' = IF t.todo.do = "mark" THEN [dom EXCEPT ![t.todo.dom] = "deleted"] ELSE dom
  BY DEF Commit
<1>5. \A b \in Tabs : tx'[b] \notin Tx
  BY <1>1, NoneLeft
<1> HIDE DEF t
<1>6. \A d \in Domains : dom[d] \notin {"none", "removed"} => dom'[d] \notin {"none", "removed"}
  BY <1>4 DEF IInv, TypeOK
<1>7. \A r \in Requests : dr[r].approved \in Domains \cup {NoDomain}
  BY DEF IInv, TypeOK, Row
<1>8. \A r \in Requests : dr'[r].approved \in {NoDomain, dr[r].approved}
  BY <1>2, <1>3, <1>4 DEF IInv, TypeOK
<1>9. Links
  BY DEF FreshInv
<1>10. Links'
  <2>1. \A r \in Requests : dr'[r].approved # NoDomain => dom'[dr'[r].approved] \notin {"none", "removed"}
    BY <1>6, <1>7, <1>8, <1>9 DEF Links
  <2>2. \A r, s \in Requests : dr'[r].approved # NoDomain /\ dr'[r].approved = dr'[s].approved => r = s
    BY <1>8, <1>9 DEF Links
  <2>3. \A r \in Requests : dr'[r].status = "approved" => dr'[r].approved # NoDomain
    BY <1>2, <1>3, <1>4, <1>9 DEF Links, IInv, TypeOK
  <2> QED BY <2>1, <2>2, <2>3 DEF Links
<1> QED BY <1>5, <1>10 DEF FreshInv

LEMMA FreshCommitCreate ==
  ASSUME IInv, SerialInv, FreshInv, NEW a \in Tabs, CommitCreate(a)
  PROVE  FreshInv'
<1> DEFINE t == tx[a]
<1>1. t \in Tx /\ Written(a)
  BY TxFacts DEF IInv, CommitCreate
<1>2. t.mem \in Row /\ t.at \in Requests
  BY <1>1 DEF Tx
<1>3. PICK d \in Domains :
        /\ dom[d] = "none"
        /\ dom' = [dom EXCEPT ![d] = "unknown"]
        /\ dr' = [dr EXCEPT ![t.at] = [t.mem EXCEPT !.approved = d]]
  BY DEF CommitCreate
<1>4. \A b \in Tabs : tx'[b] \notin Tx
  BY <1>1, NoneLeft
<1> DEFINE row == [t.mem EXCEPT !.approved = d]
<1>5. row.approved = d /\ dr' = [dr EXCEPT ![t.at] = row] /\ d # NoDomain
  BY <1>2, <1>3 DEF Row, NoDomain, Domains
<1> HIDE DEF t, row
<1>6. \A r \in Requests : dr[r].approved # d /\ dr[r].approved \in Domains \cup {NoDomain}
  BY <1>3, <1>5 DEF FreshInv, Links, IInv, TypeOK, Row
<1>7. dr'[t.at] = row /\ \A r \in Requests \ {t.at} : dr'[r] = dr[r]
  BY <1>2, <1>5 DEF IInv, TypeOK
<1>8. dom'[d] = "unknown" /\ \A e \in Domains \ {d} : dom'[e] = dom[e]
  BY <1>3 DEF IInv, TypeOK
<1>9. Links
  BY DEF FreshInv
<1>10. Links'
  <2>1. \A r \in Requests : dr'[r].approved # NoDomain => dom'[dr'[r].approved] \notin {"none", "removed"}
    BY <1>5, <1>6, <1>7, <1>8, <1>9 DEF Links
  <2>2. \A r, s \in Requests : dr'[r].approved # NoDomain /\ dr'[r].approved = dr'[s].approved => r = s
    BY <1>5, <1>6, <1>7, <1>9 DEF Links
  <2>3. \A r \in Requests : dr'[r].status = "approved" => dr'[r].approved # NoDomain
    BY <1>5, <1>7, <1>9 DEF Links
  <2> QED BY <2>1, <2>2, <2>3 DEF Links
<1> QED BY <1>4, <1>10 DEF FreshInv

LEMMA FreshCommitRemove ==
  ASSUME IInv, SerialInv, FreshInv, NEW a \in Tabs, CommitRemove(a)
  PROVE  FreshInv'
<1> DEFINE t == tx[a]
           d == t.todo.dom
           freed == [r \in Requests |->
                       IF dr[r].approved = d THEN [dr[r] EXCEPT !.approved = NoDomain] ELSE dr[r]]
<1>1. t \in Tx /\ Step(a, "commit") /\ Written(a)
  BY TxFacts DEF IInv, CommitRemove
<1>2. t.mem \in Row /\ t.at \in Requests /\ t.todo.do = "remove"
  BY <1>1 DEF Tx, CommitRemove
<1>3. /\ t.mem.approved = NoDomain /\ d = dr[t.at].approved
      /\ t.mem.status = "approved" => t.mem.approved # NoDomain
  BY <1>1, <1>2 DEF FreshInv, Fresh, Step, Creates
<1>4. /\ dom' = [dom EXCEPT ![d] = "removed"]
      /\ dr' = [freed EXCEPT ![t.at] = t.mem]
  BY DEF CommitRemove
<1>5. d \in Domains
  BY <1>1, <1>2 DEF IInv, DecisionsHold, GoodTx
<1>6. \A b \in Tabs : tx'[b] \notin Tx
  BY <1>1, NoneLeft
<1>7. d # NoDomain
  BY <1>5 DEF Domains, NoDomain
<1>8. \A r \in Requests \ {t.at} : dr[r].approved # d
  BY <1>2, <1>3, <1>7 DEF FreshInv, Links
<1>9. dr'[t.at] = t.mem /\ \A r \in Requests \ {t.at} : dr'[r] = dr[r]
  BY <1>2, <1>4, <1>8
<1> HIDE DEF t, d, freed
<1>10. \A r \in Requests : dr[r].approved \in Domains \cup {NoDomain}
  BY DEF IInv, TypeOK, Row
<1>11. \A e \in Domains \ {d} : dom'[e] = dom[e]
  BY <1>4 DEF IInv, TypeOK
<1>12. Links
  BY DEF FreshInv
<1>13. Links'
  <2>1. \A r \in Requests : dr'[r].approved # NoDomain => dom'[dr'[r].approved] \notin {"none", "removed"}
    BY <1>3, <1>8, <1>9, <1>10, <1>11, <1>12 DEF Links
  <2>2. \A r, s \in Requests : dr'[r].approved # NoDomain /\ dr'[r].approved = dr'[s].approved => r = s
    BY <1>3, <1>9, <1>12 DEF Links
  <2>3. \A r \in Requests : dr'[r].status = "approved" => dr'[r].approved # NoDomain
    BY <1>3, <1>9, <1>12 DEF Links
  <2> QED BY <2>1, <2>2, <2>3 DEF Links
<1> QED BY <1>6, <1>13 DEF FreshInv

LEMMA FreshNext ==
  ASSUME IInv, SerialInv, FreshInv, ~Overlap, [Next]_vars
  PROVE  FreshInv'
<1>1. \A r \in Requests : dr[r] \in Row
  BY DEF IInv, TypeOK
<1>2. ASSUME NEW a \in Tabs, NEW r \in Requests, Open(a, r) PROVE FreshInv'
  <2>1. tx[a] \notin Tx /\ page' = [page EXCEPT ![a] = r] /\ UNCHANGED <<dr, dom, restricted, tx>>
    BY <1>2, TxFacts DEF Open, Idle, IInv
  <2>2. \A b \in Tabs : tx'[b] \in Tx => tx'[b] = tx[b] /\ page'[b] = page[b]
    BY <2>1 DEF IInv, TypeOK
  <2> QED BY <2>1, <2>2, FreshStutters
<1>3. ASSUME NEW a \in Tabs, NEW r \in Requests, Edit(a, r) PROVE FreshInv'
  BY <1>1, <1>3, FreshBegins DEF Edit, Ops
<1>4. ASSUME NEW a \in Tabs, NEW r \in Requests, NEW t \in AdminOps, ChangeStatus(a, r, t) PROVE FreshInv'
  <2>1. t \in Ops
    BY DEF Ops
  <2> QED BY <1>1, <1>4, <2>1, FreshBegins DEF ChangeStatus
<1>5. ASSUME NEW a \in Tabs, NEW r \in Requests, Done(a, r) PROVE FreshInv'
  <2> DEFINE m == Moved("submit", dr[r])
             n == Moved("in_review_omb", m)
  <2>1. m \in Row /\ m.status # "approved" /\ m.approved = dr[r].approved
    BY <1>1, MovedFacts DEF Transitions, Moved, Row
  <2>2. "done" \in Ops /\ dr[r].status # "approved"
    BY <1>5 DEF Ops, RequesterOps, Done, Can, Sources
  <2>3. CASE Begin(a, r, "done", m, "commit")
    <3> HIDE DEF m
    <3> QED BY <2>1, <2>2, <2>3, FreshBegins
  <2>4. CASE Begin(a, r, "done", n, "commit")
    <3> HIDE DEF m
    <3>1. n \in Row /\ n.status # "approved" /\ n.approved = m.approved
      BY <2>1, MovedFacts DEF Transitions, Moved, Row
    <3> HIDE DEF n
    <3> QED BY <2>1, <2>2, <2>4, <3>1, FreshBegins
  <2> QED BY <1>5, <2>3, <2>4 DEF Done
<1>6. ASSUME NEW a \in Tabs, NEW r \in Requests, Withdrawn(a, r) PROVE FreshInv'
  <2> DEFINE m == Moved("withdraw", dr[r])
  <2>1. m \in Row /\ m.status # "approved" /\ m.approved = dr[r].approved
    BY <1>1, MovedFacts DEF Transitions, Moved, Row
  <2>2. "withdrawn" \in Ops /\ dr[r].status # "approved"
    BY <1>6 DEF Ops, RequesterOps, Withdrawn, Can, Sources
  <2>3. Begin(a, r, "withdrawn", m, "commit")
    BY <1>6 DEF Withdrawn
  <2> HIDE DEF m
  <2> QED BY <2>1, <2>2, <2>3, FreshBegins
<1>7. ASSUME NEW a \in Tabs, NEW r \in Requests, Delete(a, r) PROVE FreshInv'
  <2>1. NoRow \in Row /\ NoRow.approved = NoDomain /\ NoRow.status # "approved" /\ "delete" \in Ops
    BY DEF NoRow, Row, Ops, RequesterOps
  <2>2. dr[r].status # "approved"
    BY <1>7 DEF Delete
  <2> QED BY <1>7, <2>1, <2>2, FreshBegins DEF Delete
<1>8. ASSUME NEW a \in Tabs, Refuse(a) \/ CommitFails(a) PROVE FreshInv'
  <2>1. tx' = [tx EXCEPT ![a] = NoTx] /\ UNCHANGED <<dr, dom, restricted, page>>
    BY <1>8 DEF Refuse, CommitFails
  <2>2. \A b \in Tabs : tx'[b] \in Tx => tx'[b] = tx[b]
    BY <2>1, TxFacts DEF IInv, TypeOK
  <2> QED BY <2>1, <2>2, FreshStutters
<1>9. ASSUME NEW d \in Domains, MoveDomain(d) PROVE FreshInv'
  <2>1. \A b \in Tabs : tx'[b] \notin Tx
    BY <1>9, TxFacts DEF MoveDomain, Quiet, Idle, IInv
  <2>2. dr' = dr /\ \A e \in Domains : dom[e] \notin {"none", "removed"} => dom'[e] \notin {"none", "removed"}
    BY <1>9 DEF MoveDomain, LaterStates, IInv, TypeOK
  <2>3. \A r \in Requests : dr[r].approved \in Domains \cup {NoDomain}
    BY <1>1 DEF Row
  <2>4. Links'
    BY <2>2, <2>3 DEF FreshInv, Links
  <2> QED BY <2>1, <2>4 DEF FreshInv
<1>10. ASSUME Unrestrict PROVE FreshInv'
  <2>1. \A b \in Tabs : tx'[b] \notin Tx
    BY <1>10, TxFacts DEF Unrestrict, Quiet, Idle, IInv
  <2>2. Links'
    BY <1>10 DEF Unrestrict, FreshInv, Links
  <2> QED BY <2>1, <2>2 DEF FreshInv
<1>11. ASSUME NEW d \in Domains,
              LoadUnknown(d) \/ CreateAtRegistry(d) \/ CreationSaved(d) \/ CreationUnsaved(d)
                \/ CreationRolledBack(d)
       PROVE  FreshInv'
  <2>1. UNCHANGED <<dr, restricted, tx, page>> /\ dom' \in {dom, [dom EXCEPT ![d] = "dns needed"]}
    BY <1>11 DEF LoadUnknown, CreateAtRegistry, CreationSaved, CreationUnsaved, CreationRolledBack
  <2> QED BY <2>1, FreshStutters DEF IInv, TypeOK
<1>12. CASE UNCHANGED vars
  BY <1>12, FreshStutters DEF vars
<1> QED BY <1>2, <1>3, <1>4, <1>5, <1>6, <1>7, <1>8, <1>9, <1>10, <1>11, <1>12, FreshDecisions,
           FreshCommit, FreshCommitCreate, FreshCommitRemove DEF Next, Decisions

LEMMA FreshHolds == ASSUME ~Overlap PROVE Spec => [](IInv /\ SerialInv /\ FreshInv)
<1>1. Init => IInv /\ SerialInv /\ FreshInv
  <2> SUFFICES ASSUME Init PROVE IInv /\ SerialInv /\ FreshInv
    OBVIOUS
  <2>1. IInv
    BY InitHolds
  <2>2. \A a \in Tabs : tx[a] \notin Tx
    BY <2>1, TxFacts DEF Init, IInv
  <2>3. SerialInv
    BY <2>2 DEF SerialInv
  <2>4. Links
    BY DEF Init, Links
  <2> QED BY <2>1, <2>2, <2>3, <2>4 DEF FreshInv
<1>2. IInv /\ SerialInv /\ FreshInv /\ [Next]_vars => (IInv /\ SerialInv /\ FreshInv)'
  BY NextKeeps, SerialNext, FreshNext
<1> QED BY <1>1, <1>2, PTL DEF Spec

-----------------------------------------------------------------------------
(* Theorems about the requests while transactions do not overlap *)

\* Only a commit writes rows, and only that of its own request: removing a
\* domain empties approved_domain elsewhere and leaves every status alone.
LEMMA WhoWrites ==
  ASSUME IInv, [Next]_vars, dr' # dr
  PROVE  \E a \in Tabs :
           /\ tx[a] \in Tx /\ tx[a].step = "commit"
           /\ \A r \in Requests : dr'[r].status # dr[r].status =>
                r = tx[a].at /\ dr'[r].status = tx[a].mem.status
<1>1. PICK a \in Tabs : Commit(a) \/ CommitCreate(a) \/ CommitRemove(a)
  BY DEF Next, vars, Open, Edit, Done, Withdrawn, Delete, ChangeStatus, Begin, Refuse,
         SaveUnchanged, Transition, Approve, ApproveRefused, Decided, CommitFails,
         LoadUnknown, CreateAtRegistry, CreationSaved, CreationUnsaved, CreationRolledBack,
         MoveDomain, Unrestrict
<1>2. tx[a] \in Tx /\ tx[a].step = "commit"
  BY <1>1, TxFacts DEF IInv, Commit, CommitCreate, CommitRemove, Step
<1>3. tx[a].mem \in Row /\ tx[a].at \in Requests
  BY <1>2 DEF Tx
<1>4. CASE Commit(a)
  BY <1>2, <1>3, <1>4 DEF Commit, IInv, TypeOK
<1>5. CASE CommitCreate(a)
  <2>1. PICK d \in Domains : dr' = [dr EXCEPT ![tx[a].at] = [tx[a].mem EXCEPT !.approved = d]]
    BY <1>5 DEF CommitCreate
  <2>2. [tx[a].mem EXCEPT !.approved = d].status = tx[a].mem.status
    BY <1>3 DEF Row
  <2> QED BY <1>2, <1>3, <2>1, <2>2 DEF IInv, TypeOK
<1>6. CASE CommitRemove(a)
  <2> DEFINE freed == [r \in Requests |-> IF dr[r].approved = tx[a].todo.dom
                                          THEN [dr[r] EXCEPT !.approved = NoDomain] ELSE dr[r]]
  <2>1. dr' = [freed EXCEPT ![tx[a].at] = tx[a].mem]
    BY <1>6 DEF CommitRemove
  <2>2. \A r \in Requests : freed[r].status = dr[r].status
    BY DEF IInv, TypeOK, Row
  <2>3. \A r \in Requests : dr'[r] = IF r = tx[a].at THEN tx[a].mem ELSE freed[r]
    BY <1>3, <2>1
  <2> HIDE DEF freed
  <2> QED BY <1>2, <2>2, <2>3
<1> QED BY <1>1, <1>4, <1>5, <1>6

\* An approved request refers to a Domain row that exists: no cleanup of one
\* request takes the domain of another along.
THEOREM SerialApprovedHasDomain == ASSUME ~Overlap PROVE Spec => []ApprovedHasDomain
<1>1. IInv /\ SerialInv /\ FreshInv => ApprovedHasDomain
  BY DEF FreshInv, Links, ApprovedHasDomain
<1> QED BY <1>1, FreshHolds, PTL

\* While the requester is restricted, no request changes: whoever was admitted
\* before the restriction has committed by then.
THEOREM SerialFrozen == ASSUME ~Overlap PROVE Spec => RestrictedIsFrozen
<1>1. IInv /\ SerialInv /\ FreshInv /\ [Next]_vars => [restricted /\ restricted' => dr' = dr]_vars
  BY WhoWrites DEF FreshInv, Fresh
<1> QED BY <1>1, FreshHolds, PTL DEF Spec, RestrictedIsFrozen

\* A request is not taken back from approved while its domain is in use: what
\* domain_is_not_active read is still so when the row is written.
THEOREM SerialActiveStays == ASSUME ~Overlap PROVE Spec => ActiveStaysApproved
<1> DEFINE Stays ==
      \A r \in Requests :
        dr[r].status = "approved" /\ dr'[r].status # "approved" => ~(dom[dr[r].approved] = "ready")
<1>1. IInv /\ SerialInv /\ FreshInv /\ [Next]_vars => [Stays]_vars
  <2> SUFFICES ASSUME IInv, FreshInv, [Next]_vars, NEW r \in Requests,
                      dr[r].status = "approved", dr'[r].status # "approved"
               PROVE  dom[dr[r].approved] # "ready"
    OBVIOUS
  <2>1. PICK a \in Tabs :
          /\ tx[a] \in Tx /\ tx[a].step = "commit"
          /\ \A s \in Requests : dr'[s].status # dr[s].status =>
               s = tx[a].at /\ dr'[s].status = tx[a].mem.status
    BY WhoWrites
  <2>2. r = tx[a].at /\ tx[a].mem.status # "approved"
    BY <2>1
  <2> QED BY <2>1, <2>2 DEF FreshInv, Fresh
<1> QED BY <1>1, FreshHolds, PTL DEF Spec, ActiveStaysApproved

-----------------------------------------------------------------------------
(* The rows follow the table of transitions *)

\* A transaction begins: what it will write is a move, or is not decided yet.
LEMMA MoveBegins ==
  ASSUME IInv, MovesLawfully, NEW a \in Tabs, NEW r \in Requests, NEW o, NEW m, NEW next,
         Begin(a, r, o, m, next), next = "commit" => StatusMove(dr[r].status, m.status)
  PROVE  MovesLawfully'
<1> DEFINE t == [step |-> next, op |-> o, at |-> r, mem |-> m, todo |-> Nothing]
<1>1. tx' = [tx EXCEPT ![a] = t] /\ dr' = dr
  BY DEF Begin
<1>2. t.step = next /\ t.at = r /\ t.mem = m
  OBVIOUS
<1> HIDE DEF t
<1>3. tx'[a] = t /\ \A b \in Tabs \ {a} : tx'[b] = tx[b]
  BY <1>1 DEF IInv, TypeOK
<1> QED BY <1>1, <1>2, <1>3 DEF MovesLawfully, StatusMove

LEMMA MoveDecides ==
  ASSUME IInv, MovesLawfully, NEW a \in Tabs, NEW o, NEW m, NEW what, Decided(a, o, m, what),
         StatusMove(dr[tx[a].at].status, m.status)
  PROVE  MovesLawfully'
<1> DEFINE t == [step |-> "commit", op |-> o, at |-> tx[a].at, mem |-> m, todo |-> what]
<1>1. tx' = [tx EXCEPT ![a] = t] /\ dr' = dr
  BY DEF Decided
<1>2. t.at = tx[a].at /\ t.mem = m
  OBVIOUS
<1> HIDE DEF t
<1>3. tx'[a] = t /\ \A b \in Tabs \ {a} : tx'[b] = tx[b]
  BY <1>1 DEF IInv, TypeOK
<1> QED BY <1>1, <1>2, <1>3 DEF MovesLawfully, StatusMove

LEMMA MoveDecisions ==
  ASSUME IInv, MovesLawfully, NEW a \in Tabs, Decisions(a)
  PROVE  MovesLawfully'
<1> DEFINE o == tx[a].op
           m == Object(a)
<1>1. tx[a] \in Tx /\ Step(a, "act")
  BY TxFacts DEF IInv, Decisions, SaveUnchanged, Transition, Approve, ApproveRefused
<1>2. o \in AdminOps /\ o \in Transitions
  BY <1>1 DEF IInv, DecisionsHold, GoodTx, Step, AdminOps
<1>3. m \in Row /\ m.status = dr[tx[a].at].status
  BY <1>1, ObjectFacts DEF IInv
<1>4. \A x \in AdminOps : Can(x, m) => StatusMove(m.status, Target(x))
  BY DEF Can, StatusMove
<1>5. StatusMove(m.status, m.status)
  BY DEF StatusMove
<1>6. "approve" \in AdminOps /\ "approve" \in Transitions
  BY DEF AdminOps, Transitions
<1> HIDE DEF o, m
<1>7. CASE SaveUnchanged(a) \/ ApproveRefused(a)
  BY <1>3, <1>5, <1>7, MoveDecides DEF SaveUnchanged, ApproveRefused, m
<1>8. CASE Approve(a)
  <2>1. Moved("approve", m).status = Target("approve")
    BY <1>3, <1>6, MovedFacts
  <2>2. Can("approve", m) /\ \E what : Decided(a, "approve", Moved("approve", m), what)
    BY <1>8 DEF Approve, m
  <2> QED BY <1>3, <1>4, <1>6, <2>1, <2>2, MoveDecides
<1>9. CASE Transition(a)
  <2>1. Can(o, m)
    BY <1>9 DEF Transition, m, o
  <2>2. PICK row \in Row : \E what : Decided(a, o, Moved(o, row), what)
    <3>1. CASE m.status = "approved"
      <4>1. PICK done \in CleanUp(m) : Decided(a, o, Moved(o, done.row), done.todo)
        BY <1>9, <3>1 DEF Transition, m, o
      <4>2. done.row \in Row
        BY <1>3, CleanUpFacts DEF IInv
      <4> QED BY <4>1, <4>2
    <3>2. CASE m.status # "approved"
      BY <1>3, <1>9, <3>2 DEF Transition, m, o
    <3> QED BY <3>1, <3>2
  <2>3. Moved(o, row).status = Target(o)
    BY <1>2, <2>2, MovedFacts
  <2> QED BY <1>2, <1>3, <1>4, <2>1, <2>2, <2>3, MoveDecides
<1> QED BY <1>7, <1>8, <1>9 DEF Decisions

LEMMA MovesNext ==
  ASSUME IInv, SerialInv, MovesLawfully, [Next]_vars
  PROVE  MovesLawfully'
<1>1. ASSUME dr' = dr, \A b \in Tabs : tx'[b] \in Tx => tx'[b] = tx[b] PROVE MovesLawfully'
  BY <1>1 DEF MovesLawfully
<1>2. ASSUME NEW a \in Tabs, NEW r \in Requests, Edit(a, r) PROVE MovesLawfully'
  BY <1>2, MoveBegins DEF Edit, StatusMove
<1>3. ASSUME NEW a \in Tabs, NEW r \in Requests, NEW t \in AdminOps, ChangeStatus(a, r, t)
      PROVE  MovesLawfully'
  BY <1>3, MoveBegins DEF ChangeStatus
<1>4. ASSUME NEW a \in Tabs, NEW r \in Requests, Done(a, r) PROVE MovesLawfully'
  <2> DEFINE m == Moved("submit", dr[r])
             n == Moved("in_review_omb", m)
  <2>1. dr[r] \in Row /\ m \in Row /\ m.status = "submitted"
    BY MovedFacts DEF IInv, TypeOK, Transitions, Target
  <2>2. n.status = "in review - omb"
    BY <2>1, MovedFacts DEF Transitions, Target
  <2>3. dr[r].status \in Sources("submit")
    BY <1>4 DEF Done, Can
  <2>4. StatusMove(dr[r].status, "submitted") /\ StatusMove(dr[r].status, "in review - omb")
    BY <2>3 DEF StatusMove, AdminOps, Transitions, Target
  <2>5. Begin(a, r, "done", m, "commit") \/ Begin(a, r, "done", n, "commit")
    BY <1>4 DEF Done
  <2> HIDE DEF m, n
  <2> QED BY <2>1, <2>2, <2>4, <2>5, MoveBegins
<1>5. ASSUME NEW a \in Tabs, NEW r \in Requests, Withdrawn(a, r) PROVE MovesLawfully'
  <2> DEFINE m == Moved("withdraw", dr[r])
  <2>1. m.status = Target("withdraw") /\ "withdraw" \in AdminOps
    BY MovedFacts DEF IInv, TypeOK, Transitions, AdminOps
  <2>2. dr[r].status \in Sources("withdraw") /\ Begin(a, r, "withdrawn", m, "commit")
    BY <1>5 DEF Withdrawn, Can
  <2> HIDE DEF m
  <2>3. StatusMove(dr[r].status, m.status)
    BY <2>1, <2>2 DEF StatusMove
  <2> QED BY <2>2, <2>3, MoveBegins
<1>6. ASSUME NEW a \in Tabs, NEW r \in Requests, Delete(a, r) PROVE MovesLawfully'
  <2>1. StatusMove(dr[r].status, NoRow.status)
    BY <1>6 DEF Delete, StatusMove, NoRow
  <2> QED BY <1>6, <2>1, MoveBegins DEF Delete
<1>7. ASSUME NEW a \in Tabs, Refuse(a) \/ CommitFails(a) PROVE MovesLawfully'
  <2>1. tx' = [tx EXCEPT ![a] = NoTx] /\ dr' = dr
    BY <1>7 DEF Refuse, CommitFails
  <2>2. \A b \in Tabs : tx'[b] \in Tx => tx'[b] = tx[b]
    BY <2>1, TxFacts DEF IInv, TypeOK
  <2> QED BY <1>1, <2>1, <2>2
<1>8. ASSUME NEW a \in Tabs, Commit(a) \/ CommitCreate(a) \/ CommitRemove(a) PROVE MovesLawfully'
  <2>1. tx[a] \in Tx /\ Written(a)
    BY <1>8, TxFacts DEF IInv, Commit, CommitCreate, CommitRemove
  <2> QED BY <2>1, NoneLeft DEF MovesLawfully
<1>9. ASSUME UNCHANGED <<dr, tx>> PROVE MovesLawfully'
  BY <1>1, <1>9
<1> QED BY <1>2, <1>3, <1>4, <1>5, <1>6, <1>7, <1>8, <1>9, MoveDecisions
        DEF Next, Decisions, Open, LoadUnknown, CreateAtRegistry, CreationSaved, CreationUnsaved,
            CreationRolledBack, MoveDomain, Unrestrict, vars

\* Without overlap the requests implement the table of transitions: whatever
\* forms are stale, commits fail or the registry refuses, a committed row goes
\* from a source of a transition to its target.
THEOREM SerialStatusMachine == ASSUME ~Overlap PROVE Spec => StatusMachineSpec
<1> DEFINE status == [r \in Requests |-> dr[r].status]
<1>1. Init => MovesLawfully
  <2>1. Init => \A a \in Tabs : tx[a] \notin Tx
    BY InitHolds, TxFacts DEF Init, IInv
  <2> QED BY <2>1 DEF MovesLawfully
<1>2. IInv /\ SerialInv /\ MovesLawfully /\ [Next]_vars => MovesLawfully'
  BY MovesNext
<1>3. Init => Machine!Init
  BY DEF Init, Machine!Init
<1>4. IInv /\ MovesLawfully /\ [Next]_vars => [Machine!Next]_status
  <2> SUFFICES ASSUME IInv, MovesLawfully, [Next]_vars, status' # status
               PROVE  Machine!Next
    OBVIOUS
  <2>1. PICK a \in Tabs :
          /\ tx[a] \in Tx /\ tx[a].step = "commit"
          /\ \A r \in Requests : dr'[r].status # dr[r].status =>
               r = tx[a].at /\ dr'[r].status = tx[a].mem.status
    BY WhoWrites
  <2> DEFINE r == tx[a].at
             from == dr[r].status
             to == tx[a].mem.status
  <2>2. r \in Requests /\ StatusMove(from, to)
    BY <2>1 DEF MovesLawfully, Tx
  <2>3. PICK s \in Requests : dr'[s].status # dr[s].status
    OBVIOUS
  <2>4. dr'[r].status = to /\ to # from
    BY <2>1, <2>3
  <2>5. status' = [status EXCEPT ![r] = to] /\ status[r] = from
    BY <2>1, <2>2, <2>4
  <2> HIDE DEF status, r, from, to
  <2>6. CASE \E t \in AdminOps : from \in Sources(t) /\ to = Target(t)
    BY <2>2, <2>5, <2>6
       DEF AdminOps, Transitions, Sources, Target, status, Machine!Next, Machine!Moves,
           Machine!Submit, Machine!InReview, Machine!ActionNeeded, Machine!Approve,
           Machine!Withdraw, Machine!Reject, Machine!RejectWithPrejudice
  <2>7. CASE from \in Sources("submit") /\ to = "in review - omb"
    BY <2>2, <2>5, <2>7 DEF Sources, status, Machine!Next, Machine!Moves, Machine!SubmitToOmb
  <2>8. CASE from \in {"started", "withdrawn"} /\ to = "none"
    BY <2>2, <2>5, <2>8 DEF status, Machine!Next, Machine!Moves, Machine!Delete
  <2> QED BY <2>2, <2>4, <2>6, <2>7, <2>8 DEF StatusMove
<1> QED BY <1>1, <1>2, <1>3, <1>4, FreshHolds, PTL DEF Spec, StatusMachineSpec, Machine!Spec

=============================================================================
