------------------------ MODULE DomainRequestProofs ------------------------
(***************************************************************************)
(* What holds of the requests for a name and of their domains, for any     *)
(* number of requests, tabs and domains, however transactions overlap and  *)
(* whatever the registry does.                                             *)
(***************************************************************************)
EXTENDS DomainRequest, TLAPS

-----------------------------------------------------------------------------
(* The inductive invariant *)

Creates == {"create", "create bare"}
Registered == {"dns needed", "ready", "on hold", "deleted"}

\* A row that a request creates at the registry stays in state unknown, or goes.
CreatedFromUnknown ==
  \A d \in Domains : creating[d] # "none" => dom[d] \in {"unknown", "removed"}

Marks(t, d) == t \in Tx /\ t.todo.do = "mark" /\ t.todo.dom = d

\* The row that stands for what the registry has: contacts protect it, and no
\* transaction is about to mark it deleted.
Keeps(d) == Live(d) /\ d \in contacts /\ \A a \in Tabs : ~Marks(tx[a], d)

HeldIsKept ==
  held /\ ~abandoned => \E d \in Domains : creating[d] \in {"created", "failed"} \/ Keeps(d)

\* What a transaction has decided, and what it relies on until it commits.
GoodTx(t) ==
  /\ t.step = "act" => t.op \in AdminOps
  /\ t.op # "delete" => t.mem.status # "none"
  /\ t.todo.do \in Creates => t.mem.status = "approved"
  /\ t.todo.do = "remove" => t.todo.dom \in Domains /\ dom[t.todo.dom] # "none"
  /\ t.todo.do = "mark" => /\ t.todo.dom \in Domains \cap contacts
                         /\ dom[t.todo.dom] \in Registered

DecisionsHold == \A a \in Tabs : tx[a] \in Tx => GoodTx(tx[a])

IInv == TypeOK /\ CreatedFromUnknown /\ DecisionsHold /\ HeldIsKept /\ InfoHasRequest

-----------------------------------------------------------------------------
(* The operators of the model *)

LEMMA TxFacts ==
  ASSUME TypeOK, NEW a \in Tabs
  PROVE  /\ NoTx \notin Tx
         /\ Step(a, "act") \/ Step(a, "commit") => tx[a] \in Tx
<1>1. \A t \in Tx : t.step # "idle"
  BY DEF Tx
<1>2. NoTx.step = "idle"
  BY DEF NoTx
<1>3. tx[a] \in Tx \/ tx[a] = NoTx
  BY DEF TypeOK
<1> QED BY <1>1, <1>2, <1>3 DEF Step

LEMMA MovedFacts ==
  ASSUME NEW m \in Row, NEW t \in Transitions
  PROVE  /\ Moved(t, m) \in Row
         /\ Moved(t, m).status = Target(t)
         /\ Moved(t, m).status # "none"
         /\ t # "approve" => Moved(t, m).status # "approved"
<1>1. Target(t) \in Statuses /\ (t # "approve" => Target(t) # "approved")
  BY DEF Target, Transitions, Statuses
<1>2. Moved(t, m) \in Row /\ Moved(t, m).status = Target(t)
  BY <1>1 DEF Moved, Row
<1> QED BY <1>1, <1>2 DEF Statuses

LEMMA SourcesFacts ==
  ASSUME NEW t \in Transitions
  PROVE  "none" \notin Sources(t)
  BY DEF Sources, Transitions

\* Whatever becomes of the domain, the row keeps its status, and what is left
\* for the commit is something the commit can do.
LEMMA CleanUpFacts ==
  ASSUME TypeOK, NEW m \in Row, NEW done \in CleanUp(m)
  PROVE  /\ done.row \in Row
         /\ done.todo \in Todo
         /\ done.todo.do \notin Creates
         /\ done.todo.do = "remove" => done.todo.dom \in Domains /\ dom[done.todo.dom] # "none"
         /\ done.todo.do = "mark" => /\ done.todo.dom \in Domains \cap contacts
                                    /\ dom[done.todo.dom] \in Registered
                                    /\ ~done.held
         /\ done.held \in {held, FALSE}
         /\ done.row.approved \in {NoDomain, m.approved}
         /\ done.todo.do = "remove" => done.todo.dom = m.approved /\ done.row.approved = NoDomain
<1> DEFINE d == m.approved
           freed == [m EXCEPT !.approved = NoDomain]
           remove == [do |-> "remove", dom |-> d]
           mark == [do |-> "mark", dom |-> d]
           kept == [row |-> m, todo |-> Nothing, held |-> held]
           lost == [kept EXCEPT !.held = FALSE]
           removed == [row |-> freed, todo |-> remove, held |-> held]
           gone == [removed EXCEPT !.held = FALSE]
           marked == [row |-> m, todo |-> mark, held |-> FALSE]
<1>1. /\ done \in {kept, removed, marked, lost, gone}
      /\ done \in {kept, lost} \/ (d # NoDomain /\ Live(d))
      /\ done \in {kept, lost, removed, gone} \/ (dom[d] # "unknown" /\ d \in contacts)
  BY DEF CleanUp
<1>2. d \in Domains \cup {NoDomain}
  BY DEF Row
<1>3. Nothing \in Todo /\ Nothing.do = "nothing"
  BY DEF Nothing, Todo
<1>4. Live(d) => dom[d] # "none" /\ (dom[d] # "unknown" => dom[d] \in Registered)
  BY DEF Live, LiveStates, Registered
<1>5. freed \in Row /\ freed.approved = NoDomain
  BY DEF Row, NoDomain
<1>6. /\ remove.do = "remove" /\ remove.dom = d /\ mark.do = "mark" /\ mark.dom = d
      /\ d \in Domains => remove \in Todo /\ mark \in Todo
  BY <1>2 DEF Todo
<1> HIDE DEF d, freed, remove, mark
<1>7. CASE done \in {kept, lost}
  <2>1. /\ kept.row = m /\ kept.todo = Nothing /\ kept.held = held
        /\ lost.row = m /\ lost.todo = Nothing
    OBVIOUS
  <2>2. lost.held = FALSE
    OBVIOUS
  <2>3. done.row = m /\ done.todo = Nothing /\ done.held \in {held, FALSE}
    BY <1>7, <2>1, <2>2, Zenon
  <2> HIDE DEF kept, lost, removed, gone, marked
  <2> QED BY <1>3, <2>3 DEF Creates, d
<1>8. CASE done \in {removed, gone} /\ done \notin {kept, lost}
  <2>1. /\ removed.row = freed /\ removed.todo = remove /\ removed.held = held
        /\ gone.row = freed /\ gone.todo = remove
    OBVIOUS
  <2>2. gone.held = FALSE
    OBVIOUS
  <2>3. done.row = freed /\ done.todo = remove /\ done.held \in {held, FALSE}
    BY <1>8, <2>1, <2>2, Zenon
  <2>4. d \in Domains /\ dom[d] # "none"
    BY <1>1, <1>2, <1>4, <1>8
  <2> HIDE DEF kept, lost, removed, gone, marked
  <2> QED BY <1>5, <1>6, <2>3, <2>4 DEF Creates, d
<1>9. CASE done = marked /\ done \notin {kept, lost, removed, gone}
  <2>1. done.row = m /\ done.todo = mark /\ done.held = FALSE
    BY <1>9
  <2>2. d \in Domains /\ dom[d] \in Registered /\ d \in contacts
    BY <1>1, <1>2, <1>4, <1>9
  <2> HIDE DEF kept, lost, removed, gone, marked
  <2> QED BY <1>6, <2>1, <2>2 DEF Creates, d
<1> QED BY <1>1, <1>7, <1>8, <1>9

-----------------------------------------------------------------------------
(* The invariant holds *)

LEMMA InitHolds == Init => IInv
<1> SUFFICES ASSUME Init PROVE IInv
  OBVIOUS
<1>1. TypeOK
  BY RequestAssumption DEF Init, TypeOK, Row, Statuses, NoDomain
<1>2. CreatedFromUnknown /\ HeldIsKept
  BY DEF Init, CreatedFromUnknown, HeldIsKept
<1>3. DecisionsHold
  BY TxFacts, <1>1 DEF Init, DecisionsHold
<1>4. InfoHasRequest
  BY DEF Init, InfoHasRequest
<1> QED BY <1>1, <1>2, <1>3, <1>4 DEF IInv

\* Decisions hold as long as no row goes that one relies on.
LEMMA DecisionsStillHold ==
  ASSUME IInv, contacts \subseteq contacts',
         \A d \in Domains : dom[d] # "none" => dom'[d] # "none",
         \A d \in Domains : d \in contacts /\ dom[d] \in Registered => dom'[d] \in Registered,
         \A b \in Tabs : tx'[b] \in Tx => tx'[b] = tx[b] \/ GoodTx(tx'[b])
  PROVE  DecisionsHold'
<1> SUFFICES ASSUME NEW b \in Tabs, tx'[b] \in Tx PROVE GoodTx(tx[b])'
  BY DEF DecisionsHold
<1>1. GoodTx(tx'[b])
  BY DEF IInv, DecisionsHold
<1> QED BY <1>1 DEF GoodTx

\* The registry's domain still has its row, as long as the registry gets no
\* new one and nothing is newly to be marked deleted.
LEMMA StillKept ==
  ASSUME IInv, held' => held, abandoned => abandoned', contacts \subseteq contacts',
         \A d \in Domains : creating[d] \in {"created", "failed"} => creating'[d] = creating[d],
         \A d \in Domains : Keeps(d) => Live(d)',
         \A b \in Tabs, d \in Domains : Marks(tx'[b], d) => Marks(tx[b], d) \/ ~held'
  PROVE  HeldIsKept'
<1> SUFFICES ASSUME held', ~abandoned'
             PROVE  \E d \in Domains : creating'[d] \in {"created", "failed"} \/ Keeps(d)'
  BY DEF HeldIsKept
<1>1. PICK d \in Domains : creating[d] \in {"created", "failed"} \/ Keeps(d)
  BY DEF IInv, HeldIsKept
<1>2. CASE creating[d] \in {"created", "failed"}
  BY <1>2
<1>3. CASE Keeps(d)
  <2>1. Live(d)' /\ d \in contacts'
    BY <1>3 DEF Keeps
  <2>2. \A b \in Tabs : ~Marks(tx'[b], d)
    BY <1>3 DEF Keeps
  <2>3. Keeps(d)'
    BY <2>1, <2>2 DEF Keeps, Marks, Tx, Todo, Row
  <2> QED BY <2>3
<1> QED BY <1>1, <1>2, <1>3

\* A transaction that begins with a sound object keeps the invariant.
LEMMA BeginKeeps ==
  ASSUME IInv, NEW a \in Tabs, NEW r \in Requests, NEW o \in Ops, NEW m \in Row,
         NEW next \in {"act", "commit"}, Begin(a, r, o, m, next),
         o # "delete" => m.status # "none",
         next = "act" => o \in AdminOps
  PROVE  IInv'
<1> DEFINE t == [step |-> next, op |-> o, at |-> r, mem |-> m, todo |-> Nothing]
<1>1. t \in Tx /\ GoodTx(t) /\ t.todo.do # "mark"
  BY DEF Tx, GoodTx, Nothing, Todo, Creates
<1>2. /\ tx' = [tx EXCEPT ![a] = t]
      /\ UNCHANGED <<dr, dom, contacts, info, restricted, page, held, creating, abandoned>>
  BY DEF Begin, registry
<1>3. work' \in Nat
  BY DEF IInv, TypeOK, Begin
<1> HIDE DEF t
<1>4. \A b \in Tabs : tx'[b] \in {tx[b], t}
  BY <1>2 DEF IInv, TypeOK
<1>5. TypeOK'
  <2>1. tx' \in [Tabs -> Tx \cup {NoTx}]
    BY <1>1, <1>2 DEF IInv, TypeOK
  <2> QED BY <1>2, <1>3, <2>1 DEF IInv, TypeOK
<1>6. DecisionsHold'
  BY <1>1, <1>2, <1>4, DecisionsStillHold
<1>7. HeldIsKept'
  <2>1. \A b \in Tabs, d \in Domains : Marks(tx'[b], d) => Marks(tx[b], d)
    BY <1>1, <1>4 DEF Marks
  <2> QED BY <1>2, <2>1, StillKept DEF Keeps, Live
<1> QED BY <1>2, <1>5, <1>6, <1>7 DEF IInv, CreatedFromUnknown, InfoHasRequest

\* A transaction that decides soundly keeps the invariant.
LEMMA DecidedKeeps ==
  ASSUME IInv, NEW a \in Tabs, tx[a] \in Tx, NEW o \in Ops, NEW m \in Row, NEW what \in Todo,
         Decided(a, o, m, what),
         held' \in {held, FALSE},
         m.status # "none",
         what.do \in Creates => m.status = "approved",
         what.do = "remove" => what.dom \in Domains /\ dom[what.dom] # "none",
         what.do = "mark" => /\ what.dom \in Domains \cap contacts
                             /\ dom[what.dom] \in Registered
                             /\ ~held'
  PROVE  IInv'
<1> DEFINE t == [step |-> "commit", op |-> o, at |-> tx[a].at, mem |-> m, todo |-> what]
<1>1. t \in Tx /\ GoodTx(t) /\ (t.todo.do = "mark" => ~held')
  BY DEF Tx, GoodTx
<1>2. /\ tx' = [tx EXCEPT ![a] = t]
      /\ UNCHANGED <<dr, dom, contacts, info, restricted, page, work, creating, abandoned>>
  BY DEF Decided
<1> HIDE DEF t
<1>3. \A b \in Tabs : tx'[b] \in {tx[b], t}
  BY <1>2 DEF IInv, TypeOK
<1>4. TypeOK'
  <2>1. tx' \in [Tabs -> Tx \cup {NoTx}]
    BY <1>1, <1>2 DEF IInv, TypeOK
  <2>2. held' \in BOOLEAN
    BY DEF IInv, TypeOK
  <2> QED BY <1>2, <2>1, <2>2 DEF IInv, TypeOK
<1>5. DecisionsHold'
  BY <1>1, <1>2, <1>3, DecisionsStillHold
<1>6. HeldIsKept'
  <2>1. \A b \in Tabs, d \in Domains : Marks(tx'[b], d) => Marks(tx[b], d) \/ ~held'
    BY <1>1, <1>3 DEF Marks
  <2>2. held' => held
    BY Zenon
  <2>3. \A d \in Domains : Keeps(d) => Live(d)'
    BY <1>2 DEF Keeps, Live
  <2> QED BY <1>2, <2>1, <2>2, <2>3, StillKept
<1> QED BY <1>2, <1>4, <1>5, <1>6 DEF IInv, CreatedFromUnknown, InfoHasRequest

LEMMA ObjectFacts ==
  ASSUME TypeOK, NEW a \in Tabs, tx[a] \in Tx
  PROVE  Object(a) \in Row /\ Object(a).status = dr[tx[a].at].status
<1>1. tx[a].mem \in Row /\ tx[a].at \in Requests
  BY DEF Tx
<1>2. dr[tx[a].at].status \in Statuses \cup {"none"}
  BY <1>1 DEF TypeOK, Row
<1> QED BY <1>1, <1>2 DEF Object, Row

\* The transactions that are under way and decide.
Decisions(a) == SaveUnchanged(a) \/ Transition(a) \/ Approve(a) \/ ApproveRefused(a)

LEMMA DecisionsKeep ==
  ASSUME IInv, NEW a \in Tabs, Decisions(a)
  PROVE  IInv'
<1> DEFINE o == tx[a].op
           m == Object(a)
<1>1. tx[a] \in Tx /\ Step(a, "act")
  BY TxFacts DEF IInv, Decisions, SaveUnchanged, Transition, Approve, ApproveRefused
<1>2. o \in AdminOps
  BY <1>1 DEF IInv, DecisionsHold, GoodTx, Step
<1>3. o \in Transitions /\ o \in Ops
  BY <1>2 DEF AdminOps, Ops
<1>4. m \in Row /\ m.status = dr[tx[a].at].status
  BY <1>1, ObjectFacts DEF IInv
<1>5. Target(o) # "none" /\ "none" \notin Sources(o)
  BY <1>3, <1>4, MovedFacts, SourcesFacts
<1>6. Nothing \in Todo /\ Nothing.do = "nothing"
  BY DEF Nothing, Todo
<1>7. Can(o, m) => m.status # "none"
  BY <1>5 DEF Can
<1>8. TypeOK
  BY DEF IInv
<1> HIDE DEF o, m
<1>9. CASE SaveUnchanged(a)
  <2>1. Decided(a, "edit", m, Nothing) /\ m.status = Target(o)
    BY <1>4, <1>9 DEF SaveUnchanged, m, o
  <2>2. "edit" \in Ops /\ held' = held
    BY <1>9 DEF Ops, SaveUnchanged
  <2> QED BY <1>1, <1>4, <1>5, <1>6, <2>1, <2>2, DecidedKeeps DEF Creates
<1>10. CASE Transition(a)
  <2>1. Can(o, m) /\ o # "approve"
    BY <1>10 DEF Transition, m, o
  <2>2. CASE m.status = "approved"
    <3>1. PICK done \in CleanUp(m) : Decided(a, o, Moved(o, done.row), done.todo) /\ held' = done.held
      BY <1>10, <2>2 DEF Transition, m, o
    <3>2. /\ done.row \in Row /\ done.todo \in Todo /\ done.todo.do \notin Creates
          /\ done.todo.do = "remove" => done.todo.dom \in Domains /\ dom[done.todo.dom] # "none"
          /\ done.todo.do = "mark" => /\ done.todo.dom \in Domains \cap contacts
                                     /\ dom[done.todo.dom] \in Registered
                                     /\ ~held'
          /\ held' \in {held, FALSE}
      BY <1>4, <1>8, <3>1, CleanUpFacts
    <3>3. Moved(o, done.row) \in Row /\ Moved(o, done.row).status # "none"
      BY <1>3, <3>2, MovedFacts
    <3> QED BY <1>1, <1>3, <3>1, <3>2, <3>3, DecidedKeeps
  <2>3. CASE m.status # "approved"
    <3>1. Decided(a, o, Moved(o, m), Nothing) /\ held' = held
      BY <1>10, <2>3 DEF Transition, m, o
    <3>2. Moved(o, m) \in Row /\ Moved(o, m).status # "none"
      BY <1>3, <1>4, MovedFacts
    <3> QED BY <1>1, <1>3, <1>6, <3>1, <3>2, DecidedKeeps DEF Creates
  <2> QED BY <2>2, <2>3
<1>11. CASE Approve(a)
  <2> DEFINE what == [do |-> IF info[tx[a].at] = NoDomain THEN "create" ELSE "create bare",
                      dom |-> NoDomain]
  <2>1. Decided(a, "approve", Moved("approve", m), what) /\ held' = held
    BY <1>11 DEF Approve, m
  <2>2. what \in Todo /\ what.do \in Creates
    BY DEF Todo, Creates
  <2>3. "approve" \in Ops /\ "approve" \in Transitions
    BY DEF Ops, AdminOps, Transitions
  <2>4. /\ Moved("approve", m) \in Row
        /\ Moved("approve", m).status = "approved"
    BY <1>4, <2>3, MovedFacts DEF Target
  <2> HIDE DEF what
  <2> QED BY <1>1, <2>1, <2>2, <2>3, <2>4, DecidedKeeps DEF Creates
<1>12. CASE ApproveRefused(a)
  <2>1. Decided(a, "approve", m, Nothing) /\ Can(o, m) /\ held' = held
    BY <1>12 DEF ApproveRefused, m, o
  <2>2. "approve" \in Ops
    BY DEF Ops, AdminOps, Transitions
  <2> QED BY <1>1, <1>4, <1>6, <1>7, <2>1, <2>2, DecidedKeeps DEF Creates
<1> QED BY <1>9, <1>10, <1>11, <1>12 DEF Decisions

\* What every commit does to the transactions and the pages.
LEMMA WrittenFacts ==
  ASSUME TypeOK, NEW a \in Tabs, tx[a] \in Tx, Written(a)
  PROVE  /\ tx' \in [Tabs -> Tx \cup {NoTx}]
         /\ page' \in [Tabs -> Requests \cup {NoPage}]
         /\ restricted' \in BOOLEAN
         /\ \A b \in Tabs : tx'[b] \in Tx => b # a /\ tx'[b] = tx[b]
<1>1. NoTx \notin Tx
  BY TxFacts
<1>2. restricted' \in BOOLEAN
  BY Zenon DEF TypeOK, Written
<1>3. page' \in [Tabs -> Requests \cup {NoPage}]
  BY DEF TypeOK, Written
<1>4. tx' = [tx EXCEPT ![a] = NoTx]
  BY DEF Written
<1>5. tx \in [Tabs -> Tx \cup {NoTx}]
  BY DEF TypeOK
<1> QED BY <1>1, <1>2, <1>3, <1>4, <1>5

\* What the kinds of commit have in common: they decide nothing, and the row
\* that stands for the registry's domain stays unless it was to be marked.
LEMMA WrittenKeeps ==
  ASSUME IInv, NEW a \in Tabs, tx[a] \in Tx, Written(a), UNCHANGED <<contacts, registry>>,
         \A d \in Domains : dom[d] # "none" => dom'[d] # "none",
         \A d \in Domains : d \in contacts /\ dom[d] \in Registered => dom'[d] \in Registered,
         \A d \in Domains : Keeps(d) => Live(d)'
  PROVE  DecisionsHold' /\ HeldIsKept'
<1>1. \A b \in Tabs : tx'[b] \in Tx => tx'[b] = tx[b]
  BY WrittenFacts DEF IInv
<1>2. DecisionsHold'
  BY <1>1, DecisionsStillHold
<1>3. \A b \in Tabs, d \in Domains : Marks(tx'[b], d) => Marks(tx[b], d)
  BY <1>1 DEF Marks
<1>4. UNCHANGED <<contacts, held, creating, abandoned>>
  BY DEF registry
<1> QED BY <1>2, <1>3, <1>4, StillKept

LEMMA CommitKeeps ==
  ASSUME IInv, NEW a \in Tabs, Commit(a)
  PROVE  IInv'
<1> DEFINE t == tx[a]
<1>1. t \in Tx /\ Step(a, "commit") /\ GoodTx(t)
  BY TxFacts DEF IInv, Commit, DecisionsHold
<1>2. t.mem \in Row /\ t.at \in Requests /\ t.todo \in Todo
  BY <1>1 DEF Tx
<1>3. /\ Written(a) /\ UNCHANGED <<contacts, info, work, registry>>
      /\ dr' = [dr EXCEPT ![t.at] = t.mem]
      /\ dom' = IF t.todo.do = "mark" THEN [dom EXCEPT ![t.todo.dom] = "deleted"] ELSE dom
      /\ t.op = "delete" => info[t.at] = NoDomain
  BY DEF Commit, Integrity
<1>4. t.op # "delete" => t.mem.status # "none"
  BY <1>1 DEF GoodTx
<1>5. t.todo.do = "mark" => t.todo.dom \in Domains /\ dom[t.todo.dom] \in Registered
  BY <1>1 DEF GoodTx
<1> HIDE DEF t
<1>6. TypeOK'
  <2>1. dr' \in [Requests -> Row]
    BY <1>2, <1>3 DEF IInv, TypeOK
  <2>2. dom' \in [Domains -> LiveStates \cup {"none", "deleted", "removed"}]
    BY <1>3 DEF IInv, TypeOK
  <2> QED BY <1>1, <1>3, <2>1, <2>2, WrittenFacts DEF IInv, TypeOK, registry, t
<1>7. CreatedFromUnknown'
  BY <1>3, <1>5 DEF IInv, TypeOK, CreatedFromUnknown, registry, Registered
<1>8. DecisionsHold' /\ HeldIsKept'
  <2>1. \A d \in Domains : dom[d] # "none" => dom'[d] # "none"
    BY <1>3 DEF IInv, TypeOK
  <2>2. \A d \in Domains : dom[d] \in Registered => dom'[d] \in Registered
    BY <1>3 DEF IInv, TypeOK, Registered
  <2>3. \A d \in Domains : Keeps(d) => Live(d)'
    <3> SUFFICES ASSUME NEW d \in Domains, Keeps(d) PROVE Live(d)'
      OBVIOUS
    <3>1. Live(d) /\ ~(t.todo.do = "mark" /\ t.todo.dom = d)
      BY <1>1 DEF Keeps, Marks, t
    <3>2. dom'[d] = dom[d]
      BY <1>3, <1>5, <3>1 DEF IInv, TypeOK
    <3> QED BY <3>1, <3>2 DEF Live
  <2> QED BY <1>1, <1>3, <2>1, <2>2, <2>3, WrittenKeeps DEF t
<1>9. InfoHasRequest'
  BY <1>2, <1>3, <1>4 DEF IInv, TypeOK, InfoHasRequest
<1> QED BY <1>6, <1>7, <1>8, <1>9 DEF IInv

LEMMA CommitCreateKeeps ==
  ASSUME IInv, NEW a \in Tabs, CommitCreate(a)
  PROVE  IInv'
<1> DEFINE t == tx[a]
<1>1. t \in Tx /\ Step(a, "commit") /\ GoodTx(t)
  BY TxFacts DEF IInv, CommitCreate, DecisionsHold
<1>2. t.mem \in Row /\ t.at \in Requests /\ t.mem.status = "approved"
  BY <1>1 DEF Tx, GoodTx, CommitCreate, Creates
<1>3. PICK d \in Domains :
        /\ dom[d] = "none"
        /\ dom' = [dom EXCEPT ![d] = "unknown"]
        /\ dr' = [dr EXCEPT ![t.at] = [t.mem EXCEPT !.approved = d]]
        /\ info' = IF t.todo.do = "create" THEN [info EXCEPT ![t.at] = d] ELSE info
  BY DEF CommitCreate
<1>4. Written(a) /\ UNCHANGED <<contacts, work, registry>>
  BY DEF CommitCreate
<1>5. /\ [t.mem EXCEPT !.approved = d] \in Row
      /\ [t.mem EXCEPT !.approved = d].status = "approved"
  BY <1>2 DEF Row
<1> DEFINE row == [t.mem EXCEPT !.approved = d]
<1> HIDE DEF t, row
<1>6. row \in Row /\ row.status = "approved" /\ dr' = [dr EXCEPT ![t.at] = row]
  BY <1>3, <1>5 DEF row
<1>7. TypeOK'
  <2>1. dr' \in [Requests -> Row]
    BY <1>2, <1>6 DEF IInv, TypeOK
  <2>2. dom' \in [Domains -> LiveStates \cup {"none", "deleted", "removed"}]
    BY <1>3 DEF IInv, TypeOK, LiveStates
  <2>3. info' \in [Requests -> Domains \cup {NoDomain}]
    BY <1>2, <1>3 DEF IInv, TypeOK
  <2> QED BY <1>1, <1>4, <2>1, <2>2, <2>3, WrittenFacts DEF IInv, TypeOK, registry, t
<1>8. CreatedFromUnknown'
  BY <1>3, <1>4 DEF IInv, TypeOK, CreatedFromUnknown, registry
<1>9. DecisionsHold' /\ HeldIsKept'
  <2>1. \A e \in Domains : dom[e] # "none" => e # d /\ dom'[e] = dom[e]
    BY <1>3 DEF IInv, TypeOK
  <2>2. "none" \notin Registered /\ \A e \in Domains : Keeps(e) => dom[e] # "none" /\ dom[e] \in LiveStates
    BY DEF Registered, Keeps, Live, LiveStates
  <2> QED BY <1>1, <1>4, <2>1, <2>2, WrittenKeeps DEF t, Live
<1>10. InfoHasRequest'
  BY <1>2, <1>3, <1>6 DEF IInv, TypeOK, InfoHasRequest
<1> QED BY <1>7, <1>8, <1>9, <1>10 DEF IInv

LEMMA CommitRemoveKeeps ==
  ASSUME IInv, NEW a \in Tabs, CommitRemove(a)
  PROVE  IInv'
<1> DEFINE t == tx[a]
           d == t.todo.dom
           freed == [r \in Requests |->
                       IF dr[r].approved = d THEN [dr[r] EXCEPT !.approved = NoDomain] ELSE dr[r]]
<1>1. t \in Tx /\ Step(a, "commit") /\ GoodTx(t)
  BY TxFacts DEF IInv, CommitRemove, DecisionsHold
<1>2. t.mem \in Row /\ t.at \in Requests
  BY <1>1 DEF Tx
<1>3. /\ Written(a) /\ UNCHANGED <<contacts, work, registry>>
      /\ dom' = [dom EXCEPT ![d] = "removed"]
      /\ dr' = [freed EXCEPT ![t.at] = t.mem]
      /\ info' = [r \in Requests |-> IF info[r] = d THEN NoDomain ELSE info[r]]
      /\ t.op = "delete" => info[t.at] = NoDomain
      /\ d \notin contacts
  BY DEF CommitRemove, Integrity
<1>4. d \in Domains /\ dom[d] # "none" /\ (t.op # "delete" => t.mem.status # "none")
  BY <1>1 DEF GoodTx, CommitRemove
<1>6. freed \in [Requests -> Row] /\ \A r \in Requests : freed[r].status = dr[r].status
  BY DEF IInv, TypeOK, Row
<1> HIDE DEF t, d, freed
<1>7. TypeOK'
  <2>1. dr' \in [Requests -> Row]
    BY <1>2, <1>3, <1>6
  <2>2. dom' \in [Domains -> LiveStates \cup {"none", "deleted", "removed"}]
    BY <1>3 DEF IInv, TypeOK
  <2>3. info' \in [Requests -> Domains \cup {NoDomain}]
    BY <1>3 DEF IInv, TypeOK
  <2> QED BY <1>1, <1>3, <2>1, <2>2, <2>3, WrittenFacts DEF IInv, TypeOK, registry, t
<1>8. CreatedFromUnknown'
  BY <1>3 DEF IInv, TypeOK, CreatedFromUnknown, registry
<1>9. DecisionsHold' /\ HeldIsKept'
  <2>1. \A e \in Domains : dom[e] # "none" => dom'[e] # "none"
    BY <1>3 DEF IInv, TypeOK
  <2>2. \A e \in Domains : e \in contacts => dom'[e] = dom[e]
    BY <1>3 DEF IInv, TypeOK
  <2> QED BY <1>1, <1>3, <2>1, <2>2, WrittenKeeps DEF t, Keeps, Live
<1>10. InfoHasRequest'
  <2> SUFFICES ASSUME NEW r \in Requests, info'[r] # NoDomain PROVE dr'[r].status # "none"
    BY DEF InfoHasRequest
  <2>1. info[r] # NoDomain /\ dr[r].status # "none"
    BY <1>3 DEF IInv, TypeOK, InfoHasRequest
  <2> QED BY <1>2, <1>3, <1>4, <1>6, <2>1
<1> QED BY <1>7, <1>8, <1>9, <1>10 DEF IInv

\* A transaction that gives up, or that the database rolls back.
LEMMA GivenUpKeeps ==
  ASSUME IInv, NEW a \in Tabs, Refuse(a) \/ CommitFails(a)
  PROVE  IInv'
<1>1. /\ tx' = [tx EXCEPT ![a] = NoTx]
      /\ UNCHANGED <<dr, dom, contacts, info, restricted, page, work, held, creating, abandoned>>
  BY DEF Refuse, CommitFails, registry
<1>2. \A b \in Tabs : tx'[b] \in Tx => tx'[b] = tx[b]
  BY <1>1, TxFacts DEF IInv, TypeOK
<1>3. DecisionsHold'
  BY <1>1, <1>2, DecisionsStillHold
<1>4. HeldIsKept'
  BY <1>1, <1>2, StillKept DEF Marks, Keeps, Live
<1> QED BY <1>1, <1>3, <1>4 DEF IInv, TypeOK, CreatedFromUnknown, InfoHasRequest

\* A domain's later moves keep its row, until the registry has deleted it.
LEMMA MoveDomainKeeps ==
  ASSUME IInv, NEW d \in Domains, MoveDomain(d)
  PROVE  IInv'
<1>0. UNCHANGED <<dr, contacts, info, restricted, page, tx, work, creating, abandoned>>
  BY DEF MoveDomain
<1>1. CASE \E to \in LaterStates(dom[d]) :
             /\ dom' = [dom EXCEPT ![d] = to]
             /\ IF to = "deleted" THEN held /\ held' = FALSE ELSE UNCHANGED held
  <2>1. PICK to \in LaterStates(dom[d]) :
             /\ dom' = [dom EXCEPT ![d] = to]
             /\ IF to = "deleted" THEN held /\ held' = FALSE ELSE UNCHANGED held
    BY <1>1
  <2>2. /\ dom[d] \in {"dns needed", "ready", "on hold"}
        /\ to \in {"dns needed", "ready", "on hold", "deleted"}
    BY <2>1 DEF LaterStates
  <2>3. TypeOK'
    BY <1>0, <2>1, <2>2 DEF IInv, TypeOK, LiveStates
  <2>4. CreatedFromUnknown'
    BY <1>0, <2>1, <2>2 DEF IInv, TypeOK, CreatedFromUnknown
  <2>5. DecisionsHold'
    BY <1>0, <2>1, <2>2, DecisionsStillHold DEF IInv, TypeOK, Registered
  <2>6. HeldIsKept'
    <3>1. CASE to = "deleted"
      BY <2>1, <3>1 DEF HeldIsKept
    <3>2. CASE to # "deleted"
      <4>1. \A e \in Domains : Live(e) => Live(e)'
        BY <2>1, <2>2, <3>2 DEF IInv, TypeOK, Live, LiveStates
      <4> QED BY <1>0, <2>1, <3>2, <4>1, StillKept DEF Keeps
    <3> QED BY <3>1, <3>2
  <2> QED BY <1>0, <2>3, <2>4, <2>5, <2>6 DEF IInv, InfoHasRequest
<1>2. CASE held' = FALSE /\ UNCHANGED dom
  BY <1>0, <1>2, DecisionsStillHold DEF IInv, TypeOK, CreatedFromUnknown, HeldIsKept, InfoHasRequest
<1> QED BY <1>1, <1>2 DEF MoveDomain

-----------------------------------------------------------------------------
(* The creation at the registry *)

\* Until it is saved, a creation changes what the registry has and no row.
LEMMA CreationGoesOn ==
  ASSUME IInv, NEW d \in Domains, LoadUnknown(d) \/ CreateAtRegistry(d)
  PROVE  IInv'
<1>1. UNCHANGED <<dr, dom, contacts, info, restricted, page, tx, work, abandoned>>
  BY DEF LoadUnknown, CreateAtRegistry
<1>2. PICK c \in {"loaded", "created", "repaired", "failed"} : creating' = [creating EXCEPT ![d] = c]
  BY DEF LoadUnknown, CreateAtRegistry
<1>3. /\ held' \in BOOLEAN
      /\ c \in {"loaded", "repaired"} => held' = held
      /\ creating[d] \in {"none", "loaded"}
      /\ creating[d] = "none" => dom[d] = "unknown"
  BY <1>2 DEF IInv, TypeOK, LoadUnknown, CreateAtRegistry
<1>4. TypeOK'
  BY <1>1, <1>2, <1>3 DEF IInv, TypeOK
<1>5. CreatedFromUnknown'
  BY <1>1, <1>2, <1>3 DEF IInv, TypeOK, CreatedFromUnknown
<1>6. DecisionsHold'
  BY <1>1, DecisionsStillHold
<1>7. HeldIsKept'
  <2>1. CASE c \in {"created", "failed"}
    <3>1. creating'[d] \in {"created", "failed"}
      BY <1>2, <2>1 DEF IInv, TypeOK
    <3> QED BY <3>1 DEF HeldIsKept
  <2>2. CASE c \in {"loaded", "repaired"}
    <3>1. \A e \in Domains : creating[e] \in {"created", "failed"} => creating'[e] = creating[e]
      BY <1>2, <1>3 DEF IInv, TypeOK
    <3>2. \A e \in Domains : Keeps(e) => Live(e)'
      BY <1>1 DEF Keeps, Live
    <3> QED BY <1>1, <1>3, <2>2, <3>1, <3>2, StillKept
  <2> QED BY <2>1, <2>2
<1> QED BY <1>1, <1>4, <1>5, <1>6, <1>7 DEF IInv, InfoHasRequest

\* No transaction is about to mark a row deleted that is being created.
LEMMA CreatedUnmarked ==
  ASSUME IInv, NEW d \in Domains, creating[d] # "none", NEW a \in Tabs
  PROVE  ~Marks(tx[a], d)
<1>1. dom[d] \notin Registered
  BY DEF IInv, CreatedFromUnknown, Registered
<1> QED BY <1>1 DEF IInv, DecisionsHold, GoodTx, Marks

LEMMA CreationSavedKeeps ==
  ASSUME IInv, NEW d \in Domains, CreationSaved(d)
  PROVE  IInv'
<1>1. /\ creating[d] \in {"created", "repaired"}
      /\ dom' = [dom EXCEPT ![d] = "dns needed"]
      /\ creating' = [creating EXCEPT ![d] = "none"]
      /\ contacts' = IF creating[d] = "created" THEN contacts \cup {d} ELSE contacts
      /\ abandoned' = (abandoned /\ d \notin contacts')
      /\ UNCHANGED <<dr, info, restricted, page, tx, work, held>>
      /\ \A e \in Domains \ {d} : ~Live(e)
  BY DEF CreationSaved
<1>2. abandoned' \in BOOLEAN
  BY <1>1, Zenon
<1>3. TypeOK'
  BY <1>1, <1>2 DEF IInv, TypeOK, LiveStates
<1>4. CreatedFromUnknown'
  BY <1>1 DEF IInv, TypeOK, CreatedFromUnknown
<1>5. DecisionsHold'
  BY <1>1, DecisionsStillHold DEF IInv, TypeOK, Registered
<1>6. HeldIsKept'
  <2> SUFFICES ASSUME held', ~abandoned'
               PROVE  \E e \in Domains : creating'[e] \in {"created", "failed"} \/ Keeps(e)'
    BY DEF HeldIsKept
  <2>1. Live(d)' /\ \A a \in Tabs : ~Marks(tx'[a], d)
    BY <1>1, CreatedUnmarked DEF IInv, TypeOK, Live, LiveStates
  <2>2. CASE d \in contacts'
    <3>1. Keeps(d)'
      BY <2>1, <2>2 DEF Keeps, Marks, Tx, Todo, Row
    <3> QED BY <3>1
  <2>3. CASE d \notin contacts'
    <3>1. creating[d] = "repaired" /\ d \notin contacts /\ ~abandoned
      BY <1>1, <2>3
    <3>2. PICK e \in Domains : creating[e] \in {"created", "failed"} \/ Keeps(e)
      BY <1>1, <3>1 DEF IInv, HeldIsKept
    <3>3. e # d /\ creating[e] \in {"created", "failed"}
      BY <1>1, <3>1, <3>2 DEF Keeps
    <3>4. creating'[e] \in {"created", "failed"}
      BY <1>1, <3>3 DEF IInv, TypeOK
    <3> QED BY <3>4
  <2> QED BY <2>2, <2>3
<1> QED BY <1>1, <1>3, <1>4, <1>5, <1>6 DEF IInv, InfoHasRequest

LEMMA CreationUnsavedKeeps ==
  ASSUME IInv, NEW d \in Domains, CreationUnsaved(d)
  PROVE  IInv'
<1>1. /\ creating[d] = "failed" /\ dom[d] # "removed"
      /\ contacts' = contacts \cup {d}
      /\ creating' = [creating EXCEPT ![d] = "none"]
      /\ UNCHANGED <<dr, dom, info, restricted, page, tx, work, held, abandoned>>
  BY DEF CreationUnsaved
<1>2. TypeOK'
  BY <1>1 DEF IInv, TypeOK
<1>3. CreatedFromUnknown'
  BY <1>1 DEF IInv, TypeOK, CreatedFromUnknown
<1>4. DecisionsHold'
  BY <1>1, DecisionsStillHold
<1>5. HeldIsKept'
  <2>1. dom[d] = "unknown"
    BY <1>1 DEF IInv, CreatedFromUnknown
  <2>2. Live(d)' /\ d \in contacts' /\ \A a \in Tabs : ~Marks(tx'[a], d)
    BY <1>1, <2>1, CreatedUnmarked DEF Live, LiveStates
  <2>3. Keeps(d)'
    BY <2>2 DEF Keeps, Marks, Tx, Todo, Row
  <2> QED BY <2>3 DEF HeldIsKept
<1> QED BY <1>1, <1>2, <1>3, <1>4, <1>5 DEF IInv, InfoHasRequest

LEMMA CreationRolledBackKeeps ==
  ASSUME IInv, NEW d \in Domains, CreationRolledBack(d)
  PROVE  IInv'
<1>1. /\ creating' = [creating EXCEPT ![d] = "none"]
      /\ abandoned' = (abandoned \/ (creating[d] # "loaded" /\ held))
      /\ UNCHANGED <<dr, dom, contacts, info, restricted, page, tx, work, held>>
  BY DEF CreationRolledBack
<1>2. abandoned' \in BOOLEAN
  BY <1>1, Zenon
<1>3. TypeOK'
  BY <1>1, <1>2 DEF IInv, TypeOK
<1>4. CreatedFromUnknown'
  BY <1>1 DEF IInv, TypeOK, CreatedFromUnknown
<1>5. DecisionsHold'
  BY <1>1, DecisionsStillHold
<1>6. HeldIsKept'
  <2>1. CASE creating[d] = "loaded"
    <3>1. \A e \in Domains : creating[e] \in {"created", "failed"} => creating'[e] = creating[e]
      BY <1>1, <2>1 DEF IInv, TypeOK
    <3>2. \A e \in Domains : Keeps(e) => Live(e)'
      BY <1>1 DEF Keeps, Live
    <3> QED BY <1>1, <3>1, <3>2, StillKept
  <2>2. CASE creating[d] # "loaded"
    BY <1>1, <2>2 DEF HeldIsKept
  <2> QED BY <2>1, <2>2
<1> QED BY <1>1, <1>3, <1>4, <1>5, <1>6 DEF IInv, InfoHasRequest

\* What leaves rows, transactions and the registry alone.
LEMMA Frame ==
  ASSUME IInv, UNCHANGED <<dr, dom, contacts, info, tx, work, registry>>,
         restricted' \in BOOLEAN, page' \in [Tabs -> Requests \cup {NoPage}]
  PROVE  IInv'
<1>1. DecisionsHold'
  BY DecisionsStillHold
<1>2. UNCHANGED <<held, creating, abandoned>>
  BY DEF registry
<1>3. \A e \in Domains : Keeps(e) => Live(e)'
  BY DEF Keeps, Live
<1>4. HeldIsKept'
  BY <1>2, <1>3, StillKept
<1> QED BY <1>1, <1>2, <1>4 DEF IInv, TypeOK, CreatedFromUnknown, InfoHasRequest

LEMMA NextKeeps == IInv /\ [Next]_vars => IInv'
<1> SUFFICES ASSUME IInv, [Next]_vars PROVE IInv'
  OBVIOUS
<1>1. ASSUME NEW a \in Tabs, NEW r \in Requests, Open(a, r) PROVE IInv'
  <2>1. page' \in [Tabs -> Requests \cup {NoPage}] /\ restricted' \in BOOLEAN
    BY <1>1 DEF Open, IInv, TypeOK
  <2> QED BY <1>1, <2>1, Frame DEF Open
<1>2. \A r \in Requests : dr[r] \in Row
  BY DEF IInv, TypeOK
<1>3. ASSUME NEW a \in Tabs, NEW r \in Requests, Edit(a, r) PROVE IInv'
  <2>1. dr[r].status # "none" /\ "edit" \in Ops
    BY <1>3 DEF Edit, Begin, Admitted, Ops
  <2> QED BY <1>2, <1>3, <2>1, BeginKeeps DEF Edit
<1>4. ASSUME NEW a \in Tabs, NEW r \in Requests, Done(a, r) PROVE IInv'
  <2> DEFINE m == Moved("submit", dr[r])
  <2>1. m \in Row /\ m.status # "none"
    BY <1>2, MovedFacts DEF Transitions
  <2>2. "done" \in Ops
    BY DEF Ops, RequesterOps
  <2> HIDE DEF m
  <2>3. Moved("in_review_omb", m) \in Row /\ Moved("in_review_omb", m).status # "none"
    BY <2>1, MovedFacts DEF Transitions
  <2>4. CASE Begin(a, r, "done", m, "commit")
    BY <2>1, <2>2, <2>4, BeginKeeps
  <2>5. CASE Begin(a, r, "done", Moved("in_review_omb", m), "commit")
    BY <2>2, <2>3, <2>5, BeginKeeps
  <2> QED BY <1>4, <2>4, <2>5 DEF Done, m
<1>5. ASSUME NEW a \in Tabs, NEW r \in Requests, Withdrawn(a, r) PROVE IInv'
  <2>1. /\ Moved("withdraw", dr[r]) \in Row
        /\ Moved("withdraw", dr[r]).status # "none"
        /\ "withdrawn" \in Ops
    BY <1>2, MovedFacts DEF Transitions, Ops, RequesterOps
  <2> QED BY <1>5, <2>1, BeginKeeps DEF Withdrawn
<1>6. ASSUME NEW a \in Tabs, NEW r \in Requests, Delete(a, r) PROVE IInv'
  <2>1. NoRow \in Row /\ "delete" \in Ops
    BY DEF NoRow, Row, Ops, RequesterOps
  <2> QED BY <1>6, <2>1, BeginKeeps DEF Delete
<1>7. ASSUME NEW a \in Tabs, NEW r \in Requests, NEW t \in AdminOps, ChangeStatus(a, r, t) PROVE IInv'
  <2>1. dr[r].status # "none" /\ t \in Ops
    BY <1>7 DEF ChangeStatus, Begin, Admitted, Ops
  <2> QED BY <1>2, <1>7, <2>1, BeginKeeps DEF ChangeStatus
<1>8. ASSUME Unrestrict PROVE IInv'
  <2>1. page' \in [Tabs -> Requests \cup {NoPage}] /\ restricted' \in BOOLEAN
    BY <1>8 DEF Unrestrict, IInv, TypeOK
  <2> QED BY <1>8, <2>1, Frame DEF Unrestrict
<1>9. CASE UNCHANGED vars
  <2>1. page' \in [Tabs -> Requests \cup {NoPage}] /\ restricted' \in BOOLEAN
    BY <1>9 DEF vars, IInv, TypeOK
  <2> QED BY <1>9, <2>1, Frame DEF vars, registry
<1> QED BY <1>1, <1>3, <1>4, <1>5, <1>6, <1>7, <1>8, <1>9, DecisionsKeep, CommitKeeps,
           CommitCreateKeeps, CommitRemoveKeeps, GivenUpKeeps, MoveDomainKeeps, CreationGoesOn,
           CreationSavedKeeps, CreationUnsavedKeeps, CreationRolledBackKeeps DEF Next, Decisions

LEMMA InvariantHolds == Spec => []IInv
  BY InitHolds, NextKeeps, PTL DEF Spec

-----------------------------------------------------------------------------
(* Theorems about any execution, overlapping or not *)

\* Type correctness: whatever overlaps, what a transaction decides is
\* something that its commit can carry out.
THEOREM TypeCorrect == Spec => []TypeOK
<1>1. IInv => TypeOK
  BY DEF IInv
<1> QED BY <1>1, InvariantHolds, PTL

\* The DomainInformation of a request is never left without its request: the
\* deletion of a request that is being approved fails, or the approval does.
THEOREM InformationKeepsRequest == Spec => []InfoHasRequest
<1>1. IInv => InfoHasRequest
  BY DEF IInv
<1> QED BY <1>1, InvariantHolds, PTL

\* The registry has no domain of the name without a row for it, however the
\* clean-up of a request overlaps a creation, unless the request that created
\* it was rolled back.
THEOREM RegisteredNameHasRow == Spec => []RegisteredHasRow
<1>1. IInv => RegisteredHasRow
  BY DEF IInv, HeldIsKept, RegisteredHasRow, Keeps
<1> QED BY <1>1, InvariantHolds, PTL

=============================================================================
