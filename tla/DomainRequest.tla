--------------------------- MODULE DomainRequest ---------------------------
(***************************************************************************)
(* Requests for one .gov name and what their approval creates: the rows of *)
(* DomainRequest, the Domain rows of that name, and the DomainInformation  *)
(* that ties an approved request to its domain.                            *)
(*                                                                         *)
(* Requesters work through the wizard, analysts through the admin.  Each   *)
(* works in a browser tab, and each request to the server is one database  *)
(* transaction: it loads the row, decides, and writes the whole row back.  *)
(* Forms carry the version of the row they show, the buttons of the        *)
(* requester do not.  What happens to an approved domain afterwards        *)
(* (module DomainLifecycle) appears here as its creation at the registry   *)
(* and as the moves of its state.                                          *)
(***************************************************************************)
EXTENDS Naturals

CONSTANTS
  Requests,        \* domain requests, all for the same name
  Tabs,            \* browser tabs of requesters and analysts
  MaxDomains,      \* bound: how many Domain rows the name may get
  MaxWork,         \* bound: how many transactions are begun
  Overlap,         \* may transactions of different tabs overlap in time?
  RegistryErrors   \* may the registry fail?

NoPage == "no page"

ASSUME RequestAssumption ==
  /\ NoPage \notin Requests
  /\ MaxDomains \in Nat
  /\ MaxWork \in Nat
  /\ Overlap \in BOOLEAN
  /\ RegistryErrors \in BOOLEAN

VARIABLES
  dr,         \* the committed rows: status and approved_domain
  dom,        \* the state of each Domain row of the name
  contacts,   \* the Domain rows that PublicContact rows refer to
  info,       \* per request: the domain of its DomainInformation, or NoDomain
  restricted, \* is the requester restricted? (one person asks)
  page,       \* per tab: the request it shows in its newest version, or NoPage
  tx,         \* per tab: its transaction, or NoTx
  work,       \* how many transactions have been begun
  held,       \* has the registry a domain of the name?
  creating,   \* per Domain row: how far a request is that creates it there
  abandoned   \* history: such a request was rolled back, and the name is held

vars == <<dr, dom, contacts, info, restricted, page, tx, work, held, creating, abandoned>>
registry == <<held, creating, abandoned>>

-----------------------------------------------------------------------------
(* Values *)

Domains == 1..MaxDomains
NoDomain == 0

Statuses == {"started", "submitted", "in review", "in review - omb", "action needed",
             "approved", "rejected", "ineligible", "withdrawn"}
LiveStates == {"unknown", "dns needed", "ready", "on hold"}

\* A row; "none" is the status of a request that has been deleted.
Row == [status : Statuses \cup {"none"}, approved : Domains \cup {NoDomain}]
NoRow == [status |-> "none", approved |-> NoDomain]

\* The transitions of the FSM field.
Transitions == {"submit", "in_review", "action_needed", "approve", "withdraw",
                "reject", "reject_with_prejudice", "in_review_omb"}
\* in_review_omb is not offered in the admin; `done` is the end of the
\* wizard, `withdrawn` and `delete` are pages of the requester.
AdminOps == Transitions \ {"in_review_omb"}
RequesterOps == {"done", "withdrawn", "delete"}
Ops == {"edit"} \cup AdminOps \cup RequesterOps

\* What a transaction does to the Domain row `dom`: create it, with or
\* without a DomainInformation, remove the row, or mark it deleted.
Todo == [do : {"nothing", "create", "create bare", "remove", "mark"},
         dom : Domains \cup {NoDomain}]
Nothing == [do |-> "nothing", dom |-> NoDomain]

\* A transaction: what it does to which request, the DomainRequest object it
\* has loaded, and whether the transition has been decided.
Tx == [step : {"act", "commit"}, op : Ops, at : Requests, mem : Row, todo : Todo]
NoTx == [step |-> "idle"]

TypeOK ==
  /\ dr \in [Requests -> Row]
  /\ dom \in [Domains -> LiveStates \cup {"none", "deleted", "removed"}]
  /\ contacts \in SUBSET Domains
  /\ info \in [Requests -> Domains \cup {NoDomain}]
  /\ restricted \in BOOLEAN
  /\ page \in [Tabs -> Requests \cup {NoPage}]
  /\ tx \in [Tabs -> Tx \cup {NoTx}]
  /\ work \in Nat
  /\ held \in BOOLEAN
  /\ creating \in [Domains -> {"none", "loaded", "created", "repaired", "failed"}]
  /\ abandoned \in BOOLEAN

\* Drafts of the name, as the wizard creates them.
Init ==
  /\ dr = [r \in Requests |-> [status |-> "started", approved |-> NoDomain]]
  /\ dom = [d \in Domains |-> "none"]
  /\ contacts = {}
  /\ info = [r \in Requests |-> NoDomain]
  /\ restricted = FALSE
  /\ page = [a \in Tabs |-> NoPage]
  /\ tx = [a \in Tabs |-> NoTx]
  /\ work = 0
  /\ held = FALSE
  /\ creating = [d \in Domains |-> "none"]
  /\ abandoned = FALSE

Idle(a) == tx[a] = NoTx
\* No transaction is under way.
Quiet == (\A a \in Tabs : Idle(a)) /\ \A d \in Domains : creating[d] = "none"
Step(a, step) == tx[a].step = step
Live(d) == dom[d] \in LiveStates

-----------------------------------------------------------------------------
(* The transitions of the FSM field: sources, targets and conditions       *)

Sources(t) ==
  CASE t = "submit" -> {"started", "in review", "in review - omb", "action needed", "withdrawn"}
    [] t = "in_review" -> {"submitted", "action needed", "approved", "rejected", "ineligible"}
    [] t = "action_needed" -> {"in review", "in review - omb", "approved", "rejected", "ineligible"}
    [] t = "approve" -> {"in review", "in review - omb", "action needed", "rejected"}
    [] t = "withdraw" -> {"submitted", "in review", "in review - omb", "action needed"}
    [] t = "reject" -> {"in review", "in review - omb", "action needed", "approved"}
    [] t = "reject_with_prejudice" -> {"submitted", "in review", "in review - omb",
                                       "action needed", "approved", "rejected"}
    [] t = "in_review_omb" -> {"submitted"}

Target_Name(t) == t   \* a mutant: the method's name for the status
Target(t) ==
  CASE t = "submit" -> "submitted"
    [] t = "in_review" -> "in review"
    [] t = "action_needed" -> "action needed"
    [] t = "approve" -> "approved"
    [] t = "withdraw" -> "withdrawn"
    [] t = "reject" -> "rejected"
    [] t = "reject_with_prejudice" -> "ineligible"
    [] t = "in_review_omb" -> "in review - omb"

DomainIsNotActive_Ignored(m) == m.status \in Statuses   \* a mutant
\* domain_is_not_active, on an object: a name in use keeps its approval.
DomainIsNotActive(m) == m.approved # NoDomain => dom[m.approved] # "ready"

Conditional == {"in_review", "action_needed", "reject", "reject_with_prejudice", "in_review_omb"}

Can(t, m) == m.status \in Sources(t) /\ (t \in Conditional => DomainIsNotActive(m))

Moved(t, m) == [m EXCEPT !.status = Target(t)]

\* delete_and_clean_up_domain, for the object `m` of an approved request.  A
\* domain past the state unknown is deleted at the registry and marked
\* deleted; then the row itself is deleted, which PublicContact rows prevent.
\* Every exception is swallowed, with what came before it kept.
CleanUp(m) ==
  LET d == m.approved
      kept == [row |-> m, todo |-> Nothing, held |-> held]
      removed == [row |-> [m EXCEPT !.approved = NoDomain],
                  todo |-> [do |-> "remove", dom |-> d], held |-> held]
      marked == [row |-> m, todo |-> [do |-> "mark", dom |-> d], held |-> FALSE]
  IN IF d = NoDomain \/ ~Live(d) THEN {kept}
     ELSE IF dom[d] = "unknown" THEN {IF d \in contacts THEN kept ELSE removed}
     ELSE (IF held THEN {IF d \in contacts THEN marked ELSE [removed EXCEPT !.held = FALSE]}
                   ELSE {kept})
          \cup (IF RegistryErrors THEN {kept, [kept EXCEPT !.held = FALSE]} ELSE {})

-----------------------------------------------------------------------------
(* Transactions begin *)

\* A tab loads a page of the wizard or the admin's form.  A form that was
\* refused for its version is shown anew in this way.
Open(a, r) ==
  /\ Idle(a)
  /\ dr[r].status # "none"
  /\ page' = [page EXCEPT ![a] = r]
  /\ UNCHANGED <<dr, dom, contacts, info, restricted, tx, work, registry>>

\* A mutant: whoever asks, a form is accepted.
Admitted_Restricted(a, r, o) ==
  dr[r].status # "none" /\ (o \in {"edit"} \cup AdminOps => page[a] = r)

\* Nothing is saved of a request whose requester is restricted, and forms
\* have to show the newest version.
Admitted(a, r, o) ==
  /\ dr[r].status # "none"
  /\ ~restricted
  /\ o \in {"edit"} \cup AdminOps => page[a] = r

\* The server starts a transaction; `m` is the object it loads, as far as it
\* has been changed when the transaction next waits.
Begin(a, r, o, m, next) ==
  /\ Idle(a)
  /\ Overlap \/ Quiet
  /\ work < MaxWork
  /\ Admitted(a, r, o)
  /\ work' = work + 1
  /\ tx' = [tx EXCEPT ![a] = [step |-> next, op |-> o, at |-> r, mem |-> m, todo |-> Nothing]]
  /\ UNCHANGED <<dr, dom, contacts, info, restricted, page, registry>>

\* A wizard page is saved.
Edit(a, r) == Begin(a, r, "edit", dr[r], "commit")

\* The admin's form, with the status that `t` leads to: another status, or
\* the one the row has.
ChangeStatus(a, r, t) == Begin(a, r, t, dr[r], "act")

\* The end of the wizard: submitted, and passed on to OMB when that is due.
Done(a, r) ==
  LET submitted == Moved("submit", dr[r])
  IN /\ Can("submit", dr[r])
     /\ \/ Begin(a, r, "done", submitted, "commit")
        \/ /\ Can("in_review_omb", submitted)
           /\ Begin(a, r, "done", Moved("in_review_omb", submitted), "commit")

Withdrawn(a, r) ==
  /\ Can("withdraw", dr[r])
  /\ Begin(a, r, "withdrawn", Moved("withdraw", dr[r]), "commit")

Delete_Any(a, r) == Begin(a, r, "delete", NoRow, "commit")   \* a mutant
Delete(a, r) ==
  /\ dr[r].status \in {"started", "withdrawn"}
  /\ Begin(a, r, "delete", NoRow, "commit")

-----------------------------------------------------------------------------
(* save_model of the admin, after the version was checked: the status of   *)
(* the row is read again and the transition starts from it.                *)

Object(a) == [tx[a].mem EXCEPT !.status = dr[tx[a].at].status]

Decided(a, o, m, what) ==
  /\ tx' = [tx EXCEPT ![a] = [step |-> "commit", op |-> o, at |-> tx[a].at,
                              mem |-> m, todo |-> what]]
  /\ UNCHANGED <<dr, dom, contacts, info, restricted, page, work, creating, abandoned>>

\* A message or an exception instead of the transition: not allowed from
\* here, no reason or investigator given, or the registry says that the name
\* is taken or cannot be reached.
Refuse(a) ==
  /\ Step(a, "act")
  /\ tx' = [tx EXCEPT ![a] = NoTx]
  /\ UNCHANGED <<dr, dom, contacts, info, restricted, page, work, registry>>

\* Somebody else has made the same change meanwhile: a plain save is left.
SaveUnchanged(a) ==
  /\ Step(a, "act")
  /\ dr[tx[a].at].status = Target(tx[a].op)
  /\ Decided(a, "edit", Object(a), Nothing)
  /\ UNCHANGED held

\* Every transition but approve.  Leaving approved deletes the domain, at the
\* registry at once and in the table when the transaction commits.
Transition(a) ==
  LET m == Object(a)
  IN /\ Step(a, "act")
     /\ tx[a].op # "approve"
     /\ Can(tx[a].op, m)
     /\ DomainIsNotActive(m)
     /\ IF m.status = "approved"
        THEN \E done \in CleanUp(m) :
               /\ Decided(a, tx[a].op, Moved(tx[a].op, done.row), done.todo)
               /\ held' = done.held
        ELSE Decided(a, tx[a].op, Moved(tx[a].op, m), Nothing) /\ UNCHANGED held

NameInUse == \E d \in Domains : Live(d)

\* approve(): one live Domain row for a name.  A DomainInformation is created
\* unless the request has one already.
Approve(a) ==
  LET m == Object(a)
  IN /\ Step(a, "act")
     /\ tx[a].op = "approve"
     /\ Can("approve", m)
     /\ ~NameInUse
     /\ Decided(a, "approve", Moved("approve", m),
                [do |-> IF info[tx[a].at] = NoDomain THEN "create" ELSE "create bare",
                 dom |-> NoDomain])
     /\ UNCHANGED held

\* approve() saves a new suborganization before it finds the name in use; the
\* admin reports the error and the row as saved stays.
ApproveRefused(a) ==
  /\ Step(a, "act")
  /\ tx[a].op = "approve"
  /\ Can("approve", Object(a))
  /\ NameInUse
  /\ Decided(a, "approve", Object(a), Nothing)
  /\ UNCHANGED held

-----------------------------------------------------------------------------
(* The row is written and the transaction commits *)

\* A name has one Domain row that is not deleted: an insertion waits for the
\* other transactions that touch such a row, and fails if one commits it.
NameIsFree == \A d \in Domains : ~Live(d)

\* A mutant: a DomainInformation does not protect its request.
Integrity_RequestCascades(a) ==
  /\ tx[a].todo.do \in {"create", "create bare"} => NameIsFree
  /\ tx[a].todo.do = "create" => info[tx[a].at] = NoDomain
  /\ tx[a].todo.do = "remove" => tx[a].todo.dom \notin contacts
  /\ tx[a].mem.approved # NoDomain => dom[tx[a].mem.approved] # "removed"

\* What the constraints of the database demand: one live row per name, one
\* DomainInformation per request, no references to rows that are gone.
Integrity(a) ==
  /\ tx[a].todo.do \in {"create", "create bare"} => NameIsFree
  /\ tx[a].todo.do = "create" => info[tx[a].at] = NoDomain
  /\ tx[a].todo.do = "remove" => tx[a].todo.dom \notin contacts
  /\ tx[a].mem.approved # NoDomain => dom[tx[a].mem.approved] # "removed"
  /\ tx[a].op = "delete" => info[tx[a].at] = NoDomain

\* save() of the whole row: every other tab now shows an older version.
Written(a) ==
  /\ tx' = [tx EXCEPT ![a] = NoTx]
  /\ page' = [b \in Tabs |-> IF page[b] = tx[a].at THEN NoPage ELSE page[b]]
  /\ restricted' = (restricted \/ tx[a].op = "reject_with_prejudice")

Commit(a) ==
  /\ Step(a, "commit")
  /\ Integrity(a)
  /\ tx[a].todo.do \in {"nothing", "mark"}
  /\ Written(a)
  /\ dr' = [dr EXCEPT ![tx[a].at] = tx[a].mem]
  /\ dom' = IF tx[a].todo.do = "mark" THEN [dom EXCEPT ![tx[a].todo.dom] = "deleted"] ELSE dom
  /\ UNCHANGED <<contacts, info, work, registry>>

\* A mutant: the request is saved without its new domain.
CommitCreate_Unlinked(a) ==
  /\ Step(a, "commit")
  /\ Integrity(a)
  /\ tx[a].todo.do \in {"create", "create bare"}
  /\ \E d \in Domains :
       /\ dom[d] = "none"
       /\ dom' = [dom EXCEPT ![d] = "unknown"]
       /\ dr' = [dr EXCEPT ![tx[a].at] = tx[a].mem]
       /\ info' = IF tx[a].todo.do = "create" THEN [info EXCEPT ![tx[a].at] = d] ELSE info
  /\ Written(a)
  /\ UNCHANGED <<contacts, work, registry>>

\* The new Domain row gets the next key.
CommitCreate(a) ==
  /\ Step(a, "commit")
  /\ Integrity(a)
  /\ tx[a].todo.do \in {"create", "create bare"}
  /\ \E d \in Domains :
       /\ dom[d] = "none"
       /\ \A e \in 1..(d - 1) : dom[e] # "none"
       /\ dom' = [dom EXCEPT ![d] = "unknown"]
       /\ dr' = [dr EXCEPT ![tx[a].at] = [tx[a].mem EXCEPT !.approved = d]]
       /\ info' = IF tx[a].todo.do = "create" THEN [info EXCEPT ![tx[a].at] = d] ELSE info
  /\ Written(a)
  /\ UNCHANGED <<contacts, work, registry>>

\* Deleting a Domain row takes its DomainInformation along and empties
\* approved_domain where it is referred to.
CommitRemove(a) ==
  LET d == tx[a].todo.dom
      freed == [r \in Requests |->
                  IF dr[r].approved = d THEN [dr[r] EXCEPT !.approved = NoDomain] ELSE dr[r]]
  IN /\ Step(a, "commit")
     /\ Integrity(a)
     /\ tx[a].todo.do = "remove"
     /\ Written(a)
     /\ dom' = [dom EXCEPT ![d] = "removed"]
     /\ dr' = [freed EXCEPT ![tx[a].at] = tx[a].mem]
     /\ info' = [r \in Requests |-> IF info[r] = d THEN NoDomain ELSE info[r]]
     /\ UNCHANGED <<contacts, work, registry>>

\* A constraint is violated and everything is rolled back.
CommitFails(a) ==
  /\ Step(a, "commit")
  /\ ~Integrity(a)
  /\ tx' = [tx EXCEPT ![a] = NoTx]
  /\ UNCHANGED <<dr, dom, contacts, info, restricted, page, work, registry>>

-----------------------------------------------------------------------------
(* The creation of a domain at the registry: a request of its own, which   *)
(* sends its commands before anything it writes is committed.  Two such    *)
(* requests for one row are a matter of DomainLifecycle.                   *)

\* A page loads a row in state unknown.
LoadUnknown(d) ==
  /\ dom[d] = "unknown"
  /\ creating[d] = "none"
  /\ Overlap \/ Quiet
  /\ creating' = [creating EXCEPT ![d] = "loaded"]
  /\ UNCHANGED <<dr, dom, contacts, info, restricted, page, tx, work, held, abandoned>>

\* The registrant's contact is written, CreateDomain and the other contacts
\* are sent; or the registry turns out to have the domain, and its contacts
\* are completed, which writes none when none is missing.  After an error
\* the domain may be there all the same, and the state stays unknown.
CreateAtRegistry(d) ==
  /\ creating[d] = "loaded"
  /\ \/ creating' = [creating EXCEPT ![d] = "created"] /\ held' = TRUE
     \/ creating' = [creating EXCEPT ![d] = "repaired"] /\ held /\ UNCHANGED held
     \/ /\ RegistryErrors
        /\ creating' = [creating EXCEPT ![d] = "failed"]
        /\ held' \in {held, TRUE}
  /\ UNCHANGED <<dr, dom, contacts, info, restricted, page, tx, work, abandoned>>

\* A mutant: the row is updated, and not inserted again when it is gone.
CreationSaved_Updates(d) ==
  /\ creating[d] \in {"created", "repaired"}
  /\ \A e \in Domains \ {d} : ~Live(e)
  /\ dom' = IF dom[d] = "removed" THEN dom ELSE [dom EXCEPT ![d] = "dns needed"]
  /\ contacts' = IF creating[d] = "created" THEN contacts \cup {d} ELSE contacts
  /\ creating' = [creating EXCEPT ![d] = "none"]
  /\ abandoned' = (abandoned /\ d \notin contacts')
  /\ UNCHANGED <<dr, info, restricted, page, tx, work, held>>

\* save() and the commit.  A row that was removed meanwhile is inserted
\* again, with its old key, as long as the name is free.
CreationSaved(d) ==
  /\ creating[d] \in {"created", "repaired"}
  /\ \A e \in Domains \ {d} : ~Live(e)
  /\ dom' = [dom EXCEPT ![d] = "dns needed"]
  /\ contacts' = IF creating[d] = "created" THEN contacts \cup {d} ELSE contacts
  /\ creating' = [creating EXCEPT ![d] = "none"]
  /\ abandoned' = (abandoned /\ d \notin contacts')
  /\ UNCHANGED <<dr, info, restricted, page, tx, work, held>>

\* The error of the registry is swallowed; the contact is committed, unless
\* the row it refers to has been removed.
CreationUnsaved(d) ==
  /\ creating[d] = "failed"
  /\ dom[d] # "removed"
  /\ contacts' = contacts \cup {d}
  /\ creating' = [creating EXCEPT ![d] = "none"]
  /\ UNCHANGED <<dr, dom, info, restricted, page, tx, work, held, abandoned>>

\* A constraint is violated, an exception is not caught or the worker dies:
\* the registry keeps what it was told.
CreationRolledBack(d) ==
  /\ creating[d] # "none"
  /\ creating' = [creating EXCEPT ![d] = "none"]
  /\ abandoned' = (abandoned \/ (creating[d] # "loaded" /\ held))
  /\ UNCHANGED <<dr, dom, contacts, info, restricted, page, tx, work, held>>

-----------------------------------------------------------------------------
(* What else happens to these rows *)

LaterStates(state) ==
  CASE state = "dns needed" -> {"ready", "deleted"}
    [] state = "ready" -> {"dns needed", "on hold"}
    [] state = "on hold" -> {"ready", "deleted"}
    [] OTHER -> {}

\* The life of a domain (module DomainLifecycle).  A deletion may be carried
\* out at the registry and not be recorded.
MoveDomain(d) ==
  /\ Overlap \/ Quiet
  /\ \/ \E to \in LaterStates(dom[d]) :
          /\ dom' = [dom EXCEPT ![d] = to]
          /\ IF to = "deleted" THEN held /\ held' = FALSE ELSE UNCHANGED held
     \/ /\ RegistryErrors
        /\ "deleted" \in LaterStates(dom[d])
        /\ held' = FALSE
        /\ UNCHANGED dom
  /\ UNCHANGED <<dr, contacts, info, restricted, page, tx, work, creating, abandoned>>

\* An admin lifts the restriction of the requester.
Unrestrict ==
  /\ restricted
  /\ Overlap \/ Quiet
  /\ restricted' = FALSE
  /\ UNCHANGED <<dr, dom, contacts, info, page, tx, work, registry>>

Next ==
  \/ \E a \in Tabs, r \in Requests :
       \/ Open(a, r) \/ Edit(a, r) \/ Done(a, r) \/ Withdrawn(a, r) \/ Delete(a, r)
       \/ \E t \in AdminOps : ChangeStatus(a, r, t)
  \/ \E a \in Tabs :
       \/ Refuse(a) \/ SaveUnchanged(a) \/ Transition(a) \/ Approve(a) \/ ApproveRefused(a)
       \/ Commit(a) \/ CommitCreate(a) \/ CommitRemove(a) \/ CommitFails(a)
  \/ \E d \in Domains :
       \/ LoadUnknown(d) \/ CreateAtRegistry(d)
       \/ CreationSaved(d) \/ CreationUnsaved(d) \/ CreationRolledBack(d)
       \/ MoveDomain(d)
  \/ Unrestrict

Spec == Init /\ [][Next]_vars

-----------------------------------------------------------------------------
(* Properties *)

\* An approved request has its domain, and the row of that domain exists.
ApprovedHasDomain ==
  \A r \in Requests : dr[r].status = "approved" =>
    dr[r].approved # NoDomain /\ dom[dr[r].approved] \notin {"none", "removed"}

\* A name that the registry has is in the table: however the clean-up of a
\* request overlaps the creation, which sends CreateDomain before its row and
\* contacts are committed, the domain has a live row or the request that
\* created it has yet to commit.  Unless one was rolled back: then nothing
\* protects the row in state unknown, if there still is one.
RegisteredHasRow ==
  held /\ ~abandoned => \E d \in Domains : Live(d) \/ creating[d] \in {"created", "failed"}

\* The DomainInformation of a request is never left without its request.
InfoHasRequest ==
  \A r \in Requests : info[r] # NoDomain => dr[r].status # "none"

\* A request is not taken back from approved while its domain is in use.
ActiveStaysApproved ==
  [][\A r \in Requests :
       dr[r].status = "approved" /\ dr'[r].status # "approved"
         => ~(dom[dr[r].approved] = "ready")]_vars

\* Nothing about a request changes while its requester is restricted.
RestrictedIsFrozen ==
  [][restricted /\ restricted' => dr' = dr]_vars

\* The DomainInformation of an approved request is that of its domain.
ApprovedHasInformation ==
  \A r \in Requests : dr[r].status = "approved" => info[r] = dr[r].approved

\* The committed rows follow the transitions of the FSM field.
Machine == INSTANCE DomainRequestStatuses WITH status <- [r \in Requests |-> dr[r].status]
StatusMachineSpec == Machine!Spec

=============================================================================
