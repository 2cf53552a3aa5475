-------------------------- MODULE DomainLifecycle --------------------------
(***************************************************************************)
(* One .gov domain as the registrar handles it: the row of the Domain      *)
(* table, the domain object at the registry, the pickled copies kept in    *)
(* browser sessions, and the HTTP requests that work on them.              *)
(*                                                                         *)
(* A request is one database transaction (ATOMIC_REQUESTS, READ            *)
(* COMMITTED): it loads the row or takes the copy of its session, works on *)
(* that object in memory, sends EPP commands whose effects no rollback     *)
(* undoes, writes the whole row back, and commits.  Every point where      *)
(* another request can act in between is a step of its own.                *)
(***************************************************************************)
EXTENDS Naturals

CONSTANTS
  Actors,        \* browser sessions, each with at most one request in flight
  Operations,    \* the requests that are made, of those in Ops
  MaxRequests,   \* bound: how many requests are begun in all
  Overlap,       \* may requests of different sessions overlap in time?
  LostAnswers,   \* may a command be executed although `send` reports an error?
  Crashes        \* may a worker die in the middle of a request?

NoActor == "nobody"

ASSUME LifecycleAssumption ==
  /\ NoActor \notin Actors
  /\ MaxRequests \in Nat
  /\ Overlap \in BOOLEAN
  /\ LostAnswers \in BOOLEAN
  /\ Crashes \in BOOLEAN

VARIABLES
  row,       \* the committed row: state, first_ready, deleted
  reg,       \* the registry's domain object
  lock,      \* the request that holds the row lock, or NoActor
  session,   \* per session: the pickled Domain object, or NoCopy
  pc,        \* per session: the next step of its request
  op,        \* per session: what its request is
  mem,       \* per session: the Domain object of its request
  pend,      \* per session: the row its transaction has written, or NoCopy
  clock,     \* the current date: counts the requests begun
  stale,     \* history, per session: its request took a copy that was not the row
  doubt,     \* history: a request deleted the object and did not commit it
  lifted     \* history: see OnHoldDoesNotResolve

vars == <<row, reg, lock, session, pc, op, mem, pend, clock, stale, doubt, lifted>>

-----------------------------------------------------------------------------
(* Values *)

States == {"unknown", "dns needed", "ready", "on hold", "deleted"}

\* A Domain object: `fr` is first_ready (0 for null), `del` whether `deleted`
\* holds a date.
Copy == [state : States, fr : Nat, del : BOOLEAN]
NoCopy == [state |-> "none"]
\* The registry's object: clientHold set, at least two name servers
\* delegated, DNSSEC data present.
Registry == [exists : BOOLEAN, hold : BOOLEAN, ns : BOOLEAN, ds : BOOLEAN]
Absent == [exists |-> FALSE, hold |-> FALSE, ns |-> FALSE, ds |-> FALSE]
Created == [Absent EXCEPT !.exists = TRUE]

Editable == {"unknown", "dns needed", "ready"}

SessionOps == {"overview", "page", "nameservers", "dsdata"}
AdminOps == {"admin save", "admin status", "admin hold", "admin unhold", "admin delete"}
Ops == SessionOps \cup AdminOps \cup {"user hold"}

SavePoints == {"admin save", "created", "fetched", "ds removed", "save"}
EppSteps == {"info", "create", "set ns", "set ds", "hold", "unhold",
             "del hosts", "del unhold", "del ds", "del hold", "del poll", "del domain"}
Steps == {"idle", "commit", "abort"} \cup SavePoints \cup EppSteps

TypeOK ==
  /\ row \in Copy
  /\ reg \in Registry
  /\ lock \in Actors \cup {NoActor}
  /\ session \in [Actors -> Copy \cup {NoCopy}]
  /\ pc \in [Actors -> Steps]
  /\ op \in [Actors -> Ops]
  /\ mem \in [Actors -> Copy]
  /\ pend \in [Actors -> Copy \cup {NoCopy}]
  /\ clock \in Nat
  /\ stale \in [Actors -> BOOLEAN]
  /\ doubt \in BOOLEAN
  /\ lifted \in BOOLEAN

NewRow == [state |-> "unknown", fr |-> 0, del |-> FALSE]

\* A Domain row as approve() creates it; no request is running.
Init ==
  /\ row = NewRow
  /\ reg = Absent
  /\ lock = NoActor
  /\ session = [a \in Actors |-> NoCopy]
  /\ pc = [a \in Actors |-> "idle"]
  /\ op = [a \in Actors |-> "overview"]
  /\ mem = [a \in Actors |-> NewRow]
  /\ pend = [a \in Actors |-> NoCopy]
  /\ clock = 0
  /\ stale = [a \in Actors |-> FALSE]
  /\ doubt = FALSE
  /\ lifted = FALSE

Goto(a, step) == pc' = [pc EXCEPT ![a] = step]
SetMem(a, m) == mem' = [mem EXCEPT ![a] = m]

-----------------------------------------------------------------------------
(* The transitions of the FSM field, on an object in memory.  A transition *)
(* whose source list does not hold the state raises TransitionNotAllowed.  *)

ReadySources == {"dns needed", "ready"}
DnsNeededSources == {"ready"}
HoldSources_Wide == {"dns needed", "ready", "on hold"}   \* a mutant
HoldSources == {"ready", "on hold"}
DeleteSources == {"on hold", "dns needed"}

\* A mutant of ready(): the stamp is never set.
ReadyOf_NoStamp(m) == [m EXCEPT !.state = "ready"]

\* ready(): first_ready is stamped once.
ReadyOf(m) == [m EXCEPT !.state = "ready", !.fr = IF @ = 0 THEN clock ELSE @]
DnsNeededOf(m) == [m EXCEPT !.state = "dns needed"]
OnHoldOf(m) == [m EXCEPT !.state = "on hold"]
UnholdOf_Status(m) == [m EXCEPT !.state = "ok"]   \* a mutant: the registry's status
UnholdOf(m) == [m EXCEPT !.state = "ready"]
DeletedOf_NoDate(m) == [m EXCEPT !.state = "deleted"]   \* a mutant
DeletedOf(m) == [m EXCEPT !.state = "deleted", !.del = TRUE]

\* _fix_unknown_state on an object that the registry knows: contacts are
\* completed, and a domain that already has its name servers becomes ready,
\* unless they cannot be read at that moment.
FixUnknown(m) ==
  IF m.state # "unknown" THEN {m}
  ELSE {DnsNeededOf(m)} \cup (IF reg.ns THEN {ReadyOf(DnsNeededOf(m))} ELSE {})

-----------------------------------------------------------------------------
(* Requests begin and end *)

Allowed_Always(o) == o \in Ops   \* a mutant

\* The state check of has_permission, against the database.
Allowed(o) == o \in {"page", "nameservers", "dsdata", "user hold"} => row.state \in Editable

\* _get_domain: the overview and the admin read the row, other pages take
\* the session's copy when there is one.
Loaded(a, o) ==
  IF o \in {"page", "nameservers", "dsdata"} /\ session[a] # NoCopy THEN session[a] ELSE row

FirstStep(o) ==
  CASE o \in SessionOps -> "info"
    [] o \in AdminOps -> "admin save"
    [] o = "user hold" -> "hold"

Begin(a, o) ==
  /\ pc[a] = "idle"
  /\ Overlap \/ \A b \in Actors : pc[b] = "idle"
  /\ clock < MaxRequests
  /\ Allowed(o)
  /\ o = "user hold" => row.state = "ready"
  /\ clock' = clock + 1
  /\ op' = [op EXCEPT ![a] = o]
  /\ SetMem(a, Loaded(a, o))
  /\ stale' = [stale EXCEPT ![a] = Loaded(a, o) # row]
  /\ Goto(a, FirstStep(o))
  /\ UNCHANGED <<row, reg, lock, session, pend, doubt, lifted>>

\* A mutant of the end of a transaction: the lock is kept.
Release_Keeps(a) ==
  /\ lock' = lock
  /\ pend' = [pend EXCEPT ![a] = NoCopy]
  /\ stale' = [stale EXCEPT ![a] = FALSE]
  /\ Goto(a, "idle")

Release(a) ==
  /\ lock' = IF lock = a THEN NoActor ELSE lock
  /\ pend' = [pend EXCEPT ![a] = NoCopy]
  /\ stale' = [stale EXCEPT ![a] = FALSE]
  /\ Goto(a, "idle")

\* The view returns and its transaction commits; the session is saved after
\* that, unless the worker dies first.
Commit(a) ==
  /\ pc[a] = "commit"
  /\ row' = IF pend[a] # NoCopy THEN pend[a] ELSE row
  /\ \/ session' = IF op[a] \in SessionOps THEN [session EXCEPT ![a] = mem[a]] ELSE session
     \/ Crashes /\ session' = session
  /\ doubt' = (doubt /\ row'.state # "deleted")
  /\ lifted' = (row'.state = "on hold" /\ (lifted \/ (stale[a] /\ pend[a] # NoCopy)))
  /\ Release(a)
  /\ UNCHANGED <<reg, op, mem, clock>>

\* The transaction rolls back; the registry keeps what it was told.
Rollback(a) ==
  /\ doubt' = (doubt \/ (mem[a].state = "deleted" /\ row.state # "deleted"))
  /\ Release(a)
  /\ UNCHANGED <<row, reg, session, op, mem, clock, lifted>>

\* An exception that no view catches.
Abort(a) == pc[a] = "abort" /\ Rollback(a)

\* The worker dies in the middle of the request.
Crash(a) == Crashes /\ pc[a] # "idle" /\ Rollback(a)

-----------------------------------------------------------------------------
(* Saving the row *)

\* A mutant: the DNSSEC data is removed before the name servers.
AdminStep_DsFirst(a) ==
  CASE op[a] = "admin save" -> "commit"
    [] op[a] = "admin status" -> "info"
    [] op[a] = "admin hold" -> IF mem[a].state \in HoldSources THEN "hold" ELSE "abort"
    [] op[a] = "admin unhold" -> IF mem[a].state \in HoldSources THEN "unhold" ELSE "abort"
    [] op[a] = "admin delete" ->
         IF mem[a].state \notin DeleteSources THEN "commit"
         ELSE IF reg.ds THEN "del unhold" ELSE "del hosts"

\* Where an admin's button press continues after the form's own save: the
\* transition is attempted on the object just saved.
AdminStep(a) ==
  CASE op[a] = "admin save" -> "commit"
    [] op[a] = "admin status" -> "info"
    [] op[a] = "admin hold" -> IF mem[a].state \in HoldSources THEN "hold" ELSE "abort"
    [] op[a] = "admin unhold" -> IF mem[a].state \in HoldSources THEN "unhold" ELSE "abort"
    [] op[a] = "admin delete" -> IF mem[a].state \in DeleteSources THEN "del hosts" ELSE "commit"

\* What follows the fetch of request `o` that left the object `m`.  The
\* setter of nameservers raises ActionNotAllowed, which no view catches.
AfterFetch(o, m) ==
  CASE o = "nameservers" -> IF m.state \in Editable THEN "set ns" ELSE "abort"
    [] o = "dsdata" -> "set ds"
    [] OTHER -> "commit"

\* save(): every column is written; the first write of a transaction takes
\* the row lock and waits for another transaction that holds it.
Save(a) ==
  /\ pc[a] \in SavePoints
  /\ lock \in {NoActor, a}
  /\ lock' = a
  /\ pend' = [pend EXCEPT ![a] = mem[a]]
  /\ Goto(a, CASE pc[a] = "admin save" -> AdminStep(a)
               [] pc[a] \in {"created", "fetched"} -> AfterFetch(op[a], mem[a])
               [] pc[a] = "ds removed" -> "del hold"
               [] pc[a] = "save" -> "commit")
  /\ UNCHANGED <<row, reg, session, op, mem, clock, stale, doubt, lifted>>

-----------------------------------------------------------------------------
(* _fetch_cache: InfoDomain, and the lazy creation of the domain *)

\* The registry knows the domain.  A page that reads contacts always saves
\* the row; the others save it when a domain became ready, or when the dates
\* of the registry differ.
InfoFound(a) ==
  /\ pc[a] = "info"
  /\ reg.exists
  /\ \E fixed \in FixUnknown(mem[a]) :
       /\ SetMem(a, fixed)
       /\ \/ Goto(a, "fetched")
          \/ /\ op[a] \notin {"overview", "page"}
             /\ fixed.state = "ready" => mem[a].state = "ready"
             /\ Goto(a, AfterFetch(op[a], fixed))
  /\ UNCHANGED <<row, reg, lock, session, op, pend, clock, stale, doubt, lifted>>

\* The missing contacts of a domain in state unknown cannot be created: the
\* state stays, and what the page then lacks may end in an exception.
FixFailed(a) ==
  /\ pc[a] = "info"
  /\ reg.exists
  /\ mem[a].state = "unknown"
  /\ \E next \in {"fetched", "abort", AfterFetch(op[a], mem[a])} : Goto(a, next)
  /\ UNCHANGED <<row, reg, lock, session, op, mem, pend, clock, stale, doubt, lifted>>

InfoMissing(a) ==
  /\ pc[a] = "info"
  /\ ~reg.exists
  /\ mem[a].state = "unknown"
  /\ Goto(a, "create")
  /\ UNCHANGED <<row, reg, lock, session, op, mem, pend, clock, stale, doubt, lifted>>

\* Any other answer, or none: the error is swallowed, nothing is cached.
InfoFailed(a) ==
  /\ pc[a] = "info"
  /\ Goto(a, AfterFetch(op[a], mem[a]))
  /\ UNCHANGED <<row, reg, lock, session, op, mem, pend, clock, stale, doubt, lifted>>

\* dns_needed_from_unknown: a domain that already exists is not an error.
CreateDone(a) ==
  /\ pc[a] = "create"
  /\ reg' = IF reg.exists THEN reg ELSE Created
  /\ SetMem(a, DnsNeededOf(mem[a]))
  /\ Goto(a, "created")
  /\ UNCHANGED <<row, lock, session, op, pend, clock, stale, doubt, lifted>>

\* A mutant: every error of CreateDomain is tolerated, not only an object
\* that exists.
CreateFailed_Tolerated(a) ==
  /\ pc[a] = "create"
  /\ SetMem(a, DnsNeededOf(mem[a]))
  /\ Goto(a, "created")
  /\ UNCHANGED <<row, reg, lock, session, op, pend, clock, stale, doubt, lifted>>

\* The registrant, the domain or one of the default contacts could not be
\* created: the domain may exist by now, the state stays unknown.
CreateFailed(a) ==
  /\ pc[a] = "create"
  /\ reg' \in {reg, IF reg.exists THEN reg ELSE Created}
  /\ Goto(a, AfterFetch(op[a], mem[a]))
  /\ UNCHANGED <<row, lock, session, op, mem, pend, clock, stale, doubt, lifted>>

-----------------------------------------------------------------------------
(* One EPP command that changes the domain object to `new`: it is executed *)
(* and answered, or it is not executed, or it is executed and `send`       *)
(* reports an error all the same.                                          *)

EppDone(new) == reg.exists /\ reg' = new
EppError(new) == reg' = reg \/ (LostAnswers /\ reg.exists /\ reg' = new)

\* The setter of nameservers: the hosts are sent, then the state follows the
\* number of name servers.  A refused transition is logged and not saved.
SetNameservers(a, enough) ==
  LET new == [reg EXCEPT !.ns = enough]
      moved == IF enough THEN mem[a].state \in ReadySources
                         ELSE mem[a].state \in DnsNeededSources
  IN /\ pc[a] = "set ns"
     /\ \/ /\ EppDone(new)
           /\ moved
           /\ SetMem(a, IF enough THEN ReadyOf(mem[a]) ELSE DnsNeededOf(mem[a]))
           /\ Goto(a, "save")
        \/ /\ EppDone(new)
           /\ ~moved
           /\ Goto(a, "commit")
           /\ UNCHANGED mem
        \/ /\ EppError(new)
           /\ Goto(a, "commit")
           /\ UNCHANGED mem
     /\ UNCHANGED <<row, lock, session, op, pend, clock, stale, doubt, lifted>>

\* The setter of dnssecdata from its two pages: one command removes records,
\* a second one adds the new ones and may fail alone.  The page that disables
\* DNSSEC fails on the message of a registry error.
SetDsData(a, present) ==
  LET new == [reg EXCEPT !.ds = present]
      removed == [reg EXCEPT !.ds = FALSE]
  IN /\ pc[a] = "set ds"
     /\ \/ EppDone(new) /\ Goto(a, "save")
        \/ EppError(new) /\ Goto(a, "commit")
        \/ EppError(new) /\ ~present /\ Goto(a, "abort")
        \/ EppDone(removed) /\ present /\ Goto(a, "commit")
     /\ UNCHANGED <<row, lock, session, op, mem, pend, clock, stale, doubt, lifted>>

\* place_client_hold and the save of its caller; the one in its body, of the
\* state alone, is not seen before that.  DomainDeleteView does not catch the
\* registry's error, the admin does.
PlaceClientHold(a) ==
  LET new == [reg EXCEPT !.hold = TRUE]
  IN /\ pc[a] = "hold"
     /\ \/ /\ EppDone(new)
           /\ SetMem(a, OnHoldOf(mem[a]))
           /\ Goto(a, "save")
        \/ /\ EppError(new)
           /\ Goto(a, IF op[a] = "user hold" THEN "abort" ELSE "commit")
           /\ UNCHANGED mem
     /\ lifted' = (lifted /\ ~reg'.hold)
     /\ UNCHANGED <<row, lock, session, op, pend, clock, stale, doubt>>

RevertClientHold(a) ==
  LET new == [reg EXCEPT !.hold = FALSE]
  IN /\ pc[a] = "unhold"
     /\ \/ /\ EppDone(new)
           /\ SetMem(a, UnholdOf(mem[a]))
           /\ Goto(a, "save")
        \/ /\ EppError(new)
           /\ Goto(a, "commit")
           /\ UNCHANGED mem
     /\ lifted' = (lifted \/ reg' # reg)
     /\ UNCHANGED <<row, lock, session, op, pend, clock, stale, doubt>>

-----------------------------------------------------------------------------
(* deletedInEpp: the admin catches every error and the request commits.    *)

\* The name servers are taken off the domain; a domain whose hosts serve
\* other domains is refused before anything is sent.  Without name servers
\* nothing is sent at all.  Whether there is DNSSEC data to remove is read
\* from the registry, and a failed read counts as none.
DeleteHosts(a) ==
  LET new == [reg EXCEPT !.ns = FALSE]
  IN /\ pc[a] = "del hosts"
     /\ \/ /\ EppDone(new) \/ (~reg.ns /\ reg' = reg)
           /\ \/ reg.exists /\ reg.ds /\ Goto(a, "del unhold")
              \/ Goto(a, "del poll")
        \/ EppError(new) /\ Goto(a, "commit")
     /\ UNCHANGED <<row, lock, session, op, mem, pend, clock, stale, doubt, lifted>>

\* The hold is lifted so that the DNSSEC data can be changed; the registry
\* may refuse to lift a hold that is not there.
DeleteUnhold(a) ==
  LET new == [reg EXCEPT !.hold = FALSE]
  IN /\ pc[a] = "del unhold"
     /\ \/ EppDone(new) /\ Goto(a, "del ds")
        \/ EppError(new) /\ Goto(a, "commit")
     /\ UNCHANGED <<row, lock, session, op, mem, pend, clock, stale, doubt, lifted>>

DeleteDsData(a) ==
  LET new == [reg EXCEPT !.ds = FALSE]
  IN /\ pc[a] = "del ds"
     /\ \/ EppDone(new) /\ Goto(a, "ds removed")
        \/ EppError(new) /\ Goto(a, "commit")
     /\ UNCHANGED <<row, lock, session, op, mem, pend, clock, stale, doubt, lifted>>

DeleteRehold(a) ==
  LET new == [reg EXCEPT !.hold = TRUE]
  IN /\ pc[a] = "del hold"
     /\ \/ EppDone(new) /\ Goto(a, "del poll")
        \/ EppError(new) /\ Goto(a, "commit")
     /\ lifted' = (lifted /\ ~reg'.hold)
     /\ UNCHANGED <<row, lock, session, op, mem, pend, clock, stale, doubt>>

\* _domain_can_be_deleted: up to five InfoDomain commands.  A domain that is
\* gone ends the deletion with the registry's error.
DeletePoll(a) ==
  /\ pc[a] = "del poll"
  /\ \/ reg.exists /\ ~reg.ns /\ Goto(a, "del domain")
     \/ Goto(a, "commit")
  /\ UNCHANGED <<row, reg, lock, session, op, mem, pend, clock, stale, doubt, lifted>>

\* A mutant: an error of DeleteDomain is logged and not raised.
DeleteDomain_Swallows(a) ==
  /\ pc[a] = "del domain"
  /\ SetMem(a, DeletedOf(mem[a]))
  /\ Goto(a, "save")
  /\ EppDone(Absent) \/ reg' = reg
  /\ UNCHANGED <<row, lock, session, op, pend, clock, stale, doubt, lifted>>

DeleteDomain(a) ==
  /\ pc[a] = "del domain"
  /\ \/ /\ EppDone(Absent)
        /\ ~reg.ns
        /\ SetMem(a, DeletedOf(mem[a]))
        /\ Goto(a, "save")
        /\ UNCHANGED doubt
     \/ /\ EppError(Absent)
        /\ doubt' = (doubt \/ reg' # reg)
        /\ Goto(a, "commit")
        /\ UNCHANGED mem
  /\ UNCHANGED <<row, lock, session, op, pend, clock, stale, lifted>>

-----------------------------------------------------------------------------
EppStep(a) ==
  \/ InfoFound(a) \/ FixFailed(a) \/ InfoMissing(a) \/ InfoFailed(a)
  \/ CreateDone(a) \/ CreateFailed(a)
  \/ \E enough \in BOOLEAN : SetNameservers(a, enough)
  \/ \E present \in BOOLEAN : SetDsData(a, present)
  \/ PlaceClientHold(a) \/ RevertClientHold(a)
  \/ DeleteHosts(a) \/ DeleteUnhold(a) \/ DeleteDsData(a) \/ DeleteRehold(a)
  \/ DeletePoll(a) \/ DeleteDomain(a)

Next ==
  \E a \in Actors :
    \/ \E o \in Operations \cap Ops : Begin(a, o)
    \/ EppStep(a)
    \/ Save(a)
    \/ Commit(a)
    \/ Abort(a)
    \/ Crash(a)

Spec == Init /\ [][Next]_vars

\* A request the server has begun is carried on: a worker keeps executing
\* it, and the database serves the waiters of a row lock in turn.
Fairness ==
  \A a \in Actors :
    /\ WF_vars(EppStep(a))
    /\ SF_vars(Save(a))
    /\ WF_vars(Commit(a))
    /\ WF_vars(Abort(a))

FairSpec == Spec /\ Fairness

-----------------------------------------------------------------------------
(* Properties *)

Copies == {row} \cup {mem[a] : a \in Actors}
                \cup ({session[a] : a \in Actors} \ {NoCopy})
                \cup ({pend[a] : a \in Actors} \ {NoCopy})

\* Every version of the object that can reach the table - the row, the
\* unsaved objects, the pickled ones - says since when a domain that is ready
\* or on hold has been ready: whatever stale copy is saved last, the stamp of
\* ready() is not missing from a live domain.
ReadyHasFirstReady ==
  \A c \in Copies : c.state \in {"ready", "on hold"} => c.fr # 0

\* A date in `deleted` and the state "deleted" come and go together in every
\* version of the object, the copies that sessions keep from before a deletion
\* and the rows that a transaction has written and may lose included.
DeletedDateMatches ==
  \A c \in Copies : c.del <=> c.state = "deleted"

\* A transaction with an unsaved write holds the row lock, and nobody else
\* does: two requests never have uncommitted versions of the row at once.
OneWriter ==
  \A a \in Actors : pend[a] # NoCopy <=> lock = a

\* A deleted row never comes back to life: no request writes another state
\* over it.
DeletedIsFinal == [][row.state = "deleted" => row'.state = "deleted"]_vars

\* A row that says "deleted" describes a registry that does not have the
\* domain, whatever lost answers and rolled back requests went before.
DeletedIsGone == row.state = "deleted" => ~reg.exists

\* When no request is running, the registry has every domain whose row is in
\* a state that says so, unless a deletion was carried out and not recorded.
RegistryBacksRow ==
  (\A a \in Actors : pc[a] = "idle") =>
    (row.state \in {"dns needed", "ready", "on hold"} => reg.exists \/ doubt)

\* The committed row follows the states and transitions of the FSM field, and
\* first_ready stays as it was stamped, whatever failed, crashed or was only
\* half done before: but for the writes of requests that work on a copy of
\* their session and not on the row as it is.
Machine == INSTANCE DomainStateMachine
  WITH state <- row.state, firstReady <- row.fr,
       outdated <- \E a \in Actors : stale[a] /\ pc[a] = "commit"
StateMachineSpec == Machine!Spec

\* The date of first_ready never changes once the row has one.
FirstReadyStable == [][row.fr # 0 => row'.fr = row.fr]_vars

\* A domain on hold does not resolve: the registry holds it, or delegates no
\* name servers, or does not have it, at every point of failed, abandoned and
\* resumed deletions.  There are two exceptions, which `lifted` records: the
\* button that lifts the hold has lifted it, and the row does not say so yet
\* (or never, when the answer was lost or the worker died); and an old copy
\* of a session has put the row on hold.
OnHoldDoesNotResolve == row.state = "on hold" => ~reg.ns \/ reg.hold \/ lifted

\* Every request the server begins ends.
RequestsEnd == \A a \in Actors : pc[a] # "idle" ~> pc[a] = "idle"

=============================================================================
