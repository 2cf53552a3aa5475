-------------------- MODULE DomainLifecycleSerialProofs --------------------
(***************************************************************************)
(* What holds of a domain and its registry object as long as requests do   *)
(* not overlap, for any number of sessions and requests: copies kept in    *)
(* sessions, lost answers, failed deletions and crashes are still in play. *)
(***************************************************************************)
EXTENDS DomainLifecycleProofs

-----------------------------------------------------------------------------
(* The inductive invariants *)

\* One request at a time, and whoever is not at work has written nothing.
Serial ==
  /\ \A a, b \in Actors : pc[a] # "idle" /\ pc[b] # "idle" => a = b
  /\ \A a \in Actors : pc[a] = "idle" => pend[a] = NoCopy

DeleteSteps == {"del hosts", "del unhold", "del ds", "ds removed", "del hold",
                "del poll", "del domain"}

\* What a request under way has to do with a deletion: a deleted row stays
\* what it is; an object becomes deleted only after the registry's has, in
\* the request that checked the committed row; then it is saved and
\* committed without another step in between.
Deletion(a) ==
  /\ row.state = "deleted" =>
       mem[a].state = "deleted" /\ (pend[a] # NoCopy => pend[a].state = "deleted")
  /\ mem[a].state = "deleted" => ~reg.exists
  /\ mem[a].state = "deleted" /\ row.state # "deleted" =>
       /\ op[a] = "admin delete" /\ row.state \in DeleteSources
       /\ pc[a] = "save" \/ (pc[a] = "commit" /\ pend[a] = mem[a])
  /\ pend[a] # NoCopy /\ pend[a].state = "deleted" => mem[a].state = "deleted"
  /\ pc[a] \in DeleteSteps =>
       op[a] = "admin delete" /\ mem[a].state = row.state /\ row.state \in DeleteSources
  /\ pc[a] = "admin save" => mem[a].state = row.state

DeletionInv ==
  /\ DeletedIsGone
  /\ \A a \in Actors : session[a] # NoCopy /\ session[a].state = "deleted" => row.state = "deleted"
  /\ \A a \in Actors : pc[a] # "idle" => Deletion(a)

\* The registry has the domain, or its deletion is known or being recorded.
Known ==
  \/ reg.exists \/ doubt \/ row.state = "deleted"
  \/ \E a \in Actors : pc[a] # "idle" /\ mem[a].state = "deleted"

\* No version of the row says that the domain was created, unless it was.
BackedInv ==
  Known \/ /\ row.state = "unknown"
           /\ \A a \in Actors :
                /\ session[a] # NoCopy => session[a].state = "unknown"
                /\ pc[a] # "idle" => mem[a].state = "unknown"
                /\ pc[a] # "idle" /\ pend[a] # NoCopy => pend[a].state = "unknown"

-----------------------------------------------------------------------------
(* Requests that work on the row as it is *)

\* What a request may make of a row, as the machine's transitions and those
\* composed of them in one transaction.
Lawful(c, r) ==
  /\ r.fr # 0 => c.fr = r.fr
  /\ c.state = r.state => c.fr = r.fr
  /\ \/ c.state = r.state
     \/ r.state = "unknown" /\ c.state \in {"dns needed", "ready"}
     \/ r.state = "dns needed" /\ c.state = "ready"
     \/ c.fr = r.fr /\ r.state = "ready" /\ c.state \in {"dns needed", "on hold"}
     \/ c.fr = r.fr /\ r.state = "on hold" /\ c.state = "ready"
     \/ c.fr = r.fr /\ r.state \in DeleteSources /\ c.state = "deleted"

\* Whatever a request holds, it may save; until it has fetched the domain or
\* sent a button's command, that is the row; and what the fetch makes of a
\* row is a repair of a domain in state unknown.
Fresh(a) ==
  /\ Lawful(mem[a], row)
  /\ pend[a] # NoCopy => Lawful(pend[a], row)
  /\ pc[a] \in {"admin save", "info", "create", "hold", "unhold"} \cup DeleteSteps => mem[a] = row
  /\ pc[a] \in {"created", "fetched", "set ns"} => row.state \in {"unknown", mem[a].state}

\* Old copies are those that pages take, of a domain that can be edited.
Pages == {"page", "nameservers", "dsdata"}
OldCopy(a) == op[a] \in Pages /\ row.state \in Editable

MachineInv == \A a \in Actors : pc[a] # "idle" => IF stale[a] THEN OldCopy(a) ELSE Fresh(a)

-----------------------------------------------------------------------------
(* The hold *)

\* The registry's object does not resolve, or the hold is lifted knowingly.
Quieted == ~reg.ns \/ reg.hold \/ lifted

\* A request leaves the object as quiet as it finds it when the row, or what
\* it may save, is on hold; name servers are set for domains that are not.
HoldKept(a) ==
  /\ op[a] \in Pages => row.state # "on hold"
  /\ pc[a] \in {"admin save", "hold", "unhold"} \cup DeleteSteps => op[a] \notin Pages
  /\ ~stale[a] /\ mem[a].state = "on hold" => Quieted
  /\ ~stale[a] /\ pend[a] # NoCopy /\ pend[a].state = "on hold" => Quieted
  /\ pc[a] \in {"info", "create"} /\ op[a] \in Pages => pend[a] = NoCopy
  /\ pc[a] = "set ns" =>
       /\ op[a] = "nameservers" /\ mem[a].state \in Editable
       /\ pend[a] # NoCopy => pend[a].state \in Editable
  /\ pc[a] \in DeleteSteps \ {"del hosts"} => ~reg.ns

HoldInv ==
  /\ row.state = "on hold" => Quieted
  /\ \A a \in Actors : pc[a] # "idle" => HoldKept(a)

-----------------------------------------------------------------------------
(* The operators of the model *)

LEMMA TransitionFields ==
  ASSUME NEW m \in Copy, clock \in Nat
  PROVE  /\ ReadyOf(m).state = "ready" /\ ReadyOf(m).fr = (IF m.fr = 0 THEN clock ELSE m.fr)
         /\ DnsNeededOf(m).state = "dns needed" /\ DnsNeededOf(m).fr = m.fr
         /\ OnHoldOf(m).state = "on hold" /\ OnHoldOf(m).fr = m.fr
         /\ UnholdOf(m).state = "ready" /\ UnholdOf(m).fr = m.fr
         /\ DeletedOf(m).state = "deleted" /\ DeletedOf(m).fr = m.fr
  BY DEF ReadyOf, DnsNeededOf, OnHoldOf, UnholdOf, DeletedOf, Copy

LEMMA FixedFields ==
  ASSUME NEW m \in Copy, clock \in Nat, NEW fixed \in FixUnknown(m)
  PROVE  \/ fixed = m
         \/ /\ m.state = "unknown"
            /\ \/ fixed = DnsNeededOf(m)
               \/ /\ fixed.state = "ready"
                  /\ fixed.fr = IF m.fr = 0 THEN clock ELSE m.fr
<1>1. CASE m.state # "unknown"
  BY <1>1 DEF FixUnknown
<1>2. CASE m.state = "unknown"
  <2>1. fixed = DnsNeededOf(m) \/ fixed = ReadyOf(DnsNeededOf(m))
    BY <1>2 DEF FixUnknown
  <2>2. DnsNeededOf(m) \in Copy /\ DnsNeededOf(m).fr = m.fr
    BY CopyFacts, TransitionFields
  <2> QED BY <1>2, <2>1, <2>2, TransitionFields
<1> QED BY <1>1, <1>2

LEMMA RegistryFields ==
  ASSUME reg \in Registry
  PROVE  /\ ~Absent.exists /\ ~Absent.ns /\ Created.exists /\ ~Created.ns
         /\ \A b \in BOOLEAN :
              /\ [reg EXCEPT !.ns = b].exists = reg.exists
              /\ [reg EXCEPT !.ns = b].ns = b
              /\ [reg EXCEPT !.ns = b].hold = reg.hold
              /\ [reg EXCEPT !.ds = b].exists = reg.exists
              /\ [reg EXCEPT !.ds = b].ns = reg.ns
              /\ [reg EXCEPT !.ds = b].hold = reg.hold
              /\ [reg EXCEPT !.hold = b].exists = reg.exists
              /\ [reg EXCEPT !.hold = b].ns = reg.ns
              /\ [reg EXCEPT !.hold = b].hold = b
  BY DEF Registry, Absent, Created

\* A step towards the registry is about its own request, and leaves the
\* database alone.
LEMMA EppFrame ==
  ASSUME IInv, NEW a \in Actors, EppStep(a)
  PROVE  /\ UNCHANGED <<row, lock, session, op, pend, clock, stale>>
         /\ pc[a] # "idle" /\ pc'[a] # "idle" /\ mem'[a] \in Copy /\ reg' \in Registry
         /\ \A b \in Actors \ {a} : pc'[b] = pc[b] /\ mem'[b] = mem[b]
<1>1. PICK next, m : Moves(a, next, m)
  BY EppStepMoves
<1>2. /\ pc' = [pc EXCEPT ![a] = next] /\ mem' = [mem EXCEPT ![a] = m] /\ next # "idle"
      /\ m \in Copy
  BY <1>1 DEF Moves, Goto, SetMem
<1>3. pc'[a] = next /\ mem'[a] = m
  BY <1>2 DEF IInv, TypeOK
<1> QED BY <1>1, <1>2, <1>3 DEF Moves, IInv, TypeOK

\* Only the fetch and the creation end in what follows them.
LEMMA AfterFetchCases ==
  ASSUME NEW o, NEW m
  PROVE  /\ AfterFetch(o, m) \in {"set ns", "abort", "set ds", "commit"}
         /\ AfterFetch(o, m) = "set ns" => o = "nameservers" /\ m.state \in Editable
         /\ AfterFetch(o, m) = "set ds" => o = "dsdata"
         /\ AfterFetch(o, m) = "abort" => o = "nameservers" /\ m.state \notin Editable
  BY DEF AfterFetch

LEMMA AdminStepCases ==
  ASSUME NEW a \in Actors, op[a] \in AdminOps
  PROVE  /\ AdminStep(a) \in {"commit", "info", "hold", "unhold", "abort", "del hosts"}
         /\ AdminStep(a) = "info" => op[a] = "admin status"
         /\ AdminStep(a) \in {"hold", "unhold"} => mem[a].state \in HoldSources
         /\ AdminStep(a) = "abort" => mem[a].state \notin HoldSources
         /\ AdminStep(a) = "del hosts" => op[a] = "admin delete" /\ mem[a].state \in DeleteSources
  BY DEF AdminStep, AdminOps

\* Where a save continues.
LEMMA SaveFacts ==
  ASSUME IInv, NEW a \in Actors, Save(a)
  PROVE  /\ pend' = [pend EXCEPT ![a] = mem[a]]
         /\ UNCHANGED <<row, reg, session, op, mem, clock, stale, doubt, lifted>>
         /\ pc[a] \in SavePoints /\ pc'[a] # "idle"
         /\ \A b \in Actors \ {a} : pc'[b] = pc[b]
         /\ pc[a] = "admin save" => op[a] \in AdminOps /\ pc'[a] = AdminStep(a)
         /\ pc[a] \in {"created", "fetched"} => pc'[a] = AfterFetch(op[a], mem[a])
         /\ pc[a] = "ds removed" => pc'[a] = "del hold"
         /\ pc[a] = "save" => pc'[a] = "commit"
<1>1. pc[a] = "admin save" => op[a] \in AdminOps
  BY DEF IInv, StepsChecked
<1>2. /\ pend' = [pend EXCEPT ![a] = mem[a]]
      /\ UNCHANGED <<row, reg, session, op, mem, clock, stale, doubt, lifted>>
      /\ pc[a] \in SavePoints
      /\ \A b \in Actors \ {a} : pc'[b] = pc[b]
      /\ pc[a] = "admin save" => pc'[a] = AdminStep(a)
      /\ pc[a] \in {"created", "fetched"} => pc'[a] = AfterFetch(op[a], mem[a])
      /\ pc[a] = "ds removed" => pc'[a] = "del hold"
      /\ pc[a] = "save" => pc'[a] = "commit"
  BY DEF Save, Goto, IInv, TypeOK
<1>3. pc'[a] # "idle"
  <2>1. CASE pc[a] = "admin save"
    BY <1>1, <1>2, <2>1, AdminStepCases
  <2>2. CASE pc[a] \in {"created", "fetched"}
    <3>1. pc'[a] = AfterFetch(op[a], mem[a])
      BY <1>2, <2>2
    <3>2. pc'[a] \in {"set ns", "abort", "set ds", "commit"}
      BY <3>1, AfterFetchFacts
    <3> QED BY <3>2
  <2>3. CASE pc[a] \in {"ds removed", "save"}
    BY <1>2, <2>3
  <2> QED BY <1>2, <2>1, <2>2, <2>3 DEF SavePoints
<1> QED BY <1>1, <1>2, <1>3

\* The table changes when a request commits.
LEMMA RowWriters ==
  ASSUME [Next]_vars, row' # row
  PROVE  \E a \in Actors : Commit(a)
  BY DEF Next, vars, Begin, EppStep, InfoFound, FixFailed, InfoMissing, InfoFailed, CreateDone,
         CreateFailed, SetNameservers, SetDsData, PlaceClientHold, RevertClientHold, DeleteHosts,
         DeleteUnhold, DeleteDsData, DeleteRehold, DeletePoll, DeleteDomain, Save, Abort, Crash,
         Rollback

\* Nobody else is under way.
LEMMA Alone ==
  ASSUME Serial, NEW a \in Actors, pc[a] # "idle"
  PROVE  \A b \in Actors \ {a} : pc[b] = "idle"
  BY DEF Serial

-----------------------------------------------------------------------------
(* One request at a time *)

LEMMA SerialNext ==
  ASSUME IInv, Serial, ~Overlap, [Next]_vars
  PROVE  Serial'
<1>1. ASSUME NEW a \in Actors, EppStep(a) PROVE Serial'
  BY <1>1, EppFrame DEF Serial
<1>2. ASSUME NEW a \in Actors, Save(a) PROVE Serial'
  <2>1. pc[a] # "idle"
    BY <1>2, SaveFacts DEF SavePoints
  <2>2. \A b \in Actors \ {a} : pc'[b] = "idle" /\ pend'[b] = pend[b] /\ pend[b] = NoCopy
    BY <1>2, <2>1, SaveFacts, Alone DEF Serial, IInv, TypeOK
  <2>3. pc'[a] # "idle"
    BY <1>2, SaveFacts
  <2> QED BY <2>2, <2>3 DEF Serial
<1>3. ASSUME NEW a \in Actors, Release(a) PROVE Serial'
  BY <1>3 DEF Release, Goto, Serial, IInv, TypeOK
<1>4. ASSUME NEW a \in Actors, NEW o \in Ops, Begin(a, o) PROVE Serial'
  <2>1. /\ \A b \in Actors : pc[b] = "idle"
        /\ pc' = [pc EXCEPT ![a] = FirstStep(o)] /\ pend' = pend
    BY <1>4 DEF Begin, Goto
  <2>2. \A b \in Actors \ {a} : pc'[b] = "idle"
    BY <2>1 DEF IInv, TypeOK
  <2> QED BY <2>1, <2>2 DEF Serial
<1> QED BY <1>1, <1>2, <1>3, <1>4
        DEF Next, Commit, Abort, Crash, Rollback, Serial, vars

-----------------------------------------------------------------------------
(* Deletions *)

LEMMA DeletionEpp ==
  ASSUME IInv, Serial, DeletionInv, NEW a \in Actors, EppStep(a)
  PROVE  DeletionInv'
<1>1. /\ UNCHANGED <<row, lock, session, op, pend, clock, stale>>
      /\ pc[a] # "idle" /\ pc'[a] # "idle"
      /\ \A b \in Actors \ {a} : pc'[b] = pc[b] /\ mem'[b] = mem[b]
  BY EppFrame
<1>2. \A b \in Actors \ {a} : pc[b] = "idle" /\ pc'[b] = "idle"
  BY <1>1, Alone
<1>3. /\ Deletion(a) /\ (row.state = "deleted" => ~reg.exists)
      /\ mem[a] \in Copy /\ mem \in [Actors -> Copy] /\ pc \in [Actors -> Steps]
      /\ reg \in Registry /\ clock \in Nat
      /\ pc[a] \in {"hold", "unhold"} => mem[a].state \in HoldSources
      /\ pc[a] = "create" => mem[a].state = "unknown"
  BY <1>1 DEF IInv, TypeOK, StepsChecked, DeletionInv, DeletedIsGone
<1>4. SUFFICES Deletion(a)' /\ (row.state = "deleted" => ~reg'.exists)
  BY <1>1, <1>2 DEF DeletionInv, DeletedIsGone
<1> USE DEF Deletion, Goto, SetMem, DeleteSteps
\* Steps that leave object and registry alone and do not belong to a deletion.
<1>5. ASSUME UNCHANGED <<mem, reg>>, pc'[a] \notin DeleteSteps \cup {"admin save"},
             pc[a] \notin {"save", "commit"}
      PROVE  Deletion(a)' /\ (row.state = "deleted" => ~reg'.exists)
  BY <1>1, <1>3, <1>5
<1>6. CASE InfoFound(a)
  <2>1. PICK fixed \in FixUnknown(mem[a]) :
          /\ mem' = [mem EXCEPT ![a] = fixed] /\ reg' = reg /\ reg.exists
          /\ pc'[a] = "fetched" \/ pc'[a] = AfterFetch(op[a], fixed)
    BY <1>3, <1>6 DEF InfoFound
  <2>2. pc'[a] \in {"fetched", "set ns", "abort", "set ds", "commit"}
    BY <2>1, AfterFetchFacts
  <2>3. fixed.state # "deleted" \/ fixed = mem[a]
    BY <1>3, FixedFields, TransitionFields
  <2> QED BY <1>1, <1>3, <2>1, <2>2, <2>3
<1>7. CASE FixFailed(a) \/ InfoMissing(a) \/ InfoFailed(a)
  <2>1. pc'[a] \in {"fetched", "abort", "create"} \/ pc'[a] = AfterFetch(op[a], mem[a])
    BY <1>3, <1>7 DEF FixFailed, InfoMissing, InfoFailed
  <2>2. pc'[a] \in {"fetched", "create", "set ns", "abort", "set ds", "commit"}
    BY <2>1, AfterFetchFacts
  <2> QED BY <1>5, <1>7, <2>2 DEF FixFailed, InfoMissing, InfoFailed
<1>8. CASE CreateDone(a)
  <2>1. mem'[a].state = "dns needed" /\ pc'[a] = "created"
    BY <1>3, <1>8, TransitionFields DEF CreateDone
  <2> QED BY <1>1, <1>3, <1>8, <2>1 DEF CreateDone
<1>9. CASE CreateFailed(a)
  <2>1. pc'[a] = AfterFetch(op[a], mem[a]) /\ mem' = mem /\ pc[a] = "create"
    BY <1>3, <1>9 DEF CreateFailed
  <2>2. pc'[a] \in {"set ns", "abort", "set ds", "commit"}
    BY <2>1, AfterFetchFacts
  <2> QED BY <1>1, <1>3, <2>1, <2>2
<1>10. ASSUME NEW enough \in BOOLEAN, SetNameservers(a, enough)
       PROVE  Deletion(a)' /\ (row.state = "deleted" => ~reg'.exists)
  <2>1. reg'.exists = reg.exists
    BY <1>3, <1>10, RegistryFields DEF SetNameservers, EppDone, EppError
  <2>2. CASE mem'[a].state # "deleted" /\ mem[a].state \in {"dns needed", "ready"} /\ pc'[a] = "save"
    BY <1>1, <1>3, <2>1, <2>2
  <2>3. CASE mem' = mem /\ pc'[a] = "commit"
    BY <1>1, <1>3, <1>10, <2>1, <2>3 DEF SetNameservers
  <2> QED BY <1>3, <1>10, <2>2, <2>3, TransitionFields
          DEF SetNameservers, ReadySources, DnsNeededSources
<1>11. ASSUME NEW present \in BOOLEAN, SetDsData(a, present)
       PROVE  Deletion(a)' /\ (row.state = "deleted" => ~reg'.exists)
  <2>1. reg'.exists = reg.exists
    BY <1>3, <1>11, RegistryFields DEF SetDsData, EppDone, EppError
  <2>2. mem' = mem /\ pc'[a] \in {"save", "commit", "abort"} /\ pc[a] = "set ds"
    BY <1>3, <1>11 DEF SetDsData
  <2> QED BY <1>1, <1>3, <2>1, <2>2
<1>12. CASE PlaceClientHold(a) \/ RevertClientHold(a)
  <2>1. reg'.exists = reg.exists /\ pc[a] \in {"hold", "unhold"}
    BY <1>3, <1>12, RegistryFields DEF PlaceClientHold, RevertClientHold, EppDone, EppError
  <2>2. /\ mem'[a].state # "deleted"
        /\ pc'[a] \in {"save", "commit", "abort"}
    BY <1>3, <1>12, TransitionFields DEF PlaceClientHold, RevertClientHold, HoldSources
  <2>3. mem[a].state # "deleted"
    BY <1>3, <2>1 DEF HoldSources
  <2> QED BY <1>1, <1>3, <2>1, <2>2, <2>3
\* A deletion under way: the row is not deleted, and nothing says so.
<1>13. ASSUME pc[a] \in DeleteSteps, mem' = mem, pc'[a] \in DeleteSteps \cup {"commit"},
              reg'.exists => reg.exists
       PROVE  Deletion(a)' /\ (row.state = "deleted" => ~reg'.exists)
  BY <1>1, <1>3, <1>13 DEF DeleteSources
<1>14. CASE DeleteHosts(a) \/ DeleteUnhold(a) \/ DeleteDsData(a) \/ DeleteRehold(a) \/ DeletePoll(a)
  <2>1. reg'.exists = reg.exists
    BY <1>3, <1>14, RegistryFields
       DEF DeleteHosts, DeleteUnhold, DeleteDsData, DeleteRehold, DeletePoll, EppDone, EppError
  <2>2. pc[a] \in DeleteSteps /\ mem' = mem /\ pc'[a] \in DeleteSteps \cup {"commit"}
    BY <1>3, <1>14 DEF DeleteHosts, DeleteUnhold, DeleteDsData, DeleteRehold, DeletePoll
  <2> QED BY <1>13, <2>1, <2>2
<1>15. CASE DeleteDomain(a)
  <2>1. reg'.exists => reg.exists
    BY <1>3, <1>15, RegistryFields DEF DeleteDomain, EppDone, EppError
  <2>2. CASE reg' = Absent /\ mem'[a].state = "deleted" /\ pc'[a] = "save"
    BY <1>1, <1>3, <1>15, <2>2, RegistryFields DEF DeleteDomain, DeleteSources
  <2>3. CASE mem' = mem /\ pc'[a] = "commit"
    BY <1>13, <1>15, <2>1, <2>3 DEF DeleteDomain
  <2> QED BY <1>3, <1>15, <2>2, <2>3, TransitionFields DEF DeleteDomain, EppDone
<1> QED BY <1>6, <1>7, <1>8, <1>9, <1>10, <1>11, <1>12, <1>14, <1>15 DEF EppStep

LEMMA DeletionSave ==
  ASSUME IInv, Serial, DeletionInv, NEW a \in Actors, Save(a)
  PROVE  DeletionInv'
<1>1. /\ UNCHANGED <<row, reg, session, op, mem, clock, stale, doubt, lifted>>
      /\ pend' = [pend EXCEPT ![a] = mem[a]]
      /\ pc[a] \in SavePoints /\ pc'[a] # "idle"
      /\ \A b \in Actors \ {a} : pc'[b] = pc[b]
  BY SaveFacts
<1>2. \A b \in Actors \ {a} : pc[b] = "idle" /\ pc'[b] = "idle"
  BY <1>1, Alone DEF SavePoints
<1>3. Deletion(a) /\ DeletedIsGone /\ pend'[a] = mem[a]
  BY <1>1 DEF IInv, TypeOK, DeletionInv, SavePoints
<1>4. SUFFICES Deletion(a)'
  BY <1>1, <1>2, <1>3 DEF DeletionInv, DeletedIsGone
<1>5. /\ pc'[a] # "admin save"
      /\ pc'[a] \in DeleteSteps =>
           /\ op[a] = "admin delete" /\ mem[a].state \in DeleteSources
           /\ mem[a].state = row.state
      /\ pc[a] = "save" => pc'[a] = "commit"
  <2>1. CASE pc[a] = "admin save"
    <3>1. op[a] \in AdminOps /\ pc'[a] = AdminStep(a)
      BY <2>1, SaveFacts
    <3> QED BY <1>3, <2>1, <3>1, AdminStepCases DEF Deletion, DeleteSteps
  <2>2. CASE pc[a] \in {"created", "fetched"}
    <3>1. pc'[a] = AfterFetch(op[a], mem[a])
      BY <2>2, SaveFacts
    <3>2. pc'[a] \in {"set ns", "abort", "set ds", "commit"}
      BY <3>1, AfterFetchFacts
    <3> QED BY <2>2, <3>2 DEF DeleteSteps
  <2>3. CASE pc[a] = "ds removed"
    <3>1. pc'[a] = "del hold"
      BY <2>3, SaveFacts
    <3> QED BY <1>3, <2>3, <3>1 DEF Deletion, DeleteSteps
  <2>4. CASE pc[a] = "save"
    <3>1. pc'[a] = "commit"
      BY <2>4, SaveFacts
    <3> QED BY <2>4, <3>1 DEF DeleteSteps
  <2> QED BY <1>1, <2>1, <2>2, <2>3, <2>4 DEF SavePoints
<1> QED BY <1>1, <1>3, <1>5 DEF Deletion, SavePoints

LEMMA DeletionCommit ==
  ASSUME IInv, Serial, DeletionInv, NEW a \in Actors, Commit(a)
  PROVE  DeletionInv' /\ (row.state = "deleted" => row'.state = "deleted")
<1>1. /\ pc[a] = "commit" /\ Deletion(a) /\ DeletedIsGone /\ reg' = reg
      /\ row' = IF pend[a] # NoCopy THEN pend[a] ELSE row
  BY DEF Commit, DeletionInv
<1>2. \A b \in Actors : pc'[b] = "idle"
  <2>1. pc' = [pc EXCEPT ![a] = "idle"]
    BY DEF Commit, Release, Goto
  <2> QED BY <1>1, <2>1, Alone DEF IInv, TypeOK
<1>3. row.state = "deleted" => row'.state = "deleted"
  BY <1>1 DEF Deletion
<1>4. row'.state = "deleted" => ~reg.exists
  BY <1>1 DEF Deletion, DeletedIsGone
<1>5. ASSUME NEW b \in Actors, session'[b] # NoCopy, session'[b].state = "deleted"
      PROVE  row'.state = "deleted"
  <2>1. CASE session' = session
    BY <1>3, <1>5, <2>1 DEF DeletionInv
  <2>2. CASE session' = [session EXCEPT ![a] = mem[a]] /\ op[a] \in SessionOps
    <3>1. CASE b = a
      <4>1. mem[a].state = "deleted"
        BY <1>5, <2>2, <3>1 DEF IInv, TypeOK
      <4>2. row.state = "deleted"
        BY <1>1, <2>2, <4>1 DEF Deletion, SessionOps
      <4> QED BY <1>3, <4>2
    <3>2. CASE b # a
      BY <1>3, <1>5, <2>2, <3>2 DEF DeletionInv, IInv, TypeOK
    <3> QED BY <3>1, <3>2
  <2> QED BY <2>1, <2>2 DEF Commit
<1> QED BY <1>1, <1>2, <1>3, <1>4, <1>5 DEF DeletionInv, DeletedIsGone

LEMMA DeletionRollback ==
  ASSUME IInv, Serial, DeletionInv, NEW a \in Actors, Rollback(a), pc[a] # "idle"
  PROVE  DeletionInv'
<1>1. pc' = [pc EXCEPT ![a] = "idle"] /\ UNCHANGED <<row, reg, session>>
  BY DEF Rollback, Release, Goto
<1>2. \A b \in Actors : pc'[b] = "idle"
  BY <1>1, Alone DEF IInv, TypeOK
<1> QED BY <1>1, <1>2 DEF DeletionInv, DeletedIsGone

LEMMA DeletionBegin ==
  ASSUME IInv, Serial, DeletionInv, ~Overlap, NEW a \in Actors, NEW o \in Ops, Begin(a, o)
  PROVE  DeletionInv'
<1>1. /\ UNCHANGED <<row, reg, lock, session, pend, doubt>>
      /\ pc' = [pc EXCEPT ![a] = FirstStep(o)] /\ op' = [op EXCEPT ![a] = o]
      /\ mem' = [mem EXCEPT ![a] = Loaded(a, o)]
      /\ \A b \in Actors : pc[b] = "idle"
      /\ Allowed(o)
  BY DEF Begin, Goto, SetMem
<1>2. FirstStep(o) \in {"info", "admin save", "hold"} /\ (FirstStep(o) = "admin save" => o \in AdminOps)
  BY FirstStepFacts
<1>3. \A b \in Actors : pend[b] = NoCopy
  BY <1>1 DEF Serial
<1>4. /\ mem'[a] = Loaded(a, o) /\ pc'[a] = FirstStep(o) /\ op'[a] = o
      /\ \A b \in Actors \ {a} : pc'[b] = "idle"
  BY <1>1 DEF IInv, TypeOK
<1>5. /\ row.state = "deleted" => Loaded(a, o).state = "deleted"
      /\ Loaded(a, o).state = "deleted" => row.state = "deleted"
  BY <1>1 DEF Loaded, Allowed, Editable, DeletionInv
<1>6. o \in AdminOps => Loaded(a, o) = row
  BY DEF Loaded, AdminOps
<1>7. Deletion(a)'
  BY <1>1, <1>2, <1>3, <1>4, <1>5, <1>6 DEF Deletion, DeletionInv, DeletedIsGone, DeleteSteps
<1> QED BY <1>1, <1>4, <1>7 DEF DeletionInv, DeletedIsGone

LEMMA DeletionNext ==
  ASSUME IInv, Serial, DeletionInv, ~Overlap, [Next]_vars
  PROVE  DeletionInv'
<1>1. ASSUME NEW a \in Actors, Abort(a) \/ Crash(a) PROVE DeletionInv'
  BY <1>1, DeletionRollback DEF Abort, Crash
<1>2. CASE UNCHANGED vars
  BY <1>2 DEF vars, DeletionInv, Deletion, DeletedIsGone
<1> QED BY <1>1, <1>2, DeletionBegin, DeletionEpp, DeletionSave, DeletionCommit DEF Next

LEMMA SerialInit == Init => Serial /\ DeletionInv /\ BackedInv
  BY DEF Init, NewRow, Absent, Serial, DeletionInv, DeletedIsGone, BackedInv

LEMMA DeletionHolds == ASSUME ~Overlap PROVE Spec => [](IInv /\ Serial /\ DeletionInv)
<1>1. IInv /\ Serial /\ DeletionInv /\ [Next]_vars => (IInv /\ Serial /\ DeletionInv)'
  BY StepInvariant, SerialNext, DeletionNext
<1> QED BY <1>1, InitInvariant, SerialInit, PTL DEF Spec

\* As long as requests do not overlap, a row that says "deleted" describes a
\* registry without the domain: _delete_domain records a deletion only when
\* the last command was answered, and nothing creates the domain again.
THEOREM SerialDeletedIsGone == ASSUME ~Overlap PROVE Spec => []DeletedIsGone
<1>1. DeletionInv => DeletedIsGone
  BY DEF DeletionInv
<1> QED BY <1>1, DeletionHolds, PTL

\* As long as requests do not overlap, no stale copy of a session is saved
\* over a deleted row.
THEOREM SerialDeletedIsFinal == ASSUME ~Overlap PROVE Spec => DeletedIsFinal
<1>1. IInv /\ Serial /\ DeletionInv /\ [Next]_vars
        => [row.state = "deleted" => row'.state = "deleted"]_vars
  BY RowWriters, DeletionCommit
<1> QED BY <1>1, DeletionHolds, PTL DEF Spec, DeletedIsFinal

-----------------------------------------------------------------------------
(* What the row says is known at the registry *)

\* A step towards the registry forgets nothing: the domain that is lost is
\* deleted in the object, or counted as doubtful; and an object that stops
\* being unknown is that of a domain which exists.
LEMMA EppKnown ==
  ASSUME IInv, Serial, DeletionInv, NEW a \in Actors, EppStep(a)
  PROVE  /\ doubt => doubt'
         /\ mem[a].state = "deleted" => mem'[a].state = "deleted"
         /\ reg.exists => reg'.exists \/ doubt' \/ mem'[a].state = "deleted"
         /\ mem[a].state = "unknown" => mem'[a].state = "unknown" \/ reg'.exists
<1>1. /\ mem[a] \in Copy /\ mem \in [Actors -> Copy] /\ reg \in Registry /\ clock \in Nat
      /\ doubt \in BOOLEAN
      /\ pc[a] \in {"hold", "unhold"} => mem[a].state \in HoldSources
      /\ pc[a] = "create" => mem[a].state = "unknown"
  BY DEF IInv, TypeOK, StepsChecked
<1>2. pc[a] = "del domain" => mem[a].state \in DeleteSources
  BY DEF DeletionInv, Deletion, DeleteSteps
<1> USE DEF Goto, SetMem
<1>3. CASE InfoFound(a)
  <2>1. PICK fixed \in FixUnknown(mem[a]) :
          mem' = [mem EXCEPT ![a] = fixed] /\ reg' = reg /\ reg.exists /\ doubt' = doubt
    BY <1>3 DEF InfoFound
  <2>2. mem[a].state = "unknown" \/ fixed = mem[a]
    BY <1>1, FixedFields
  <2> QED BY <1>1, <2>1, <2>2
<1>4. CASE FixFailed(a) \/ InfoMissing(a) \/ InfoFailed(a)
  BY <1>4 DEF FixFailed, InfoMissing, InfoFailed
<1>5. CASE CreateDone(a) \/ CreateFailed(a)
  BY <1>1, <1>5, RegistryFields DEF CreateDone, CreateFailed
<1>6. ASSUME NEW enough \in BOOLEAN, SetNameservers(a, enough)
      PROVE  /\ doubt' = doubt /\ reg'.exists = reg.exists
             /\ mem[a].state \in {"deleted", "unknown"} => mem'[a] = mem[a]
  <2>1. doubt' = doubt /\ reg'.exists = reg.exists
    BY <1>1, <1>6, RegistryFields DEF SetNameservers, EppDone, EppError
  <2>2. mem[a].state \in {"deleted", "unknown"} => mem'[a] = mem[a]
    BY <1>6 DEF SetNameservers, ReadySources, DnsNeededSources
  <2> QED BY <2>1, <2>2
<1>7. ASSUME NEW present \in BOOLEAN, SetDsData(a, present)
      PROVE  doubt' = doubt /\ reg'.exists = reg.exists /\ mem' = mem
  BY <1>1, <1>7, RegistryFields DEF SetDsData, EppDone, EppError
<1>8. CASE PlaceClientHold(a) \/ RevertClientHold(a)
  <2>1. reg'.exists = reg.exists /\ doubt' = doubt
    BY <1>1, <1>8, RegistryFields DEF PlaceClientHold, RevertClientHold, EppDone, EppError
  <2>2. mem[a].state \notin {"deleted", "unknown"}
    BY <1>1, <1>8 DEF PlaceClientHold, RevertClientHold, HoldSources
  <2> QED BY <2>1, <2>2
<1>9. CASE DeleteHosts(a) \/ DeleteUnhold(a) \/ DeleteDsData(a) \/ DeleteRehold(a) \/ DeletePoll(a)
  BY <1>1, <1>9, RegistryFields
     DEF DeleteHosts, DeleteUnhold, DeleteDsData, DeleteRehold, DeletePoll, EppDone, EppError
<1>10. CASE DeleteDomain(a)
  <2>1. mem[a].state \notin {"deleted", "unknown"}
    BY <1>2, <1>10 DEF DeleteDomain, DeleteSources
  <2>2. \/ mem'[a].state = "deleted" /\ doubt' = doubt
        \/ doubt' = (doubt \/ reg' # reg)
    BY <1>1, <1>10, TransitionFields DEF DeleteDomain
  <2> QED BY <1>1, <2>1, <2>2
<1> QED BY <1>3, <1>4, <1>5, <1>6, <1>7, <1>8, <1>9, <1>10 DEF EppStep

\* A request that ends has committed the deletion or left a doubt.
LEMMA KnownStays ==
  ASSUME IInv, Serial, DeletionInv, ~Overlap, [Next]_vars, Known
  PROVE  Known'
<1>1. ASSUME NEW a \in Actors, EppStep(a) PROVE Known'
  <2>1. /\ row' = row /\ pc'[a] # "idle" /\ pc[a] # "idle"
    BY <1>1, EppFrame
  <2>2. \A b \in Actors : pc[b] # "idle" => b = a
    BY <2>1 DEF Serial
  <2> QED BY <1>1, <2>1, <2>2, EppKnown DEF Known
<1>2. ASSUME NEW a \in Actors, Save(a) PROVE Known'
  BY <1>2, SaveFacts DEF Known
<1>3. ASSUME NEW a \in Actors, Commit(a) PROVE Known'
  <2>1. /\ reg' = reg /\ doubt' = (doubt /\ row'.state # "deleted") /\ pc[a] = "commit"
        /\ row' = IF pend[a] # NoCopy THEN pend[a] ELSE row
    BY <1>3 DEF Commit
  <2>2. row.state = "deleted" => row'.state = "deleted"
    BY <1>3, DeletionCommit
  <2>3. \A b \in Actors : pc[b] # "idle" => b = a
    BY <2>1 DEF Serial
  <2>4. mem[a].state = "deleted" => row'.state = "deleted"
    <3>1. mem[a] # NoCopy
      BY CopyFacts DEF IInv, TypeOK
    <3>2. Deletion(a)
      BY <2>1 DEF DeletionInv
    <3> QED BY <2>1, <2>2, <3>1, <3>2 DEF Deletion
  <2> QED BY <2>1, <2>2, <2>3, <2>4 DEF Known
<1>4. ASSUME NEW a \in Actors, Rollback(a), pc[a] # "idle" PROVE Known'
  <2>1. /\ UNCHANGED <<row, reg>> /\ doubt' = (doubt \/ (mem[a].state = "deleted" /\ row.state # "deleted"))
    BY <1>4 DEF Rollback
  <2>2. \A b \in Actors : pc[b] # "idle" => b = a
    BY <1>4 DEF Serial
  <2> QED BY <2>1, <2>2 DEF Known
<1>5. ASSUME NEW a \in Actors, NEW o \in Ops, Begin(a, o) PROVE Known'
  BY <1>5 DEF Begin, Known
<1>6. CASE UNCHANGED vars
  BY <1>6 DEF vars, Known
<1> QED BY <1>1, <1>2, <1>3, <1>4, <1>5, <1>6 DEF Next, Abort, Crash

LEMMA BackedNext ==
  ASSUME IInv, Serial, DeletionInv, BackedInv, ~Overlap, [Next]_vars
  PROVE  BackedInv'
<1>1. CASE Known
  BY <1>1, KnownStays DEF BackedInv
<1>2. CASE ~Known
  <2>1. /\ row.state = "unknown"
        /\ \A b \in Actors :
             /\ session[b] # NoCopy => session[b].state = "unknown"
             /\ pc[b] # "idle" => mem[b].state = "unknown"
             /\ pend[b] # NoCopy => pend[b].state = "unknown"
    BY <1>2 DEF BackedInv, Serial
  <2>2. ASSUME NEW a \in Actors, EppStep(a) PROVE BackedInv'
    <3>1. mem'[a].state = "unknown" \/ reg'.exists
      BY <2>1, <2>2, EppKnown, EppFrame
    <3> QED BY <2>1, <2>2, <3>1, EppFrame DEF BackedInv, Known
  <2>3. ASSUME NEW a \in Actors, Save(a) PROVE BackedInv'
    <3>1. /\ UNCHANGED <<row, session, mem>> /\ pend' = [pend EXCEPT ![a] = mem[a]]
          /\ pc[a] \in SavePoints /\ \A b \in Actors \ {a} : pc'[b] = pc[b]
      BY <2>3, SaveFacts
    <3>2. mem[a].state = "unknown"
      BY <2>1, <3>1 DEF SavePoints
    <3>3. ASSUME NEW b \in Actors
          PROVE  /\ pc'[b] # "idle" => mem'[b].state = "unknown"
                 /\ pend'[b] # NoCopy => pend'[b].state = "unknown"
      BY <2>1, <3>1, <3>2 DEF IInv, TypeOK
    <3> QED BY <2>1, <3>1, <3>3 DEF BackedInv
  <2>4. ASSUME NEW a \in Actors, Commit(a) PROVE BackedInv'
    <3>1. /\ pc[a] = "commit" /\ Release(a) /\ mem' = mem
          /\ row' = row \/ (pend[a] # NoCopy /\ row' = pend[a])
          /\ session' = session \/ session' = [session EXCEPT ![a] = mem[a]]
      BY <2>4 DEF Commit
    <3>2. \A b \in Actors : pc'[b] = "idle"
      BY <3>1, Alone DEF Release, Goto, IInv, TypeOK
    <3>3. row'.state = "unknown"
      BY <2>1, <3>1
    <3>4. \A b \in Actors : session'[b] # NoCopy => session'[b].state = "unknown"
      BY <2>1, <3>1 DEF IInv, TypeOK
    <3> QED BY <3>2, <3>3, <3>4 DEF BackedInv
  <2>5. ASSUME NEW a \in Actors, Rollback(a), pc[a] # "idle" PROVE BackedInv'
    <3>1. UNCHANGED <<row, session>> /\ Release(a)
      BY <2>5 DEF Rollback
    <3>2. \A b \in Actors : pc'[b] = "idle"
      BY <2>5, <3>1, Alone DEF Release, Goto, IInv, TypeOK
    <3> QED BY <2>1, <3>1, <3>2 DEF BackedInv
  <2>6. ASSUME NEW a \in Actors, NEW o \in Ops, Begin(a, o) PROVE BackedInv'
    <3>1. /\ UNCHANGED <<row, session, pend>> /\ mem' = [mem EXCEPT ![a] = Loaded(a, o)]
          /\ pc' = [pc EXCEPT ![a] = FirstStep(o)]
      BY <2>6 DEF Begin, SetMem, Goto
    <3>2. Loaded(a, o).state = "unknown"
      BY <2>1 DEF Loaded
    <3> QED BY <2>1, <3>1, <3>2 DEF BackedInv, IInv, TypeOK
  <2>7. CASE UNCHANGED vars
    BY <2>1, <2>7 DEF vars, BackedInv
  <2> QED BY <2>2, <2>3, <2>4, <2>5, <2>6, <2>7 DEF Next, Abort, Crash
<1> QED BY <1>1, <1>2

\* As long as requests do not overlap, the registry has every domain whose
\* row says so when nobody is at work, unless a deletion was carried out and
\* not recorded.
THEOREM SerialRegistryBacksRow == ASSUME ~Overlap PROVE Spec => []RegistryBacksRow
<1>1. IInv /\ Serial /\ DeletionInv /\ BackedInv /\ [Next]_vars
        => (IInv /\ Serial /\ DeletionInv /\ BackedInv)'
  BY StepInvariant, SerialNext, DeletionNext, BackedNext
<1>2. BackedInv => RegistryBacksRow
  BY DEF BackedInv, Known, RegistryBacksRow
<1> QED BY <1>1, <1>2, InitInvariant, SerialInit, PTL DEF Spec

-----------------------------------------------------------------------------
(* The state machine *)

\* The repair of a row in state unknown.
LEMMA RepairIsLawful ==
  ASSUME NEW m \in Copy, clock \in Nat, NEW fixed \in FixUnknown(m)
  PROVE  Lawful(fixed, m) /\ m.state \in {"unknown", fixed.state}
<1>1. CASE fixed = m
  BY <1>1 DEF Lawful
<1>2. CASE m.state = "unknown" /\ fixed = DnsNeededOf(m)
  <2>1. fixed.state = "dns needed" /\ fixed.fr = m.fr
    BY <1>2, TransitionFields
  <2> QED BY <1>2, <2>1 DEF Lawful
<1>3. CASE /\ m.state = "unknown" /\ fixed.state = "ready"
           /\ fixed.fr = IF m.fr = 0 THEN clock ELSE m.fr
  BY <1>3 DEF Lawful
<1> QED BY <1>1, <1>2, <1>3, FixedFields

LEMMA FreshEpp ==
  ASSUME IInv, DeletionInv, NEW a \in Actors, EppStep(a), Fresh(a)
  PROVE  Fresh(a)'
<1>1. /\ row' = row /\ pend'[a] = pend[a] /\ pc[a] # "idle"
      /\ mem[a] \in Copy /\ mem \in [Actors -> Copy] /\ pc \in [Actors -> Steps]
      /\ clock \in Nat /\ clock # 0 /\ row \in Copy /\ GoodCopy(row)
      /\ Lawful(mem[a], row)
      /\ pc[a] \in {"info", "create", "hold", "unhold"} \cup DeleteSteps => mem[a] = row
      /\ pc[a] = "set ns" => row.state \in {"unknown", mem[a].state}
      /\ pc[a] \in {"hold", "unhold"} => mem[a].state \in HoldSources
      /\ pc[a] = "create" => mem[a].state = "unknown"
  BY EppFrame DEF Fresh, IInv, TypeOK, StepsChecked, GoodCopies
<1>2. pc[a] \in DeleteSteps => row.state \in DeleteSources
  BY <1>1 DEF DeletionInv, Deletion
<1>3. SUFFICES /\ Lawful(mem'[a], row)
               /\ pc'[a] \in {"admin save", "info", "create", "hold", "unhold"} \cup DeleteSteps
                    => mem'[a] = row
               /\ pc'[a] \in {"created", "fetched", "set ns"} => row.state \in {"unknown", mem'[a].state}
  BY <1>1 DEF Fresh
<1> DEFINE Goal == /\ Lawful(mem'[a], row)
                   /\ pc'[a] \in {"admin save", "info", "create", "hold", "unhold"} \cup DeleteSteps
                        => mem'[a] = row
                   /\ pc'[a] \in {"created", "fetched", "set ns"}
                        => row.state \in {"unknown", mem'[a].state}
\* The row itself is still what the request holds.
<1>4. ASSUME mem'[a] = row PROVE Goal
  BY <1>4 DEF Lawful
\* A changed object, saved next.
<1>5. ASSUME Lawful(mem'[a], row), pc'[a] \in {"save", "commit", "abort"} PROVE Goal
  BY <1>5 DEF DeleteSteps
<1> HIDE DEF Goal
<1> USE DEF Goto, SetMem
<1>6. CASE InfoFound(a)
  <2>1. PICK fixed \in FixUnknown(mem[a]) :
          /\ mem' = [mem EXCEPT ![a] = fixed]
          /\ pc' = [pc EXCEPT ![a] = "fetched"] \/ pc' = [pc EXCEPT ![a] = AfterFetch(op[a], fixed)]
    BY <1>6 DEF InfoFound
  <2>2. mem[a] = row /\ mem'[a] = fixed
    BY <1>1, <1>6, <2>1 DEF InfoFound
  <2>3. pc'[a] \in {"fetched", "set ns", "abort", "set ds", "commit"}
    BY <1>1, <2>1, AfterFetchFacts
  <2>4. Lawful(fixed, row) /\ row.state \in {"unknown", fixed.state}
    BY <1>1, <2>1, <2>2, RepairIsLawful
  <2> QED BY <2>2, <2>3, <2>4 DEF Goal, DeleteSteps
<1>7. CASE FixFailed(a) \/ InfoMissing(a) \/ InfoFailed(a) \/ CreateFailed(a)
  <2>1. mem' = mem /\ mem[a] = row
    BY <1>1, <1>7 DEF FixFailed, InfoMissing, InfoFailed, CreateFailed
  <2> QED BY <1>4, <2>1 DEF Goal
<1>8. CASE CreateDone(a)
  <2>1. mem[a] = row /\ row.state = "unknown" /\ mem'[a] = DnsNeededOf(row) /\ pc'[a] = "created"
    BY <1>1, <1>8 DEF CreateDone
  <2>2. mem'[a].state = "dns needed" /\ mem'[a].fr = row.fr
    BY <1>1, <2>1, TransitionFields
  <2> QED BY <2>1, <2>2 DEF Goal, Lawful, DeleteSteps
<1>9. ASSUME NEW enough \in BOOLEAN, SetNameservers(a, enough) PROVE Goal
  <2>1. pc[a] = "set ns" /\ pc'[a] \in {"save", "commit"}
    BY <1>1, <1>9 DEF SetNameservers
  <2>2. CASE mem' = mem
    BY <1>1, <1>5, <2>1, <2>2 DEF Goal
  <2>3. CASE mem'[a] = ReadyOf(mem[a]) /\ mem[a].state \in ReadySources
    <3>1. mem'[a].state = "ready" /\ mem'[a].fr = IF mem[a].fr = 0 THEN clock ELSE mem[a].fr
      BY <1>1, <2>3, TransitionFields
    <3>2. Lawful(mem'[a], row)
      BY <1>1, <2>1, <2>3, <3>1 DEF Lawful, GoodCopy, ReadySources
    <3> QED BY <1>5, <2>1, <3>2 DEF Goal
  <2>4. CASE mem'[a] = DnsNeededOf(mem[a]) /\ mem[a].state \in DnsNeededSources
    <3>0. mem[a] \in Copy /\ clock \in Nat
      BY <1>1
    <3>1. mem'[a].state = "dns needed" /\ mem'[a].fr = mem[a].fr
      BY <2>4, <3>0, TransitionFields
    <3>2. mem[a].state = "ready" /\ row.state \in {"unknown", "ready"}
      BY <1>1, <2>1, <2>4 DEF DnsNeededSources
    <3>3. /\ row.fr # 0 => mem'[a].fr = row.fr
          /\ row.state = "ready" => mem'[a].fr = row.fr
      BY <1>1, <3>1, <3>2 DEF Lawful
    <3>4. Lawful(mem'[a], row)
      BY <3>1, <3>2, <3>3 DEF Lawful
    <3> QED BY <1>5, <2>1, <3>4 DEF Goal
  <2> QED BY <1>1, <1>9, <2>2, <2>3, <2>4 DEF SetNameservers
<1>10. ASSUME NEW present \in BOOLEAN, SetDsData(a, present) PROVE Goal
  <2>1. mem' = mem /\ pc'[a] \in {"save", "commit", "abort"}
    BY <1>1, <1>10 DEF SetDsData
  <2> QED BY <1>1, <1>5, <2>1 DEF Goal
<1>11. CASE PlaceClientHold(a) \/ RevertClientHold(a)
  <2>1. mem[a] = row /\ row.state \in HoldSources /\ pc'[a] \in {"save", "commit", "abort"}
    BY <1>1, <1>11 DEF PlaceClientHold, RevertClientHold
  <2>2. CASE mem' = mem
    BY <1>4, <2>1, <2>2 DEF Goal
  <2>3. CASE mem'[a] \in {OnHoldOf(row), UnholdOf(row)}
    <3>1. mem'[a].fr = row.fr /\ mem'[a].state \in {"ready", "on hold"}
      BY <1>1, <2>3, TransitionFields
    <3>2. Lawful(mem'[a], row)
      BY <2>1, <3>1 DEF Lawful, HoldSources
    <3> QED BY <1>5, <2>1, <3>2 DEF Goal
  <2> QED BY <1>1, <1>11, <2>1, <2>2, <2>3 DEF PlaceClientHold, RevertClientHold
<1>12. CASE DeleteHosts(a) \/ DeleteUnhold(a) \/ DeleteDsData(a) \/ DeleteRehold(a) \/ DeletePoll(a)
  <2>1. pc[a] \in DeleteSteps /\ mem' = mem
    BY <1>12 DEF DeleteHosts, DeleteUnhold, DeleteDsData, DeleteRehold, DeletePoll, DeleteSteps
  <2> QED BY <1>1, <1>4, <2>1 DEF Goal
<1>13. CASE DeleteDomain(a)
  <2>1. mem[a] = row /\ row.state \in DeleteSources /\ pc'[a] \in {"save", "commit"}
    BY <1>1, <1>2, <1>13 DEF DeleteDomain, DeleteSteps
  <2>2. CASE mem' = mem
    BY <1>4, <2>1, <2>2 DEF Goal
  <2>3. CASE mem'[a] = DeletedOf(row)
    <3>1. mem'[a].fr = row.fr /\ mem'[a].state = "deleted"
      BY <1>1, <2>3, TransitionFields
    <3>2. Lawful(mem'[a], row)
      BY <2>1, <3>1 DEF Lawful
    <3> QED BY <1>5, <2>1, <3>2 DEF Goal
  <2> QED BY <1>1, <1>13, <2>1, <2>2, <2>3 DEF DeleteDomain
<1> QED BY <1>6, <1>7, <1>8, <1>9, <1>10, <1>11, <1>12, <1>13 DEF EppStep, Goal

LEMMA FreshSave ==
  ASSUME IInv, NEW a \in Actors, Save(a), Fresh(a)
  PROVE  Fresh(a)'
<1>1. /\ UNCHANGED <<row, op, mem>> /\ pend'[a] = mem[a] /\ pc[a] \in SavePoints
      /\ Lawful(mem[a], row)
  BY SaveFacts DEF Fresh, IInv, TypeOK
<1>2. CASE pc[a] \in {"admin save", "ds removed"}
  <2>1. mem[a] = row /\ pc'[a] \notin {"created", "fetched", "set ns"}
    BY <1>2, SaveFacts, AdminStepCases DEF Fresh, DeleteSteps
  <2> QED BY <1>1, <2>1 DEF Fresh
<1>3. CASE pc[a] \in {"created", "fetched"}
  <2>1. pc'[a] = AfterFetch(op[a], mem[a])
    BY <1>3, SaveFacts
  <2>2. pc'[a] \in {"set ns", "abort", "set ds", "commit"}
    BY <2>1, AfterFetchFacts
  <2> QED BY <1>1, <1>3, <2>2 DEF Fresh, DeleteSteps
<1>4. CASE pc[a] = "save"
  <2>1. pc'[a] = "commit"
    BY <1>4, SaveFacts
  <2> QED BY <1>1, <2>1 DEF Fresh, DeleteSteps
<1> QED BY <1>1, <1>2, <1>3, <1>4 DEF SavePoints

LEMMA MachineNext ==
  ASSUME IInv, Serial, DeletionInv, MachineInv, ~Overlap, [Next]_vars
  PROVE  MachineInv'
<1>1. ASSUME NEW a \in Actors, EppStep(a) \/ Save(a) PROVE MachineInv'
  <2>1. /\ UNCHANGED <<row, op, stale>> /\ pc[a] # "idle"
        /\ \A b \in Actors \ {a} : pc'[b] = pc[b]
    BY <1>1, EppFrame, SaveFacts DEF SavePoints
  <2>2. \A b \in Actors \ {a} : pc'[b] = "idle"
    BY <2>1, Alone
  <2>3. CASE stale[a]
    <3>1. OldCopy(a)'
      BY <2>1, <2>3 DEF MachineInv, OldCopy
    <3> QED BY <2>1, <2>2, <2>3, <3>1 DEF MachineInv
  <2>4. CASE ~stale[a]
    <3>1. Fresh(a)'
      BY <1>1, <2>1, <2>4, FreshEpp, FreshSave DEF MachineInv
    <3> QED BY <2>1, <2>2, <2>4, <3>1 DEF MachineInv
  <2> QED BY <2>3, <2>4
<1>2. ASSUME NEW a \in Actors, Release(a), pc[a] # "idle" PROVE MachineInv'
  <2>1. \A b \in Actors : pc'[b] = "idle"
    BY <1>2, Alone DEF Release, Goto, IInv, TypeOK
  <2> QED BY <2>1 DEF MachineInv
<1>3. ASSUME NEW a \in Actors, NEW o \in Ops, Begin(a, o) PROVE MachineInv'
  <2>1. /\ row' = row /\ pend' = pend /\ pend[a] = NoCopy
        /\ mem'[a] = Loaded(a, o) /\ stale'[a] = (Loaded(a, o) # row) /\ op'[a] = o
        /\ Allowed(o)
    BY <1>3 DEF Begin, SetMem, Serial, IInv, TypeOK
  <2>2. \A b \in Actors \ {a} : pc'[b] = "idle"
    BY <1>3 DEF Begin, Goto, IInv, TypeOK
  <2>3. CASE stale'[a]
    <3>1. OldCopy(a)'
      BY <2>1, <2>3 DEF OldCopy, Loaded, Allowed, Pages
    <3> QED BY <2>2, <2>3, <3>1 DEF MachineInv
  <2>4. CASE ~stale'[a]
    <3>1. Fresh(a)'
      BY <2>1, <2>4 DEF Fresh, Lawful
    <3> QED BY <2>2, <2>4, <3>1 DEF MachineInv
  <2> QED BY <2>3, <2>4
<1>4. CASE UNCHANGED vars
  BY <1>4 DEF vars, MachineInv, OldCopy, Fresh, Lawful
<1> QED BY <1>1, <1>2, <1>3, <1>4 DEF Next, Commit, Abort, Crash, Rollback

LEMMA LawfulTransitions ==
  ASSUME row \in Copy, row' \in Copy, GoodCopy(row'), Lawful(row', row),
         <<row.state, row.fr>>' # <<row.state, row.fr>>
  PROVE  Machine!Next
<1>1. CASE row.state = "unknown"
  BY <1>1 DEF Lawful, GoodCopy, Copy, Machine!Next, Machine!Register, Machine!BecomeReady,
              DeleteSources
<1>2. CASE row.state = "dns needed"
  BY <1>2 DEF Lawful, GoodCopy, Copy, Machine!Next, Machine!BecomeReady, Machine!Delete,
              DeleteSources
<1>3. CASE row.state = "ready"
  BY <1>3 DEF Lawful, Copy, Machine!Next, Machine!LoseNameservers, Machine!Hold, DeleteSources
<1>4. CASE row.state = "on hold"
  BY <1>4 DEF Lawful, GoodCopy, Copy, Machine!Next, Machine!BecomeReady, Machine!Delete,
              DeleteSources
<1>5. CASE row.state = "deleted"
  BY <1>5 DEF Lawful, DeleteSources
<1> QED BY <1>1, <1>2, <1>3, <1>4, <1>5 DEF Copy, States

\* As long as requests do not overlap, whatever fails or dies, the row goes
\* the way of the state machine and keeps its first_ready, in every write
\* but that of an old copy; and not even an old copy revives a deleted row.
THEOREM SerialStateMachine == ASSUME ~Overlap PROVE Spec => StateMachineSpec
<1> DEFINE I == IInv /\ Serial /\ DeletionInv /\ MachineInv
<1>1. Init => I
  BY InitInvariant, SerialInit DEF Init, MachineInv
<1>2. I /\ [Next]_vars => I'
  BY StepInvariant, SerialNext, DeletionNext, MachineNext
<1>3. Init => Machine!Init
  BY DEF Init, Machine!Init, NewRow
<1>4. I /\ I' /\ [Next]_vars => [Machine!Next]_<<row.state, row.fr>>
  <2> SUFFICES ASSUME I, I', [Next]_vars, <<row.state, row.fr>>' # <<row.state, row.fr>>
               PROVE  Machine!Next
    OBVIOUS
  <2>1. PICK a \in Actors : Commit(a)
    BY RowWriters
  <2>2. /\ pc[a] = "commit" /\ pend[a] # NoCopy /\ row' = pend[a]
        /\ row \in Copy /\ row' \in Copy /\ GoodCopy(row')
    BY <2>1 DEF Commit, IInv, TypeOK, GoodCopies
  <2>3. CASE stale[a]
    <3>1. OldCopy(a) /\ Deletion(a)
      BY <2>2, <2>3 DEF MachineInv, DeletionInv
    <3>2. row.state # "deleted" /\ row'.state # "deleted"
      BY <2>2, <3>1 DEF OldCopy, Pages, Editable, Deletion
    <3> QED BY <2>2, <2>3, <3>2 DEF Machine!Next, Machine!Overwritten, Copy, States
  <2>4. CASE ~stale[a]
    <3>1. Lawful(row', row)
      BY <2>2, <2>4 DEF MachineInv, Fresh
    <3> QED BY <2>2, <3>1, LawfulTransitions
  <2> QED BY <2>3, <2>4
<1> QED BY <1>1, <1>2, <1>3, <1>4, PTL DEF Spec, StateMachineSpec, Machine!Spec

-----------------------------------------------------------------------------
(* The hold *)

\* A command about one field leaves the others alone, whatever its answer.
LEMMA QuietCommands ==
  ASSUME IInv, NEW a \in Actors, EppStep(a), HoldKept(a), Quieted,
         pc[a] # "set ns"
  PROVE  Quieted'
<1>1. reg \in Registry
  BY DEF IInv, TypeOK
<1>2. CASE \/ InfoFound(a) \/ FixFailed(a) \/ InfoMissing(a) \/ InfoFailed(a) \/ DeletePoll(a)
  BY <1>2 DEF InfoFound, FixFailed, InfoMissing, InfoFailed, DeletePoll, Quieted
<1>3. CASE CreateDone(a) \/ CreateFailed(a)
  BY <1>1, <1>3, RegistryFields DEF CreateDone, CreateFailed, Quieted
<1>4. ASSUME NEW present \in BOOLEAN, SetDsData(a, present) PROVE Quieted'
  BY <1>1, <1>4, RegistryFields DEF SetDsData, EppDone, EppError, Quieted
<1>5. CASE PlaceClientHold(a)
  BY <1>1, <1>5, RegistryFields DEF PlaceClientHold, EppDone, EppError, Quieted
<1>6. CASE RevertClientHold(a)
  BY <1>1, <1>6, RegistryFields DEF RevertClientHold, EppDone, EppError, Quieted
<1>7. CASE DeleteHosts(a) \/ DeleteDsData(a) \/ DeleteDomain(a)
  BY <1>1, <1>7, RegistryFields DEF DeleteHosts, DeleteDsData, DeleteDomain, EppDone, EppError, Quieted
<1>8. CASE DeleteUnhold(a)
  <2>1. ~reg.ns
    BY <1>8 DEF DeleteUnhold, HoldKept, DeleteSteps
  <2> QED BY <1>1, <1>8, <2>1, RegistryFields DEF DeleteUnhold, EppDone, EppError, Quieted
<1>9. CASE DeleteRehold(a)
  BY <1>1, <1>9, RegistryFields DEF DeleteRehold, EppDone, EppError, Quieted
<1>10. ASSUME NEW enough \in BOOLEAN, SetNameservers(a, enough) PROVE FALSE
  BY <1>10 DEF SetNameservers
<1> QED BY <1>2, <1>3, <1>4, <1>5, <1>6, <1>7, <1>8, <1>9, <1>10 DEF EppStep

\* What a step makes of the object of its request: an object on hold was on
\* hold before, unless the command that places the hold has succeeded.
LEMMA HoldObject ==
  ASSUME IInv, NEW a \in Actors, EppStep(a), mem'[a].state = "on hold"
  PROVE  mem[a].state = "on hold" \/ Quieted'
<1>1. /\ reg \in Registry /\ mem[a] \in Copy /\ clock \in Nat /\ mem \in [Actors -> Copy]
  BY DEF IInv, TypeOK
<1> USE DEF SetMem
<1>2. CASE mem' = mem
  BY <1>2
<1>3. CASE InfoFound(a)
  <2>1. PICK fixed \in FixUnknown(mem[a]) : mem' = [mem EXCEPT ![a] = fixed]
    BY <1>3 DEF InfoFound
  <2>2. mem'[a] = fixed
    BY <1>1, <2>1
  <2> QED BY <1>1, <2>2, FixedFields, TransitionFields
<1>4. CASE CreateDone(a)
  BY <1>1, <1>4, TransitionFields DEF CreateDone
<1>5. ASSUME NEW enough \in BOOLEAN, SetNameservers(a, enough)
      PROVE  mem[a].state = "on hold" \/ Quieted'
  BY <1>1, <1>5, TransitionFields DEF SetNameservers
<1>6. CASE PlaceClientHold(a)
  BY <1>1, <1>2, <1>6, RegistryFields DEF PlaceClientHold, EppDone, Quieted
<1>7. CASE RevertClientHold(a)
  BY <1>1, <1>2, <1>7, TransitionFields DEF RevertClientHold
<1>8. CASE DeleteDomain(a)
  BY <1>1, <1>2, <1>8, TransitionFields DEF DeleteDomain
<1> QED BY <1>2, <1>3, <1>4, <1>5, <1>6, <1>7, <1>8
        DEF EppStep, FixFailed, InfoMissing, InfoFailed, CreateFailed, SetDsData, DeleteHosts,
            DeleteUnhold, DeleteDsData, DeleteRehold, DeletePoll

\* Where a step continues.
LEMMA HoldSteps ==
  ASSUME IInv, NEW a \in Actors, EppStep(a), HoldKept(a)
  PROVE  /\ pc'[a] \in {"admin save", "hold", "unhold"} \cup DeleteSteps => op[a] \notin Pages
         /\ pc'[a] \in {"info", "create"} => pc[a] = "info"
         /\ pc'[a] = "set ns" =>
              pc[a] \in {"info", "create"} /\ op[a] = "nameservers" /\ mem'[a].state \in Editable
         /\ pc'[a] \in DeleteSteps \ {"del hosts"} => ~reg'.ns
<1>1. /\ reg \in Registry /\ pc \in [Actors -> Steps] /\ mem \in [Actors -> Copy]
  BY DEF IInv, TypeOK
<1> USE DEF Goto, SetMem
\* After the fetch and the creation.
<1>2. ASSUME NEW m, mem'[a] = m, pc[a] \in {"info", "create"},
             pc'[a] \in {"fetched", "created", "abort"} \/ pc'[a] = AfterFetch(op[a], m)
             \/ (pc'[a] = "create" /\ pc[a] = "info")
      PROVE  /\ pc'[a] \notin {"admin save", "hold", "unhold", "info"} \cup DeleteSteps
             /\ pc'[a] = "create" => pc[a] = "info"
             /\ pc'[a] = "set ns" => op[a] = "nameservers" /\ mem'[a].state \in Editable
  <2>1. CASE pc'[a] \in {"fetched", "created", "abort"}
    BY <2>1 DEF DeleteSteps
  <2>3. CASE pc'[a] = "create" /\ pc[a] = "info"
    BY <2>3 DEF DeleteSteps
  <2>2. CASE pc'[a] = AfterFetch(op[a], m)
    <3> DEFINE next == AfterFetch(op[a], m)
    <3>1. /\ next \in {"set ns", "abort", "set ds", "commit"}
          /\ next = "set ns" => op[a] = "nameservers" /\ m.state \in Editable
      BY AfterFetchCases
    <3> HIDE DEF next
    <3> QED BY <1>2, <2>2, <3>1 DEF DeleteSteps, next
  <2> QED BY <1>2, <2>1, <2>2, <2>3
<1>3. CASE InfoFound(a)
  <2>1. PICK fixed \in FixUnknown(mem[a]) :
          /\ mem'[a] = fixed /\ pc[a] = "info"
          /\ pc'[a] = "fetched" \/ pc'[a] = AfterFetch(op[a], fixed)
    BY <1>1, <1>3 DEF InfoFound
  <2> QED BY <1>2, <2>1 DEF DeleteSteps
<1>4. CASE FixFailed(a) \/ InfoMissing(a) \/ InfoFailed(a) \/ CreateFailed(a)
  <2>1. /\ mem' = mem /\ pc[a] \in {"info", "create"}
        /\ \/ pc'[a] \in {"fetched", "created", "abort"} \/ pc'[a] = AfterFetch(op[a], mem[a])
           \/ (pc'[a] = "create" /\ pc[a] = "info")
    BY <1>1, <1>4 DEF FixFailed, InfoMissing, InfoFailed, CreateFailed
  <2> QED BY <1>2, <2>1 DEF DeleteSteps
<1>5. CASE CreateDone(a)
  BY <1>1, <1>5 DEF CreateDone, DeleteSteps
<1>6. CASE \/ \E enough \in BOOLEAN : SetNameservers(a, enough)
           \/ \E present \in BOOLEAN : SetDsData(a, present)
           \/ PlaceClientHold(a) \/ RevertClientHold(a)
  <2>1. pc'[a] \in {"save", "commit", "abort"}
    BY <1>1, <1>6 DEF SetNameservers, SetDsData, PlaceClientHold, RevertClientHold
  <2> QED BY <2>1 DEF DeleteSteps
<1>7. CASE DeleteHosts(a)
  <2>1. pc[a] = "del hosts" /\ pc'[a] \in {"del unhold", "del poll", "commit"}
        /\ (pc'[a] # "commit" => ~reg'.ns)
    BY <1>1, <1>7, RegistryFields DEF DeleteHosts, EppDone
  <2> QED BY <2>1 DEF HoldKept, DeleteSteps
<1>8. CASE DeleteUnhold(a) \/ DeleteDsData(a) \/ DeleteRehold(a) \/ DeletePoll(a) \/ DeleteDomain(a)
  <2>1. /\ pc[a] \in DeleteSteps \ {"del hosts"}
        /\ pc'[a] \in DeleteSteps \cup {"commit", "save"}
    BY <1>1, <1>8
       DEF DeleteUnhold, DeleteDsData, DeleteRehold, DeletePoll, DeleteDomain, DeleteSteps
  <2>2. ~reg'.ns
    BY <1>1, <1>8, <2>1, RegistryFields
       DEF HoldKept, DeleteUnhold, DeleteDsData, DeleteRehold, DeletePoll, DeleteDomain,
           EppDone, EppError
  <2> QED BY <2>1, <2>2 DEF HoldKept, DeleteSteps
<1> QED BY <1>3, <1>4, <1>5, <1>6, <1>7, <1>8 DEF EppStep

LEMMA HoldEpp ==
  ASSUME IInv, HoldInv, NEW a \in Actors, EppStep(a)
  PROVE  HoldKept(a)' /\ (row'.state = "on hold" => Quieted')
<1>1. /\ UNCHANGED <<row, op, stale>> /\ pend' = pend /\ pc[a] # "idle"
  BY EppFrame
<1>2. HoldKept(a) /\ (row.state = "on hold" => Quieted)
  BY <1>1 DEF HoldInv
<1>3. row.state = "on hold" => Quieted'
  BY <1>2, QuietCommands DEF HoldKept, Pages
<1>4. ~stale[a] /\ mem'[a].state = "on hold" => Quieted'
  BY <1>2, HoldObject, QuietCommands DEF HoldKept, Editable
<1>5. ~stale[a] /\ pend[a] # NoCopy /\ pend[a].state = "on hold" => Quieted'
  BY <1>2, QuietCommands DEF HoldKept, Editable
<1>6. pc'[a] \in {"info", "create"} /\ op[a] \in Pages => pend[a] = NoCopy
  BY <1>2, HoldSteps DEF HoldKept
<1>7. pc'[a] = "set ns" =>
        /\ op[a] = "nameservers" /\ mem'[a].state \in Editable
        /\ pend[a] # NoCopy => pend[a].state \in Editable
  BY <1>2, HoldSteps DEF HoldKept, Pages
<1>8. /\ pc'[a] \in {"admin save", "hold", "unhold"} \cup DeleteSteps => op[a] \notin Pages
      /\ pc'[a] \in DeleteSteps \ {"del hosts"} => ~reg'.ns
  BY <1>2, HoldSteps
<1>9. op[a] \in Pages => row.state # "on hold"
  BY <1>2 DEF HoldKept
<1> HIDE DEF Quieted
<1> QED BY <1>1, <1>3, <1>4, <1>5, <1>6, <1>7, <1>8, <1>9 DEF HoldKept

LEMMA HoldSave ==
  ASSUME IInv, HoldInv, NEW a \in Actors, Save(a)
  PROVE  HoldKept(a)'
<1>1. /\ UNCHANGED <<row, reg, op, mem, stale, lifted>> /\ pend'[a] = mem[a]
      /\ pc[a] \in SavePoints
  BY SaveFacts DEF IInv, TypeOK
<1>2. HoldKept(a) /\ Quieted' = Quieted
  BY <1>1 DEF HoldInv, SavePoints, Quieted
<1>3. /\ pc'[a] \in {"admin save", "hold", "unhold"} \cup DeleteSteps => op[a] \notin Pages
      /\ pc'[a] \in {"info", "create"} => op[a] \notin Pages
      /\ pc'[a] = "set ns" => op[a] = "nameservers" /\ mem[a].state \in Editable
      /\ pc'[a] \in DeleteSteps \ {"del hosts"} => ~reg.ns
  <2>1. CASE pc[a] = "admin save"
    <3>1. op[a] \in AdminOps /\ pc'[a] = AdminStep(a)
      BY <2>1, SaveFacts
    <3>2. pc'[a] \in {"commit", "info", "hold", "unhold", "abort", "del hosts"}
      BY <3>1, AdminStepCases
    <3> QED BY <3>1, <3>2 DEF AdminOps, Pages, DeleteSteps
  <2>2. CASE pc[a] \in {"created", "fetched"}
    <3>1. pc'[a] = AfterFetch(op[a], mem[a])
      BY <2>2, SaveFacts
    <3> DEFINE next == AfterFetch(op[a], mem[a])
    <3>3. /\ next \in {"set ns", "abort", "set ds", "commit"}
          /\ next = "set ns" => op[a] = "nameservers" /\ mem[a].state \in Editable
      BY AfterFetchCases
    <3> HIDE DEF next
    <3>2. /\ pc'[a] \in {"set ns", "abort", "set ds", "commit"}
          /\ pc'[a] = "set ns" => op[a] = "nameservers" /\ mem[a].state \in Editable
      BY <3>1, <3>3 DEF next
    <3> QED BY <3>2 DEF DeleteSteps
  <2>3. CASE pc[a] = "ds removed"
    <3>1. pc'[a] = "del hold"
      BY <2>3, SaveFacts
    <3> QED BY <1>2, <2>3, <3>1 DEF HoldKept, DeleteSteps
  <2>4. CASE pc[a] = "save"
    <3>1. pc'[a] = "commit"
      BY <2>4, SaveFacts
    <3> QED BY <3>1 DEF DeleteSteps
  <2> QED BY <1>1, <2>1, <2>2, <2>3, <2>4 DEF SavePoints
<1> QED BY <1>1, <1>2, <1>3 DEF HoldKept

LEMMA HoldNext ==
  ASSUME IInv, Serial, MachineInv, HoldInv, ~Overlap, [Next]_vars
  PROVE  HoldInv'
<1>1. ASSUME NEW a \in Actors, EppStep(a) \/ Save(a) PROVE HoldInv'
  <2>1. /\ row' = row /\ pc[a] # "idle"
        /\ \A b \in Actors \ {a} : pc'[b] = pc[b]
    BY <1>1, EppFrame, SaveFacts DEF SavePoints
  <2>2. \A b \in Actors \ {a} : pc'[b] = "idle"
    BY <2>1, Alone
  <2>3. HoldKept(a)'
    BY <1>1, HoldEpp, HoldSave
  <2>4. row'.state = "on hold" => Quieted'
    <3>1. CASE EppStep(a)
      BY <3>1, HoldEpp
    <3>2. CASE Save(a)
      BY <3>2, SaveFacts DEF HoldInv, Quieted
    <3> QED BY <1>1, <3>1, <3>2
  <2> QED BY <2>2, <2>3, <2>4 DEF HoldInv
<1>2. ASSUME NEW a \in Actors, Release(a), pc[a] # "idle",
             row'.state = "on hold" => Quieted'
      PROVE  HoldInv'
  <2>1. \A b \in Actors : pc'[b] = "idle"
    BY <1>2, Alone DEF Release, Goto, IInv, TypeOK
  <2> QED BY <1>2, <2>1 DEF HoldInv
<1>3. ASSUME NEW a \in Actors, Commit(a) PROVE HoldInv'
  <2>1. /\ Release(a) /\ reg' = reg /\ pc[a] = "commit" /\ HoldKept(a)
        /\ row' = IF pend[a] # NoCopy THEN pend[a] ELSE row
        /\ lifted' = (row'.state = "on hold" /\ (lifted \/ (stale[a] /\ pend[a] # NoCopy)))
        /\ row.state = "on hold" => Quieted
    BY <1>3 DEF Commit, HoldInv
  <2>2. row'.state = "on hold" => Quieted'
    BY <2>1 DEF Quieted, HoldKept
  <2> QED BY <1>2, <2>1, <2>2
<1>4. ASSUME NEW a \in Actors, Rollback(a), pc[a] # "idle" PROVE HoldInv'
  <2>1. row'.state = "on hold" => Quieted'
    BY <1>4 DEF Rollback, HoldInv, Quieted
  <2> QED BY <1>2, <1>4, <2>1 DEF Rollback
<1>5. ASSUME NEW a \in Actors, NEW o \in Ops, Begin(a, o) PROVE HoldInv'
  <2>1. /\ UNCHANGED <<row, reg, lifted, pend>> /\ pend[a] = NoCopy
        /\ mem'[a] = Loaded(a, o) /\ stale'[a] = (Loaded(a, o) # row)
        /\ op'[a] = o /\ pc'[a] = FirstStep(o) /\ Allowed(o)
        /\ row.state = "on hold" => Quieted
    BY <1>5 DEF Begin, SetMem, Goto, Serial, HoldInv, IInv, TypeOK
  <2>2. \A b \in Actors \ {a} : pc'[b] = "idle"
    BY <1>5 DEF Begin, Goto, IInv, TypeOK
  <2>3. o \in Pages => row.state \in Editable
    BY <2>1 DEF Allowed, Pages
  <2>4. /\ pc'[a] \notin DeleteSteps \cup {"set ns"}
        /\ pc'[a] \in {"admin save", "hold", "unhold"} => o \notin Pages
    BY <2>1, FirstStepFacts DEF Pages, AdminOps, DeleteSteps
  <2>5. HoldKept(a)'
    BY <2>1, <2>3, <2>4 DEF HoldKept, Quieted, Editable
  <2> QED BY <2>1, <2>2, <2>5 DEF HoldInv, Quieted
<1>6. CASE UNCHANGED vars
  BY <1>6 DEF vars, HoldInv, HoldKept, Quieted
<1> QED BY <1>1, <1>3, <1>4, <1>5, <1>6 DEF Next, Abort, Crash

\* As long as requests do not overlap, a domain whose row says "on hold" does
\* not resolve, with lost answers, dead workers, failed and resumed deletions
\* and old copies, unless the hold was lifted or an old copy wrote the row.
THEOREM SerialOnHoldDoesNotResolve == ASSUME ~Overlap PROVE Spec => []OnHoldDoesNotResolve
<1> DEFINE I == IInv /\ Serial /\ DeletionInv /\ MachineInv /\ HoldInv
<1>1. Init => I
  BY InitInvariant, SerialInit DEF Init, MachineInv, HoldInv, NewRow
<1>2. I /\ [Next]_vars => I'
  BY StepInvariant, SerialNext, DeletionNext, MachineNext, HoldNext
<1>3. I => OnHoldDoesNotResolve
  BY DEF HoldInv, Quieted, OnHoldDoesNotResolve
<1> QED BY <1>1, <1>2, <1>3, PTL DEF Spec

=============================================================================
