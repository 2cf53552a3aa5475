----------------------- MODULE DomainLifecycleProofs -----------------------
(***************************************************************************)
(* What holds of a domain's row and of every copy of it, for any number    *)
(* of sessions and requests, overlapping or not, with or without lost      *)
(* answers and crashes.                                                    *)
(***************************************************************************)
EXTENDS DomainLifecycle, TLAPS

-----------------------------------------------------------------------------
(* The inductive invariant *)

\* What the transitions keep true of one version of the row.
GoodCopy(c) ==
  /\ c.state \in {"ready", "on hold"} => c.fr # 0
  /\ c.del <=> c.state = "deleted"

GoodCopies ==
  /\ GoodCopy(row)
  /\ \A a \in Actors :
       /\ GoodCopy(mem[a])
       /\ session[a] # NoCopy => GoodCopy(session[a])
       /\ pend[a] # NoCopy => GoodCopy(pend[a])

\* What a request knows when it reaches a step: the check that led there was
\* made on the object the step works on.
StepsChecked ==
  \A a \in Actors :
    /\ pc[a] # "idle" => clock # 0
    /\ pc[a] = "admin save" => op[a] \in AdminOps
    /\ pc[a] \in {"hold", "unhold"} => mem[a].state \in HoldSources
    /\ pc[a] = "create" => mem[a].state = "unknown"

IInv == TypeOK /\ StepsChecked /\ GoodCopies /\ OneWriter

-----------------------------------------------------------------------------
(* The operators of the model *)

LEMMA CopyFacts ==
  ASSUME NEW m \in Copy, clock \in Nat
  PROVE  /\ ReadyOf(m) \in Copy /\ DnsNeededOf(m) \in Copy /\ OnHoldOf(m) \in Copy
         /\ UnholdOf(m) \in Copy /\ DeletedOf(m) \in Copy
         /\ m # NoCopy
<1>1. m.state # NoCopy.state
  BY DEF Copy, States, NoCopy
<1>2. /\ ReadyOf(m) \in Copy /\ DnsNeededOf(m) \in Copy /\ OnHoldOf(m) \in Copy
      /\ UnholdOf(m) \in Copy /\ DeletedOf(m) \in Copy
  BY DEF ReadyOf, DnsNeededOf, OnHoldOf, UnholdOf, DeletedOf, Copy, States
<1> QED BY <1>1, <1>2

\* The transitions keep an object good, from the states they start in.
LEMMA GoodTransitions ==
  ASSUME NEW m \in Copy, GoodCopy(m), clock \in Nat, clock # 0
  PROVE  /\ m.state # "deleted" => GoodCopy(ReadyOf(m))
         /\ m.state # "deleted" => GoodCopy(DnsNeededOf(m))
         /\ m.state \in HoldSources => GoodCopy(OnHoldOf(m))
         /\ m.state \in HoldSources => GoodCopy(UnholdOf(m))
         /\ GoodCopy(DeletedOf(m))
  BY DEF GoodCopy, ReadyOf, DnsNeededOf, OnHoldOf, UnholdOf, DeletedOf, HoldSources,
         Copy, States

LEMMA FixedIsGood ==
  ASSUME NEW m \in Copy, GoodCopy(m), clock \in Nat, clock # 0,
         NEW fixed \in FixUnknown(m)
  PROVE  fixed \in Copy /\ GoodCopy(fixed)
<1>1. CASE m.state # "unknown"
  BY <1>1 DEF FixUnknown
<1>2. CASE m.state = "unknown"
  <2>1. fixed = DnsNeededOf(m) \/ fixed = ReadyOf(DnsNeededOf(m))
    BY <1>2 DEF FixUnknown
  <2>2. DnsNeededOf(m) \in Copy /\ GoodCopy(DnsNeededOf(m))
    BY <1>2, CopyFacts, GoodTransitions
  <2>3. DnsNeededOf(m).state # "deleted"
    BY DEF DnsNeededOf, Copy
  <2>4. ReadyOf(DnsNeededOf(m)) \in Copy /\ GoodCopy(ReadyOf(DnsNeededOf(m)))
    BY <2>2, <2>3, CopyFacts, GoodTransitions
  <2> QED BY <2>1, <2>2, <2>4
<1> QED BY <1>1, <1>2

LEMMA FirstStepFacts ==
  ASSUME NEW o \in Ops
  PROVE  /\ FirstStep(o) \in {"info", "admin save", "hold"}
         /\ FirstStep(o) = "admin save" => o \in AdminOps
         /\ FirstStep(o) = "hold" => o = "user hold"
  BY DEF FirstStep, Ops, SessionOps, AdminOps

LEMMA AfterFetchFacts ==
  ASSUME NEW o, NEW m
  PROVE  AfterFetch(o, m) \in {"set ns", "abort", "set ds", "commit"}
  BY DEF AfterFetch

LEMMA AdminStepFacts ==
  ASSUME NEW a \in Actors, op[a] \in AdminOps
  PROVE  /\ AdminStep(a) \in {"commit", "info", "hold", "unhold", "abort", "del hosts"}
         /\ AdminStep(a) \in {"hold", "unhold"} => mem[a].state \in HoldSources
  BY DEF AdminStep, AdminOps

\* What an EPP command can do to the registry's object, whatever its answer.
LEMMA CommandFacts ==
  ASSUME TypeOK, NEW new \in Registry, EppDone(new) \/ EppError(new)
  PROVE  reg' \in Registry
  BY DEF EppDone, EppError, TypeOK

LEMMA RegistryFacts ==
  ASSUME TypeOK, NEW b \in BOOLEAN
  PROVE  /\ Absent \in Registry /\ Created \in Registry
         /\ [reg EXCEPT !.ns = b] \in Registry
         /\ [reg EXCEPT !.ds = b] \in Registry
         /\ [reg EXCEPT !.hold = b] \in Registry
  BY DEF TypeOK, Registry, Absent, Created

-----------------------------------------------------------------------------
(* Steps between two registry commands have one shape: they move their own *)
(* request on, with an object that is good and fit for the next step.      *)

Moves(a, next, m) ==
  /\ next \in Steps \ {"idle", "admin save"}
  /\ m \in Copy /\ GoodCopy(m)
  /\ next \in {"hold", "unhold"} => m.state \in HoldSources
  /\ next = "create" => m.state = "unknown"
  /\ pc[a] # "idle"
  /\ Goto(a, next) /\ SetMem(a, m)
  /\ reg' \in Registry /\ doubt' \in BOOLEAN /\ lifted' \in BOOLEAN
  /\ UNCHANGED <<row, lock, session, op, pend, clock, stale>>

LEMMA MovesKeepInvariant ==
  ASSUME IInv, NEW a \in Actors, NEW next, NEW m, Moves(a, next, m)
  PROVE  IInv'
<1> USE DEF Moves, Goto, SetMem
<1>1. TypeOK'
  BY DEF IInv, TypeOK
<1>2. StepsChecked'
  BY DEF IInv, TypeOK, StepsChecked
<1>3. GoodCopies'
  BY DEF IInv, TypeOK, GoodCopies, GoodCopy
<1>4. OneWriter'
  BY DEF IInv, TypeOK, OneWriter
<1> QED BY <1>1, <1>2, <1>3, <1>4 DEF IInv

\* Every step towards the registry is of that shape.
LEMMA EppStepMoves ==
  ASSUME IInv, NEW a \in Actors, EppStep(a)
  PROVE  \E next, m : Moves(a, next, m)
<1> DEFINE m == mem[a]
<1>1. /\ m \in Copy /\ GoodCopy(m) /\ mem = [mem EXCEPT ![a] = m]
      /\ clock \in Nat /\ reg \in Registry /\ doubt \in BOOLEAN /\ lifted \in BOOLEAN
      /\ TypeOK
      /\ pc[a] # "idle" => clock # 0
      /\ pc[a] \in {"hold", "unhold"} => m.state \in HoldSources
      /\ pc[a] = "create" => m.state = "unknown"
  BY DEF IInv, TypeOK, StepsChecked, GoodCopies
\* A step that does not touch the object, and continues at one of these.
<1> DEFINE Quiet == {"commit", "abort", "set ns", "set ds", "fetched", "save", "created",
                     "ds removed", "info", "del hosts", "del unhold", "del ds", "del hold",
                     "del poll", "del domain"}
<1>2. ASSUME NEW next \in Quiet, Goto(a, next), mem' = mem, pc[a] # "idle",
             reg' \in Registry, doubt' \in BOOLEAN, lifted' \in BOOLEAN,
             UNCHANGED <<row, lock, session, op, pend, clock, stale>>
      PROVE  Moves(a, next, m)
  BY <1>1, <1>2 DEF Moves, SetMem, Steps, SavePoints, EppSteps
\* A step that changes it.
<1>3. ASSUME NEW next \in Quiet, NEW new, Goto(a, next), SetMem(a, new),
             new \in Copy, GoodCopy(new), pc[a] # "idle",
             reg' \in Registry, doubt' \in BOOLEAN, lifted' \in BOOLEAN,
             UNCHANGED <<row, lock, session, op, pend, clock, stale>>
      PROVE  Moves(a, next, new)
  BY <1>3 DEF Moves, Steps, SavePoints, EppSteps
<1> HIDE DEF m
<1>4. CASE InfoFound(a)
  <2>1. PICK fixed \in FixUnknown(m) :
          /\ SetMem(a, fixed)
          /\ Goto(a, "fetched") \/ Goto(a, AfterFetch(op[a], fixed))
    BY <1>4 DEF InfoFound, m
  <2>2. fixed \in Copy /\ GoodCopy(fixed)
    BY <1>1, <1>4, <2>1, FixedIsGood DEF InfoFound
  <2>3. \E next \in Quiet : Goto(a, next)
    BY <2>1, AfterFetchFacts
  <2> QED BY <1>1, <1>3, <1>4, <2>1, <2>2, <2>3 DEF InfoFound
<1>5. CASE FixFailed(a)
  <2>1. \E next \in Quiet : Goto(a, next)
    BY <1>5, AfterFetchFacts DEF FixFailed
  <2> QED BY <1>1, <1>2, <1>5, <2>1 DEF FixFailed
<1>6. CASE InfoMissing(a)
  BY <1>1, <1>6 DEF InfoMissing, Moves, SetMem, Goto, Steps, EppSteps, m
<1>7. CASE InfoFailed(a)
  <2>1. \E next \in Quiet : Goto(a, next)
    BY <1>7, AfterFetchFacts DEF InfoFailed
  <2> QED BY <1>1, <1>2, <1>7, <2>1 DEF InfoFailed
<1>8. CASE CreateDone(a)
  <2>1. DnsNeededOf(m) \in Copy /\ GoodCopy(DnsNeededOf(m))
    BY <1>1, <1>8, CopyFacts, GoodTransitions DEF CreateDone
  <2>2. reg' \in Registry
    BY <1>1, <1>8, RegistryFacts DEF CreateDone
  <2> QED BY <1>1, <1>3, <1>8, <2>1, <2>2 DEF CreateDone, m
<1>9. CASE CreateFailed(a)
  <2>1. reg' \in Registry
    BY <1>1, <1>9, RegistryFacts DEF CreateFailed
  <2>2. \E next \in Quiet : Goto(a, next)
    BY <1>9, AfterFetchFacts DEF CreateFailed
  <2> QED BY <1>1, <1>2, <1>9, <2>1, <2>2 DEF CreateFailed
<1>10. ASSUME NEW enough \in BOOLEAN, SetNameservers(a, enough)
       PROVE  \E next, mm : Moves(a, next, mm)
  <2>1. reg' \in Registry
    BY <1>1, <1>10, CommandFacts, RegistryFacts DEF SetNameservers
  <2>2. CASE SetMem(a, IF enough THEN ReadyOf(m) ELSE DnsNeededOf(m)) /\ Goto(a, "save")
             /\ m.state # "deleted"
    <3>1. /\ ReadyOf(m) \in Copy /\ GoodCopy(ReadyOf(m))
          /\ DnsNeededOf(m) \in Copy /\ GoodCopy(DnsNeededOf(m))
      BY <1>1, <1>10, <2>2, CopyFacts, GoodTransitions DEF SetNameservers
    <3> QED BY <1>1, <1>3, <1>10, <2>1, <2>2, <3>1 DEF SetNameservers
  <2>3. CASE Goto(a, "commit") /\ UNCHANGED mem
    BY <1>1, <1>2, <1>10, <2>1, <2>3 DEF SetNameservers
  <2> QED BY <1>10, <2>2, <2>3 DEF SetNameservers, ReadySources, DnsNeededSources, m
<1>11. ASSUME NEW present \in BOOLEAN, SetDsData(a, present)
       PROVE  \E next, mm : Moves(a, next, mm)
  <2>1. reg' \in Registry
    BY <1>1, <1>11, CommandFacts, RegistryFacts DEF SetDsData
  <2>2. \E next \in Quiet : Goto(a, next)
    BY <1>11 DEF SetDsData
  <2> QED BY <1>1, <1>2, <1>11, <2>1, <2>2 DEF SetDsData
<1>12. CASE PlaceClientHold(a)
  <2>1. reg' \in Registry
    BY <1>1, <1>12, CommandFacts, RegistryFacts DEF PlaceClientHold
  <2>2. OnHoldOf(m) \in Copy /\ GoodCopy(OnHoldOf(m))
    BY <1>1, <1>12, CopyFacts, GoodTransitions DEF PlaceClientHold
  <2> QED BY <1>1, <1>2, <1>3, <1>12, <2>1, <2>2 DEF PlaceClientHold, m
<1>13. CASE RevertClientHold(a)
  <2>1. reg' \in Registry
    BY <1>1, <1>13, CommandFacts, RegistryFacts DEF RevertClientHold
  <2>2. UnholdOf(m) \in Copy /\ GoodCopy(UnholdOf(m))
    BY <1>1, <1>13, CopyFacts, GoodTransitions DEF RevertClientHold
  <2> QED BY <1>1, <1>2, <1>3, <1>13, <2>1, <2>2 DEF RevertClientHold, m
<1>14. CASE DeleteHosts(a)
  <2>1. reg' \in Registry
    BY <1>1, <1>14, CommandFacts, RegistryFacts DEF DeleteHosts
  <2> QED BY <1>1, <1>2, <1>14, <2>1 DEF DeleteHosts
<1>15. CASE DeleteUnhold(a)
  <2>1. reg' \in Registry
    BY <1>1, <1>15, CommandFacts, RegistryFacts DEF DeleteUnhold
  <2> QED BY <1>1, <1>2, <1>15, <2>1 DEF DeleteUnhold
<1>16. CASE DeleteDsData(a)
  <2>1. reg' \in Registry
    BY <1>1, <1>16, CommandFacts, RegistryFacts DEF DeleteDsData
  <2> QED BY <1>1, <1>2, <1>16, <2>1 DEF DeleteDsData
<1>17. CASE DeleteRehold(a)
  <2>1. reg' \in Registry
    BY <1>1, <1>17, CommandFacts, RegistryFacts DEF DeleteRehold
  <2> QED BY <1>1, <1>2, <1>17, <2>1 DEF DeleteRehold
<1>18. CASE DeletePoll(a)
  BY <1>1, <1>2, <1>18 DEF DeletePoll
<1>19. CASE DeleteDomain(a)
  <2>1. reg' \in Registry
    BY <1>1, <1>19, CommandFacts, RegistryFacts DEF DeleteDomain
  <2>2. doubt' \in BOOLEAN
    BY <1>1, <1>19 DEF DeleteDomain
  <2>3. DeletedOf(m) \in Copy /\ GoodCopy(DeletedOf(m))
    BY <1>1, <1>19, CopyFacts, GoodTransitions DEF DeleteDomain
  <2> QED BY <1>1, <1>2, <1>3, <1>19, <2>1, <2>2, <2>3 DEF DeleteDomain, m
<1> QED BY <1>4, <1>5, <1>6, <1>7, <1>8, <1>9, <1>10, <1>11, <1>12, <1>13, <1>14,
           <1>15, <1>16, <1>17, <1>18, <1>19 DEF EppStep

-----------------------------------------------------------------------------
(* The database's side of a request *)

\* What a finished transaction leaves: its lock released, its write gone.
LEMMA ReleaseFacts ==
  ASSUME IInv, NEW a \in Actors, Release(a)
  PROVE  /\ lock' \in Actors \cup {NoActor}
         /\ pend' \in [Actors -> Copy \cup {NoCopy}]
         /\ pc' \in [Actors -> Steps] /\ stale' \in [Actors -> BOOLEAN]
         /\ \A b \in Actors : pend'[b] # NoCopy => pend'[b] = pend[b]
         /\ \A b \in Actors : pc'[b] # "idle" => pc'[b] = pc[b]
         /\ OneWriter'
<1>1. /\ lock \in Actors \cup {NoActor} /\ pend \in [Actors -> Copy \cup {NoCopy}]
      /\ pc \in [Actors -> Steps]
      /\ \A b \in Actors : pend[b] # NoCopy <=> lock = b
      /\ NoActor \notin Actors
  BY LifecycleAssumption DEF IInv, TypeOK, OneWriter
<1>2. lock' \in Actors \cup {NoActor} /\ pend' \in [Actors -> Copy \cup {NoCopy}]
  BY <1>1 DEF Release
<1>3. pc' \in [Actors -> Steps] /\ stale' \in [Actors -> BOOLEAN]
  BY <1>1 DEF Release, Goto, Steps, IInv, TypeOK
<1>4. /\ \A b \in Actors : pend'[b] # NoCopy => pend'[b] = pend[b]
      /\ \A b \in Actors : pc'[b] # "idle" => pc'[b] = pc[b]
  BY <1>1 DEF Release, Goto
<1>5. ASSUME NEW b \in Actors
      PROVE  pend'[b] # NoCopy <=> lock' = b
  BY <1>1 DEF Release
<1> QED BY <1>2, <1>3, <1>4, <1>5 DEF OneWriter

LEMMA RollbackKeepsInvariant ==
  ASSUME IInv, NEW a \in Actors, Rollback(a)
  PROVE  IInv'
<1>1. TypeOK'
  BY ReleaseFacts DEF IInv, TypeOK, Rollback
<1>2. StepsChecked'
  BY ReleaseFacts DEF IInv, TypeOK, StepsChecked, Rollback
<1>3. GoodCopies'
  BY ReleaseFacts DEF IInv, TypeOK, GoodCopies, GoodCopy, Rollback
<1> QED BY <1>1, <1>2, <1>3, ReleaseFacts DEF IInv, Rollback

LEMMA CommitKeepsInvariant ==
  ASSUME IInv, NEW a \in Actors, Commit(a)
  PROVE  IInv'
<1>1. /\ Release(a) /\ UNCHANGED <<reg, op, mem, clock>>
      /\ row' = row \/ (pend[a] # NoCopy /\ row' = pend[a])
      /\ session' = session \/ session' = [session EXCEPT ![a] = mem[a]]
      /\ doubt' \in BOOLEAN /\ lifted' \in BOOLEAN
  BY DEF Commit
<1>2. TypeOK'
  BY <1>1, ReleaseFacts DEF IInv, TypeOK
<1>3. StepsChecked'
  BY <1>1, ReleaseFacts DEF IInv, TypeOK, StepsChecked
<1>4. GoodCopies'
  <2>1. GoodCopy(row')
    BY <1>1 DEF IInv, GoodCopies
  <2>2. ASSUME NEW b \in Actors
        PROVE  /\ GoodCopy(mem'[b])
               /\ pend'[b] # NoCopy => GoodCopy(pend'[b])
    BY <1>1, ReleaseFacts DEF IInv, GoodCopies
  <2>3. ASSUME NEW b \in Actors
        PROVE  session'[b] # NoCopy => GoodCopy(session'[b])
    BY <1>1 DEF IInv, TypeOK, GoodCopies
  <2> QED BY <2>1, <2>2, <2>3 DEF GoodCopies, GoodCopy
<1> QED BY <1>1, <1>2, <1>3, <1>4, ReleaseFacts DEF IInv

LEMMA SaveKeepsInvariant ==
  ASSUME IInv, NEW a \in Actors, Save(a)
  PROVE  IInv'
<1> DEFINE next == pc'[a]
<1>1. /\ lock' = a /\ lock \in {NoActor, a} /\ pend' = [pend EXCEPT ![a] = mem[a]]
      /\ pc[a] \in SavePoints
      /\ UNCHANGED <<row, reg, session, op, mem, clock, stale, doubt, lifted>>
  BY DEF Save
<1>2. pc[a] = "admin save" => op[a] \in AdminOps
  BY DEF IInv, StepsChecked
<1>3. /\ Goto(a, next)
      /\ next \in {"commit", "info", "hold", "unhold", "abort", "del hosts", "set ns",
                   "set ds", "del hold"}
      /\ next \in {"hold", "unhold"} => mem[a].state \in HoldSources
  <2>1. CASE pc[a] = "admin save"
    BY <1>2, <2>1, AdminStepFacts DEF Save, Goto, IInv, TypeOK
  <2>2. CASE pc[a] \in {"created", "fetched"}
    BY <2>2, AfterFetchFacts DEF Save, Goto, IInv, TypeOK
  <2>3. CASE pc[a] \in {"ds removed", "save"}
    BY <2>3 DEF Save, Goto, IInv, TypeOK
  <2> QED BY <1>1, <2>1, <2>2, <2>3 DEF SavePoints
<1> HIDE DEF next
<1>4. TypeOK'
  BY <1>1, <1>3 DEF IInv, TypeOK, Goto, Steps, EppSteps
<1>5. StepsChecked'
  BY <1>1, <1>3 DEF IInv, TypeOK, StepsChecked, Goto, SavePoints
<1>6. GoodCopies'
  BY <1>1 DEF IInv, TypeOK, GoodCopies, GoodCopy
<1>7. OneWriter'
  <2>1. mem[a] # NoCopy
    BY CopyFacts DEF IInv, TypeOK
  <2>2. ASSUME NEW b \in Actors
        PROVE  pend'[b] # NoCopy <=> lock' = b
    BY <1>1, <2>1, LifecycleAssumption DEF IInv, TypeOK, OneWriter
  <2> QED BY <2>2 DEF OneWriter
<1> QED BY <1>4, <1>5, <1>6, <1>7 DEF IInv

LEMMA BeginKeepsInvariant ==
  ASSUME IInv, NEW a \in Actors, NEW o \in Ops, Begin(a, o)
  PROVE  IInv'
<1> DEFINE m == Loaded(a, o)
<1>1. /\ m \in Copy /\ GoodCopy(m)
      /\ o = "user hold" => m = row
  BY DEF Loaded, IInv, TypeOK, GoodCopies
<1> HIDE DEF m
<1>2. /\ pc[a] = "idle" /\ clock' = clock + 1 /\ op' = [op EXCEPT ![a] = o]
      /\ SetMem(a, m) /\ Goto(a, FirstStep(o))
      /\ stale' = [stale EXCEPT ![a] = m # row]
      /\ UNCHANGED <<row, reg, lock, session, pend, doubt, lifted>>
      /\ o = "user hold" => row.state = "ready"
  BY DEF Begin, m
<1>0. clock' \in Nat /\ clock' # 0
  <2>1. clock \in Nat /\ clock' = clock + 1
    BY DEF Begin, IInv, TypeOK
  <2> QED BY <2>1
<1>3. TypeOK'
  BY <1>0, <1>1, <1>2, FirstStepFacts
     DEF IInv, TypeOK, Goto, SetMem, Steps, SavePoints, EppSteps
<1>4. StepsChecked'
  <2>1. /\ FirstStep(o) \notin {"unhold", "create"}
        /\ FirstStep(o) = "admin save" => o \in AdminOps
        /\ FirstStep(o) = "hold" => m.state \in HoldSources
    BY <1>1, <1>2, FirstStepFacts DEF HoldSources
  <2> QED BY <1>0, <1>2, <2>1 DEF IInv, TypeOK, StepsChecked, Goto, SetMem
<1>5. GoodCopies'
  BY <1>1, <1>2 DEF IInv, TypeOK, GoodCopies, GoodCopy, SetMem
<1>6. OneWriter'
  BY <1>2 DEF IInv, OneWriter
<1> QED BY <1>3, <1>4, <1>5, <1>6 DEF IInv

-----------------------------------------------------------------------------
LEMMA InitInvariant == Init => IInv
<1> SUFFICES ASSUME Init PROVE IInv
  OBVIOUS
<1>1. TypeOK
  BY DEF Init, TypeOK, NewRow, Absent, Copy, States, Registry, Steps, Ops, SessionOps
<1>2. StepsChecked
  BY DEF Init, StepsChecked
<1>3. GoodCopies
  BY DEF Init, GoodCopies, GoodCopy, NewRow
<1>4. OneWriter
  BY LifecycleAssumption DEF Init, OneWriter
<1> QED BY <1>1, <1>2, <1>3, <1>4 DEF IInv

LEMMA StepInvariant == IInv /\ [Next]_vars => IInv'
<1> SUFFICES ASSUME IInv, [Next]_vars PROVE IInv'
  OBVIOUS
<1>1. ASSUME NEW a \in Actors, NEW o \in Operations \cap Ops, Begin(a, o) PROVE IInv'
  BY <1>1, BeginKeepsInvariant
<1>2. ASSUME NEW a \in Actors, EppStep(a) PROVE IInv'
  <2>1. PICK next, m : Moves(a, next, m)
    BY <1>2, EppStepMoves
  <2> QED BY <2>1, MovesKeepInvariant
<1>3. ASSUME NEW a \in Actors, Save(a) PROVE IInv'
  BY <1>3, SaveKeepsInvariant
<1>4. ASSUME NEW a \in Actors, Commit(a) PROVE IInv'
  BY <1>4, CommitKeepsInvariant
<1>5. ASSUME NEW a \in Actors, Abort(a) \/ Crash(a) PROVE IInv'
  BY <1>5, RollbackKeepsInvariant DEF Abort, Crash
<1>6. CASE UNCHANGED vars
  BY <1>6 DEF vars, IInv, TypeOK, StepsChecked, GoodCopies, GoodCopy, OneWriter
<1> QED BY <1>1, <1>2, <1>3, <1>4, <1>5, <1>6 DEF Next

\* The inductive invariant, which the theorems below weaken.
THEOREM Invariance == Spec => []IInv
  BY InitInvariant, StepInvariant, PTL DEF Spec

-----------------------------------------------------------------------------
\* Every variable keeps its type: in particular every copy of the row is a
\* Domain object in a state of the FSM field.
THEOREM TypeCorrect == Spec => []TypeOK
<1>1. IInv => TypeOK
  BY DEF IInv
<1> QED BY <1>1, Invariance, PTL

\* A transaction that has written the row holds its lock, and only one does.
THEOREM WritersExclude == Spec => []OneWriter
<1>1. IInv => OneWriter
  BY DEF IInv
<1> QED BY <1>1, Invariance, PTL

LEMMA CopiesAreGood ==
  ASSUME IInv, NEW c \in Copies
  PROVE  GoodCopy(c)
  BY DEF IInv, GoodCopies, Copies

\* Whatever stale version of a domain is saved last, one that is ready or on
\* hold has its first_ready.
THEOREM StampNeverMissing == Spec => []ReadyHasFirstReady
<1>1. IInv => ReadyHasFirstReady
  BY CopiesAreGood DEF ReadyHasFirstReady, GoodCopy
<1> QED BY <1>1, Invariance, PTL

\* The date of deletion and the state "deleted" never part, in any version
\* of the row.
THEOREM DateMatchesState == Spec => []DeletedDateMatches
<1>1. IInv => DeletedDateMatches
  BY CopiesAreGood DEF DeletedDateMatches, GoodCopy
<1> QED BY <1>1, Invariance, PTL

=============================================================================
