-------------------------- MODULE EppClientProofs --------------------------
(***************************************************************************)
(* The connection lock, the connection it guards and what `send` promises, *)
(* for any number of greenlets.                                            *)
(***************************************************************************)
EXTENDS EppClient, TLAPS

\* Every open connection is the client's, so none is left behind.
ConnectionCounted == opened = Live(client)

\* Before it connects, a call has no connection.
ConnectsFresh ==
  \A c \in Callers : pc[c] \in {"init connect", "connect"} => client \in {"none", "unconnected"}

\* A first attempt has executed nothing, a retry follows one execution at most.
ExecutionsCounted ==
  \A c \in Callers :
    /\ pc[c] \in {"waiting", "send"} \cup InitSteps => executed[c] = 0
    /\ pc[c] \in RetrySteps => executed[c] \in {0, 1}

\* After a step that succeeded, the next one finds the client as it was left
\* unless something failed.
FaultsKnown ==
  \A c \in Callers :
    /\ pc[c] = "login" /\ client # "connected" => faulted[c]
    /\ pc[c] = "resend" /\ client # "ready" => faulted[c]

IInv ==
  /\ TypeOK
  /\ ConnectionExclusive
  /\ ConnectionCounted
  /\ ConnectsFresh
  /\ ExecutionsCounted
  /\ FaultsKnown
  /\ FailureHasCause

-----------------------------------------------------------------------------
LEMMA InitInvariant == Init => IInv
<1> SUFFICES ASSUME Init PROVE IInv
  OBVIOUS
<1>1. TypeOK
  BY DEF Init, TypeOK, Live, ClientStates, Results
<1>2. ConnectionExclusive
  BY EppAssumption DEF Init, ConnectionExclusive, Critical, InitSteps, RetrySteps
<1>3. ConnectionCounted /\ ConnectsFresh /\ ExecutionsCounted /\ FaultsKnown /\ FailureHasCause
  BY DEF Init, ConnectionCounted, ConnectsFresh, ExecutionsCounted, FaultsKnown,
         FailureHasCause, InitSteps, RetrySteps
<1> QED BY <1>1, <1>2, <1>3 DEF IInv

LEMMA LiveFacts == \A state : Live(state) \in {0, 1}
  BY DEF Live

\* A change of the client keeps the count of connections right.
LEMMA ClientFacts ==
  ASSUME ConnectionCounted, opened \in Nat, NEW state, SetClient(state)
  PROVE  client' = state /\ opened' = Live(client')
  BY LiveFacts DEF SetClient, ConnectionCounted

-----------------------------------------------------------------------------
(* The steps of a call under the lock have one shape: e, f and r are what  *)
(* the step makes of the call's executions, fault and result.              *)

Moves(c, next, e, f, r) ==
  /\ pc[c] \in Critical /\ next \in Critical \cup {"idle"}
  /\ Goto(c, next)
  /\ executed' = [executed EXCEPT ![c] = e] /\ e \in Nat
  /\ faulted' = [faulted EXCEPT ![c] = f] /\ f \in BOOLEAN
  /\ result' = [result EXCEPT ![c] = r] /\ r \in Results
  /\ holder' = (IF next = "idle" THEN NoCaller ELSE holder)
  /\ client' \in ClientStates /\ opened' = Live(client')
  /\ next \in {"init connect", "connect"} => client' \in {"none", "unconnected"}
  /\ next \in {"send"} \cup InitSteps => e = 0
  /\ next \in RetrySteps => e \in {0, 1}
  /\ next = "login" /\ client' # "connected" => f
  /\ next = "resend" /\ client' # "ready" => f
  /\ r = "failed" => f

LEMMA MovesKeepInvariant ==
  ASSUME IInv, NEW c \in Callers, NEW next, NEW e, NEW f, NEW r, Moves(c, next, e, f, r)
  PROVE  IInv'
<1> DEFINE Others == Callers \ {c}
<1>1. /\ pc[c] \in Critical /\ holder = c
      /\ \A d \in Others : pc[d] \notin Critical
  BY DEF Moves, IInv, ConnectionExclusive
<1>2. /\ pc'[c] = next /\ executed'[c] = e /\ faulted'[c] = f /\ result'[c] = r
      /\ \A d \in Others : /\ pc'[d] = pc[d] /\ executed'[d] = executed[d]
                           /\ faulted'[d] = faulted[d] /\ result'[d] = result[d]
  BY DEF Moves, Goto, IInv, TypeOK
<1>3. TypeOK'
  <2>1. opened' \in Nat
    <3>1. opened' = Live(client')
      BY DEF Moves
    <3>2. Live(client') \in {0, 1}
      BY LiveFacts
    <3> QED BY <3>1, <3>2
  <2>2. holder' \in Callers \cup {NoCaller}
    BY DEF Moves, IInv, TypeOK
  <2> QED BY <2>1, <2>2 DEF Moves, Goto, IInv, TypeOK
<1>4. ConnectionExclusive'
  BY <1>1, <1>2, EppAssumption
     DEF Moves, ConnectionExclusive, Critical, InitSteps, RetrySteps
<1>5. ConnectionCounted'
  BY DEF Moves, ConnectionCounted
<1>6. ConnectsFresh'
  BY <1>1, <1>2 DEF Moves, ConnectsFresh, Critical, InitSteps, RetrySteps
<1>7. ExecutionsCounted'
  <2>1. /\ next # "waiting"
        /\ next \in {"send"} \cup InitSteps => e = 0
        /\ next \in RetrySteps => e \in {0, 1}
    BY DEF Moves, Critical, InitSteps, RetrySteps
  <2>2. ASSUME NEW d \in Callers
        PROVE  /\ pc'[d] \in {"waiting", "send"} \cup InitSteps => executed'[d] = 0
               /\ pc'[d] \in RetrySteps => executed'[d] \in {0, 1}
    <3>1. CASE d = c
      BY <1>2, <2>1, <3>1
    <3>2. CASE d # c
      BY <1>2, <3>2 DEF IInv, ExecutionsCounted
    <3> QED BY <3>1, <3>2
  <2> QED BY <2>2 DEF ExecutionsCounted
<1>8. FaultsKnown'
  <2>1. ASSUME NEW d \in Callers
        PROVE  /\ pc'[d] = "login" /\ client' # "connected" => faulted'[d]
               /\ pc'[d] = "resend" /\ client' # "ready" => faulted'[d]
    <3>1. CASE d = c
      BY <1>2, <3>1 DEF Moves
    <3>2. CASE d # c
      BY <1>1, <1>2, <3>2 DEF Critical, RetrySteps
    <3> QED BY <3>1, <3>2
  <2> QED BY <2>1 DEF FaultsKnown
<1>9. FailureHasCause'
  BY <1>1, <1>2 DEF Moves, IInv, FailureHasCause
<1> QED BY <1>3, <1>4, <1>5, <1>6, <1>7, <1>8, <1>9 DEF IInv

LEMMA StepMoves ==
  ASSUME IInv, NEW c \in Callers, Step(c)
  PROVE  \E next, e, f, r : Moves(c, next, e, f, r)
<1> DEFINE e == executed[c]
           f == faulted[c]
           r == result[c]
<1> HIDE DEF e, f, r
<1>1. /\ e \in Nat /\ f \in BOOLEAN /\ r \in Results /\ client \in ClientStates
      /\ executed = [executed EXCEPT ![c] = e]
      /\ faulted = [faulted EXCEPT ![c] = f]
      /\ result = [result EXCEPT ![c] = r]
      /\ opened = Live(client) /\ ConnectionCounted /\ opened \in Nat
      /\ pc[c] \in {"init connect", "connect"} => client \in {"none", "unconnected"}
      /\ pc[c] \in {"send"} \cup InitSteps => e = 0
      /\ pc[c] \in RetrySteps => e \in {0, 1}
      /\ pc[c] = "login" /\ client # "connected" => f
      /\ pc[c] = "resend" /\ client # "ready" => f
      /\ r = "failed" => f
  BY DEF IInv, TypeOK, ConnectionCounted, ConnectsFresh, ExecutionsCounted, FaultsKnown,
         FailureHasCause, e, f, r
<1>0. \A n \in {e, e + 1} : n \in Nat /\ (e = 0 => n \in {0, 1})
  <2>1. e \in Nat
    BY <1>1
  <2> QED BY <2>1
<1>2. {"send"} \cup InitSteps \cup RetrySteps = Critical
  BY DEF Critical
\* An error, whose second occurrence needs a cause.
<1>3. ASSUME NEW e2 \in {e, e + 1}, NEW f2 \in BOOLEAN, Error(c), pc[c] \in Critical,
             executed' = [executed EXCEPT ![c] = e2],
             faulted' = [faulted EXCEPT ![c] = f2],
             f => f2,
             pc[c] \in RetrySteps => f2,
             client' \in ClientStates, opened' = Live(client')
      PROVE  \E next, r2 : Moves(c, next, e2, f2, r2)
  <2>1. e2 \in Nat /\ (e = 0 => e2 \in {0, 1})
    BY <1>0, <1>3
  <2>2. CASE pc[c] = "send" \/ pc[c] \in InitSteps
    <3>1. e2 \in {0, 1}
      BY <1>1, <2>1, <2>2
    <3>2. /\ Goto(c, "disconnect")
          /\ holder' = holder
          /\ result' = [result EXCEPT ![c] = r]
      BY <1>1, <1>3, <2>2 DEF Error
    <3>3. r = "failed" => f2
      BY <1>1, <1>3
    <3>4. Moves(c, "disconnect", e2, f2, r)
      BY <1>1, <1>3, <2>1, <3>1, <3>2, <3>3 DEF Moves, Critical, InitSteps, RetrySteps
    <3> QED BY <3>4
  <2>3. CASE ~(pc[c] = "send" \/ pc[c] \in InitSteps)
    <3>1. pc[c] \in RetrySteps
      BY <1>2, <1>3, <2>3
    <3>2. /\ Goto(c, "idle") /\ holder' = NoCaller
          /\ result' = [result EXCEPT ![c] = "failed"]
      BY <1>3, <2>3 DEF Error, Return
    <3>3. Moves(c, "idle", e2, f2, "failed")
      BY <1>1, <1>3, <2>1, <3>1, <3>2 DEF Moves, Critical, InitSteps, RetrySteps, Results
    <3> QED BY <3>3
  <2> QED BY <2>2, <2>3
<1>4. CASE ConnectDone(c)
  <2>1. opened' = Live(client')
    <3>1. Live(client) = 0
      BY <1>1, <1>4 DEF ConnectDone, Live
    <3>2. Live(client') = 1
      BY <1>4 DEF ConnectDone, Live
    <3>3. opened = 0
      BY <1>1, <3>1
    <3>4. opened' = opened + 1
      BY <1>4 DEF ConnectDone
    <3> QED BY <3>2, <3>3, <3>4
  <2>2. CASE pc[c] = "init connect"
    <3>1. Moves(c, "init login", e, f, r)
      BY <1>1, <1>4, <2>1, <2>2
         DEF ConnectDone, Moves, ClientStates, Critical, InitSteps, RetrySteps
    <3> QED BY <3>1
  <2>3. CASE pc[c] = "connect"
    <3>1. Moves(c, "login", e, f, r)
      BY <1>1, <1>4, <2>1, <2>3
         DEF ConnectDone, Moves, ClientStates, Critical, InitSteps, RetrySteps
    <3> QED BY <3>1
  <2> QED BY <1>4, <2>2, <2>3 DEF ConnectDone
<1>5. CASE ConnectFailed(c)
  <2>1. client' \in ClientStates /\ opened' = Live(client')
    BY <1>1, <1>5 DEF ConnectFailed, Live, ClientStates
  <2>2. /\ Error(c) /\ pc[c] \in Critical
        /\ executed' = [executed EXCEPT ![c] = e]
        /\ faulted' = [faulted EXCEPT ![c] = TRUE]
    BY <1>1, <1>5 DEF ConnectFailed, Blame, Critical, InitSteps, RetrySteps
  <2> QED BY <1>3, <2>1, <2>2
<1>6. CASE LoginDone(c)
  <2>1. client' = "ready" /\ opened' = Live(client')
    BY <1>1, <1>6, ClientFacts DEF LoginDone
  <2>2. CASE pc[c] = "init login"
    <3>1. Moves(c, "send", e, f, r)
      BY <1>1, <1>6, <2>1, <2>2
         DEF LoginDone, Moves, ClientStates, Critical, InitSteps, RetrySteps
    <3> QED BY <3>1
  <2>3. CASE pc[c] = "login"
    <3>1. Moves(c, "resend", e, f, r)
      BY <1>1, <1>6, <2>1, <2>3
         DEF LoginDone, Moves, ClientStates, Critical, InitSteps, RetrySteps
    <3> QED BY <3>1
  <2> QED BY <1>6, <2>2, <2>3 DEF LoginDone
<1>7. CASE LoginFailed(c)
  <2>1. /\ Error(c) /\ pc[c] \in Critical
        /\ executed' = [executed EXCEPT ![c] = e]
    BY <1>1, <1>7 DEF LoginFailed, Critical, InitSteps, RetrySteps
  <2>2. CASE client = "connected"
    <3>1. client' \in ClientStates /\ opened' = Live(client')
      BY <1>1, <1>7, <2>2, ClientFacts DEF LoginFailed, ClientStates
    <3>2. faulted' = [faulted EXCEPT ![c] = TRUE]
      BY <1>7, <2>2 DEF LoginFailed, Blame
    <3> QED BY <1>3, <2>1, <3>1, <3>2
  <2>3. CASE client # "connected"
    <3>1. /\ client' \in ClientStates /\ opened' = Live(client')
          /\ faulted' = [faulted EXCEPT ![c] = f]
      BY <1>1, <1>7, <2>3 DEF LoginFailed
    <3>2. pc[c] \in RetrySteps => f
      BY <1>1, <1>7, <2>3 DEF LoginFailed, RetrySteps
    <3> QED BY <1>1, <1>3, <2>1, <3>1, <3>2
  <2> QED BY <2>2, <2>3
<1>8. CASE Disconnect(c)
  <2>1. /\ client' \in {"none", "unconnected"} /\ opened' = Live(client')
    BY <1>1, <1>8, ClientFacts DEF Disconnect
  <2>2. Moves(c, "connect", e, f, r)
    BY <1>1, <1>8, <2>1
       DEF Disconnect, Moves, ClientStates, Critical, InitSteps, RetrySteps
  <2> QED BY <2>2
<1>9. CASE SendDone(c)
  <2>1. executed' = [executed EXCEPT ![c] = e + 1]
    BY <1>9 DEF SendDone, e
  <2>2. e + 1 \in Nat
    BY <1>0
  <2>3. Moves(c, "idle", e + 1, f, "ok")
    BY <1>1, <1>9, <2>1, <2>2
       DEF SendDone, Sending, Return, Moves, Critical, InitSteps, RetrySteps, Results
  <2> QED BY <2>3
<1>10. CASE SendRefused(c)
  <2>1. Moves(c, "idle", e, f, "refused")
    BY <1>1, <1>10
       DEF SendRefused, Sending, Return, Moves, Critical, InitSteps, RetrySteps, Results
  <2> QED BY <2>1
<1>11. CASE SendServerError(c)
  <2>1. client' \in ClientStates /\ opened' = Live(client')
    BY <1>1, <1>11, ClientFacts DEF SendServerError, ClientStates
  <2>2. /\ Error(c) /\ pc[c] \in Critical
        /\ executed' = [executed EXCEPT ![c] = e]
        /\ faulted' = [faulted EXCEPT ![c] = TRUE]
    BY <1>1, <1>11 DEF SendServerError, Sending, Blame, Critical, RetrySteps
  <2> QED BY <1>3, <2>1, <2>2
<1>12. CASE SendUnheard(c)
  <2>1. client' \in ClientStates /\ opened' = Live(client')
    BY <1>1, <1>12, ClientFacts DEF SendUnheard, ClientStates
  <2>2. /\ Error(c) /\ pc[c] \in Critical
        /\ executed' = [executed EXCEPT ![c] = e + 1]
        /\ faulted' = [faulted EXCEPT ![c] = TRUE]
    BY <1>1, <1>12 DEF SendUnheard, Sending, Blame, Critical, RetrySteps, e
  <2> QED BY <1>3, <2>1, <2>2
<1>13. CASE SendUnconnected(c)
  <2>1. /\ client' \in ClientStates /\ opened' = Live(client')
        /\ executed' = [executed EXCEPT ![c] = e]
        /\ faulted' = [faulted EXCEPT ![c] = f]
        /\ Error(c) /\ pc[c] \in Critical
    BY <1>1, <1>13 DEF SendUnconnected, Sending, Critical, RetrySteps
  <2>2. pc[c] \in RetrySteps => f
    BY <1>1, <1>13 DEF SendUnconnected, Sending, InitSteps, RetrySteps
  <2> QED BY <1>1, <1>3, <2>1, <2>2
<1> QED BY <1>4, <1>5, <1>6, <1>7, <1>8, <1>9, <1>10, <1>11, <1>12, <1>13 DEF Step

-----------------------------------------------------------------------------
(* The other steps *)

LEMMA CallKeepsInvariant ==
  ASSUME IInv, NEW c \in Callers, Call(c)
  PROVE  IInv'
<1>1. TypeOK'
  BY DEF Call, Goto, IInv, TypeOK, Results
<1>2. ConnectionExclusive'
  BY DEF Call, Goto, IInv, TypeOK, ConnectionExclusive, Critical, InitSteps, RetrySteps
<1>3. ConnectionCounted' /\ ConnectsFresh'
  BY DEF Call, Goto, IInv, TypeOK, ConnectionCounted, ConnectsFresh
<1>4. ExecutionsCounted'
  BY DEF Call, Goto, IInv, TypeOK, ExecutionsCounted, InitSteps, RetrySteps
<1>5. FaultsKnown' /\ FailureHasCause'
  BY DEF Call, Goto, IInv, TypeOK, FaultsKnown, FailureHasCause
<1> QED BY <1>1, <1>2, <1>3, <1>4, <1>5 DEF IInv

LEMMA AcquireKeepsInvariant ==
  ASSUME IInv, NEW c \in Callers, Acquire(c)
  PROVE  IInv'
<1>1. TypeOK'
  BY DEF Acquire, Goto, IInv, TypeOK, Critical, InitSteps, RetrySteps
<1>2. ConnectionExclusive'
  BY EppAssumption
     DEF Acquire, Goto, IInv, TypeOK, ConnectionExclusive, Critical, InitSteps, RetrySteps
<1>3. ConnectionCounted' /\ ConnectsFresh'
  BY DEF Acquire, Goto, IInv, TypeOK, ConnectionCounted, ConnectsFresh
<1>4. ExecutionsCounted'
  BY DEF Acquire, Goto, IInv, TypeOK, ExecutionsCounted, InitSteps, RetrySteps
<1>5. FaultsKnown' /\ FailureHasCause'
  BY DEF Acquire, Goto, IInv, TypeOK, FaultsKnown, FailureHasCause
<1> QED BY <1>1, <1>2, <1>3, <1>4, <1>5 DEF IInv

LEMMA BreakKeepsInvariant ==
  ASSUME IInv, Break
  PROVE  IInv'
<1>1. /\ client \in {"connected", "ready"} /\ client' = "broken" /\ opened' = Live(client')
  BY ClientFacts DEF Break, IInv, TypeOK
<1>2. /\ faulted' \in [Callers -> BOOLEAN]
      /\ \A c \in Callers : (faulted[c] \/ holder = c) => faulted'[c]
      /\ UNCHANGED <<holder, pc, executed, result>>
  BY DEF Break, IInv, TypeOK
<1>3. TypeOK'
  <2>1. opened' \in Nat
    BY <1>1, LiveFacts
  <2> QED BY <1>1, <1>2, <2>1 DEF IInv, TypeOK, ClientStates
<1>4. ConnectionExclusive' /\ ConnectionCounted' /\ ExecutionsCounted'
  BY <1>1, <1>2 DEF IInv, ConnectionExclusive, ConnectionCounted, ExecutionsCounted
<1>5. ConnectsFresh'
  BY <1>1, <1>2 DEF IInv, ConnectsFresh
<1>6. FaultsKnown' /\ FailureHasCause'
  BY <1>1, <1>2
     DEF IInv, FaultsKnown, FailureHasCause, ConnectionExclusive, Critical, RetrySteps
<1> QED BY <1>3, <1>4, <1>5, <1>6 DEF IInv

LEMMA RestartKeepsInvariant ==
  ASSUME IInv, Restart
  PROVE  IInv'
<1>1. TypeOK'
  BY LiveFacts DEF Restart, IInv, TypeOK
<1>2. ConnectionExclusive'
  BY EppAssumption DEF Restart, ConnectionExclusive, Critical, InitSteps, RetrySteps
<1>3. ConnectionCounted' /\ ConnectsFresh' /\ ExecutionsCounted' /\ FaultsKnown'
  BY DEF Restart, ConnectionCounted, ConnectsFresh, ExecutionsCounted, FaultsKnown,
         InitSteps, RetrySteps
<1>4. FailureHasCause'
  BY DEF Restart, IInv, FailureHasCause
<1> QED BY <1>1, <1>2, <1>3, <1>4 DEF IInv

LEMMA StepInvariant == IInv /\ [Next]_vars => IInv'
<1> SUFFICES ASSUME IInv, [Next]_vars PROVE IInv'
  OBVIOUS
<1>1. ASSUME NEW c \in Callers, Step(c) PROVE IInv'
  <2>1. PICK next, e, f, r : Moves(c, next, e, f, r)
    BY <1>1, StepMoves
  <2> QED BY <2>1, MovesKeepInvariant
<1>2. ASSUME NEW c \in Callers, Call(c) PROVE IInv'
  BY <1>2, CallKeepsInvariant
<1>3. ASSUME NEW c \in Callers, Acquire(c) PROVE IInv'
  BY <1>3, AcquireKeepsInvariant
<1>4. CASE UNCHANGED vars
  BY <1>4 DEF vars, IInv, TypeOK, ConnectionExclusive, ConnectionCounted, ConnectsFresh,
              ExecutionsCounted, FaultsKnown, FailureHasCause
<1> QED BY <1>1, <1>2, <1>3, <1>4, BreakKeepsInvariant, RestartKeepsInvariant DEF Next

\* The inductive invariant, which the theorems below weaken.
THEOREM Invariance == Spec => []IInv
  BY InitInvariant, StepInvariant, PTL DEF Spec

\* Every variable keeps its type.
THEOREM TypeCorrect == Spec => []TypeOK
<1>1. IInv => TypeOK
  BY DEF IInv
<1> QED BY <1>1, Invariance, PTL

\* No two greenlets are ever inside the part of `send` that the lock guards.
THEOREM LockExcludes == Spec => []ConnectionExclusive
<1>1. IInv => ConnectionExclusive
  BY DEF IInv
<1> QED BY <1>1, Invariance, PTL

\* A worker never has two connections to the registry, however its calls end.
THEOREM AtMostOneConnection == Spec => []OneConnection
<1>1. IInv => OneConnection
  <2>1. ASSUME IInv PROVE opened \in {0, 1}
    BY <2>1, LiveFacts DEF IInv, ConnectionCounted
  <2> QED BY <2>1 DEF OneConnection
<1> QED BY <1>1, Invariance, PTL

\* A call fails only if something failed while it ran: what the calls before
\* it left of the client is repaired.
THEOREM FailuresHaveCauses == Spec => []FailureHasCause
<1>1. IInv => FailureHasCause
  BY DEF IInv
<1> QED BY <1>1, Invariance, PTL

-----------------------------------------------------------------------------
(* `send` implements the calls its users see *)

Busy == {c \in Callers : pc[c] # "idle"}

LEMMA StepSimulates ==
  ASSUME IInv, [Next]_vars
  PROVE  [Calls!Next]_(Calls!vars)
<1> USE DEF Busy
<1>1. ASSUME NEW c \in Callers, Step(c)
      PROVE  [Calls!Next]_(Calls!vars)
  <2>1. /\ pc[c] \in Critical /\ pc[c] # "idle" /\ c \in Busy
        /\ pc \in [Callers -> {"idle", "waiting"} \cup Critical]
    BY <1>1 DEF IInv, TypeOK, Step, ConnectDone, ConnectFailed, LoginDone, LoginFailed,
                Disconnect, SendDone, SendRefused, SendServerError, SendUnheard,
                SendUnconnected, Sending, Critical, InitSteps, RetrySteps
  <2>2. executed[c] \in {0, 1} /\ executed[c] < 2
    <3>1. executed[c] \in {0, 1}
      BY <2>1 DEF IInv, ExecutionsCounted, Critical
    <3> QED BY <3>1
  <2>3. Calls!Alone(c)
    <3>1. ASSUME NEW d \in Busy \ {c} PROVE executed[d] = 0
      <4>1. pc[d] = "waiting"
        BY <2>1 DEF IInv, ConnectionExclusive
      <4> QED BY <4>1 DEF IInv, ExecutionsCounted
    <3> QED BY <3>1 DEF Calls!Alone
  \* A step that stays inside the call.
  <2>4. ASSUME NEW next \in Critical, Goto(c, next)
        PROVE  Busy' = Busy
    BY <2>1, <2>4 DEF Goto, Critical, InitSteps, RetrySteps
  \* The step that ends it.
  <2>5. ASSUME Goto(c, "idle")
        PROVE  Busy' = Busy \ {c}
    BY <2>1, <2>5 DEF Goto
  <2>6. ASSUME Error(c)
        PROVE  \/ Busy' = Busy /\ UNCHANGED result
               \/ Busy' = Busy \ {c} /\ result' = [result EXCEPT ![c] = "failed"]
    BY <2>4, <2>5, <2>6 DEF Error, Return, Critical, RetrySteps
  <2>7. CASE ConnectDone(c) \/ LoginDone(c) \/ Disconnect(c)
    <3>1. Busy' = Busy
      BY <2>4, <2>7 DEF ConnectDone, LoginDone, Disconnect, Critical, InitSteps, RetrySteps
    <3>2. UNCHANGED <<executed, result>>
      BY <2>7 DEF ConnectDone, LoginDone, Disconnect
    <3> QED BY <3>1, <3>2 DEF Calls!vars
  <2>8. CASE ConnectFailed(c) \/ LoginFailed(c) \/ SendServerError(c) \/ SendUnconnected(c)
    <3>1. Error(c) /\ UNCHANGED executed
      BY <2>8 DEF ConnectFailed, LoginFailed, SendServerError, SendUnconnected
    <3>2. CASE Busy' = Busy /\ UNCHANGED result
      BY <3>1, <3>2 DEF Calls!vars
    <3>3. CASE Busy' = Busy \ {c} /\ result' = [result EXCEPT ![c] = "failed"]
      <4>1. Calls!Fail(c)
        BY <2>1, <2>2, <3>1, <3>3 DEF Calls!Fail
      <4> QED BY <4>1 DEF Calls!Next
    <3> QED BY <2>6, <3>1, <3>2, <3>3
  <2>9. CASE SendUnheard(c)
    <3>1. Error(c) /\ executed' = [executed EXCEPT ![c] = @ + 1]
      BY <2>9 DEF SendUnheard
    <3>2. Calls!ExecuteUnheard(c)
      BY <2>1, <2>2, <2>3, <2>6, <3>1 DEF Calls!ExecuteUnheard
    <3> QED BY <3>2 DEF Calls!Next
  <2>10. CASE SendDone(c)
    <3>1. Calls!Succeed(c)
      BY <2>1, <2>2, <2>3, <2>5, <2>10 DEF SendDone, Return, Calls!Succeed
    <3> QED BY <3>1 DEF Calls!Next
  <2>11. CASE SendRefused(c)
    <3>1. Calls!Refuse(c)
      BY <2>1, <2>5, <2>11 DEF SendRefused, Return, Calls!Refuse
    <3> QED BY <3>1 DEF Calls!Next
  <2> QED BY <1>1, <2>7, <2>8, <2>9, <2>10, <2>11 DEF Step
<1>2. ASSUME NEW c \in Callers, Call(c)
      PROVE  [Calls!Next]_(Calls!vars)
  <2>1. c \notin Busy /\ Busy' = Busy \cup {c}
    BY <1>2 DEF Call, Goto, IInv, TypeOK
  <2>2. Calls!Start(c)
    BY <1>2, <2>1 DEF Call, Calls!Start
  <2> QED BY <2>2 DEF Calls!Next
<1>3. ASSUME NEW c \in Callers, Acquire(c)
      PROVE  [Calls!Next]_(Calls!vars)
  <2>1. Busy' = Busy
    BY <1>3 DEF Acquire, Goto, IInv, TypeOK
  <2> QED BY <1>3, <2>1 DEF Acquire, Calls!vars
<1>4. CASE Break
  <2>1. Busy' = Busy
    BY <1>4 DEF Break
  <2> QED BY <1>4, <2>1 DEF Break, Calls!vars
<1>5. CASE Restart
  <2>1. Busy' = {}
    BY <1>5 DEF Restart
  <2>2. Calls!Restart
    BY <1>5, <2>1 DEF Restart, Calls!Restart
  <2> QED BY <2>2 DEF Calls!Next
<1>6. CASE UNCHANGED vars
  BY <1>6 DEF vars, Calls!vars
<1> QED BY <1>1, <1>2, <1>3, <1>4, <1>5, <1>6 DEF Next

\* The wrapper with its lock, its reconnections and its retry implements
\* RegistryCalls: at most two executions of a command, success only by an
\* execution of its own, and no other caller's execution in between.
THEOREM ImplementsCalls == Spec => CallsSpec
<1>1. Init => Calls!Init
  <2>1. ASSUME Init PROVE Busy = {}
    BY <2>1 DEF Init, Busy
  <2> QED BY <2>1 DEF Init, Calls!Init, Busy
<1>2. IInv /\ [Next]_vars => [Calls!Next]_(Calls!vars)
  BY StepSimulates
<1> QED BY <1>1, <1>2, Invariance, PTL DEF Spec, CallsSpec, Calls!Spec

=============================================================================
