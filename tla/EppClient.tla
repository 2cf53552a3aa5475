----------------------------- MODULE EppClient -----------------------------
(***************************************************************************)
(* EPPLibWrapper: the one connection of a worker process to the registry,  *)
(* shared by the greenlets that serve requests.  `send` takes the          *)
(* connection lock, sends the command, and on the errors it retries        *)
(* disconnects, connects and logs in again, and sends the command once     *)
(* more, all under the lock.                                               *)
(***************************************************************************)
EXTENDS Naturals

CONSTANT Callers   \* the greenlets of one worker

NoCaller == "nobody"

ASSUME EppAssumption == NoCaller \notin Callers

VARIABLES
  client,     \* the _client: not created, not connected, connected, logged in, or broken
  opened,     \* connections this process has open at the registry
  holder,     \* who holds connection_lock
  pc,         \* per caller: where its `send` is
  executed,   \* per caller: how often the registry executed its command
  result,     \* per caller: what `send` returned or raised
  faulted     \* per caller, history: something failed while it held the lock

vars == <<client, opened, holder, pc, executed, result, faulted>>

-----------------------------------------------------------------------------
ClientStates == {"none", "unconnected", "connected", "ready", "broken"}
InitSteps == {"init connect", "init login"}   \* _initialize_client inside _send
RetrySteps == {"disconnect", "connect", "login", "resend"}
Critical == {"send"} \cup InitSteps \cup RetrySteps
Results == {"none", "ok", "refused", "failed"}

TypeOK ==
  /\ client \in ClientStates
  /\ opened \in Nat
  /\ holder \in Callers \cup {NoCaller}
  /\ pc \in [Callers -> {"idle", "waiting"} \cup Critical]
  /\ executed \in [Callers -> Nat]
  /\ result \in [Callers -> Results]
  /\ faulted \in [Callers -> BOOLEAN]

Live(state) == IF state \in {"connected", "ready"} THEN 1 ELSE 0

\* __init__ tries to connect and logs a failure, wherever it happened.
Init ==
  /\ client \in ClientStates
  /\ opened = Live(client)
  /\ holder = NoCaller
  /\ pc = [c \in Callers |-> "idle"]
  /\ executed = [c \in Callers |-> 0]
  /\ result = [c \in Callers |-> "none"]
  /\ faulted = [c \in Callers |-> FALSE]

Sending(c) == pc[c] \in {"send", "resend"}

Goto(c, step) == pc' = [pc EXCEPT ![c] = step]
Blame(c) == faulted' = [faulted EXCEPT ![c] = TRUE]

\* The client changes; a connection it loses is gone for the registry too.
SetClient(state) ==
  /\ client' = state
  /\ opened' = opened + Live(state) - Live(client)

-----------------------------------------------------------------------------
Call(c) ==
  /\ pc[c] = "idle"
  /\ Goto(c, "waiting")
  /\ executed' = [executed EXCEPT ![c] = 0]
  /\ result' = [result EXCEPT ![c] = "none"]
  /\ faulted' = [faulted EXCEPT ![c] = FALSE]
  /\ UNCHANGED <<client, opened, holder>>

\* A mutant: the lock is not waited for.
Acquire_NoLock(c) ==
  /\ pc[c] = "waiting"
  /\ holder' = c
  /\ Goto(c, IF client = "none" THEN "init connect" ELSE "send")
  /\ UNCHANGED <<client, opened, executed, result, faulted>>

\* The lock is taken; a client that was never created is created first.
Acquire(c) ==
  /\ pc[c] = "waiting"
  /\ holder = NoCaller
  /\ holder' = c
  /\ Goto(c, IF client = "none" THEN "init connect" ELSE "send")
  /\ UNCHANGED <<client, opened, executed, result, faulted>>

\* A mutant: the lock is not given back.
Return_Keeps(c, outcome) ==
  /\ result' = [result EXCEPT ![c] = outcome]
  /\ holder' = holder
  /\ Goto(c, "idle")

Return(c, outcome) ==
  /\ result' = [result EXCEPT ![c] = outcome]
  /\ holder' = NoCaller
  /\ Goto(c, "idle")

\* Mutants: no error is retried, or the second error of a command is too.
Error_Raises(c) == Return(c, "failed")
Error_Retries(c) ==
  IF Sending(c) \/ pc[c] \in InitSteps
  THEN Goto(c, "disconnect") /\ UNCHANGED <<result, holder>>
  ELSE Return(c, "failed")

\* An error that `send` retries: once, and what fails in the retry is raised.
Error(c) ==
  IF pc[c] = "send" \/ pc[c] \in InitSteps
  THEN Goto(c, "disconnect") /\ UNCHANGED <<result, holder>>
  ELSE Return(c, "failed")

-----------------------------------------------------------------------------
(* _initialize_client, in _send and in _retry *)

ConnectDone(c) ==
  /\ pc[c] \in {"init connect", "connect"}
  /\ client' = "connected"
  /\ opened' = opened + 1
  /\ Goto(c, IF pc[c] = "init connect" THEN "init login" ELSE "login")
  /\ UNCHANGED <<holder, executed, result, faulted>>

\* The client object is not even created when there is no certificate.
ConnectFailed(c) ==
  /\ pc[c] \in {"init connect", "connect"}
  /\ Blame(c)
  /\ Error(c)
  /\ client' \in {client, "unconnected"}
  /\ UNCHANGED <<opened, executed>>

LoginDone(c) ==
  /\ pc[c] \in {"init login", "login"}
  /\ client = "connected"
  /\ SetClient("ready")
  /\ Goto(c, IF pc[c] = "init login" THEN "send" ELSE "resend")
  /\ UNCHANGED <<holder, executed, result, faulted>>

\* A refused login closes the connection, a failure on the way leaves the
\* client as it is.
LoginFailed(c) ==
  /\ pc[c] \in {"init login", "login"}
  /\ Error(c)
  /\ \/ /\ client = "connected"
        /\ Blame(c)
        /\ \E state \in {"unconnected", "connected", "broken"} : SetClient(state)
     \/ /\ client # "connected"
        /\ UNCHANGED <<client, opened, faulted>>
  /\ UNCHANGED executed

\* A mutant: the connection is not closed.
Disconnect_KeepsOpen(c) ==
  /\ pc[c] = "disconnect"
  /\ client' = IF client = "none" THEN "none" ELSE "unconnected"
  /\ Goto(c, "connect")
  /\ UNCHANGED <<opened, holder, executed, result, faulted>>

\* _disconnect: logout and close, whose errors are logged.  A client whose
\* close() raised is dropped with its socket, and counts as closed.
Disconnect(c) ==
  /\ pc[c] = "disconnect"
  /\ SetClient(IF client = "none" THEN "none" ELSE "unconnected")
  /\ Goto(c, "connect")
  /\ UNCHANGED <<holder, executed, result, faulted>>

-----------------------------------------------------------------------------
(* _send *)

SendDone(c) ==
  /\ Sending(c) /\ client = "ready"
  /\ executed' = [executed EXCEPT ![c] = @ + 1]
  /\ Return(c, "ok")
  /\ UNCHANGED <<client, opened, faulted>>

\* A mutant: the refusal is logged and not raised.
SendRefused_ReturnsNothing(c) ==
  /\ Sending(c) /\ client = "ready"
  /\ Return(c, "nothing")
  /\ UNCHANGED <<client, opened, executed, faulted>>

\* A code from 2000 to 2308, but for the one of a lost login.
SendRefused(c) ==
  /\ Sending(c) /\ client = "ready"
  /\ Return(c, "refused")
  /\ UNCHANGED <<client, opened, executed, faulted>>

\* A code from 2400 to 2502; with some the registry closes the connection.
SendServerError(c) ==
  /\ Sending(c) /\ client = "ready"
  /\ Blame(c)
  /\ Error(c)
  /\ \E state \in {"ready", "broken"} : SetClient(state)
  /\ UNCHANGED executed

\* Executed, but the answer is lost with the connection or cannot be parsed.
SendUnheard(c) ==
  /\ Sending(c) /\ client = "ready"
  /\ executed' = [executed EXCEPT ![c] = @ + 1]
  /\ Blame(c)
  /\ Error(c)
  /\ \E state \in {"ready", "broken"} : SetClient(state)

\* Without a connection the transport fails, without a login the registry
\* answers that the registrar is not logged in.
SendUnconnected(c) ==
  /\ Sending(c) /\ client # "ready"
  /\ Error(c)
  /\ UNCHANGED <<client, opened, executed, faulted>>

-----------------------------------------------------------------------------
(* The environment *)

\* The registry or the network ends the connection, in use or not.
Break ==
  /\ client \in {"connected", "ready"}
  /\ SetClient("broken")
  /\ faulted' = [c \in Callers |-> faulted[c] \/ holder = c]
  /\ UNCHANGED <<holder, pc, executed, result>>

\* The worker process is replaced by a new one.
Restart ==
  /\ client' \in ClientStates
  /\ opened' = Live(client')
  /\ holder' = NoCaller
  /\ pc' = [c \in Callers |-> "idle"]
  /\ UNCHANGED <<executed, result, faulted>>

Step(c) ==
  \/ ConnectDone(c) \/ ConnectFailed(c) \/ LoginDone(c) \/ LoginFailed(c) \/ Disconnect(c)
  \/ SendDone(c) \/ SendRefused(c) \/ SendServerError(c) \/ SendUnheard(c) \/ SendUnconnected(c)

Next ==
  \/ \E c \in Callers : Call(c) \/ Acquire(c) \/ Step(c)
  \/ Break
  \/ Restart

Spec == Init /\ [][Next]_vars

\* The registry answers or the transport fails, and the semaphore wakes its
\* waiters in turn.
Fairness == \A c \in Callers : WF_vars(Step(c)) /\ SF_vars(Acquire(c))

FairSpec == Spec /\ Fairness

-----------------------------------------------------------------------------
(* Properties *)

\* Only the greenlet that holds the lock is between `acquire` and `release`:
\* no two use the client at once, whatever errors and retries end a call.
ConnectionExclusive == \A c \in Callers : pc[c] \in Critical <=> holder = c

\* "We should only ever have one active connection at a time": a retry never
\* opens one beside a connection that is still open.
OneConnection == opened <= 1

\* `send` recovers by itself from whatever the calls before it, or the start
\* of the application, left: an error it raises had a cause during the call.
FailureHasCause == \A c \in Callers : result[c] = "failed" => faulted[c]

\* Executions, answers and their order are those the callers may rely on.
Calls == INSTANCE RegistryCalls WITH busy <- {c \in Callers : pc[c] # "idle"}
CallsSpec == Calls!Spec

\* Every call of `send` returns.
CallsReturn == \A c \in Callers : pc[c] # "idle" ~> pc[c] = "idle"

=============================================================================
