--------------------------- MODULE RegistryCalls ---------------------------
(***************************************************************************)
(* What EPPLibWrapper.send promises to its callers: a command is executed  *)
(* at most twice, a call succeeds only with an execution of its own, and   *)
(* from a command's first execution to its answer no other caller's        *)
(* command is executed.                                                    *)
(***************************************************************************)
EXTENDS Naturals

CONSTANT Callers

VARIABLES
  busy,       \* the callers that wait for an answer
  executed,   \* per caller: executions of its last command
  result      \* per caller: the answer to its last command

vars == <<busy, executed, result>>

Init ==
  /\ busy = {}
  /\ executed = [c \in Callers |-> 0]
  /\ result = [c \in Callers |-> "none"]

Start(c) ==
  /\ c \notin busy
  /\ busy' = busy \cup {c}
  /\ executed' = [executed EXCEPT ![c] = 0]
  /\ result' = [result EXCEPT ![c] = "none"]

\* Nobody else is between an execution and its answer.
Alone(c) == \A d \in busy \ {c} : executed[d] = 0

\* The registry executes a command, and the answer does not arrive.
ExecuteUnheard(c) ==
  /\ c \in busy /\ executed[c] < 2 /\ Alone(c)
  /\ executed' = [executed EXCEPT ![c] = @ + 1]
  /\ \/ UNCHANGED <<busy, result>>
     \/ busy' = busy \ {c} /\ result' = [result EXCEPT ![c] = "failed"]

Succeed(c) ==
  /\ c \in busy /\ executed[c] < 2 /\ Alone(c)
  /\ executed' = [executed EXCEPT ![c] = @ + 1]
  /\ busy' = busy \ {c}
  /\ result' = [result EXCEPT ![c] = "ok"]

Refuse(c) ==
  /\ c \in busy
  /\ busy' = busy \ {c}
  /\ result' = [result EXCEPT ![c] = "refused"]
  /\ UNCHANGED executed

\* An error, after no execution or one.
Fail(c) ==
  /\ c \in busy /\ executed[c] < 2
  /\ busy' = busy \ {c}
  /\ result' = [result EXCEPT ![c] = "failed"]
  /\ UNCHANGED executed

\* The process is replaced: nobody hears the answers.
Restart == busy' = {} /\ UNCHANGED <<executed, result>>

Next ==
  \/ \E c \in Callers : Start(c) \/ ExecuteUnheard(c) \/ Succeed(c) \/ Refuse(c) \/ Fail(c)
  \/ Restart

Spec == Init /\ [][Next]_vars

=============================================================================
