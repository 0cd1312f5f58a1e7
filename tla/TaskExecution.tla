--------------------------- MODULE TaskExecution ----------------------------
(***************************************************************************)
(* What the events of a worker promise about the execution of a task: it   *)
(* is started, each attempt succeeds or fails, and a failed attempt is     *)
(* followed by another one only after a retry was announced, while         *)
(* attempts are left.                                                      *)
(***************************************************************************)
EXTENDS Integers

CONSTANT Tasks

VARIABLES
  phase,    \* phase[t]: the last event about t
  attempt,  \* attempt[t]: the attempt it names
  limit     \* limit[t]: how many attempts t may have

execVars == <<phase, attempt, limit>>

Init ==
  /\ phase = [t \in Tasks |-> "none"]
  /\ attempt = [t \in Tasks |-> 0]
  /\ limit \in [Tasks -> Nat \ {0}]

Move(t, from, to, n) ==
  /\ phase[t] = from
  /\ phase' = [phase EXCEPT ![t] = to]
  /\ attempt' = [attempt EXCEPT ![t] = n]
  /\ UNCHANGED limit

Start(t) == Move(t, "none", "started", 1)
Restart(t) == Move(t, "retry", "started", attempt[t] + 1)
Succeed(t) == Move(t, "started", "succeeded", attempt[t])
Fail(t) == Move(t, "started", "failed", attempt[t])
Retry(t) == attempt[t] < limit[t] /\ Move(t, "failed", "retry", attempt[t])

Next ==
  \E t \in Tasks : Start(t) \/ Restart(t) \/ Succeed(t) \/ Fail(t) \/ Retry(t)

Spec == Init /\ [][Next]_execVars
=============================================================================
