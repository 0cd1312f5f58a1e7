-------------------------- MODULE MCOpenClawWorker --------------------------
(* An instance of OpenClawWorker for TLC. *)
EXTENDS OpenClawWorker, TLC

CONSTANTS t1, t2

TwoTasks == <<t1, t2>>

\* A generated task with one step and one retry, and one with two steps and no retry.
SomePayloads == {[max |-> 2, generate |-> TRUE, steps |-> 1],
                 [max |-> 0, generate |-> FALSE, steps |-> 2]}
=============================================================================
