---------------------------- MODULE RedisBroker -----------------------------
(***************************************************************************)
(* Redis as the services use it (external): one list per provider, worked  *)
(* at its left end by LPUSH and BLPOP alike, and the pub/sub channel       *)
(* workflow:events, which reaches only a subscriber connected at the time. *)
(***************************************************************************)
EXTENDS TaskRepository, Sequences

VARIABLES
  queue,       \* queue[p]: the list tasks:<p>, left end first
  subscribed,  \* is the workflow engine subscribed to workflow:events?
  inbox        \* messages delivered to its subscription and not yet read

brokerVars == <<queue, subscribed, inbox>>

EventNames == {"task_scheduled", "task_completed", "task_failed"}
Event == [event : EventNames, task : Tasks]

LPush(p, t) == queue' = [queue EXCEPT ![p] = <<t>> \o @]

LPop(p, t) ==
  /\ queue[p] # <<>>
  /\ t = Head(queue[p])
  /\ queue' = [queue EXCEPT ![p] = Tail(@)]

Publish(event, t) ==
  inbox' = IF subscribed THEN Append(inbox, [event |-> event, task |-> t])
                         ELSE inbox

InQueue(t, p) == \E i \in 1..Len(queue[p]) : queue[p][i] = t
=============================================================================
