-------------------------------- MODULE Lane --------------------------------
(***************************************************************************)
(* What dispatch promises its callers, without a word about locks, setups, *)
(* processes or hand-offs (docs/scheduling.md, "Execution and authority"   *)
(* and "Restart, pause and cancellation"): one foreground run and at most  *)
(* Cap scheduled occurrences run at a time, a task has one occurrence in   *)
(* flight, only queued work starts, an ended run stays ended unless it     *)
(* failed on quota and is explicitly retried, and a relay restart forgets  *)
(* everything except running work it hands over.                           *)
(***************************************************************************)
EXTENDS Integers, FiniteSets

CONSTANTS Foreground, Scheduled, Task, Cap

VARIABLE state   \* state[r]: what callers can read of run r

Runs     == Foreground \cup Scheduled
Pending  == {"queued", "running"}
Ended    == {"completed", "failed", "cancelled"}

Running(S) == {r \in S : state[r] = "running"}

LaneInit == state = [r \in Runs |-> "absent"]

Admit(r) ==
  /\ state[r] = "absent"
  /\ \A q \in Scheduled \ {r} :
       r \in Scheduled /\ Task[q] = Task[r] => state[q] \notin Pending
  /\ state' = [state EXCEPT ![r] = "queued"]

Start(r) ==
  /\ state[r] = "queued"
  /\ r \in Foreground => Running(Foreground) = {}
  /\ r \in Scheduled => Cardinality(Running(Scheduled)) < Cap
  /\ state' = [state EXCEPT ![r] = "running"]

Settle(r) ==
  /\ state[r] \in Pending
  /\ \E s \in Ended : state' = [state EXCEPT ![r] = s]

\* Only an occurrence returns to the queue, waiting for quota.
Requeue(r) ==
  /\ r \in Scheduled /\ state[r] = "running"
  /\ state' = [state EXCEPT ![r] = "queued"]

Retry(r) ==
  /\ r \in Scheduled /\ state[r] = "failed"
  /\ \A q \in Scheduled \ {r} : Task[q] = Task[r] => state[q] \notin Pending
  /\ state' = [state EXCEPT ![r] = "queued"]

CancelQueue ==
  state' = [r \in Runs |-> IF state[r] = "queued" THEN "cancelled" ELSE state[r]]

\* A restart keeps at most what was running.
Restart ==
  \E kept \in SUBSET Running(Runs) :
    state' = [r \in Runs |-> IF r \in kept THEN "running" ELSE "absent"]

LaneNext ==
  \/ \E r \in Runs : Admit(r) \/ Start(r) \/ Settle(r) \/ Requeue(r) \/ Retry(r)
  \/ CancelQueue
  \/ Restart

LaneSpec == LaneInit /\ [][LaneNext]_state
=============================================================================
