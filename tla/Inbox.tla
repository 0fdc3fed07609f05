------------------------------- MODULE Inbox -------------------------------
(***************************************************************************)
(* Telegram intake: the polling loop and the middleware that accepts       *)
(* updates (index.ts), InboxStore (inbox.ts), and the one worker that      *)
(* drains it (drainInbox in index.ts).  Updates are accepted once,         *)
(* collected for a short burst, sealed into a batch whose ID is its first  *)
(* update's, replayed one by one to the bot's handlers while others run,   *)
(* and become one run with the batch's ID.  All of it is process memory.   *)
(* Telegram sends again what no later poll has confirmed; which that is    *)
(* is not modelled: a poll may start over at any update.                   *)
(* Updates come in the order of their numbers, so that a batch's ID tells  *)
(* its place among the batches, which are a set.                           *)
(*                                                                         *)
(* A definition commented "Mutant of D" is D with a plausible bug; no      *)
(* action uses it.                                                         *)
(***************************************************************************)
EXTENDS Integers, Sequences, Functions

CONSTANTS
  N,            \* updates Telegram has for the relay, numbered in order
  Context,      \* Context[u]: the chat and execution choice captured with u
  Album,        \* Album[u]: its media group, 0 if it belongs to none
  Kind,         \* Kind[u]: a "text", a "media" message or the "decision" of an approval
  Burst,        \* most updates of a batch (10), albums apart
  MaxRetries    \* bound: /retry commands

Updates == 1..N

VARIABLES
  handled,     \* the last update handed to the bot's handlers
  paired,    \* the owner who sends the updates owns the agent
  decided,   \* decisions recorded with the approval of a chat's run
  collected, \* the updates that became items of the batch being normalized
  seen,      \* state.seen
  waiting,   \* state.waiting, in order of receipt
  batches,   \* state.batches
  runs,      \* runs created from batches, by ID
  timer,     \* intakeTimer is set
  worker,    \* the batch intakeWork is at, what is left of it, and how far it got
  retries

state == <<seen, waiting, batches>>
poll  == <<handled, paired>>
items == <<decided, collected>>
vars  == <<poll, items, state, runs, timer, worker, retries>>

Idle == [pc |-> "idle", id |-> 0, left |-> <<>>]
Ended == [Idle EXCEPT !.pc = "ended"]
BatchStatuses == {"pending", "failed", "cancelled"}

Pending == {b \in batches : b.status = "pending"}
Failed  == {b \in batches : b.status = "failed"}
IsPending(id) == \E b \in Pending : b.id = id
Oldest(bs) == {b \in bs : \A c \in bs : b.id <= c.id}
Latest(bs) == {b \in bs : \A c \in bs : b.id >= c.id}
Marked(bs, status) == (batches \ bs) \cup {[b EXCEPT !.status = status] : b \in bs}
First(S) == CHOOSE i \in S : \A j \in S : i <= j

Init ==
  /\ handled = 0 /\ paired = TRUE
  /\ decided = {} /\ collected = <<>>
  /\ seen = {} /\ waiting = <<>> /\ batches = {}
  /\ runs = {}
  /\ timer = FALSE /\ worker = Idle /\ retries = 0

(***************************************************************************)
(* Polling, and what the middleware accepts                                *)
(***************************************************************************)
\* Updates are handed over one by one, in order; one that no poll has confirmed is
\* handed over again when polling starts over.
Arrives(u) == handled' = (IF u \in seen THEN handled ELSE u) /\ u \in seen \cup {handled + 1}

\* A message or a decision of the owner's; commands are handled at once.
Passes(u) == paired /\ Arrives(u)

\* Mutant of Accept: a repeated update is buffered again.
AcceptAgain(u) ==
  /\ Passes(u) /\ Len(waiting) < N
  /\ seen' = seen \cup {u}
  /\ waiting' = Append(waiting, u) /\ timer' = TRUE
  /\ UNCHANGED <<batches, paired, items, runs, worker, retries>>

\* accept: an update ID already seen adds nothing; a new one sets the timer.
Accept(u) ==
  /\ Passes(u)
  /\ IF u \in seen
       THEN UNCHANGED <<state, timer>>
       ELSE /\ seen' = seen \cup {u}
            /\ waiting' = Append(waiting, u)
            /\ timer' = TRUE
            /\ UNCHANGED batches
  /\ UNCHANGED <<paired, items, runs, worker, retries>>

\* What nobody who owns the agent sent is acknowledged and forgotten.
Ignore(u) ==
  /\ ~paired /\ Arrives(u)
  /\ UNCHANGED <<paired, items, state, runs, timer, worker, retries>>

\* The agent is reset to another owner, or to none.
OwnerLeaves ==
  /\ paired /\ paired' = FALSE
  /\ UNCHANGED <<handled, items, state, runs, timer, worker, retries>>

(***************************************************************************)
(* InboxStore                                                              *)
(***************************************************************************)
\* Where next() cuts the buffer: at the cap or where chat or setup change, but
\* never inside an album.
Boundary(w) ==
  LET other == {i \in 1..Len(w) : Context[w[i]] # Context[w[1]]} IN
  IF other = {} THEN Len(w) ELSE First(other) - 1
Cut(w) ==
  LET end == IF Boundary(w) < Burst THEN Boundary(w) ELSE Burst
      album == Album[w[end]]
      rest == {i \in end+1..Len(w) : album = 0 \/ Album[w[i]] # album
                                       \/ Context[w[i]] # Context[w[1]]}
  IN IF rest = {} THEN Len(w) ELSE First(rest) - 1

Full == Len(waiting) >= Burst /\ Album[waiting[Len(waiting)]] = 0

Sealed == [id |-> waiting[1], status |-> "pending", entries |-> SubSeq(waiting, 1, Cut(waiting))]
Seal ==
  /\ batches' = batches \cup {Sealed}
  /\ waiting' = SubSeq(waiting, Cut(waiting) + 1, Len(waiting))
  /\ UNCHANGED seen

\* finish: a batch that is no longer pending is left alone.
Finish(id, failed) ==
  LET its == {b \in Pending : b.id = id} IN
  /\ batches' = IF failed THEN Marked(its, "failed") ELSE batches \ its
  /\ UNCHANGED <<seen, waiting>>

\* /cancel, under the start lock: buffered updates go, pending batches are marked.
Cancel ==
  /\ paired /\ (waiting # <<>> \/ Pending # {})
  /\ waiting' = <<>> /\ batches' = Marked(Pending, "cancelled")
  /\ UNCHANGED <<poll, items, seen, runs, timer, worker, retries>>

\* /retry: the latest failed batch is pending again.
RetryLatest ==
  /\ paired /\ retries < MaxRetries /\ Failed # {}
  /\ batches' = Marked(Latest(Failed), "pending")
  /\ timer' = TRUE /\ retries' = retries + 1
  /\ UNCHANGED <<poll, items, seen, waiting, runs, worker>>

(***************************************************************************)
(* drainInbox: one worker at a time                                        *)
(***************************************************************************)
\* The timer fires while the worker is busy: its own end looks again.
TimerBusy ==
  /\ timer /\ worker.pc # "idle"
  /\ timer' = FALSE
  /\ UNCHANGED <<poll, items, state, runs, worker, retries>>

\* The items of the batch before, if it was not finished, are forgotten.
Begin(b) ==
  /\ worker' = [pc |-> "batch", id |-> b.id, left |-> b.entries]
  /\ collected' = <<>> /\ UNCHANGED decided

\* It fires and next() returns the oldest pending batch, ...
DrainPending ==
  /\ timer /\ worker.pc = "idle" /\ Pending # {}
  /\ timer' = FALSE /\ \E b \in Oldest(Pending) : Begin(b)
  /\ UNCHANGED <<poll, state, runs, retries>>

\* ... or seals a new one, ...
DrainSeal ==
  /\ timer /\ worker.pc = "idle" /\ Pending = {} /\ waiting # <<>>
  /\ Seal
  /\ timer' = FALSE /\ Begin(Sealed)
  /\ UNCHANGED <<poll, runs, retries>>

\* ... or nothing, while the burst is still growing.
DrainNothing ==
  /\ timer /\ worker.pc = "idle" /\ Pending = {}
  /\ waiting = <<>> \/ ~Full
  /\ timer' = FALSE
  /\ worker' = Ended
  /\ UNCHANGED <<poll, items, state, runs, retries>>

(***************************************************************************)
(* Normalization: each update of the batch is replayed to the handlers     *)
(***************************************************************************)
\* The update is next, and its batch was not cancelled meanwhile.
Replays(u) ==
  /\ worker.pc = "batch" /\ worker.left # <<>> /\ u = Head(worker.left)
  /\ IsPending(worker.id)
  /\ UNCHANGED <<poll, runs, timer, retries>>
Onward == worker' = [worker EXCEPT !.left = Tail(@)] /\ UNCHANGED state
Collect(u) == collected' = Append(collected, u)

\* The sender is the owner no more.
Disowned(u) == Replays(u) /\ ~paired /\ Onward /\ UNCHANGED items
\* A text; or a photo, a document or a voice note, downloaded and transcribed.
Message(u) ==
  /\ Replays(u) /\ paired /\ Kind[u] # "decision" /\ Onward
  /\ Collect(u) /\ UNCHANGED decided
\* A decision on a chat's run counts once, but replaying the update that made it is not refused.
Decision(u) ==
  /\ Replays(u) /\ paired /\ Kind[u] = "decision" /\ Onward
  /\ decided' = decided \cup {u} /\ Collect(u)
\* The approval was decided before, has expired or is not its run's any more; or it
\* is a task's, which Tasks takes and nothing is collected for.
Refused(u) ==
  /\ Replays(u) /\ paired /\ Kind[u] = "decision" /\ u \notin decided /\ Onward
  /\ UNCHANGED items
\* A handler fails: the whole batch is quarantined, with what it did done.
Quarantine(u) ==
  /\ Replays(u) /\ paired /\ Kind[u] # "text"
  /\ Finish(worker.id, TRUE) /\ worker' = Ended
  /\ decided' \in {decided, IF Kind[u] = "decision" THEN decided \cup {u} ELSE decided}
  /\ UNCHANGED collected
CancelledMeanwhile ==
  /\ worker.pc = "batch" /\ worker.left # <<>> /\ ~IsPending(worker.id)
  /\ worker' = Ended /\ UNCHANGED <<poll, items, state, runs, timer, retries>>
Normalized ==
  /\ worker.pc = "batch" /\ worker.left = <<>> /\ worker' = [worker EXCEPT !.pc = "normalized"]
  /\ UNCHANGED <<poll, items, state, runs, timer, retries>>

Run(b) == [id |-> b.id, entries |-> b.entries, items |-> collected]
\* Mutant of Commit: a batch cancelled meanwhile becomes a run as well.
CommitAnyway ==
  /\ worker.pc = "normalized"
  /\ \E b \in batches : b.id = worker.id /\ runs' = runs \cup {Run(b)}
  /\ Finish(worker.id, FALSE)
  /\ worker' = Ended
  /\ UNCHANGED <<poll, items, timer, retries>>

\* Under the start lock: a batch still pending becomes a run, unless nothing was
\* collected from it or its owner is gone, and is finished.
Commit ==
  /\ worker.pc = "normalized"
  /\ IF IsPending(worker.id)
       THEN /\ \E b \in Pending :
                 /\ b.id = worker.id
                 /\ runs' = IF collected = <<>> \/ ~paired THEN runs ELSE runs \cup {Run(b)}
            /\ Finish(worker.id, FALSE)
       ELSE UNCHANGED <<state, runs>>
  /\ worker' = Ended
  /\ UNCHANGED <<poll, items, timer, retries>>

\* Mutant of DrainEnd: the timer is left alone.
DrainEndOnce ==
  /\ worker.pc = "ended"
  /\ worker' = Idle
  /\ UNCHANGED <<poll, items, state, timer, runs, retries>>

\* The worker's end sets the timer again when anything is pending.
DrainEnd ==
  /\ worker.pc = "ended"
  /\ worker' = Idle
  /\ timer' = (timer \/ waiting # <<>> \/ Pending # {})
  /\ UNCHANGED <<poll, items, state, runs, retries>>

\* The process ends and another starts: memory is gone, and Telegram sends again
\* what was never confirmed.
Restart ==
  /\ seen' = {} /\ waiting' = <<>> /\ batches' = {} /\ runs' = {}
  /\ timer' = FALSE /\ worker' = Idle /\ decided' = {} /\ collected' = <<>>
  /\ handled' \in 0..handled
  /\ UNCHANGED <<paired, retries>>

Normalize ==
  \/ \E u \in Updates : \/ Disowned(u) \/ Message(u) \/ Decision(u) \/ Refused(u)
                         \/ Quarantine(u)
  \/ CancelledMeanwhile \/ Normalized

Drain == \/ TimerBusy \/ DrainPending \/ DrainSeal \/ DrainNothing
         \/ Normalize \/ Commit \/ DrainEnd

Next == \/ \E u \in Updates : Accept(u) \/ Ignore(u)
        \/ OwnerLeaves \/ Cancel \/ RetryLatest \/ Drain \/ Restart

Spec == Init /\ [][Next]_vars

(***************************************************************************)
(* Properties                                                              *)
(***************************************************************************)
Tracked == Range(waiting) \cup UNION {Range(b.entries) : b \in Pending \cup Failed \cup runs}
InOrder(s) == \A i, j \in DOMAIN s : i < j => s[i] < s[j]

\* Types; and nothing is buffered, batched or run that accept did not remember, so
\* a repeated update is always recognized.
TypeOK ==
  /\ handled \in 0..N /\ seen \subseteq Updates /\ paired \in BOOLEAN /\ timer \in BOOLEAN
  /\ waiting \in Seq(seen) /\ decided \subseteq Updates /\ collected \in Seq(Updates)
  /\ batches \subseteq [id : seen, status : BatchStatuses, entries : Seq(seen)]
  /\ runs \subseteq [id : seen, entries : Seq(seen), items : Seq(seen)]
  /\ worker \in [pc : {"idle", "batch", "normalized", "ended"}, id : Nat, left : Seq(Updates)]

\* An update is in one place: buffered, in one batch or in one run, however often
\* Telegram sends it, its batch is retried or the worker starts over; and in its place
\* it is in the order of receipt.
OnePlace ==
  LET all == batches \cup runs IN
  /\ \A a, b \in all : a # b => Range(a.entries) \cap Range(b.entries) = {}
  /\ \A a \in all : Range(a.entries) \cap Range(waiting) = {} /\ InOrder(a.entries)
  /\ InOrder(waiting)

\* "Its cancelled batch cannot launch" (docs/architecture/telegram-intake.md): what
\* /cancel dropped, even under the worker's hands, never comes back while the
\* relay runs.
DroppedStaysDropped ==
  [][seen \subseteq seen' => \A u \in seen \ Tracked : u \notin Tracked']_vars

\* "Received album items remain together, including at the cap": sealing never
\* leaves the next item of the batch's last album behind.
AlbumsStayTogether ==
  [][DrainSeal /\ waiting' # <<>> =>
       LET last == waiting[Len(waiting) - Len(waiting')] IN
       \/ Album[last] = 0 \/ Album[last] # Album[waiting'[1]]
       \/ Context[last] # Context[waiting'[1]]]_vars

\* "No incomplete-context execution": a run has one item of every message of its
\* batch, in order, and one of every decision recorded under it, none of another
\* batch's, however often the batch was interrupted and retried.
RunsAreWhole ==
  \A r \in runs :
    /\ InOrder(r.items) /\ Range(r.items) \subseteq Range(r.entries)
    /\ \A u \in Range(r.entries) : Kind[u] # "decision" \/ u \in decided => u \in Range(r.items)

\* The event loop fires the timer, normalization is bounded by its timeouts, and
\* the burst's quiet window ends.
Fairness ==
  /\ WF_vars(TimerBusy) /\ WF_vars(DrainPending) /\ SF_vars(DrainSeal)
  /\ WF_vars(DrainNothing)
  /\ WF_vars(Normalize) /\ WF_vars(Commit) /\ WF_vars(DrainEnd)

FairSpec == Spec /\ Fairness

\* No wake-up is lost: what is buffered or pending is drained, cancelled or
\* quarantined, and a quarantined batch does not block the next.
IntakeDrains ==
  \A u \in Updates :
    LET undone == u \in Range(waiting) \/ \E b \in Pending : u \in Range(b.entries)
    IN  undone ~> ~undone
=============================================================================
