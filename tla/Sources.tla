-------------------------------- MODULE Sources --------------------------------
(***************************************************************************)
(* Event sources (event-sources.ts) and the part of the relay's turn that  *)
(* drains them (drainSources, releaseExternal): a batch of captured events *)
(* is remembered in a file, its groups become runs in memory, the cursor   *)
(* file acknowledges it, and the source is told which events are done.     *)
(* The relay may crash between two of these writes.                        *)
(*                                                                         *)
(* An event is a source and its number in that source's order; a batch is  *)
(* the events after the cursor up to a number, a group those of one        *)
(* conversation.  A definition commented "Mutant of D" is D with a bug.    *)
(* The ledger's cap of 2000 ended runs of any kind (pruneTerminals) is not *)
(* reached while a batch waits.                                            *)
(***************************************************************************)
EXTENDS Naturals, Sequences, FiniteSets, Functions

CONSTANTS
  Feeds,        \* the registered sources of the paired owner
  N,            \* source -> bound: events it captures
  Batch,        \* events a source returns at once (10 in the code)
  Conversation, \* the conversation of a source's n-th event
  Public,       \* conversations only an any-conversation grant answers
  Keep,         \* released terminal runs of a grant that are kept (100)
  MaxRestarts,
  None

VARIABLES
  captured, \* source -> how many events it captured
  up,       \* source -> whether it answers
  told,     \* the sources that take releases (releaseEvents)
  cursor,   \* source -> the cursor file
  pending,  \* source -> the last event of the batch file; None
  drain,    \* the source being drained under the start lock, and how far
  runs,     \* the runs, numbered in the order of their creation
  born,     \* how many were created in this life
  released, \* events their source was told are done
  begun,    \* event -> executors started for it in this life
  had,      \* events a run was ever created for
  restarts

files == <<cursor, pending>>
outside == <<captured, up, told, released>>
ledger == <<runs, born>>
history == <<begun, had>>
vars == <<files, outside, drain, ledger, history, restarts>>

Events == {e \in Feeds \X (1..Len(Conversation)) : e[2] <= N[e[1]]}
Idle == [at |-> "idle", feed |-> None, upto |-> 0, all |-> TRUE]
Init ==
  /\ captured = [s \in Feeds |-> 0] /\ up = [s \in Feeds |-> TRUE]
  /\ told \in SUBSET Feeds
  /\ cursor = [s \in Feeds |-> 0] /\ pending = [s \in Feeds |-> None]
  /\ drain = Idle /\ runs = {} /\ born = 0 /\ released = {}
  /\ begun = [e \in Events |-> 0] /\ had = {} /\ restarts = 0

(***************************************************************************)
(* Runs of event groups                                                    *)
(***************************************************************************)
Open(r) == r.st \in {"queued", "running"}
Groups(s, lo, hi) ==
  {{e \in {s} \X (lo + 1..hi) : Conversation[e[2]] = c} : c \in Range(Conversation)} \ {{}}
\* The place of a group among some, in the order of their first events.
Place(g, gs) == Cardinality({h \in gs : \A f \in g : \E e \in h : e[2] <= f[2]})
NewRuns(gs) ==
  {[group |-> g, st |-> "queued", rel |-> FALSE, no |-> born + Place(g, gs)] : g \in gs}
TalksTo(g) == {Conversation[e[2]] : e \in g}

Feed(r) == (CHOOSE e \in r.group : TRUE)[1]
Closed(rs, s) == {r \in rs : r.rel /\ Feed(r) = s}
Younger(r, rs) == {o \in rs : o.no > r.no}
\* Mutant of Kept: a released run is history at once.
KeptNone(rs, s) == rs \ Closed(rs, s)
\* pruneTaskHistory: of a grant's released terminal runs the latest are kept.
Kept(rs, s) ==
  {r \in rs : r \in Closed(rs, s) => Cardinality(Younger(r, Closed(rs, s))) < Keep}

(***************************************************************************)
(* Draining a source, under the start lock                                 *)
(***************************************************************************)
\* batch: the remembered one, else what the source returns.
Fetch(s) ==
  /\ drain = Idle /\ up[s]
  /\ LET upto == IF pending[s] # None THEN pending[s]
                 ELSE IF captured[s] - cursor[s] > Batch THEN cursor[s] + Batch ELSE captured[s]
     IN  /\ upto > cursor[s] \/ pending[s] # None
         /\ drain' = [at |-> "create", feed |-> s, upto |-> upto, all |-> TRUE]
  /\ UNCHANGED <<files, outside, ledger, history, restarts>>
\* The batch is remembered and its groups get runs (in memory: a crash in between
\* leaves what one after it leaves).  A group with a run is passed over; a public
\* conversation with an open run, or beyond its grant's budget, is deferred.
Create ==
  /\ drain.at = "create"
  /\ pending' = [pending EXCEPT ![drain.feed] = drain.upto]
  /\ LET new == {g \in Groups(drain.feed, cursor[drain.feed], drain.upto) :
                   \A r \in runs : r.group # g}
         busy == {g \in new : TalksTo(g) \cap Public # {} /\
                    \E r \in runs : Open(r) /\ TalksTo(r.group) = TalksTo(g)}
     IN  \E over \in SUBSET {g \in new : TalksTo(g) \cap Public # {}} :
           LET admitted == new \ (busy \cup over)
           IN  /\ runs' = runs \cup NewRuns(admitted) /\ born' = born + Cardinality(admitted)
               /\ had' = had \cup UNION admitted
               /\ drain' = [drain EXCEPT !.at = "advance", !.all = admitted = new]
  /\ UNCHANGED <<cursor, outside, begun, restarts>>

MayAdvance == drain.all
\* advance: the cursor is written, then the batch is forgotten.
Advance ==
  /\ drain.at = "advance"
  /\ IF MayAdvance THEN /\ cursor' = [cursor EXCEPT ![drain.feed] = drain.upto]
                        /\ drain' = [drain EXCEPT !.at = "forget"]
                   ELSE drain' = Idle /\ UNCHANGED cursor
  /\ UNCHANGED <<pending, outside, ledger, history, restarts>>
Forget ==
  /\ drain.at = "forget"
  /\ pending' = [pending EXCEPT ![drain.feed] = None] /\ drain' = Idle
  /\ UNCHANGED <<cursor, outside, ledger, history, restarts>>

(***************************************************************************)
(* The runs, which start under the same lock                               *)
(***************************************************************************)
NoneRuns == \A r \in runs : r.st # "running"
First(ok(_)) == {r \in runs : ok(r) /\ \A o \in runs : ok(o) => r.no <= o.no}
Becomes(r, q) == (runs \ {r}) \cup {q}

\* releaseExternal of a run that ended.
Release(r) ==
  /\ IF up[Feed(r)]
     THEN /\ released' = IF Feed(r) \in told THEN released \cup r.group ELSE released
          /\ runs' = Kept(Becomes(r, [r EXCEPT !.st = "ended", !.rel = TRUE]), Feed(r))
     ELSE runs' = Becomes(r, [r EXCEPT !.st = "ended"]) /\ UNCHANGED released
  /\ UNCHANGED <<files, captured, up, told, drain, born, begun, had, restarts>>

\* Mutant of Eligible: the batch is taken at its word.
EligibleAlways(r) == r.group
\* The source is asked again which events a queued run may still have.
Eligible(r) == r.group \ released
\* The run the relay starts next, which it checks with its source.
Startable(r) == drain = Idle /\ NoneRuns /\ r.st = "queued" /\ up[Feed(r)]
Start(r) ==
  /\ Startable(r) /\ Eligible(r) # {}
  /\ runs' = Becomes(r, [r EXCEPT !.st = "running"])
  /\ begun' = [e \in Events |-> IF e \in Eligible(r) THEN begun[e] + 1 ELSE begun[e]]
  /\ UNCHANGED <<files, outside, drain, born, had, restarts>>
\* Nothing to run any more: done with before a restart, or no longer subscribed.
Cancel(r) == Startable(r) /\ Release(r)
End(r) == r.st = "running" /\ Release(r)

Unreleased(r) == r.st = "ended" /\ ~r.rel
\* Mutant of Retry: nothing is retried.
RetryNothing == FALSE /\ UNCHANGED vars
\* The relay's turn tries again the first terminal run that is not released.
Retry ==
  /\ drain = Idle
  /\ \E r \in First(Unreleased) : up[Feed(r)] /\ Release(r)

(***************************************************************************)
(* The sources and the relay                                               *)
(***************************************************************************)
Capture(s) ==
  /\ captured[s] < N[s] /\ captured' = [captured EXCEPT ![s] = @ + 1]
  /\ UNCHANGED <<files, up, told, released, drain, ledger, history, restarts>>
Fail(s) ==
  /\ up[s] /\ up' = [up EXCEPT ![s] = FALSE]
  /\ UNCHANGED <<files, captured, told, released, drain, ledger, history, restarts>>
Recover(s) ==
  /\ ~up[s] /\ up' = [up EXCEPT ![s] = TRUE]
  /\ UNCHANGED <<files, captured, told, released, drain, ledger, history, restarts>>
Restart ==
  /\ restarts < MaxRestarts /\ restarts' = restarts + 1
  /\ runs' = {} /\ born' = 0 /\ drain' = Idle /\ begun' = [e \in Events |-> 0]
  /\ UNCHANGED <<files, outside, had>>

Draining == Create \/ Advance \/ Forget
Next == \/ \E s \in Feeds : Fetch(s) \/ Capture(s) \/ Fail(s) \/ Recover(s)
        \/ Draining \/ Retry \/ Restart
        \/ \E r \in runs : Start(r) \/ Cancel(r) \/ End(r)
Spec == Init /\ [][Next]_vars

(***************************************************************************)
(* Properties                                                              *)
(***************************************************************************)
\* An acknowledged event had a run, and no event is run twice in a life of the
\* relay: a batch kept because a group was deferred finds the runs of the others
\* even when they are over, released and about to be history.
OneRunEach == /\ \A e \in Events : e[2] <= cursor[e[1]] => e \in had
              /\ \A e \in Events : begun[e] <= 1

\* An event its source was told is done is not run again, not even after a
\* restart that finds its batch unacknowledged.
DoneStaysDone == [][\A e \in Events : e \in released => begun'[e] <= begun[e]]_vars

\* Each turn of the relay drains, and before it drains tells a source of a run.
Fairness == WF_vars(Draining) /\ SF_vars(Retry)
FairSpec == Spec /\ Fairness

\* No run that ended stays unreleased once the sources answer again: one whose
\* source was away is told later and then no longer keeps the next from it.
EndedIsReleased ==
  (\A s \in Feeds : <>[]up[s]) =>
    \A e \in Events : LET waiting == \E r \in runs : e \in r.group /\ Unreleased(r)
                    IN  waiting ~> ~waiting
================================================================================
