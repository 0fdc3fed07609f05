----------------------------- MODULE MCServices -----------------------------
(***************************************************************************)
(* What the relay serves on its own: the lock of a schedule's files and    *)
(* the due occurrences, delivery with its socket, and the event sources.   *)
(* They share no state here: a behaviour is one of one of them, its part,  *)
(* while the others stay as they start, and the run explores the union of  *)
(* their state graphs.                                                     *)
(***************************************************************************)
EXTENDS TaskLock, Integers, Sequences
CONSTANTS tick, trigger, edit, cli, key, m1, m2, work, a, b

\* Delivery
CONSTANTS Messages, Run, MaxKept, MaxRestarts
\* Sources
CONSTANTS Feeds, MaxCaptures, Talks, Batch, Public, Keep
\* Two events of a, one of b; the second event of each is of another conversation.
Captures == [s \in {a, b} |-> IF s = a THEN 2 ELSE 1]
TwoTalks == <<"p", "q">>
\* A message of a run and an owner delivery.
RunOf == [m \in {m1, m2} |-> IF m = m1 THEN work ELSE None]

VARIABLES
  part,
  \* Schedule
  now, def, cursor, occurrences, holder, ticking, trig, editing, boots,
  \* Delivery
  outbox, made, pump, client, got, running, phase, handed, handOff, deliveryStarts,
  \* Sources
  captured, answers, told, acked, pending, drain, eventRuns, created, released, begun, had,
  sourceStarts

schedule == <<now, def, cursor, occurrences, holder, ticking, trig, editing, boots>>
delivery == <<outbox, made, pump, client, got, running, phase, handed, handOff, deliveryStarts>>
sources == <<captured, answers, told, acked, pending, drain, eventRuns, created, released,
             begun, had, sourceStarts>>

S == INSTANCE Schedule WITH
       Editors <- {cli}, Keys <- {key}, Gated <- TRUE, MaxTime <- 1, MaxRev <- 2,
       MaxRestarts <- 0, Crashes <- TRUE, runs <- occurrences, tick <- ticking,
       edit <- editing, restarts <- boots
ASSUME DeliveryAssumption == MaxRestarts \in Nat /\ None \notin Messages
D == INSTANCE Delivery WITH file <- handOff, restarts <- deliveryStarts
\* What a source captures has its conversation; a batch is of no more events than runs
\* are kept, and one (10 and 100 in the code).
ASSUME SourcesAssumption ==
  /\ None \notin Nat
  /\ MaxCaptures \in [Feeds -> Nat] /\ Talks \in Seq({Talks[n] : n \in DOMAIN Talks})
  /\ \A s \in Feeds : MaxCaptures[s] <= Len(Talks)
  /\ Batch \in Nat /\ Keep \in Nat /\ Batch <= Keep + 1
E == INSTANCE Sources WITH
       N <- MaxCaptures, Conversation <- Talks, up <- answers, cursor <- acked,
       runs <- eventRuns, born <- created, restarts <- sourceStarts

ServicesInit ==
  /\ part \in {"lock", "schedule", "delivery", "sources"}
  /\ Init /\ S!Init /\ D!Init /\ E!Init /\ (part # "sources" => told = {})
ServicesNext ==
  \/ part = "lock"     /\ Next   /\ UNCHANGED <<part, schedule, delivery, sources>>
  \/ part = "schedule" /\ S!Next /\ UNCHANGED <<part, vars, delivery, sources>>
  \/ part = "delivery" /\ D!Next /\ UNCHANGED <<part, vars, schedule, sources>>
  \/ part = "sources"  /\ E!Next /\ UNCHANGED <<part, vars, schedule, delivery>>
ServicesSpec ==
  ServicesInit /\ [][ServicesNext]_<<part, vars, schedule, delivery, sources>>

\* Lock: a dead process does not block its schedule.
OrphansAreBroken == part = "lock" /\ Fairness => OrphansGo
\* Schedule: a due slot of an enabled, unchanged schedule that is not held is dispatched.
DueIsDispatched == part = "schedule" /\ S!Fairness => S!DueIsDispatched
\* Delivery: a message is sent at most once and its producer is told the truth.
SentAsTold == D!TypeOK /\ D!SentOnce /\ D!AnswersAreTrue
\* Delivery: a hand-over leaves no accepted message of its runs behind.
HandOverIsComplete == D!HandOverIsComplete
\* Delivery: who waits for an outcome learns it, and a graceful stop ends.
SocketSettles == part = "delivery" /\ D!Fairness => D!WaitersLearn /\ D!StopEnds
\* Sources: an acknowledged event had a run, and no event is run twice.
OneRunEach == E!OneRunEach
\* Sources: an event that was released is not run again.
DoneStaysDone == E!DoneStaysDone
\* Sources: a run that ended is released once the sources answer.
EndedIsReleased == part = "sources" /\ E!Fairness => E!EndedIsReleased
=============================================================================
