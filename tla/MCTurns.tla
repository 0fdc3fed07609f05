------------------------------- MODULE MCTurns -------------------------------
(***************************************************************************)
(* The owner's turns: Telegram intake, which makes runs of updates, and    *)
(* the relay's chat lane, which executes them.  The two share no state     *)
(* here: a behaviour is one of one of them, its part, while the other      *)
(* stays as it starts, and the run explores the union of their state       *)
(* graphs.                                                                 *)
(***************************************************************************)
EXTENDS MCRelay, Integers

VARIABLES part, handled, paired, decided, collected, seen, waiting, batches, runs, timer, worker, retries

intake == <<handled, paired, decided, collected, seen, waiting, batches, runs, timer, worker, retries>>

CONSTANTS N, Context, Album, Kind, Burst, MaxRetries
\* Updates 2 to 4 are one album; the last update was sent after a change of setup.
AlbumOf   == [u \in 1..4 |-> IF u \in 2..4 THEN 1 ELSE 0]
KindOf    == [u \in 1..4 |-> IF u = 1 THEN "decision" ELSE "media"]
ContextOf == [u \in 1..4 |-> IF u = 4 THEN "other" ELSE "same"]
ASSUME IntakeAssumption == N \in Nat /\ Burst \in Nat \ {0}
I == INSTANCE Inbox

TurnsInit == part \in {"lane", "intake"} /\ Init /\ I!Init
TurnsNext ==
  \/ part = "lane"   /\ Next   /\ UNCHANGED <<part, intake>>
  \/ part = "intake" /\ I!Next /\ UNCHANGED <<part, vars>>
TurnsSpec == TurnsInit /\ [][TurnsNext]_<<part, vars, intake>>

\* Lane: chat is never starved or wedged, if executors' turns end: queued
\* foreground work leaves the queue.
ChatIsServed == part = "lane" /\ Fairness /\ TurnsEnd => ChatProceeds
\* Intake: an update is buffered, in one batch or in one run, and in one only.
OnePlace == I!TypeOK /\ I!OnePlace /\ I!RunsAreWhole
\* Intake: what was cancelled stays cancelled, and albums stay together.
IntakeIsFaithful == I!DroppedStaysDropped /\ I!AlbumsStayTogether
\* Intake: what was received is worked off.
IntakeDrains == part = "intake" /\ I!Fairness => I!IntakeDrains
==============================================================================
