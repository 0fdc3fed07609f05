----------------------------- MODULE MCDispatch -----------------------------
(***************************************************************************)
(* Scheduled work: its dispatch by the relay, the hand-over of a relay with *)
(* a chat and a scheduled run on host executors, and the schedule's own    *)
(* files.  The three share no state here: a behaviour is one of one of     *)
(* them, its part, while the others stay as they start, and the run        *)
(* explores the union of their state graphs.                               *)
(***************************************************************************)
EXTENDS Relay, TLC
CONSTANTS chat, daily, again, weekly, cli, other, key

\* Schedule
CONSTANTS Editors, Keys, Gated, MaxTime, MaxRev, MaxBoots, Crashes

VARIABLES
  part,
  \* Schedule
  now, def, cursor, runs, holder, tick, trig, edit, boots

OneTask  == [r \in Scheduled |-> IF r = weekly THEN "weekly" ELSE "daily"]
OneSetup == [r \in Runs |-> 1]

\* Executors in the relay's container: three occurrences of two schedules, one of
\* which is paused and resumed.
D == INSTANCE Relay WITH HostTransport <- FALSE, Pausable <- {weekly}, MaxRestarts <- 0
S == INSTANCE Schedule WITH MaxRestarts <- MaxBoots, restarts <- boots
\* The names of processes, slots, keys and revisions are distinct.
ASSUME ScheduleAssumption ==
  /\ MaxTime \in Nat /\ MaxRev \in Nat \ {0} /\ MaxBoots \in Nat
  /\ None \notin Editors \cup S!Relay /\ None \notin S!Slots
  /\ Editors \cap S!Relay = {}
  /\ Keys \cap (S!Revs \X S!Slots) = {}

\* Two occurrences of one task, and two CLI processes.
Symmetric == Permutations({daily, again}) \cup Permutations({cli, other})

schedule == <<now, def, cursor, runs, holder, tick, trig, edit, boots>>
DispatchInit ==
  part \in {"dispatch", "handover", "schedule"} /\ Init /\ S!Init
\* A hand-over meets a chat and one occurrence.
DispatchNext ==
  \/ part = "dispatch" /\ D!Next /\ status'[chat] = "absent" /\ UNCHANGED <<part, schedule>>
  \/ /\ part = "handover" /\ Next /\ UNCHANGED <<part, schedule>>
     /\ \A r \in {daily, again} : status'[r] = "absent"
  \/ part = "schedule" /\ S!Next /\ UNCHANGED <<part, vars>>
DispatchSpec == DispatchInit /\ [][DispatchNext]_<<part, vars, schedule>>

\* Schedule: one occurrence at a time, one per slot, still current.
OccurrencesAreSound == S!OccurrencesAreSound
\* Schedule: the definition last written rules.
DefinitionRules == S!DefinitionRules
=============================================================================
