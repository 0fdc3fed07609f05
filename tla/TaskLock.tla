------------------------------ MODULE TaskLock ------------------------------
(***************************************************************************)
(* The lock file of one schedule (src/src/scheduler.ts, lock and locked),  *)
(* taken by dispatch in the relay and by the scheduling CLI processes.  It *)
(* is a file created exclusively with a random token; a file older than 30 *)
(* seconds is taken for one left by a crashed process and removed.  Every  *)
(* file operation is one step: nothing makes two of them atomic.           *)
(*                                                                         *)
(* A definition commented "Mutant of D" is D with a plausible bug; no      *)
(* action uses it.                                                         *)
(***************************************************************************)
EXTENDS Naturals, FiniteSets

CONSTANTS
  Callers,   \* calls of lock() that can be under way at once
  Crashes,   \* bound: whether a process may die holding the lock
  Slow,      \* bound: whether a live holder may keep it over 30 seconds
  None

ASSUME CallersAssumption == None \notin Callers
ASSUME KindsAssumption == Crashes \in BOOLEAN /\ Slow \in BOOLEAN

VARIABLES
  file,    \* the lock file: the caller whose token it holds, or None
  old,     \* it is older than 30 seconds
  orphan,  \* its writer died without releasing it
  died,    \* some process has died holding the lock
  pc

vars == <<file, old, orphan, died, pc>>

Init == file = None /\ old = FALSE /\ orphan = FALSE /\ died = FALSE
        /\ pc = [p \in Callers |-> "idle"]

Goto(p, l) == pc' = [pc EXCEPT ![p] = l]
\* rm of the lock file, whoever's it is by now.
RemoveFile == file' = None /\ old' = FALSE /\ orphan' = FALSE /\ UNCHANGED died

Call(p) ==
  /\ pc[p] = "idle"
  /\ Goto(p, "trying")
  /\ UNCHANGED <<file, old, orphan, died>>

\* Mutant of Create: not exclusive.
CreateOver(p) ==
  /\ pc[p] = "trying"
  /\ file' = p
  /\ Goto(p, "holding")
  /\ UNCHANGED <<old, orphan, died>>

\* writeFile with flag wx.
Create(p) ==
  /\ pc[p] = "trying" /\ file = None
  /\ file' = p
  /\ Goto(p, "holding")
  /\ UNCHANGED <<old, orphan, died>>

\* Mutant of FindStale: an old file is waited for like any other.
IgnoreStale(p) ==
  /\ pc[p] = "trying" /\ file # None /\ old
  /\ Goto(p, "idle")
  /\ UNCHANGED <<file, old, orphan, died>>

\* The file exists: an old one is to be removed ...
FindStale(p) ==
  /\ pc[p] = "trying" /\ file # None /\ old
  /\ Goto(p, "breaking")
  /\ UNCHANGED <<file, old, orphan, died>>

\* ... which only then happens; the loop tries again.
BreakStale(p) ==
  /\ pc[p] = "breaking"
  /\ RemoveFile
  /\ Goto(p, "trying")

\* A tick gives up at once, a waiter after 200 attempts.
GiveUp(p) ==
  /\ pc[p] = "trying" /\ file # None /\ ~old
  /\ Goto(p, "idle")
  /\ UNCHANGED <<file, old, orphan, died>>

\* release reads the token and removes the file only if it is its own.
ReadToken(p) ==
  /\ pc[p] = "holding"
  /\ Goto(p, IF file = p THEN "removing" ELSE "idle")
  /\ UNCHANGED <<file, old, orphan, died>>

Release(p) ==
  /\ pc[p] = "removing"
  /\ RemoveFile
  /\ Goto(p, "idle")

\* The process dies: whatever it was doing stops, and its file stays behind.
Crash(p) ==
  /\ Crashes /\ pc[p] \in {"holding", "removing"}
  /\ orphan' = (orphan \/ file = p)
  /\ died' = TRUE
  /\ Goto(p, "idle")
  /\ UNCHANGED <<file, old>>

\* 30 seconds pass.  "Holders need milliseconds": without Slow only the file of
\* a dead process gets that old.
Age ==
  /\ file # None /\ ~old
  /\ orphan \/ Slow
  /\ old' = TRUE
  /\ UNCHANGED <<file, orphan, died, pc>>

Next ==
  \/ \E p \in Callers :
       \/ Call(p) \/ Create(p) \/ FindStale(p) \/ BreakStale(p) \/ GiveUp(p)
       \/ ReadToken(p) \/ Release(p) \/ Crash(p)
  \/ Age

Spec == Init /\ [][Next]_vars

(***************************************************************************)
(* Properties                                                              *)
(***************************************************************************)
\* Types: the lock file always carries the token of some call of lock().
TypeOK ==
  /\ file \in Callers \cup {None}
  /\ old \in BOOLEAN /\ orphan \in BOOLEAN /\ died \in BOOLEAN
  /\ pc \in [Callers -> {"idle", "trying", "breaking", "holding", "removing"}]

\* "Definition writes and dispatch commits for one task exclude each other
\* across the relay and CLI processes" (scheduler.ts).
Exclusion == \A p, q \in Callers : pc[p] = "holding" /\ pc[q] = "holding" => p = q

\* ... which they do as long as no process has died holding the lock: the protocol
\* of creating and releasing the file is sound, breaking a stale one is not.
ExclusionUntilDeath == ~died => Exclusion

\* Callers keep coming (the relay ticks every second), time passes, and a live
\* process finishes what it started.
Fairness ==
  /\ WF_vars(Age)
  /\ \A p \in Callers :
       /\ WF_vars(Call(p) \/ BreakStale(p) \/ ReadToken(p) \/ Release(p))
       /\ SF_vars(FindStale(p)) /\ SF_vars(Create(p))

FairSpec == Spec /\ Fairness

\* A dead process does not block its schedule: its lock file goes away.
OrphansGo == orphan ~> ~orphan
=============================================================================
