---------------------------- MODULE DispatchProofs ----------------------------
(***************************************************************************)
(* Theorems about the owner's turns, for every set of runs, setups,        *)
(* transports and restarts, and for every sequence of updates.             *)
(*                                                                         *)
(* Relay: its types, the serial foreground lane, and who holds a running   *)
(* run.  Dispatch keeps the ledger, the two lanes, the start lock, the     *)
(* completions under way and the hand-off record in step although stops,   *)
(* sweeps and exits fall between its awaits; what callers of the ledger    *)
(* may rely on follows from that: an ended run stays ended, an idle relay  *)
(* stays idle, occurrences keep apart, no executor is lost, and dispatch   *)
(* implements the lanes of module Lane.                                    *)
(*                                                                         *)
(* Inbox: an update is in one place and in its order, a run is whole, what *)
(* was cancelled stays away and albums stay together.  What it rests on is *)
(* what the worker has in hand while updates, /cancel and /retry go on     *)
(* around it (AtWork), and where the buffer is cut (CutFalls).             *)
(***************************************************************************)
EXTENDS MCTurns, SequenceTheorems, WellFoundedInduction, FiniteSetTheorems, TLAPS

USE DEF Children

\* A slot holds an executor of some run.
LEMMA SlotsAreChildren ==
  ASSUME TypeOK
  PROVE  SlotChildren \subseteq Children
BY DEF TypeOK, SlotChildren, Background

\* A fresh relay (createRelay's initial state) is well typed.
LEMMA TypeInit == Init => TypeOK
BY RunsAssumption, BoundsAssumption, NoneAssumption
   DEF Init, TypeOK, Statuses, Phases, Locks, Free, Runs

\* Every step keeps the types, one case per action.
LEMMA TypeStep ==
  ASSUME TypeOK, [Next]_vars
  PROVE  TypeOK'
<1> USE RunsAssumption, BoundsAssumption, NoneAssumption
<1> USE DEF TypeOK, Statuses, Phases, Locks, Free, Patch, Occupy, Kill, Live,
            ledger, lanes, procs, stops, life, world
<1>1. ASSUME NEW r \in Runs, Create(r) PROVE TypeOK'
  BY <1>1 DEF Create, Runs
<1>2. ASSUME NEW r \in Runs, Admit(r) PROVE TypeOK'
  BY <1>2 DEF Admit, Runs
<1>3. ASSUME NEW r \in Runs, AdmitReject(r) PROVE TypeOK'
  BY <1>3 DEF AdmitReject, Runs
<1>4. ASSUME NEW r \in Runs, AdmitDefer(r) PROVE TypeOK'
  BY <1>4 DEF AdmitDefer, Runs
<1>5. ASSUME NEW r \in Runs, AdmitStart(r) PROVE TypeOK'
  BY <1>5 DEF AdmitStart, Runs
<1>6. ASSUME NEW r \in Runs, AdmitFail(r) PROVE TypeOK'
  <2>1. CASE GiveUp(r)
    BY <1>6, <2>1 DEF AdmitFail, GiveUp, ReleaseSlot, Runs
  <2>2. CASE Patch(r, "failed") /\ quotaHeld' = quotaHeld \ {r}
    BY <1>6, <2>2 DEF AdmitFail, ReleaseSlot, Runs
  <2> QED
    BY <1>6, <2>1, <2>2 DEF AdmitFail
<1>7. ASSUME NEW r \in Runs, LaunchOk(r) PROVE TypeOK'
  BY <1>7 DEF LaunchOk, Spawn, Runs
<1>8. ASSUME NEW r \in Runs, LaunchNext(r) PROVE TypeOK'
  BY <1>8 DEF LaunchNext, Runs
<1>9. ASSUME NEW r \in Runs, LaunchFail(r) PROVE TypeOK'
  BY <1>9 DEF LaunchFail, GiveUp, ReleaseSlot, Runs
<1>10. ASSUME NEW r \in Runs, Advance(r) PROVE TypeOK'
  BY <1>10 DEF Advance, Runs
<1>11. ASSUME NEW r \in Runs, AdvanceEnd(r) PROVE TypeOK'
  BY <1>11 DEF AdvanceEnd, Runs
<1>12. ASSUME NEW r \in Runs, AdvanceUnavailable(r) PROVE TypeOK'
  BY <1>12 DEF AdvanceUnavailable, GiveUp, ReleaseSlot, Runs
<1>13. ASSUME NEW r \in Runs, CancelQueued(r) PROVE TypeOK'
  BY <1>13 DEF CancelQueued, Runs
<1>14. ASSUME NEW r \in Runs, CancelRunning(r) PROVE TypeOK'
  BY <1>14 DEF CancelRunning, Slot, Runs
<1>15. ASSUME NEW r \in Runs, MarkCancelled(r) PROVE TypeOK'
  BY <1>15 DEF MarkCancelled, Runs
<1>16. ASSUME NEW r \in Runs, RetryQuota(r) PROVE TypeOK'
  BY <1>16 DEF RetryQuota, Retryable, Runs
<1>19. ASSUME NEW r \in Runs, SweepBegin(r) PROVE TypeOK'
  BY <1>19 DEF SweepBegin, Runs
<1>20. ASSUME NEW r \in Runs, SweepBackground(r) PROVE TypeOK'
  BY <1>20 DEF SweepBackground, Runs
<1>21. ASSUME NEW r \in Runs, Revoke(r) PROVE TypeOK'
  BY <1>21 DEF Revoke, Runs
<1>22. ASSUME NEW r \in Runs, SetEnabled(r) PROVE TypeOK'
  BY <1>22 DEF SetEnabled, Runs
<1>23. ASSUME NEW c \in Children, Exit(c) PROVE TypeOK'
  BY <1>23, SlotsAreChildren DEF Exit, Runs
<1>24. ASSUME NEW c \in Children, Report(c) PROVE TypeOK'
  BY <1>24, SlotsAreChildren DEF Report, Runs
<1>25. ASSUME NEW c \in Children, ObserverLeaves(c) PROVE TypeOK'
  BY <1>25, SlotsAreChildren DEF ObserverLeaves, Runs
<1>26. ASSUME NEW c \in Children, Complete(c) PROVE TypeOK'
  BY <1>26, SlotsAreChildren DEF Complete, Runs
<1>27. ASSUME NEW c \in Children, CompleteBroken(c) PROVE TypeOK'
  BY <1>27, SlotsAreChildren DEF CompleteBroken, Runs
<1>28. ASSUME NEW c \in Children, CompleteRejected(c) PROVE TypeOK'
  BY <1>28, SlotsAreChildren DEF CompleteRejected, Runs
<1>29. ASSUME NEW c \in Children, CompleteHandedOff(c) PROVE TypeOK'
  BY <1>29, SlotsAreChildren DEF CompleteHandedOff, Runs
<1>30. ASSUME NEW c \in Children, StopRequest(c) PROVE TypeOK'
  BY <1>30, SlotsAreChildren DEF StopRequest, Runs
<1>31. ASSUME NEW c \in Children, StopNext(c) PROVE TypeOK'
  BY <1>31, SlotsAreChildren DEF StopNext, Runs
<1>32. ASSUME NEW c \in Children, Adopt(c) PROVE TypeOK'
  BY <1>32, SlotsAreChildren DEF Adopt, Runs
<1>33. ASSUME NEW c \in Children, AdoptFail(c) PROVE TypeOK'
  BY <1>33, SlotsAreChildren DEF AdoptFail, Runs
<1>34. CASE StopAck
  BY <1>34, SlotsAreChildren DEF StopAck, Runs
<1>35. CASE StopRefused
  BY <1>35, SlotsAreChildren DEF StopRefused, Runs
<1>36. CASE CancelPending
  BY <1>36, SlotsAreChildren DEF CancelPending, Runs
<1>37. CASE SweepPass
  BY <1>37, SlotsAreChildren DEF SweepPass, Runs
<1>38. CASE SweepStop
  BY <1>38, SlotsAreChildren DEF SweepStop, Runs
<1>39. CASE Pause
  BY <1>39, SlotsAreChildren DEF Pause, Runs
<1>40. CASE ObserveIdle
  BY <1>40, SlotsAreChildren DEF ObserveIdle, Runs
<1>41. CASE Unpause
  BY <1>41, SlotsAreChildren DEF Unpause, Runs
<1>42. CASE BeginStop
  BY <1>42, SlotsAreChildren DEF BeginStop, Runs
<1>43. CASE HandoffSave
  BY <1>43, SlotsAreChildren DEF HandoffSave, Handable, Runs
<1>44. CASE HandoffKill
  BY <1>44, SlotsAreChildren DEF HandoffKill, Runs
<1>45. CASE HandoffSkip
  BY <1>45, SlotsAreChildren DEF HandoffSkip, Runs
<1>46. CASE TerminateAll
  BY <1>46, SlotsAreChildren DEF TerminateAll, Runs
<1>47. CASE Down
  BY <1>47, SlotsAreChildren DEF Down, Runs
<1>48. CASE Start
  BY <1>48, SlotsAreChildren DEF Start, Unknown, Runs
<1>49. CASE Started
  BY <1>49, SlotsAreChildren DEF Started, Runs
<1>51. CASE Boot
  BY <1>51 DEF Boot, Runs
<1>50. CASE UNCHANGED vars
  BY <1>50 DEF vars
<1> QED
  BY <1>1, <1>2, <1>3, <1>4, <1>5, <1>6, <1>7, <1>8, <1>9, <1>10, <1>11, <1>12, <1>13, <1>14, <1>15, <1>16, <1>19, <1>20, <1>21, <1>22, <1>23, <1>24, <1>25, <1>26, <1>27, <1>28, <1>29, <1>30, <1>31, <1>32, <1>33, <1>34, <1>35, <1>36, <1>37, <1>38, <1>39, <1>40, <1>41, <1>42, <1>43, <1>44, <1>45, <1>46, <1>47, <1>48, <1>49, <1>50, <1>51 DEF Next, RunStep, ChildStep, RelayStep

\* What makes ForegroundSerial inductive: a foreground run about to be admitted
\* under the lock still finds no other running (admission checks the ledger before
\* anything else can start), the hand-off record names at most one, and a relay
\* goes down with the lock free, nothing in its slots or waiting for a setup, and
\* knows of no foreground run before it takes the record.
AdmitAlone == lock.op = "admit" /\ lock.run \in Foreground => ~ForegroundRunning
FileSerial ==
  \A c, d \in file : c[1] \in Foreground /\ d[1] \in Foreground => c[1] = d[1]
DownUnlocked ==
  phase \in {"down", "booting"} =>
    /\ lock = Free /\ advancing = {}
    /\ fg = None /\ \A r \in Scheduled : bg[r] = None
    /\ \A r \in Foreground : status[r] = "absent"
SerialInv == TypeOK /\ ForegroundSerial /\ AdmitAlone /\ FileSerial /\ DownUnlocked

\* A fresh relay has no running run, no hand-off record and is not down.
LEMMA SerialInit == Init => SerialInv
BY TypeInit DEF Init, SerialInv, ForegroundSerial, AdmitAlone, FileSerial,
                DownUnlocked, Free, Runs

\* Every step keeps it, one case per action; only AdmitStart and Start make a run
\* running.
LEMMA SerialStep ==
  ASSUME SerialInv, [Next]_vars
  PROVE  SerialInv'
<1> USE RunsAssumption, NoneAssumption
<1> USE DEF ForegroundSerial, AdmitAlone, ForegroundRunning, FileSerial, DownUnlocked,
            Locked, Patch, Free, ledger, lanes, life, Occupy, ReleaseSlot, Closed,
            SlotChildren, Background
<1>0. TypeOK /\ TypeOK'
  BY TypeStep DEF SerialInv
<1>a. ForegroundSerial /\ AdmitAlone /\ FileSerial /\ DownUnlocked
  BY DEF SerialInv
<1> DEFINE Kept == (ForegroundSerial /\ AdmitAlone /\ FileSerial /\ DownUnlocked)'
<1> SUFFICES Kept
  BY <1>0 DEF SerialInv
<1> USE <1>0, <1>a
<1>1. ASSUME NEW r \in Runs, Create(r) PROVE Kept
  BY <1>1 DEF Create, Runs, TypeOK
<1>2. ASSUME NEW r \in Runs, Admit(r) PROVE Kept
  BY <1>2 DEF Admit, ForegroundRunning, Runs, TypeOK
<1>3. ASSUME NEW r \in Runs, AdmitReject(r) PROVE Kept
  BY <1>3 DEF AdmitReject, Runs, TypeOK
<1>4. ASSUME NEW r \in Runs, AdmitDefer(r) PROVE Kept
  BY <1>4 DEF AdmitDefer, Runs, TypeOK
<1>5. ASSUME NEW r \in Runs, AdmitStart(r) PROVE Kept
  BY <1>5 DEF AdmitStart, MayStart, Runs, TypeOK
<1>6. ASSUME NEW r \in Runs, AdmitFail(r) PROVE Kept
  BY <1>6 DEF AdmitFail, GiveUp, MayStart, Runs, TypeOK
<1>7. ASSUME NEW r \in Runs, LaunchOk(r) PROVE Kept
  BY <1>7 DEF LaunchOk, Spawn, Runs, TypeOK
<1>8. ASSUME NEW r \in Runs, LaunchNext(r) PROVE Kept
  BY <1>8 DEF LaunchNext, Runs, TypeOK
<1>9. ASSUME NEW r \in Runs, LaunchFail(r) PROVE Kept
  BY <1>9 DEF LaunchFail, GiveUp, Runs, TypeOK
<1>10. ASSUME NEW r \in Runs, Advance(r) PROVE Kept
  BY <1>10 DEF Advance, MayAdvance, ShuttingDown, Runs, TypeOK
<1>11. ASSUME NEW r \in Runs, AdvanceEnd(r) PROVE Kept
  BY <1>11 DEF AdvanceEnd, Runs, TypeOK
<1>12. ASSUME NEW r \in Runs, AdvanceUnavailable(r) PROVE Kept
  BY <1>12 DEF AdvanceUnavailable, GiveUp, Runs, TypeOK
<1>13. ASSUME NEW r \in Runs, CancelQueued(r) PROVE Kept
  BY <1>13 DEF CancelQueued, Runs, TypeOK
<1>14. ASSUME NEW r \in Runs, CancelRunning(r) PROVE Kept
  BY <1>14 DEF CancelRunning, Runs, TypeOK
<1>15. ASSUME NEW r \in Runs, MarkCancelled(r) PROVE Kept
  BY <1>15 DEF MarkCancelled, Runs, TypeOK
<1>16. ASSUME NEW r \in Runs, RetryQuota(r) PROVE Kept
  BY <1>16 DEF RetryQuota, Retryable, Runs, TypeOK
<1>19. ASSUME NEW r \in Runs, SweepBegin(r) PROVE Kept
  BY <1>19 DEF SweepBegin, Runs, TypeOK
<1>20. ASSUME NEW r \in Runs, SweepBackground(r) PROVE Kept
  BY <1>20 DEF SweepBackground, Runs, TypeOK
<1>21. ASSUME NEW r \in Runs, Revoke(r) PROVE Kept
  BY <1>21 DEF Revoke, Runs, TypeOK
<1>22. ASSUME NEW r \in Runs, SetEnabled(r) PROVE Kept
  BY <1>22 DEF SetEnabled, Runs, TypeOK
<1>23. ASSUME NEW c \in Children, Exit(c) PROVE Kept
  BY <1>23 DEF Exit, Runs, TypeOK
<1>24. ASSUME NEW c \in Children, Report(c) PROVE Kept
  BY <1>24 DEF Report, Runs, TypeOK
<1>25. ASSUME NEW c \in Children, ObserverLeaves(c) PROVE Kept
  BY <1>25 DEF ObserverLeaves, Runs, TypeOK
<1>26. ASSUME NEW c \in Children, Complete(c) PROVE Kept
  BY <1>26 DEF Complete, Runs, TypeOK
<1>27. ASSUME NEW c \in Children, CompleteBroken(c) PROVE Kept
  BY <1>27 DEF CompleteBroken, Runs, TypeOK
<1>28. ASSUME NEW c \in Children, CompleteRejected(c) PROVE Kept
  BY <1>28 DEF CompleteRejected, Runs, TypeOK
<1>29. ASSUME NEW c \in Children, CompleteHandedOff(c) PROVE Kept
  BY <1>29 DEF CompleteHandedOff, Runs, TypeOK
<1>30. ASSUME NEW c \in Children, StopRequest(c) PROVE Kept
  BY <1>30 DEF StopRequest, Runs, TypeOK
<1>31. ASSUME NEW c \in Children, StopNext(c) PROVE Kept
  BY <1>31 DEF StopNext, Runs, TypeOK
<1>32. ASSUME NEW c \in Children, Adopt(c) PROVE Kept
  BY <1>32 DEF Adopt, Runs, TypeOK
<1>33. ASSUME NEW c \in Children, AdoptFail(c) PROVE Kept
  BY <1>33 DEF AdoptFail, Runs, TypeOK
<1>34. CASE StopAck
  BY <1>34 DEF StopAck, Runs, TypeOK
<1>35. CASE StopRefused
  BY <1>35 DEF StopRefused, Runs, TypeOK
<1>36. CASE CancelPending
  BY <1>36 DEF CancelPending, Runs, TypeOK
<1>37. CASE SweepPass
  BY <1>37 DEF SweepPass, Runs, TypeOK
<1>38. CASE SweepStop
  BY <1>38 DEF SweepStop, Runs, TypeOK
<1>39. CASE Pause
  BY <1>39 DEF Pause, Runs, TypeOK
<1>40. CASE ObserveIdle
  BY <1>40 DEF ObserveIdle, Runs, TypeOK
<1>41. CASE Unpause
  BY <1>41 DEF Unpause, Runs, TypeOK
<1>42. CASE BeginStop
  BY <1>42 DEF BeginStop, Runs, TypeOK
<1>43. CASE HandoffSave
  BY <1>43 DEF HandoffSave, Handable, Runs, TypeOK
<1>44. CASE HandoffKill
  BY <1>44 DEF HandoffKill, Runs, TypeOK
<1>45. CASE HandoffSkip
  BY <1>45 DEF HandoffSkip, Runs, TypeOK
<1>46. CASE TerminateAll
  BY <1>46 DEF TerminateAll, Runs, TypeOK
<1>47. CASE Down
  <2>1. fg = None /\ \A r \in Scheduled : bg[r] = None
    BY <1>47 DEF Down
  <2>2. fg' = fg /\ bg' = bg /\ advancing' = {} /\ lock' = Free /\ file' = file
    BY <1>47 DEF Down
  <2>3. \A r \in Runs : status'[r] = "absent"
    BY <1>47 DEF Down
  <2> QED
    BY <2>1, <2>2, <2>3 DEF Runs
<1>48. CASE Start
  BY <1>48 DEF Start, Unknown, Free, Runs, TypeOK
<1>49. CASE Started
  BY <1>49 DEF Started, Runs, TypeOK
<1>51. CASE Boot
  BY <1>51 DEF Boot, Runs, TypeOK
<1>50. CASE UNCHANGED vars
  BY <1>50 DEF vars
<1> QED
  BY <1>1, <1>2, <1>3, <1>4, <1>5, <1>6, <1>7, <1>8, <1>9, <1>10, <1>11, <1>12, <1>13, <1>14, <1>15, <1>16, <1>19, <1>20, <1>21, <1>22, <1>23, <1>24, <1>25, <1>26, <1>27, <1>28, <1>29, <1>30, <1>31, <1>32, <1>33, <1>34, <1>35, <1>36, <1>37, <1>38, <1>39, <1>40, <1>41, <1>42, <1>43, <1>44, <1>45, <1>46, <1>47, <1>48, <1>49, <1>50, <1>51 DEF Next, RunStep, ChildStep, RelayStep

\* Dispatch is type-correct for every value of the constants.
THEOREM TypeCorrect == Spec => []TypeOK
<1>1. TypeOK /\ [Next]_vars => TypeOK'
  BY TypeStep
<1> QED
  BY TypeInit, <1>1, PTL DEF Spec

\* The foreground lane is serial: no two chat, application or task runs are ever
\* running together, for any number of runs, setups, stops, revocations, quota
\* retries and restarts with hand-off.
THEOREM ForegroundIsSerial == Spec => []ForegroundSerial
<1>1. SerialInv /\ [Next]_vars => SerialInv'
  BY SerialStep
<1>2. SerialInv => ForegroundSerial
  BY DEF SerialInv
<1> QED
  BY SerialInit, <1>1, <1>2, PTL DEF Spec

(***************************************************************************)
(* The inductive invariant                                                 *)
(***************************************************************************)
\* The run sits in its lane's slot.
Holds(r) == Slot(r) # None /\ Slot(r)[1] = r
\* A slot is its lane's, and a run in a slot is running.
SlotsTyped ==
  /\ fg # None => fg[1] \in Foreground
  /\ \A r \in Scheduled : bg[r] # None => bg[r][1] = r
SlotsRun == \A r \in Runs : Holds(r) => status[r] = "running"
\* What is admitted under the lock is still queued, what is launched is running.
LockHolds ==
  /\ lock.op \in {"admit", "launch"} => lock.run \in Runs
  /\ lock.op = "admit" => status[lock.run] = "queued"
  /\ lock.op = "launch" => status[lock.run] = "running" /\ lock.run \notin advancing
\* A completion that waits for its next setup keeps its slot, with a closed child.
AdvancingHolds == \A r \in advancing : Holds(r) /\ Slot(r) \notin watched
\* An attempt to adopt is of a running run that has no slot yet.
AdoptingWaits ==
  /\ phase # "starting" => adopting = {}
  /\ \A c \in adopting :
       status[c[1]] = "running" /\ ~Holds(c[1]) /\ ~Locked("launch", c[1])
  /\ \A c, d \in adopting : c[1] = d[1] => c = d
\* The hand-off record exists from its saving to the next relay's start; while it is
\* being saved it names children in their slots.
FileNamed ==
  /\ phase \in {"up", "starting"} => file = {}
  /\ phase = "stopping" /\ lock.op # "handoff" => file = {}
  /\ lock.op = "handoff" =>
       phase = "stopping" /\ \A c \in file : Slot(c[1]) = c /\ c[1] \notin advancing
  /\ \A c, d \in file : c[1] = d[1] => c = d
\* What was handed off runs on, and nothing else of its run is started.
HandedOver ==
  /\ phase \notin {"draining", "closing"} => handedOff = {}
  /\ phase \in {"draining", "closing"} => handedOff = file
  /\ \A c \in handedOff :
       /\ lock = Free /\ status[c[1]] = "running" /\ c[1] \notin advancing
       /\ Holds(c[1]) => Slot(c[1]) = c
\* A relay that has not taken its record knows of no scheduled run that was started.
DownQueued ==
  phase \in {"down", "booting"} => \A r \in Scheduled : status[r] \in {"absent", "queued"}

\* Together they are inductive.
HoldInv ==
  /\ SerialInv
  /\ SlotsTyped /\ SlotsRun /\ RunningIsHeld /\ LockHolds /\ AdvancingHolds
  /\ AdoptingWaits /\ FileNamed /\ HandedOver /\ DownQueued

\* A slot's child is the child in its own run's slot.
LEMMA SlotIs ==
  ASSUME TypeOK, SlotsTyped, NEW c \in SlotChildren
  PROVE  c \in Children /\ c[1] \in Runs /\ Slot(c[1]) = c /\ Holds(c[1])
BY RunsAssumption, NoneAssumption
   DEF TypeOK, SlotsTyped, SlotChildren, Background, Slot, Holds, Runs

\* A fresh relay holds nothing.
LEMMA HoldInit == Init => HoldInv
BY SerialInit, RunsAssumption, NoneAssumption
   DEF HoldInv, Init, SlotsTyped, SlotsRun, RunningIsHeld, LockHolds, AdvancingHolds, AdoptingWaits,
       FileNamed, HandedOver, DownQueued, Holds, Slot, Free, Locked, Runs

\* What decides who holds a run, but for the status, the lanes and the lock.
handing == <<phase, handedOff, file, adopting>>
\* ... with what is under way.
held == <<status, lanes, lock, advancing, handing>>

\* A step that leaves all of it alone, and opens no observer, keeps the invariant.
LEMMA HoldQuiet ==
  ASSUME HoldInv, SerialInv', UNCHANGED held, watched' \subseteq watched
  PROVE  HoldInv'
BY DEF HoldInv, held, lanes, handing, SlotsTyped, SlotsRun, RunningIsHeld, LockHolds, AdvancingHolds,
       AdoptingWaits, FileNamed, HandedOver, DownQueued, Holds, Slot, Locked

\* A run that stops running, or was not, and gives up its slot and the lock, keeps it,
\* if it is neither adopted nor handed over.
LEMMA HoldRelease ==
  ASSUME HoldInv, SerialInv', UNCHANGED handing, watched' \subseteq watched, phase \notin {"down", "booting"},
         lock.op # "handoff", lock' = Free,
         NEW r \in Runs, NEW st \in Statuses \ {"running"}, Patch(r, st),
         \/ lock = Free
         \/ lock.run = r /\ (lock.op = "admit" \/ lock.op = "launch"),
         \A c \in adopting \cup handedOff : c[1] # r,
         bg' = IF r \in Scheduled THEN [bg EXCEPT ![r] = None] ELSE bg,
         fg' = IF r \in Foreground /\ fg # None /\ fg[1] = r THEN None ELSE fg,
         advancing' = advancing \ {r}
  PROVE  HoldInv'
<1> USE RunsAssumption, NoneAssumption
<1> USE DEF HoldInv, SerialInv, handing, Patch, Runs, TypeOK, Free
<1>1. SlotsTyped'
  BY DEF SlotsTyped
<1>2. \A q \in Runs : Holds(q)' => q # r /\ Holds(q) /\ Slot(q)' = Slot(q)
  BY DEF SlotsTyped, Holds, Slot
<1>3. \A q \in Runs \ {r} : Holds(q) => Holds(q)' /\ Slot(q)' = Slot(q)
  BY DEF SlotsTyped, Holds, Slot
<1>4. \A q \in Runs \ {r} : status'[q] = status[q]
  OBVIOUS
<1>5. status'[r] # "running"
  OBVIOUS
<1>6. SlotsRun'
  BY <1>2, <1>4 DEF SlotsRun
<1>7. RunningIsHeld'
  BY <1>3, <1>4, <1>5 DEF RunningIsHeld, Holds, Locked
<1>8. LockHolds'
  BY DEF LockHolds
<1>9. AdvancingHolds'
  BY <1>3 DEF AdvancingHolds
<1>10. AdoptingWaits'
  BY <1>2, <1>4 DEF AdoptingWaits, Locked
<1>11. FileNamed'
  BY DEF FileNamed
<1>12. HandedOver'
  BY <1>2, <1>4 DEF HandedOver
<1>13. DownQueued'
  BY DEF DownQueued
<1> QED
  BY <1>1, <1>6, <1>7, <1>8, <1>9, <1>10, <1>11, <1>12, <1>13

\* Every step keeps the invariant, one case per action.
LEMMA HoldStep ==
  ASSUME HoldInv, [Next]_vars
  PROVE  HoldInv'
<1> USE RunsAssumption, NoneAssumption
<1>0. SerialInv /\ SerialInv' /\ TypeOK /\ TypeOK'
  BY SerialStep DEF HoldInv, SerialInv
<1> DEFINE Kept == (/\ SlotsTyped /\ SlotsRun /\ RunningIsHeld /\ LockHolds /\ AdvancingHolds
                    /\ AdoptingWaits /\ FileNamed /\ HandedOver /\ DownQueued)'
<1> SUFFICES Kept
  BY <1>0 DEF HoldInv
<1>q. ASSUME UNCHANGED held, watched' \subseteq watched
      PROVE  Kept
  BY <1>0, <1>q, HoldQuiet DEF HoldInv
<1>r. ASSUME UNCHANGED handing, watched' \subseteq watched, phase \notin {"down", "booting"},
             lock.op # "handoff", lock' = Free,
             NEW r \in Runs, NEW st \in Statuses \ {"running"}, Patch(r, st),
             \/ lock = Free
             \/ lock.run = r /\ (lock.op = "admit" \/ lock.op = "launch"),
             \A c \in adopting \cup handedOff : c[1] # r,
             bg' = IF r \in Scheduled THEN [bg EXCEPT ![r] = None] ELSE bg,
             fg' = IF r \in Foreground /\ fg # None /\ fg[1] = r THEN None ELSE fg,
             advancing' = advancing \ {r}
      PROVE  Kept
  BY <1>0, <1>r, HoldRelease DEF HoldInv
<1>s. \A c \in SlotChildren : c \in Children /\ c[1] \in Runs /\ Slot(c[1]) = c /\ Holds(c[1])
  BY <1>0, SlotIs DEF HoldInv
<1> USE <1>0
<1> USE DEF HoldInv, SerialInv, SlotsTyped, SlotsRun, RunningIsHeld, LockHolds, AdvancingHolds, AdoptingWaits,
            FileNamed, HandedOver, DownQueued, Holds, Slot, Locked, Free, Patch, Occupy, Runs, TypeOK, Closed,
            ledger, lanes, procs, stops, life, world, ForegroundSerial, DownUnlocked
<1>1. ASSUME NEW r \in Runs, Create(r) PROVE Kept
  BY <1>1 DEF Create
<1>2. ASSUME NEW r \in Runs, Admit(r) PROVE Kept
  BY <1>2 DEF Admit
<1>3. ASSUME NEW r \in Runs, AdmitReject(r) PROVE Kept
  <2>1. \E st \in {"failed", "cancelled"} : Patch(r, st)
    BY <1>3 DEF AdmitReject
  <2>2. status[r] = "queued" /\ lock.op = "admit" /\ lock.run = r /\ lock' = Free
    BY <1>3 DEF AdmitReject
  <2>3. UNCHANGED <<lanes, watched, advancing, life>>
    BY <1>3 DEF AdmitReject
  <2> QED
    BY <2>1, <2>2, <2>3
<1>4. ASSUME NEW r \in Runs, AdmitDefer(r) PROVE Kept
  BY <1>4 DEF AdmitDefer
<1>5. ASSUME NEW r \in Runs, AdmitStart(r) PROVE Kept
  BY <1>5 DEF AdmitStart, MayStart
<1>6. ASSUME NEW r \in Runs, AdmitFail(r) PROVE Kept
  <2>1. MayStart(r) /\ ReleaseSlot(r) /\ UNCHANGED <<handing, watched, advancing>>
    BY <1>6 DEF AdmitFail, handing
  <2>2. \E st \in {"failed", "queued"} : Patch(r, st)
    BY <1>6 DEF AdmitFail, GiveUp
  <2>3. lock.op = "admit" /\ lock.run = r /\ status[r] = "queued" /\ lock' = Free /\ r \notin advancing
    BY <1>6 DEF AdmitFail, MayStart
  <2>4. \A c \in adopting \cup handedOff : c[1] # r
    BY <2>3
  <2>5. phase \notin {"down", "booting"} /\ lock.op # "handoff"
    BY <2>3
  <2>6. PICK st \in {"failed", "queued"} : Patch(r, st)
    BY <2>2
  <2>7. st \in Statuses \ {"running"}
    BY DEF Statuses
  <2> HIDE DEF HoldInv, SerialInv, TypeOK, SlotsTyped, SlotsRun, RunningIsHeld, LockHolds, AdvancingHolds,
               AdoptingWaits, FileNamed, HandedOver, DownQueued, Patch, Kept
  <2> QED
    BY <2>1, <2>2, <2>3, <2>4, <2>5, <2>6, <2>7, <1>r DEF ReleaseSlot
<1>7. ASSUME NEW r \in Runs, LaunchOk(r) PROVE Kept
  <2> DEFINE k == <<r, launches[r] + 1>>
  <2>1. status[r] = "running" /\ lock.op = "launch" /\ lock' = Free /\ handedOff = {} /\ r \notin advancing
    BY <1>7 DEF LaunchOk, Spawn
  <2>2. Slot(r)' = k /\ \A q \in Runs \ {r} : Slot(q)' = Slot(q) \/ (q \in Foreground /\ r \in Foreground)
    BY <1>7 DEF LaunchOk, Spawn
  <2>3. \A q \in Runs : Holds(q)' <=> q = r \/ Holds(q)
    BY <2>1, <1>7 DEF LaunchOk, Spawn
  <2>4. SlotsTyped' /\ SlotsRun' /\ LockHolds' /\ DownQueued'
    BY <2>1, <1>7 DEF LaunchOk, Spawn
  <2>5. RunningIsHeld'
    BY <2>1, <2>3, <1>7 DEF LaunchOk, Spawn
  <2>6. AdvancingHolds'
    BY <2>1, <2>3, <1>7 DEF LaunchOk, Spawn
  <2>7. AdoptingWaits' /\ FileNamed' /\ HandedOver'
    BY <2>1, <2>3, <1>7 DEF LaunchOk, Spawn
  <2> QED
    BY <2>4, <2>5, <2>6, <2>7
<1>8. ASSUME NEW r \in Runs, LaunchNext(r) PROVE Kept
  BY <1>8, <1>q DEF LaunchNext, held, handing
<1>9. ASSUME NEW r \in Runs, LaunchFail(r) PROVE Kept
  <2>1. lock.op = "launch" /\ lock.run = r /\ lock' = Free /\ r \notin advancing
    BY <1>9 DEF LaunchFail
  <2>2. ReleaseSlot(r) /\ UNCHANGED <<handing, watched, advancing>>
    BY <1>9 DEF LaunchFail, handing
  <2>3. \E st \in {"failed", "queued"} : Patch(r, st)
    BY <1>9 DEF LaunchFail, GiveUp
  <2>4. \A c \in adopting \cup handedOff : c[1] # r
    BY <1>9 DEF LaunchFail
  <2>5. phase \notin {"down", "booting"} /\ lock.op # "handoff"
    BY <2>1
  <2>6. PICK st \in {"failed", "queued"} : Patch(r, st)
    BY <2>3
  <2>7. st \in Statuses \ {"running"}
    BY DEF Statuses
  <2> HIDE DEF HoldInv, SerialInv, TypeOK, SlotsTyped, SlotsRun, RunningIsHeld, LockHolds, AdvancingHolds,
               AdoptingWaits, FileNamed, HandedOver, DownQueued, Patch, Kept
  <2> QED
    BY <2>1, <2>2, <2>3, <2>4, <2>5, <2>6, <2>7, <1>r DEF ReleaseSlot
<1>10. ASSUME NEW r \in Runs, Advance(r) PROVE Kept
  BY <1>10 DEF Advance, MayAdvance, ShuttingDown
<1>11. ASSUME NEW r \in Runs, AdvanceEnd(r) PROVE Kept
  BY <1>11 DEF AdvanceEnd
<1>12. ASSUME NEW r \in Runs, AdvanceUnavailable(r) PROVE Kept
  <2>1. lock = Free /\ lock' = Free /\ r \in advancing /\ advancing' = advancing \ {r}
    BY <1>12 DEF AdvanceUnavailable
  <2>2. ReleaseSlot(r) /\ UNCHANGED <<handing, watched>>
    BY <1>12 DEF AdvanceUnavailable, handing
  <2>3. \E st \in {"failed", "queued"} : Patch(r, st)
    BY <1>12 DEF AdvanceUnavailable, GiveUp
  <2>a. AdvancingHolds /\ AdoptingWaits /\ HandedOver
    OBVIOUS
  <2>4. \A c \in adopting \cup handedOff : c[1] # r
    <3> HIDE DEF Holds, HoldInv, SerialInv, TypeOK, SlotsRun, RunningIsHeld, LockHolds, FileNamed, DownUnlocked, ForegroundSerial
    <3> QED
      BY <2>1, <2>a
  <2>5. phase \notin {"down", "booting"} /\ lock.op # "handoff"
    BY <2>1
  <2>6. PICK st \in {"failed", "queued"} : Patch(r, st)
    BY <2>3
  <2>7. st \in Statuses \ {"running"}
    BY DEF Statuses
  <2> HIDE DEF HoldInv, SerialInv, TypeOK, SlotsTyped, SlotsRun, RunningIsHeld, LockHolds, AdvancingHolds,
               AdoptingWaits, FileNamed, HandedOver, DownQueued, Patch, Kept
  <2> QED
    BY <2>1, <2>2, <2>3, <2>4, <2>5, <2>6, <2>7, <1>r DEF ReleaseSlot
<1>13. ASSUME NEW r \in Runs, CancelQueued(r) PROVE Kept
  BY <1>13 DEF CancelQueued
<1>14. ASSUME NEW r \in Runs, CancelRunning(r) PROVE Kept
  BY <1>14, <1>q DEF CancelRunning, held, handing
<1>15. ASSUME NEW r \in Runs, MarkCancelled(r) PROVE Kept
  BY <1>15, <1>q DEF MarkCancelled, held, handing
<1>16. ASSUME NEW r \in Runs, RetryQuota(r) PROVE Kept
  BY <1>16 DEF RetryQuota, Retryable
<1>17. ASSUME NEW r \in Runs, SweepBegin(r) PROVE Kept
  BY <1>17, <1>q DEF SweepBegin, held, handing
<1>18. ASSUME NEW r \in Runs, SweepBackground(r) PROVE Kept
  BY <1>18, <1>q DEF SweepBackground, held, handing
<1>19. ASSUME NEW r \in Runs, Revoke(r) PROVE Kept
  BY <1>19, <1>q DEF Revoke, held, handing
<1>20. ASSUME NEW r \in Runs, SetEnabled(r) PROVE Kept
  BY <1>20, <1>q DEF SetEnabled, held, handing
<1>21. ASSUME NEW c \in Children, Exit(c) PROVE Kept
  BY <1>21, <1>q DEF Exit, held, handing
<1>22. ASSUME NEW c \in Children, Report(c) PROVE Kept
  BY <1>22, <1>q DEF Report, held, handing
<1>23. ASSUME NEW c \in Children, ObserverLeaves(c) PROVE Kept
  BY <1>23, <1>q DEF ObserverLeaves, held, handing
<1>24. ASSUME NEW c \in Children, Complete(c) PROVE Kept
  <2> DEFINE r == c[1]
  <2>1. r \in Runs /\ Slot(r) = c /\ Holds(r) /\ c \in SlotChildren /\ c # None
        /\ lock = Free /\ lock' = Free /\ r \notin advancing /\ advancing' = advancing
    BY <1>24, <1>s, NoneAssumption DEF Complete
  <2>2. PICK st \in {"cancelled", "completed", "failed"} : Patch(r, st)
    BY <1>24 DEF Complete
  <2>3. UNCHANGED <<handing, watched>> /\ Occupy(r, None) /\ c \notin handedOff
    BY <1>24 DEF Complete, handing
  <2>4. /\ bg' = IF r \in Scheduled THEN [bg EXCEPT ![r] = None] ELSE bg
        /\ fg' = IF r \in Foreground /\ fg # None /\ fg[1] = r THEN None ELSE fg
    BY <2>1, <2>3, RunsAssumption
  <2>5. phase \notin {"down", "booting"} /\ lock.op # "handoff"
    BY <2>1
  <2>a. AdoptingWaits /\ HandedOver
    OBVIOUS
  <2>6. \A d \in adopting \cup handedOff : d[1] # r
    <3> HIDE DEF Holds, Slot, HoldInv, SerialInv, TypeOK, SlotsTyped, SlotsRun, RunningIsHeld, LockHolds,
                 AdvancingHolds, FileNamed, DownQueued, DownUnlocked, ForegroundSerial, Kept
    <3> QED
      BY <2>1, <2>3, <2>a
  <2>7. st \in Statuses \ {"running"}
    BY DEF Statuses
  <2> HIDE DEF HoldInv, SerialInv, TypeOK, SlotsTyped, SlotsRun, RunningIsHeld, LockHolds, AdvancingHolds,
               AdoptingWaits, FileNamed, HandedOver, DownQueued, Patch, Kept, r
  <2> QED
    BY <2>1, <2>2, <2>3, <2>4, <2>5, <2>6, <2>7, <1>r
<1>25. ASSUME NEW c \in Children, CompleteBroken(c) PROVE Kept
  BY <1>25, <1>s DEF CompleteBroken
<1>26. ASSUME NEW c \in Children, CompleteRejected(c) PROVE Kept
  BY <1>26, <1>s DEF CompleteRejected
<1>27. ASSUME NEW c \in Children, CompleteHandedOff(c) PROVE Kept
  BY <1>27, <1>s DEF CompleteHandedOff
<1>28. ASSUME NEW c \in Children, StopRequest(c) PROVE Kept
  BY <1>28, <1>q DEF StopRequest, held, handing
<1>29. ASSUME NEW c \in Children, StopNext(c) PROVE Kept
  BY <1>29, <1>q DEF StopNext, held, handing
<1>30. ASSUME NEW c \in Children, Adopt(c) PROVE Kept
  <2> DEFINE r == c[1]
  <2>1. status[r] = "running" /\ phase = "starting" /\ lock = Free /\ lock' = Free /\ r \in Runs
    BY <1>30 DEF Adopt
  <2>2. Slot(r)' = c /\ c # None
    BY <1>30 DEF Adopt
  <2>3. \A q \in Runs \ {r} : Slot(q)' = Slot(q) \/ (q \in Foreground /\ r \in Foreground)
    BY <1>30 DEF Adopt
  <2>4. r \in Foreground => fg = None
    BY <1>30 DEF Adopt
  <2>5. \A q \in Runs : Holds(q)' <=> q = r \/ Holds(q)
    BY <2>2, <2>3, <2>4, <1>30 DEF Adopt
  <2>6. SlotsTyped' /\ LockHolds' /\ DownQueued'
    BY <2>1, <1>30 DEF Adopt
  <2>7. SlotsRun' /\ RunningIsHeld'
    BY <2>1, <2>5, <1>30 DEF Adopt
  <2>8. r \notin advancing
    <3>1. AdvancingHolds /\ AdoptingWaits /\ c \in adopting
      BY <1>30 DEF Adopt
    <3> HIDE DEF Holds, HoldInv, SerialInv, TypeOK, SlotsRun, RunningIsHeld, LockHolds, FileNamed, DownUnlocked, ForegroundSerial
    <3> QED
      BY <3>1
  <2>9. AdvancingHolds'
    BY <2>3, <2>4, <2>5, <2>8, <1>30 DEF Adopt
  <2>10. AdoptingWaits' /\ FileNamed' /\ HandedOver'
    BY <2>1, <2>5, <1>30 DEF Adopt
  <2> QED
    BY <2>6, <2>7, <2>9, <2>10
<1>31. ASSUME NEW c \in Children, AdoptFail(c) PROVE Kept
  <2>1. status' = [status EXCEPT ![c[1]] = "failed"] /\ c[1] \in Runs /\ ~Holds(c[1])
    BY <1>31 DEF AdoptFail
  <2>2. UNCHANGED <<lanes, lock, advancing, watched, phase, handedOff, file>>
    BY <1>31 DEF AdoptFail
  <2>3. phase = "starting" /\ lock = Free /\ c \in adopting /\ adopting' = adopting \ {c} /\ handedOff = {}
    BY <1>31 DEF AdoptFail
  <2>4. \A d \in adopting' : d[1] # c[1] /\ d[1] \in Runs
    BY <2>3
  <2>5. \A q \in Runs : Holds(q)' <=> Holds(q)
    BY <2>2
  <2>6. SlotsTyped' /\ LockHolds' /\ AdvancingHolds' /\ FileNamed' /\ HandedOver' /\ DownQueued'
    BY <2>1, <2>2, <2>3
  <2>7. SlotsRun' /\ RunningIsHeld'
    BY <2>1, <2>2, <2>3, <2>5
  <2>8. AdoptingWaits'
    BY <2>1, <2>2, <2>3, <2>4
  <2> QED
    BY <2>6, <2>7, <2>8
<1>32. CASE StopAck
  BY <1>32, <1>q DEF StopAck, held, handing
<1>33. CASE StopRefused
  BY <1>33, <1>q DEF StopRefused, held, handing
<1>34. CASE CancelPending
  BY <1>34 DEF CancelPending
<1>35. CASE SweepPass
  BY <1>35, <1>q DEF SweepPass, held, handing
<1>36. CASE SweepStop
  BY <1>36, <1>q DEF SweepStop, held, handing
<1>37. CASE Pause
  BY <1>37, <1>q DEF Pause, held, handing
<1>38. CASE ObserveIdle
  BY <1>38, <1>q DEF ObserveIdle, held, handing
<1>39. CASE Unpause
  BY <1>39, <1>q DEF Unpause, held, handing
<1>40. CASE BeginStop
  BY <1>40 DEF BeginStop
<1>41. CASE HandoffSave
  BY <1>41, <1>s DEF HandoffSave, Handable
<1>42. CASE HandoffKill
  BY <1>42 DEF HandoffKill
<1>43. CASE HandoffSkip
  BY <1>43 DEF HandoffSkip
<1>44. CASE TerminateAll
  BY <1>44 DEF TerminateAll
<1>45. CASE Down
  BY <1>45, <1>s DEF Down, SlotChildren, Background
<1>46. CASE Boot
  BY <1>46 DEF Boot
<1>47. CASE Start
  <2>1. PICK taken \in IF MayLoseRecord THEN {file, {}} ELSE {file} :
          /\ adopting' = Unknown(taken)
          /\ status' = [r \in Runs |-> IF \E c \in Unknown(taken) : c[1] = r THEN "running" ELSE status[r]]
    <3> HIDE DEF HoldInv, SerialInv, Runs
    <3> QED
      BY <1>47 DEF Start
  <2>2. UNCHANGED <<lanes, lock, advancing, watched, handedOff>>
    BY <1>47 DEF Start
  <2>3. phase = "booting" /\ phase' = "starting" /\ file' = {} /\ lock = Free
    BY <1>47 DEF Start
  <2>4. adopting' \subseteq file /\ advancing = {} /\ handedOff = {}
    BY <2>1, <2>3 DEF Unknown
  <2>5. \A r \in Runs : ~Holds(r) /\ ~Holds(r)' /\ status[r] # "running"
    BY <2>2, <2>3
  <2>6. \A c \in adopting' : c[1] \in Runs /\ status'[c[1]] = "running"
    BY <2>1, <2>4
  <2>7. \A r \in Runs : status'[r] = "running" => \E c \in adopting' : c[1] = r
    BY <2>1, <2>5
  <2>8. SlotsTyped' /\ SlotsRun' /\ LockHolds' /\ AdvancingHolds' /\ FileNamed' /\ HandedOver' /\ DownQueued'
    BY <2>2, <2>3, <2>4, <2>5
  <2>9. RunningIsHeld'
    BY <2>7
  <2>10. AdoptingWaits'
    BY <2>2, <2>3, <2>4, <2>5, <2>6
  <2> QED
    BY <2>8, <2>9, <2>10
<1>48. CASE Started
  BY <1>48 DEF Started
<1>49. CASE UNCHANGED vars
  BY <1>49, <1>q DEF vars, held, handing
<1> HIDE DEF HoldInv, SerialInv, TypeOK, SlotsTyped, SlotsRun, RunningIsHeld, LockHolds, AdvancingHolds,
             AdoptingWaits, FileNamed, HandedOver, DownQueued, Holds, Slot, Patch, Locked, Occupy, Closed, Kept
<1> QED
  BY <1>1, <1>2, <1>3, <1>4, <1>5, <1>6, <1>7, <1>8, <1>9, <1>10, <1>11, <1>12, <1>13, <1>14, <1>15,
     <1>16, <1>17, <1>18, <1>19, <1>20, <1>21, <1>22, <1>23, <1>24, <1>25, <1>26, <1>27, <1>28,
     <1>29, <1>30, <1>31, <1>32, <1>33, <1>34, <1>35, <1>36, <1>37, <1>38, <1>39, <1>40, <1>41,
     <1>42, <1>43, <1>44, <1>45, <1>46, <1>47, <1>48, <1>49 DEF Next, RunStep, ChildStep, RelayStep

\* The invariant holds in every behaviour.
LEMMA HoldAlways == Spec => []HoldInv
<1>1. HoldInv /\ [Next]_vars => HoldInv'
  BY HoldStep
<1> QED
  BY HoldInit, <1>1, PTL DEF Spec

(***************************************************************************)
(* What a step may do to the ledger                                        *)
(***************************************************************************)
\* The moves of one run: admitted, started, ended, put back to wait for quota, retried.
Born(r)  == status[r] = "absent" /\ (r \in Scheduled => Alone(r)) /\ Patch(r, "queued")
Begun(r) == status[r] = "queued" /\ MayStart(r) /\ Patch(r, "running")
Over(r)  == InFlight(r) /\ \E st \in Terminal : Patch(r, st)
Back(r)  == r \in Scheduled /\ InFlight(r) /\ Patch(r, "queued")
Again(r) == Retryable(r) /\ Patch(r, "queued")
Move(r)  == Born(r) \/ Begun(r) \/ Over(r) \/ Back(r) \/ Again(r)
\* Neither a step of the relay's life nor of its hand-off record.
IsDown == phase \in {"down", "booting"}
Still == /\ IsDown' <=> IsDown
         /\ IsDown => file' = file
         /\ ~BootTriggers /\ IsDown => UNCHANGED status
\* All that a step may do to the ledger.
LedgerMove ==
  \/ Still /\ (UNCHANGED status \/ \E r \in Runs : Move(r))
  \/ CancelPending \/ Down \/ Start

\* Every step moves one run along its life, clears the queue, goes down or comes back.
LEMMA Moves ==
  ASSUME HoldInv, [Next]_vars
  PROVE  LedgerMove
<1> USE RunsAssumption, NoneAssumption
<1>a. TypeOK /\ SlotsTyped /\ SlotsRun /\ LockHolds /\ AdvancingHolds /\ AdoptingWaits /\ FileNamed
        /\ DownUnlocked
  BY DEF HoldInv, SerialInv
<1>s. \A c \in SlotChildren : c \in Children /\ c[1] \in Runs /\ Slot(c[1]) = c /\ Holds(c[1])
  BY <1>a, SlotIs
<1>r. \A r \in Runs : Holds(r) => status[r] = "running"
  BY <1>a DEF SlotsRun
<1>l. /\ \A r \in Runs : Locked("admit", r) => status[r] = "queued" /\ ~IsDown
      /\ \A r \in Runs : Locked("launch", r) => status[r] = "running" /\ ~IsDown
      /\ \A r \in advancing : status[r] = "running" /\ ~IsDown
      /\ \A c \in adopting : status[c[1]] = "running" /\ ~IsDown
      /\ \A c \in SlotChildren : status[c[1]] = "running" /\ c[1] \in Runs /\ ~IsDown
  BY <1>a, <1>r, <1>s DEF Holds, Slot, Runs, LockHolds, AdvancingHolds, AdoptingWaits, DownUnlocked,
     Locked, Free, IsDown, TypeOK
<1> DEFINE Same == Still /\ UNCHANGED status
<1> DEFINE Moved(r) == Still /\ Move(r)
<1>u. ASSUME UNCHANGED <<status, phase>>, file' = file \/ ~IsDown PROVE Same
  BY <1>u DEF Still, IsDown
<1>d. ASSUME UNCHANGED phase, ~IsDown PROVE Still
  BY <1>d DEF Still, IsDown
<1> USE DEF ledger, lanes, procs, stops, life, world
<1>1. ASSUME NEW r \in Runs, Create(r) PROVE Moved(r)
  BY <1>1 DEF Create, Move, Born, Still, IsDown, Patch
<1>2. ASSUME NEW r \in Runs, Admit(r) PROVE Same
  BY <1>2, <1>u DEF Admit, IsDown
<1>3. ASSUME NEW r \in Runs, AdmitReject(r) PROVE Moved(r)
  BY <1>3, <1>d, <1>l DEF AdmitReject, Move, Begun, Over, Back, InFlight, Terminal, RunCancelled
<1>4. ASSUME NEW r \in Runs, AdmitDefer(r) PROVE Same
  BY <1>4, <1>u DEF AdmitDefer, IsDown
<1>5. ASSUME NEW r \in Runs, AdmitStart(r) PROVE Moved(r)
  BY <1>5, <1>d, <1>l DEF AdmitStart, MayStart, Move, Begun, Over, Back, InFlight, Terminal, RunCancelled
<1>6. ASSUME NEW r \in Runs, AdmitFail(r) PROVE Moved(r)
  BY <1>6, <1>d, <1>l DEF AdmitFail, GiveUp, MayStart, Move, Begun, Over, Back, InFlight, Terminal,
     RunCancelled
<1>7. ASSUME NEW r \in Runs, LaunchOk(r) PROVE Same
  BY <1>7, <1>u DEF LaunchOk, Spawn, IsDown
<1>8. ASSUME NEW r \in Runs, LaunchNext(r) PROVE Same
  BY <1>8, <1>u DEF LaunchNext, IsDown
<1>9. ASSUME NEW r \in Runs, LaunchFail(r) PROVE Moved(r)
  BY <1>9, <1>d, <1>l DEF LaunchFail, GiveUp, Move, Begun, Over, Back, InFlight, Terminal, RunCancelled
<1>10. ASSUME NEW r \in Runs, Advance(r) PROVE Same
  BY <1>10, <1>u DEF Advance, IsDown
<1>11. ASSUME NEW r \in Runs, AdvanceEnd(r) PROVE Moved(r)
  BY <1>11, <1>d, <1>l DEF AdvanceEnd, Move, Begun, Over, Back, InFlight, Terminal, RunCancelled
<1>12. ASSUME NEW r \in Runs, AdvanceUnavailable(r) PROVE Moved(r)
  BY <1>12, <1>d, <1>l DEF AdvanceUnavailable, GiveUp, Move, Begun, Over, Back, InFlight, Terminal,
     RunCancelled
<1>13. ASSUME NEW r \in Runs, CancelQueued(r) PROVE Moved(r)
  BY <1>13, <1>d DEF CancelQueued, Move, Over, Again, InFlight, Terminal, IsDown
<1>14. ASSUME NEW r \in Runs, CancelRunning(r) PROVE Same
  BY <1>14, <1>u DEF CancelRunning, IsDown
<1>15. ASSUME NEW r \in Runs, MarkCancelled(r) PROVE Same
  BY <1>15, <1>u DEF MarkCancelled, IsDown
<1>16. ASSUME NEW r \in Runs, RetryQuota(r) PROVE Moved(r)
  BY <1>16, <1>d DEF RetryQuota, Move, Over, Again, InFlight, Terminal, IsDown
<1>17. ASSUME NEW r \in Runs, SweepBegin(r) PROVE Same
  BY <1>17, <1>u DEF SweepBegin, IsDown
<1>18. ASSUME NEW r \in Runs, SweepBackground(r) PROVE Same
  BY <1>18, <1>u DEF SweepBackground, IsDown
<1>19. ASSUME NEW r \in Runs, Revoke(r) PROVE Same
  BY <1>19, <1>u DEF Revoke, IsDown
<1>20. ASSUME NEW r \in Runs, SetEnabled(r) PROVE Same
  BY <1>20, <1>u DEF SetEnabled, IsDown
<1>21. ASSUME NEW c \in Children, Exit(c) PROVE Same
  BY <1>21, <1>u DEF Exit, IsDown
<1>22. ASSUME NEW c \in Children, Report(c) PROVE Same
  BY <1>22, <1>u DEF Report, IsDown
<1>23. ASSUME NEW c \in Children, ObserverLeaves(c) PROVE Same
  BY <1>23, <1>u DEF ObserverLeaves, IsDown
<1>24. ASSUME NEW c \in Children, Complete(c) PROVE Moved(c[1])
  BY <1>24, <1>d, <1>l DEF Complete, Closed, Move, Begun, Over, Back, InFlight, Terminal, RunCancelled
<1>25. ASSUME NEW c \in Children, CompleteBroken(c) PROVE Moved(c[1])
  BY <1>25, <1>d, <1>l DEF CompleteBroken, Closed, Move, Begun, Over, Back, InFlight, Terminal, RunCancelled
<1>26. ASSUME NEW c \in Children, CompleteRejected(c) PROVE Same
  BY <1>26, <1>u DEF CompleteRejected, IsDown
<1>27. ASSUME NEW c \in Children, CompleteHandedOff(c) PROVE Same
  BY <1>27, <1>u DEF CompleteHandedOff, IsDown
<1>28. ASSUME NEW c \in Children, StopRequest(c) PROVE Same
  BY <1>28, <1>u DEF StopRequest, IsDown
<1>29. ASSUME NEW c \in Children, StopNext(c) PROVE Same
  BY <1>29, <1>u DEF StopNext, IsDown
<1>30. ASSUME NEW c \in Children, Adopt(c) PROVE Same
  BY <1>30, <1>u DEF Adopt, IsDown
<1>31. ASSUME NEW c \in Children, AdoptFail(c) PROVE Moved(c[1])
  BY <1>31, <1>d, <1>l DEF AdoptFail, Move, Begun, Over, Back, InFlight, Terminal, RunCancelled
<1>32. ASSUME StopAck PROVE Same
  BY <1>32, <1>u DEF StopAck, IsDown
<1>33. ASSUME StopRefused PROVE Same
  BY <1>33, <1>u DEF StopRefused, IsDown
<1>34. ASSUME SweepPass PROVE Same
  BY <1>34, <1>u DEF SweepPass, IsDown
<1>35. ASSUME SweepStop PROVE Same
  BY <1>35, <1>u DEF SweepStop, IsDown
<1>36. ASSUME Pause PROVE Same
  BY <1>36, <1>u DEF Pause, IsDown
<1>37. ASSUME ObserveIdle PROVE Same
  BY <1>37, <1>u DEF ObserveIdle, IsDown
<1>38. ASSUME Unpause PROVE Same
  BY <1>38, <1>u DEF Unpause, IsDown
<1>39. ASSUME BeginStop PROVE Same
  BY <1>39 DEF BeginStop, Still, IsDown
<1>40. ASSUME HandoffSave PROVE Same
  BY <1>40, <1>u DEF HandoffSave, IsDown
<1>41. ASSUME HandoffKill PROVE Same
  BY <1>41, <1>a DEF HandoffKill, FileNamed, Still, IsDown
<1>42. ASSUME HandoffSkip PROVE Same
  BY <1>42 DEF HandoffSkip, Still, IsDown
<1>43. ASSUME TerminateAll PROVE Same
  BY <1>43 DEF TerminateAll, Still, IsDown
<1>44. ASSUME Boot PROVE Same
  BY <1>44 DEF Boot, Still, IsDown
<1>45. ASSUME Started PROVE Same
  BY <1>45 DEF Started, Still, IsDown
<1>46. ASSUME UNCHANGED vars PROVE Same
  BY <1>46, <1>u DEF vars
<1> HIDE DEF Same, Moved
<1> QED
  <2>1. (\E r \in Runs : RunStep(r)) => Same \/ \E r \in Runs : Moved(r)
    BY <1>1, <1>2, <1>3, <1>4, <1>5, <1>6, <1>7, <1>8, <1>9, <1>10, <1>11, <1>12, <1>13, <1>14,
       <1>15, <1>16, <1>17, <1>18, <1>19, <1>20 DEF RunStep
  <2>2. (\E c \in Children : ChildStep(c)) => Same \/ \E r \in Runs : Moved(r)
    BY <1>21, <1>22, <1>23, <1>24, <1>25, <1>26, <1>27, <1>28, <1>29, <1>30, <1>31 DEF ChildStep
  <2>3. RelayStep => Same \/ CancelPending \/ Down \/ Start
    BY <1>32, <1>33, <1>34, <1>35, <1>36, <1>37, <1>38, <1>39, <1>40, <1>41, <1>42, <1>43, <1>44,
       <1>45 DEF RelayStep
  <2> QED
    BY <2>1, <2>2, <2>3, <1>46 DEF Next, Same, Moved, LedgerMove

(***************************************************************************)
(* An ended run stays ended, an idle relay stays idle                      *)
(***************************************************************************)
\* What else a step may do: who takes the lock, and for what; who names attempts in
\* the hand-off record; who finds the relay idle; who starts a relay.
Footprint ==
  /\ lock'.op = "admit" => lock' = lock \/ \E r \in Runs : Admit(r)
  /\ lock'.op = "launch" => lock' = lock \/ \E r \in Runs : AdmitStart(r) \/ Advance(r)
  /\ file' = file \/ file' = {} \/ HandoffSave
  /\ update' = "idle" => update = "idle" \/ ObserveIdle
  /\ phase' = "starting" => phase = "starting" \/ Start
LEMMA Footprints ==
  ASSUME [Next]_vars
  PROVE  Footprint
<1> USE DEF Footprint, ledger, lanes, procs, stops, life, world, Free
<1>1. ASSUME NEW r \in Runs, Create(r) PROVE Footprint
  BY <1>1 DEF Create
<1>2. ASSUME NEW r \in Runs, Admit(r) PROVE Footprint
  BY <1>2 DEF Admit
<1>3. ASSUME NEW r \in Runs, AdmitReject(r) PROVE Footprint
  BY <1>3 DEF AdmitReject
<1>4. ASSUME NEW r \in Runs, AdmitDefer(r) PROVE Footprint
  BY <1>4 DEF AdmitDefer
<1>5. ASSUME NEW r \in Runs, AdmitStart(r) PROVE Footprint
  BY <1>5 DEF AdmitStart
<1>6. ASSUME NEW r \in Runs, AdmitFail(r) PROVE Footprint
  BY <1>6 DEF AdmitFail
<1>7. ASSUME NEW r \in Runs, LaunchOk(r) PROVE Footprint
  BY <1>7 DEF LaunchOk, Spawn
<1>8. ASSUME NEW r \in Runs, LaunchNext(r) PROVE Footprint
  BY <1>8 DEF LaunchNext
<1>9. ASSUME NEW r \in Runs, LaunchFail(r) PROVE Footprint
  BY <1>9 DEF LaunchFail
<1>10. ASSUME NEW r \in Runs, Advance(r) PROVE Footprint
  BY <1>10 DEF Advance
<1>11. ASSUME NEW r \in Runs, AdvanceEnd(r) PROVE Footprint
  BY <1>11 DEF AdvanceEnd
<1>12. ASSUME NEW r \in Runs, AdvanceUnavailable(r) PROVE Footprint
  BY <1>12 DEF AdvanceUnavailable
<1>13. ASSUME NEW r \in Runs, CancelQueued(r) PROVE Footprint
  BY <1>13 DEF CancelQueued
<1>14. ASSUME NEW r \in Runs, CancelRunning(r) PROVE Footprint
  BY <1>14 DEF CancelRunning
<1>15. ASSUME NEW r \in Runs, MarkCancelled(r) PROVE Footprint
  BY <1>15 DEF MarkCancelled
<1>16. ASSUME NEW r \in Runs, RetryQuota(r) PROVE Footprint
  BY <1>16 DEF RetryQuota
<1>17. ASSUME NEW r \in Runs, SweepBegin(r) PROVE Footprint
  BY <1>17 DEF SweepBegin
<1>18. ASSUME NEW r \in Runs, SweepBackground(r) PROVE Footprint
  BY <1>18 DEF SweepBackground
<1>19. ASSUME NEW r \in Runs, Revoke(r) PROVE Footprint
  BY <1>19 DEF Revoke
<1>20. ASSUME NEW r \in Runs, SetEnabled(r) PROVE Footprint
  BY <1>20 DEF SetEnabled
<1>21. ASSUME NEW c \in Children, Exit(c) PROVE Footprint
  BY <1>21 DEF Exit
<1>22. ASSUME NEW c \in Children, Report(c) PROVE Footprint
  BY <1>22 DEF Report
<1>23. ASSUME NEW c \in Children, ObserverLeaves(c) PROVE Footprint
  BY <1>23 DEF ObserverLeaves
<1>24. ASSUME NEW c \in Children, Complete(c) PROVE Footprint
  BY <1>24 DEF Complete
<1>25. ASSUME NEW c \in Children, CompleteBroken(c) PROVE Footprint
  BY <1>25 DEF CompleteBroken
<1>26. ASSUME NEW c \in Children, CompleteRejected(c) PROVE Footprint
  BY <1>26 DEF CompleteRejected
<1>27. ASSUME NEW c \in Children, CompleteHandedOff(c) PROVE Footprint
  BY <1>27 DEF CompleteHandedOff
<1>28. ASSUME NEW c \in Children, StopRequest(c) PROVE Footprint
  BY <1>28 DEF StopRequest
<1>29. ASSUME NEW c \in Children, StopNext(c) PROVE Footprint
  BY <1>29 DEF StopNext
<1>30. ASSUME NEW c \in Children, Adopt(c) PROVE Footprint
  BY <1>30 DEF Adopt
<1>31. ASSUME NEW c \in Children, AdoptFail(c) PROVE Footprint
  BY <1>31 DEF AdoptFail
<1>32. ASSUME StopAck PROVE Footprint
  BY <1>32 DEF StopAck
<1>33. ASSUME StopRefused PROVE Footprint
  BY <1>33 DEF StopRefused
<1>34. ASSUME CancelPending PROVE Footprint
  BY <1>34 DEF CancelPending
<1>35. ASSUME SweepPass PROVE Footprint
  BY <1>35 DEF SweepPass
<1>36. ASSUME SweepStop PROVE Footprint
  BY <1>36 DEF SweepStop
<1>37. ASSUME Pause PROVE Footprint
  BY <1>37 DEF Pause
<1>38. ASSUME ObserveIdle PROVE Footprint
  BY <1>38 DEF ObserveIdle
<1>39. ASSUME Unpause PROVE Footprint
  BY <1>39 DEF Unpause
<1>40. ASSUME BeginStop PROVE Footprint
  BY <1>40 DEF BeginStop
<1>41. ASSUME HandoffSave PROVE Footprint
  BY <1>41 DEF HandoffSave
<1>42. ASSUME HandoffKill PROVE Footprint
  BY <1>42 DEF HandoffKill
<1>43. ASSUME HandoffSkip PROVE Footprint
  BY <1>43 DEF HandoffSkip
<1>44. ASSUME TerminateAll PROVE Footprint
  BY <1>44 DEF TerminateAll
<1>45. ASSUME Down PROVE Footprint
  BY <1>45 DEF Down
<1>46. ASSUME Boot PROVE Footprint
  BY <1>46 DEF Boot
<1>47. ASSUME Start PROVE Footprint
  BY <1>47 DEF Start
<1>48. ASSUME Started PROVE Footprint
  BY <1>48 DEF Started
<1>49. ASSUME UNCHANGED vars PROVE Footprint
  BY <1>49 DEF vars
<1> HIDE DEF Footprint
<1> QED
  BY <1>1, <1>2, <1>3, <1>4, <1>5, <1>6, <1>7, <1>8, <1>9, <1>10, <1>11, <1>12, <1>13, <1>14, <1>15,
     <1>16, <1>17, <1>18, <1>19, <1>20, <1>21, <1>22, <1>23, <1>24, <1>25, <1>26, <1>27, <1>28,
     <1>29, <1>30, <1>31, <1>32, <1>33, <1>34, <1>35, <1>36, <1>37, <1>38, <1>39, <1>40, <1>41,
     <1>42, <1>43, <1>44, <1>45, <1>46, <1>47, <1>48, <1>49 DEF Next, RunStep, ChildStep, RelayStep

\* An ended run stays ended until the relay's memory goes: no completion, fallback,
\* stop, cancellation, adoption or late launch changes its record again, and only an
\* explicit quota retry queues it again.
THEOREM EndedRunsStay == Spec => EndedStaysEnded
<1>1. ASSUME HoldInv, [Next]_vars PROVE [EndedStep]_vars
  <2>1. LedgerMove
    BY <1>1, Moves
  <2>2. TypeOK
    BY <1>1 DEF HoldInv, SerialInv
  <2>3. ASSUME NEW r \in Runs, Move(r) PROVE EndedStep
    BY <2>2, <2>3 DEF Move, Born, Begun, Over, Back, Again, Retryable, InFlight, Terminal, Patch, EndedStep,
                      TypeOK
  <2>4. CASE UNCHANGED status
    BY <2>4 DEF EndedStep
  <2>5. CASE CancelPending
    BY <2>2, <2>5 DEF CancelPending, EndedStep, Terminal, TypeOK
  <2>6. CASE Down
    BY <2>2, <2>6 DEF Down, EndedStep, TypeOK
  <2>7. CASE Start
    BY <2>2, <2>7 DEF Start, Unknown, EndedStep, Terminal, TypeOK
  <2> QED
    BY <2>1, <2>3, <2>4, <2>5, <2>6, <2>7 DEF LedgerMove
<1> QED
  BY <1>1, HoldAlways, PTL DEF Spec, EndedStaysEnded

\* While the updater believes the relay idle nothing is about to start either.
IdleInv ==
  update = "idle" =>
    /\ lock.op \notin {"admit", "launch"} /\ file = {}
    /\ \A r \in Runs : status[r] # "running"
LEMMA IdleStep ==
  ASSUME HoldInv, IdleInv, [Next]_vars
  PROVE  IdleInv'
<1> SUFFICES ASSUME update' = "idle"
             PROVE  /\ lock'.op \notin {"admit", "launch"} /\ file' = {}
                    /\ \A r \in Runs : status'[r] # "running"
  BY DEF IdleInv
<1>1. LedgerMove /\ Footprint
  BY Moves, Footprints
<1>2. TypeOK /\ SlotsRun /\ AdvancingHolds /\ FileNamed
  BY DEF HoldInv, SerialInv
<1>3. CASE ObserveIdle
  BY <1>2, <1>3 DEF ObserveIdle, FileNamed, Free, ledger, lanes, life
<1>4. CASE update = "idle"
  <2>1. lock.op \notin {"admit", "launch"} /\ file = {} /\ \A r \in Runs : status[r] # "running"
    BY <1>4 DEF IdleInv
  <2>2. ~ \E r \in Runs : Admit(r) \/ AdmitStart(r) \/ Advance(r)
    BY <1>2, <1>4, <2>1 DEF Admit, AdmitStart, MayStart, Locked, Advance, AdvancingHolds, SlotsRun
  <2>3. ~HandoffSave
    BY <1>2, <2>1, SlotIs DEF HandoffSave, Handable, HoldInv
  <2>4. \A r \in Runs : status'[r] # "running"
    <3>1. ASSUME NEW r \in Runs, Move(r) PROVE \A q \in Runs : status'[q] # "running"
      BY <1>2, <2>1, <3>1 DEF Move, Born, Begun, Over, Back, Again, Terminal, MayStart, Locked,
         Patch, TypeOK
    <3>2. CASE Start
      BY <2>1, <3>2 DEF Start, Unknown
    <3>3. CASE Down
      BY <3>3 DEF Down
    <3>4. CASE CancelPending
      BY <2>1, <3>4 DEF CancelPending
    <3> QED
      BY <1>1, <2>1, <3>1, <3>2, <3>3, <3>4 DEF LedgerMove
  <2> QED
    BY <1>1, <2>1, <2>2, <2>3, <2>4 DEF Footprint
<1> QED
  BY <1>1, <1>3, <1>4 DEF Footprint

\* Between the updater's reading of an idle status and the end of its pause no run
\* starts, whatever is admitted, stopped, retried or handed over meanwhile.
THEOREM IdleRelayStaysIdle == Spec => []IdleStaysIdle
<1>1. Init => IdleInv
  BY DEF Init, IdleInv
<1>2. HoldInv /\ IdleInv /\ [Next]_vars => IdleInv'
  BY IdleStep
<1>3. IdleInv => IdleStaysIdle
  BY DEF IdleInv, IdleStaysIdle
<1> QED
  BY <1>1, <1>2, <1>3, HoldAlways, PTL DEF Spec

-------------------------------------------------------------------------------

(***************************************************************************)
(* Occurrences keep apart                                                  *)
(***************************************************************************)
\* The occurrences that run, and those a hand-off record names.
Active == {r \in Scheduled : status[r] = "running"}
Recorded == {r \in Scheduled : \E c \in file : c[1] = r}

\* At most Cap occurrences run, or are named for the next relay; and whoever is
\* admitted under the lock is not admitted by a relay that is still adopting.
CapInv ==
  /\ IsFiniteSet(Active) /\ Cardinality(Active) <= Cap
  /\ IsFiniteSet(Recorded) /\ Cardinality(Recorded) <= Cap
  /\ lock.op = "admit" => phase \notin {"down", "booting", "starting"}

\* While a run is admitted the occurrences that run are those in a slot.
LEMMA AdmitCounts ==
  ASSUME HoldInv, CapInv, lock.op = "admit"
  PROVE  Active = Background
<1>1. \A r \in Scheduled : status[r] = "running" => bg[r] # None
  <2>1. adopting = {} /\ handedOff = {}
    BY DEF HoldInv, CapInv, AdoptingWaits, HandedOver, Free
  <2> QED
    BY <2>1 DEF HoldInv, RunningIsHeld, Locked, Slot, Runs
<1>2. \A r \in Scheduled : bg[r] # None => status[r] = "running"
  BY DEF HoldInv, SlotsTyped, SlotsRun, Holds, Slot, Runs
<1> QED
  BY <1>1, <1>2 DEF Active, Background

\* Every step keeps both counts within Cap.
LEMMA CapStep ==
  ASSUME HoldInv, CapInv, [Next]_vars
  PROVE  CapInv'
<1> USE BoundsAssumption
<1>1. LedgerMove /\ Footprint
  BY Moves, Footprints
<1>2. TypeOK /\ SerialInv /\ Cardinality(Active) \in Nat /\ Cardinality(Recorded) \in Nat
  BY FS_CardinalityType DEF HoldInv, SerialInv, CapInv
<1>3. ASSUME NEW S, S \subseteq Active \/ S \subseteq Recorded
      PROVE  IsFiniteSet(S) /\ Cardinality(S) <= Cap
  BY <1>2, <1>3, FS_Subset, FS_CardinalityType DEF CapInv
<1>4. IsFiniteSet(Active') /\ Cardinality(Active') <= Cap
  <2>1. CASE \E r \in Runs : Begun(r)
    <3>1. PICK r \in Runs : Begun(r)
      BY <2>1
    <3>2. CASE r \in Scheduled
      <4>1. Active' = Active \cup {r} /\ r \notin Active
        BY <1>2, <3>1, <3>2 DEF Begun, Patch, Active, TypeOK
      <4>2. Cardinality(Active) < Cap
        BY <3>1, <3>2, AdmitCounts DEF Begun, MayStart, Locked
      <4>3. IsFiniteSet(Active') /\ Cardinality(Active') = Cardinality(Active) + 1
        BY <4>1, FS_AddElement DEF CapInv
      <4> QED
        BY <1>2, <4>2, <4>3
    <3>3. CASE r \notin Scheduled
      <4>1. Active' \subseteq Active
        BY <1>2, <3>1, <3>3 DEF Begun, Patch, Active, TypeOK
      <4> QED
        BY <1>3, <4>1
    <3> QED
      BY <3>2, <3>3
  <2>2. CASE Start
    <3>1. phase = "booting" /\ \A r \in Scheduled : status[r] # "running"
      BY <2>2 DEF Start, HoldInv, DownQueued
    <3>2. Active' \subseteq Recorded
      BY <2>2, <3>1 DEF Start, Unknown, Active, Recorded, Runs
    <3> QED
      BY <1>3, <3>2
  <2>3. CASE UNCHANGED status \/ \E r \in Runs : Born(r) \/ Over(r) \/ Back(r) \/ Again(r)
    <3>1. ASSUME NEW r \in Runs, Born(r) \/ Over(r) \/ Back(r) \/ Again(r)
          PROVE  status'[r] # "running" /\ \A q \in Runs \ {r} : status'[q] = status[q]
      BY <1>2, <3>1 DEF Born, Over, Back, Again, Patch, Terminal, TypeOK
    <3>2. Active' \subseteq Active
      BY <2>3, <3>1 DEF Active, Runs
    <3> QED
      BY <1>3, <3>2
  <2>4. CASE CancelPending \/ Down
    <3>1. Active' \subseteq Active
      BY <1>2, <2>4 DEF CancelPending, Down, Active, Runs, TypeOK
    <3> QED
      BY <1>3, <3>1
  <2> QED
    BY <1>1, <2>1, <2>2, <2>3, <2>4 DEF LedgerMove, Move
<1>5. IsFiniteSet(Recorded') /\ Cardinality(Recorded') <= Cap
  <2>1. CASE HandoffSave
    <3>1. Recorded' \subseteq Active
      BY <2>1 DEF HandoffSave, Handable, Recorded, Active
    <3> QED
      BY <1>3, <3>1
  <2>2. CASE file' = file \/ file' = {}
    <3>1. Recorded' \subseteq Recorded
      BY <2>2 DEF Recorded
    <3> QED
      BY <1>3, <3>1
  <2> QED
    BY <1>1, <2>1, <2>2 DEF Footprint
<1>6. lock'.op = "admit" => phase' \notin {"down", "booting", "starting"}
  <2>1. ASSUME NEW r \in Runs, Admit(r) PROVE phase' = "up"
    BY <2>1 DEF Admit, life
  <2>2. CASE lock' = lock
    <3>1. SerialInv'
      BY <1>2, SerialStep
    <3>2. Start => lock.op = "free"
      BY <1>2 DEF Start, SerialInv, DownUnlocked, Free
    <3> QED
      BY <1>1, <2>2, <3>1, <3>2 DEF Footprint, CapInv, SerialInv, DownUnlocked, Free
  <2> QED
    BY <1>1, <2>1, <2>2 DEF Footprint
<1> QED
  BY <1>4, <1>5, <1>6 DEF CapInv

\* The counts hold in every behaviour.
LEMMA CapAlways == Spec => []CapInv
<1>1. Init => CapInv
  <2>1. ASSUME Init PROVE Active = {} /\ Recorded = {} /\ lock.op # "admit"
    BY <2>1 DEF Init, Active, Recorded, Free, Runs
  <2> QED
    BY <2>1, FS_EmptySet, BoundsAssumption DEF CapInv
<1>2. HoldInv /\ CapInv /\ [Next]_vars => CapInv'
  BY CapStep
<1> QED
  BY <1>1, <1>2, HoldAlways, PTL DEF Spec

\* What keeps occurrences of one schedule apart across a restart: the hand-off record
\* names one of a schedule, and nothing else is known until it is taken.
OneInv ==
  /\ OneOccurrence
  /\ \A q, r \in Recorded : Task[q] = Task[r] => q = r
  /\ IsDown => \A r \in Runs : status[r] = "absent"

\* Every step keeps occurrences of a schedule apart, if no trigger overtakes the record.
LEMMA OneStep ==
  ASSUME ~BootTriggers, HoldInv, OneInv, [Next]_vars
  PROVE  OneInv'
<1>1. LedgerMove /\ Footprint
  BY Moves, Footprints
<1>2. TypeOK
  BY DEF HoldInv, SerialInv
<1>3. OneOccurrence'
  <2>1. ASSUME NEW r \in Runs, Move(r) PROVE OneOccurrence'
    <3>1. \A q \in Scheduled \ {r} : status'[q] = status[q]
      BY <1>2, <2>1 DEF Move, Born, Begun, Over, Back, Again, Patch, TypeOK, Runs
    <3>2. CASE Born(r) \/ Again(r)
      BY <3>1, <3>2 DEF Born, Again, Retryable, Alone, OneOccurrence, OneInv, InFlight
    <3>3. CASE Begun(r) \/ Over(r) \/ Back(r)
      <4>1. InFlight(r)
        BY <3>3 DEF Begun, Over, Back, InFlight
      <4> QED
        BY <3>1, <4>1 DEF OneOccurrence, OneInv, InFlight
    <3> QED
      BY <2>1, <3>2, <3>3 DEF Move
  <2>2. CASE UNCHANGED status
    BY <2>2 DEF OneOccurrence, OneInv, InFlight
  <2>3. CASE CancelPending
    BY <1>2, <2>3 DEF CancelPending, OneOccurrence, OneInv, InFlight, Runs, TypeOK
  <2>4. CASE Down
    BY <2>4 DEF Down, OneOccurrence, InFlight, Runs
  <2>5. CASE Start
    <3>1. \A r \in Scheduled : InFlight(r)' => r \in Recorded
      BY <2>5 DEF Start, Unknown, OneInv, IsDown, InFlight, Recorded, Runs
    <3> QED
      BY <3>1 DEF OneOccurrence, OneInv
  <2> QED
    BY <1>1, <2>1, <2>2, <2>3, <2>4, <2>5 DEF LedgerMove
<1>4. (\A q, r \in Recorded : Task[q] = Task[r] => q = r)'
  <2>1. CASE HandoffSave
    <3>1. \A r \in Recorded' : r \in Scheduled /\ InFlight(r)
      BY <2>1 DEF HandoffSave, Handable, Recorded, InFlight
    <3> QED
      BY <3>1 DEF OneInv, OneOccurrence
  <2> QED
    BY <1>1, <2>1 DEF Footprint, Recorded, OneInv
<1>5. (IsDown => \A r \in Runs : status[r] = "absent")'
  BY <1>1 DEF LedgerMove, Still, OneInv, CancelPending, Down, Start, life, IsDown
<1> QED
  BY <1>3, <1>4, <1>5 DEF OneInv

\* They stay apart in every behaviour.
LEMMA OneAlways ==
  ASSUME ~BootTriggers
  PROVE  Spec => []OneInv
<1>1. Init => OneInv
  BY DEF Init, OneInv, OneOccurrence, InFlight, Recorded, Runs, IsDown
<1>2. HoldInv /\ OneInv /\ [Next]_vars => OneInv'
  BY OneStep
<1> QED
  BY <1>1, <1>2, HoldAlways, PTL DEF Spec

\* "One occurrence at a time", and never more than the configured concurrency, for
\* any number of schedules, occurrences, stops, quota retries and restarts; as long as
\* no trigger is served by a relay that has not yet taken its hand-off record.
THEOREM OccurrencesKeepApart ==
  ASSUME ~BootTriggers
  PROVE  Spec => []OccurrencesApart
<1>1. CapInv /\ OneInv => OccurrencesApart
  BY DEF CapInv, OneInv, OccurrencesApart, BackgroundCapped, Active
<1> QED
  BY <1>1, CapAlways, OneAlways, PTL

(***************************************************************************)
(* No executor is lost                                                     *)
(***************************************************************************)
\* A live executor that nobody told to stop: it is its run's latest, sits in its run's
\* slot under an observer or is named for, or by, the next relay, and its run is
\* running and not being launched again.
Loose(c) == proc[c] = "live" /\ c \notin killed
Seated(c) == Slot(c[1]) = c /\ c \in watched
AccountInv ==
  \A c \in Children : Loose(c) =>
    /\ c[2] = launches[c[1]]
    /\ c \in file \cup adopting \/ Seated(c)
    /\ ~IsDown => status[c[1]] = "running"
    /\ ~Locked("launch", c[1])

\* Of a run that is queued, launched, between two setups, or completing no executor is.
LEMMA NoneLoose ==
  ASSUME HoldInv, AccountInv, NEW c \in Children, Loose(c), ~IsDown
  PROVE  /\ status[c[1]] = "running" /\ c[1] \notin advancing
         /\ \A d \in SlotChildren : d[1] = c[1] /\ lock = Free /\ d \notin watched => d \in handedOff
<1> USE RunsAssumption, NoneAssumption
<1>1. c[1] \in Runs /\ status[c[1]] = "running" /\ (c \in file \cup adopting \/ Seated(c))
  BY DEF AccountInv
<1>2. phase \notin {"stopping", "draining", "closing"} => file = {}
  BY DEF HoldInv, FileNamed, SerialInv, TypeOK, Phases, IsDown
<1>3. c[1] \notin advancing
  <2>1. CASE c \in adopting
    BY <2>1 DEF HoldInv, AdvancingHolds, AdoptingWaits
  <2>2. CASE c \in file
    BY <1>2, <2>2 DEF HoldInv, FileNamed, HandedOver
  <2>3. CASE Seated(c)
    BY <2>3 DEF HoldInv, AdvancingHolds, Seated
  <2> QED
    BY <1>1, <2>1, <2>2, <2>3
<1>4. ASSUME NEW d \in SlotChildren, d[1] = c[1], lock = Free, d \notin watched
      PROVE  d \in handedOff
  <2>1. Slot(c[1]) = d /\ Holds(c[1])
    BY <1>4, SlotIs DEF HoldInv, SerialInv
  <2>2. c \in file
    BY <1>1, <1>4, <2>1 DEF HoldInv, AdoptingWaits, Seated
  <2>3. c \in handedOff
    BY <1>2, <1>4, <2>2 DEF HoldInv, FileNamed, HandedOver, Free
  <2> QED
    BY <2>1, <2>3 DEF HoldInv, HandedOver
<1> QED
  BY <1>1, <1>3, <1>4

\* Every step keeps the accounts, unless a hand-off record is lost or a trigger meets a
\* relay that has not taken it.
LEMMA AccountStep ==
  ASSUME ~BootTriggers, ~MayLoseRecord, HoldInv, OneInv, AccountInv, [Next]_vars
  PROVE  AccountInv'
<1> USE RunsAssumption, NoneAssumption
<1>0. TypeOK /\ HoldInv'
  BY HoldStep DEF HoldInv, SerialInv
<1>a. \A c \in Children : Loose(c) =>
        /\ c[2] = launches[c[1]]
        /\ c \in file \cup adopting \/ (Slot(c[1]) = c /\ c \in watched)
        /\ ~IsDown => status[c[1]] = "running"
        /\ ~Locked("launch", c[1])
  BY DEF AccountInv, Seated
<1>n. \A c \in Children : Loose(c) /\ ~IsDown =>
         /\ status[c[1]] = "running" /\ c[1] \notin advancing
         /\ \A d \in SlotChildren : d[1] = c[1] /\ lock = Free /\ d \notin watched => d \in handedOff
  BY NoneLoose
<1>s. \A c \in SlotChildren : c \in Children /\ c[1] \in Runs /\ Slot(c[1]) = c /\ Holds(c[1])
  BY <1>0, SlotIs DEF HoldInv
<1>l. /\ \A r \in Runs : Locked("admit", r) => status[r] = "queued" /\ ~IsDown
      /\ \A r \in Runs : Locked("launch", r) => status[r] = "running" /\ ~IsDown
      /\ advancing # {} \/ adopting # {} \/ SlotChildren # {} => ~IsDown
  BY <1>0, <1>s DEF HoldInv, SerialInv, LockHolds, AdvancingHolds, AdoptingWaits, DownUnlocked, Locked,
                    Free, IsDown, TypeOK, Holds, Slot, Runs
<1> SUFFICES ASSUME NEW e \in Children, Loose(e)'
             PROVE  /\ e[2] = launches'[e[1]]
                    /\ e \in file' \cup adopting' \/ (Slot(e[1])' = e /\ e \in watched')
                    /\ ~IsDown' => status'[e[1]] = "running"
                    /\ ~Locked("launch", e[1])'
  BY DEF AccountInv, Seated
<1> DEFINE Goal == /\ e[2] = launches'[e[1]]
                   /\ e \in file' \cup adopting' \/ (Slot(e[1])' = e /\ e \in watched')
                   /\ ~IsDown' => status'[e[1]] = "running"
                   /\ ~Locked("launch", e[1])'
<1>h. AdvancingHolds /\ AdoptingWaits /\ FileNamed /\ SlotsTyped
  BY DEF HoldInv
<1> USE <1>0
<1> USE DEF Loose, IsDown, Slot, Locked, Free, Patch, Occupy, TypeOK, Closed, Kill, Live, RunCancelled, ReleaseSlot,
            ledger, lanes, procs, stops, life, world
\* A step that changes the status and the slot of one run only, of which no executor
\* is loose.
<1>k. ASSUME NEW r \in Runs, \A c \in Children : Loose(c) => c[1] # r,
             \A q \in Runs \ {r} : status'[q] = status[q],
             \A q \in Runs \ {r} : Holds(q) => Slot(q)' = Slot(q),
             UNCHANGED <<launches, watched, proc, killed, file, adopting, phase>>, lock' \in {lock, Free}
      PROVE  Goal
  BY <1>k, <1>a DEF Holds
<1>1. ASSUME NEW r \in Runs, Create(r) PROVE Goal
  BY <1>1, <1>a, <1>n, <1>l DEF Create
<1>2. ASSUME NEW r \in Runs, Admit(r) PROVE Goal
  BY <1>2, <1>a, <1>n, <1>l DEF Admit
<1>3. ASSUME NEW r \in Runs, AdmitReject(r) PROVE Goal
  BY <1>3, <1>a, <1>n, <1>l DEF AdmitReject
<1>4. ASSUME NEW r \in Runs, AdmitDefer(r) PROVE Goal
  BY <1>4, <1>a, <1>n, <1>l DEF AdmitDefer
<1>5. ASSUME NEW r \in Runs, AdmitStart(r) PROVE Goal
  BY <1>5, <1>a, <1>n, <1>l DEF AdmitStart, MayStart
<1>6. ASSUME NEW r \in Runs, AdmitFail(r) PROVE Goal
  <2>1. Locked("admit", r) /\ ReleaseSlot(r) /\ lock' = Free /\ UNCHANGED <<launches, watched, proc, killed, file, adopting, phase>>
    BY <1>6 DEF AdmitFail, MayStart
  <2>2. \A q \in Runs \ {r} : status'[q] = status[q]
    BY <1>6 DEF AdmitFail, GiveUp
  <2>3. \A q \in Runs \ {r} : Holds(q) => Slot(q)' = Slot(q)
    BY <2>1 DEF Holds, Runs
  <2> QED
    BY <1>k, <1>l, <1>n, <2>1, <2>2, <2>3
<1>7. ASSUME NEW r \in Runs, LaunchOk(r) PROVE Goal
  <2>1. Locked("launch", r) /\ Occupy(r, <<r, launches[r] + 1>>) /\ lock' = Free
    BY <1>7 DEF LaunchOk, Spawn
  <2>2. /\ launches' = [launches EXCEPT ![r] = launches[r] + 1] /\ proc' = [proc EXCEPT ![<<r, launches[r] + 1>>] = "live"]
        /\ watched' = watched \cup {<<r, launches[r] + 1>>} /\ killed \subseteq killed'
        /\ UNCHANGED <<status, file, adopting, phase>> /\ launches[r] + 1 \in 1..MaxLaunches
    BY <1>7, BoundsAssumption DEF LaunchOk, Spawn
  <2>3. CASE e = <<r, launches[r] + 1>>
    BY <1>l, <2>1, <2>2, <2>3 DEF Runs
  <2>4. CASE e # <<r, launches[r] + 1>>
    <3>1. Loose(e) /\ e[1] # r /\ status[e[1]] = "running" /\ ~IsDown
      BY <1>a, <1>l, <2>1, <2>2, <2>4
    <3>2. ~(e[1] \in Foreground /\ r \in Foreground)
      BY <1>l, <2>1, <3>1 DEF HoldInv, SerialInv, ForegroundSerial
    <3>3. Slot(e[1])' = Slot(e[1])
      BY <2>1, <3>1, <3>2 DEF Runs
    <3> QED
      BY <1>a, <2>1, <2>2, <3>1, <3>3
  <2> QED
    BY <2>3, <2>4
<1>8. ASSUME NEW r \in Runs, LaunchNext(r) PROVE Goal
  BY <1>8, <1>a, <1>n, <1>l DEF LaunchNext
<1>9. ASSUME NEW r \in Runs, LaunchFail(r) PROVE Goal
  BY <1>9, <1>a, <1>n, <1>l DEF LaunchFail, GiveUp
<1>10. ASSUME NEW r \in Runs, Advance(r) PROVE Goal
  BY <1>10, <1>a, <1>n, <1>l DEF Advance
<1>11. ASSUME NEW r \in Runs, AdvanceEnd(r) PROVE Goal
  <2>1. r \in advancing /\ Occupy(r, None) /\ UNCHANGED <<lock, launches, watched, proc, killed, file, adopting, phase>>
    BY <1>11 DEF AdvanceEnd
  <2>2. \A q \in Runs \ {r} : status'[q] = status[q]
    BY <1>11 DEF AdvanceEnd
  <2>3. \A q \in Runs \ {r} : Holds(q) => Slot(q)' = Slot(q)
    BY <1>l, <2>1, <1>h DEF Holds, Runs, AdvancingHolds
  <2> QED
    BY <1>k, <1>l, <1>n, <2>1, <2>2, <2>3
<1>12. ASSUME NEW r \in Runs, AdvanceUnavailable(r) PROVE Goal
  <2>1. r \in advancing /\ ReleaseSlot(r) /\ UNCHANGED <<lock, launches, watched, proc, killed, file, adopting, phase>>
    BY <1>12 DEF AdvanceUnavailable
  <2>2. \A q \in Runs \ {r} : status'[q] = status[q]
    BY <1>12 DEF AdvanceUnavailable, GiveUp
  <2>3. \A q \in Runs \ {r} : Holds(q) => Slot(q)' = Slot(q)
    BY <2>1 DEF Holds, Runs
  <2> QED
    BY <1>k, <1>l, <1>n, <2>1, <2>2, <2>3
<1>13. ASSUME NEW r \in Runs, CancelQueued(r) PROVE Goal
  BY <1>13, <1>a, <1>n, <1>l DEF CancelQueued
<1>14. ASSUME NEW r \in Runs, CancelRunning(r) PROVE Goal
  BY <1>14, <1>a, <1>n, <1>l DEF CancelRunning
<1>15. ASSUME NEW r \in Runs, MarkCancelled(r) PROVE Goal
  BY <1>15, <1>a, <1>n, <1>l DEF MarkCancelled
<1>16. ASSUME NEW r \in Runs, RetryQuota(r) PROVE Goal
  <2>1. status[r] = "failed" /\ UNCHANGED <<lanes, lock, launches, watched, proc, killed, file, adopting, phase>> /\ ~IsDown
    BY <1>16 DEF RetryQuota, Retryable
  <2>2. \A q \in Runs \ {r} : status'[q] = status[q] /\ Slot(q)' = Slot(q)
    BY <1>16 DEF RetryQuota
  <2> QED
    BY <1>k, <1>n, <2>1, <2>2
<1>17. ASSUME NEW r \in Runs, SweepBegin(r) PROVE Goal
  BY <1>17, <1>a, <1>n, <1>l DEF SweepBegin
<1>18. ASSUME NEW r \in Runs, SweepBackground(r) PROVE Goal
  BY <1>18, <1>a, <1>n, <1>l DEF SweepBackground
<1>19. ASSUME NEW r \in Runs, Revoke(r) PROVE Goal
  BY <1>19, <1>a, <1>n, <1>l DEF Revoke
<1>20. ASSUME NEW r \in Runs, SetEnabled(r) PROVE Goal
  BY <1>20, <1>a, <1>n, <1>l DEF SetEnabled
<1>21. ASSUME NEW c \in Children, Exit(c) PROVE Goal
  BY <1>21, <1>a, <1>n, <1>l DEF Exit
<1>22. ASSUME NEW c \in Children, Report(c) PROVE Goal
  BY <1>22, <1>a, <1>n, <1>l DEF Report
<1>23. ASSUME NEW c \in Children, ObserverLeaves(c) PROVE Goal
  BY <1>23, <1>a, <1>n, <1>l DEF ObserverLeaves
<1>24. ASSUME NEW c \in Children, Complete(c) PROVE Goal
  BY <1>24, <1>a, <1>n, <1>l, <1>s DEF Complete
<1>25. ASSUME NEW c \in Children, CompleteBroken(c) PROVE Goal
  BY <1>25, <1>a, <1>n, <1>l, <1>s DEF CompleteBroken
<1>26. ASSUME NEW c \in Children, CompleteRejected(c) PROVE Goal
  BY <1>26, <1>a, <1>n, <1>l DEF CompleteRejected
<1>27. ASSUME NEW c \in Children, CompleteHandedOff(c) PROVE Goal
  BY <1>27, <1>a, <1>n, <1>l, <1>s DEF CompleteHandedOff
<1>28. ASSUME NEW c \in Children, StopRequest(c) PROVE Goal
  BY <1>28, <1>a, <1>n, <1>l DEF StopRequest
<1>29. ASSUME NEW c \in Children, StopNext(c) PROVE Goal
  BY <1>29, <1>a, <1>n, <1>l DEF StopNext
<1>30. ASSUME NEW c \in Children, Adopt(c) PROVE Goal
  <2>1. /\ c \in adopting /\ lock = Free /\ phase = "starting" /\ Occupy(c[1], c) /\ (c[1] \in Foreground => fg = None)
        /\ UNCHANGED <<status, lock, launches, proc, file, phase>> /\ killed \subseteq killed'
        /\ watched' = watched \cup {c} /\ adopting' = adopting \ {c}
    BY <1>30 DEF Adopt
  <2>0. c[1] \in Runs
    OBVIOUS
  <2>2. ~Holds(c[1]) /\ status[c[1]] = "running"
    BY <2>1, <1>h DEF AdoptingWaits
  <2>3. Loose(e)
    BY <2>1
  <2>4. CASE e = c
    <3>1. Slot(c[1])' = c
      BY <2>0, <2>1 DEF Runs
    <3> QED
      BY <1>a, <2>1, <2>2, <2>3, <2>4, <3>1
  <2>5. CASE e # c /\ Slot(e[1]) = e
    <3>1. e[1] # c[1] /\ Holds(e[1])
      BY <2>2, <2>5 DEF Holds
    <3>2. Slot(e[1])' = Slot(e[1])
      <4>1. CASE c[1] \in Scheduled
        BY <2>1, <3>1, <4>1
      <4>2. CASE c[1] \notin Scheduled
        <5>1. e[1] \in Scheduled
          BY <2>0, <2>1, <3>1, <4>2 DEF Holds, Runs
        <5> QED
          BY <2>1, <4>2, <5>1
      <4> QED
        BY <4>1, <4>2
    <3> QED
      BY <1>a, <2>1, <2>3, <2>5, <3>2
  <2> QED
    BY <1>a, <2>1, <2>3, <2>4, <2>5
<1>31. ASSUME NEW c \in Children, AdoptFail(c) PROVE Goal
  <2>1. /\ c \in adopting /\ phase = "starting" /\ UNCHANGED <<lanes, lock, launches, proc, watched, file, phase>>
        /\ killed' = killed \cup ({c} \cap Live) /\ adopting' = adopting \ {c}
        /\ status' = [status EXCEPT ![c[1]] = "failed"]
    BY <1>31 DEF AdoptFail
  <2>2. ~Holds(c[1]) /\ file = {} /\ \A d \in adopting : d[1] = c[1] => d = c
    BY <2>1, <1>h DEF AdoptingWaits, FileNamed
  <2>3. Loose(e) /\ e # c
    BY <2>1
  <2>4. e[1] # c[1]
    BY <1>a, <2>2, <2>3 DEF Holds
  <2> QED
    BY <1>a, <2>1, <2>2, <2>3, <2>4
<1>32. ASSUME StopAck PROVE Goal
  BY <1>32, <1>a, <1>n, <1>l DEF StopAck
<1>33. ASSUME StopRefused PROVE Goal
  BY <1>33, <1>a, <1>n, <1>l DEF StopRefused
<1>34. ASSUME CancelPending PROVE Goal
  BY <1>34, <1>a, <1>n, <1>l DEF CancelPending
<1>35. ASSUME SweepPass PROVE Goal
  BY <1>35, <1>a, <1>n, <1>l DEF SweepPass
<1>36. ASSUME SweepStop PROVE Goal
  BY <1>36, <1>a, <1>n, <1>l DEF SweepStop
<1>37. ASSUME Pause PROVE Goal
  BY <1>37, <1>a, <1>n, <1>l DEF Pause
<1>38. ASSUME ObserveIdle PROVE Goal
  BY <1>38, <1>a, <1>n, <1>l DEF ObserveIdle
<1>39. ASSUME Unpause PROVE Goal
  BY <1>39, <1>a, <1>n, <1>l DEF Unpause
<1>40. ASSUME BeginStop PROVE Goal
  BY <1>40, <1>a, <1>n, <1>l DEF BeginStop
<1>41. ASSUME HandoffSave PROVE Goal
  <2>1. file = {} /\ adopting = {}
    BY <1>41, <1>h DEF HandoffSave, FileNamed, AdoptingWaits
  <2> QED
    BY <1>41, <1>a, <2>1 DEF HandoffSave
<1>42. ASSUME HandoffKill PROVE Goal
  <2>1. phase = "stopping"
    BY <1>42, <1>h DEF HandoffKill, FileNamed
  <2> QED
    BY <1>42, <1>a, <2>1 DEF HandoffKill
<1>43. ASSUME HandoffSkip PROVE Goal
  BY <1>43, <1>a, <1>n, <1>l DEF HandoffSkip
<1>44. ASSUME TerminateAll PROVE Goal
  BY <1>44, <1>a, <1>n, <1>l DEF TerminateAll
<1>45. ASSUME Down PROVE Goal
  BY <1>45, <1>a, <1>n, <1>l DEF Down
<1>46. ASSUME Boot PROVE Goal
  BY <1>46, <1>a, <1>n, <1>l DEF Boot
<1>47. ASSUME Start PROVE Goal
  <2>1. /\ phase = "booting" /\ lock = Free /\ adopting = {} /\ \A r \in Runs : Slot(r) = None /\ status[r] = "absent"
    BY <1>47, <1>h DEF Start, AdoptingWaits, OneInv, HoldInv, SerialInv, DownUnlocked, Runs
  <2>2. Loose(e) /\ UNCHANGED <<lanes, lock, launches, watched>>
    BY <1>47 DEF Start
  <2>3. e \in file
    <3>1. e[1] \in Runs /\ e # None
      OBVIOUS
    <3> QED
      BY <1>a, <2>1, <2>2, <3>1
  <2>4. e \in adopting' /\ status'[e[1]] = "running"
    BY <1>47, <2>1, <2>3 DEF Start, Unknown
  <2> QED
    BY <1>a, <2>1, <2>2, <2>4
<1>48. ASSUME Started PROVE Goal
  BY <1>48, <1>a, <1>n, <1>l DEF Started
<1>49. ASSUME UNCHANGED vars PROVE Goal
  BY <1>49, <1>a DEF vars
<1> HIDE DEF Goal
<1> QED
  <2>1. Goal
    BY <1>1, <1>2, <1>3, <1>4, <1>5, <1>6, <1>7, <1>8, <1>9, <1>10, <1>11, <1>12, <1>13, <1>14,
       <1>15, <1>16, <1>17, <1>18, <1>19, <1>20, <1>21, <1>22, <1>23, <1>24, <1>25, <1>26, <1>27,
       <1>28, <1>29, <1>30, <1>31, <1>32, <1>33, <1>34, <1>35, <1>36, <1>37, <1>38, <1>39, <1>40,
       <1>41, <1>42, <1>43, <1>44, <1>45, <1>46, <1>47, <1>48, <1>49 DEF Next, RunStep, ChildStep,
       RelayStep
  <2> QED
    BY <2>1 DEF Goal

\* Executors, slots and records agree at every moment: an executor that runs on and was
\* not told to stop is the latest of a running run and is held by its slot or by the
\* hand-off record, a running run has somebody to end it, and a slot never outlives its
\* run; as long as the record can be read and no trigger overtakes it.
THEOREM NothingIsLost ==
  ASSUME ~BootTriggers, ~MayLoseRecord
  PROVE  Spec => []Accounted
<1>1. Init => AccountInv
  BY DEF Init, AccountInv, Loose
<1>2. HoldInv /\ OneInv /\ AccountInv /\ [Next]_vars => AccountInv'
  BY AccountStep
<1>3. HoldInv /\ AccountInv => Accounted
  <2>1. ASSUME HoldInv, AccountInv PROVE TypeOK /\ RunningIsHeld /\ SlotsAreRunning
    BY <2>1, SlotIs DEF HoldInv, SerialInv, SlotsAreRunning, SlotsRun
  <2>2. ASSUME HoldInv, AccountInv PROVE ExecutorAccounted
    <3>1. ASSUME NEW c \in Children, Slot(c[1]) = c PROVE c \in SlotChildren
      BY <3>1, RunsAssumption, NoneAssumption DEF Slot, SlotChildren, Background, Runs
    <3> QED
      BY <2>2, <3>1 DEF AccountInv, Loose, Seated, ExecutorAccounted, IsDown
  <2> QED
    BY <2>1, <2>2 DEF Accounted
<1> QED
  BY <1>1, <1>2, <1>3, HoldAlways, OneAlways, PTL DEF Spec

(***************************************************************************)
(* Dispatch implements the lanes of module Lane                            *)
(***************************************************************************)
\* A relay that has its records shows them as they are.
LEMMA ViewUp ==
  ASSUME TypeOK, ~IsDown
  PROVE  LedgerView = status
BY DEF LedgerView, IsDown, TypeOK

\* ... and so it does after a step.
LEMMA ViewUpNext ==
  ASSUME TypeOK', ~IsDown'
  PROVE  LedgerView' = status'
BY DEF LedgerView, IsDown, TypeOK

\* What one run's move is for its callers.
LEMMA MoveImplements ==
  ASSUME HoldInv, CapInv, NEW r \in Runs, Move(r), LedgerView = status, LedgerView' = status'
  PROVE  L!LaneNext \/ UNCHANGED LedgerView
<1> USE RunsAssumption DEF L!Runs, Runs, Patch
<1>0. TypeOK /\ r \in L!Runs
  BY DEF HoldInv, SerialInv
<1>1. CASE Born(r)
  <2>1. L!Admit(r)
    BY <1>1 DEF Born, Alone, InFlight, L!Admit, L!Pending
  <2> QED
    BY <1>0, <2>1 DEF L!LaneNext
<1>2. CASE Begun(r)
  <2>1. r \in Foreground => L!Running(Foreground) = {}
    <3>1. lock.op = "admit" /\ lock.run = r
      BY <1>2 DEF Begun, MayStart, Locked
    <3> QED
      BY <3>1 DEF HoldInv, SerialInv, AdmitAlone, ForegroundRunning, L!Running
  <2>2. r \in Scheduled => Cardinality(L!Running(Scheduled)) < Cap
    <3>1. lock.op = "admit" /\ (r \in Scheduled => Cardinality(Background) < Cap)
      BY <1>2 DEF Begun, MayStart, Locked
    <3>2. L!Running(Scheduled) = Active
      BY DEF L!Running, Active
    <3> QED
      BY <3>1, <3>2, AdmitCounts
  <2>3. LedgerView[r] = "queued" /\ LedgerView' = [LedgerView EXCEPT ![r] = "running"]
    BY <1>2 DEF Begun
  <2>4. L!Cardinality(L!Running(Scheduled)) = Cardinality(L!Running(Scheduled))
    BY DEF L!Cardinality, Cardinality
  <2>5. L!Start(r)
    BY <2>1, <2>2, <2>3, <2>4 DEF L!Start
  <2> QED
    BY <1>0, <2>5 DEF L!LaneNext
<1>3. CASE Over(r)
  <2>1. L!Settle(r)
    BY <1>3 DEF Over, InFlight, Terminal, L!Settle, L!Pending, L!Ended
  <2> QED
    BY <1>0, <2>1 DEF L!LaneNext
<1>4. CASE Back(r)
  <2>1. L!Requeue(r) \/ UNCHANGED status
    BY <1>0, <1>4 DEF Back, InFlight, L!Requeue, TypeOK
  <2> QED
    BY <1>0, <2>1 DEF L!LaneNext
<1>5. CASE Again(r)
  <2>1. L!Retry(r)
    BY <1>5 DEF Again, Retryable, Alone, InFlight, L!Retry, L!Pending
  <2> QED
    BY <1>0, <2>1 DEF L!LaneNext
<1> QED
  BY <1>1, <1>2, <1>3, <1>4, <1>5 DEF Move

\* Every step of dispatch is a step of the lanes, or none that a caller can see.
LEMMA StepImplements ==
  ASSUME ~BootTriggers, HoldInv, CapInv, OneInv, [Next]_vars
  PROVE  L!LaneNext \/ UNCHANGED LedgerView
<1> USE RunsAssumption
<1>0. TypeOK /\ TypeOK' /\ LedgerMove
  BY Moves, HoldStep DEF HoldInv, SerialInv
<1>1. CASE Still /\ UNCHANGED status
  BY <1>1 DEF Still, LedgerView, IsDown
<1>2. CASE Still /\ ~IsDown /\ \E r \in Runs : Move(r)
  BY <1>0, <1>2, ViewUp, ViewUpNext, MoveImplements DEF Still
<1>3. CASE CancelPending
  <2>1. LedgerView = status /\ LedgerView' = status'
    BY <1>0, <1>3, ViewUp, ViewUpNext DEF CancelPending, life, IsDown
  <2>2. L!CancelQueue
    BY <1>3, <2>1 DEF CancelPending, L!CancelQueue, L!Runs, Runs
  <2> QED
    BY <2>2 DEF L!LaneNext
<1>4. CASE Down
  <2> DEFINE kept == {r \in Runs : \E c \in file : c[1] = r}
  <2>1. LedgerView = status
    BY <1>0, <1>4, ViewUp DEF Down, IsDown
  <2>2. LedgerView' = [r \in Runs |-> IF r \in kept THEN "running" ELSE "absent"]
    BY <1>4 DEF Down, LedgerView
  <2>3. \A r \in kept : status[r] = "running"
    BY <1>4 DEF Down, HoldInv, HandedOver
  <2>4. kept \in SUBSET L!Running(L!Runs)
    BY <2>1, <2>3 DEF L!Running, L!Runs, Runs
  <2>5. L!Restart
    BY <2>2, <2>4 DEF L!Restart, L!Runs, Runs
  <2> QED
    BY <2>5 DEF L!LaneNext
<1>5. CASE Start
  <2>1. PICK taken \in {file, {}} :
          status' = [r \in Runs |-> IF \E c \in Unknown(taken) : c[1] = r THEN "running" ELSE status[r]]
    BY <1>5 DEF Start
  <2> DEFINE kept == {r \in Runs : \E c \in Unknown(taken) : c[1] = r}
  <2>2. \A r \in Runs : status[r] = "absent"
    BY <1>5 DEF Start, OneInv, IsDown
  <2>3. LedgerView' = status'
    BY <1>0, <1>5, ViewUpNext DEF Start, IsDown
  <2>4. status' = [r \in Runs |-> IF r \in kept THEN "running" ELSE "absent"]
    BY <2>1, <2>2
  <2>5. \A r \in kept : LedgerView[r] = "running"
    BY <1>5, <2>1 DEF Start, LedgerView, Unknown
  <2>6. kept \in SUBSET L!Running(L!Runs)
    BY <2>5 DEF L!Running, L!Runs, Runs
  <2>7. L!Restart
    BY <2>3, <2>4, <2>6 DEF L!Restart, L!Runs, Runs
  <2> QED
    BY <2>7 DEF L!LaneNext
<1> QED
  BY <1>0, <1>1, <1>2, <1>3, <1>4, <1>5 DEF LedgerMove, Still

\* Dispatch implements the abstract lanes: whatever setups, stops, sweeps, hand-offs and
\* adoptions do underneath, a caller of the ledger sees runs admitted one occurrence at
\* a time, started within each lane's room, ended once, and kept or forgotten whole by
\* a restart.
THEOREM DispatchImplementsLane ==
  ASSUME ~BootTriggers
  PROVE  Spec => ImplementsLane
<1>1. Init => L!LaneInit
  <2>1. ASSUME Init PROVE LedgerView = [r \in Runs |-> "absent"]
    BY <2>1 DEF Init, LedgerView
  <2> QED
    BY <2>1 DEF L!LaneInit, L!Runs, Runs
<1>2. HoldInv /\ CapInv /\ OneInv /\ [Next]_vars => [L!LaneNext]_LedgerView
  BY StepImplements
<1> QED
  BY <1>1, <1>2, HoldAlways, CapAlways, OneAlways, PTL DEF Spec, ImplementsLane, L!LaneSpec

(***************************************************************************)
(* Telegram intake: the invariant                                          *)
(***************************************************************************)
\* What accept remembers was handed over; a batch is named by its first update.
IntakeTypes ==
  /\ handled \in 0..N /\ seen \subseteq 1..handled /\ paired \in BOOLEAN /\ timer \in BOOLEAN
  /\ waiting \in Seq(seen) /\ decided \subseteq 1..N /\ collected \in Seq(1..N)
  /\ batches \subseteq [id : seen, status : I!BatchStatuses, entries : Seq(seen)]
  /\ runs \subseteq [id : seen, entries : Seq(seen), items : Seq(seen)]
  /\ worker \in [pc : {"idle", "batch", "normalized", "ended"}, id : Nat, left : Seq(1..N)]
Named == \A a \in batches \cup runs : a.entries # <<>> /\ a.id = a.entries[1]

\* Of a batch being normalized the items collected come before what is left, and there
\* is one of every update in between, but for decisions that were refused.
Normalizing(b) ==
  /\ I!Range(worker.left) \subseteq I!Range(b.entries) /\ I!InOrder(worker.left)
  /\ I!Range(collected) \subseteq I!Range(b.entries) /\ I!InOrder(collected)
  /\ \A u \in I!Range(collected), v \in I!Range(worker.left) : u < v
  /\ paired => \A u \in I!Range(b.entries) :
       \/ u \in I!Range(worker.left) \cup I!Range(collected)
       \/ Kind[u] = "decision" /\ u \notin decided
AtWork ==
  worker.pc \in {"batch", "normalized"} =>
    /\ worker.pc = "normalized" => worker.left = <<>>
    /\ \A b \in batches : b.id = worker.id => b.status # "failed" /\ Normalizing(b)

Places == IntakeTypes /\ Named /\ I!OnePlace
IntakeInv == Places /\ AtWork /\ I!RunsAreWhole

USE DEF I!Range, I!InOrder

\* A set of numbers has a least one.
LEMMA LeastIsFirst ==
  ASSUME NEW S \in SUBSET Nat, S # {}
  PROVE  I!First(S) \in S /\ \A y \in S : I!First(S) <= y
<1> DEFINE R == StrictSubsetOrdering(Nat)
           T == {1 .. x : x \in S}
<1>1. T \subseteq FiniteSubsetsOf(Nat)
  <2>1. \A x \in S : IsFiniteSet(1 .. x) /\ 1 .. x \in SUBSET Nat BY FS_Interval
  <2>2. QED BY <2>1 DEF FiniteSubsetsOf
<1>2. IsWellFoundedOn(R, FiniteSubsetsOf(Nat)) BY FS_StrictSubsetOrderingWellFounded
<1>3. T # {} OBVIOUS
<1> HIDE DEF R, T
<1>4. PICK J \in T : \A K \in T : ~ (<<K, J>> \in R) BY <1>1, <1>2, <1>3, WFMin
<1>5. PICK x \in S : J = 1 .. x BY DEF T
<1>6. ASSUME NEW y \in S, y < x PROVE FALSE
  <2>1. 1 .. y \in T BY DEF T
  <2>2. x \in 1 .. x /\ x \notin 1 .. y BY <1>6
  <2>3. <<1 .. y, J>> \in R BY <1>5, <1>6, <2>2 DEF R, StrictSubsetOrdering
  <2>4. QED BY <1>4, <2>1, <2>3
<1>7. \A y \in S : x <= y BY <1>6
<1>8. QED BY <1>7 DEF I!First

\* What is appended comes last.
LEMMA Appended ==
  ASSUME NEW s \in Seq(Nat), NEW u \in Nat
  PROVE  /\ I!Range(Append(s, u)) = I!Range(s) \cup {u}
         /\ I!InOrder(s) /\ (\A v \in I!Range(s) : v < u) => I!InOrder(Append(s, u))
<1>1. /\ Len(Append(s, u)) = Len(s) + 1 /\ Append(s, u)[Len(s) + 1] = u
      /\ \A i \in 1..Len(s) : Append(s, u)[i] = s[i]
      /\ DOMAIN Append(s, u) = 1..Len(s) + 1 /\ DOMAIN s = 1..Len(s)
  OBVIOUS
<1>2. QED BY <1>1

\* What is taken from the front came first.
LEMMA Taken ==
  ASSUME NEW s \in Seq(Nat), s # <<>>
  PROVE  /\ Head(s) \in I!Range(s) /\ Tail(s) \in Seq(Nat)
         /\ I!Range(s) = {Head(s)} \cup I!Range(Tail(s))
         /\ I!InOrder(s) => I!InOrder(Tail(s)) /\ \A v \in I!Range(Tail(s)) : Head(s) < v
<1>1. /\ Tail(s) \in Seq(Nat) /\ Len(Tail(s)) = Len(s) - 1 /\ Head(s) = s[1] /\ Len(s) >= 1
      /\ DOMAIN Tail(s) = 1..Len(s) - 1 /\ DOMAIN s = 1..Len(s)
      /\ \A i \in 1..Len(s) - 1 : Tail(s)[i] = s[i + 1]
  OBVIOUS
<1>2. \A i \in 1..Len(s) : s[i] \in Nat /\ Len(s) \in Nat OBVIOUS
<1>3. ASSUME NEW t, t = Tail(s)
      PROVE  /\ I!Range(s) = {s[1]} \cup I!Range(t)
             /\ I!InOrder(s) => I!InOrder(t) /\ \A v \in I!Range(t) : s[1] < v
  <2>1. /\ DOMAIN t = 1..Len(s) - 1 /\ DOMAIN s = 1..Len(s) /\ Len(s) >= 1
        /\ \A i \in 1..Len(s) - 1 : t[i] = s[i + 1]
    BY <1>1, <1>3
  <2>2. ASSUME NEW i \in 1..Len(s), i # 1 PROVE s[i] \in I!Range(t)
    <3>1. i - 1 \in 1..Len(s) - 1 /\ t[i - 1] = s[i] BY <1>2, <2>1, <2>2
    <3>2. QED BY <2>1, <3>1
  <2>3. ASSUME NEW i \in 1..Len(s) - 1
        PROVE  t[i] \in I!Range(s) /\ (I!InOrder(s) => s[1] < t[i])
    <3>1. i + 1 \in 1..Len(s) /\ 1 \in 1..Len(s) /\ 1 < i + 1 /\ t[i] = s[i + 1] BY <1>2, <2>1
    <3>2. QED BY <2>1, <3>1
  <2>4. ASSUME I!InOrder(s), NEW i \in 1..Len(s) - 1, NEW j \in 1..Len(s) - 1, i < j
        PROVE  t[i] < t[j]
    <3>1. i + 1 \in 1..Len(s) /\ j + 1 \in 1..Len(s) /\ i + 1 < j + 1 BY <1>2, <2>1, <2>4
    <3>2. QED BY <2>1, <2>4, <3>1
  <2>5. 1 \in 1..Len(s) /\ s[1] \in I!Range(s) BY <1>2, <2>1
  <2>6. I!Range(s) = {s[1]} \cup I!Range(t)
    <3>1. \A x \in I!Range(s) : x = s[1] \/ x \in I!Range(t) BY <2>1, <2>2
    <3>2. \A x \in I!Range(t) : x \in I!Range(s) BY <2>1, <2>3
    <3>3. QED BY <2>5, <3>1, <3>2
  <2>7. QED BY <2>1, <2>3, <2>4, <2>6
<1>4. QED
  <2> HIDE DEF I!Range, I!InOrder
  <2>1. s[1] \in {s[1]} \cup I!Range(Tail(s)) OBVIOUS
  <2>2. QED BY <1>1, <1>3, <2>1

\* A part of a sequence.
LEMMA PartOf ==
  ASSUME NEW S, NEW s \in Seq(S), NEW m \in Nat \ {0}, NEW k \in Nat, k <= Len(s), m <= k + 1,
         NEW t, t = SubSeq(s, m, k)
  PROVE  /\ t \in Seq(S) /\ Len(t) = k + 1 - m /\ DOMAIN t = 1..k + 1 - m
         /\ \A i \in 1..k + 1 - m : t[i] = s[m - 1 + i]
<1>0. DOMAIN s = 1..Len(s) /\ Len(s) \in Nat /\ \A i \in 1..Len(s) : s[i] \in S OBVIOUS
<1>1. \A i \in m..k : s[i] \in S
  <2>1. \A i \in m..k : i \in 1..Len(s) BY <1>0
  <2>2. QED BY <1>0, <2>1
<1>2. /\ SubSeq(s, m, k) \in Seq(S)
      /\ Len(SubSeq(s, m, k)) = IF m <= k THEN k - m + 1 ELSE 0
      /\ \A i \in 1 .. k - m + 1 : SubSeq(s, m, k)[i] = s[m + i - 1]
  BY <1>0, <1>1, SubSeqProperties
<1>3. (IF m <= k THEN k - m + 1 ELSE 0) = k + 1 - m /\ k - m + 1 = k + 1 - m OBVIOUS
<1>4. \A i \in 1..k + 1 - m : m + i - 1 = m - 1 + i OBVIOUS
<1>5. \A u \in Seq(S) : DOMAIN u = 1..Len(u) OBVIOUS
<1>6. t \in Seq(S) /\ Len(t) = k + 1 - m BY <1>2, <1>3, Zenon
<1>7. \A i \in 1..k + 1 - m : t[i] = s[m - 1 + i] BY <1>2, <1>3, <1>4, Zenon
<1>8. QED BY <1>5, <1>6, <1>7, Zenon

\* What is sealed and what is left of the buffer.
Parts(s, n, front, rest) == front = SubSeq(s, 1, n) /\ rest = SubSeq(s, n + 1, Len(s))
LEMMA Split ==
  ASSUME NEW S \in SUBSET Nat, NEW s \in Seq(S), NEW n \in 1..Len(s), I!InOrder(s),
         NEW front, NEW rest, Parts(s, n, front, rest)
  PROVE  /\ front \in Seq(S) /\ rest \in Seq(S)
         /\ front # <<>> /\ front[1] = s[1] /\ I!InOrder(front) /\ I!InOrder(rest)
         /\ I!Range(front) \cup I!Range(rest) = I!Range(s)
         /\ I!Range(front) \cap I!Range(rest) = {}
         /\ Len(rest) = Len(s) - n /\ \A i \in 1..Len(s) - n : rest[i] = s[n + i]
<1>1. PICK k \in Nat : k = Len(s) OBVIOUS
<1>2. n \in 1..k /\ DOMAIN s = 1..k BY <1>1
<1>a. \A i \in 1..k : s[i] \in Nat
  <2>1. \A i \in 1..k : s[i] \in S BY <1>1
  <2>2. QED BY <2>1
<1>3. \A i, j \in 1..k : i < j => s[i] < s[j] BY <1>2
<1>4. /\ front \in Seq(S) /\ Len(front) = n /\ DOMAIN front = 1..n
      /\ \A i \in 1..n : front[i] = s[i]
  <2>1. n \in Nat /\ 1 \in Nat \ {0} /\ n <= Len(s) /\ 1 <= n + 1 BY <1>1, <1>2
  <2>2. /\ front \in Seq(S) /\ Len(front) = n + 1 - 1 /\ DOMAIN front = 1..n + 1 - 1
        /\ \A i \in 1..n + 1 - 1 : front[i] = s[1 - 1 + i]
    BY <2>1, PartOf DEF Parts
  <2>3. n + 1 - 1 = n /\ \A i \in 1..n : 1 - 1 + i = i BY <2>1
  <2>4. QED BY <2>2, <2>3, Zenon
<1>5. /\ rest \in Seq(S) /\ Len(rest) = k - n /\ DOMAIN rest = 1..k - n
      /\ \A i \in 1..k - n : rest[i] = s[n + i]
  <2>1. n + 1 \in Nat \ {0} /\ k <= Len(s) /\ n + 1 <= k + 1 BY <1>1, <1>2
  <2>2. rest = SubSeq(s, n + 1, k) BY <1>1 DEF Parts
  <2>3. /\ rest \in Seq(S) /\ Len(rest) = k + 1 - (n + 1) /\ DOMAIN rest = 1..k + 1 - (n + 1)
        /\ \A i \in 1..k + 1 - (n + 1) : rest[i] = s[n + 1 - 1 + i]
    BY <2>1, <2>2, PartOf
  <2>4. k + 1 - (n + 1) = k - n /\ n + 1 - 1 = n BY <1>2
  <2>5. QED BY <2>3, <2>4, Zenon
<1>6. I!InOrder(front) BY <1>2, <1>3, <1>4
<1>7. I!InOrder(rest)
  <2> SUFFICES ASSUME NEW i \in 1..k - n, NEW j \in 1..k - n, i < j PROVE rest[i] < rest[j]
    BY <1>5
  <2>1. n + i \in 1..k /\ n + j \in 1..k /\ n + i < n + j BY <1>2
  <2>2. QED BY <1>3, <1>5, <2>1
<1>8. I!Range(s) \subseteq I!Range(front) \cup I!Range(rest)
  <2> SUFFICES ASSUME NEW i \in 1..k PROVE s[i] \in I!Range(front) \cup I!Range(rest)
    BY <1>2
  <2>1. CASE i <= n
    <3>1. i \in 1..n /\ front[i] = s[i] BY <1>2, <1>4, <2>1
    <3>2. QED BY <1>4, <3>1
  <2>2. CASE i > n
    <3>1. i - n \in 1..k - n /\ n + (i - n) = i BY <1>2, <2>2
    <3>2. rest[i - n] = s[i] BY <1>5, <3>1
    <3>3. QED BY <1>5, <3>1, <3>2
  <2>3. QED BY <1>2, <2>1, <2>2
<1>9. I!Range(front) \cup I!Range(rest) \subseteq I!Range(s)
  <2>1. ASSUME NEW i \in 1..n PROVE front[i] \in I!Range(s)
    <3>1. i \in 1..k /\ front[i] = s[i] BY <1>2, <1>4
    <3>2. QED BY <1>2, <3>1
  <2>2. ASSUME NEW i \in 1..k - n PROVE rest[i] \in I!Range(s)
    <3>1. n + i \in 1..k /\ rest[i] = s[n + i] BY <1>2, <1>5
    <3>2. QED BY <1>2, <3>1
  <2>3. QED BY <1>4, <1>5, <2>1, <2>2
<1>10. I!Range(front) \cap I!Range(rest) = {}
  <2>1. ASSUME NEW i \in 1..n, NEW j \in 1..k - n, front[i] = rest[j] PROVE FALSE
    <3>1. i \in 1..k /\ n + j \in 1..k /\ i < n + j BY <1>2
    <3>2. s[i] < s[n + j] /\ s[i] \in Nat /\ s[n + j] \in Nat BY <1>a, <1>3, <3>1
    <3>3. s[i] = s[n + j] BY <1>4, <1>5, <2>1
    <3>4. QED BY <3>2, <3>3
  <2>2. ASSUME NEW x \in I!Range(front), x \in I!Range(rest) PROVE FALSE
    <3>1. PICK i \in 1..n : x = front[i] BY <1>4
    <3>2. PICK j \in 1..k - n : x = rest[j] BY <1>5, <2>2
    <3>3. QED BY <2>1, <3>1, <3>2
  <2> HIDE DEF I!Range
  <2>3. QED BY <2>2, Zenon
<1>11. front # <<>> /\ front[1] = s[1]
  <2>1. 1 \in 1..n /\ n # 0 /\ Len(<<>>) = 0 BY <1>2
  <2>2. QED BY <1>4, <2>1, Zenon
<1>12. QED
  <2> HIDE DEF I!Range, I!InOrder
  <2>1. \A i \in 1..Len(s) - n : rest[i] = s[n + i] BY <1>1, <1>5
  <2>2. Len(rest) = Len(s) - n BY <1>1, <1>5
  <2>3. I!Range(front) \cup I!Range(rest) = I!Range(s) BY <1>8, <1>9, Zenon
  <2>4. QED BY <1>4, <1>5, <1>6, <1>7, <1>10, <1>11, <2>1, <2>2, <2>3, Zenon

\* Where a batch ends: after at least one update, before one that would have to follow.
LEMMA CutFalls ==
  ASSUME NEW w \in Seq(Nat), w # <<>>
  PROVE  /\ I!Cut(w) \in 1..Len(w)
         /\ I!Cut(w) < Len(w) =>
              LET last == w[I!Cut(w)]
                  next == w[I!Cut(w) + 1]
              IN  \/ Album[last] = 0 \/ Album[last] # Album[next]
                  \/ Context[last] # Context[next]
<1> DEFINE other == {i \in 1..Len(w) : Context[w[i]] # Context[w[1]]}
           end == IF I!Boundary(w) < Burst THEN I!Boundary(w) ELSE Burst
           album == Album[w[end]]
           rest == {i \in end + 1 .. Len(w) : album = 0 \/ Album[w[i]] # album
                                               \/ Context[w[i]] # Context[w[1]]}
<1>1. Len(w) \in Nat /\ Len(w) >= 1 /\ Burst \in Nat \ {0} BY IntakeAssumption
<1>2. I!Boundary(w) \in 1..Len(w) /\ \A i \in 1..I!Boundary(w) : Context[w[i]] = Context[w[1]]
  <2>1. CASE other = {} BY <1>1, <2>1 DEF I!Boundary
  <2>2. CASE other # {}
    <3>1. other \in SUBSET Nat OBVIOUS
    <3>2. PICK f \in other : f = I!First(other) /\ \A i \in other : f <= i
      <4> HIDE DEF other
      <4>1. QED BY <2>2, <3>1, LeastIsFirst
    <3>3. I!Boundary(w) = f - 1 BY <2>2, <3>2 DEF I!Boundary
    <3>4. f # 1 /\ f \in 1..Len(w) BY <3>2
    <3>5. \A i \in 1..f - 1 : i \in 1..Len(w) /\ i \notin other BY <3>2, <3>4
    <3>6. \A i \in 1..f - 1 : Context[w[i]] = Context[w[1]] BY <3>5
    <3>7. f - 1 \in 1..Len(w) BY <1>1, <3>4
    <3>8. QED BY <3>3, <3>6, <3>7
  <2>3. QED BY <2>1, <2>2
<1>3. end \in 1..Len(w) /\ end <= I!Boundary(w) BY <1>1, <1>2
<1>4. I!Cut(w) = IF rest = {} THEN Len(w) ELSE I!First(rest) - 1 BY DEF I!Cut
<1> HIDE DEF other, end
<1>5. CASE rest = {}
  BY <1>1, <1>4, <1>5
<1>6. CASE rest # {}
  <2>1. rest \in SUBSET Nat BY <1>1, <1>3
  <2>2. PICK f \in rest : f = I!First(rest) /\ \A i \in rest : f <= i
    <3> HIDE DEF rest
    <3>1. QED BY <1>6, <2>1, LeastIsFirst
  <2>3. I!Cut(w) = f - 1 /\ f \in end + 1 .. Len(w) BY <1>4, <1>6, <2>2
  <2>4. f \in Nat /\ f - 1 \in end .. Len(w) BY <1>1, <1>3, <2>3
  <2>9. f - 1 \notin rest
    <3> HIDE DEF rest
    <3>1. QED BY <2>2, <2>4
  <2>5. Context[w[f - 1]] = Context[w[1]] /\ (album = 0 \/ Album[w[f - 1]] = album)
    BY <1>1, <1>2, <1>3, <2>3, <2>4, <2>9
  <2>6. f - 1 > end => album # 0 BY <1>1, <1>3, <2>3, <2>4, <2>9
  <2>7. album = 0 => Album[w[f - 1]] = 0 BY <1>3, <2>3, <2>6
  <2>8. \/ album = 0 \/ Album[w[f]] # album \/ Context[w[f]] # Context[w[1]]
    BY <2>2
  <2>10. I!Cut(w) \in 1..Len(w) /\ w[I!Cut(w)] = w[f - 1] /\ w[I!Cut(w) + 1] = w[f]
    <3>1. f - 1 + 1 = f BY <2>4
    <3>2. QED BY <1>1, <1>3, <2>3, <2>4, <3>1
  <2> HIDE DEF album
  <2>11. QED BY <2>5, <2>7, <2>8, <2>10
<1>7. QED BY <1>5, <1>6

\* What sequences list.
LEMMA Listed ==
  ASSUME NEW X, NEW s \in Seq(X)
  PROVE  /\ I!Range(s) \subseteq X /\ \A Y : I!Range(s) \subseteq Y => s \in Seq(Y)
         /\ s # <<>> => s[1] \in I!Range(s)
<1>1. DOMAIN s = 1..Len(s) /\ Len(s) \in Nat /\ \A i \in 1..Len(s) : s[i] \in X OBVIOUS
<1>2. ASSUME NEW Y, I!Range(s) \subseteq Y PROVE s \in Seq(Y)
  <2>1. \A i \in 1..Len(s) : s[i] \in Y BY <1>1, <1>2
  <2>2. QED BY <1>1, <2>1
<1>3. s # <<>> => 1 \in 1..Len(s) BY <1>1
<1>4. QED BY <1>1, <1>2, <1>3

LEMMA NothingListed ==
  I!Range(<<>>) = {} /\ I!InOrder(<<>>) /\ \A X : <<>> \in Seq(X)
OBVIOUS

HIDE DEF I!Range, I!InOrder

\* Batches and runs that share an update, or a name, are one.
LEMMA OneOf ==
  ASSUME Places, NEW a \in batches \cup runs, NEW b \in batches \cup runs
  PROVE  /\ a.entries \in Seq(seen) /\ a.id \in I!Range(a.entries) /\ a.id \in seen
         /\ I!Range(a.entries) \subseteq seen /\ I!InOrder(a.entries)
         /\ I!Range(a.entries) \cap I!Range(waiting) = {}
         /\ \A u : u \in I!Range(a.entries) /\ u \in I!Range(b.entries) => a = b
         /\ a.id = b.id => a = b
<1>1. \A c \in batches \cup runs : c.entries \in Seq(seen) /\ c.id \in seen
  BY DEF Places, IntakeTypes
<1>2. \A c \in batches \cup runs : c.id \in I!Range(c.entries) /\ I!Range(c.entries) \subseteq seen
  BY <1>1, Listed DEF Places, Named
<1>3. QED BY <1>1, <1>2 DEF Places, I!OnePlace

LEMMA BatchIsNoRun ==
  ASSUME IntakeTypes, NEW b \in batches, NEW r \in runs PROVE b # r
<1>1. DOMAIN b = {"id", "status", "entries"} /\ DOMAIN r = {"id", "entries", "items"}
  BY DEF IntakeTypes
<1>2. "status" \in DOMAIN b /\ "status" \notin DOMAIN r BY <1>1
<1>3. QED BY <1>2

\* Nothing forgotten is remembered.
NothingReturns == seen \subseteq seen' => \A u \in seen \ I!Tracked : u \notin I!Tracked'

\* The initial state.
LEMMA IntakeInit == I!Init => IntakeInv
<1> SUFFICES ASSUME I!Init PROVE IntakeInv OBVIOUS
<1>1. IntakeTypes /\ Named
  <2>1. seen = {} /\ 0 \in 0..N /\ 1..0 = {} BY IntakeAssumption DEF I!Init
  <2>2. <<>> \in Seq(seen) /\ <<>> \in Seq(1..N) OBVIOUS
  <2>3. I!Idle \in [pc : {"idle", "batch", "normalized", "ended"}, id : Nat, left : Seq(1..N)]
    BY <2>2 DEF I!Idle
  <2>4. QED BY <2>1, <2>2, <2>3, Zenon DEF I!Init, IntakeTypes, Named
<1>2. I!OnePlace /\ AtWork /\ I!RunsAreWhole
  BY NothingListed DEF I!Init, I!Idle, I!OnePlace, AtWork, I!RunsAreWhole
<1>3. QED BY <1>1, <1>2 DEF IntakeInv, Places

\* The steps that leave updates, batches and runs where they are.
LEMMA StandingStill ==
  ASSUME IntakeInv,
         \/ I!OwnerLeaves \/ I!TimerBusy \/ I!DrainNothing \/ I!DrainEnd
         \/ I!CancelledMeanwhile \/ I!Normalized \/ \E u \in I!Updates : I!Ignore(u)
  PROVE  IntakeInv' /\ NothingReturns
<1>1. UNCHANGED <<seen, waiting, batches, runs, decided, collected>>
  BY DEF I!OwnerLeaves, I!TimerBusy, I!DrainNothing, I!DrainEnd, I!CancelledMeanwhile,
         I!Normalized, I!Ignore, I!items, I!state
<1>2. handled' \in 0..N /\ seen' \subseteq 1..handled'
  <2>1. handled' = handled \/ \E u \in I!Updates : handled' = u /\ u = handled + 1
    BY DEF I!OwnerLeaves, I!TimerBusy, I!DrainNothing, I!DrainEnd, I!CancelledMeanwhile,
           I!Normalized, I!Ignore, I!Arrives, I!poll
  <2>2. QED BY <1>1, <2>1 DEF IntakeInv, Places, IntakeTypes, I!Updates
<1>3. paired' \in BOOLEAN /\ timer' \in BOOLEAN /\ (paired' => paired)
  <2>1. paired' = paired \/ paired' = FALSE
    BY DEF I!OwnerLeaves, I!TimerBusy, I!DrainNothing, I!DrainEnd, I!CancelledMeanwhile,
           I!Normalized, I!Ignore, I!poll
  <2>2. I!DrainEnd => timer' \in BOOLEAN BY DEF I!DrainEnd
  <2>3. timer' = timer \/ timer' = FALSE \/ I!DrainEnd
    BY DEF I!OwnerLeaves, I!TimerBusy, I!DrainNothing, I!CancelledMeanwhile, I!Normalized, I!Ignore
  <2>4. paired \in BOOLEAN /\ timer \in BOOLEAN BY DEF IntakeInv, Places, IntakeTypes
  <2>5. timer' \in BOOLEAN BY <2>2, <2>3, <2>4
  <2>6. paired' \in BOOLEAN /\ (paired' => paired)
    <3>1. CASE paired' = paired BY <2>4, <3>1, Zenon
    <3>2. CASE paired' = FALSE BY <3>2, Zenon
    <3>3. QED BY <2>1, <3>1, <3>2
  <2>7. QED BY <2>5, <2>6, Zenon
<1>4. /\ worker' \in [pc : {"idle", "batch", "normalized", "ended"}, id : Nat, left : Seq(1..N)]
      /\ \/ worker'.pc \in {"idle", "ended"}
         \/ /\ worker'.id = worker.id /\ worker'.left = worker.left
            /\ worker.pc \in {"batch", "normalized"}
            /\ worker'.pc = "normalized" => worker'.left = <<>>
  <2>1. worker \in [pc : {"idle", "batch", "normalized", "ended"}, id : Nat, left : Seq(1..N)]
    BY DEF IntakeInv, Places, IntakeTypes
  <2>2. CASE worker' = worker BY <2>1, <2>2 DEF IntakeInv, AtWork
  <2>3. CASE worker' \in {I!Idle, I!Ended}
    <3>1. <<>> \in Seq(1..N) OBVIOUS
    <3>2. I!Ended = [pc |-> "ended", id |-> 0, left |-> <<>>] BY DEF I!Ended, I!Idle
    <3>3. /\ I!Ended \in [pc : {"idle", "batch", "normalized", "ended"}, id : Nat, left : Seq(1..N)]
          /\ I!Idle \in [pc : {"idle", "batch", "normalized", "ended"}, id : Nat, left : Seq(1..N)]
          /\ I!Ended.pc = "ended" /\ I!Idle.pc = "idle"
      BY <3>1, <3>2 DEF I!Idle
    <3>4. QED BY <2>3, <3>3
  <2>4. CASE I!Normalized BY <2>1, <2>4 DEF I!Normalized
  <2>5. QED BY <2>2, <2>3, <2>4
        DEF I!OwnerLeaves, I!TimerBusy, I!DrainNothing, I!DrainEnd, I!CancelledMeanwhile, I!Ignore
<1>5. IntakeTypes' BY <1>1, <1>2, <1>3, <1>4 DEF IntakeInv, Places, IntakeTypes
<1>6. Named' /\ I!OnePlace' /\ I!RunsAreWhole' /\ NothingReturns
  BY <1>1 DEF IntakeInv, Places, Named, I!OnePlace, I!RunsAreWhole, NothingReturns, I!Tracked,
              I!Pending, I!Failed
<1>7. AtWork' BY <1>1, <1>3, <1>4 DEF IntakeInv, AtWork, Normalizing
<1>8. QED BY <1>5, <1>6, <1>7 DEF IntakeInv, Places

\* Accepting: a new update's number is above every other's.
LEMMA Accepting ==
  ASSUME IntakeInv, NEW u \in I!Updates, I!Accept(u)
  PROVE  IntakeInv' /\ NothingReturns
<1> USE DEF IntakeInv, Places
<1>1. CASE u \in seen
  <2>1. UNCHANGED <<handled, paired, decided, collected, seen, waiting, batches, runs, timer, worker>>
    BY <1>1 DEF I!Accept, I!Passes, I!Arrives, I!items, I!state
  <2>2. QED BY <2>1 DEF IntakeTypes, Named, I!OnePlace, AtWork, Normalizing, I!RunsAreWhole,
                        NothingReturns, I!Tracked, I!Pending, I!Failed
<1>2. CASE u \notin seen
  <2>1. /\ handled' = u /\ u = handled + 1 /\ u \in 1..N
        /\ seen' = seen \cup {u} /\ waiting' = Append(waiting, u) /\ timer' = TRUE
        /\ UNCHANGED <<batches, paired, decided, collected, runs, worker>>
    BY <1>2 DEF I!Accept, I!Passes, I!Arrives, I!items, I!Updates
  <2>2. /\ handled \in 0..N /\ seen \subseteq 1..handled /\ waiting \in Seq(seen)
        /\ I!Range(waiting) \subseteq seen /\ waiting \in Seq(seen') /\ waiting \in Seq(Nat)
    <3>1. handled \in 0..N /\ seen \subseteq 1..handled /\ waiting \in Seq(seen) BY DEF IntakeTypes
    <3>2. I!Range(waiting) \subseteq seen BY <3>1, Listed
    <3>3. I!Range(waiting) \subseteq seen' /\ I!Range(waiting) \subseteq Nat
      <4>1. 1..handled \subseteq Nat BY <3>1
      <4>2. QED BY <2>1, <3>1, <3>2, <4>1, Zenon
    <3>4. QED BY <3>1, <3>2, <3>3, Listed
  <2>3. /\ I!Range(waiting') = I!Range(waiting) \cup {u} /\ I!InOrder(waiting')
    <3>1. \A v \in I!Range(waiting) : v < u
      <4>1. \A v \in 1..handled : v < u BY <2>1, <2>2
      <4>2. QED BY <2>2, <4>1
    <3>2. I!InOrder(waiting) BY DEF I!OnePlace
    <3>3. QED BY <2>1, <2>2, <3>1, <3>2, Appended
  <2>4. waiting' \in Seq(seen') BY <2>1, <2>2
  <2>5. \A X : X \in Seq(seen) => X \in Seq(seen') BY <2>1
  <2>6. IntakeTypes'
    <3>1. handled' \in 0..N /\ seen' \subseteq 1..handled' BY <2>1, <2>2
    <3>2. batches' \subseteq [id : seen', status : I!BatchStatuses, entries : Seq(seen')]
      BY <2>1, <2>5 DEF IntakeTypes
    <3>3. runs' \subseteq [id : seen', entries : Seq(seen'), items : Seq(seen')]
      BY <2>1, <2>5 DEF IntakeTypes
    <3>4. QED BY <2>1, <2>4, <3>1, <3>2, <3>3 DEF IntakeTypes
  <2>7. Named' BY <2>1 DEF Named
  <2>8. I!OnePlace'
    <3>1. \A a \in batches \cup runs : u \notin I!Range(a.entries)
      <4>1. u \notin seen BY <1>2
      <4>2. \A a \in batches \cup runs : I!Range(a.entries) \subseteq seen BY OneOf
      <4>3. QED BY <4>1, <4>2
    <3>2. \A a \in batches \cup runs :
            I!Range(a.entries) \cap I!Range(waiting') = {} /\ I!InOrder(a.entries)
      BY <2>3, <3>1 DEF I!OnePlace
    <3>3. \A a, b \in batches \cup runs : a # b => I!Range(a.entries) \cap I!Range(b.entries) = {}
      BY DEF I!OnePlace
    <3>4. batches' \cup runs' = batches \cup runs BY <2>1
    <3>5. QED BY <2>3, <3>2, <3>3, <3>4 DEF I!OnePlace
  <2>9. AtWork' /\ I!RunsAreWhole' BY <2>1 DEF AtWork, Normalizing, I!RunsAreWhole
  <2>10. NothingReturns
    BY <1>2, <2>1, <2>3 DEF NothingReturns, I!Tracked, I!Pending, I!Failed
  <2>11. QED BY <2>6, <2>7, <2>8, <2>9, <2>10
<1>3. QED BY <1>1, <1>2

\* Marking batches leaves their names and updates.
LEMMA MarkedBatches ==
  ASSUME IntakeInv, NEW bs \in SUBSET batches, NEW st \in I!BatchStatuses,
         batches' = I!Marked(bs, st), UNCHANGED <<handled, seen, runs>>,
         waiting' \in {waiting, <<>>}
  PROVE  /\ Named' /\ I!OnePlace'
         /\ batches' \subseteq [id : seen', status : I!BatchStatuses, entries : Seq(seen')]
         /\ waiting' \in Seq(seen')
         /\ \A c \in batches' : \E b \in batches :
              /\ c.id = b.id /\ c.entries = b.entries
              /\ \/ b \notin bs /\ c = b
                 \/ b \in bs /\ c.status = st
<1> USE DEF IntakeInv, Places
<1> DEFINE M(b) == IF b \in bs THEN [b EXCEPT !.status = st] ELSE b
<1>1. batches' = {M(b) : b \in batches} BY DEF I!Marked
<1>2. \A b \in batches :
        /\ b \in [id : seen, status : I!BatchStatuses, entries : Seq(seen)]
        /\ M(b).id = b.id /\ M(b).entries = b.entries
        /\ M(b) \in [id : seen, status : I!BatchStatuses, entries : Seq(seen)]
        /\ b \in bs => M(b).status = st
    BY DEF IntakeTypes
<1>3. \A b \in batches : b \notin bs => M(b) = b OBVIOUS
<1> HIDE DEF M
<1>4. \A c \in batches' : \E b \in batches : c = M(b) BY <1>1
<1>5. \A c \in batches' : \E b \in batches :
        /\ c.id = b.id /\ c.entries = b.entries
        /\ \/ b \notin bs /\ c = b
           \/ b \in bs /\ c.status = st
  BY <1>2, <1>3, <1>4
<1>6. batches' \subseteq [id : seen', status : I!BatchStatuses, entries : Seq(seen')]
  BY <1>2, <1>4
<1>7. waiting' \in Seq(seen') /\ I!InOrder(waiting') /\ I!Range(waiting') \subseteq I!Range(waiting)
  BY NothingListed DEF IntakeTypes, I!OnePlace
<1>8. Named' BY <1>5 DEF Named
<1>9. I!OnePlace'
  <2>1. \A c \in batches' \cup runs' : \E b \in batches \cup runs :
          c.entries = b.entries /\ ((c = M(b) /\ b \in batches) \/ (c = b /\ b \in runs))
    <3>1. \A c \in batches' : \E b \in batches : c.entries = b.entries /\ c = M(b) BY <1>2, <1>4
    <3>2. runs' = runs OBVIOUS
    <3>3. ASSUME NEW c \in batches' \cup runs'
          PROVE  \E b \in batches \cup runs :
                   c.entries = b.entries /\ ((c = M(b) /\ b \in batches) \/ (c = b /\ b \in runs))
      <4>1. CASE c \in batches'
        <5>1. PICK b \in batches : c.entries = b.entries /\ c = M(b) BY <3>1, <4>1
        <5>2. b \in batches \cup runs BY <5>1
        <5>3. QED BY <5>1, <5>2, Zenon
      <4>2. CASE c \in runs BY <4>2
      <4>3. QED BY <3>2, <3>3, <4>1, <4>2
    <3>4. QED BY <3>3
  <2>2. ASSUME NEW c \in batches' \cup runs', NEW d \in batches' \cup runs', c # d
        PROVE  I!Range(c.entries) \cap I!Range(d.entries) = {}
    <3>1. PICK a \in batches \cup runs :
            c.entries = a.entries /\ ((c = M(a) /\ a \in batches) \/ (c = a /\ a \in runs))
      BY <2>1
    <3>2. PICK b \in batches \cup runs :
            d.entries = b.entries /\ ((d = M(b) /\ b \in batches) \/ (d = b /\ b \in runs))
      BY <2>1
    <3>3. a # b BY <2>2, <3>1, <3>2, BatchIsNoRun
    <3>4. QED BY <3>1, <3>2, <3>3 DEF I!OnePlace
  <2>3. \A c \in batches' \cup runs' :
          I!Range(c.entries) \cap I!Range(waiting') = {} /\ I!InOrder(c.entries)
    BY <1>7, <2>1 DEF I!OnePlace
  <2>4. QED BY <1>7, <2>2, <2>3 DEF I!OnePlace
<1>10. QED BY <1>5, <1>6, <1>7, <1>8, <1>9

\* Cancelling.
LEMMA Cancelling == IntakeInv /\ I!Cancel => IntakeInv' /\ NothingReturns
<1> SUFFICES ASSUME IntakeInv, I!Cancel PROVE IntakeInv' /\ NothingReturns OBVIOUS
<1> USE DEF IntakeInv, Places
<1>1. /\ batches' = I!Marked(I!Pending, "cancelled") /\ waiting' = <<>>
      /\ UNCHANGED <<handled, paired, decided, collected, seen, runs, timer, worker>>
      /\ I!Pending \in SUBSET batches /\ "cancelled" \in I!BatchStatuses
  BY DEF I!Cancel, I!poll, I!items, I!Pending, I!BatchStatuses
<1>2. /\ Named' /\ I!OnePlace'
      /\ batches' \subseteq [id : seen', status : I!BatchStatuses, entries : Seq(seen')]
      /\ waiting' \in Seq(seen')
      /\ \A c \in batches' : \E b \in batches :
           /\ c.id = b.id /\ c.entries = b.entries
           /\ \/ b \notin I!Pending /\ c = b
              \/ b \in I!Pending /\ c.status = "cancelled"
  BY <1>1, MarkedBatches
<1>3. IntakeTypes' BY <1>1, <1>2 DEF IntakeTypes
<1>4. AtWork'
  <2>1. \A c \in batches' : c.id = worker'.id /\ worker'.pc \in {"batch", "normalized"} =>
          c.status # "failed" /\ Normalizing(c)'
    <3>1. \A b \in batches : b.id = worker.id /\ worker.pc \in {"batch", "normalized"} =>
            b.status # "failed" /\ Normalizing(b)
      BY DEF AtWork
    <3>2. \A b, c : b.entries = c.entries /\ Normalizing(b) => Normalizing(c)'
      BY <1>1 DEF Normalizing
    <3>3. QED BY <1>1, <1>2, <3>1, <3>2
  <2>2. QED BY <1>1, <2>1 DEF AtWork
<1>5. I!RunsAreWhole' BY <1>1 DEF I!RunsAreWhole
<1>6. NothingReturns
  <2>1. \A c \in I!Pending' \cup I!Failed' \cup runs' :
          \E b \in I!Pending \cup I!Failed \cup runs : c.entries = b.entries
    BY <1>1, <1>2 DEF I!Pending, I!Failed
  <2>2. I!Tracked' \subseteq I!Tracked BY <1>1, <2>1, NothingListed DEF I!Tracked
  <2>3. QED BY <2>2 DEF NothingReturns
<1>7. QED BY <1>2, <1>3, <1>4, <1>5, <1>6

\* Retrying: no batch at work has failed.
LEMMA Retrying == IntakeInv /\ I!RetryLatest => IntakeInv' /\ NothingReturns
<1> SUFFICES ASSUME IntakeInv, I!RetryLatest PROVE IntakeInv' /\ NothingReturns OBVIOUS
<1> USE DEF IntakeInv, Places
<1> DEFINE failed == I!Latest(I!Failed)
<1>1. /\ batches' = I!Marked(failed, "pending") /\ timer' = TRUE
      /\ UNCHANGED <<handled, paired, decided, collected, seen, waiting, runs, worker>>
      /\ failed \in SUBSET batches /\ (\A b \in failed : b.status = "failed")
      /\ "pending" \in I!BatchStatuses
  BY DEF I!RetryLatest, I!poll, I!items, I!Failed, I!Latest, I!BatchStatuses
<1> HIDE DEF failed
<1>2. /\ Named' /\ I!OnePlace'
      /\ batches' \subseteq [id : seen', status : I!BatchStatuses, entries : Seq(seen')]
      /\ waiting' \in Seq(seen')
      /\ \A c \in batches' : \E b \in batches :
           /\ c.id = b.id /\ c.entries = b.entries
           /\ \/ b \notin failed /\ c = b
              \/ b \in failed /\ c.status = "pending"
  BY <1>1, MarkedBatches
<1>3. IntakeTypes' BY <1>1, <1>2 DEF IntakeTypes
<1>4. AtWork'
  <2>1. \A c \in batches' : c.id = worker'.id /\ worker'.pc \in {"batch", "normalized"} =>
          c.status # "failed" /\ Normalizing(c)'
    <3>1. \A b \in batches : b.id = worker.id /\ worker.pc \in {"batch", "normalized"} =>
            b.status # "failed" /\ Normalizing(b)
      BY DEF AtWork
    <3>2. \A b, c : b.entries = c.entries /\ Normalizing(b) => Normalizing(c)'
      BY <1>1 DEF Normalizing
    <3>3. QED BY <1>1, <1>2, <3>1, <3>2
  <2>2. QED BY <1>1, <2>1 DEF AtWork
<1>5. I!RunsAreWhole' BY <1>1 DEF I!RunsAreWhole
<1>6. NothingReturns
  <2>1. \A c \in I!Pending' \cup I!Failed' \cup runs' :
          \E b \in I!Pending \cup I!Failed \cup runs : c.entries = b.entries
    BY <1>1, <1>2 DEF I!Pending, I!Failed
  <2>2. I!Tracked' \subseteq I!Tracked BY <1>1, <2>1 DEF I!Tracked
  <2>3. QED BY <2>2 DEF NothingReturns
<1>7. QED BY <1>2, <1>3, <1>4, <1>5, <1>6

\* The worker takes the oldest pending batch up.
LEMMA TakingUp == IntakeInv /\ I!DrainPending => IntakeInv' /\ NothingReturns
<1> SUFFICES ASSUME IntakeInv, I!DrainPending PROVE IntakeInv' /\ NothingReturns OBVIOUS
<1> USE DEF IntakeInv, Places
<1>1. PICK b \in batches :
        /\ b.status = "pending" /\ collected' = <<>> /\ timer' = FALSE
        /\ worker' = [pc |-> "batch", id |-> b.id, left |-> b.entries]
        /\ UNCHANGED <<handled, paired, decided, seen, waiting, batches, runs>>
  BY DEF I!DrainPending, I!Begin, I!Oldest, I!Pending, I!poll, I!state
<1>2. /\ b.entries \in Seq(seen) /\ b.id \in seen /\ I!Range(b.entries) \subseteq seen
      /\ I!InOrder(b.entries) /\ \A c \in batches : c.id = b.id => c = b
  BY OneOf
<1>3. seen \subseteq 1..N
  <2>1. handled \in 0..N /\ seen \subseteq 1..handled BY DEF IntakeTypes
  <2>2. 1..handled \subseteq 1..N BY <2>1, IntakeAssumption
  <2>3. QED BY <2>1, <2>2
<1>4. b.entries \in Seq(1..N) /\ b.id \in Nat
  <2>1. I!Range(b.entries) \subseteq 1..N BY <1>2, <1>3
  <2>2. b.entries \in Seq(1..N) BY <1>2, <2>1, Listed, Zenon
  <2>3. b.id \in 1..N BY <1>2, <1>3
  <2>4. b.id \in Nat BY <2>3
  <2>5. QED BY <2>2, <2>4, Zenon
<1>5. IntakeTypes'
  <2>1. collected' \in Seq(1..N) BY <1>1, NothingListed
  <2>2. worker' \in [pc : {"idle", "batch", "normalized", "ended"}, id : Nat, left : Seq(1..N)]
    BY <1>1, <1>4
  <2>3. QED BY <1>1, <2>1, <2>2 DEF IntakeTypes
<1>6. Named' /\ I!OnePlace' /\ I!RunsAreWhole' /\ NothingReturns
  BY <1>1 DEF Named, I!OnePlace, I!RunsAreWhole, NothingReturns, I!Tracked, I!Pending, I!Failed
<1>7. AtWork'
  <2>1. worker'.pc = "batch" /\ worker'.id = b.id /\ worker'.left = b.entries BY <1>1
  <2>2. Normalizing(b)' BY <1>1, <1>2, <2>1, NothingListed DEF Normalizing
  <2>3. QED BY <1>1, <1>2, <2>1, <2>2 DEF AtWork
<1>8. QED BY <1>5, <1>6, <1>7

\* Sealing: what is sealed was buffered, and what is left of the buffer comes after it.
LEMMA Sealing ==
  IntakeInv /\ I!DrainSeal =>
    /\ IntakeInv' /\ NothingReturns
    /\ waiting' # <<>> =>
         LET last == waiting[Len(waiting) - Len(waiting')] IN
         \/ Album[last] = 0 \/ Album[last] # Album[waiting'[1]]
         \/ Context[last] # Context[waiting'[1]]
<1> SUFFICES ASSUME IntakeInv, I!DrainSeal
    PROVE  /\ IntakeInv' /\ NothingReturns
           /\ waiting' # <<>> =>
                LET last == waiting[Len(waiting) - Len(waiting')] IN
                \/ Album[last] = 0 \/ Album[last] # Album[waiting'[1]]
                \/ Context[last] # Context[waiting'[1]]
  OBVIOUS
<1> USE DEF IntakeInv, Places
<1>1. /\ waiting # <<>> /\ waiting \in Seq(seen) /\ I!InOrder(waiting)
      /\ handled \in 0..N /\ seen \subseteq 1..handled
  BY DEF I!DrainSeal, IntakeTypes, I!OnePlace
<1>2. seen \in SUBSET Nat /\ seen \subseteq 1..N
  <2>1. 1..handled \subseteq 1..N /\ 1..handled \subseteq Nat BY <1>1, IntakeAssumption
  <2>2. QED BY <1>1, <2>1
<1>3. I!Range(waiting) \subseteq seen /\ waiting[1] \in I!Range(waiting) /\ waiting \in Seq(Nat)
  <2>1. I!Range(waiting) \subseteq seen /\ waiting[1] \in I!Range(waiting) BY <1>1, Listed
  <2>2. I!Range(waiting) \subseteq Nat BY <1>2, <2>1
  <2>3. waiting \in Seq(Nat) BY <1>1, <2>2, Listed, Zenon
  <2>4. QED BY <2>1, <2>3
<1>4. PICK n, front, rest : /\ n = I!Cut(waiting) /\ front = SubSeq(waiting, 1, n)
                            /\ rest = SubSeq(waiting, n + 1, Len(waiting))
  OBVIOUS
<1>5. /\ n \in 1..Len(waiting)
      /\ n < Len(waiting) =>
           \/ Album[waiting[n]] = 0 \/ Album[waiting[n]] # Album[waiting[n + 1]]
           \/ Context[waiting[n]] # Context[waiting[n + 1]]
  BY <1>1, <1>3, <1>4, CutFalls
<1>6. /\ front \in Seq(seen) /\ rest \in Seq(seen)
      /\ front # <<>> /\ front[1] = waiting[1] /\ I!InOrder(front) /\ I!InOrder(rest)
      /\ I!Range(front) \cup I!Range(rest) = I!Range(waiting)
      /\ I!Range(front) \cap I!Range(rest) = {}
      /\ Len(rest) = Len(waiting) - n /\ \A i \in 1..Len(waiting) - n : rest[i] = waiting[n + i]
  <2>1. Parts(waiting, n, front, rest) BY <1>4 DEF Parts
  <2>2. QED BY <1>1, <1>2, <1>5, <2>1, Split
<1>7. PICK b : b = I!Sealed OBVIOUS
<1>8. b = [id |-> waiting[1], status |-> "pending", entries |-> front] BY <1>4, <1>7 DEF I!Sealed
<1>9. /\ batches' = batches \cup {b} /\ waiting' = rest /\ collected' = <<>> /\ timer' = FALSE
      /\ worker' = [pc |-> "batch", id |-> b.id, left |-> b.entries]
      /\ UNCHANGED <<handled, paired, decided, seen, runs>> /\ I!Pending = {}
  BY <1>4, <1>7 DEF I!DrainSeal, I!Seal, I!Begin, I!poll
<1>10. /\ b.id \in seen /\ b.status = "pending" /\ b.entries = front /\ b.id = b.entries[1]
       /\ b \in [id : seen, status : I!BatchStatuses, entries : Seq(seen)]
  BY <1>3, <1>6, <1>8 DEF I!BatchStatuses
<1>11. front \in Seq(1..N) /\ b.id \in Nat
  <2>1. I!Range(front) \subseteq 1..N BY <1>2, <1>3, <1>6
  <2>2. front \in Seq(1..N) BY <1>6, <2>1, Listed, Zenon
  <2>3. QED BY <1>2, <1>10, <2>2
<1>12. IntakeTypes'
  <2>1. collected' \in Seq(1..N) BY <1>9, NothingListed
  <2>2. worker' \in [pc : {"idle", "batch", "normalized", "ended"}, id : Nat, left : Seq(1..N)]
    BY <1>9, <1>10, <1>11
  <2>3. QED BY <1>6, <1>9, <1>10, <2>1, <2>2 DEF IntakeTypes
<1>13. Named' BY <1>6, <1>9, <1>10 DEF Named
<1>14. \A a \in batches \cup runs :
         /\ I!Range(a.entries) \cap I!Range(front) = {} /\ I!Range(a.entries) \cap I!Range(rest) = {}
         /\ I!InOrder(a.entries) /\ a.id # b.id
  <2>1. \A a \in batches \cup runs :
          /\ I!Range(a.entries) \cap I!Range(waiting) = {} /\ a.id \in I!Range(a.entries)
          /\ I!InOrder(a.entries)
    BY OneOf
  <2>2. b.id \in I!Range(waiting) BY <1>3, <1>8
  <2>3. QED BY <1>6, <2>1, <2>2
<1>15. I!OnePlace'
  <2>1. batches' \cup runs' = batches \cup runs \cup {b} BY <1>9
  <2>2. \A a, c \in batches \cup runs \cup {b} :
          a # c => I!Range(a.entries) \cap I!Range(c.entries) = {}
    BY <1>10, <1>14 DEF I!OnePlace
  <2>3. \A a \in batches \cup runs \cup {b} :
          I!Range(a.entries) \cap I!Range(waiting') = {} /\ I!InOrder(a.entries)
    BY <1>6, <1>9, <1>10, <1>14
  <2>4. I!InOrder(waiting') BY <1>6, <1>9
  <2>5. QED BY <2>1, <2>2, <2>3, <2>4 DEF I!OnePlace
<1>16. AtWork'
  <2>1. worker'.pc = "batch" /\ worker'.id = b.id /\ worker'.left = b.entries BY <1>9
  <2>2. Normalizing(b)' BY <1>6, <1>9, <1>10, <2>1, NothingListed DEF Normalizing
  <2>3. \A c \in batches' : c.id = b.id => c = b BY <1>9, <1>14
  <2>4. QED BY <1>10, <2>1, <2>2, <2>3 DEF AtWork
<1>17. I!RunsAreWhole' BY <1>9 DEF I!RunsAreWhole
<1>18. NothingReturns
  <2>1. I!Pending' \cup I!Failed' \subseteq I!Failed \cup {b} BY <1>9 DEF I!Pending, I!Failed
  <2>2. I!Range(b.entries) \subseteq I!Range(waiting) /\ I!Range(waiting') \subseteq I!Range(waiting)
    BY <1>6, <1>9, <1>10
  <2>3. I!Tracked' \subseteq I!Tracked BY <1>9, <2>1, <2>2 DEF I!Tracked
  <2>4. QED BY <2>3 DEF NothingReturns
<1>19. ASSUME waiting' # <<>>
       PROVE  /\ waiting[Len(waiting) - Len(waiting')] = waiting[n]
              /\ waiting'[1] = waiting[n + 1] /\ n < Len(waiting)
  <2>1. Len(rest) \in Nat /\ Len(rest) # 0 BY <1>6, <1>9, <1>19
  <2>2. Len(waiting) \in Nat /\ n < Len(waiting) /\ 1 \in 1..Len(waiting) - n
    BY <1>1, <1>5, <1>6, <2>1
  <2>3. Len(waiting) - Len(waiting') = n BY <1>5, <1>6, <1>9, <2>2
  <2>4. QED BY <1>6, <1>9, <2>2, <2>3
<1>20. QED
  <2>1. ASSUME waiting' # <<>>
        PROVE  LET last == waiting[Len(waiting) - Len(waiting')] IN
               \/ Album[last] = 0 \/ Album[last] # Album[waiting'[1]]
               \/ Context[last] # Context[waiting'[1]]
    BY <1>5, <1>19, <2>1
  <2>2. QED BY <1>12, <1>13, <1>15, <1>16, <1>17, <1>18, <2>1

\* The update that is replayed: one pending batch has it, and no run.
LEMMA Replaying ==
  ASSUME IntakeInv, NEW u \in I!Updates, I!Replays(u)
  PROVE  /\ u \in 1..N /\ UNCHANGED <<handled, paired, runs>> /\ timer' = timer
         /\ worker.pc = "batch" /\ Tail(worker.left) \in Seq(1..N)
         /\ I!Range(worker.left) = {u} \cup I!Range(Tail(worker.left))
         /\ I!InOrder(Tail(worker.left)) /\ \A v \in I!Range(Tail(worker.left)) : u < v
         /\ \A r \in runs : u \notin I!Range(r.entries)
         /\ \E b \in batches :
              /\ b.id = worker.id /\ b.status = "pending" /\ u \in I!Range(b.entries)
              /\ Normalizing(b) /\ \A c \in batches : c.id = worker.id => c = b
<1> USE DEF IntakeInv, Places
<1>1. /\ u \in 1..N /\ UNCHANGED <<handled, paired, runs, timer>> /\ worker.pc = "batch"
      /\ worker.left # <<>> /\ u = Head(worker.left)
  BY DEF I!Replays, I!poll, I!Updates
<1>2. PICK b \in batches : b.id = worker.id /\ b.status = "pending"
  BY DEF I!Replays, I!IsPending, I!Pending
<1>3. Normalizing(b) /\ \A c \in batches : c.id = worker.id => c = b
  BY <1>1, <1>2, OneOf DEF AtWork
<1>4. worker.left \in Seq(1..N) /\ worker.left \in Seq(Nat)
  <2>1. worker.left \in Seq(1..N) BY DEF IntakeTypes
  <2>2. I!Range(worker.left) \subseteq Nat BY <2>1, Listed, IntakeAssumption
  <2>3. QED BY <2>1, <2>2, Listed, Zenon
<1>5. /\ I!Range(worker.left) = {u} \cup I!Range(Tail(worker.left))
      /\ I!InOrder(Tail(worker.left)) /\ \A v \in I!Range(Tail(worker.left)) : u < v
  BY <1>1, <1>3, <1>4, Taken DEF Normalizing
<1>6. Tail(worker.left) \in Seq(1..N)
  <2>1. I!Range(worker.left) \subseteq 1..N BY <1>4, Listed, Zenon
  <2>2. I!Range(Tail(worker.left)) \subseteq 1..N BY <1>5, <2>1
  <2>3. Tail(worker.left) \in Seq(Nat) BY <1>1, <1>4, Taken
  <2>4. QED BY <2>2, <2>3, Listed, Zenon
<1>7. u \in I!Range(b.entries) BY <1>3, <1>5 DEF Normalizing
<1>8. \A r \in runs : u \notin I!Range(r.entries) BY <1>7, OneOf, BatchIsNoRun
<1>9. QED BY <1>1, <1>2, <1>3, <1>5, <1>6, <1>7, <1>8

\* What replaying leaves alone.
LEMMA Onwards ==
  ASSUME IntakeInv, NEW u \in I!Updates, I!Replays(u), I!Onward,
         collected' = collected \/ collected' = Append(collected, u),
         decided' = decided \/ decided' = decided \cup {u},
         u \in decided' => u \in decided \/ collected' = Append(collected, u),
         paired => \/ collected' = Append(collected, u)
                   \/ collected' = collected /\ Kind[u] = "decision" /\ u \notin decided'
  PROVE  IntakeInv' /\ NothingReturns
<1> USE DEF IntakeInv, Places
<1>1. PICK b \in batches :
        /\ b.id = worker.id /\ b.status = "pending" /\ u \in I!Range(b.entries)
        /\ Normalizing(b) /\ \A c \in batches : c.id = worker.id => c = b
  BY Replaying
<1>2. PICK left : left = Tail(worker.left) OBVIOUS
<1>3. /\ u \in 1..N /\ UNCHANGED <<handled, paired, runs, timer, seen, waiting, batches>>
      /\ worker.pc = "batch" /\ left \in Seq(1..N)
      /\ I!Range(worker.left) = {u} \cup I!Range(left)
      /\ I!InOrder(left) /\ \A v \in I!Range(left) : u < v
      /\ \A r \in runs : u \notin I!Range(r.entries)
  BY <1>2, Replaying DEF I!Onward, I!state
<1>4. worker' = [worker EXCEPT !.left = left] BY <1>2 DEF I!Onward
<1>5. /\ worker' \in [pc : {"idle", "batch", "normalized", "ended"}, id : Nat, left : Seq(1..N)]
      /\ worker'.pc = "batch" /\ worker'.id = worker.id /\ worker'.left = left
  BY <1>3, <1>4 DEF IntakeTypes
<1>6. /\ collected' \in Seq(1..N) /\ I!InOrder(collected')
      /\ I!Range(collected') \subseteq I!Range(collected) \cup {u}
      /\ I!Range(collected) \subseteq I!Range(collected')
      /\ collected' = Append(collected, u) => u \in I!Range(collected')
  <2>1. collected \in Seq(1..N) BY DEF IntakeTypes
  <2>2. CASE collected' = collected
    <3>1. collected = Append(collected, u) => u \in I!Range(collected)
      <4>1. collected # Append(collected, u) BY <2>1, <1>3
      <4>2. QED BY <4>1
    <3>2. QED BY <1>1, <2>1, <2>2, <3>1 DEF Normalizing
  <2>3. CASE collected' = Append(collected, u)
    <3>1. I!Range(collected) \subseteq 1..N BY <2>1, Listed
    <3>2. I!Range(collected) \subseteq Nat BY <3>1, IntakeAssumption
    <3>3. collected \in Seq(Nat) BY <2>1, <3>2, Listed, Zenon
    <3>4. \A v \in I!Range(collected) : v < u BY <1>1, <1>3 DEF Normalizing
    <3>5. u \in Nat BY <1>3, IntakeAssumption
    <3>6. /\ I!Range(collected') = I!Range(collected) \cup {u} /\ I!InOrder(collected')
      BY <1>1, <2>3, <3>3, <3>4, <3>5, Appended DEF Normalizing
    <3>7. collected' \in Seq(1..N) BY <1>3, <2>1, <2>3
    <3>8. QED BY <3>6, <3>7
  <2>4. QED BY <2>2, <2>3
<1>7. IntakeTypes' BY <1>3, <1>5, <1>6 DEF IntakeTypes
<1>8. Named' /\ I!OnePlace' /\ NothingReturns
  BY <1>3 DEF Named, I!OnePlace, NothingReturns, I!Tracked, I!Pending, I!Failed
<1>9. Normalizing(b)'
  <2>1. I!Range(left) \subseteq I!Range(b.entries) BY <1>1, <1>3 DEF Normalizing
  <2>2. I!Range(collected') \subseteq I!Range(b.entries) BY <1>1, <1>6 DEF Normalizing
  <2>3. \A w \in I!Range(collected'), v \in I!Range(left) : w < v
    BY <1>1, <1>3, <1>6 DEF Normalizing
  <2>4. ASSUME paired, NEW v \in I!Range(b.entries)
        PROVE  \/ v \in I!Range(left) \cup I!Range(collected')
               \/ Kind[v] = "decision" /\ v \notin decided'
    <3>1. CASE v = u BY <1>6, <2>4, <3>1
    <3>2. CASE v # u
      <4>1. \/ v \in I!Range(worker.left) \cup I!Range(collected)
            \/ Kind[v] = "decision" /\ v \notin decided
        BY <1>1, <2>4 DEF Normalizing
      <4>2. QED BY <1>3, <1>6, <3>2, <4>1
    <3>3. QED BY <3>1, <3>2
  <2>5. QED BY <1>3, <1>5, <1>6, <2>1, <2>2, <2>3, <2>4 DEF Normalizing
<1>10. AtWork' BY <1>1, <1>3, <1>5, <1>9 DEF AtWork
<1>11. I!RunsAreWhole' BY <1>3 DEF I!RunsAreWhole
<1>12. QED BY <1>7, <1>8, <1>10, <1>11

\* Replaying one update.
LEMMA ReplayingOne ==
  ASSUME IntakeInv, NEW u \in I!Updates,
         I!Disowned(u) \/ I!Message(u) \/ I!Decision(u) \/ I!Refused(u)
  PROVE  IntakeInv' /\ NothingReturns
<1>1. CASE I!Disowned(u) BY <1>1, Onwards DEF I!Disowned, I!items
<1>2. CASE I!Message(u) BY <1>2, Onwards DEF I!Message, I!Collect
<1>3. CASE I!Decision(u) BY <1>3, Onwards DEF I!Decision, I!Collect
<1>4. CASE I!Refused(u) BY <1>4, Onwards DEF I!Refused, I!items
<1>5. QED BY <1>1, <1>2, <1>3, <1>4

\* Quarantine.
LEMMA Quarantining ==
  ASSUME IntakeInv, NEW u \in I!Updates, I!Quarantine(u)
  PROVE  IntakeInv' /\ NothingReturns
<1> USE DEF IntakeInv, Places
<1> DEFINE its == {b \in I!Pending : b.id = worker.id}
<1>1. /\ batches' = I!Marked(its, "failed") /\ UNCHANGED <<seen, waiting, collected>>
      /\ its \in SUBSET batches /\ "failed" \in I!BatchStatuses /\ its \subseteq I!Pending
  BY DEF I!Quarantine, I!Finish, I!Pending, I!BatchStatuses
<1> HIDE DEF its
<1>2. /\ u \in 1..N /\ UNCHANGED <<handled, paired, runs>> /\ timer' = timer
      /\ \A r \in runs : u \notin I!Range(r.entries)
  BY Replaying DEF I!Quarantine
<1>3. decided' = decided \/ decided' = decided \cup {u} BY DEF I!Quarantine
<1>4. /\ Named' /\ I!OnePlace'
      /\ batches' \subseteq [id : seen', status : I!BatchStatuses, entries : Seq(seen')]
      /\ waiting' \in Seq(seen')
      /\ \A c \in batches' : \E b \in batches :
           /\ c.id = b.id /\ c.entries = b.entries
           /\ \/ b \notin its /\ c = b
              \/ b \in its /\ c.status = "failed"
  BY <1>1, <1>2, MarkedBatches
<1>5. /\ worker' \in [pc : {"idle", "batch", "normalized", "ended"}, id : Nat, left : Seq(1..N)]
      /\ worker'.pc = "ended"
  <2>1. I!Ended = [pc |-> "ended", id |-> 0, left |-> <<>>] BY DEF I!Ended, I!Idle
  <2>2. <<>> \in Seq(1..N) OBVIOUS
  <2>3. QED BY <2>1, <2>2 DEF I!Quarantine
<1>6. IntakeTypes' BY <1>1, <1>2, <1>3, <1>4, <1>5 DEF IntakeTypes
<1>7. AtWork' BY <1>5 DEF AtWork
<1>8. I!RunsAreWhole' BY <1>2, <1>3 DEF I!RunsAreWhole
<1>9. NothingReturns
  <2>1. \A c \in I!Pending' \cup I!Failed' \cup runs' :
          \E b \in I!Pending \cup I!Failed \cup runs : c.entries = b.entries
    BY <1>1, <1>2, <1>4 DEF I!Pending, I!Failed
  <2>2. I!Tracked' \subseteq I!Tracked BY <1>1, <2>1 DEF I!Tracked
  <2>3. QED BY <2>2 DEF NothingReturns
<1>10. QED BY <1>4, <1>6, <1>7, <1>8, <1>9

\* The batch becomes a run.
LEMMA Committing == IntakeInv /\ I!Commit => IntakeInv' /\ NothingReturns
<1> SUFFICES ASSUME IntakeInv, I!Commit PROVE IntakeInv' /\ NothingReturns OBVIOUS
<1> USE DEF IntakeInv, Places
<1>1. UNCHANGED <<handled, paired, decided, collected, timer, seen, waiting>>
  BY DEF I!Commit, I!Finish, I!poll, I!items, I!state
<1>2. /\ worker' \in [pc : {"idle", "batch", "normalized", "ended"}, id : Nat, left : Seq(1..N)]
      /\ worker'.pc = "ended"
  <2>1. I!Ended = [pc |-> "ended", id |-> 0, left |-> <<>>] BY DEF I!Ended, I!Idle
  <2>2. <<>> \in Seq(1..N) OBVIOUS
  <2>3. QED BY <2>1, <2>2 DEF I!Commit
<1>3. AtWork' BY <1>2 DEF AtWork
<1>4. CASE ~I!IsPending(worker.id)
  <2>1. UNCHANGED <<batches, runs>> BY <1>4 DEF I!Commit, I!state
  <2>2. IntakeTypes' BY <1>1, <1>2, <2>1 DEF IntakeTypes
  <2>3. QED BY <1>1, <1>3, <2>1, <2>2
        DEF Named, I!OnePlace, I!RunsAreWhole, NothingReturns, I!Tracked, I!Pending, I!Failed
<1>5. CASE I!IsPending(worker.id)
  <2>1. PICK b \in I!Pending :
          /\ b.id = worker.id
          /\ runs' = IF collected = <<>> \/ ~paired THEN runs ELSE runs \cup {I!Run(b)}
    BY <1>5 DEF I!Commit
  <2>2. /\ b \in batches /\ b.status = "pending" /\ Normalizing(b) /\ worker.left = <<>>
        /\ \A c \in batches \cup runs : c.id = b.id => c = b
    BY <2>1, OneOf DEF I!Commit, I!Pending, AtWork
  <2>3. batches' = batches \ {b}
    <3>1. batches' = batches \ {c \in I!Pending : c.id = worker.id} BY <1>5 DEF I!Commit, I!Finish
    <3>2. {c \in I!Pending : c.id = worker.id} = {b} BY <2>1, <2>2 DEF I!Pending
    <3>3. QED BY <3>1, <3>2
  <2>4. CASE runs' = runs
    <3>1. IntakeTypes' BY <1>1, <1>2, <2>3, <2>4 DEF IntakeTypes
    <3>2. batches' \cup runs' \subseteq batches \cup runs BY <2>3, <2>4
    <3>3. Named' /\ I!OnePlace' BY <1>1, <3>2 DEF Named, I!OnePlace
    <3>4. I!RunsAreWhole' BY <1>1, <2>4 DEF I!RunsAreWhole
    <3>5. I!Tracked' \subseteq I!Tracked
      BY <1>1, <2>3, <2>4 DEF I!Tracked, I!Pending, I!Failed
    <3>6. QED BY <1>3, <3>1, <3>3, <3>4, <3>5 DEF NothingReturns
  <2>5. CASE paired /\ runs' = runs \cup {I!Run(b)}
    <3>1. PICK r : r = I!Run(b) OBVIOUS
    <3>2. r = [id |-> b.id, entries |-> b.entries, items |-> collected] BY <3>1 DEF I!Run
    <3>3. /\ b.id \in seen /\ b.entries \in Seq(seen) /\ I!InOrder(b.entries)
          /\ I!Range(b.entries) \subseteq seen /\ I!Range(b.entries) \cap I!Range(waiting) = {}
      BY <2>2, OneOf
    <3>4. collected \in Seq(seen)
      <4>1. I!Range(collected) \subseteq seen BY <2>2, <3>3 DEF Normalizing
      <4>2. collected \in Seq(1..N) BY DEF IntakeTypes
      <4>3. QED BY <4>1, <4>2, Listed, Zenon
    <3>5. /\ r \in [id : seen, entries : Seq(seen), items : Seq(seen)]
          /\ r.id = b.id /\ r.entries = b.entries /\ r.items = collected
      BY <3>2, <3>3, <3>4
    <3>6. runs' = runs \cup {r} BY <2>5, <3>1
    <3>7. IntakeTypes' BY <1>1, <1>2, <2>3, <3>5, <3>6 DEF IntakeTypes
    <3>8. Named' BY <2>2, <2>3, <3>5, <3>6 DEF Named
    <3>9. I!OnePlace'
      <4>1. batches' \cup runs' \subseteq ((batches \cup runs) \ {b}) \cup {r}
        BY <2>2, <2>3, <3>6, BatchIsNoRun
      <4>2. \A a, c \in (batches \cup runs) \ {b} : a # c => I!Range(a.entries) \cap I!Range(c.entries) = {}
        BY DEF I!OnePlace
      <4>3. \A a \in (batches \cup runs) \ {b} :
              I!Range(a.entries) \cap I!Range(waiting') = {} /\ I!InOrder(a.entries)
        BY <1>1 DEF I!OnePlace
      <4>4. \A a \in (batches \cup runs) \ {b} : I!Range(a.entries) \cap I!Range(r.entries) = {}
        BY <2>2, <3>5 DEF I!OnePlace
      <4>5. I!InOrder(r.entries) /\ I!Range(r.entries) \cap I!Range(waiting') = {} /\ I!InOrder(waiting')
        BY <1>1, <3>3, <3>5 DEF I!OnePlace
      <4>6. QED BY <4>1, <4>2, <4>3, <4>4, <4>5 DEF I!OnePlace
    <3>10. I!RunsAreWhole'
      <4>1. \A v \in I!Range(b.entries) : Kind[v] # "decision" \/ v \in decided => v \in I!Range(collected)
        BY <2>2, <2>5, NothingListed DEF Normalizing
      <4>2. I!InOrder(collected) /\ I!Range(collected) \subseteq I!Range(b.entries)
        BY <2>2 DEF Normalizing
      <4>3. QED BY <1>1, <3>5, <3>6, <4>1, <4>2 DEF I!RunsAreWhole
    <3>11. NothingReturns
      <4>1. \A c \in I!Pending' \cup I!Failed' \cup runs' :
              \E d \in I!Pending \cup I!Failed \cup runs : c.entries = d.entries
        BY <2>1, <2>3, <3>5, <3>6 DEF I!Pending, I!Failed
      <4>2. I!Tracked' \subseteq I!Tracked BY <1>1, <4>1 DEF I!Tracked
      <4>3. QED BY <4>2 DEF NothingReturns
    <3>12. QED BY <1>3, <3>7, <3>8, <3>9, <3>10, <3>11
  <2>6. QED BY <2>1, <2>4, <2>5
<1>6. QED BY <1>4, <1>5

\* A restart forgets everything.
LEMMA Forgetting == IntakeInv /\ I!Restart => IntakeInv' /\ NothingReturns
<1> SUFFICES ASSUME IntakeInv, I!Restart PROVE IntakeInv' /\ NothingReturns OBVIOUS
<1> USE DEF IntakeInv, Places
<1>1. /\ seen' = {} /\ waiting' = <<>> /\ batches' = {} /\ runs' = {} /\ timer' = FALSE
      /\ worker' = I!Idle /\ decided' = {} /\ collected' = <<>> /\ paired' = paired
      /\ handled' \in 0..N
  BY IntakeAssumption DEF I!Restart, IntakeTypes
<1>2. IntakeTypes'
  <2>1. <<>> \in Seq(seen') /\ <<>> \in Seq(1..N) OBVIOUS
  <2>2. I!Idle \in [pc : {"idle", "batch", "normalized", "ended"}, id : Nat, left : Seq(1..N)]
    BY <2>1 DEF I!Idle
  <2>3. paired' \in BOOLEAN BY <1>1, Zenon DEF IntakeTypes
  <2>4. QED BY <1>1, <2>1, <2>2, <2>3 DEF IntakeTypes
<1>3. Named' /\ I!OnePlace' /\ AtWork' /\ I!RunsAreWhole' /\ NothingReturns
  <2>1. worker'.pc = "idle" BY <1>1 DEF I!Idle
  <2>2. QED BY <1>1, <2>1, NothingListed
        DEF Named, I!OnePlace, AtWork, I!RunsAreWhole, NothingReturns
<1>4. QED BY <1>2, <1>3

\* A step of the intake.
LEMMA IntakeStep == IntakeInv /\ [I!Next]_I!vars => IntakeInv' /\ NothingReturns
<1> SUFFICES ASSUME IntakeInv, [I!Next]_I!vars PROVE IntakeInv' /\ NothingReturns OBVIOUS
<1>1. CASE UNCHANGED I!vars
  <2>1. UNCHANGED <<handled, paired, decided, collected, seen, waiting, batches, runs, timer, worker>>
    BY <1>1 DEF I!vars, I!poll, I!items, I!state
  <2>2. QED BY <2>1 DEF IntakeInv, Places, IntakeTypes, Named, I!OnePlace, AtWork, Normalizing,
                        I!RunsAreWhole, NothingReturns, I!Tracked, I!Pending, I!Failed
<1>2. CASE I!Next
  <2>1. CASE \/ I!OwnerLeaves \/ I!TimerBusy \/ I!DrainNothing \/ I!DrainEnd
             \/ I!CancelledMeanwhile \/ I!Normalized \/ \E u \in I!Updates : I!Ignore(u)
    BY <2>1, StandingStill
  <2>2. ASSUME NEW u \in I!Updates, I!Accept(u) PROVE IntakeInv' /\ NothingReturns
    BY <2>2, Accepting
  <2>3. CASE I!Cancel BY <2>3, Cancelling
  <2>4. CASE I!RetryLatest BY <2>4, Retrying
  <2>5. CASE I!DrainPending BY <2>5, TakingUp
  <2>6. CASE I!DrainSeal BY <2>6, Sealing
  <2>7. ASSUME NEW u \in I!Updates, I!Disowned(u) \/ I!Message(u) \/ I!Decision(u) \/ I!Refused(u)
        PROVE  IntakeInv' /\ NothingReturns
    BY <2>7, ReplayingOne
  <2>8. ASSUME NEW u \in I!Updates, I!Quarantine(u) PROVE IntakeInv' /\ NothingReturns
    BY <2>8, Quarantining
  <2>9. CASE I!Commit BY <2>9, Committing
  <2>10. CASE I!Restart BY <2>10, Forgetting
  <2>11. QED BY <1>2, <2>1, <2>2, <2>3, <2>4, <2>5, <2>6, <2>7, <2>8, <2>9, <2>10
         DEF I!Next, I!Drain, I!Normalize
<1>3. QED BY <1>1, <1>2

\* What the invariant says of the properties.
LEMMA IntakeSound == IntakeInv => OnePlace
<1> SUFFICES ASSUME IntakeInv PROVE OnePlace OBVIOUS
<1>1. IntakeTypes BY DEF IntakeInv, Places
<1>2. seen \subseteq 1..N
  <2>1. handled \in 0..N /\ seen \subseteq 1..handled BY <1>1 DEF IntakeTypes
  <2>2. 1..handled \subseteq 1..N BY <2>1, IntakeAssumption
  <2>3. QED BY <2>1, <2>2
<1>3. I!TypeOK BY <1>1, <1>2 DEF IntakeTypes, I!TypeOK, I!Updates
<1>4. QED BY <1>3 DEF IntakeInv, Places, OnePlace

\* The intake's part of a behaviour is a behaviour of Inbox.
LEMMA IntakePart == TurnsSpec => I!Spec
<1>1. TurnsInit => I!Init BY DEF TurnsInit
<1>2. [TurnsNext]_<<part, vars, intake>> => [I!Next]_I!vars
  <2> SUFFICES ASSUME [TurnsNext]_<<part, vars, intake>> PROVE [I!Next]_I!vars OBVIOUS
  <2>1. CASE UNCHANGED intake
    BY <2>1 DEF intake, I!vars, I!poll, I!items, I!state
  <2>2. CASE I!Next BY <2>2
  <2>3. QED BY <2>1, <2>2 DEF TurnsNext
<1>3. QED BY <1>1, <1>2, PTL DEF TurnsSpec, I!Spec

LEMMA IntakeInvariant == TurnsSpec => []IntakeInv
<1>1. I!Init => IntakeInv BY IntakeInit
<1>2. IntakeInv /\ [I!Next]_I!vars => IntakeInv' BY IntakeStep
<1>3. I!Spec => []IntakeInv BY <1>1, <1>2, PTL DEF I!Spec
<1>4. QED BY <1>3, IntakePart, PTL

\* An update is in one place and in its order, and a run is whole: drainInbox, inbox.ts
\* and the middleware, for any updates, albums, cap and number of retries.
THEOREM UpdatesHaveOnePlace == TurnsSpec => []OnePlace
<1>1. QED BY IntakeInvariant, IntakeSound, PTL

\* What /cancel dropped never comes back while the relay runs, and sealing never parts an
\* album (cancel, finish, next and seal in inbox.ts).
THEOREM IntakeStaysFaithful == TurnsSpec => IntakeIsFaithful
<1>1. IntakeInv /\ [I!Next]_I!vars =>
        [seen \subseteq seen' => \A u \in seen \ I!Tracked : u \notin I!Tracked']_I!vars
  BY IntakeStep DEF NothingReturns
<1>2. IntakeInv /\ [I!Next]_I!vars =>
        [I!DrainSeal /\ waiting' # <<>> =>
           LET last == waiting[Len(waiting) - Len(waiting')] IN
           \/ Album[last] = 0 \/ Album[last] # Album[waiting'[1]]
           \/ Context[last] # Context[waiting'[1]]]_I!vars
  BY Sealing
<1>3. TurnsSpec => I!DroppedStaysDropped
  BY <1>1, IntakePart, IntakeInvariant, PTL DEF I!Spec, I!DroppedStaysDropped
<1>4. TurnsSpec => I!AlbumsStayTogether
  BY <1>2, IntakePart, IntakeInvariant, PTL DEF I!Spec, I!AlbumsStayTogether
<1>5. QED BY <1>3, <1>4 DEF IntakeIsFaithful
=============================================================================
