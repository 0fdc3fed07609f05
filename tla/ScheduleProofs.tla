---------------------------- MODULE ScheduleProofs ----------------------------
(***************************************************************************)
(* Theorems about a schedule's files, as MCDispatch composes them, for any *)
(* number of slots, revisions, CLI processes, keys of manual triggers and  *)
(* restarts of the relay.                                                  *)
(*                                                                         *)
(* The tick and the trigger read the schedule before they take the lock,   *)
(* and a skipped slot is written without it, so a cursor can be written    *)
(* for a revision that is no longer saved.  SInv says why that does no     *)
(* harm: every cursor, whether it is in a file or in the hands of the      *)
(* tick, the trigger or an edit, is ahead of the slots that the revisions  *)
(* before its own have queued (CursorsAhead, TickBehind, TriggerBehind,    *)
(* EditStands), and what the holder of the lock read is what is saved.     *)
(***************************************************************************)
EXTENDS MCDispatch, TLAPS

\* The slots queued for the revisions before v are behind the slot c.
After(v, c) == \A u \in S!Revs, t \in S!Slots :
                 u < v /\ runs[<<u, t>>].status # "none" => t < c

\* Who is where only the holder of the task's lock is, holds it.
Holders ==
  /\ tick.pc \in {"locked", "created"} => holder = "tick"
  /\ trig.pc = "locked" => holder = "trigger"
  /\ \A e \in Editors :
       edit[e].pc \in {"checked", "rejected", "published", "enable"} => holder = e

\* The definition a CLI process read is still the one saved.
ReadsCurrent(e) == def # None /\ edit[e].rev = def.rev

\* What a CLI process carries under the lock: the definition saved, the occurrences
\* in flight and, once it is published, the new revision's cursor, ahead of every
\* slot queued.
EditStands(e) ==
  /\ edit[e].pc \in {"based", "checked", "published"} => edit[e].rev < MaxRev
  /\ edit[e].pc = "enable" => ReadsCurrent(e) /\ edit[e].cont = def.cont
  /\ edit[e].pc \in {"checked", "published"} =>
       ReadsCurrent(e) /\ edit[e].enabled = def.enabled /\ S!InFlight \subseteq edit[e].cont
  /\ edit[e].pc = "published" =>
       /\ cursor[def.rev + 1] # None
       /\ After(def.rev + 1, S!PendingOccurrence(def.rev + 1))

\* Only slots that fell due are queued, and for revisions that were saved.
Fallen ==
  \A u \in S!Revs, t \in S!Slots :
    runs[<<u, t>>].status # "none" => t <= now /\ (def # None => u <= def.rev)

\* The slots the tick carries between its awaits are ahead of what earlier revisions
\* queued, even when its revision was replaced meanwhile.
TickBehind ==
  tick.pc # "idle" =>
    /\ tick.next <= now
    /\ def # None =>
         tick.rev <= def.rev /\ After(tick.rev, tick.next) /\ After(tick.rev, tick.future)

\* So is the cursor a manual trigger's preflight read and will write back.
TriggerBehind ==
  trig.pc # "idle" =>
    /\ trig.key \in Keys
    /\ def # None =>
         /\ trig.rev <= def.rev
         /\ Gated /\ trig.pc \in {"checked", "locked"} => After(trig.rev, trig.previous)

\* Every revision's cursor is ahead of what the revisions before it queued: no slot
\* becomes an occurrence of two revisions.
CursorsAhead ==
  def # None => \A v \in S!Revs : v <= def.rev => After(v, S!PendingOccurrence(v))

\* The inductive invariant.
SInv ==
  /\ S!TypeOK
  /\ S!OneInFlight /\ S!OncePerSlot /\ S!InFlightIsCurrent /\ S!CursorIsPublished
  /\ Holders /\ (\A e \in Editors : EditStands(e))
  /\ Fallen /\ TickBehind /\ TriggerBehind /\ CursorsAhead

\* Slots and revisions are positive numbers, and a slot's run is not a key's.
LEMMA IdTypes ==
  /\ \A t \in S!Slots : t \in Nat /\ t >= 1
  /\ \A v \in S!Revs : v \in Nat /\ v >= 1
  /\ 1 \in S!Slots /\ 1 \in S!Revs
  /\ \A u \in S!Revs, t \in S!Slots : <<u, t>> \in S!Ids /\ <<u, t>> \notin Keys
BY ScheduleAssumption DEF S!Slots, S!Revs, S!Ids

\* The slots computed from a cursor or from the time are slots.
LEMMA SlotTypes ==
  ASSUME S!TypeOK
  PROVE  /\ S!NextOccurrence(now) \in S!Slots /\ now < S!NextOccurrence(now)
         /\ \A v \in S!Revs : S!PendingOccurrence(v) \in S!Slots
BY ScheduleAssumption DEF S!TypeOK, S!NextOccurrence, S!PendingOccurrence, S!Slots

\* The files of a task that was just created.
LEMMA InitInv == S!Init => SInv
<1> SUFFICES ASSUME S!Init PROVE SInv OBVIOUS
<1> USE DEF S!Init
<1>1. S!TypeOK
  BY ScheduleAssumption, IdTypes DEF S!TypeOK, S!NoRun, S!IdleTick, S!IdleTrig, S!IdleEdit,
    S!Statuses
<1>2. \A r \in S!Ids : runs[r].status = "none" BY DEF S!NoRun
<1>3. S!InFlight = {} BY <1>2 DEF S!InFlight, S!InFlightStatus
<1>4. S!OneInFlight /\ S!InFlightIsCurrent BY <1>3 DEF S!OneInFlight, S!InFlightIsCurrent
<1>5. S!OncePerSlot /\ Fallen BY <1>2, IdTypes DEF S!OncePerSlot, Fallen
<1>6. S!CursorIsPublished BY DEF S!CursorIsPublished
<1>7. Holders /\ \A e \in Editors : EditStands(e)
  BY DEF Holders, EditStands, S!IdleTick, S!IdleTrig, S!IdleEdit
<1>8. TickBehind /\ TriggerBehind BY DEF TickBehind, TriggerBehind, S!IdleTick, S!IdleTrig
<1>9. CursorsAhead BY IdTypes DEF CursorsAhead, After
<1>10. QED BY <1>1, <1>4, <1>5, <1>6, <1>7, <1>8, <1>9 DEF SInv

\* Where a CLI process is.
EditPcs == {"idle", "based", "checked", "rejected", "published", "enable"}
EditStates ==
  [pc : EditPcs, rev : S!Revs, enabled : BOOLEAN, cont : SUBSET S!Ids, next : S!Slots]

\* A CLI process goes on to its next step.
LEMMA EditTyped ==
  ASSUME S!TypeOK, NEW e \in Editors, NEW l \in EditPcs, S!EditTo(e, l)
  PROVE  /\ edit' \in [Editors -> EditStates]
         /\ edit'[e].pc = l /\ edit'[e].rev = edit[e].rev
         /\ edit'[e].enabled = edit[e].enabled /\ edit'[e].cont = edit[e].cont
         /\ \A d \in Editors \ {e} : edit'[d] = edit[d]
<1>1. edit \in [Editors -> EditStates] BY DEF S!TypeOK, EditStates, EditPcs
<1>2. edit' = [edit EXCEPT ![e] = [edit[e] EXCEPT !.pc = l]] BY DEF S!EditTo
<1>3. [edit[e] EXCEPT !.pc = l] \in EditStates BY <1>1 DEF EditStates
<1>4. QED BY <1>1, <1>2, <1>3

\* A step that leaves the files and the ledger alone.
LEMMA SameFiles ==
  ASSUME SInv, UNCHANGED <<now, S!files, runs>>
  PROVE  /\ S!OneInFlight' /\ S!OncePerSlot' /\ S!InFlightIsCurrent' /\ S!CursorIsPublished'
         /\ Fallen' /\ CursorsAhead'
         /\ S!InFlight' = S!InFlight
BY DEF SInv, S!OneInFlight, S!OncePerSlot, S!InFlightIsCurrent, S!OccurrenceOf, S!InFlight,
  S!CursorIsPublished, Fallen, CursorsAhead, After, S!PendingOccurrence, S!files

\* The relay's tick: its snapshot of the schedule, and the lock.
LEMMA TickBeginInv == ASSUME SInv, S!TickBegin PROVE SInv'
<1> USE SameFiles DEF S!TickBegin, S!files, S!relayVars
<1>1. S!TypeOK'
  <2>1. def.rev \in S!Revs /\ S!PendingOccurrence(def.rev) \in S!Slots
        /\ S!NextOccurrence(now) \in S!Slots
    BY SlotTypes DEF SInv, S!TypeOK
  <2>2. QED BY <2>1 DEF SInv, S!TypeOK
<1>2. Holders' BY DEF SInv, Holders
<1>3. (\A e \in Editors : EditStands(e))'
  BY DEF SInv, EditStands, ReadsCurrent, After, S!PendingOccurrence
<1>4. TickBehind'
  <2>1. def.rev \in S!Revs /\ now \in 0..MaxTime BY DEF SInv, S!TypeOK
  <2>2. After(def.rev, S!PendingOccurrence(def.rev))
    <3>1. def.rev <= def.rev BY <2>1, IdTypes
    <3>2. QED BY <3>1, <2>1 DEF SInv, CursorsAhead
  <2>3. After(def.rev, S!NextOccurrence(now))
    BY <2>1, ScheduleAssumption, IdTypes DEF Fallen, After, S!NextOccurrence
  <2>4. tick'.rev = def.rev /\ tick'.next = S!PendingOccurrence(def.rev)
        /\ tick'.future = S!NextOccurrence(now) /\ def' = def /\ now' = now /\ runs' = runs
    OBVIOUS
  <2>5. def.rev <= def.rev BY <2>1, IdTypes
  <2>6. QED BY <2>2, <2>3, <2>5 DEF TickBehind, After
<1>5. TriggerBehind' BY DEF SInv, TriggerBehind, After
<1>6. QED BY <1>1, <1>2, <1>3, <1>4, <1>5 DEF SInv

LEMMA TickBusyInv == ASSUME SInv, S!TickBusy PROVE SInv'
<1> USE SameFiles DEF S!TickBusy, S!files, S!relayVars
<1>1. S!TypeOK' BY IdTypes DEF SInv, S!TypeOK, S!IdleTick
<1>2. Holders' BY DEF SInv, Holders, S!IdleTick
<1>3. (\A e \in Editors : EditStands(e))'
  BY DEF SInv, EditStands, ReadsCurrent, After, S!PendingOccurrence
<1>4. TickBehind' BY DEF TickBehind, S!IdleTick
<1>5. TriggerBehind' BY DEF SInv, TriggerBehind, After
<1>6. QED BY <1>1, <1>2, <1>3, <1>4, <1>5 DEF SInv

LEMMA TickLockInv == ASSUME SInv, S!TickLock PROVE SInv'
<1> USE SameFiles DEF S!TickLock, S!files, S!relayVars
<1>1. S!TypeOK' BY DEF SInv, S!TypeOK, S!Relay, S!Lock
<1>2. Holders' BY ScheduleAssumption DEF SInv, Holders, S!Relay, S!Lock
<1>3. (\A e \in Editors : EditStands(e))'
  BY DEF SInv, EditStands, ReadsCurrent, After, S!PendingOccurrence
<1>4. TickBehind' BY DEF SInv, TickBehind, After
<1>5. TriggerBehind' BY DEF SInv, TriggerBehind, After
<1>6. QED BY <1>1, <1>2, <1>3, <1>4, <1>5 DEF SInv

LEMMA TickAbandonInv == ASSUME SInv, S!TickAbandon PROVE SInv'
<1> USE SameFiles DEF S!TickAbandon, S!files, S!relayVars
<1>1. S!TypeOK' BY IdTypes DEF SInv, S!TypeOK, S!Unlock, S!IdleTick
<1>2. Holders' BY ScheduleAssumption DEF SInv, Holders, S!Relay, S!IdleTick
<1>3. (\A e \in Editors : EditStands(e))'
  BY DEF SInv, EditStands, ReadsCurrent, After, S!PendingOccurrence
<1>4. TickBehind' BY DEF TickBehind, S!IdleTick
<1>5. TriggerBehind' BY DEF SInv, TriggerBehind, After
<1>6. QED BY <1>1, <1>2, <1>3, <1>4, <1>5 DEF SInv

\* The manual trigger, up to its run.
LEMMA TriggerPreflightInv == ASSUME SInv, S!TriggerPreflight PROVE SInv'
<1> USE SameFiles DEF S!TriggerPreflight, S!files, S!relayVars
<1>1. S!TypeOK' BY IdTypes DEF SInv, S!TypeOK, S!PendingOccurrence
<1>2. Holders' BY DEF SInv, Holders
<1>3. (\A e \in Editors : EditStands(e))'
  BY DEF SInv, EditStands, ReadsCurrent, After, S!PendingOccurrence
<1>4. TickBehind' BY DEF SInv, TickBehind, After
<1>5. TriggerBehind' BY DEF SInv, TriggerBehind, CursorsAhead, S!TypeOK, S!PendingOccurrence
<1>6. QED BY <1>1, <1>2, <1>3, <1>4, <1>5 DEF SInv

LEMMA TriggerLockInv == ASSUME SInv, S!TriggerLock PROVE SInv'
<1> USE SameFiles DEF S!TriggerLock, S!files, S!relayVars
<1>1. S!TypeOK' BY DEF SInv, S!TypeOK, S!Relay, S!Lock
<1>2. Holders' BY ScheduleAssumption DEF SInv, Holders, S!Relay, S!Lock
<1>3. (\A e \in Editors : EditStands(e))'
  BY DEF SInv, EditStands, ReadsCurrent, After, S!PendingOccurrence
<1>4. TickBehind' BY DEF SInv, TickBehind, After
<1>5. TriggerBehind' BY DEF SInv, TriggerBehind, After
<1>6. QED BY <1>1, <1>2, <1>3, <1>4, <1>5 DEF SInv

LEMMA TriggerRejectInv == ASSUME SInv, S!TriggerReject PROVE SInv'
<1> USE SameFiles DEF S!TriggerReject, S!files, S!relayVars
<1>1. S!TypeOK' BY IdTypes DEF SInv, S!TypeOK, S!Unlock, S!IdleTrig
<1>2. Holders' BY ScheduleAssumption DEF SInv, Holders, S!Relay, S!IdleTrig
<1>3. (\A e \in Editors : EditStands(e))'
  BY DEF SInv, EditStands, ReadsCurrent, After, S!PendingOccurrence
<1>4. TickBehind' BY DEF SInv, TickBehind, After
<1>5. TriggerBehind' BY DEF TriggerBehind, S!IdleTrig
<1>6. QED BY <1>1, <1>2, <1>3, <1>4, <1>5 DEF SInv

\* A CLI process reads, checks, gives up or dies.
LEMMA EditBeginInv == ASSUME SInv, NEW e \in Editors, S!EditBegin(e) PROVE SInv'
<1> USE SameFiles DEF S!EditBegin, S!files, S!relayVars
<1>1. S!TypeOK'
  BY ScheduleAssumption, IdTypes, EditTyped DEF SInv, S!TypeOK, S!Relay, S!Slots, S!Revs,
    S!Lock, S!Unlock, S!IdleEdit, S!InFlight, EditPcs, EditStates
<1>2. Holders' BY DEF SInv, Holders
<1>3. (\A d \in Editors : EditStands(d))'
  BY DEF SInv, EditStands, ReadsCurrent, After, S!PendingOccurrence
<1>4. TickBehind' BY DEF SInv, TickBehind, After
<1>5. TriggerBehind' BY DEF SInv, TriggerBehind, After
<1>6. QED BY <1>1, <1>2, <1>3, <1>4, <1>5 DEF SInv

LEMMA EditCheckInv == ASSUME SInv, NEW e \in Editors, S!EditCheck(e) PROVE SInv'
<1> USE SameFiles DEF S!EditCheck, S!files, S!relayVars
<1>1. S!TypeOK'
  <2>1. {r \in S!InFlight : S!OccurrenceOf(r)} \in SUBSET S!Ids BY DEF S!InFlight
  <2>2. def # None => def.enabled \in BOOLEAN BY DEF SInv, S!TypeOK
  <2>3. edit \in [Editors -> EditStates] BY DEF SInv, S!TypeOK, EditStates, EditPcs
  <2>4. edit' \in [Editors -> EditStates]
    <3>1. CASE def # None /\ def.rev = edit[e].rev
      <4> DEFINE x == [edit[e] EXCEPT !.pc = "checked", !.enabled = def.enabled,
                                      !.cont = {r \in S!InFlight : S!OccurrenceOf(r)}]
      <4>1. edit' = [edit EXCEPT ![e] = x] BY <3>1
      <4>2. x \in EditStates BY <2>1, <2>2, <2>3, <3>1 DEF EditStates, EditPcs
      <4> HIDE DEF x
      <4>3. QED BY <4>1, <4>2, <2>3
    <3>2. CASE ~(def # None /\ def.rev = edit[e].rev)
      BY <3>2, <2>3 DEF EditStates, EditPcs
    <3>3. QED BY <3>1, <3>2
  <2>5. QED BY <2>4 DEF SInv, S!TypeOK, S!Lock, EditStates, EditPcs
<1>2. Holders' BY ScheduleAssumption DEF SInv, Holders, S!Relay, S!Lock, S!TypeOK
<1>3. (\A d \in Editors : EditStands(d))'
  BY ScheduleAssumption, IdTypes DEF SInv, EditStands, ReadsCurrent, After,
    S!PendingOccurrence, S!InFlightIsCurrent, S!InFlight, S!IdleEdit, S!EditTo, S!TypeOK,
    Holders, S!Lock, S!Unlock, S!Relay
<1>4. TickBehind' BY DEF SInv, TickBehind, After
<1>5. TriggerBehind' BY DEF SInv, TriggerBehind, After
<1>6. QED BY <1>1, <1>2, <1>3, <1>4, <1>5 DEF SInv

LEMMA EditRejectInv == ASSUME SInv, NEW e \in Editors, S!EditReject(e) PROVE SInv'
<1> USE SameFiles DEF S!EditReject, S!files, S!relayVars
<1>1. S!TypeOK'
  BY ScheduleAssumption, IdTypes, EditTyped DEF SInv, S!TypeOK, S!Relay, S!Slots, S!Revs,
    S!Lock, S!Unlock, S!IdleEdit, S!InFlight, EditPcs, EditStates
<1>2. Holders' BY ScheduleAssumption DEF SInv, Holders, S!Relay, S!EditTo, S!TypeOK
<1>3. (\A d \in Editors : EditStands(d))' BY DEF SInv, EditStands, S!EditTo, S!TypeOK, Holders
<1>4. TickBehind' BY DEF SInv, TickBehind, After
<1>5. TriggerBehind' BY DEF SInv, TriggerBehind, After
<1>6. QED BY <1>1, <1>2, <1>3, <1>4, <1>5 DEF SInv

LEMMA EnableReadInv == ASSUME SInv, NEW e \in Editors, S!EnableRead(e) PROVE SInv'
<1> USE SameFiles DEF S!EnableRead, S!files, S!relayVars
<1>1. S!TypeOK'
  <2>1. def.rev \in S!Revs /\ (~def.enabled) \in BOOLEAN /\ def.cont \in SUBSET S!Ids
    BY DEF SInv, S!TypeOK
  <2>2. edit' \in [Editors -> EditStates]
    BY IdTypes DEF SInv, S!TypeOK, EditStates, EditPcs, S!IdleEdit
  <2>3. QED BY <2>2 DEF SInv, S!TypeOK, S!Lock, EditStates, EditPcs
<1>2. Holders' BY ScheduleAssumption DEF SInv, Holders, S!Relay, S!Lock
<1>3. (\A d \in Editors : EditStands(d))'
  BY DEF SInv, EditStands, ReadsCurrent, After, S!PendingOccurrence
<1>4. TickBehind' BY DEF SInv, TickBehind, After
<1>5. TriggerBehind' BY DEF SInv, TriggerBehind, After
<1>6. QED BY <1>1, <1>2, <1>3, <1>4, <1>5 DEF SInv

LEMMA CrashInv == ASSUME SInv, NEW e \in Editors, S!Crash(e) PROVE SInv'
<1> USE SameFiles DEF S!Crash, S!files, S!relayVars
<1>1. S!TypeOK'
  BY ScheduleAssumption, IdTypes, EditTyped DEF SInv, S!TypeOK, S!Relay, S!Slots, S!Revs,
    S!Lock, S!Unlock, S!IdleEdit, S!InFlight, EditPcs, EditStates
<1>2. Holders' BY ScheduleAssumption DEF SInv, Holders, S!Relay, S!EditTo, S!TypeOK
<1>3. (\A d \in Editors : EditStands(d))' BY DEF SInv, EditStands, S!EditTo, S!TypeOK, Holders
<1>4. TickBehind' BY DEF SInv, TickBehind, After
<1>5. TriggerBehind' BY DEF SInv, TriggerBehind, After
<1>6. QED BY <1>1, <1>2, <1>3, <1>4, <1>5 DEF SInv

\* A slot is skipped, without the lock: the cursor written is ahead of what is
\* queued, whatever revision is saved by now.
LEMMA TickSkipInv == ASSUME SInv, S!TickSkip PROVE SInv'
<1> USE DEF S!TickSkip
<1>0. /\ tick.rev \in S!Revs /\ tick.future \in S!Slots /\ S!InFlight' = S!InFlight
      /\ cursor' \in [S!Revs -> S!Slots \cup {None}] /\ cursor'[tick.rev] = tick.future
      /\ \A v \in S!Revs \ {tick.rev} : cursor'[v] = cursor[v]
  BY DEF SInv, S!TypeOK, S!InFlight
<1>1. S!TypeOK' BY IdTypes DEF SInv, S!TypeOK, S!IdleTick
<1>2. Holders' BY DEF SInv, Holders, S!IdleTick
<1>3. S!OneInFlight' /\ S!OncePerSlot' /\ S!InFlightIsCurrent' /\ Fallen'
  BY <1>0 DEF SInv, S!OneInFlight, S!OncePerSlot, S!InFlightIsCurrent, S!OccurrenceOf, Fallen
<1>4. tick.future # None BY <1>0, ScheduleAssumption
<1>5. S!CursorIsPublished' BY <1>4 DEF SInv, S!CursorIsPublished
<1>6. CursorsAhead'
  BY <1>4 DEF SInv, CursorsAhead, After, S!PendingOccurrence, TickBehind
<1>7. ASSUME NEW e \in Editors PROVE EditStands(e)'
  <2>1. EditStands(e) BY DEF SInv
  <2>2. edit[e].pc = "published" =>
          /\ def # None /\ def.rev \in S!Revs /\ tick.rev <= def.rev
          /\ edit[e].rev = def.rev /\ def.rev + 1 \in S!Revs
    BY ScheduleAssumption DEF SInv, EditStands, ReadsCurrent, TickBehind, S!TypeOK, S!Revs
  <2>3. edit[e].pc = "published" => cursor'[def.rev + 1] = cursor[def.rev + 1] BY <2>2, IdTypes
  <2>4. QED BY <2>1, <2>3, <1>0 DEF EditStands, ReadsCurrent, After, S!PendingOccurrence
<1>8. TickBehind' BY DEF TickBehind, S!IdleTick
<1>9. TriggerBehind' BY DEF SInv, TriggerBehind, After
<1>10. QED BY <1>1, <1>2, <1>3, <1>5, <1>6, <1>7, <1>8, <1>9 DEF SInv

\* The cursor follows the run.
LEMMA TickAdvanceInv == ASSUME SInv, S!TickAdvance PROVE SInv'
<1> USE DEF S!TickAdvance
<1>0. /\ tick.rev \in S!Revs /\ tick.future \in S!Slots /\ S!InFlight' = S!InFlight
      /\ cursor' \in [S!Revs -> S!Slots \cup {None}] /\ cursor'[tick.rev] = tick.future
      /\ \A v \in S!Revs \ {tick.rev} : cursor'[v] = cursor[v]
  BY DEF SInv, S!TypeOK, S!InFlight
<1>1. S!TypeOK' BY IdTypes DEF SInv, S!TypeOK, S!IdleTick, S!Unlock
<1>2. Holders' BY ScheduleAssumption DEF SInv, Holders, S!IdleTick, S!Relay
<1>3. S!OneInFlight' /\ S!OncePerSlot' /\ S!InFlightIsCurrent' /\ Fallen'
  BY <1>0 DEF SInv, S!OneInFlight, S!OncePerSlot, S!InFlightIsCurrent, S!OccurrenceOf, Fallen
<1>4. tick.future # None BY <1>0, ScheduleAssumption
<1>5. S!CursorIsPublished' BY <1>4 DEF SInv, S!CursorIsPublished
<1>6. CursorsAhead'
  BY <1>4 DEF SInv, CursorsAhead, After, S!PendingOccurrence, TickBehind
<1>7. ASSUME NEW e \in Editors PROVE EditStands(e)'
  BY ScheduleAssumption DEF SInv, EditStands, Holders, S!Relay
<1>8. TickBehind' BY DEF TickBehind, S!IdleTick
<1>9. TriggerBehind' BY DEF SInv, TriggerBehind, After
<1>10. QED BY <1>1, <1>2, <1>3, <1>5, <1>6, <1>7, <1>8, <1>9 DEF SInv

\* The new revision's cursor is ahead of every slot queued, for it is in the future
\* or where the old one stands.
LEMMA EditPublishInv == ASSUME SInv, NEW e \in Editors, S!EditPublish(e) PROVE SInv'
<1> USE DEF S!EditPublish
<1>0. /\ def # None /\ def.rev \in S!Revs /\ def.rev + 1 \in S!Revs /\ holder = e
      /\ now \in 0..MaxTime /\ edit[e].rev = def.rev
  BY ScheduleAssumption DEF SInv, EditStands, ReadsCurrent, Holders, S!TypeOK, S!Revs
<1>1. PICK next \in {S!NextOccurrence(now)}
                     \cup ({S!PendingOccurrence(def.rev)} \cap (now+1..MaxTime+1)) :
             cursor' = [cursor EXCEPT ![def.rev + 1] = next]
  OBVIOUS
<1>2. next \in S!Slots /\ now < next
  BY <1>0, ScheduleAssumption DEF S!NextOccurrence, S!Slots
<1>3. /\ cursor' \in [S!Revs -> S!Slots \cup {None}] /\ cursor'[def.rev + 1] = next
      /\ next # None
      /\ \A v \in S!Revs \ {def.rev + 1} : cursor'[v] = cursor[v]
  BY <1>0, <1>1, <1>2, ScheduleAssumption DEF SInv, S!TypeOK
<1>4. S!TypeOK' BY <1>3, EditTyped DEF SInv, S!TypeOK, EditPcs, EditStates, S!relayVars
<1>5. S!InFlight' = S!InFlight BY DEF S!InFlight
<1>6. S!OneInFlight' /\ S!OncePerSlot' /\ S!InFlightIsCurrent' /\ Fallen'
  BY <1>5 DEF SInv, S!OneInFlight, S!OncePerSlot, S!InFlightIsCurrent, S!OccurrenceOf, Fallen
<1>7. S!CursorIsPublished' BY <1>0, IdTypes DEF SInv, S!CursorIsPublished
<1>8. CursorsAhead'
  BY <1>0, IdTypes DEF SInv, CursorsAhead, After, S!PendingOccurrence
<1>9. After(def.rev + 1, next) BY <1>2, <1>0, IdTypes DEF SInv, After, Fallen
<1>10. Holders' BY EditTyped DEF SInv, Holders, EditPcs, S!relayVars
<1>11. ASSUME NEW d \in Editors PROVE EditStands(d)'
  <2>1. CASE d = e
    BY <1>3, <1>5, <1>9, EditTyped DEF SInv, EditStands, ReadsCurrent, EditPcs,
      S!PendingOccurrence, After
  <2>2. CASE d # e
    BY <2>2, EditTyped DEF SInv, EditStands, Holders, EditPcs
  <2>3. QED BY <2>1, <2>2
<1>12. TickBehind' /\ TriggerBehind' BY DEF SInv, TickBehind, TriggerBehind, After, S!relayVars
<1>13. QED BY <1>4, <1>6, <1>7, <1>8, <1>10, <1>11, <1>12 DEF SInv

\* The definition saved under the lock names the occurrences in flight.
LEMMA EditWriteInv == ASSUME SInv, NEW e \in Editors, S!EditWrite(e) PROVE SInv'
<1> USE DEF S!EditWrite
<1>0. /\ def # None /\ def.rev \in S!Revs /\ def.rev + 1 \in S!Revs /\ holder = e
      /\ edit[e].rev = def.rev
      /\ S!InFlight \subseteq edit[e].cont /\ edit[e].cont \in SUBSET S!Ids
      /\ edit[e].enabled \in BOOLEAN
      /\ cursor[def.rev + 1] # None /\ After(def.rev + 1, S!PendingOccurrence(def.rev + 1))
  BY ScheduleAssumption DEF SInv, EditStands, ReadsCurrent, Holders, S!TypeOK, S!Revs
<1>1. def'.rev = def.rev + 1 /\ def'.cont = edit[e].cont BY <1>0
<1>2. S!TypeOK'
  BY <1>0, EditTyped DEF SInv, S!TypeOK, EditPcs, EditStates, S!relayVars, S!Unlock
<1>3. S!InFlight' = S!InFlight BY DEF S!InFlight
<1>4. S!OneInFlight' /\ S!OncePerSlot' BY <1>3 DEF SInv, S!OneInFlight, S!OncePerSlot
<1>5. Fallen' BY <1>0, IdTypes DEF SInv, Fallen
<1>6. S!InFlightIsCurrent' BY <1>0, <1>3 DEF S!InFlightIsCurrent, S!OccurrenceOf
<1>7. S!CursorIsPublished' BY <1>0 DEF S!CursorIsPublished
<1>8. CursorsAhead' BY <1>0, IdTypes DEF SInv, CursorsAhead, After, S!PendingOccurrence
<1>9. Holders'
  BY EditTyped, ScheduleAssumption DEF SInv, Holders, EditPcs, S!relayVars, S!Relay
<1>10. ASSUME NEW d \in Editors PROVE EditStands(d)'
  BY EditTyped DEF SInv, EditStands, Holders, EditPcs
<1>11. TickBehind' BY <1>0, IdTypes DEF SInv, TickBehind, After, S!relayVars, S!TypeOK
<1>12. TriggerBehind' BY <1>0, IdTypes DEF SInv, TriggerBehind, After, S!relayVars, S!TypeOK
<1>13. QED BY <1>2, <1>4, <1>5, <1>6, <1>7, <1>8, <1>9, <1>10, <1>11, <1>12 DEF SInv

\* A pause or resume writes back what it read.
LEMMA EnableWriteInv == ASSUME SInv, NEW e \in Editors, S!EnableWrite(e) PROVE SInv'
<1> USE DEF S!EnableWrite
<1>0. /\ def # None /\ def.rev \in S!Revs /\ holder = e /\ edit[e].rev = def.rev
      /\ edit[e].cont = def.cont /\ edit[e].cont \in SUBSET S!Ids /\ edit[e].enabled \in BOOLEAN
  BY DEF SInv, EditStands, ReadsCurrent, Holders, S!TypeOK
<1>1. def'.rev = def.rev /\ def'.cont = def.cont BY <1>0
<1>2. S!TypeOK' BY EditTyped DEF SInv, S!TypeOK, EditPcs, EditStates, S!relayVars, S!Unlock
<1>3. S!InFlight' = S!InFlight BY DEF S!InFlight
<1>4. S!OneInFlight' /\ S!OncePerSlot' /\ Fallen' /\ S!InFlightIsCurrent'
      /\ S!CursorIsPublished'
  BY <1>0, <1>3 DEF SInv, S!OneInFlight, S!OncePerSlot, Fallen, S!InFlightIsCurrent,
    S!OccurrenceOf, S!CursorIsPublished
<1>5. CursorsAhead' BY <1>0 DEF SInv, CursorsAhead, After, S!PendingOccurrence
<1>6. Holders'
  BY EditTyped, ScheduleAssumption DEF SInv, Holders, EditPcs, S!relayVars, S!Relay
<1>7. ASSUME NEW d \in Editors PROVE EditStands(d)'
  BY EditTyped DEF SInv, EditStands, Holders, EditPcs
<1>8. TickBehind' /\ TriggerBehind'
  BY <1>0 DEF SInv, TickBehind, TriggerBehind, After, S!relayVars
<1>9. QED BY <1>2, <1>4, <1>5, <1>6, <1>7, <1>8 DEF SInv

\* A definition is removed only while nobody holds the lock.
LEMMA RemoveInv == ASSUME SInv, NEW e \in Editors, S!Remove(e) PROVE SInv'
<1> USE DEF S!Remove, S!relayVars
<1>1. S!TypeOK' BY DEF SInv, S!TypeOK
<1>2. S!InFlight' = S!InFlight BY DEF S!InFlight
<1>3. S!OneInFlight' /\ S!OncePerSlot' /\ Fallen' /\ S!InFlightIsCurrent'
      /\ S!CursorIsPublished'
  BY <1>2 DEF SInv, S!OneInFlight, S!OncePerSlot, Fallen, S!InFlightIsCurrent,
    S!CursorIsPublished
<1>4. CursorsAhead' /\ Holders' BY DEF SInv, CursorsAhead, Holders
<1>5. ASSUME NEW d \in Editors PROVE EditStands(d)'
  BY ScheduleAssumption DEF SInv, EditStands, Holders
<1>6. TickBehind' /\ TriggerBehind' BY DEF SInv, TickBehind, TriggerBehind
<1>7. QED BY <1>1, <1>3, <1>4, <1>5, <1>6 DEF SInv

\* The ledger refuses a second occurrence in flight, and returns the record an ID
\* has.
LEMMA CreateTyped ==
  ASSUME SInv, NEW r \in S!Ids, NEW v \in S!Revs, S!CreateRun(r, v), S!Creatable(r)
  PROVE  /\ runs' \in [S!Ids -> [status : S!Statuses, rev : S!Revs]]
         /\ \/ runs' = runs
            \/ /\ S!InFlight = {} /\ S!InFlight' = {r} /\ runs'[r].rev = v
               /\ \A x \in S!Ids \ {r} : runs'[x] = runs[x]
<1>1. runs \in [S!Ids -> [status : S!Statuses, rev : S!Revs]] BY DEF SInv, S!TypeOK
<1>2. CASE runs[r].status # "none" BY <1>1, <1>2 DEF S!CreateRun
<1>3. CASE runs[r].status = "none"
  <2>1. runs' = [runs EXCEPT ![r] = [status |-> "queued", rev |-> v]] BY <1>3 DEF S!CreateRun
  <2>2. S!InFlight = {} BY <1>3 DEF S!Creatable
  <2>3. runs' \in [S!Ids -> [status : S!Statuses, rev : S!Revs]] BY <1>1, <2>1 DEF S!Statuses
  <2>4. runs'[r] = [status |-> "queued", rev |-> v] /\ \A x \in S!Ids \ {r} : runs'[x] = runs[x]
    BY <1>1, <2>1
  <2>5. S!InFlight' = {r} BY <2>2, <2>4 DEF S!InFlight, S!InFlightStatus
  <2>6. QED BY <2>2, <2>3, <2>4, <2>5
<1>4. QED BY <1>2, <1>3

\* The slot queued is of the current revision, and no earlier one queued it.
LEMMA TickCreateInv == ASSUME SInv, S!TickCreate PROVE SInv'
<1> USE DEF S!TickCreate
<1> DEFINE r == <<tick.rev, tick.next>>
<1>0. /\ def # None /\ def.rev = tick.rev /\ tick.rev \in S!Revs /\ tick.next \in S!Slots
      /\ tick.next <= now
      /\ holder = "tick" /\ r \in S!Ids /\ After(tick.rev, tick.next) /\ "tick" \notin Editors
  BY IdTypes, ScheduleAssumption DEF S!TickMayCreate, SInv, TickBehind, Holders, S!TypeOK,
    S!Relay
<1>1. /\ runs' \in [S!Ids -> [status : S!Statuses, rev : S!Revs]]
      /\ \/ runs' = runs
         \/ /\ S!InFlight = {} /\ S!InFlight' = {r} /\ runs'[r].rev = tick.rev
            /\ \A x \in S!Ids \ {r} : runs'[x] = runs[x]
  BY <1>0, CreateTyped DEF S!TickMayCreate
<1>2. S!TypeOK' BY <1>1 DEF SInv, S!TypeOK, S!files
<1>3. Holders' BY DEF SInv, Holders
<1>4. \A e \in Editors : edit[e].pc \notin {"checked", "published"} BY <1>0 DEF SInv, Holders
<1>5. ASSUME NEW e \in Editors PROVE EditStands(e)'
  BY <1>4 DEF SInv, EditStands, ReadsCurrent, S!files
<1>6. S!CursorIsPublished' BY DEF SInv, S!CursorIsPublished, S!files
<1>7. CASE runs' = runs
  BY <1>7, <1>2, <1>3, <1>5, SameFiles DEF SInv, TickBehind, TriggerBehind, After, S!files
<1>8. CASE /\ S!InFlight = {} /\ S!InFlight' = {r} /\ runs'[r].rev = tick.rev
           /\ \A x \in S!Ids \ {r} : runs'[x] = runs[x]
  <2>1. S!OneInFlight' BY <1>8 DEF S!OneInFlight
  <2>2. S!InFlightIsCurrent' BY <1>8, <1>0 DEF S!InFlightIsCurrent, S!OccurrenceOf, S!files
  <2>3. Fallen' BY <1>8, <1>0, IdTypes DEF SInv, Fallen, S!files
  <2>4. ASSUME NEW v \in S!Revs, NEW c, After(v, c), v <= tick.rev PROVE After(v, c)'
    BY <2>4, <1>8, IdTypes DEF After
  <2>5. CursorsAhead' BY <2>4, <1>0 DEF SInv, CursorsAhead, S!PendingOccurrence, S!files
  <2>6. TickBehind' BY <2>4, <1>0 DEF SInv, TickBehind, S!files
  <2>7. TriggerBehind' BY <2>4, <1>0 DEF SInv, TriggerBehind, S!TypeOK, S!files
  <2>8. S!OncePerSlot'
    <3>1. SUFFICES ASSUME NEW u \in S!Revs, NEW v \in S!Revs, NEW t \in S!Slots, u < v,
                          runs'[<<u, t>>].status # "none", runs'[<<v, t>>].status # "none"
                   PROVE  FALSE
      BY IdTypes DEF S!OncePerSlot
    <3>2. CASE <<v, t>> = r
      BY <3>1, <3>2, <1>8, <1>0, IdTypes DEF After
    <3>3. CASE <<u, t>> = r
      BY <3>1, <3>3, <1>8, <1>0, IdTypes DEF SInv, Fallen
    <3>4. CASE <<u, t>> # r /\ <<v, t>> # r
      BY <3>1, <3>4, <1>8, IdTypes DEF SInv, S!OncePerSlot
    <3>5. QED BY <3>2, <3>3, <3>4
  <2>9. QED BY <1>2, <1>3, <1>5, <1>6, <2>1, <2>2, <2>3, <2>5, <2>6, <2>7, <2>8 DEF SInv
<1>9. QED BY <1>1, <1>7, <1>8

\* A manual trigger takes its snapshot.
LEMMA TriggerBeginInv == ASSUME SInv, NEW k \in Keys, S!TriggerBegin(k) PROVE SInv'
<1> USE SameFiles DEF S!TriggerBegin, S!files
<1>1. S!TypeOK' BY IdTypes DEF SInv, S!TypeOK, S!IdleTrig
<1>2. Holders' BY DEF SInv, Holders
<1>3. (\A e \in Editors : EditStands(e))'
  BY DEF SInv, EditStands, ReadsCurrent, After, S!PendingOccurrence
<1>4. TickBehind' BY DEF SInv, TickBehind, After
<1>5. TriggerBehind'
  <2>1. def.rev \in S!Revs /\ def.rev <= def.rev BY IdTypes DEF SInv, S!TypeOK
  <2>2. QED BY <2>1 DEF TriggerBehind
<1>6. QED BY <1>1, <1>2, <1>3, <1>4, <1>5 DEF SInv

\* The preflight's receipt writes back the cursor it read.
LEMMA TriggerCreateInv == ASSUME SInv, S!TriggerCreate PROVE SInv'
<1> USE DEF S!TriggerCreate
<1> DEFINE r == trig.key
<1>0. /\ def # None /\ def.rev = trig.rev /\ trig.rev \in S!Revs /\ trig.previous \in S!Slots
      /\ holder = "trigger" /\ r \in S!Ids /\ r \in Keys /\ "trigger" \notin Editors
      /\ trig.previous # None /\ (Gated => After(trig.rev, trig.previous))
  BY ScheduleAssumption DEF S!TriggerMayCreate, SInv, TriggerBehind, Holders, S!TypeOK,
    S!Relay, S!Ids
<1>1. /\ runs' \in [S!Ids -> [status : S!Statuses, rev : S!Revs]]
      /\ \/ runs' = runs
         \/ /\ S!InFlight = {} /\ S!InFlight' = {r} /\ runs'[r].rev = trig.rev
            /\ \A x \in S!Ids \ {r} : runs'[x] = runs[x]
  BY <1>0, CreateTyped DEF S!TriggerMayCreate
<1>2. /\ cursor' \in [S!Revs -> S!Slots \cup {None}]
      /\ \A v \in S!Revs : \/ cursor'[v] = cursor[v]
                           \/ Gated /\ v = trig.rev /\ cursor'[v] = trig.previous
  <2>1. cursor \in [S!Revs -> S!Slots \cup {None}] BY DEF SInv, S!TypeOK
  <2>2. CASE Gated
    <3>1. cursor' = [cursor EXCEPT ![trig.rev] = trig.previous] BY <2>2
    <3>2. QED BY <2>1, <1>0
  <2>3. CASE ~Gated
    <3>1. cursor' = cursor BY <2>3
    <3>2. QED BY <2>1, <3>1
  <2>4. QED BY <2>2, <2>3
<1>3. S!TypeOK' BY <1>1, IdTypes DEF SInv, S!TypeOK, S!IdleTrig, S!Unlock
<1>4. Holders' BY <1>0 DEF SInv, Holders, S!IdleTrig
<1>5. ASSUME NEW e \in Editors PROVE EditStands(e)'
  BY <1>0 DEF SInv, EditStands, Holders
<1>6. \A u \in S!Revs, t \in S!Slots : runs'[<<u, t>>] = runs[<<u, t>>] BY <1>0, <1>1, IdTypes
<1>7. \A v, c : After(v, c) => After(v, c)' BY <1>6 DEF After
<1>8. S!OneInFlight' BY <1>1 DEF SInv, S!OneInFlight, S!InFlight
<1>9. S!InFlightIsCurrent'
  BY <1>0, <1>1 DEF SInv, S!InFlightIsCurrent, S!OccurrenceOf, S!InFlight
<1>10. S!OncePerSlot' /\ Fallen' BY <1>6 DEF SInv, S!OncePerSlot, Fallen
<1>11. S!CursorIsPublished' BY <1>0 DEF SInv, S!CursorIsPublished
<1>12. CursorsAhead'
  BY <1>0, <1>6 DEF SInv, CursorsAhead, S!PendingOccurrence, After
<1>13. TickBehind' BY <1>6 DEF SInv, TickBehind, After
<1>14. TriggerBehind' BY DEF TriggerBehind, S!IdleTrig
<1>15. QED BY <1>3, <1>4, <1>5, <1>8, <1>9, <1>10, <1>11, <1>12, <1>13, <1>14 DEF SInv

\* A run changes its status.
LEMMA SettleInv ==
  ASSUME SInv, NEW r \in S!Ids, NEW from \in S!Statuses \ {"none"}, 
         NEW to \in S!Statuses \ {"none"},
         S!Settle(r, from, to),
         to \in S!InFlightStatus =>
           \/ from \in S!InFlightStatus
           \/ S!InFlight = {} /\ S!OccurrenceOf(r) /\ holder = None
  PROVE  SInv'
<1> USE DEF S!Settle, S!files, S!relayVars
<1>1. /\ runs' \in [S!Ids -> [status : S!Statuses, rev : S!Revs]]
      /\ runs[r].status = from /\ runs'[r].status = to /\ runs'[r].rev = runs[r].rev
      /\ \A x \in S!Ids \ {r} : runs'[x] = runs[x]
  BY DEF SInv, S!TypeOK
<1>2. \A x \in S!Ids : /\ runs'[x].rev = runs[x].rev
                       /\ runs'[x].status = "none" <=> runs[x].status = "none"
  OBVIOUS
<1>3. \/ S!InFlight' \subseteq S!InFlight
      \/ S!InFlight = {} /\ S!InFlight' = {r} /\ S!OccurrenceOf(r) /\ holder = None
  <2>1. CASE to \notin S!InFlightStatus \/ from \in S!InFlightStatus BY DEF S!InFlight
  <2>2. CASE to \in S!InFlightStatus /\ from \notin S!InFlightStatus BY DEF S!InFlight
  <2>3. QED BY <2>1, <2>2
<1>4. S!TypeOK' BY DEF SInv, S!TypeOK
<1>5. S!OneInFlight' BY <1>3 DEF SInv, S!OneInFlight
<1>6. S!InFlight \subseteq S!Ids BY DEF S!InFlight
<1>7. S!InFlightIsCurrent' BY <1>3 DEF SInv, S!InFlightIsCurrent, S!OccurrenceOf
<1>8. S!OncePerSlot' /\ Fallen' BY DEF SInv, S!OncePerSlot, Fallen
<1>9. S!CursorIsPublished' /\ Holders' BY DEF SInv, S!CursorIsPublished, Holders
<1>10. CursorsAhead' BY DEF SInv, CursorsAhead, After, S!PendingOccurrence
<1>11. TickBehind' BY DEF SInv, TickBehind, After
<1>12. TriggerBehind' BY DEF SInv, TriggerBehind, After
<1>13. ASSUME NEW e \in Editors PROVE EditStands(e)'
  <2>1. edit[e].pc \in {"checked", "published"} => S!InFlight' \subseteq S!InFlight
    BY <1>3, ScheduleAssumption DEF SInv, Holders
  <2>2. \A v, c : After(v, c) <=> After(v, c)' BY DEF After
  <2>3. EditStands(e) BY DEF SInv
  <2>4. QED BY <2>1, <2>3 DEF EditStands, ReadsCurrent, After, S!PendingOccurrence
<1>14. QED BY <1>4, <1>5, <1>7, <1>8, <1>9, <1>10, <1>11, <1>12, <1>13 DEF SInv

\* Occurrences start, end and are retried.
LEMMA RunStepInv ==
  ASSUME SInv, NEW r \in S!Ids, S!StartRun(r) \/ S!CancelRun(r) \/ S!EndRun(r) \/ S!RetryRun(r)
  PROVE  SInv'
<1>1. CASE S!StartRun(r)
  BY <1>1, SettleInv DEF S!StartRun, S!Statuses, S!InFlightStatus
<1>2. CASE S!CancelRun(r)
  BY <1>2, SettleInv DEF S!CancelRun, S!Statuses, S!InFlightStatus
<1>3. CASE S!EndRun(r)
  <2>1. PICK s \in {"ended", "quota", "held"} : S!Settle(r, "running", s) BY <1>3 DEF S!EndRun
  <2>2. QED BY <2>1, SettleInv DEF S!Statuses, S!InFlightStatus
<1>4. CASE S!RetryRun(r)
  BY <1>4, SettleInv DEF S!RetryRun, S!Statuses
<1>5. QED BY <1>1, <1>2, <1>3, <1>4

\* A slot falls due.
LEMMA FallsDueInv == ASSUME SInv, S!FallsDue PROVE SInv'
<1> USE DEF S!FallsDue, S!files, S!relayVars
<1>1. S!TypeOK' BY ScheduleAssumption DEF SInv, S!TypeOK
<1>2. S!InFlight' = S!InFlight BY DEF S!InFlight
<1>3. S!OneInFlight' /\ S!OncePerSlot' /\ S!InFlightIsCurrent' /\ S!CursorIsPublished'
      /\ Holders' /\ CursorsAhead' /\ TriggerBehind'
  BY <1>2 DEF SInv, S!OneInFlight, S!OncePerSlot, S!InFlightIsCurrent, S!OccurrenceOf,
    S!CursorIsPublished, Holders, CursorsAhead, After, S!PendingOccurrence, TriggerBehind
<1>4. now \in Nat BY DEF SInv, S!TypeOK
<1>5. Fallen' BY <1>4, IdTypes DEF SInv, Fallen
<1>6. TickBehind' BY IdTypes DEF SInv, TickBehind, After, S!TypeOK
<1>7. ASSUME NEW e \in Editors PROVE EditStands(e)'
  BY <1>2 DEF SInv, EditStands, ReadsCurrent, After, S!PendingOccurrence
<1>8. QED BY <1>1, <1>3, <1>5, <1>6, <1>7 DEF SInv

\* A relay's restart keeps only the running occurrences that are handed over.
LEMMA RestartInv == ASSUME SInv, S!Restart PROVE SInv'
<1> USE DEF S!Restart, S!files
<1>1. PICK kept \in SUBSET {r \in S!Ids : runs[r].status = "running"}, s \in {"running", "held"} :
         runs' = [r \in S!Ids |-> IF r \in kept THEN [runs[r] EXCEPT !.status = s] ELSE S!NoRun]
  OBVIOUS
<1>2. /\ runs' \in [S!Ids -> [status : S!Statuses, rev : S!Revs]]
      /\ \A r \in S!Ids : runs'[r].status # "none" =>
           runs[r].status = "running" /\ runs'[r].rev = runs[r].rev
  BY IdTypes DEF SInv, S!TypeOK, S!NoRun, S!Statuses
<1>3. S!InFlight' \subseteq S!InFlight BY <1>2 DEF S!InFlight, S!InFlightStatus
<1>4. S!TypeOK' BY <1>2, IdTypes, ScheduleAssumption DEF SInv, S!TypeOK, S!IdleTick, S!IdleTrig
<1>5. S!OneInFlight' /\ S!OncePerSlot'
  BY <1>2, <1>3, IdTypes DEF SInv, S!OneInFlight, S!OncePerSlot
<1>6. S!InFlightIsCurrent'
  BY <1>2 DEF SInv, S!InFlightIsCurrent, S!OccurrenceOf, S!InFlight, S!InFlightStatus
<1>7. S!CursorIsPublished' BY DEF SInv, S!CursorIsPublished
<1>8. Holders' BY ScheduleAssumption DEF SInv, Holders, S!IdleTick, S!IdleTrig
<1>9. Fallen' BY <1>2, IdTypes DEF SInv, Fallen
<1>10. CursorsAhead' BY <1>2, IdTypes DEF SInv, CursorsAhead, After, S!PendingOccurrence
<1>11. TickBehind' /\ TriggerBehind' BY DEF TickBehind, TriggerBehind, S!IdleTick, S!IdleTrig
<1>12. ASSUME NEW e \in Editors PROVE EditStands(e)'
  <2>1. EditStands(e) BY DEF SInv
  <2>2. QED
    BY <2>1, <1>2, <1>3, IdTypes DEF EditStands, ReadsCurrent, After, S!PendingOccurrence
<1>13. QED BY <1>4, <1>5, <1>6, <1>7, <1>8, <1>9, <1>10, <1>11, <1>12 DEF SInv

\* Nothing happens.
LEMMA StutterInv == ASSUME SInv, UNCHANGED S!vars PROVE SInv'
BY SameFiles DEF SInv, S!vars, S!files, S!relayVars, S!TypeOK, Holders, EditStands,
  ReadsCurrent, After, S!PendingOccurrence, TickBehind, TriggerBehind

\* Every step keeps the invariant.
LEMMA NextInv == SInv /\ [S!Next]_(S!vars) => SInv'
<1> SUFFICES ASSUME SInv, [S!Next]_(S!vars) PROVE SInv' OBVIOUS
<1>1. CASE S!TickStep
  BY <1>1, TickBeginInv, TickSkipInv, TickBusyInv, TickLockInv, TickCreateInv, TickAdvanceInv,
    TickAbandonInv DEF S!TickStep
<1>2. CASE (\E k \in Keys : S!TriggerBegin(k)) \/ S!TriggerPreflight \/ S!TriggerLock
           \/ S!TriggerCreate \/ S!TriggerReject
  BY <1>2, TriggerBeginInv, TriggerPreflightInv, TriggerLockInv, TriggerCreateInv,
    TriggerRejectInv
<1>3. CASE \E e \in Editors : S!EditStep(e)
  BY <1>3, EditBeginInv, EditCheckInv, EditRejectInv, EditPublishInv, EditWriteInv,
    EnableReadInv, EnableWriteInv, RemoveInv, CrashInv DEF S!EditStep
<1>4. CASE \E r \in S!Ids : S!StartRun(r) \/ S!CancelRun(r) \/ S!EndRun(r) \/ S!RetryRun(r)
  BY <1>4, RunStepInv
<1>5. CASE S!FallsDue \/ S!Restart BY <1>5, FallsDueInv, RestartInv
<1>6. CASE UNCHANGED S!vars BY <1>6, StutterInv
<1>7. QED BY <1>1, <1>2, <1>3, <1>4, <1>5, <1>6 DEF S!Next

\* The invariant says what a reader wants to know.
LEMMA SInvSound == SInv => S!OccurrencesAreSound
BY DEF SInv, S!OccurrencesAreSound

\* What a step may do to the definition, and what it may queue.
WriteRule ==
  def' # def /\ def' # None =>
       /\ def # None
       /\ \/ def'.rev = def.rev /\ def'.cont = def.cont
          \/ def'.rev = def.rev + 1 /\ def'.enabled = def.enabled
QueueRule ==
  \A r \in S!Ids : runs[r].status = "none" /\ runs'[r].status = "queued" =>
       def # None /\ def.enabled /\ runs'[r].rev = def.rev

\* Whoever writes the definition holds the lock and read the one saved.
LEMMA StepWrites == SInv /\ [S!Next]_(S!vars) => WriteRule
<1> SUFFICES ASSUME SInv, [S!Next]_(S!vars), def' # def, def' # None PROVE WriteRule
  BY DEF WriteRule
<1>1. PICK e \in Editors : S!EditWrite(e) \/ S!EnableWrite(e)
  BY DEF S!Next, S!vars, S!files, S!TickStep, S!TickBegin, S!TickSkip, S!TickBusy, S!TickLock,
    S!TickCreate, S!TickAdvance, S!TickAbandon, S!TriggerBegin, S!TriggerPreflight,
    S!TriggerLock, S!TriggerCreate, S!TriggerReject, S!EditStep, S!EditBegin, S!EditCheck,
    S!EditReject, S!EditPublish, S!EnableRead, S!Remove, S!Crash, S!StartRun, S!CancelRun,
    S!EndRun, S!RetryRun, S!Settle, S!FallsDue, S!Restart
<1>2. EditStands(e) BY DEF SInv
<1>3. QED BY <1>1, <1>2 DEF S!EditWrite, S!EnableWrite, EditStands, ReadsCurrent, WriteRule

\* Whoever queues an occurrence compared the revision under the lock.
LEMMA StepQueues == SInv /\ [S!Next]_(S!vars) => QueueRule
<1> SUFFICES ASSUME SInv, [S!Next]_(S!vars), NEW r \in S!Ids,
                    runs[r].status = "none", runs'[r].status = "queued"
             PROVE def # None /\ def.enabled /\ runs'[r].rev = def.rev
  BY DEF QueueRule
<1>0. runs \in [S!Ids -> [status : S!Statuses, rev : S!Revs]] BY DEF SInv, S!TypeOK
<1>1. CASE runs' = runs BY <1>1
<1>2. CASE S!TickCreate
  BY <1>2 DEF S!TickCreate, S!CreateRun, S!TickMayCreate
<1>3. CASE S!TriggerCreate
  BY <1>3 DEF S!TriggerCreate, S!CreateRun, S!TriggerMayCreate
<1>4. CASE \E x \in S!Ids : S!StartRun(x) \/ S!CancelRun(x) \/ S!EndRun(x) \/ S!RetryRun(x)
  BY <1>4, <1>0 DEF S!StartRun, S!CancelRun, S!EndRun, S!RetryRun, S!Settle
<1>5. CASE S!Restart
  BY <1>5 DEF S!Restart, S!NoRun
<1>6. QED
  BY <1>1, <1>2, <1>3, <1>4, <1>5 DEF S!Next, S!vars, S!files, S!TickStep, S!TickBegin,
    S!TickSkip, S!TickBusy, S!TickLock, S!TickAdvance, S!TickAbandon, S!TriggerBegin,
    S!TriggerPreflight, S!TriggerLock, S!TriggerReject, S!EditStep, S!EditBegin, S!EditCheck,
    S!EditReject, S!EditPublish, S!EditWrite, S!EnableRead, S!EnableWrite, S!Remove, S!Crash,
    S!FallsDue

-------------------------------------------------------------------------------
\* A behaviour of the composition is one of Schedule, whose part stutters while another
\* moves.
LEMMA SchedulePart == DispatchSpec => S!Spec
<1>1. DispatchInit => S!Init BY DEF DispatchInit
<1>2. [DispatchNext]_<<part, vars, schedule>> => [S!Next]_(S!vars)
  BY DEF DispatchNext, schedule, S!vars, S!files, S!relayVars
<1>3. QED BY <1>1, <1>2, PTL DEF DispatchSpec, S!Spec

LEMMA SInvHolds == DispatchSpec => []SInv
<1>1. S!Spec => []SInv BY InitInv, NextInv, PTL DEF S!Spec
<1>2. QED BY <1>1, SchedulePart, PTL

\* However slots fall due, keys are repeated, failures retried, CLI processes edit,
\* pause, remove and die, and the relay restarts: one occurrence is queued or running
\* at a time, a slot becomes an occurrence of one revision only, an edit leaves what is
\* in flight current, and no revision is without its cursor (scheduler.ts).
THEOREM OccurrencesStaySound == DispatchSpec => []OccurrencesAreSound
<1>1. SInv => OccurrencesAreSound BY SInvSound DEF OccurrencesAreSound
<1>2. QED BY <1>1, SInvHolds, PTL

\* The definition last written rules: a pause keeps the revision, an edit keeps the
\* schedule paused or enabled, nothing brings a removed one back, and an occurrence is
\* queued only for the revision saved, while it is enabled (scheduler.ts).
THEOREM LastDefinitionRules == DispatchSpec => DefinitionRules
<1>1. S!Spec => []SInv BY InitInv, NextInv, PTL DEF S!Spec
<1>2. S!Spec => [][WriteRule]_(S!vars) BY <1>1, StepWrites, PTL DEF S!Spec
<1>3. S!Spec => [][QueueRule]_(S!vars) BY <1>1, StepQueues, PTL DEF S!Spec
<1>4. S!Spec => S!DefinitionRules
  BY <1>2, <1>3, PTL DEF S!DefinitionRules, S!NoLostUpdate, S!QueuedIsCurrent, WriteRule,
    QueueRule
<1>5. QED BY <1>4, SchedulePart, PTL DEF DefinitionRules
===============================================================================
