------------------------------ MODULE Schedule ------------------------------
(***************************************************************************)
(* One schedule (src/src/scheduler.ts): its definition file, the cursor of *)
(* each revision, the occurrences in the relay's ledger, and everything    *)
(* that touches them: the relay's tick, a manual trigger over the delivery *)
(* socket, and the scheduling CLI's edit, pause, resume and remove.        *)
(*                                                                         *)
(* Times are counted in due slots: slot t falls due when now reaches t.    *)
(* The task's lock file is the variable holder here; TaskLock models it    *)
(* file operation by file operation.  Dispatch of queued occurrences is    *)
(* the module Relay; here a run just starts and ends.                      *)
(*                                                                         *)
(* A definition commented "Mutant of D" is D with a plausible bug; no      *)
(* action uses it.                                                         *)
(***************************************************************************)
EXTENDS Integers

CONSTANTS
  Editors,      \* scheduling CLI processes
  Keys,         \* request keys of manual triggers
  Gated,        \* the task has a preflight or a condition
  MaxTime,      \* bound: slots that fall due
  MaxRev,       \* bound: revisions
  MaxRestarts,  \* bound: relay restarts
  Crashes,      \* bound: whether a CLI may die while it holds the lock
  None

Slots == 1..MaxTime + 1    \* the last one never falls due
Revs  == 1..MaxRev
\* scheduledRunId is a function of revision and due time, a manual run's of its key.
Ids   == (Revs \X Slots) \cup Keys
Relay == {"tick", "trigger"}

VARIABLES
  now,       \* latest slot that fell due
  def,       \* ID.json: revision, enabled, continuingRunIds; None once removed
  cursor,    \* ID.REV.cursor: the revision's next slot, None without the file
  runs,      \* the ledger: status and revision of every occurrence
  holder,    \* who holds the task's lock
  tick,      \* the tick's snapshot of the schedule, between its awaits
  trig,      \* the manual trigger's
  edit,      \* edit[e]: what a CLI process has read
  restarts

relayVars == <<tick, trig>>
files     == <<def, cursor>>
vars      == <<now, files, runs, holder, relayVars, edit, restarts>>

InFlightStatus == {"queued", "running"}
Statuses == {"none", "queued", "running", "ended", "quota", "held"}
NoRun    == [status |-> "none", rev |-> 1]
IdleTick == [pc |-> "idle", rev |-> 1, next |-> 1, future |-> 1]
IdleTrig == [pc |-> "idle", rev |-> 1, key |-> None, previous |-> 1]
IdleEdit == [pc |-> "idle", rev |-> 1, enabled |-> TRUE, cont |-> {}, next |-> 1]

\* nextOccurrence of a rule that falls due in every slot.
NextOccurrence(t) == IF t > MaxTime THEN MaxTime + 1 ELSE t + 1
\* A missing cursor means the rule's first occurrence.
PendingOccurrence(rev) == IF cursor[rev] = None THEN 1 ELSE cursor[rev]

InFlight == {r \in Ids : runs[r].status \in InFlightStatus}
OccurrenceOf(r) == def # None /\ (runs[r].rev = def.rev \/ r \in def.cont)
HeldBy == {r \in Ids : runs[r].status = "held" /\ OccurrenceOf(r)}

Init ==
  /\ now = 0
  /\ def = [rev |-> 1, enabled |-> TRUE, cont |-> {}]
  /\ cursor = [v \in Revs |-> None]
  /\ runs = [r \in Ids |-> NoRun]
  /\ holder = None
  /\ tick = IdleTick /\ trig = IdleTrig /\ edit = [e \in Editors |-> IdleEdit]
  /\ restarts = 0

Lock(p)   == holder = None /\ holder' = p
Unlock(p) == holder = p /\ holder' = None

\* runs.create with exclusiveSchedule: an existing record of this ID is returned.
CreateRun(r, rev) ==
  runs' = IF runs[r].status = "none"
            THEN [runs EXCEPT ![r] = [status |-> "queued", rev |-> rev]]
            ELSE runs
Creatable(r) == runs[r].status # "none" \/ InFlight = {}

(***************************************************************************)
(* The relay's tick                                                        *)
(***************************************************************************)
TickBegin ==
  /\ tick.pc = "idle"
  /\ def # None /\ def.enabled
  /\ PendingOccurrence(def.rev) <= now
  /\ InFlight = {} /\ HeldBy = {}
  /\ tick' = [pc |-> "due", rev |-> def.rev, next |-> PendingOccurrence(def.rev),
              future |-> NextOccurrence(now)]
  /\ UNCHANGED <<now, files, runs, holder, trig, edit, restarts>>

\* Condition unmet, or the preflight admitted nothing: the slot is skipped, without
\* the lock.
TickSkip ==
  /\ tick.pc = "due" /\ Gated
  /\ cursor' = [cursor EXCEPT ![tick.rev] = tick.future]
  /\ tick' = IdleTick
  /\ UNCHANGED <<now, def, runs, holder, trig, edit, restarts>>

TickBusy ==
  /\ tick.pc = "due" /\ holder # None
  /\ tick' = IdleTick
  /\ UNCHANGED <<now, files, runs, holder, trig, edit, restarts>>

TickLock ==
  /\ tick.pc = "due"
  /\ Lock("tick")
  /\ tick' = [tick EXCEPT !.pc = "locked"]
  /\ UNCHANGED <<now, files, runs, trig, edit, restarts>>

TickMayCreate == /\ def # None /\ def.rev = tick.rev /\ def.enabled
                 /\ Creatable(<<tick.rev, tick.next>>)

TickCreate ==
  /\ tick.pc = "locked" /\ TickMayCreate
  /\ CreateRun(<<tick.rev, tick.next>>, tick.rev)
  /\ tick' = [tick EXCEPT !.pc = "created"]
  /\ UNCHANGED <<now, files, holder, trig, edit, restarts>>

\* The cursor follows the run.
TickAdvance ==
  /\ tick.pc = "created"
  /\ cursor' = [cursor EXCEPT ![tick.rev] = tick.future]
  /\ tick' = IdleTick
  /\ Unlock("tick")
  /\ UNCHANGED <<now, def, runs, trig, edit, restarts>>

\* Edited, paused or removed meanwhile, or another occurrence is in flight.
TickAbandon ==
  /\ tick.pc = "locked" /\ ~TickMayCreate
  /\ tick' = IdleTick
  /\ Unlock("tick")
  /\ UNCHANGED <<now, files, runs, trig, edit, restarts>>

(***************************************************************************)
(* Manual trigger                                                          *)
(***************************************************************************)
TriggerBegin(k) ==
  /\ trig.pc = "idle"
  /\ def # None /\ def.enabled
  /\ runs[k].status = "none" /\ HeldBy = {}
  /\ trig' = [IdleTrig EXCEPT !.pc = IF Gated THEN "gated" ELSE "checked",
                              !.rev = def.rev, !.key = k]
  /\ UNCHANGED <<now, files, runs, holder, tick, edit, restarts>>

\* preflight runs the plugin's check, then reads the cursor it will write back.
TriggerPreflight ==
  /\ trig.pc = "gated"
  /\ trig' = [trig EXCEPT !.pc = "checked", !.previous = PendingOccurrence(trig.rev)]
  /\ UNCHANGED <<now, files, runs, holder, tick, edit, restarts>>

TriggerLock ==
  /\ trig.pc = "checked"
  /\ Lock("trigger")
  /\ trig' = [trig EXCEPT !.pc = "locked"]
  /\ UNCHANGED <<now, files, runs, tick, edit, restarts>>

TriggerMayCreate == /\ def # None /\ def.rev = trig.rev /\ def.enabled
                    /\ Creatable(trig.key)

\* A preflight's receipt is saved with the cursor read when it was made.
TriggerCreate ==
  /\ trig.pc = "locked" /\ TriggerMayCreate
  /\ CreateRun(trig.key, trig.rev)
  /\ cursor' = IF Gated THEN [cursor EXCEPT ![trig.rev] = trig.previous] ELSE cursor
  /\ trig' = IdleTrig
  /\ Unlock("trigger")
  /\ UNCHANGED <<now, def, tick, edit, restarts>>

\* The preflight finds nothing eligible or the lock stays busy; or, under the
\* lock, the task changed or another occurrence is in flight.
TriggerReject ==
  /\ \/ trig.pc = "gated" /\ UNCHANGED holder
     \/ trig.pc = "checked" /\ holder # None /\ UNCHANGED holder
     \/ trig.pc = "locked" /\ ~TriggerMayCreate /\ Unlock("trigger")
  /\ trig' = IdleTrig
  /\ UNCHANGED <<now, files, runs, tick, edit, restarts>>

(***************************************************************************)
(* The scheduling CLI                                                      *)
(***************************************************************************)
EditTo(e, l) == edit' = [edit EXCEPT ![e].pc = l]

\* The caller reads the revision its edit is based on.
EditBegin(e) ==
  /\ edit[e].pc = "idle" /\ def # None /\ def.rev < MaxRev
  /\ edit' = [edit EXCEPT ![e] = [IdleEdit EXCEPT !.pc = "based", !.rev = def.rev]]
  /\ UNCHANGED <<now, files, runs, holder, relayVars, restarts>>

\* Mutant of EditCheck: the base revision is not compared.
EditCheckAny(e) ==
  /\ edit[e].pc = "based" /\ Lock(e) /\ def # None
  /\ edit' = [edit EXCEPT ![e].pc = "checked", ![e].enabled = def.enabled,
                          ![e].cont = {r \in InFlight : OccurrenceOf(r)}]
  /\ UNCHANGED <<now, files, runs, relayVars, restarts>>

\* Under the lock: the base is compared and the occurrences in flight are read.
EditCheck(e) ==
  /\ edit[e].pc = "based" /\ Lock(e)
  /\ edit' = IF def # None /\ def.rev = edit[e].rev
               THEN [edit EXCEPT ![e].pc = "checked", ![e].enabled = def.enabled,
                                 ![e].cont = {r \in InFlight : OccurrenceOf(r)}]
               ELSE [edit EXCEPT ![e].pc = "rejected"]
  /\ UNCHANGED <<now, files, runs, relayVars, restarts>>

\* Without --stage an occurrence in flight rejects the edit, and so does a relay
\* that does not answer.
EditReject(e) ==
  /\ edit[e].pc \in {"rejected", "checked"}
  /\ Unlock(e)
  /\ EditTo(e, "idle")
  /\ UNCHANGED <<now, files, runs, relayVars, restarts>>

\* save: the new revision's cursor goes first.  A future pending occurrence
\* survives when the trigger is the same.
EditPublish(e) ==
  /\ edit[e].pc = "checked"
  /\ LET pending == PendingOccurrence(def.rev) IN
     \E next \in {NextOccurrence(now)} \cup ({pending} \cap (now+1..MaxTime+1)) :
       cursor' = [cursor EXCEPT ![def.rev + 1] = next]
  /\ EditTo(e, "published")
  /\ UNCHANGED <<now, def, runs, holder, relayVars, restarts>>

\* Mutant of EditWrite: the occurrences in flight are not named in the new revision.
EditForgets(e) ==
  /\ edit[e].pc = "published"
  /\ def' = [rev |-> edit[e].rev + 1, enabled |-> edit[e].enabled, cont |-> {}]
  /\ Unlock(e)
  /\ EditTo(e, "idle")
  /\ UNCHANGED <<now, cursor, runs, relayVars, restarts>>

EditWrite(e) ==
  /\ edit[e].pc = "published"
  /\ def' = [rev |-> edit[e].rev + 1, enabled |-> edit[e].enabled, cont |-> edit[e].cont]
  /\ Unlock(e)
  /\ EditTo(e, "idle")
  /\ UNCHANGED <<now, cursor, runs, relayVars, restarts>>

\* pause and resume read the definition under the lock and write it back.
EnableRead(e) ==
  /\ edit[e].pc = "idle" /\ def # None /\ Lock(e)
  /\ edit' = [edit EXCEPT ![e] = [IdleEdit EXCEPT !.pc = "enable", !.rev = def.rev,
                                                  !.enabled = ~def.enabled, !.cont = def.cont]]
  /\ UNCHANGED <<now, files, runs, relayVars, restarts>>

EnableWrite(e) ==
  /\ edit[e].pc = "enable"
  /\ def' = [rev |-> edit[e].rev, enabled |-> edit[e].enabled, cont |-> edit[e].cont]
  /\ Unlock(e)
  /\ EditTo(e, "idle")
  /\ UNCHANGED <<now, cursor, runs, relayVars, restarts>>

Remove(e) ==
  /\ edit[e].pc = "idle" /\ def # None /\ holder = None
  /\ def' = None
  /\ UNCHANGED <<now, cursor, runs, holder, relayVars, edit, restarts>>

\* Mutant of Crash: its lock is never broken.
CrashHolding(e) ==
  /\ Crashes /\ holder = e /\ edit[e].pc # "idle"
  /\ EditTo(e, "idle")
  /\ UNCHANGED <<now, files, runs, holder, relayVars, restarts>>

\* A CLI process dies; its lock is broken once it is stale.
Crash(e) ==
  /\ Crashes /\ holder = e
  /\ Unlock(e)
  /\ EditTo(e, "idle")
  /\ UNCHANGED <<now, files, runs, relayVars, restarts>>

(***************************************************************************)
(* Occurrences, time and the relay's own restarts                          *)
(***************************************************************************)
Settle(r, from, to) ==
  /\ runs[r].status = from
  /\ runs' = [runs EXCEPT ![r].status = to]
  /\ UNCHANGED <<now, files, holder, relayVars, edit, restarts>>

\* startJob: current and enabled, or no longer current.
StartRun(r) == OccurrenceOf(r) /\ def.enabled /\ Settle(r, "queued", "running")
CancelRun(r) == Settle(r, "queued", "ended")
\* It ends, or fails on quota alone, or holds its schedule: interrupted, or a
\* reviewer that failed.
EndRun(r) == \E s \in {"ended", "quota", "held"} : Settle(r, "running", s)

\* retryQuota under the task's lock: an edit that replaced the revision wins.
RetryRun(r) == /\ holder = None /\ OccurrenceOf(r) /\ def.enabled
               /\ InFlight = {}
               /\ Settle(r, "quota", "queued")

FallsDue ==
  /\ now < MaxTime
  /\ now' = now + 1
  /\ UNCHANGED <<files, runs, holder, relayVars, edit, restarts>>

\* The ledger is memory: only handed-off running occurrences survive, adopted or
\* failed as interrupted.
Restart ==
  /\ restarts < MaxRestarts
  /\ restarts' = restarts + 1
  /\ \E kept \in SUBSET {r \in Ids : runs[r].status = "running"}, s \in {"running", "held"} :
       runs' = [r \in Ids |-> IF r \in kept THEN [runs[r] EXCEPT !.status = s] ELSE NoRun]
  /\ tick' = IdleTick /\ trig' = IdleTrig
  /\ holder' = IF holder \in Relay THEN None ELSE holder
  /\ UNCHANGED <<now, files, edit>>

TickStep == \/ TickBegin \/ TickSkip \/ TickBusy \/ TickLock \/ TickCreate \/ TickAdvance
            \/ TickAbandon
EditStep(e) == \/ EditBegin(e) \/ EditCheck(e) \/ EditReject(e) \/ EditPublish(e)
               \/ EditWrite(e) \/ EnableRead(e) \/ EnableWrite(e) \/ Remove(e) \/ Crash(e)

Next ==
  \/ TickStep
  \/ (\E k \in Keys : TriggerBegin(k)) \/ TriggerPreflight \/ TriggerLock \/ TriggerCreate \/ TriggerReject
  \/ \E e \in Editors : EditStep(e)
  \/ \E r \in Ids : StartRun(r) \/ CancelRun(r) \/ EndRun(r) \/ RetryRun(r)
  \/ FallsDue \/ Restart

Spec == Init /\ [][Next]_vars

(***************************************************************************)
(* Properties                                                              *)
(***************************************************************************)
\* Types: the definition, its cursors and ledger records, and what the tick, the
\* trigger and each CLI process carry from one of their awaits to the next.
TypeOK ==
  /\ now \in 0..MaxTime
  /\ def \in [rev : Revs, enabled : BOOLEAN, cont : SUBSET Ids] \cup {None}
  /\ cursor \in [Revs -> Slots \cup {None}]
  /\ runs \in [Ids -> [status : Statuses, rev : Revs]]
  /\ holder \in Editors \cup Relay \cup {None}
  /\ tick \in [pc : {"idle", "due", "locked", "created"}, rev : Revs, next : Slots,
               future : Slots]
  /\ trig \in [pc : {"idle", "gated", "checked", "locked"}, rev : Revs,
               key : Keys \cup {None}, previous : Slots]
  /\ edit \in [Editors -> [pc : {"idle", "based", "checked", "rejected", "published",
                                 "enable"},
                           rev : Revs, enabled : BOOLEAN, cont : SUBSET Ids, next : Slots]]
  /\ restarts \in 0..MaxRestarts

\* However a slot falls due, a key is repeated or a failure retried, one
\* occurrence of the task is queued or running at a time.
OneInFlight == \A r, s \in InFlight : r = s

\* "An edit never disrupts an occurrence that is already queued or running"
\* (docs/scheduling.md): while the schedule exists, startJob still finds every
\* such occurrence current.
InFlightIsCurrent == def # None => \A r \in InFlight : OccurrenceOf(r)

\* A due slot becomes an occurrence of one revision only: an edit between its
\* dispatch and its end does not queue it once more.
OncePerSlot ==
  \A u, v \in Revs, t \in Slots :
    runs[<<u, t>>].status # "none" /\ runs[<<v, t>>].status # "none" => u = v

\* "A crash cannot expose a new revision with a missing cursor that falls back to
\* the trigger's historical start" (save in scheduler.ts).
CursorIsPublished == def # None /\ def.rev > 1 => cursor[def.rev] # None

\* One occurrence at a time, one per slot, still current, of a schedule that has
\* its cursor.
OccurrencesAreSound ==
  TypeOK /\ OneInFlight /\ OncePerSlot /\ InFlightIsCurrent /\ CursorIsPublished

\* Definition writes are not lost: a pause or resume keeps the revision, an edit
\* keeps the schedule paused or enabled, and nothing brings a removed one back.
NoLostUpdate ==
  [][def' # def /\ def' # None =>
       /\ def # None
       /\ \/ def'.rev = def.rev /\ def'.cont = def.cont
          \/ def'.rev = def.rev + 1 /\ def'.enabled = def.enabled]_vars

\* An occurrence is queued only for the revision now saved, and never while the
\* schedule is paused or removed.
QueuedIsCurrent ==
  [][\A r \in Ids : runs[r].status = "none" /\ runs'[r].status = "queued" =>
       def # None /\ def.enabled /\ runs'[r].rev = def.rev]_vars

\* The definition last written rules.
DefinitionRules == NoLostUpdate /\ QueuedIsCurrent

\* A due slot of a schedule that stays enabled, unchanged and not held is
\* dispatched, whatever CLI processes do with the lock.
DueIsDispatched ==
  \A v \in Revs, t \in 1..MaxTime :
    LET due == def # None /\ def.rev = v /\ def.enabled /\ PendingOccurrence(v) = t IN
    (due /\ t <= now) ~> (~due \/ HeldBy # {})

\* The relay ticks every second, CLI processes hold the lock for milliseconds (so a
\* tick that keeps trying finds it free), occurrences are run to their end, and
\* the owner does not retry one failure for ever.
Fairness ==
  /\ SF_vars(TickBegin /\ holder = None) /\ SF_vars(TickLock) /\ SF_vars(TickCreate)
  /\ WF_vars(TickAdvance) /\ WF_vars(TickAbandon)
  /\ WF_vars(TriggerPreflight) /\ WF_vars(TriggerCreate \/ TriggerReject)
  /\ \A e \in Editors : WF_vars(EditReject(e) \/ EditWrite(e) \/ EnableWrite(e))
  /\ SF_vars(\E r \in Ids : StartRun(r)) /\ WF_vars(\E r \in Ids : EndRun(r))
  /\ <>[][\A r \in Ids : ~RetryRun(r)]_vars

FairSpec == Spec /\ Fairness
=============================================================================
