------------------------------- MODULE Relay -------------------------------
(***************************************************************************)
(* Run dispatch of one agent's relay (src/src/index.ts over the ledger of  *)
(* src/src/runs.ts).                                                       *)
(*                                                                         *)
(* Every run is a ledger record that moves queued -> running -> terminal.  *)
(* Runs without a `scheduled' origin share one serial foreground lane      *)
(* (activeChild); scheduled occurrences run beside it, at most Cap at a    *)
(* time (background).  A run has an ordered list of setups; a setup that   *)
(* the provider rejects before work began hands the same run, still in its *)
(* slot, to the next setup.                                                *)
(*                                                                         *)
(* JavaScript runs one continuation at a time, so a step of the model is   *)
(* the code between two awaits that another actor could fall into.  Most   *)
(* of dispatch runs inside startLock, a FIFO mutex; what does not (owner   *)
(* stop, the revocation sweep, process exits, the updater's pause file,    *)
(* changes of authority by other processes) interleaves with it.           *)
(*                                                                         *)
(* A definition commented "Mutant of D" is D with a plausible bug; no      *)
(* action uses it.  It records which mistake a property would catch.       *)
(***************************************************************************)
EXTENDS Integers, FiniteSets

CONSTANTS
  Foreground,     \* runs of the serial chat lane
  Scheduled,      \* occurrences of schedules (run.scheduled)
  Public,         \* foreground runs of any-conversation tasks (run.taskId)
  Task,           \* Task[r]: the schedule of an occurrence (run.scheduled.id)
  Setups,         \* Setups[r]: how many ordered setups the run captured
  Cap,            \* config.scheduledConcurrency
  HostTransport,  \* executors run on the host and outlive the relay
  Revocable,      \* bound: the authorities that may be withdrawn, <<run, authority>>
  Pausable,       \* bound: occurrences whose schedule may be paused and resumed
  MaxLaunches,    \* bound: executors started for one run
  MaxRestarts,    \* bound: relay restarts
  MayLoseRecord,  \* bound: whether the hand-off record may be unreadable
  WithUpdater,    \* bound: whether a host updater is at work
  BootTriggers,   \* bound: whether a trigger may reach a relay that is still starting
  None

Runs     == Foreground \cup Scheduled
Children == Runs \X (1..MaxLaunches)   \* <<run, n>>: its n-th executor

\* What a run works by: the owner it was accepted from, its application binding
\* or task grant, and for an occurrence the schedule that queued it.
Authorities == {"owner", "binding", "schedule"}

ASSUME RunsAssumption ==
  /\ Foreground \cap Scheduled = {}
  /\ Public \subseteq Foreground
  /\ Revocable \subseteq Runs \X Authorities /\ Pausable \subseteq Scheduled
  /\ \A r \in Foreground : <<r, "schedule">> \notin Revocable
  /\ Setups \in [Runs -> Nat \ {0}]
  /\ DOMAIN Task = Scheduled
ASSUME BoundsAssumption ==
  /\ Cap \in Nat \ {0}
  /\ MaxLaunches \in Nat
  /\ MaxRestarts \in Nat
  /\ HostTransport \in BOOLEAN
  /\ WithUpdater \in BOOLEAN
  /\ BootTriggers \in BOOLEAN
  /\ MayLoseRecord \in BOOLEAN
ASSUME NoneAssumption == None \notin Runs /\ None \notin Children

VARIABLES
  status,       \* the ledger: status of every run record
  quotaHeld,    \* queued runs waiting for quota, and those failed on quota alone
  tried,        \* index of the last setup of the run's current attempt round
  launches,     \* executors started for the run so far
  fg,           \* activeChild
  bg,           \* background: occurrence -> child
  lock,         \* startLock and what its holder is doing
  advancing,    \* runs whose completion waits to launch their next setup
  proc,         \* executor processes
  watched,      \* children whose process or observer the relay still sees open
  killed,       \* live executors told to terminate
  stopped,      \* stoppedRuns
  ownerStopped, \* ownerStopped
  cancelMark,   \* occurrences with a .cancel file
  stopQ,        \* children the running /stop has yet to reach
  pend,         \* the child whose termination /stop is awaiting
  sweep,        \* foreground run the revocation sweep is checking
  phase,        \* life of the relay process
  handedOff,    \* handedOff: children left to the next relay
  file,         \* run-handoff.json, as the attempts it names
  adopting,     \* handed-off attempts start() has not attached yet
  restarts,
  withdrawn,    \* authorities withdrawn from runs
  enabled,      \* occurrences whose schedule is not paused
  update        \* the host updater and its upgrade-pause.json

ledger == <<status, quotaHeld, tried, launches>>
lanes  == <<fg, bg>>
procs  == <<proc, watched, killed>>
stops  == <<stopped, ownerStopped, cancelMark, stopQ, pend>>
life   == <<phase, handedOff, file, adopting, restarts>>
world  == <<withdrawn, enabled, update>>
vars   == <<ledger, lanes, lock, advancing, procs, stops, sweep, life, world>>

Statuses == {"absent", "queued", "running", "completed", "failed", "cancelled"}
Terminal == {"completed", "failed", "cancelled"}
Phases   == {"up", "stopping", "draining", "closing", "down", "booting",
              "starting"}

Free  == [op |-> "free", run |-> None]
Locks == [op : {"free", "admit", "launch", "handoff"}, run : Runs \cup {None}]

(***************************************************************************)
(* Helpers                                                                 *)
(***************************************************************************)
InFlight(r)   == status[r] \in {"queued", "running"}
\* Mutant of Alone: queued occurrences of the task are not counted.
AloneRunning(r) == \A q \in Scheduled \ {r} : Task[q] = Task[r] => status[q] # "running"
Alone(r)      == \A q \in Scheduled \ {r} : Task[q] = Task[r] => ~InFlight(q)
ForegroundRunning == \E r \in Foreground : status[r] = "running"
Background    == {r \in Scheduled : bg[r] # None}
SlotChildren  == {bg[r] : r \in Background} \cup ({fg} \ {None})
Slot(r)       == IF r \in Scheduled THEN bg[r] ELSE fg
ShuttingDown  == phase \in {"stopping", "draining", "closing", "down"}
Ordered(r)    == r \in Scheduled \/ Setups[r] > 1
Owned(r)      == <<r, "owner">> \notin withdrawn     \* ownsRun
Bound(r)      == <<r, "binding">> \notin withdrawn   \* bindings.authorize, tasks.authorize
Current(r)    == <<r, "schedule">> \notin withdrawn  \* Scheduler.current
RunCancelled(r) == r \in stopped \/ (r \in Scheduled /\ r \in cancelMark)
\* authorized: an occurrence is asked for its schedule, other work for its binding.
Authorized(r) == Owned(r) /\ IF r \in Scheduled THEN Current(r) ELSE Bound(r)
MayAdvance(r) == ~ShuttingDown /\ ~RunCancelled(r) /\ Authorized(r)
OwnerWaiting  == \E r \in Foreground \ Public : status[r] = "queued"
\* Mutant of Locked: startJob goes on without waiting for the start lock.
Unlocked(op, r) == status[r] = IF op = "admit" THEN "queued" ELSE "running"
Locked(op, r) == lock = [op |-> op, run |-> r]

Live == {c \in Children : proc[c] = "live"}

\* terminateJob; on a child that already closed it has nothing left to do.
Kill(C)  == killed' = killed \cup (C \cap watched \cap Live)

\* runs.patch of one record's status.
Patch(r, s) == status' = [status EXCEPT ![r] = s]

\* The run's slot in its lane; free() leaves it empty.
Occupy(r, c) ==
  IF r \in Scheduled THEN bg' = [bg EXCEPT ![r] = c] /\ UNCHANGED fg
                     ELSE fg' = c /\ UNCHANGED bg

Init ==
  /\ status = [r \in Runs |-> "absent"]
  /\ quotaHeld = {}
  /\ tried = [r \in Runs |-> 0]
  /\ launches = [r \in Runs |-> 0]
  /\ fg = None
  /\ bg = [r \in Scheduled |-> None]
  /\ lock = Free
  /\ advancing = {}
  /\ proc = [c \in Children |-> "none"]
  /\ watched = {} /\ killed = {}
  /\ stopped = {} /\ ownerStopped = {} /\ cancelMark = {}
  /\ stopQ = {} /\ pend = None
  /\ sweep = None
  /\ phase = "up"
  /\ handedOff = {} /\ file = {} /\ adopting = {}
  /\ restarts = 0
  /\ withdrawn = {} /\ enabled = Scheduled
  /\ update = "open"

(***************************************************************************)
(* Admission: RunStore.create and startJob                                 *)
(***************************************************************************)
\* Intake, a tick, a task wake or a session close appends a queued record;
\* an occurrence is created exclusively.  A trigger needs no more than the
\* delivery socket, which a starting relay serves first of all.
Create(r) ==
  /\ \/ phase \in {"up", "stopping"}
     \/ BootTriggers /\ r \in Scheduled /\ phase \in {"booting", "starting"}
  /\ status[r] = "absent"
  /\ r \in Scheduled => Alone(r)
  /\ Patch(r, "queued")
  /\ UNCHANGED <<quotaHeld, tried, launches, lanes, lock, advancing, procs,
                 stops, sweep, life, world>>

\* startJob takes the lock and passes the checks it makes first.
Admit(r) ==
  /\ lock = Free /\ phase = "up" /\ update = "open"
  /\ status[r] = "queued"
  /\ r \in Foreground => ~ForegroundRunning
  /\ lock' = [op |-> "admit", run |-> r]
  /\ UNCHANGED <<ledger, lanes, advancing, procs, stops, sweep, life, world>>

\* Its owner, binding, task or schedule no longer authorizes it, or it was cancelled.
AdmitReject(r) ==
  /\ Locked("admit", r)
  /\ \/ ~Owned(r) /\ Patch(r, "failed")
     \/ Owned(r) /\ ~(Bound(r) /\ Current(r)) /\ Patch(r, "cancelled")
     \/ Owned(r) /\ r \in Scheduled \cap cancelMark /\ Patch(r, "cancelled")
  /\ quotaHeld' = quotaHeld \ {r}
  /\ lock' = Free
  /\ UNCHANGED <<tried, launches, lanes, advancing, procs, stops,
                 sweep, life, world>>

\* It stays queued: paused, at capacity or waiting for quota; lane occupied.
AdmitDefer(r) ==
  /\ Locked("admit", r)
  /\ Owned(r) /\ Bound(r) /\ Current(r)
  /\ r \in Foreground => fg # None
  /\ r \in Scheduled => r \notin cancelMark
  /\ \E waits \in SUBSET ({r} \cap Scheduled) : quotaHeld' = quotaHeld \cup waits
  /\ lock' = Free
  /\ UNCHANGED <<status, tried, launches, lanes, advancing, procs, stops, sweep, life, world>>

MayStart(r) ==
  /\ Locked("admit", r)
  /\ Owned(r) /\ Bound(r) /\ Current(r)
  /\ r \in Foreground => fg = None
  /\ r \in Scheduled => /\ r \in enabled /\ r \notin cancelMark
                        /\ Cardinality(Background) < Cap

\* The run is marked running and its first setup not known exhausted chosen.
AdmitStart(r) ==
  /\ MayStart(r)
  /\ Ordered(r) => MayAdvance(r)
  /\ launches[r] < MaxLaunches
  /\ Patch(r, "running")
  /\ \E s \in 1..Setups[r] : tried' = [tried EXCEPT ![r] = s]
  /\ quotaHeld' = quotaHeld \ {r}
  /\ lock' = [op |-> "launch", run |-> r]
  /\ UNCHANGED <<launches, lanes, advancing, procs, stops, sweep,
                 life, world>>

\* Mutant of GiveUp: any run, not only an occurrence, goes back to wait for quota.
GiveUpAnyone(r) ==
  \/ Patch(r, "failed") /\ UNCHANGED quotaHeld
  \/ Owned(r) /\ Current(r) /\ Patch(r, "queued") /\ quotaHeld' = quotaHeld \cup {r}

\* startFailed after SetupsUnavailableError: an occurrence whose logins are all
\* cooling down returns to the queue, anything else fails.
GiveUp(r) ==
  \/ /\ Patch(r, "failed")
     /\ \E quota \in SUBSET ({r} \cap Scheduled) : quotaHeld' = (quotaHeld \ {r}) \cup quota
  \/ /\ r \in Scheduled /\ Owned(r) /\ Current(r) /\ r \notin cancelMark
     /\ Patch(r, "queued")
     /\ quotaHeld' = quotaHeld \cup {r}

\* startFailed gives back the slot an earlier attempt may hold.
ReleaseSlot(r) ==
  /\ stopped' = stopped \ {r}
  /\ bg' = IF r \in Scheduled THEN [bg EXCEPT ![r] = None] ELSE bg
  /\ fg' = IF r \in Foreground /\ fg # None /\ fg[1] = r THEN None ELSE fg

\* A first launch with no setup to try, or overtaken by a shutdown.
AdmitFail(r) ==
  /\ MayStart(r)
  /\ Ordered(r)
  /\ \/ MayAdvance(r) /\ r \in Scheduled /\ GiveUp(r)
     \/ ~MayAdvance(r) /\ Patch(r, "failed") /\ quotaHeld' = quotaHeld \ {r}
  /\ ReleaseSlot(r)
  /\ lock' = Free
  /\ UNCHANGED <<tried, launches, advancing, procs, ownerStopped, cancelMark,
                 stopQ, pend, sweep, life, world>>

(***************************************************************************)
(* Launching under the lock: launchSetup and the first lines of watch      *)
(***************************************************************************)
\* startExecutorJob: the attempt's executor is a new child of the relay.
Spawn(r, c) == launches' = [launches EXCEPT ![r] = @ + 1] /\ proc' = [proc EXCEPT ![c] = "live"]

\* The executor is up: its child takes the slot.  A stop that arrived while it
\* was launching reached only the previous attempt, so it is stopped here.
LaunchOk(r) ==
  LET c == <<r, launches[r] + 1>> IN
  /\ Locked("launch", r)
  /\ launches[r] < MaxLaunches
  /\ Spawn(r, c)
  /\ watched' = watched \cup {c}
  /\ Occupy(r, c)
  /\ IF RunCancelled(r)
       THEN ownerStopped' = ownerStopped \cup {c} /\ killed' = killed \cup {c}
       ELSE UNCHANGED <<ownerStopped, killed>>
  /\ lock' = Free
  /\ UNCHANGED <<status, quotaHeld, tried, advancing, stopped, cancelMark, stopQ,
                 pend, sweep, life, world>>

\* CliUnavailableError: nothing ran, so the next ordered setup is tried.
LaunchNext(r) ==
  /\ Locked("launch", r)
  /\ Ordered(r) /\ MayAdvance(r)
  /\ \E s \in tried[r]+1..Setups[r] : tried' = [tried EXCEPT ![r] = s]
  /\ UNCHANGED <<status, quotaHeld, launches, lanes, lock, advancing, procs,
                 stops, sweep, life, world>>

\* Any other launch error, a refused advance, or no setup left.
LaunchFail(r) ==
  /\ Locked("launch", r)
  /\ \/ Patch(r, "failed") /\ UNCHANGED quotaHeld
     \/ Ordered(r) /\ MayAdvance(r) /\ GiveUp(r)
  /\ ReleaseSlot(r)
  /\ lock' = Free
  /\ UNCHANGED <<tried, launches, advancing, procs, ownerStopped, cancelMark,
                 stopQ, pend, sweep, life, world>>

(***************************************************************************)
(* Executors and their observers                                           *)
(***************************************************************************)
\* The executor ends, by itself or because it was told to.
Exit(c) ==
  /\ proc[c] = "live"
  /\ proc' = [proc EXCEPT ![c] = "exited"]
  /\ killed' = killed \ {c}
  /\ UNCHANGED <<ledger, lanes, lock, advancing, watched, stops, sweep, life, world>>

\* The relay's child closes: it reported the exit, and a host run's event file
\* is gone with it.
Report(c) ==
  /\ c \in watched /\ proc[c] = "exited"
  /\ proc' = [proc EXCEPT ![c] = "reaped"]
  /\ watched' = watched \ {c}
  /\ UNCHANGED <<ledger, lanes, lock, advancing, killed, stops, sweep, life, world>>

\* A host run's observer leaves before its executor: terminated together with
\* it, or giving up on a silent host after asking it to cancel the run.
ObserverLeaves(c) ==
  /\ HostTransport
  /\ c \in watched /\ proc[c] = "live"
  /\ watched' = watched \ {c}
  /\ killed' = killed \cup {c}
  /\ UNCHANGED <<ledger, lanes, lock, advancing, proc, stops, sweep, life, world>>

(***************************************************************************)
(* Completion of a child, under the lock                                   *)
(***************************************************************************)
\* Mutant of Closed: only the first attempt's completion is handled.
ClosedFirst(c) == lock = Free /\ c \in SlotChildren \ watched /\ c[1] \notin advancing /\ c[2] = 1

Closed(c) == /\ lock = Free
             /\ c \in SlotChildren /\ c \notin watched
             /\ c[1] \notin advancing
WasStopped(c) == c \in ownerStopped \/ RunCancelled(c[1])

\* finalize and free.
Complete(c) ==
  /\ Closed(c) /\ c \notin handedOff
  /\ \E s \in IF WasStopped(c) THEN {"cancelled"} ELSE {"completed", "failed"} :
       Patch(c[1], s)
  /\ stopped' = stopped \ {c[1]}
  /\ Occupy(c[1], None)
  /\ ownerStopped' = ownerStopped \ {c}
  /\ UNCHANGED <<quotaHeld, tried, launches, lock, advancing, procs, cancelMark, stopQ, pend, sweep, life, world>>

\* Cleanup or settling the session threw.
CompleteBroken(c) ==
  /\ Closed(c) /\ c \notin handedOff
  /\ Patch(c[1], IF c \in ownerStopped THEN "cancelled" ELSE "failed")
  /\ Occupy(c[1], None)
  /\ UNCHANGED <<quotaHeld, tried, launches, lock, advancing, procs, stops, sweep,
                 life, world>>

\* An eligible failure keeps the slot for the next setup and lets the lock go.
CompleteRejected(c) ==
  /\ Closed(c) /\ c \notin handedOff
  /\ ~WasStopped(c) /\ Ordered(c[1])
  /\ advancing' = advancing \cup {c[1]}
  /\ UNCHANGED <<ledger, lanes, lock, procs, stops, sweep, life, world>>

\* A child left to the next relay: only the slot is given back here.
CompleteHandedOff(c) ==
  /\ Closed(c) /\ c \in handedOff
  /\ Occupy(c[1], None)
  /\ UNCHANGED <<ledger, lock, advancing, procs, stops, sweep, life, world>>

(***************************************************************************)
(* The next setup, under the lock again                                    *)
(***************************************************************************)
Advance(r) ==
  /\ lock = Free /\ r \in advancing
  /\ MayAdvance(r) /\ launches[r] < MaxLaunches
  /\ \E s \in tried[r]+1..Setups[r] : tried' = [tried EXCEPT ![r] = s]
  /\ advancing' = advancing \ {r}
  /\ lock' = [op |-> "launch", run |-> r]
  /\ UNCHANGED <<status, quotaHeld, launches, lanes, procs, stops, sweep, life, world>>

\* advance() returned nothing: stopped, revoked or shutting down meanwhile, or
\* owner-present work that had begun and has no setup left.
AdvanceEnd(r) ==
  /\ lock = Free /\ r \in advancing
  /\ ~MayAdvance(r) \/ r \in Foreground
  /\ Patch(r, IF RunCancelled(r) THEN "cancelled" ELSE "failed")
  /\ stopped' = stopped \ {r}
  /\ Occupy(r, None)
  /\ advancing' = advancing \ {r}
  /\ UNCHANGED <<quotaHeld, tried, launches, lock, procs, ownerStopped, cancelMark,
                 stopQ, pend, sweep, life, world>>

AdvanceUnavailable(r) ==
  /\ lock = Free /\ r \in advancing
  /\ MayAdvance(r)
  /\ GiveUp(r)
  /\ ReleaseSlot(r)
  /\ advancing' = advancing \ {r}
  /\ UNCHANGED <<tried, launches, lock, procs, ownerStopped, cancelMark, stopQ, pend,
                 sweep, life, world>>

(***************************************************************************)
(* Owner commands                                                          *)
(***************************************************************************)
\* /stop snapshots the children and marks the first one, the foreground's if
\* there is one; the others wait while each termination is awaited.
StopRequest(c) ==
  /\ phase = "up" /\ stopQ = {} /\ pend = None
  /\ Background # {} \/ \E r \in Foreground : status[r] = "running" /\ launches[r] > 0
  /\ c \in SlotChildren
  /\ fg # None => c = fg
  /\ pend' = c
  /\ stopQ' = SlotChildren \ {c}
  /\ stopped' = stopped \cup {c[1]}
  /\ UNCHANGED <<ledger, lanes, lock, advancing, procs, ownerStopped, cancelMark,
                 sweep, life, world>>

StopNext(c) ==
  /\ pend = None /\ c \in stopQ
  /\ pend' = c
  /\ stopQ' = stopQ \ {c}
  /\ stopped' = stopped \cup {c[1]}
  /\ UNCHANGED <<ledger, lanes, lock, advancing, procs, ownerStopped, cancelMark,
                 sweep, life, world>>

\* terminateJob answered true.
StopAck ==
  /\ pend # None
  /\ Kill({pend})
  /\ ownerStopped' = ownerStopped \cup {pend}
  /\ cancelMark' = cancelMark \cup ({pend[1]} \cap Scheduled)
  /\ pend' = None
  /\ UNCHANGED <<ledger, lanes, lock, advancing, proc, watched, stopped, stopQ,
                 sweep, life, world>>

\* The host's cancel file could not be written: the work goes on and the owner
\* is told so.
StopRefused ==
  /\ HostTransport /\ pend # None /\ pend \in watched
  /\ stopped' = stopped \ {pend[1]}
  /\ pend' = None
  /\ UNCHANGED <<ledger, lanes, lock, advancing, procs, ownerStopped, cancelMark,
                 stopQ, sweep, life, world>>

\* An application cancels one run, under the lock.
CancelQueued(r) ==
  /\ lock = Free /\ phase \in {"up", "stopping"}
  /\ status[r] = "queued"
  /\ Patch(r, "cancelled")
  /\ UNCHANGED <<quotaHeld, tried, launches, lanes, lock, advancing, procs, stops,
                 sweep, life, world>>

CancelRunning(r) ==
  /\ lock = Free /\ phase \in {"up", "stopping"}
  /\ status[r] = "running" /\ Slot(r) # None
  /\ IF r \in Scheduled
       THEN cancelMark' = cancelMark \cup {r} /\ UNCHANGED <<stopped, ownerStopped>>
       ELSE /\ stopped' = stopped \cup {r}
            /\ ownerStopped' = ownerStopped \cup {fg}
            /\ UNCHANGED cancelMark
  /\ Kill({Slot(r)})
  /\ UNCHANGED <<ledger, lanes, lock, advancing, proc, watched, stopQ, pend, sweep,
                 life, world>>

\* cancel RUN_ID from the scheduling CLI only leaves the marker.
MarkCancelled(r) ==
  /\ phase # "down"
  /\ r \in Scheduled /\ InFlight(r)
  /\ cancelMark' = cancelMark \cup {r}
  /\ UNCHANGED <<ledger, lanes, lock, advancing, procs, stopped, ownerStopped, stopQ,
                 pend, sweep, life, world>>

\* /cancel clears everything still queued and leaves active work alone.
CancelPending ==
  /\ lock = Free /\ phase \in {"up", "stopping"}
  /\ \E r \in Runs : status[r] = "queued"
  /\ status' = [r \in Runs |-> IF status[r] = "queued" THEN "cancelled" ELSE status[r]]
  /\ UNCHANGED <<quotaHeld, tried, launches, lanes, lock, advancing, procs, stops,
                 sweep, life, world>>

\* Mutant of Retryable: any failed occurrence is.
RetryableFailure(r) ==
  /\ r \in Scheduled /\ status[r] = "failed"
  /\ Owned(r) /\ Bound(r) /\ Current(r) /\ r \in enabled /\ r \notin cancelMark
  /\ Alone(r)

\* /retry_quota and its socket operation requeue, under the lock, an occurrence
\* that failed on quota alone.
Retryable(r) ==
  /\ r \in Scheduled \cap quotaHeld /\ status[r] = "failed"
  /\ Owned(r) /\ Bound(r) /\ Current(r) /\ r \in enabled /\ r \notin cancelMark
  /\ Alone(r)

RetryQuota(r) ==
  /\ lock = Free /\ phase \in {"up", "stopping"}
  /\ Retryable(r)
  /\ Patch(r, "queued")
  /\ UNCHANGED <<quotaHeld, tried, launches, lanes, lock, advancing, procs, stops, sweep,
                 life, world>>

(***************************************************************************)
(* The revocation sweep of drainSources, outside the lock                  *)
(***************************************************************************)
\* It reads the running foreground run, then awaits the checks of its authority.
SweepBegin(r) ==
  /\ phase = "up" /\ sweep = None
  /\ r \in Foreground /\ status[r] = "running" /\ fg # None
  /\ sweep' = r
  /\ UNCHANGED <<ledger, lanes, lock, advancing, procs, stops, life, world>>

Objection(r) == ~Owned(r) \/ ~Bound(r) \/ (r \in Public /\ OwnerWaiting)

SweepPass ==
  /\ sweep # None
  /\ ~Objection(sweep) \/ fg = None
  /\ sweep' = None
  /\ UNCHANGED <<ledger, lanes, lock, advancing, procs, stops, life, world>>

\* It then stops whatever child is the foreground's by now.
SweepStop ==
  /\ sweep # None /\ fg # None
  /\ Objection(sweep)
  /\ ownerStopped' = ownerStopped \cup {fg}
  /\ Kill({fg})
  /\ sweep' = None
  /\ UNCHANGED <<ledger, lanes, lock, advancing, proc, watched, stopped, cancelMark,
                 stopQ, pend, life, world>>

\* Mutant of Condemned: cancel markers are not read.
CondemnedRevoked(r) == ~Owned(r) \/ ~Bound(r)
\* Nobody asks for the schedule here: the running work of a removed one goes on.
Condemned(r) == ~Owned(r) \/ ~Bound(r) \/ r \in cancelMark

\* Background children of revoked or cancelled occurrences.
SweepBackground(r) ==
  /\ phase = "up"
  /\ r \in Background /\ bg[r] \in watched
  /\ Condemned(r)
  /\ ownerStopped' = IF Owned(r) /\ Bound(r) THEN ownerStopped ELSE ownerStopped \cup {bg[r]}
  /\ Kill({bg[r]})
  /\ UNCHANGED <<ledger, lanes, lock, advancing, proc, watched, stopped, cancelMark,
                 stopQ, pend, sweep, life, world>>

(***************************************************************************)
(* Other processes: authority, schedule pauses, the host updater           *)
(***************************************************************************)
\* The owner is revoked or replaced, the binding or grant ends, or the schedule is
\* removed (an edit leaves queued and running occurrences theirs).
Revoke(r) ==
  /\ \E a \in Authorities : /\ <<r, a>> \in Revocable \ withdrawn
                             /\ withdrawn' = withdrawn \cup {<<r, a>>}
  /\ UNCHANGED <<ledger, lanes, lock, advancing, procs, stops, sweep, life, enabled, update>>

SetEnabled(r) ==
  /\ r \in Pausable
  /\ enabled' = IF r \in enabled THEN enabled \ {r} ELSE enabled \cup {r}
  /\ UNCHANGED <<ledger, lanes, lock, advancing, procs, stops, sweep, life, withdrawn, update>>

\* withIdleUpgrade writes the pause file, asks the relay for its status behind
\* the start lock, applies the upgrade only when nothing runs, and always
\* removes the file.
Pause ==
  /\ WithUpdater /\ update = "open"
  /\ update' = "paused"
  /\ UNCHANGED <<ledger, lanes, lock, advancing, procs, stops, sweep, life, withdrawn, enabled>>

HostBusy == HostTransport /\ Live # {}

\* Mutant of ObserveIdle: the relay answers without waiting for the start lock.
ObserveIdleAtOnce ==
  /\ update = "paused" /\ phase = "up"
  /\ \A r \in Runs : status[r] # "running"
  /\ update' = "idle"
  /\ UNCHANGED <<ledger, lanes, lock, advancing, procs, stops, sweep, life, withdrawn, enabled>>

ObserveIdle ==
  /\ update = "paused" /\ phase = "up" /\ lock = Free
  /\ \A r \in Runs : status[r] # "running"
  /\ ~HostBusy
  /\ update' = "idle"
  /\ UNCHANGED <<ledger, lanes, lock, advancing, procs, stops, sweep, life, withdrawn, enabled>>

Unpause ==
  /\ update # "open"
  /\ update' = "open"
  /\ UNCHANGED <<ledger, lanes, lock, advancing, procs, stops, sweep, life, withdrawn, enabled>>

(***************************************************************************)
(* Graceful stop, hand-off and adoption                                    *)
(***************************************************************************)
BeginStop ==
  /\ phase = "up" /\ restarts < MaxRestarts
  /\ phase' = IF HostTransport THEN "stopping" ELSE "draining"
  /\ UNCHANGED <<ledger, lanes, lock, advancing, procs, stops, sweep, handedOff, file,
                 adopting, restarts, world>>

Handable == {c \in SlotChildren : /\ status[c[1]] = "running"
                                  /\ c \notin ownerStopped /\ c \in watched}

\* Under the lock the running host work is recorded for the next relay ...
HandoffSave ==
  /\ phase = "stopping" /\ lock = Free
  /\ Handable # {}
  /\ file' = Handable
  /\ lock' = [op |-> "handoff", run |-> None]
  /\ UNCHANGED <<ledger, lanes, advancing, procs, stops, sweep, phase, handedOff,
                 adopting, restarts, world>>

\* ... and its observers are killed, leaving no cancel marker.
HandoffKill ==
  /\ lock = [op |-> "handoff", run |-> None]
  /\ handedOff' = file
  /\ watched' = watched \ file
  /\ lock' = Free
  /\ phase' = "draining"
  /\ UNCHANGED <<ledger, lanes, advancing, proc, killed, stops, sweep, file, adopting,
                 restarts, world>>

\* Nothing to hand off, or the record could not be written.
HandoffSkip ==
  /\ phase = "stopping" /\ lock = Free
  /\ phase' = "draining"
  /\ UNCHANGED <<ledger, lanes, lock, advancing, procs, stops, sweep, handedOff, file,
                 adopting, restarts, world>>

\* Mutant of TerminateAll: only the foreground child is terminated.
TerminateForeground ==
  /\ phase = "draining" /\ lock = Free /\ sweep = None
  /\ Kill({fg} \ handedOff)
  /\ phase' = "closing"
  /\ UNCHANGED <<ledger, lanes, lock, advancing, proc, watched, stops, sweep, handedOff,
                 file, adopting, restarts, world>>

\* In-flight drains end, then every child still owned here is terminated.
TerminateAll ==
  /\ phase = "draining" /\ lock = Free /\ sweep = None
  /\ Kill(SlotChildren \ handedOff)
  /\ phase' = "closing"
  /\ UNCHANGED <<ledger, lanes, lock, advancing, proc, watched, stops, sweep, handedOff,
                 file, adopting, restarts, world>>

\* All completions are done and the process ends: its memory is gone.
Down ==
  /\ phase = "closing" /\ lock = Free
  /\ SlotChildren = {} /\ advancing = {}
  /\ phase' = "down"
  /\ status' = [r \in Runs |-> "absent"]
  /\ quotaHeld' = {}
  /\ tried' = [r \in Runs |-> IF \E c \in file : c[1] = r THEN tried[r] ELSE 0]
  /\ stopped' = {} /\ ownerStopped' = {} /\ stopQ' = {} /\ pend' = None
  /\ handedOff' = {}
  /\ UNCHANGED <<launches, lanes, lock, advancing, procs, cancelMark, sweep, file,
                 adopting, restarts, withdrawn, enabled, update>>

\* A new relay answers on its delivery socket.
Boot ==
  /\ phase = "down"
  /\ phase' = "booting"
  /\ UNCHANGED <<ledger, lanes, lock, advancing, procs, stops, sweep, handedOff, file,
                 adopting, restarts, world>>

Unknown(C) == {c \in C : status[c[1]] = "absent"}

\* It takes the record, or ignores one it cannot trust, and admits the runs it
\* has no other record of before it attaches any.
Start ==
  /\ phase = "booting"
  /\ \E taken \in IF MayLoseRecord THEN {file, {}} ELSE {file} :
       /\ adopting' = Unknown(taken)
       /\ status' = [r \in Runs |-> IF \E c \in Unknown(taken) : c[1] = r THEN "running"
                                                                     ELSE status[r]]
  /\ file' = {}
  /\ phase' = "starting"
  /\ restarts' = restarts + 1
  /\ UNCHANGED <<quotaHeld, tried, launches, lanes, lock, advancing, procs, stops,
                 sweep, handedOff, world>>

\* attachHostJob: the same executor under a new observer, nothing relaunched.  Of
\* its authority only the owner's is asked; the sweep asks for the rest.
Adopt(c) ==
  /\ phase = "starting" /\ lock = Free /\ c \in adopting
  /\ Owned(c[1])
  /\ c[1] \in Foreground => fg = None
  /\ proc[c] \in {"live", "exited"}
  /\ Occupy(c[1], c)
  /\ watched' = watched \cup {c}
  /\ IF RunCancelled(c[1])
       THEN ownerStopped' = ownerStopped \cup {c} /\ killed' = killed \cup ({c} \cap Live)
       ELSE UNCHANGED <<ownerStopped, killed>>
  /\ adopting' = adopting \ {c}
  /\ UNCHANGED <<ledger, lock, advancing, proc, stopped, cancelMark, stopQ, pend, sweep,
                 phase, handedOff, file, restarts, world>>

\* Mutant of AdoptFail: an attempt that cannot be adopted is skipped.
AdoptSkip(c) ==
  /\ phase = "starting" /\ lock = Free /\ c \in adopting
  /\ adopting' = adopting \ {c}
  /\ UNCHANGED <<ledger, lanes, lock, advancing, procs, stops, sweep, phase, handedOff,
                 file, restarts, world>>

\* Another owner, no free lane, or no trace of its executor: the outcome is
\* unknown and a host executor that may still run is told to stop.
AdoptFail(c) ==
  /\ phase = "starting" /\ lock = Free /\ c \in adopting
  /\ killed' = killed \cup ({c} \cap Live)
  /\ Patch(c[1], "failed")
  /\ adopting' = adopting \ {c}
  /\ UNCHANGED <<quotaHeld, tried, launches, lanes, lock, advancing, proc, watched,
                 stops, sweep, phase, handedOff, file, restarts, world>>

Started ==
  /\ phase = "starting" /\ adopting = {}
  /\ phase' = "up"
  /\ UNCHANGED <<ledger, lanes, lock, advancing, procs, stops, sweep, handedOff, file,
                 adopting, restarts, world>>

(***************************************************************************)
(* Specifications                                                          *)
(***************************************************************************)
RunStep(r) ==
  \/ Create(r) \/ Admit(r) \/ AdmitReject(r) \/ AdmitDefer(r) \/ AdmitStart(r)
  \/ AdmitFail(r) \/ LaunchOk(r) \/ LaunchNext(r) \/ LaunchFail(r)
  \/ Advance(r) \/ AdvanceEnd(r) \/ AdvanceUnavailable(r)
  \/ CancelQueued(r) \/ CancelRunning(r) \/ MarkCancelled(r) \/ RetryQuota(r)
  \/ SweepBegin(r) \/ SweepBackground(r) \/ Revoke(r) \/ SetEnabled(r)

ChildStep(c) ==
  \/ Exit(c) \/ Report(c) \/ ObserverLeaves(c)
  \/ Complete(c) \/ CompleteBroken(c) \/ CompleteRejected(c) \/ CompleteHandedOff(c)
  \/ StopRequest(c) \/ StopNext(c) \/ Adopt(c) \/ AdoptFail(c)

RelayStep ==
  \/ StopAck \/ StopRefused \/ CancelPending \/ SweepPass \/ SweepStop
  \/ Pause \/ ObserveIdle \/ Unpause
  \/ BeginStop \/ HandoffSave \/ HandoffKill \/ HandoffSkip \/ TerminateAll \/ Down
  \/ Boot \/ Start \/ Started

Next == (\E r \in Runs : RunStep(r)) \/ (\E c \in Children : ChildStep(c)) \/ RelayStep

Spec == Init /\ [][Next]_vars

(***************************************************************************)
(* Properties                                                              *)
(***************************************************************************)
\* Types: the run ledger, both lanes, startLock, executors and the relay's life.
\* Quota bookkeeping is kept for scheduled occurrences only.
TypeOK ==
  /\ status \in [Runs -> Statuses]
  /\ quotaHeld \subseteq Scheduled
  /\ tried \in [Runs -> Nat]
  /\ launches \in [Runs -> 0..MaxLaunches]
  /\ fg \in Children \cup {None}
  /\ bg \in [Scheduled -> Children \cup {None}]
  /\ lock \in Locks
  /\ advancing \subseteq Runs
  /\ proc \in [Children -> {"none", "live", "exited", "reaped"}]
  /\ watched \subseteq Children /\ killed \subseteq Children
  /\ stopped \subseteq Runs /\ ownerStopped \subseteq Children
  /\ cancelMark \subseteq Scheduled
  /\ stopQ \subseteq Children /\ pend \in Children \cup {None}
  /\ sweep \in Runs \cup {None}
  /\ phase \in Phases
  /\ handedOff \subseteq Children /\ file \subseteq Children /\ adopting \subseteq Children
  /\ restarts \in Nat
  /\ withdrawn \subseteq Revocable /\ enabled \subseteq Scheduled
  /\ update \in {"open", "paused", "idle"}

\* The foreground lane is serial: two chat, application or task runs are never
\* running together, through fallbacks, stops, hand-offs and adoptions.
ForegroundSerial ==
  \A q, r \in Foreground : status[q] = "running" /\ status[r] = "running" => q = r

\* Scheduled occurrences never exceed the configured concurrency.
BackgroundCapped == Cardinality({r \in Scheduled : status[r] = "running"}) <= Cap

\* "One occurrence at a time" (tick in scheduler.ts): a schedule has at most one
\* queued or running, however it was created, retried or handed over.
OneOccurrence ==
  \A q, r \in Scheduled :
    InFlight(q) /\ InFlight(r) /\ Task[q] = Task[r] => q = r

\* No executor runs on unnoticed: one that was not told to stop is the latest
\* attempt of a running run and holds its slot, or is named in the hand-off
\* record the next relay adopts.
ExecutorAccounted ==
  \A c \in Children : proc[c] = "live" /\ c \notin killed =>
    /\ c[2] = launches[c[1]]
    /\ c \in SlotChildren \cup file \cup adopting
    /\ phase \notin {"down", "booting"} => status[c[1]] = "running"

\* No run is left running with nobody to end it: it holds a slot, is being
\* launched under the lock, or is handed over.
RunningIsHeld ==
  \A r \in Runs : status[r] = "running" =>
    \/ Slot(r) # None /\ Slot(r)[1] = r
    \/ Locked("launch", r)
    \/ \E c \in adopting \cup handedOff : c[1] = r

\* A slot is never held by a run that has already ended.
SlotsAreRunning ==
  \A c \in SlotChildren : status[c[1]] = "running"

\* Occurrences keep apart, from one another and from the concurrency allowed.
OccurrencesApart == BackgroundCapped /\ OneOccurrence

\* Executors, slots and records agree: every live executor has its running run and
\* its slot, every running run somebody who ends it, every slot a running run.
Accounted == TypeOK /\ ExecutorAccounted /\ RunningIsHeld /\ SlotsAreRunning

\* While the updater believes the relay idle, no run is running: admission
\* closed before its status request was answered behind the start lock.
IdleStaysIdle == update = "idle" => \A r \in Runs : status[r] # "running"

\* What a step may do to an ended run: leave it, forget it with the relay's memory,
\* or return an occurrence that failed on quota alone to the queue.
EndedStep == \A r \in Runs : status[r] \in Terminal =>
  \/ status'[r] \in {status[r], "absent"}
  \/ status[r] = "failed" /\ r \in quotaHeld /\ status'[r] = "queued"
EndedStaysEnded == [][EndedStep]_vars

\* The sweep stops the run it examined ("Owner work is preferred and preempts an
\* active public run", docs/architecture/event-sources.md), not whichever run
\* holds the lane by the time its checks are answered.
SweepStopsItsRun == [][SweepStop => fg[1] = sweep]_vars

(***************************************************************************)
(* Refinement: what callers of the ledger can read                         *)
(***************************************************************************)
LedgerView ==
  [r \in Runs |-> IF phase \in {"down", "booting"} /\ \E c \in file : c[1] = r
                    THEN "running" ELSE status[r]]
L == INSTANCE Lane WITH state <- LedgerView

\* Dispatch implements the abstract lanes.
ImplementsLane == L!LaneSpec

(***************************************************************************)
(* Liveness                                                                *)
(***************************************************************************)
\* The event loop runs every continuation that is ready, startLock is FIFO, the
\* drain timer retries queued runs and sweeps every second, a terminated
\* executor dies, and the updater always removes its pause file.
Fairness ==
  /\ \A r \in Runs : SF_vars(Admit(r))
  /\ WF_vars(\E r \in Runs : \/ AdmitReject(r) \/ AdmitDefer(r) \/ AdmitStart(r)
                             \/ AdmitFail(r) \/ LaunchOk(r) \/ LaunchNext(r)
                             \/ LaunchFail(r))
  /\ SF_vars(\E r \in Runs : Advance(r) \/ AdvanceEnd(r) \/ AdvanceUnavailable(r))
  /\ SF_vars(\E r \in Runs : SweepBegin(r))
  /\ SF_vars(\E r \in Runs : SweepBackground(r))
  /\ WF_vars(\E c \in Children : c \in killed /\ Exit(c))
  /\ WF_vars(\E c \in Children : Report(c))
  /\ SF_vars(\E c \in Children : Complete(c) \/ CompleteBroken(c) \/ CompleteRejected(c))
  /\ SF_vars(\E c \in Children : CompleteHandedOff(c))
  /\ SF_vars(\E c \in Children : Adopt(c) \/ AdoptFail(c))
  /\ WF_vars(StopAck \/ StopRefused \/ \E c \in Children : StopNext(c))
  /\ WF_vars(SweepPass \/ SweepStop)
  /\ WF_vars(Unpause)
  /\ SF_vars(HandoffSave \/ HandoffSkip) /\ WF_vars(HandoffKill)
  /\ SF_vars(TerminateAll) /\ WF_vars(Down) /\ WF_vars(Started)

FairSpec == Spec /\ Fairness

\* ... and an executor's turn ends by itself, too.
TurnsEnd == WF_vars(\E c \in Children : Exit(c))
\* A stop or cancellation takes effect, whatever setup of the run it lands in:
\* the run ends, or its stop is withdrawn with "A stop request failed".
StopTakesEffect ==
  \A r \in Runs :
    (r \in stopped \/ r \in cancelMark) ~>
      (status[r] # "running" \/ (r \notin stopped /\ r \notin cancelMark))

\* Work whose owner was revoked or whose binding ended does not keep running.  The
\* removal of its schedule is no such order: "already-running work continues until
\* explicitly cancelled" (docs/scheduling.md).
RevocationTakesEffect ==
  \A r \in Runs : (~Owned(r) \/ ~Bound(r)) ~> status[r] # "running"

\* Neither outlives its end.
WithdrawnWorkEnds == StopTakesEffect /\ RevocationTakesEffect

\* Chat is never starved or wedged: queued foreground work leaves the queue.
ChatProceeds == \A r \in Foreground : status[r] = "queued" ~> status[r] # "queued"

\* A graceful stop ends: every child is handed over or terminated.
StopCompletes == phase = "stopping" \/ phase = "draining" ~> phase = "down"
=============================================================================
