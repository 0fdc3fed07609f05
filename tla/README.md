# Verification of ez-agents

TLA+ modules that model the control logic of the ez-agents relay and of the
processes beside it, TLC configurations that check them on small instances, and
TLAPS proofs of the results that matter most. Every definition is translated from
the source that `PROJECT.json` ("map") names for it; documentation is quoted only
where a property states what it promises.

`tlc -workers 2 -config MCTurns.cfg MCTurns.tla` runs one check,
`tlapm DispatchProofs.tla` checks one module of proofs.

## 1. Inventory

One relay process per agent (`src/src/index.ts`) owns a Telegram bot and an
application listener, admits work as *runs* and executes each run in a child
process (an AI CLI or a script), directly or through a host executor. Scheduling and
owner CLIs, plugin commands, the plugin broker, host workers and the updater are
other processes; they share directories with the relay and little else.

| Component | State | Operations | Interaction |
|---|---|---|---|
| Dispatch (`index.ts`) | `activeChild`, `background`, `startLock`, `ownerStopped`, `stoppedRuns`, `handedOff`, `shuttingDown` | `startJob`, `watchRun`, completions, `/stop`, `/cancel`, sweep, graceful stop, adoption | decides the status of every run; called by intake, ticks, tasks, sources, the socket |
| Run ledger (`runs.ts`) | runs and outbox in memory; `run-handoff.json` | `create`, `patch`, `adopt`, hand-off, outbox, pruning | read and written by every part of the relay |
| Schedules (`scheduler.ts`) | `ID.json`, cursors, cancel markers, `ID.lock` | `tick`, `trigger`, `edit`, `enable`, `remove`, `retryQuota`, `recover` | CLI processes and the relay write the same files |
| Intake (`inbox.ts`) | `seen`, `waiting`, `batches`; a worker and a timer | `accept`, `next`, `finish`, `cancel`, `drainInbox` | polling fills it, the worker makes runs |
| Delivery (`runs.ts`, `delivery-socket.ts`) | outbox, waiters, the socket | enqueue, claim, send, settle, wait, drain | producers are other processes |
| Pairing and authority (`control-state.ts`, `identity.ts`, `application-channel.ts`) | owner, pending pairings, bindings; two lock files | approve, claim, link, unlink, revoke; register, rotate, remove, launch | every start of a run asks whether its authority stands |
| Conversations (`control-state.ts`, `menu.ts`) | active, saved and private sessions, the AI selection | reset, close, switch, archive, select, report, capture | queued work keeps the choice it captured |
| Setups and quota (`setup-fallback.ts`, `executor.ts`) | health of the logins | `nextSetup`, `attemptFailure`, `recordSetupOutcome`, `quotaWait`, `retryQuota` | decide which setup of a run is tried |
| Host executor (`host-executor*.ts`) | requests, claims, events, cancel files, `worker.lock` | submit, claim, launch, observe, cancel, recover, retire, attach | survives the relay, is replaced by updates |
| Tasks (`tasks.ts`, `task-rpc.ts`) | grants in files, approvals in memory | propose, approve, admit, dispatch, revoke, repair | their runs go through dispatch |
| Event sources (`event-sources.ts`) | batch and cursor files | fetch, create, acknowledge, release, retry | their runs are public foreground runs |
| Plugins, broker, lease (`plugins/*.mjs`, `plugin-broker.mjs`) | registry, packages, invocation leases, `registry.lock`, `workspace-writer.lock` | install, bind, start, stop, uninstall, upgrade; invoke | share the workspace with native runs |
| Updates (`updates/*.mjs`) | jobs, the installed parts, the pause file | submit, pick, check idle, switch, restore, reopen | pauses the relay's admission, replaces its processes |
| Formatting, audio, status, setup commands, desktop bridge | none that matters | | presentation and installation |

What is hard here:

- *Interleaving in one process.* Continuations interleave at every `await`.
  Dispatch has a FIFO lock, `startLock`, but `/stop`, the sweep, triggers, scheduling
  CLIs and process exits do not take it.
- *Several processes on the same files.* They are ordered by lock files of three
  kinds: one that may be judged stale and broken (schedules), one that is waited for
  and never broken (control state), and ones nobody waits for (bindings, registry).
- *Crashes and restarts.* The ledger and the intake are memory; schedules, tasks,
  cursors, claims, leases, update journals are files written one after the other.
- *Partial failure.* A run has several ordered setups; an installation or an update
  consists of many writes, and any of them may be the last.
- *Authority that changes meanwhile.* Work is admitted under an owner, a link, a
  binding or a grant and runs later.
- *Liveness.* Queued work is started by completions, commands and timers only.

`PROJECT.json` lists each hazard at its line with the properties aimed at it.

## 2. Modules

| Module | Models | Proofs |
|---|---|---|
| `Lane` | abstract: what callers of dispatch may rely on | `DispatchProofs` (implemented by `Relay`) |
| `Relay` | dispatch, setups, stop, sweep, hand-off, boot, the updater's pause | `DispatchProofs` |
| `TaskLock` | the lock file of a schedule, file operation by file operation | `ServicesProofs` |
| `Schedule` | one schedule: tick, trigger, CLI processes, cursors, occurrences | `ScheduleProofs` |
| `Inbox` | Telegram intake and its worker | `DispatchProofs` |
| `Delivery` | producers, the socket, the outbox and its pump, through stops and crashes | `ServicesProofs` |
| `Ownership` | pairing, links, bindings and the authority of admitted work | `ControlProofs` |
| `Conversations` | sessions, AI choices, and work that captured them | `ConversationsProofs` |
| `Setups` | the setups of a run, health of logins, quota waits | `ResourcesProofs` |
| `HostExecutor` | host workers, observers and the workspace lease | `HostProofs`, `ResourcesProofs` |
| `Tasks` | grants and what their runs send | `ControlProofs` |
| `Sources` | event batches, cursors and releases | `ServicesProofs` |
| `Plugins` | calls of a plugin against operations that change it | `HostsProofs` |
| `Packages` | the files of the plugin registry and the requests that change them | `ResourcesProofs` |
| `Updates` | update jobs, switching and restoring an installation | `HostsProofs` |

The `MC*` modules give constants and instances for TLC. A definition whose comment
begins "Mutant of D" is D with a plausible bug. No action uses it; put in D's place it
makes the property that `PROJECT.json` names fail.

### Correspondence

In every module an action is the code between two points where another actor of the
model could fall in: two `await`s of one process, two file operations of several, or
one whole operation where a lock makes it atomic. Identifiers are those of the code
where there is one.

**Relay.** `<<r, n>>` is the n-th executor of run r. `Create` is `RunStore.create`;
`Admit` is `startJob` up to the ledger checks, with the lock, `AdmitReject`,
`AdmitDefer`, `AdmitStart`, `AdmitFail` its ends. `LaunchOk` is `launch` and the head
of `watch`; `LaunchNext` and `LaunchFail` the error paths of `launchSetup`. `Exit` and
`Report` tell the end of an executor from the relay's noticing it; `Complete`,
`CompleteBroken`, `CompleteRejected`, `CompleteHandedOff` are the completion handler,
which runs in one hold of the lock. After a rejection the lock is free until
`Advance`, `AdvanceEnd` or `AdvanceUnavailable`. `StopRequest` to `StopRefused` are
`stopActiveWork`; `SweepBegin`, `SweepPass`, `SweepStop`, `SweepBackground` are
`drainSources`, outside the lock; `BeginStop` to `Down` are `stop`, `Boot` to `Started`
the next relay's `start`, which serves its socket before it adopts. What a run rests on is
withdrawn piece by piece (`withdrawn`): its owner, its application's binding, its schedule.
Who asks for which is as in the code: the start of an occurrence for all three
(`Authorized`), the sweep for owner and binding (`Owned`, `Bound`), the adoption for the
owner. So work of a removed or edited schedule runs on until it is cancelled. Why an
executor fails is a choice.

**Schedule, TaskLock, Inbox, Delivery.** `Schedule` counts time in due slots and splits `tick`,
`trigger`, `edit` and `enable` where they await; its lock is one variable, which `TaskLock`
models as the file it is. In `Inbox` a decision is one on a chat's run, or a task's, which
`Tasks` takes and nothing is collected for (`Refused`); the ID of a batch is its first
update's, and since updates come in the order of their numbers the list of batches is a set
ordered by ID (`Oldest`, `Latest`); `Accept` to `DrainEnd` are the polling handler and
`drainInbox`. In `Delivery` `client` is the producer, `pump` the relay's `outboxWork`; `made`
is every message created so far in the order of its creation, the outbox the part of it that
waits, and a pump's batch a set taken oldest first; `HandOver`, `CloseServer`, `Drain`, `Down`
are the part of `stop` about messages, in its order.

**Ownership.** One operation of the control store is one step, as `control-state.lock`
makes it; `ClaimBegin`/`ClaimEnd` are two because the claim awaits the bindings with
the lock held. `BindCall` to `BindWrite` are an administrator's command;
`Authenticate`, `Lookup`, `SubmitCheck`, `SubmitCreate` the admission of an
application's request. `eras` counts revocations and changes of the link: it is
history, written by the steps and read by the property alone.

**Conversations, Setups, Tasks, Sources.** `Conversations` keeps what a menu or a control
has read apart from the step that uses it (`NewRead`, `SelectRead`, `op`); a conversation's
native sessions are the sets `linked` and `claimed`, of which `IsCurrent` tells the one it
resumes; a switch back to a conversation saves its preset again if it made room for another
(`Binding`, `Restored`). `Setups` folds
what the relay does under `startLock` into one step and tells a launch from the choice
of its setup; a provider refuses in any of the code's six categories (`Categories`);
`Retry` takes one waiting occurrence at a time, as the lock does; the lines of an attempt's
output are chosen by `Finish`, and a round is the
sequence of its attempts with the set of setups it passed over. In `Tasks` the
calls of one relay are chained, and `chain` is the call under way, split where it awaits
the source or leaves a file behind. A message's authority is asked in one step (`Ask`) and
the message leaves in another (`Dispatch`), because the source's answers are awaited between
them. `Sources` splits a turn of `drainSources` at its
file writes; its ledger is a set of runs numbered in the order of their creation (the sort
by `createdAt`), which is what releases and pruning go by.

**HostExecutor, Plugins, Packages, Updates.** What happens between two file operations is
one step, and a crash may fall between any two; except that `HostExecutor` removes what is
left of a run that was told over (`Finish`), and refuses one (`Refuse`), in one step each.
A claim is four steps: `Reserve` takes the lane and the lease, `Name` writes the process
file, `Open` appends the event, `Claim` renames the request; `Forget` and `Recovered` are
the two removals of a recovered one. `Plugins` has a call's lease, container
and process against an operation that judges the leases; `Packages` has what the same
requests write, in their order. `Updates` has the supervisor's plan as a sequence of
orders, each with a journal entry before it, and restoring as the same in reverse. A
starting supervisor takes over `supervisor.lock` (`Boot`) before it removes a registry lock
of its predecessor (`Reclaim`); if it dies between the two, nobody removes that lock any
more (`reg = "lost"`), which needs two deaths. An interrupted job takes the registry before
its receipt is looked at (`Resume`).

## 3. Runs

A composite module runs several components in one check. They share no state: `part` says which
of them a behaviour is of, the others stay as they start, and the run explores the union of
their state graphs. Each composite EXTENDS one component, so that the definition TLC checks is
the one the theorems state; the other components are instances, whose constants the composite
declares and its cfg values, so that a theorem about the composite is about every value of them
too. A liveness property of a part reads `part = ... /\ Fairness => ...`.

| Run | Parts | What it shows | Bounds |
|---|---|---|---|
| `MCTurns` | Relay, Inbox | the foreground lane is serial, idle stays idle, dispatch implements `Lane`, queued chat is served; every update is in one place, dropped input stays dropped, albums stay whole, received input is worked off | two foreground runs, one with a fallback; two launches each; an updater; four updates with an album, a decision and a change of context; one retry |
| `MCRelayStops` | Relay | stopped, cancelled and revoked work ends, a graceful stop completes | one occurrence, two setups, two launches, one restart, a hand-off record that may be lost; one authority withdrawn: a binding beside stops and cancellations, an owner or a schedule without (`Narrow`) |
| `MCDispatch` | Relay twice, Schedule | occurrences keep apart, ended runs stay ended, executors are accounted for across a restart; one occurrence per slot, no definition is lost | three occurrences of two schedules, `Cap` 1; one chat run, one restart; one schedule, two CLI processes, two revisions |
| `MCControl` | Ownership, Conversations, Tasks | authority never returns, the owner stays itself, bindings survive; captured work resolves, conversations keep apart; grants hold, messages go out with authority | two administrators and applications; two conversations and four controls, of which the last opens a page of the menu (`LastPage`); two grants and one event |
| `MCResources` | Packages, Setups, HostExecutor | the registry is sound; no login is tried twice, resets survive; a workspace has one writer | two plugins of two releases each, two processes, three requests, a crash and an edit; three runs of two setups, any of six rejections; three runs of one worker |
| `MCServices` | TaskLock, Schedule, Delivery, Sources | the lock excludes until a holder dies and orphans go; due slots are dispatched; a message goes out once, waiters learn, a hand-over is complete; one run per event, done stays done, what ended is released | three callers; one slot and a dying CLI process; two messages; two sources with three events; one restart |
| `MCHosts` | Plugins, Updates, HostExecutor | calls finish first, operations end; an update is all or nothing, does not cut work, lifts its pause; a run told over has ended, stops take effect | two calls, two operations; three jobs, a crash, two failures; one run, three workers, a crash, a hand-over |

Violation runs refute one statement of the repository each (section 6): `MCRelaySweep`,
`MCRelayBoot`, `MCTasksLinked`, `MCPluginsForeign`, `MCUpdatesRetry`.

*Why these bounds are enough.* The conflicts are between two: two foreground runs, two
occurrences of one schedule (a third of another schedule makes `Cap` bind), two
administrators, two calls, two processes of the manager. Two setups give one advance,
the only window `startLock` leaves. One restart gives one hand-off and one adoption,
one crash falls between any two steps. Three workers are needed in `HostExecutor`
because one may be retired, its successor die and a third recover. The counters named
`Max...` bound lengths of behaviours only; where a theorem covers the same property the
bound is gone. `MayLoseRecord`, `WithUpdater`, `BootTriggers`, `Crashes`, `Slow`,
`Retires`, `Links` and `Gated` switch an actor of the environment on where a run is
about it. `CHECK_DEADLOCK FALSE` is set where the system may come to rest: everything
ended and nothing due.

## 4. Fairness

- The event loop runs ready continuations: weak fairness of reports, of the holder of a
  lock, of a stop or a hand-off in progress, of the socket's handlers and the pump.
- `startLock` is FIFO: strong fairness of the steps that wait for it.
- Timers retry every second (`drainTimer`, `sourceTimer`, ticks, the host workers' and
  the supervisor's loops): strong fairness of `Admit` per run, of the sweeps, of
  `TickBegin` with the lock free, of `Retry` of a source; weak fairness of what polls
  files.
- A terminated executor dies (SIGKILL follows): weak fairness of the exit of a killed or
  signalled one only. That a turn ends *by itself* is assumed by `ChatIsServed`
  (`TurnsEnd`), `DueIsDispatched` (`EndRun`) and `PauseIsLifted` (`RunEnds`) alone: a
  turn that never ends keeps chat, the next occurrence and the update waiting.
- `withIdleUpgrade` removes its pause in `finally`: weak fairness of `Unpause`.
- A wait at the socket is sure to time out only where the pump owes it nothing (`Owed`),
  so that `WaitersLearn` does not hold merely because every wait is given up.
- The owner stops asking for retries some day (`Schedule`), and the plugin registry's
  other users give it up (`RegGive` in `Updates`).

No fairness is assumed of owners, administrators, CLI processes that have not begun,
revocation, crashes, updates that have not begun, or restarts.

## 5. Proofs

All theorems hold for every value of the constants that satisfies the assumptions their
module names: any number of runs, plugins, processes, crashes and requests. TLC
evaluates the assumptions on the runs. They say that None is none of the other values,
that bounds are natural numbers, and that the constants have the shape the code gives
them (foreground and scheduled runs are distinct, a command is one of five kinds, the
catalog pins existing releases).

**DispatchProofs.** `TypeCorrect`, and `ForegroundIsSerial`: no two foreground runs are
running together. That is not inductive: a run passes the ledger check in `Admit` and
becomes running in `AdmitStart`, and a starting relay sets handed-off runs running from
a file. `SerialInv` adds that no foreground run is running while an admission holds the
lock, that the record names at most one, and that a relay that is down or booting holds
nothing.

`HoldInv` says who holds a run, in nine parts: a slot's run is
running (`SlotsRun`); a running run has a slot, an admission, a launch, an adoption or
the record (`RunningIsHeld`); what the lock is for is still so (`LockHolds`); a
completion that waits for its setup keeps its slot (`AdvancingHolds`); what is adopted
or handed over is started by nobody else (`AdoptingWaits`, `FileNamed`, `HandedOver`,
`DownQueued`). From it `Moves` classifies every step as one move of one run along its
life, the loss of the queue, or the relay's going down or coming back, and `Footprints`
says what else a step may do. They give `EndedRunsStay` (`EndedStaysEnded`) and
`IdleRelayStaysIdle` (`IdleStaysIdle`).

`OccurrencesKeepApart`: at most `Cap` occurrences run and at most one of a
schedule is in flight. `CapInv` counts those that run, and those the record names; one
that is admitted is admitted below the count of slots, and at that moment the running
ones are those in slots. `OneInv` carries the rule through the record.
`NothingIsLost` (`Accounted`): an executor nobody told to stop is the latest of a running
run and has its slot or its name in the record (`AccountInv`). `DispatchImplementsLane`:
`Relay` implements `Lane` under `LedgerView`, which shows a handed-off run as running
while no relay has it in memory; every kind of move of `Moves` is a step of `Lane` or
none. The theorems assume `~BootTriggers` where a trigger that overtakes the record
breaks them (the finding of `MCRelayBoot`), and `NothingIsLost` assumes
`~MayLoseRecord`: an executor is forgotten with an unreadable record.

Intake: `UpdatesHaveOnePlace` (`OnePlace`) and `IntakeStaysFaithful` (`IntakeIsFaithful`), for
any updates, albums, contexts, cap and number of retries. `IntakeInv` adds two things to the
properties. A batch is named by its first update (`Named`), which makes names as distinct as
updates. And while a batch is at work (`AtWork`), what is collected comes before what is left,
and the two together are the batch but for decisions that were refused, although updates are
accepted, `/cancel` marks the batch and the owner may leave meanwhile; a failed batch is never
at work, so that `/retry` does not bring one back under the worker's hands. From it
`IntakeStep` says of every step that nothing dropped is tracked again (`NothingReturns`).
Where the buffer is cut is `CutFalls`: the first place of several candidates, which exists
because finite sets are well-founded (`LeastIsFirst`); what a cut leaves is `Split`.

**ControlProofs.** Pairing and authority: `OwnerIsStable` (`OwnerStaysItself`), `BindingsAreKept`
(`BindingsSurvive`) and `RevokedWorkStaysRevoked` (`AuthorityNeverReturns`). The
inductive invariant `OwnerInv` has five parts. `ClaimInv`: while a claim is under way
its lock keeps the owner it read. `BinderInv`: who holds the bindings' lock has read what
they are. `SerialInv`: every generation in use was drawn, so that the next owner's is a
new one. `EraInv`: an authority that is the present owner's was taken since the last
revocation, also in a request between its lookup and its run. `LinkInv`: the present link
is the last one made. `EraInv` needs `SerialInv`: it is a fresh generation that separates
the same account paired anew from its former self.

Tasks: `GrantsAreKept` (`GrantsHold`) and `AuthorityIsChecked`
(`SentWithAuthority`). A task's file is what a restart leaves, so `Filed` says what it must
say of everything tried for it: an uncertain message, the opener's flag, an event seen.
`Held` says what the call under way may rely on when it goes on after the source's answer:
nobody else writes its task's file, as the calls are chained. The watch needs `Sole`: at
most one task has the contact, or is about to have it, so that the watch a revoked task
removes is no other's. That is inductive only with the expiry in it: a task that expires
while its grant is being saved keeps the contact until the call is over, and a lasting one,
which a revocation leaves waiting for the removal of its watch, never expires. Both are
theorems of the specification of `Tasks`, as the two of `ConversationsProofs` are of
`Conversations`; they assume that None is no kind of grant.

**ConversationsProofs.** `AdmittedWorkIsKept` (`WorkResolves`) and `ConversationsStayApart`
(`ConversationsKeepApart`). Menus, applications, closes and turns all read, wait and write;
what they still hold when they write may be gone by then. `OpsInv` says what an operation in
its middle may still act on, `Placed` that every conversation is the active one or is saved,
once, `Bound` what a conversation is bound to, `Selection` that the file can be read again and
the active conversation is of the selected engine. With these every captured choice resolves
(`WorkInv`). That sessions keep apart needs three more: a native session sits in one slot of
one conversation (`SlotInv`), who claimed one took it from that slot (`ClaimInv`), and a turn
under way runs in the slot it was launched with (`RunInv`). `ConversationsAssumption` says that
the ID of a detected preset is its own alone, as `client-defaults.ts:111-117` makes it.

**ScheduleProofs.** `OccurrencesStaySound` (`OccurrencesAreSound`) and `LastDefinitionRules`
(`DefinitionRules`). The tick and the trigger read the schedule before they have its lock
and a skipped slot is written without it, so that the cursor of a revision that is gone may
be written after the new one's. `SInv` says why this does no harm: whoever holds the lock
has read what is saved (`Holders`), and every cursor, whether in a file or in the hands
of the tick, the trigger or an edit, is ahead of what the revisions before its own have
queued (`CursorsAhead`, `TickBehind`, `TriggerBehind`, `EditStands`). It is inductive with
`Fallen`, which says what a process that died at its write leaves behind.

**HostsProofs.** Plugins: `ExecutingCallsFinish` (`CallsFinishFirst`): the lease of a call the
manager can probe stays until nothing of it runs, and whoever changes the plugin still
has the lease of an executing call to judge (`LeaseInv`). Calls of another PID namespace
are outside it, and must be: `MCPluginsForeign` shows why.

Updates: `UpdatesAreWhole` (`AllOrNothing`) and `UpdatesSpareWork` (`WorkIsNotCut`).
`UpdateInv` has two halves. The first follows the files: at most one job is pending
(`OnePending`), its receipt is ahead of what was done (`Position`, `Ahead`, `Reached`), and
while no journal is saved of a job that is neither completed nor rolled back (`Dirty`),
every part is of the last completed version (`Content`, `HaveGreatest`), unless a recovery
the owner asked for was rejected as a new job is (the finding of `MCUpdatesRetry`). The
second follows the pause: who may stop the relay has seen it idle since admission was
closed, or inherits a pause that did (`Quiet`), and who holds the registry is known
(`Registry`). `WorkIsNotCut` excepts one course of events, which the attempt to prove it
without found and TLC confirmed on larger bounds (`MaxCrashes` 2, `MaxTroubles` 4): a
supervisor that resumes a dead one's update removes the pause when the registry is busy
(`supervisor.mjs:253`, its `finally`) and writes it anew only on its way out (line 332); if
it dies between the two, the relay admits work and the next supervisor's reload or failed
start stops it (`GapInPause`). A registry lock that two deaths left behind is busy for ever,
to the same effect.

**ResourcesProofs.** The registry: `RegistryStaysSound` (`RegistryIsSound`): aliases, records,
packages, images, `compose.json`, secrets and containers agree wherever a process dies. What
makes it inductive is what a request has done so far, kept for each place of its code while
nobody else has the lock (`Installing`, `Serving`, `LockInv`): from the check under the lock to
the registration no alias is taken and no record is written, the directory holds the release,
then the secrets are drawn, `compose.json` exists, the images are built. A dead process keeps
the lock, so nobody works beside its half-written files; what it leaves is completed, not
trusted, by the next installation (`PackageInv`: a directory holds its own release or nothing).
`Quiet`, `HolderGoes` and `HolderEnds` do once what most steps share.

`OneWriterAtATime` (`OneWriter`) is the workspace's theorem of `HostProofs` for the
composition.

Setups: `LoginsStaySpared` (`LoginsAreSpared`) and `ResetsAreKept` (`ResetSurvives`).
`SetupsInv` says what a round says of its run: every attempt but the latest ended in a way that
lets the run go on, and so did the latest when the next setup is chosen (`RoundOf`, `PhaseOf`),
and whoever has the start lock is launching. The probes stay of different logins because the
next setup is the *first* candidate whose login nobody probes: `LeastOf` derives from the
well-foundedness of finite sets that there is one. The resets survive because a success clears
nothing while one is ahead. `SetupsAssumption` says that every run has a chain of setups, that
its first group is part of it, and that providers refuse for one of the six reasons of the
code.

**ServicesProofs.** The lock: `LockExcludes` (`ExclusionUntilDeath`): with `~Slow` any number of
callers exclude each other until one has died holding the lock; nothing looks stale until
then, and whoever is past creation owns the file. Without these hypotheses it is false,
as `lock()` breaks a lock by its age.

Delivery: `MessagesAreSentAsTold` (`SentAsTold`: a message is given to Telegram at most once
and a producer is told the truth about it). A message can be in the outbox, in the pump's
hand and in the receipts of a record. `DeliveryInv` says that before its only admission it
is in none of them, that the pump's is claimed and given to Telegram exactly when its
request arrived, that a receipt never differs from what became of the message, and that an
answer agrees with whichever of the three still has it. `HandOversAreComplete`
(`HandOverIsComplete`): when a relay that hands runs over ends, all it accepted from them is
settled and in its record. This rests on its last pump (`Flushing`): nothing is admitted any
more, so what is queued is in the snapshot that pump took, a pump at rest holds nothing
(`PumpAtRest`), and what is being sent is in its hand (`SendingIsHeld`).

Event sources: `EventsRunOnce` (`OneRunEach`: an acknowledged event had a run, and no event
is begun twice in a life of the relay) and `DoneEventsStayDone` (`DoneStaysDone`), for any
sources, conversations, deferrals, failures and restarts. The hard part is a batch that
waits because a group of it was deferred: the runs of its other groups end, are released and
become history meanwhile, and a group whose run is forgotten would get a second one.
`SourceInv` places every run (of acknowledged events, or of a group of the remembered
batch), orders the two by number, and says that a batch not yet acknowledged has a group
that never had a run or has just got it. So fewer released runs of the batch exist than it
has groups, they are the latest of their source, and pruning, which keeps the latest, takes
acknowledged runs only. `SourcesAssumption` asks for this that a batch has no more events
than released runs are kept, and one (10 and 100 in the code): with two more TLC finds an
event begun twice. The ledger's other cap, 2000 ended runs of any kind, is assumed not to be
reached while a batch waits (section 7).

**HostProofs.** Two invariants of `HostExecutor`. `HostInv` gives `ToldIsStopped`
(`EndedIsStopped`) and `HandedOverIsSeen` (`AttachSeesTheRun`): a request stands for an attempt
nobody has begun but a worker that is claiming it (`Claiming`); whoever is at a run is alive
and alone and, once it has claimed it, keeps the claim until it unclaims it; a live CLI is
recorded, or its worker is about to record it, so that whoever recovers the claim either
signals it or it is lost; an observed run has its request or its events, and a request missed
once does not come back, which is why the order of the three checks of `--attach` matters. Both
theorems are about ids that name one attempt: a retired worker's last `rm` may take the claim
of a later attempt away (section 6). `WriterInv` gives `NoWriterBesideALiveCli` and
`WorkspaceHasOneWriter` (`OneWriter` until a worker dies): one worker is alive at a time, it
holds every claim, and the lease is its from its first run to its last. They assume `~Retires`:
a retired worker finishes its runs beside the next one's, which works without a lease of its
own (hazard at `host-executor.ts:201`). A CLI a dead worker left behind may write beside a
plugin until it dies of its signal, so the theorem for all crashes is about CLIs that are not
signalled.

Model-checked only:

- liveness under fairness and whatever needs ENABLED, which TLAPS does not prove;
- `HostIsSound` as a whole: its invariants are the theorems of `HostProofs`, each under the
  hypotheses it needs, and its last part is a liveness property.

Every other safety property a passing run checks is a theorem's.

## 6. Disagreements

With a run (`findings`): the sweep stops a run it did not examine (`MCRelaySweep`); a
trigger served by a starting relay makes a second occurrence (`MCRelayBoot`); the first
run of a task is refused for a linked owner (`MCTasksLinked`); an upgrade replaces a
plugin under a broker's call (`MCPluginsForeign`); a retried recovery is given up when the
registry is busy (`MCUpdatesRetry`).

Without a run, visible in the actions and in the hazards list: `/stop` misses a run whose first
executor is being launched (`StopRequest` snapshots the children); a trigger with a preflight
writes back a cursor read before it took the lock (`TriggerPreflight`), and its hold check is
not repeated under the lock; a restart forgets updates already confirmed to Telegram
(`Inbox!Restart`); receipts a relay adopts wake no waiter (`Delivery!Adopt`); attempts of a run
share the names of their files, so that a retired worker that cleans up after one attempt
removes the claim or the process file of the next one if another worker has taken it up
meanwhile (`HostExecutor!Unclaim`, `Finish`); a message of a task goes out for an owner who was
revoked or paired anew while the source's answers about it were awaited (`Tasks!Ask`,
`Dispatch`), so that `SentWithAuthority` is about the owner of the moment the authority was
last asked; `install` composes with the bindings it read before it had the lock and does not
ask whether the host still grants them (`Packages!Describe`), which every later request does
before it runs anything.

## 7. Assumptions and what is left out

- The relay answers the updater's status request within the two seconds after which
  `supervisor.mjs:40` takes silence for idleness; a status waits for admissions under way.
- A caller of a plugin that dies takes its Compose client along.
- A process that holds the registry's lock and dies is inspected before its lock is removed.
- Fewer than 2000 runs end while a batch of events waits for a deferred group:
  `pruneTerminals` drops the oldest ended runs of any kind, released or not, and the group of
  a dropped run would be run again if its source takes no releases.
- Telegram sends an update again only while it is not confirmed; which ones is a choice.

Not modelled in the modelled components: the channel backend of `startJob`, which bypasses
the lanes; script timeouts; messages sent in parts; calendar arithmetic; attachments and
notes of tasks; sessions and refreshes of the broker; shared workers, exports and host
networks of plugins; fetching and verifying of update candidates; the HTTP surface.
Components not modelled at all are presentation, one-shot installation, and validation or
copying of files; `PROJECT.json` gives the reason for each.

## 8. Plan

1. `Schedule` over `TaskLock` in place of its atomic lock.
2. The broker's sessions, and the shared workers of plugins.
