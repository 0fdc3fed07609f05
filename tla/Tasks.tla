--------------------------------- MODULE Tasks ---------------------------------
(***************************************************************************)
(* Channel tasks: the grants an owner gives (tasks.ts), the runs they      *)
(* admit and what those runs send.  Task files survive a restart; runs and *)
(* approvals are in memory.  The calls of one relay are chained, so a call *)
(* is one step except where it waits for the channel's source or leaves a  *)
(* file behind: `chain' is the call under way.  Outside the chain runs     *)
(* start and end, the owner is paired again or linked again, the source is *)
(* bound again and grants expire.                                          *)
(*                                                                         *)
(* One contact, one application scope and one message per run stand for    *)
(* all; a definition commented "Mutant of D" is D with a plausible bug.    *)
(***************************************************************************)
EXTENDS Naturals, FiniteSets

CONSTANTS
  Grants,     \* task identifiers
  Events,     \* identifiers of incoming event groups and application events
  GrantKinds, \* the kinds the owner asks for, of AllKinds
  Hourly,     \* runs and replies a grant admits in an hour
  Total,      \* runs a grant admits in all
  Outstanding,\* runs of one grant queued or running
  Links,      \* whether Telegram is linked again
  MaxOwners,  \* bound: pairings and links
  MaxBinds,   \* bound: registrations of the source
  MaxRestarts,
  None

AllKinds == {"opener", "waiting", "lasting", "public", "scoped"}
RunIds == Events \cup Grants        \* the opener's run is named after its task

VARIABLES
  task,      \* task -> its file
  approval,  \* task -> the decision in memory
  runs,      \* run -> its record
  chain,     \* the call under way
  owner,     \* [epoch, link] of the paired owner; link 0: paired without a link
  source,    \* binding of the source
  watched,   \* whether the source watches the contact
  expired,   \* tasks past expiresAt
  restarts,
  tried,     \* task -> run -> messages the source took since one was settled
  opened,    \* task -> opener runs created
  admitted,  \* task -> event -> runs a scoped grant created for it
  vouched    \* who was paired when the message under way was last authorized

memory == <<approval, runs, chain>>
world == <<owner, source, watched, expired, restarts>>
seenBy == <<tried, opened, admitted, vouched>>
vars == <<task, memory, world, seenBy>>

NoTask == [state |-> "absent", kind |-> None, owner |-> None, binding |-> None, unwatch |-> FALSE,
           grant |-> FALSE, dispatched |-> FALSE, ops |-> [r \in RunIds |-> "none"],
           hour |-> 0, total |-> 0, replies |-> 0, seen |-> {}]
\* A task revoked or completed, with nothing left to do: its file is never used again.
Retired == [NoTask EXCEPT !.state = "retired"]
NoRun == [st |-> "none", task |-> None, epoch |-> None, link |-> None]
Ended == [NoRun EXCEPT !.st = "ended"]
Idle == [at |-> "idle", task |-> None, run |-> None]
Init ==
  /\ task = [t \in Grants |-> NoTask] /\ approval = [t \in Grants |-> None]
  /\ runs = [r \in RunIds |-> NoRun] /\ chain = Idle
  /\ owner = [epoch |-> 1, link |-> 0] /\ source = 1 /\ watched = FALSE
  /\ expired = {} /\ restarts = 0
  /\ tried = [t \in Grants |-> [r \in RunIds |-> 0]]
  /\ opened = [t \in Grants |-> 0] /\ admitted = [t \in Grants |-> [e \in Events |-> 0]]
  /\ vouched = None

(***************************************************************************)
(* What a grant is                                                         *)
(***************************************************************************)
Fresh(k) == [NoTask EXCEPT !.state = "pending", !.kind = k, !.owner = owner, !.binding = source]
Known(t) == task[t].state # "absent"
Waits(f) == f.kind # "opener"
Lasting(f) == f.kind \in {"lasting", "public"}
SameOwner(o) == o.epoch = owner.epoch
\* ownsRun: the run's link, none when its creator saved none, and its owner's epoch.
OwnsRun(o, r) == /\ (IF r.link = None THEN 0 ELSE r.link) = o.link
                 /\ r.epoch \in {None, o.epoch}
OwnerCall == [epoch |-> owner.epoch, link |-> owner.link]  \* a run of the owner's, made now
InFlight(r) == runs[r].st \in {"queued", "running"}
RunsOf(t) == {r \in RunIds : runs[r].task = t}
Live(t) == task[t].state = "active" /\ t \notin expired
\* Tasks.source: the owner, the binding and the account are those of the grant.
HasSource(f) == SameOwner(f.owner) /\ f.binding = source

\* Tasks.approved, and the pairing that source and application ask for.
Approved(t) == approval[t] = "approved" /\ SameOwner(task[t].owner)
Claims(t) == task[t].state \in {"active", "pending"} /\ t \notin expired
\* The grants a new one of the same contact conflicts with.
Occupies(t) == Claims(t) \/ task[t].unwatch
Free(k) == \A t \in Grants : Known(t) =>
             IF k = "scoped" THEN ~(task[t].kind = "scoped" /\ Claims(t))
             ELSE task[t].kind = "scoped" \/ ~Occupies(t)

\* Tasks.authorize, as far as the source need not be asked.
Authorized(r) ==
  LET t == runs[r].task IN
  /\ t # None /\ Live(t) /\ task[t].grant
  /\ Waits(task[t]) => r # t
  /\ OwnsRun(task[t].owner, runs[r]) /\ SameOwner(task[t].owner)
  /\ task[t].kind = "scoped" \/ task[t].binding = source

(***************************************************************************)
(* The owner's calls                                                       *)
(***************************************************************************)
\* start: the source watches the contact before the grant is saved.
Start(t, k) ==
  /\ chain = Idle /\ ~Known(t) /\ Free(k)
  /\ IF k = "scoped"
     THEN /\ task' = [task EXCEPT ![t] = [Fresh(k) EXCEPT !.state = "active", !.grant = TRUE]]
          /\ UNCHANGED <<watched, chain>>
     ELSE /\ watched' = TRUE /\ chain' = [at |-> "grant", task |-> t, run |-> Fresh(k)] /\ UNCHANGED task
  /\ UNCHANGED <<approval, runs, owner, source, expired, restarts, seenBy>>

Propose(t, k) ==
  /\ chain = Idle /\ ~Known(t) /\ Free(k)
  /\ task' = [task EXCEPT ![t] = Fresh(k)] /\ approval' = [approval EXCEPT ![t] = "pending"]
  /\ UNCHANGED <<runs, chain, world, seenBy>>

OwnerDecides(t) ==
  /\ approval[t] = "pending" /\ task[t] # Retired
  /\ \E d \in {"approved", "denied"} : approval' = [approval EXCEPT ![t] = d]
  /\ UNCHANGED <<task, runs, chain, world, seenBy>>

\* revoke: saved first, then the queued runs are cancelled and the watch removed.
Revoke(t) ==
  /\ chain = Idle /\ Known(t) /\ task[t] # Retired /\ OwnsRun(task[t].owner, OwnerCall)
  /\ task' = [task EXCEPT ![t] = IF Lasting(@) THEN [@ EXCEPT !.state = "revoked", !.unwatch = TRUE] ELSE Retired]
  /\ runs' = [r \in RunIds |-> IF runs[r].task = t /\ runs[r].st = "queued"
                               THEN Ended ELSE runs[r]]
  /\ chain' = IF task'[t].unwatch THEN [at |-> "unwatch", task |-> t, run |-> None] ELSE Idle
  /\ UNCHANGED <<approval, world, seenBy>>

(***************************************************************************)
(* The rest of a call, after its source answered or its file was written   *)
(***************************************************************************)
Rest(t, at) == chain' = [at |-> at, task |-> t, run |-> None]
SaveGrant ==
  /\ chain.at = "grant"
  /\ LET t == chain.task
         f == IF Known(t) THEN task[t] ELSE chain.run
     IN  /\ task' = [task EXCEPT ![t] = [f EXCEPT !.state = "active", !.grant = TRUE]]
         /\ IF Waits(f) THEN chain' = Idle ELSE Rest(t, "mark")
  /\ UNCHANGED <<approval, runs, world, seenBy>>

\* dispatchInitial: the flag is saved before the run is created.
Mark ==
  /\ chain.at = "mark"
  /\ task' = [task EXCEPT ![chain.task].dispatched = TRUE] /\ Rest(chain.task, "open")
  /\ UNCHANGED <<approval, runs, world, seenBy>>
Open ==
  /\ chain.at = "open"
  /\ LET t == chain.task
     IN  /\ runs' = [runs EXCEPT ![t] = [st |-> "queued", task |-> t, epoch |-> task[t].owner.epoch, link |-> None]]
         /\ opened' = [opened EXCEPT ![t] = @ + 1]
  /\ chain' = Idle /\ UNCHANGED <<task, approval, world, tried, admitted, vouched>>

Unwatch ==
  /\ chain.at = "unwatch"
  /\ LET t == chain.task
     IN  \/ HasSource(task[t]) /\ watched' = FALSE /\ task' = [task EXCEPT ![t] = Retired]
         \/ UNCHANGED <<watched, task>>       \* the source cannot be asked
  /\ chain' = Idle /\ UNCHANGED <<approval, runs, owner, source, expired, restarts, seenBy>>

\* The relay's turn: a decided proposal, an opener or a removal left undone.
Decide(t) ==
  /\ chain = Idle /\ Known(t)
  /\ LET f == task[t] IN
     \/ f.state = "revoked" /\ f.unwatch /\ Rest(t, "unwatch") /\ UNCHANGED <<task, watched>>
     \/ /\ f.state = "pending" /\ t \notin expired /\ approval[t] = "denied"
        /\ task' = [task EXCEPT ![t] = Retired] /\ UNCHANGED <<chain, watched>>
     \/ /\ f.state = "pending" /\ t \notin expired /\ Approved(t)
        /\ IF f.kind = "scoped"
           THEN /\ task' = [task EXCEPT ![t].state = "active", ![t].grant = TRUE]
                /\ UNCHANGED <<chain, watched>>
           ELSE f.binding = source /\ watched' = TRUE /\ Rest(t, "grant") /\ UNCHANGED task
     \/ f.state = "active" /\ t \notin expired /\ ~Waits(f) /\ ~f.dispatched /\ Rest(t, "mark")
        /\ UNCHANGED <<task, watched>>
  /\ UNCHANGED <<approval, runs, owner, source, expired, restarts, seenBy>>

(***************************************************************************)
(* Admission                                                               *)
(***************************************************************************)
Matches == {t \in Grants : Live(t) /\ task[t].kind # "scoped" /\ task[t].binding = source}
EventRun(t) == [st |-> "queued", task |-> t, epoch |-> None, link |-> None]

\* An event group of the contact: match, admitPublic and the creation of its run.
Admit(e) ==
  /\ chain = Idle /\ watched /\ runs[e].st = "none" /\ Cardinality(Matches) = 1
  /\ \E t \in Matches :
       LET f == task[t] IN
       IF f.kind # "public" THEN runs' = [runs EXCEPT ![e] = EventRun(t)] /\ UNCHANGED <<task, chain>>
       ELSE IF f.total >= Total
       THEN /\ task' = [task EXCEPT ![t].state = "revoked", ![t].unwatch = TRUE]
            /\ Rest(t, "unwatch") /\ UNCHANGED runs
       ELSE /\ f.hour < Hourly /\ ~\E r \in RunsOf(t) : InFlight(r)
            /\ task' = [task EXCEPT ![t].hour = @ + 1, ![t].total = @ + 1]
            /\ runs' = [runs EXCEPT ![e] = EventRun(t)] /\ UNCHANGED chain
  /\ UNCHANGED <<approval, world, seenBy>>

\* applicationEvent: the event is remembered and counted before its run is created.
ApplicationEvent(e) ==
  /\ chain = Idle /\ runs[e].st = "none"
  /\ \E t \in Grants :
       LET f == task[t] IN
       /\ Known(t) /\ f.kind = "scoped" /\ Live(t) /\ e \notin f.seen /\ SameOwner(f.owner)
       /\ IF f.total >= Total THEN task' = [task EXCEPT ![t] = Retired] /\ UNCHANGED chain
          ELSE /\ f.hour < Hourly /\ Cardinality({r \in RunsOf(t) : InFlight(r)}) < Outstanding
               /\ task' = [task EXCEPT ![t].hour = @ + 1, ![t].total = @ + 1, ![t].seen = @ \cup {e}]
               /\ chain' = [at |-> "admit", task |-> t, run |-> e]
  /\ UNCHANGED <<approval, runs, world, seenBy>>
CreateAdmitted ==
  /\ chain.at = "admit"
  /\ runs' = [runs EXCEPT ![chain.run] = [st |-> "queued", task |-> chain.task, link |-> None,
                                          epoch |-> task[chain.task].owner.epoch]]
  /\ admitted' = [admitted EXCEPT ![chain.task][chain.run] = @ + 1]
  /\ chain' = Idle /\ UNCHANGED <<task, approval, world, tried, opened, vouched>>

NextHour(t) ==
  /\ chain = Idle /\ Known(t) /\ task[t].hour + task[t].replies > 0
  /\ task' = [task EXCEPT ![t].hour = 0, ![t].replies = 0]
  /\ UNCHANGED <<memory, world, seenBy>>

(***************************************************************************)
(* Runs                                                                    *)
(***************************************************************************)
\* startJob: a run of another owner fails, one without authority is cancelled.
StartRun(r) ==
  /\ runs[r].st = "queued" /\ \A q \in RunIds : runs[q].st # "running"
  /\ runs' = [runs EXCEPT ![r] = IF ~OwnsRun(owner, @) THEN [@ EXCEPT !.st = "failed"]
                                 ELSE IF Authorized(r) THEN [@ EXCEPT !.st = "running"] ELSE Ended]
  /\ UNCHANGED <<task, approval, chain, world, seenBy>>
EndRun(r) == runs[r].st = "running" /\ runs' = [runs EXCEPT ![r] = Ended] /\ UNCHANGED <<task, approval, chain, world, seenBy>>

(***************************************************************************)
(* workerCall: a message of a run                                          *)
(***************************************************************************)
\* The key of a message: its run's own for a lasting grant, else the task's.
Key(t, r) == IF Lasting(task[t]) \/ task[t].kind = "scoped" THEN r ELSE t
\* Operations of runs that ended are dropped, uncertain ones never.
Pruned(f, t) ==
  IF ~Lasting(f) THEN f.ops
  ELSE [r \in RunIds |-> IF f.ops[r] = "uncertain" \/ (runs[r].task = t /\ InFlight(r)) THEN f.ops[r] ELSE "none"]
Sendable(r) == runs[r].st = "running" /\ Authorized(r) /\ task[runs[r].task].ops[Key(runs[r].task, r)] = "none"
WithinReplies(f) == f.kind \in {"public", "scoped"} => f.replies < Hourly

\* Mutant of Send: the message is recorded when its receipt arrives.
SendLate(r) ==
  /\ chain = Idle /\ Sendable(r) /\ WithinReplies(task[runs[r].task])
  /\ chain' = [at |-> "send", task |-> runs[r].task, run |-> r]
  /\ UNCHANGED <<task, approval, runs, world, seenBy>>
\* A reply to an application is queued in the outbox; any other message is
\* saved as uncertain before the source is asked to send it.
Send(r) ==
  /\ chain = Idle /\ Sendable(r)
  /\ LET t == runs[r].task
         f == task[t]
         scoped == f.kind = "scoped"
     IN  /\ WithinReplies(f)
         /\ task' = [task EXCEPT ![t].replies = IF f.kind \in {"public", "scoped"} THEN @ + 1 ELSE @,
                                 ![t].ops = [Pruned(f, t) EXCEPT ![Key(t, r)] = IF scoped THEN "accepted" ELSE "uncertain"]]
         /\ chain' = IF scoped THEN Idle ELSE [at |-> "send", task |-> t, run |-> r]
  /\ UNCHANGED <<approval, runs, world, seenBy>>

\* Mutant of MayDispatch: the message goes out as it was admitted.
MayDispatchAnyway(r) == TRUE
\* The run and its authority are looked at again before the message leaves: the
\* owner first, then the source, whose answers are awaited.
MayDispatch(r) == runs[r].st = "running" /\ Authorized(r)
Ask ==
  /\ chain.at = "send"
  /\ \/ MayDispatch(chain.run) /\ chain' = [chain EXCEPT !.at = "asked"] /\ vouched' = owner.epoch
     \/ chain' = Idle /\ UNCHANGED vouched       \* refused, or the source cannot be asked
  /\ UNCHANGED <<task, approval, runs, world, tried, opened, admitted>>

\* Then only the run and the expiry are: an owner paired during that wait is not
\* noticed by this message.
Dispatch ==
  /\ chain.at = "asked"
  /\ LET t == chain.task
         r == chain.run
     IN  \/ /\ runs[r].st = "running" /\ t \notin expired
            /\ tried' = [tried EXCEPT ![t][Key(t, r)] = @ + 1]
            /\ chain' = [chain EXCEPT !.at = "sent"]
         \/ chain' = Idle /\ UNCHANGED tried      \* refused
  /\ vouched' = None
  /\ UNCHANGED <<task, approval, runs, world, opened, admitted>>
Receipt ==
  /\ chain.at = "sent"
  /\ LET t == chain.task
         k == Key(t, chain.run)
     IN  \/ task' = [task EXCEPT ![t].ops[k] = "accepted"] /\ tried' = [tried EXCEPT ![t][k] = 0]
         \/ UNCHANGED <<task, tried>>             \* the receipt is lost
  /\ chain' = Idle /\ UNCHANGED <<approval, runs, world, opened, admitted, vouched>>

Complete(r) ==
  /\ chain = Idle /\ runs[r].st = "running" /\ Authorized(r) /\ ~Waits(task[runs[r].task])
  /\ task' = [task EXCEPT ![runs[r].task] = Retired]
  /\ UNCHANGED <<memory, world, seenBy>>

(***************************************************************************)
(* The world                                                               *)
(***************************************************************************)
Repair ==
  /\ owner.epoch + owner.link < MaxOwners
  /\ owner' = [epoch |-> owner.epoch + 1, link |-> 0]
  /\ UNCHANGED <<task, memory, source, watched, expired, restarts, seenBy>>
Relink ==
  /\ Links /\ owner.epoch + owner.link < MaxOwners
  /\ owner' = [owner EXCEPT !.link = @ + 1]
  /\ UNCHANGED <<task, memory, source, watched, expired, restarts, seenBy>>
Rebind ==
  /\ source < MaxBinds /\ source' = source + 1
  /\ UNCHANGED <<task, memory, owner, watched, expired, restarts, seenBy>>
Expire(t) ==
  /\ task[t].kind \in {"opener", "waiting"} /\ t \notin expired
  /\ expired' = expired \cup {t}
  /\ UNCHANGED <<task, memory, owner, source, watched, restarts, seenBy>>
Restart ==
  /\ restarts < MaxRestarts /\ restarts' = restarts + 1
  /\ approval' = [t \in Grants |-> None] /\ runs' = [r \in RunIds |-> NoRun] /\ chain' = Idle
  /\ vouched' = None
  /\ UNCHANGED <<task, owner, source, watched, expired, tried, opened, admitted>>

Call(t) == \/ \E k \in GrantKinds : Start(t, k) \/ Propose(t, k)
           \/ OwnerDecides(t) \/ Revoke(t) \/ Decide(t) \/ NextHour(t) \/ Expire(t)
Chained == SaveGrant \/ Mark \/ Open \/ Unwatch \/ CreateAdmitted \/ Ask \/ Dispatch \/ Receipt
Next == \/ \E t \in Grants : Call(t)
        \/ \E e \in Events : Admit(e) \/ ApplicationEvent(e)
        \/ \E r \in RunIds : StartRun(r) \/ EndRun(r) \/ Send(r) \/ Complete(r)
        \/ Chained \/ Repair \/ Relink \/ Rebind \/ Restart
Spec == Init /\ [][Next]_vars

(***************************************************************************)
(* Properties                                                              *)
(***************************************************************************)
\* Nothing a restart, a lost receipt or a repeated call leaves in doubt is done
\* again: a message whose fate is unknown, a task's opener (both saved before
\* they are tried) and an application's event its grant admitted before.
AtMostOnce == /\ \A t \in Grants, r \in RunIds : tried[t][r] <= 1
              /\ \A t \in Grants : opened[t] <= 1
              /\ \A t \in Grants, e \in Events : admitted[t][e] <= 1

\* The contact of a granted task is watched by its source: the watch a revoked
\* task still has to remove is never the one of a task granted since.
ActiveIsWatched == \A t \in Grants : Live(t) /\ task[t].kind # "scoped" => watched

\* What a grant asks for is done at most once, and it hears its contact.
GrantsHold == AtMostOnce /\ ActiveIsWatched

\* A message leaves only for a run that is still running, of a grant neither
\* revoked nor expired by then, and the owner who gave it was still the one paired
\* when its authority was asked for the last time, after its fate was recorded as
\* uncertain: only a pairing during the wait for the source comes too late for it.
SentWithAuthority ==
  [][\A t \in Grants, r \in RunIds : tried'[t][r] > tried[t][r] =>
       runs[chain.run].st = "running" /\ Live(t) /\ vouched = task[t].owner.epoch]_vars

\* A run made for a grant of the paired owner is not failed as another owner's.
OwnRunsStart ==
  [][\A r \in RunIds : runs[r].st = "queued" /\ runs'[r].st = "failed" =>
       task[runs[r].task].owner # owner]_vars
================================================================================
