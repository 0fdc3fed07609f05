------------------------------- MODULE Plugins -------------------------------
(***************************************************************************)
(* The calls of one installed plugin and the operations that change it     *)
(* (plugins/manager.mjs, plugin-broker.mjs, and the activation of a plugin *)
(* update in updates/runtime.mjs).  A call holds registry.lock only while  *)
(* it is admitted; a lease file stands for it from then on, and whoever    *)
(* changes the plugin judges the leases, one after the other, while it     *)
(* holds the lock.  A caller in the broker's container is foreign: the     *)
(* host cannot probe its process and judges it by its container.           *)
(*                                                                         *)
(* Assumed: a caller that dies takes its Compose client along.             *)
(* A definition commented "Mutant of D" is D with a plausible bug.         *)
(***************************************************************************)
EXTENDS Naturals, FiniteSets

CONSTANTS
  Calls,
  Foreign,     \* the calls made by the broker
  MaxOps,      \* bound: operations on the plugin
  MaxCrashes,  \* bound: processes that die
  MaxCancels,  \* bound: calls that are cancelled or fail
  None

VARIABLES
  plugin,   \* rev: the revision of its record, or None; up: whether its services run
  call,     \* call -> [at, rev: the revision it was admitted for]
  lease,    \* the calls with a file in command-invocations
  box,      \* call -> its container: none, created or running
  op,       \* the operation that holds registry.lock: what it does, where it is,
            \* and the leases it has not judged yet; or None
  ops, crashes, cancels

bounds == <<ops, crashes, cancels>>
vars == <<plugin, call, lease, box, op, bounds>>

Init ==
  /\ plugin = [rev |-> 0, up |-> TRUE] /\ call = [c \in Calls |-> [at |-> "idle", rev |-> None]]
  /\ lease = {} /\ box = [c \in Calls |-> "none"] /\ op = None
  /\ ops = 0 /\ crashes = 0 /\ cancels = 0

At(c, st) == call[c].at \in st
Goes(c, st) == call' = [call EXCEPT ![c].at = st]
Box(c, st) == box' = [box EXCEPT ![c] = st]

\* A call of the broker is made with an admission it gave and nobody used.
Admitted(c) == At(c, IF c \in Foreign THEN {"resolved"} ELSE {"idle"})

(***************************************************************************)
(* A call                                                                  *)
(***************************************************************************)
\* The broker admits an authorized run to one call of the revision it finds.
Resolve(c) ==
  /\ c \in Foreign /\ At(c, {"idle"}) /\ plugin.rev # None
  /\ call' = [call EXCEPT ![c] = [at |-> "resolved", rev |-> plugin.rev]]
  /\ UNCHANGED <<plugin, lease, box, op, bounds>>
\* The admission expires, is displaced by later ones, or ends with the broker.
Expire(c) ==
  /\ At(c, {"resolved"}) /\ Goes(c, "done") /\ UNCHANGED <<plugin, lease, box, op, bounds>>
\* Under the lock: the revision is the one asked for, and the lease is written.
Prepare(c) ==
  /\ op = None /\ Admitted(c)
  /\ IF plugin.rev = None \/ (c \in Foreign /\ call[c].rev # plugin.rev)
     THEN Goes(c, "done") /\ UNCHANGED lease
     ELSE /\ call' = [call EXCEPT ![c] = [at |-> "prepared", rev |-> plugin.rev]]
          /\ lease' = lease \cup {c}
  /\ UNCHANGED <<plugin, box, op, bounds>>
\* The lock is held for longer than a call waits for it.
Refused(c) ==
  /\ op # None /\ Admitted(c) /\ Goes(c, "done")
  /\ UNCHANGED <<plugin, lease, box, op, bounds>>
\* docker compose run: it creates the container, then starts it.
Create(c) ==
  /\ At(c, {"prepared"}) /\ Goes(c, "called") /\ Box(c, "created")
  /\ UNCHANGED <<plugin, lease, op, bounds>>
Start(c) ==
  /\ At(c, {"called"}) /\ box[c] = "created" /\ Box(c, "running")
  /\ UNCHANGED <<plugin, call, lease, op, bounds>>
\* The command ends, and --rm removes its container.
Ends(c) ==
  /\ box[c] = "running" /\ Box(c, "none")
  /\ IF At(c, {"called"}) THEN Goes(c, "ended") ELSE UNCHANGED call
  /\ UNCHANGED <<plugin, lease, op, bounds>>
\* The client is stopped (a lost connection, a time or output limit, a signal) or
\* fails; its container is to be removed before anything else.
Cancel(c) ==
  /\ At(c, {"prepared", "called"}) /\ cancels < MaxCancels /\ cancels' = cancels + 1
  /\ Goes(c, "cleanup") /\ UNCHANGED <<plugin, lease, box, op, ops, crashes>>
Removed(c) ==
  /\ At(c, {"cleanup"}) /\ Goes(c, "ended") /\ Box(c, "none")
  /\ UNCHANGED <<plugin, lease, op, bounds>>
\* Docker does not confirm the removal.  The launcher then keeps the lease, while
\* the broker gives it up.
\* Mutant of KeepsLease: both give it up.
KeepsLeaseNever(c) == FALSE
KeepsLease(c) == c \notin Foreign
Uncertain(c) ==
  /\ At(c, {"cleanup"}) /\ box[c] # "none" /\ Goes(c, IF KeepsLease(c) THEN "dead" ELSE "ended")
  /\ UNCHANGED <<plugin, lease, box, op, bounds>>
Release(c) ==
  /\ At(c, {"ended"}) /\ Goes(c, "done") /\ lease' = lease \ {c}
  /\ UNCHANGED <<plugin, box, op, bounds>>
CallerDies(c) ==
  /\ At(c, {"prepared", "called", "cleanup", "ended"}) /\ crashes < MaxCrashes /\ crashes' = crashes + 1
  /\ Goes(c, "dead") /\ UNCHANGED <<plugin, lease, box, op, ops, cancels>>

(***************************************************************************)
(* An operation on the plugin                                              *)
(***************************************************************************)
Kinds == {"install", "start", "stop", "uninstall", "upgrade"}
Applies(k) == IF k = "install" THEN plugin.rev = None ELSE plugin.rev # None
\* The lock is taken and the leases are listed.  Only an upgrade waits for them.
Take(k) ==
  /\ op = None /\ Applies(k) /\ ops < MaxOps /\ ops' = ops + 1
  /\ op' = [kind |-> k, at |-> "judge", left |-> lease]
  /\ UNCHANGED <<plugin, call, lease, box, crashes, cancels>>
Drains == op.kind = "upgrade"
Alive(c) == IF c \in Foreign THEN box[c] = "running" ELSE ~At(c, {"dead", "done"})
Judged(c) ==
  /\ op' = [op EXCEPT !.left = @ \ {c}] /\ lease' = lease \ {c}
Judging == op # None /\ op.at = "judge"
\* A lease whose caller is gone and whose container does not exist is removed.
JudgeGone(c) ==
  /\ Judging /\ c \in op.left /\ (c \in lease => ~Alive(c) /\ box[c] = "none") /\ Judged(c)
  /\ UNCHANGED <<plugin, call, box, bounds>>
\* A call that is alive, or stale (gone, with its container there): an upgrade
\* lists the leases again, the others give up.
JudgeActive(c) ==
  /\ Judging /\ c \in op.left \cap lease /\ (Alive(c) \/ box[c] # "none")
  /\ op' = IF Drains THEN [op EXCEPT !.left = lease] ELSE None
  /\ UNCHANGED <<plugin, call, lease, box, bounds>>
\* Mutant of GraceOver: a stale lease is waited for.
GraceOverNever(c) == FALSE
GraceOver(c) == ~Alive(c) /\ box[c] # "none"
\* A stale lease that outlasts the grace fails the upgrade.
GiveUp ==
  /\ Judging /\ Drains /\ (\E c \in lease : GraceOver(c)) /\ op' = None
  /\ UNCHANGED <<plugin, call, lease, box, bounds>>
Act ==
  /\ Judging /\ op.left = {}
  /\ plugin' = CASE op.kind = "start" -> [plugin EXCEPT !.up = TRUE]
                 [] op.kind = "stop" -> [plugin EXCEPT !.up = FALSE]
                 [] op.kind = "uninstall" -> [rev |-> None, up |-> FALSE]
                 [] OTHER -> [plugin EXCEPT !.rev = ops]
  /\ op' = None /\ UNCHANGED <<call, lease, box, bounds>>
\* The lock of an operation that died is left for somebody to inspect.
OpDies ==
  /\ Judging /\ crashes < MaxCrashes /\ crashes' = crashes + 1
  /\ op' = [op EXCEPT !.at = "dead"] /\ UNCHANGED <<plugin, call, lease, box, ops, cancels>>

\* The steps of invokePlugin and of the launcher, once the call is prepared.
Progress(c) == Create(c) \/ Start(c) \/ Ends(c) \/ Removed(c) \/ Release(c)
Judge(c) == JudgeGone(c) \/ JudgeActive(c)
Next ==
  \/ \E c \in Calls : Progress(c) \/ Resolve(c) \/ Expire(c) \/ Prepare(c) \/ Refused(c) \/ Cancel(c)
                      \/ Uncertain(c) \/ CallerDies(c) \/ Judge(c)
  \/ \E k \in Kinds : Take(k)
  \/ GiveUp \/ Act \/ OpDies
Spec == Init /\ [][Next]_vars

(***************************************************************************)
(* Properties                                                              *)
(***************************************************************************)
\* The call is admitted and has not ended, whether its caller still lives or not.
Executing(c) == At(c, {"prepared", "called"}) \/ box[c] = "running"
Waited(cs) == plugin' # plugin => \A c \in cs : ~Executing(c)
\* A plugin is replaced, removed, started or stopped only when the calls already
\* executing have finished, whatever became of those who made them, if whoever
\* changes it can see their processes.
CallsFinishFirst == [][Waited(Calls \ Foreign)]_vars
\* The same of every call, before an upgrade: "Calls already executing finish first."
EveryCallFinishesFirst == [][op # None /\ Drains => Waited(Calls)]_vars

Fairness == /\ \A c \in Calls : WF_vars(Progress(c)) /\ WF_vars(Judge(c))
            /\ WF_vars(GiveUp) /\ WF_vars(Act)
FairSpec == Spec /\ Fairness
\* An operation that holds the lock gives it up, with its effect or without,
\* unless it dies: calls never stay shut out behind a lease nobody will release.
DrainEnds == Judging ~> ~Judging
================================================================================
