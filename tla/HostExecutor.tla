----------------------------- MODULE HostExecutor -----------------------------
(***************************************************************************)
(* Native executors run by a host worker on behalf of the relay            *)
(* (host-executor.ts), the observer the relay keeps of each                *)
(* (host-executor-client.ts) and the workspace lease that keeps plugin     *)
(* commands out (workspace-lease.mjs).  They share files alone: a request  *)
(* is renamed to a claim, the worker's events end with an exit, a cancel   *)
(* file asks it to stop.  Workers crash, are retired by an update while    *)
(* they finish their runs, and are started again; the relay hands its runs *)
(* over.  What happens between two file operations is one step.            *)
(*                                                                         *)
(* A definition commented "Mutant of D" is D with a plausible bug.         *)
(***************************************************************************)
EXTENDS Naturals, FiniteSets

CONSTANTS
  Runs,
  Scheduled,    \* the runs of the background lane
  Workers,      \* the host workers, in the order they are started
  MaxCrashes,   \* bound: workers that die
  MaxHandoffs,  \* bound: relays replaced
  Retires,      \* whether workers are retired
  Attempts,     \* bound: attempts of a run, which share its id
  MaxCommands,  \* bound: plugin commands that write to the workspace
  None

VARIABLES
  file,     \* run -> its files: request, claim, events, cancel
  proc,     \* run -> the process file: the worker that claimed it, whether the CLI is in it
  worker,   \* worker -> off, starting, up, retiring or dead
  lock,     \* worker.lock
  job,      \* worker -> run -> how far the worker is with it
  cli,      \* run -> its CLI: none, live, signalled or lost
  client,   \* run -> its observer: none, watching, attaching, over or unknown
  check,    \* run -> the files an attaching observer did not find
  stopped,  \* runs whose stop was asked
  lease,    \* workspace-writer.lock: None, "plugin" or a worker
  own,      \* the workers whose release removes the lease
  plugin,   \* the plugin command: none, checking or running
  crashes,
  handoffs,
  commands,
  tried     \* run -> attempts submitted

fs == <<file, proc, lock, lease>>
host == <<worker, job, own>>
watch == <<client, check, stopped, handoffs, tried>>
writers == <<plugin, commands>>
vars == <<fs, host, watch, cli, writers, crashes>>

NoFiles == [req |-> FALSE, claim |-> FALSE, ev |-> "none", cancel |-> FALSE]
NoProc == [host |-> None, cli |-> FALSE]
Init ==
  /\ file = [r \in Runs |-> NoFiles] /\ proc = [r \in Runs |-> NoProc] /\ lock = None
  /\ worker = [w \in Workers |-> "off"] /\ job = [w \in Workers |-> [r \in Runs |-> "none"]]
  /\ cli = [r \in Runs |-> "none"] /\ client = [r \in Runs |-> "none"]
  /\ check = [r \in Runs |-> {}] /\ stopped = {} /\ lease = None /\ own = {}
  /\ plugin = "none" /\ crashes = 0 /\ handoffs = 0 /\ commands = 0
  /\ tried = [r \in Runs |-> 0]

Alive(w) == w # None /\ worker[w] \in {"starting", "up", "retiring"}
Lanes(w) == {r \in Runs : job[w][r] \notin {"none", "recovering", "forgetting"}}
File(r, k, v) == file' = [file EXCEPT ![r][k] = v]
Job(w, r, at) == job' = [job EXCEPT ![w][r] = at]

(***************************************************************************)
(* The relay's observer                                                    *)
(***************************************************************************)
\* The next attempt of a run follows the end of the one before.
Submit(r) ==
  /\ client[r] \in {"none", "over"} /\ tried[r] < Attempts /\ r \notin stopped
  /\ client' = [client EXCEPT ![r] = "watching"] /\ tried' = [tried EXCEPT ![r] = @ + 1]
  /\ File(r, "req", TRUE)
  /\ UNCHANGED <<proc, lock, lease, host, check, stopped, handoffs, cli, writers, crashes>>
\* The exit ends the observer, which removes the events.
See(r) ==
  /\ client[r] = "watching" /\ file[r].ev = "exit"
  /\ client' = [client EXCEPT ![r] = "over"] /\ File(r, "ev", "none")
  /\ UNCHANGED <<proc, lock, lease, host, check, stopped, handoffs, tried, cli, writers, crashes>>
\* No sign of the worker for 15 s: its heartbeat, or the events it touches.
Beats(r) == IF file[r].claim THEN \E w \in Workers : Alive(w) /\ job[w][r] # "none"
            ELSE \E w \in Workers : worker[w] \in {"starting", "up"}
Offline(r) ==
  /\ client[r] = "watching" /\ ~Beats(r) /\ file[r].ev # "exit"
  /\ client' = [client EXCEPT ![r] = "over"] /\ File(r, "cancel", TRUE) /\ stopped' = stopped \cup {r}
  /\ UNCHANGED <<proc, lock, lease, host, check, handoffs, tried, cli, writers, crashes>>
\* terminateJob commits the cancel before it signals the observer.
Stop(r) ==
  /\ client[r] = "watching" /\ r \notin stopped
  /\ client' = [client EXCEPT ![r] = "over"] /\ File(r, "cancel", TRUE) /\ stopped' = stopped \cup {r}
  /\ UNCHANGED <<proc, lock, lease, host, check, handoffs, tried, cli, writers, crashes>>

HandOver(r) ==
  /\ handoffs < MaxHandoffs /\ handoffs' = handoffs + 1 /\ client[r] = "watching"
  /\ client' = [client EXCEPT ![r] = "attaching"] /\ check' = [check EXCEPT ![r] = {}]
  /\ UNCHANGED <<fs, host, stopped, tried, cli, writers, crashes>>
Exists(r, k) == CASE k = "req" -> file[r].req [] k = "claim" -> file[r].claim
                  [] k = "ev" -> file[r].ev # "none"
\* --attach looks for the request, the claim and the events, in this order.
NextCheck(missing) ==
  IF "req" \notin missing THEN "req" ELSE IF "claim" \notin missing THEN "claim" ELSE "ev"
Attach(r) ==
  /\ client[r] = "attaching"
  /\ LET k == NextCheck(check[r]) IN
     IF Exists(r, k) THEN /\ client' = [client EXCEPT ![r] = "watching"]
                          /\ check' = [check EXCEPT ![r] = {}]
     ELSE /\ check' = [check EXCEPT ![r] = @ \cup {k}]
          /\ client' = [client EXCEPT ![r] = IF Cardinality(check'[r]) = 3 THEN "unknown" ELSE @]
  /\ UNCHANGED <<fs, host, stopped, handoffs, tried, cli, writers, crashes>>

(***************************************************************************)
(* A worker: a loop that recovers, claims and retires, and a task per run  *)
(***************************************************************************)
\* The loop waits for the recovery of a claim, and for each file of a new one.
Claiming == {"reserved", "named", "opened"}
Looping(w) == \A r \in Runs : job[w][r] \notin {"recovering", "forgetting"} \cup Claiming

Boot(w) ==
  /\ worker[w] = "off" /\ \A v \in Workers : worker[v] \in {"off", "retiring", "dead"}
  /\ lock = None \/ ~Alive(lock)
  /\ lock' = w /\ worker' = [worker EXCEPT ![w] = "starting"]
  /\ UNCHANGED <<file, proc, lease, job, own, watch, cli, writers, crashes>>

\* Mutant of Orphaned: a claim the worker does not hold itself is an orphan.
OrphanedOthers(w, r) == file[r].claim /\ job[w][r] = "none"
Orphaned(w, r) == file[r].claim /\ job[w][r] = "none" /\ ~Alive(proc[r].host)
\* recoverClaims: the CLI of a dead worker is signalled, if it was recorded, and
\* its exit written, before the claim is removed.
Recover(w, r) ==
  /\ worker[w] \in {"starting", "up"} /\ Looping(w) /\ Orphaned(w, r)
  /\ cli' = [cli EXCEPT ![r] = IF @ = "live" /\ proc[r].cli THEN "signalled" ELSE @]
  /\ File(r, "ev", "exit") /\ Job(w, r, "recovering")
  /\ UNCHANGED <<proc, lock, lease, worker, own, watch, writers, crashes>>
Forget(w, r) ==
  /\ job[w][r] = "recovering" /\ Job(w, r, "forgetting") /\ proc' = [proc EXCEPT ![r] = NoProc]
  /\ UNCHANGED <<file, lock, lease, worker, own, watch, cli, writers, crashes>>
Recovered(w, r) ==
  /\ job[w][r] = "forgetting" /\ Job(w, r, "none") /\ File(r, "claim", FALSE)
  /\ UNCHANGED <<proc, lock, lease, worker, own, watch, cli, writers, crashes>>
\* recoverNativeLease, once the claims of the workers before are recovered.
Ready(w) ==
  /\ worker[w] = "starting" /\ \A r \in Runs : ~Orphaned(w, r) /\ job[w][r] = "none"
  /\ lease' = IF lease \in Workers /\ ~Alive(lease) THEN None ELSE lease
  /\ worker' = [worker EXCEPT ![w] = "up"]
  /\ UNCHANGED <<file, proc, lock, job, own, watch, cli, writers, crashes>>

\* Mutant of Leased: a plugin command's lease is taken for another worker's.
LeasedBeside(w) ==
  IF Lanes(w) # {} THEN UNCHANGED <<lease, own>>
  ELSE /\ lease \in Workers => Alive(lease)
       /\ lease' = IF lease = None THEN w ELSE lease
       /\ own' = IF lease = None THEN own \cup {w} ELSE own \ {w}
\* The first run of a worker takes the lease; beside another worker's it does
\* without, and does not remove it in the end.
Leased(w) ==
  IF Lanes(w) # {} THEN UNCHANGED <<lease, own>>
  ELSE /\ lease # "plugin" /\ (lease # None => Alive(lease))
       /\ lease' = IF lease = None THEN w ELSE lease
       /\ own' = IF lease = None THEN own \cup {w} ELSE own \ {w}
Reserve(w, r) ==
  /\ worker[w] = "up" /\ Looping(w) /\ file[r].req /\ job[w][r] = "none"
  /\ r \notin Scheduled => Lanes(w) \subseteq Scheduled
  /\ Leased(w) /\ Job(w, r, "reserved")
  /\ UNCHANGED <<file, proc, lock, worker, watch, cli, writers, crashes>>
\* The process file, the events and then the claim, a file after the other.
Name(w, r) ==
  /\ job[w][r] = "reserved" /\ Job(w, r, "named")
  /\ proc' = [proc EXCEPT ![r] = [host |-> w, cli |-> FALSE]]
  /\ UNCHANGED <<file, lock, lease, worker, own, watch, cli, writers, crashes>>
Open(w, r) ==
  /\ job[w][r] = "named" /\ Job(w, r, "opened")
  /\ File(r, "ev", IF file[r].ev = "none" THEN "open" ELSE file[r].ev)
  /\ UNCHANGED <<proc, lock, lease, worker, own, watch, cli, writers, crashes>>
Claim(w, r) ==
  /\ job[w][r] = "opened" /\ Job(w, r, "claimed")
  /\ file' = [file EXCEPT ![r].req = FALSE, ![r].claim = TRUE]
  /\ UNCHANGED <<proc, lock, lease, worker, own, watch, cli, writers, crashes>>
\* The lease of a worker that died since: this one gives up, to be started again.
StaleLease(w) ==
  /\ worker[w] = "up" /\ Looping(w) /\ \E r \in Runs : file[r].req /\ Lanes(w) = {}
  /\ lease \in Workers /\ ~Alive(lease)
  /\ worker' = [worker EXCEPT ![w] = "dead"] /\ lock' = None
  /\ UNCHANGED <<file, proc, lease, job, own, watch, cli, writers, crashes>>
\* The run's record is not there: its request is answered with an exit.
Refuse(w, r) ==
  /\ worker[w] = "up" /\ Looping(w) /\ file[r].req /\ job[w][r] = "none"
  /\ file' = [file EXCEPT ![r].ev = "exit", ![r].req = FALSE]
  /\ UNCHANGED <<proc, lock, lease, host, watch, cli, writers, crashes>>

Launch(w, r) ==
  /\ job[w][r] = "claimed"
  /\ \/ ~file[r].cancel /\ cli' = [cli EXCEPT ![r] = "live"] /\ Job(w, r, "spawned")
     \/ Job(w, r, "ended") /\ UNCHANGED cli             \* cancelled, or not authorized
  /\ UNCHANGED <<fs, worker, own, watch, writers, crashes>>
Record(w, r) ==
  /\ job[w][r] = "spawned" /\ Job(w, r, "recorded") /\ proc' = [proc EXCEPT ![r].cli = TRUE]
  /\ UNCHANGED <<file, lock, lease, worker, own, watch, cli, writers, crashes>>
Cancelled(w, r) == job[w][r] = "recorded" /\ file[r].cancel
PollCancel(w, r) ==
  /\ Cancelled(w, r) /\ cli[r] = "live"
  /\ cli' = [cli EXCEPT ![r] = "signalled"]
  /\ UNCHANGED <<fs, host, watch, writers, crashes>>
CliEnds(r) ==
  /\ cli[r] \in {"live", "signalled"} /\ cli' = [cli EXCEPT ![r] = "none"]
  /\ UNCHANGED <<fs, host, watch, writers, crashes>>
Observe(w, r) ==
  /\ job[w][r] = "recorded" /\ cli[r] = "none" /\ Job(w, r, "ended")
  /\ UNCHANGED <<fs, worker, own, watch, cli, writers, crashes>>
Tell(w, r) ==
  /\ job[w][r] = "ended" /\ File(r, "ev", "exit") /\ Job(w, r, "told")
  /\ UNCHANGED <<proc, lock, lease, worker, own, watch, cli, writers, crashes>>
Unclaim(w, r) ==
  /\ job[w][r] = "told" /\ File(r, "claim", FALSE) /\ Job(w, r, "unclaimed")
  /\ UNCHANGED <<proc, lock, lease, worker, own, watch, cli, writers, crashes>>
LastLane(w, r) == Lanes(w) = {r}
\* The other files, and the lease with the worker's last run (one step: what is left of
\* a run that was told over, no step of these tells apart).
Finish(w, r) ==
  /\ job[w][r] = "unclaimed" /\ Job(w, r, "none")
  /\ proc' = [proc EXCEPT ![r] = NoProc] /\ File(r, "cancel", FALSE)
  /\ IF LastLane(w, r) /\ w \in own THEN lease' = None /\ own' = own \ {w}
     ELSE UNCHANGED <<lease, own>>
  /\ UNCHANGED <<lock, worker, watch, cli, writers, crashes>>

\* A retired worker gives up its lock at once and its runs as they end.
Retire(w) ==
  /\ Retires /\ worker[w] = "up" /\ Looping(w) /\ worker' = [worker EXCEPT ![w] = "retiring"] /\ lock' = None
  /\ UNCHANGED <<file, proc, lease, job, own, watch, cli, writers, crashes>>
Retired(w) ==
  /\ worker[w] = "retiring" /\ Lanes(w) = {} /\ worker' = [worker EXCEPT ![w] = "dead"]
  /\ UNCHANGED <<fs, job, own, watch, cli, writers, crashes>>
\* The CLIs of a worker that dies live on; one not recorded yet is lost.
Crash(w) ==
  /\ Alive(w) /\ crashes < MaxCrashes /\ crashes' = crashes + 1
  /\ worker' = [worker EXCEPT ![w] = "dead"] /\ job' = [job EXCEPT ![w] = [r \in Runs |-> "none"]]
  /\ cli' = [r \in Runs |-> IF job[w][r] = "spawned" /\ cli[r] = "live" THEN "lost" ELSE cli[r]]
  /\ own' = own \ {w}
  /\ UNCHANGED <<fs, watch, writers>>

(***************************************************************************)
(* Plugin commands that write to the workspace (invokeLease)               *)
(***************************************************************************)
PluginLease ==
  /\ commands < MaxCommands /\ plugin = "none" /\ lease = None
  /\ lease' = "plugin" /\ plugin' = "checking" /\ commands' = commands + 1
  /\ UNCHANGED <<file, proc, lock, host, watch, cli, crashes>>
PluginCheck ==
  /\ plugin = "checking"
  /\ IF \E r \in Runs : file[r].req \/ file[r].claim
     THEN plugin' = "none" /\ lease' = None ELSE plugin' = "running" /\ UNCHANGED lease
  /\ UNCHANGED <<file, proc, lock, host, watch, cli, crashes, commands>>
PluginEnd ==
  /\ plugin = "running" /\ plugin' = "none" /\ lease' = None
  /\ UNCHANGED <<file, proc, lock, host, watch, cli, crashes, commands>>

Observer(r) == See(r) \/ Offline(r) \/ Attach(r)
Step(w, r) == \/ Recover(w, r) \/ Forget(w, r) \/ Recovered(w, r)
              \/ Reserve(w, r) \/ Name(w, r) \/ Open(w, r) \/ Claim(w, r) \/ Launch(w, r) \/ Record(w, r)
              \/ PollCancel(w, r) \/ Observe(w, r) \/ Tell(w, r) \/ Unclaim(w, r) \/ Finish(w, r)
Next == \/ \E r \in Runs : Submit(r) \/ Observer(r) \/ Stop(r) \/ HandOver(r) \/ CliEnds(r)
        \/ \E w \in Workers : Boot(w) \/ Ready(w) \/ StaleLease(w) \/ Retire(w) \/ Retired(w) \/ Crash(w)
        \/ \E w \in Workers, r \in Runs : Step(w, r) \/ Refuse(w, r)
        \/ PluginLease \/ PluginCheck \/ PluginEnd
Spec == Init /\ [][Next]_vars

(***************************************************************************)
(* Properties                                                              *)
(***************************************************************************)
\* A run is never told over while its CLI works on unsignalled, whether its
\* worker, the one that recovers its claim or a retired one told so; except for
\* the CLI a worker started and died before it could record.
EndedIsStopped == \A r \in Runs : file[r].ev = "exit" => cli[r] # "live"

\* The next relay's observer, looking at one file after the other, always finds
\* a trace of the run it was handed: its outcome is never given up as unknown.
AttachSeesTheRun == \A r \in Runs : client[r] # "unknown"

\* The workers' loops, the observers' polls and a host that is kept running; a
\* CLI that was signalled and a plugin command end.
Fairness ==
  /\ \A w \in Workers : WF_vars(Boot(w) \/ Ready(w) \/ StaleLease(w) \/ Retired(w))
  /\ \A w \in Workers, r \in Runs : WF_vars(Step(w, r))
  /\ \A r \in Runs : WF_vars(cli[r] = "signalled" /\ CliEnds(r))
  /\ WF_vars(PluginCheck \/ PluginEnd)
FairSpec == Spec /\ Fairness

\* A stop asked before the claim, during the launch, across a retirement or the
\* death of a worker ends the CLI, while there is a worker left to do it (the
\* bound on the workers started is the model's).
StopTakesEffect ==
  \A r \in Runs : r \in stopped ~> \/ cli[r] \in {"none", "lost"} /\ ~file[r].req
                                   \/ \A w \in Workers : worker[w] \in {"retiring", "dead"}

\* No plugin command writes to the workspace while a CLI does.
OneWriter == plugin = "running" => \A r \in Runs : cli[r] = "none"
================================================================================
