------------------------------- MODULE MCHosts -------------------------------
(***************************************************************************)
(* The processes beside the relay: the updater, the plugin manager and the *)
(* host executor.  They share no state here: a behaviour is one of one of  *)
(* them, its part, while the others stay as they start, and the run        *)
(* explores the union of their state graphs.                               *)
(***************************************************************************)
EXTENDS Plugins
CONSTANTS m1, m2, p1, c1, c2, r1, w1, w2, w3

\* Updates; MaxCrashes is the plugin manager's bound and the supervisor's.
CONSTANTS Jobs, Version, PluginJobs, Preserving, MaxFails, MaxBusy, MaxTroubles
MCVersion == [j \in {m1, m2, p1} |-> IF j = m2 THEN 2 ELSE 1]

VARIABLES
  part,
  \* Updates
  job, main, up, package, at, cur, old, checks, pause, inherited, open, reload, run, reg,
  updateCrashes, fails, busy,
  \* HostExecutor
  file, proc, worker, lock, lane, cli, client, check, stopped, writer, own, command,
  hostCrashes, handoffs, commands, tried

updates == <<job, main, up, package, at, cur, old, checks, pause, inherited, open, reload, run,
             reg, updateCrashes, fails, busy>>
hosts == <<file, proc, worker, lock, lane, cli, client, check, stopped, writer, own,
           command, hostCrashes, handoffs, commands, tried>>

U == INSTANCE Updates WITH plug <- package, crashes <- updateCrashes
ASSUME UpdatesAssumption ==
  /\ Version \in [Jobs -> Nat] /\ PluginJobs \subseteq Jobs
  /\ None \notin Nat \cup Jobs
H == INSTANCE HostExecutor WITH
       Runs <- {r1}, Scheduled <- {}, Workers <- {w1, w2, w3}, MaxCrashes <- 1,
       MaxHandoffs <- 1, Retires <- TRUE, Attempts <- 1, MaxCommands <- 0,
       job <- lane, lease <- writer, plugin <- command, crashes <- hostCrashes

HostsInit ==
  /\ part \in {"updates", "plugins", "executor"}
  /\ Init /\ U!Init /\ H!Init
HostsNext ==
  \/ part = "updates"  /\ U!Next /\ UNCHANGED <<part, vars, hosts>>
  \/ part = "plugins"  /\ Next   /\ UNCHANGED <<part, updates, hosts>>
  \/ part = "executor" /\ H!Next /\ UNCHANGED <<part, vars, updates>>
HostsSpec == HostsInit /\ [][HostsNext]_<<part, vars, updates, hosts>>

\* Updates: once settled, the installation is that of the last completed update.
AllOrNothing == U!TypeOK /\ U!AllOrNothing
\* Updates: no update stops the relay or a worker under work that is not handed over.
WorkIsNotCut == U!WorkIsNotCut
\* Updates: under the supervisor's loop, the pause of an update is lifted.
PauseIsLifted == part = "updates" /\ U!Fairness => U!PauseLifts
\* Plugins: an operation that drains the calls gives up its lock.
OperationsEnd == part = "plugins" /\ Fairness => DrainEnds
\* Host executor: a run told over has no CLI that works on, no hand-over gives a run up
\* as unknown, and a stop ends the CLI, wherever in its life it is asked for.
HostIsSound ==
  /\ [](H!EndedIsStopped /\ H!AttachSeesTheRun)
  /\ part = "executor" /\ H!Fairness => H!StopTakesEffect
==============================================================================
