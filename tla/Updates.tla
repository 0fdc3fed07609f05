------------------------------- MODULE Updates -------------------------------
(***************************************************************************)
(* Software updates of one deployment: the jobs (updates/control.mjs), the *)
(* host's supervisor (updates/supervisor.mjs) and what it does to the      *)
(* installation (updates/runtime.mjs).  A job of the main package replaces *)
(* the deployment's environment, the binding of the package root, the      *)
(* native worker and the relay, one after the other; a job of the plugin   *)
(* replaces its services and its registry record.  Any step may fail, with *)
(* or without its effect, and the supervisor may die between any two.      *)
(*                                                                         *)
(* A version is a number, the installed one at the start is 0.             *)
(* A definition commented "Mutant of D" is D with a plausible bug.         *)
(***************************************************************************)
EXTENDS Naturals, Sequences, FiniteSetsExt

CONSTANTS
  Jobs,
  Version,      \* job -> the version of its candidate
  PluginJobs,   \* the jobs of the plugin; the others are of the main package
  Preserving,   \* main jobs from and to a version that hands its runs over
  MaxCrashes,   \* bound: supervisors that die
  MaxFails,     \* bound: steps that fail
  MaxBusy,      \* bound: registry operations of others
  MaxTroubles,  \* bound: all three together
  None

VARIABLES
  job,      \* job -> its receipt
  main,     \* env, bind: the versions of docker.env and of the package root
  up,       \* relay, host, svc: the version each runs, or None
  plug,     \* the version of the plugin's record
  at,       \* where the supervisor is
  cur,      \* the job it performs
  old,      \* whether it restores the version before
  checks,   \* idle checks passed since the pause
  pause,    \* upgrade-pause.json
  inherited,\* whether the supervisor found a pause at its start
  open,     \* admissionReady
  reload,   \* reloadPending
  run,      \* the relay's work: none, admitting, asked, on the worker (child), on a
            \* retired one, or cut short
  reg,      \* registry.lock: free, ours, other, dead (the last supervisor's) or lost (an
            \* earlier one's, which nobody removes)
  crashes,
  fails,
  busy

sup == <<at, cur, old, checks, inherited, open, reload>>
inst == <<main, up, plug>>
bounds == <<crashes, fails, busy>>
vars == <<job, inst, sup, pause, run, reg, bounds>>

Receipt == [st |-> "none", prev |-> 0, rb |-> FALSE, rec |-> FALSE]
Init ==
  /\ job = [j \in Jobs |-> Receipt] /\ main = [env |-> 0, bind |-> 0] /\ plug = 0
  /\ up = [relay |-> 0, host |-> 0, svc |-> 0]
  /\ at = "loop" /\ cur = None /\ old = FALSE /\ checks = 0 /\ inherited = FALSE
  /\ open = TRUE /\ reload = FALSE /\ pause = FALSE /\ run = "none" /\ reg = "free"
  /\ crashes = 0 /\ fails = 0 /\ busy = 0

Trouble == crashes + fails + busy < MaxTroubles
MayFail == fails < MaxFails /\ Trouble

IsMain(j) == j \notin PluginJobs
Installed(j) == IF IsMain(j) THEN main.bind ELSE plug
Eligible(j) == Version[j] > Installed(j)
In(sts) == {j \in Jobs : job[j].st \in sts}
Save(j, r) == job' = [job EXCEPT ![j] = r]

(***************************************************************************)
(* Jobs                                                                    *)
(***************************************************************************)
Prepare(j) ==
  /\ job[j].st = "none" /\ Eligible(j)
  /\ Save(j, [Receipt EXCEPT !.st = "prepared", !.prev = Installed(j)])
  /\ UNCHANGED <<inst, sup, pause, run, reg, bounds>>
Pending == In({"queued", "applying", "recovery-required"})
Submit(j) ==
  /\ reg = "free" /\ job[j].st = "prepared" /\ Pending = {}
  /\ job[j].prev = Installed(j) /\ Eligible(j)
  /\ Save(j, [job[j] EXCEPT !.st = "queued"])
  /\ UNCHANGED <<inst, sup, pause, run, reg, bounds>>
RetryRecovery(j) ==
  /\ reg = "free" /\ job[j].st = "recovery-required" /\ job[j].rb /\ In({"queued", "applying"}) = {}
  /\ Save(j, [job[j] EXCEPT !.st = "queued", !.rec = TRUE])
  /\ UNCHANGED <<inst, sup, pause, run, reg, bounds>>
\* The supervisor prepares and submits a release, unless one of that version failed.
QueueAutomatic(j) ==
  /\ at = "loop" /\ reg = "free" /\ Pending = {} /\ job[j].st = "none"
  /\ ~\E i \in In({"failed", "rolled-back"}) : IsMain(i) = IsMain(j) /\ Version[i] = Version[j]
  /\ Eligible(j)
  /\ Save(j, [Receipt EXCEPT !.st = "queued", !.prev = Installed(j)])
  /\ UNCHANGED <<inst, sup, pause, run, reg, bounds>>
\* Another process that holds the registry, an installation for one.
RegTake ==
  /\ reg = "free" /\ busy < MaxBusy /\ Trouble /\ reg' = "other" /\ busy' = busy + 1
  /\ UNCHANGED <<job, inst, sup, pause, run, crashes, fails>>
RegGive ==
  /\ reg = "other" /\ reg' = "free" /\ UNCHANGED <<job, inst, sup, pause, run, bounds>>

(***************************************************************************)
(* The relay's work                                                        *)
(***************************************************************************)
Admit ==
  /\ up.relay # None /\ ~pause /\ run = "none" /\ run' = "admitting"
  /\ UNCHANGED <<job, inst, sup, pause, reg, bounds>>
Launch ==
  /\ \/ run = "admitting" /\ run' = "asked"
     \/ run = "asked" /\ up.host # None /\ run' = "child"
  /\ UNCHANGED <<job, inst, sup, pause, reg, bounds>>
RunEnds ==
  /\ run \in {"asked", "child", "retired", "cut"} /\ run' = "none"
  /\ UNCHANGED <<job, inst, sup, pause, reg, bounds>>
\* What is left of the work when the relay or its worker is stopped.
Cut == IF run = "none" THEN run ELSE "cut"

(***************************************************************************)
(* Performing a job                                                        *)
(***************************************************************************)
Waits(j) == IsMain(j) /\ j \notin Preserving
\* Whether a job takes the registry before anything else.
Locks(j) == Waits(j) \/ (job[j].rec /\ ~IsMain(j))
First(j) == IF IsMain(j) THEN "stop" ELSE "pstop"
Target == IF old THEN job[cur].prev ELSE Version[cur]
Ours == IF reg = "ours" THEN "free" ELSE reg

Pick(j) ==
  /\ at = "loop" /\ open /\ ~reload /\ job[j].st = "queued" /\ cur' = j /\ checks' = 0
  /\ at' = IF Waits(j) THEN "idle" ELSE "begin"
  /\ UNCHANGED <<job, inst, old, inherited, open, reload, pause, run, reg, bounds>>
\* Mutant of EnoughChecks: the check before the pause is enough.
EnoughChecksOne(n) == TRUE
EnoughChecks(n) == n >= 2     \* one before the pause and one after; the code makes three after
\* No claim is held and the relay, which answers between two admissions, runs nothing.
IdleCheck ==
  /\ at = "idle" /\ run # "admitting" /\ UNCHANGED <<job, inst, old, inherited, open, reload, run, reg, bounds>>
  /\ IF run # "none" THEN at' = "loop" /\ cur' = None /\ pause' = FALSE /\ UNCHANGED checks
     ELSE /\ checks' = checks + 1 /\ UNCHANGED <<cur, pause>>
          /\ at' = IF pause /\ EnoughChecks(checks') THEN "begin" ELSE "pause"
Pause ==
  /\ at = "pause" /\ pause' = TRUE /\ at' = IF EnoughChecks(checks) THEN "begin" ELSE "idle"
  /\ UNCHANGED <<job, inst, cur, old, checks, inherited, open, reload, run, reg, bounds>>

\* A job ends: its lock and its pause are given up, and the supervisor reloads
\* after a main one that changed the installation.
Done(st, then) ==
  /\ Save(cur, [job[cur] EXCEPT !.st = st]) /\ reg' = Ours /\ pause' = FALSE
  /\ reload' = (reload \/ (IsMain(cur) /\ st \in {"completed", "rolled-back"}))
  /\ cur' = None /\ old' = FALSE /\ at' = then
  /\ UNCHANGED <<checks, inherited, open>>
Onward == IF open THEN "loop" ELSE "host"
Restore ==
  /\ old' = TRUE /\ at' = First(cur) /\ UNCHANGED <<cur, checks, inherited, open, reload>>

\* A rejection before the switch is terminal: the registry is busy, or the
\* installation is not what it was when the candidate was prepared.
Begin ==
  /\ at = "begin" /\ UNCHANGED <<inst, run, bounds>>
  /\ IF (Locks(cur) /\ reg # "free") \/ (~job[cur].rec /\ job[cur].prev # Installed(cur))
     THEN Done("failed", Onward)
     ELSE /\ reg' = IF Locks(cur) THEN "ours" ELSE reg
          /\ UNCHANGED pause
          /\ IF job[cur].rec THEN Restore /\ UNCHANGED job
             ELSE /\ Save(cur, [job[cur] EXCEPT !.st = "applying"]) /\ at' = "build"
                  /\ UNCHANGED <<cur, old, checks, inherited, open, reload>>
BuildFails ==
  /\ at = "build" /\ (MayFail \/ (~IsMain(cur) /\ reg # "free"))
  /\ fails' = IF MayFail THEN fails + 1 ELSE fails
  /\ Done("failed", Onward) /\ UNCHANGED <<inst, run, crashes, busy>>
\* What it takes to restore the version before is saved before anything is touched.
\* Mutant of Journal: it is not saved.
JournalNone(r) == r
Journal(r) == [r EXCEPT !.rb = TRUE]
Build ==
  /\ at = "build" /\ Save(cur, Journal(job[cur]))
  /\ IF IsMain(cur) THEN at' = (IF Waits(cur) THEN "stop" ELSE "lock") /\ UNCHANGED reg
     ELSE reg = "free" /\ reg' = "ours" /\ at' = "pstop"
  /\ UNCHANGED <<inst, cur, old, checks, inherited, open, reload, pause, run, bounds>>
\* A main job that preserves runs closes admission for the switch alone.
Lock ==
  /\ at = "lock" /\ UNCHANGED <<job, inst, run, bounds>>
  /\ IF reg = "free" THEN /\ reg' = "ours" /\ pause' = TRUE /\ at' = "stop"
                          /\ UNCHANGED <<cur, old, checks, inherited, open, reload>>
     ELSE Restore /\ UNCHANGED <<reg, pause>>

\* The relay is kept when it runs the version to restore.
Stop(to) == /\ up' = [up EXCEPT !.relay = IF old /\ @ = to THEN @ ELSE None]
            /\ run' = IF Waits(cur) /\ up'.relay = None THEN Cut ELSE run
            /\ UNCHANGED <<main, plug>>
\* A worker that is stopped takes its run along; one that is retired keeps it.
Halt == /\ up' = [up EXCEPT !.host = None] /\ UNCHANGED <<main, plug>>
        /\ run' = IF run # "child" THEN run ELSE IF Waits(cur) THEN "cut" ELSE "retired"
Started(version) == [up EXCEPT !.host = version]
Sets(to) ==
  \/ at = "env" /\ main' = [main EXCEPT !.env = to] /\ UNCHANGED <<up, plug>>
  \/ at = "bind" /\ main' = [main EXCEPT !.bind = to] /\ UNCHANGED <<up, plug>>
  \/ at = "start" /\ up' = Started(to) /\ UNCHANGED <<main, plug>>
  \/ at = "up" /\ up' = [up EXCEPT !.relay = to] /\ UNCHANGED <<main, plug>>
  \/ at = "pstop" /\ up' = [up EXCEPT !.svc = IF old /\ @ = to THEN @ ELSE None] /\ UNCHANGED <<main, plug>>
  \/ at = "preg" /\ plug' = to /\ UNCHANGED <<main, up>>
  \/ at = "pup" /\ up' = [up EXCEPT !.svc = to] /\ UNCHANGED <<main, plug>>
Effect ==
  \/ at = "stop" /\ run # "admitting" /\ Stop(Target)
  \/ at = "halt" /\ Halt
  \/ Sets(Target) /\ UNCHANGED run
Order == IF IsMain(cur) THEN <<"stop", "halt", "env", "bind", "start", "up">>
         ELSE IF old THEN <<"pstop", "preg", "pup">> ELSE <<"pstop", "pup", "preg">>
Last == at = Order[Len(Order)]
Step ==
  /\ Effect /\ UNCHANGED bounds
  /\ IF Last THEN Done(IF old THEN "rolled-back" ELSE "completed", Onward)
     ELSE /\ \E n \in 1..Len(Order) - 1 : Order[n] = at /\ at' = Order[n + 1]
          /\ UNCHANGED <<job, cur, old, checks, inherited, open, reload, pause, reg>>
\* A step that fails may have had its effect.  The failure of a switch restores
\* the version before; that of a restoration waits for the owner.
StepFails ==
  /\ at \in {Order[n] : n \in DOMAIN Order} /\ MayFail /\ fails' = fails + 1
  /\ (Effect \/ UNCHANGED <<inst, run>>)
  /\ IF old THEN Done("recovery-required", IF at = "start" /\ up'.host = None THEN "exit" ELSE Onward)
     ELSE /\ Restore /\ UNCHANGED job
          /\ IF cur \in Preserving THEN reg' = Ours /\ pause' = FALSE ELSE UNCHANGED <<reg, pause>>
  /\ UNCHANGED <<crashes, busy>>

(***************************************************************************)
(* The supervisor's life                                                   *)
(***************************************************************************)
\* supervisor.lock is taken over first; then the registry lock is removed, if it is
\* of the supervisor that had the other one.
Boot ==
  /\ at = "down" /\ at' = "taken" /\ inherited' = pause
  /\ UNCHANGED <<job, inst, cur, old, checks, open, reload, pause, run, reg, bounds>>
Reclaim ==
  /\ at = "taken" /\ at' = "boot" /\ reg' = IF reg = "dead" THEN "free" ELSE reg
  /\ UNCHANGED <<job, inst, cur, old, checks, inherited, open, reload, pause, run, bounds>>
Interrupted == In({"applying"})
\* An interrupted job is undone before normal work is resumed; that takes the
\* registry, unless it is a plugin's and nothing was touched yet.
Resume ==
  /\ at = "boot" /\ UNCHANGED <<inst, run, bounds, checks, inherited, open, reload>>
  /\ IF Interrupted = {} THEN at' = "host" /\ UNCHANGED <<job, cur, old, pause, reg>>
     ELSE \E j \in Interrupted :
       IF reg # "free" /\ (IsMain(j) \/ job[j].rb)
       THEN at' = "exit" /\ pause' = (pause /\ ~IsMain(j)) /\ UNCHANGED <<job, cur, old, reg>>
       ELSE IF ~job[j].rb
       THEN /\ Save(j, [job[j] EXCEPT !.st = "failed"]) /\ at' = "host"
            /\ pause' = (pause /\ ~IsMain(j)) /\ UNCHANGED <<cur, old, reg>>
       ELSE /\ cur' = j /\ old' = TRUE /\ at' = First(j) /\ reg' = "ours"
            /\ pause' = (pause \/ IsMain(j)) /\ UNCHANGED job
HostStart ==
  /\ at = "host" /\ at' = "loop" /\ up' = IF up.host = None THEN Started(main.bind) ELSE up
  /\ UNCHANGED <<job, main, plug, cur, old, checks, inherited, open, reload, pause, run, reg, bounds>>
HostFails ==
  /\ at = "host" /\ up.host = None /\ MayFail /\ fails' = fails + 1 /\ at' = "exit"
  /\ UNCHANGED <<job, inst, cur, old, checks, inherited, open, reload, pause, run, reg, crashes, busy>>
\* Mutant of Reopens: the pause of a reload is left to its end.
ReopensNone == pause
Reopens == FALSE
\* Admission is opened again once the worker is ready.
Reopen ==
  /\ at = "loop" /\ ~open /\ ~reload /\ open' = TRUE /\ pause' = Reopens
  /\ UNCHANGED <<job, inst, at, cur, old, checks, inherited, reload, run, reg, bounds>>
\* The supervisor reloads when the work admitted before its pause is done.
ReloadHold ==
  /\ at = "loop" /\ reload /\ ~pause /\ pause' = TRUE /\ UNCHANGED <<job, inst, sup, run, reg, bounds>>
Stopped == [up EXCEPT !.host = None]
ReloadExit ==
  /\ at = "loop" /\ reload /\ pause /\ run = "none" /\ up.relay # None
  /\ at' = "down" /\ up' = Stopped /\ open' = FALSE /\ reload' = FALSE
  /\ UNCHANGED <<job, main, plug, cur, old, checks, inherited, pause, run, reg, bounds>>
Exit ==
  /\ at = "exit" /\ at' = "down" /\ up' = Stopped /\ open' = FALSE /\ reload' = FALSE
  /\ run' = IF run = "child" THEN "cut" ELSE run
  /\ pause' = IF ~open /\ inherited THEN TRUE ELSE pause /\ In({"applying"}) # {}
  /\ UNCHANGED <<job, main, plug, cur, old, checks, inherited, reg, bounds>>
\* The worker ends with the supervisor that started it, except a retired one.
Crash ==
  /\ at # "down" /\ crashes < MaxCrashes /\ Trouble /\ crashes' = crashes + 1
  /\ at' = "down" /\ up' = Stopped /\ run' = IF run = "child" THEN "none" ELSE run
  /\ reg' = CASE reg = "ours" -> "dead" [] reg = "dead" -> "lost" [] OTHER -> reg
  /\ cur' = None /\ old' = FALSE /\ checks' = 0 /\ open' = FALSE /\ reload' = FALSE
  /\ UNCHANGED <<job, main, plug, inherited, pause, fails, busy>>

Owner == \E j \in Jobs : Prepare(j) \/ Submit(j) \/ RetryRecovery(j)
Host == \/ \E j \in Jobs : Pick(j)
        \/ IdleCheck \/ Pause \/ Begin \/ Build \/ Lock \/ Step \/ Boot \/ Reclaim \/ Resume \/ HostStart \/ Reopen
        \/ ReloadHold \/ ReloadExit \/ Exit
Next == \/ Owner \/ Host \/ BuildFails \/ StepFails \/ HostFails \/ Crash
        \/ \E j \in Jobs : QueueAutomatic(j)
        \/ RegTake \/ RegGive \/ Admit \/ Launch \/ RunEnds
Spec == Init /\ [][Next]_vars

(***************************************************************************)
(* Properties                                                              *)
(***************************************************************************)
Receipts == [st : {"none", "prepared", "queued", "applying", "recovery-required", "failed",
                   "rolled-back", "completed"},
             prev : Nat, rb : BOOLEAN, rec : BOOLEAN]
\* Types: receipts, what is installed and what runs, where the supervisor is with what
\* it carries along, and the relay's work.
TypeOK ==
  /\ job \in [Jobs -> Receipts]
  /\ main \in [env : Nat, bind : Nat] /\ plug \in Nat
  /\ up \in [relay : Nat \cup {None}, host : Nat \cup {None}, svc : Nat \cup {None}]
  /\ at \in {"loop", "host", "boot", "taken", "down", "exit", "idle", "pause", "begin", "build", "lock",
            "stop", "halt", "env", "bind", "start", "up", "pstop", "preg", "pup"}
  /\ cur \in Jobs \cup {None} /\ checks \in Nat
  /\ old \in BOOLEAN /\ inherited \in BOOLEAN /\ open \in BOOLEAN /\ reload \in BOOLEAN
  /\ pause \in BOOLEAN
  /\ run \in {"none", "admitting", "asked", "child", "retired", "cut"}
  /\ reg \in {"free", "ours", "other", "dead", "lost"}
  /\ crashes \in Nat /\ fails \in Nat /\ busy \in Nat

Newest(js) == Max({0} \cup {Version[j] : j \in js})
Completed == In({"completed"})
\* A supervisor in its loop, with no update under way or waiting for its recovery.
Settled == at = "loop" /\ open /\ \A j \in Jobs : job[j].st \notin {"applying", "recovery-required"}
                                             /\ (job[j].st = "queued" => ~job[j].rec)
Whole == LET m == Newest(Completed \ PluginJobs)  p == Newest(Completed \cap PluginJobs)
         IN main = [env |-> m, bind |-> m] /\ up = [relay |-> m, host |-> m, svc |-> p] /\ plug = p
\* Whatever step failed and wherever the supervisor died: once settled, the
\* installation is that of the last update that completed, in every part; unless
\* a recovery the owner asked for was rejected as a new job is.
AllOrNothing == Settled /\ (\A j \in Jobs : job[j].st = "failed" => ~job[j].rec) => Whole
\* The same without the exception: a recovery is never forgotten.
NoRecoveryLost == Settled => Whole

\* No update stops the relay or a worker under work that is not handed over, and
\* no reload or failed start of the supervisor does; except that a supervisor that
\* finds the registry busy, or its lock lost, gives up the pause it inherited, so that
\* the next one may stop the relay under work admitted in between.
GapInPause == crashes > 0 /\ (busy > 0 \/ reg = "lost")
WorkIsNotCut == [][run' = "cut" => run = "cut" \/ GapInPause]_vars

Fairness == /\ WF_vars(Host) /\ WF_vars(Launch) /\ WF_vars(RunEnds) /\ WF_vars(RegGive)
FairSpec == Spec /\ Fairness
\* Whatever happens to the update, its pause is lifted.
PauseLifts == pause ~> ~pause
================================================================================
