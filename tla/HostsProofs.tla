------------------------------ MODULE HostsProofs ------------------------------
(***************************************************************************)
(* Theorems about the processes beside the relay, as MCHosts composes      *)
(* them: the plugin manager and the updater.                               *)
(*                                                                         *)
(* Plugins: calls whose processes the manager can probe finish before      *)
(* their plugin changes, for any number of calls, operations, failures and *)
(* deaths.                                                                 *)
(*                                                                         *)
(* Updates, for any jobs, versions, crashes, failures and other holders of *)
(* the registry.  UpdateInv has two halves.  One follows what is installed *)
(* through the steps of a switch and of its restoration: a job is Dirty    *)
(* from the moment its journal is saved until it is over, and while none   *)
(* is, every part is of the last completed version (Content).  The other   *)
(* follows the pause of the relay: whoever may stop it has seen it idle    *)
(* since admission was closed, or inherits a pause that did (Quiet).       *)
(***************************************************************************)
EXTENDS MCHosts, Sequences, TLAPS

(***************************************************************************)
(* Plugins                                                                 *)
(***************************************************************************)
\* The values the variables take; counters and revisions do not matter here.
CallTypes ==
  /\ call \in [Calls -> [at : {"idle", "resolved", "prepared", "called", "cleanup", "ended",
                               "dead", "done"},
                         rev : Nat \cup {None}]]
  /\ plugin \in [rev : Nat \cup {None}, up : BOOLEAN]
  /\ lease \subseteq Calls
  /\ box \in [Calls -> {"none", "created", "running"}]
  /\ op \in {None} \cup [kind : Kinds, at : {"judge", "dead"}, left : SUBSET Calls]
  /\ ops \in Nat

\* A call that can be probed keeps its lease until nothing of it runs, and whoever
\* changes the plugin still has the lease of an executing one to judge.
LeaseInv ==
  \A c \in Calls \ Foreign :
    /\ At(c, {"prepared", "called", "cleanup", "ended"}) => c \in lease
    /\ box[c] # "none" => c \in lease /\ At(c, {"called", "cleanup", "dead"})
    /\ Judging /\ Executing(c) => c \in op.left

CallInv == CallTypes /\ LeaseInv

\* No step brings a call to an end of which something runs on without its lease.
LEMMA CallStep ==
  ASSUME CallInv, [Next]_vars
  PROVE  CallInv'
<1> USE DEF CallInv, CallTypes, LeaseInv, At, Goes, Box, Judging, Executing, bounds
<1>1. ASSUME NEW c \in Calls, Create(c) PROVE CallInv'
  BY <1>1 DEF Create
<1>2. ASSUME NEW c \in Calls, Start(c) PROVE CallInv'
  BY <1>2 DEF Start
<1>3. ASSUME NEW c \in Calls, Ends(c) PROVE CallInv'
  BY <1>3 DEF Ends
<1>4. ASSUME NEW c \in Calls, Removed(c) PROVE CallInv'
  BY <1>4 DEF Removed
<1>5. ASSUME NEW c \in Calls, Release(c) PROVE CallInv'
  BY <1>5 DEF Release
<1>6. ASSUME NEW c \in Calls, Resolve(c) PROVE CallInv'
  BY <1>6 DEF Resolve
<1>7. ASSUME NEW c \in Calls, Expire(c) PROVE CallInv'
  BY <1>7 DEF Expire
<1>8. ASSUME NEW c \in Calls, Prepare(c) PROVE CallInv'
  BY <1>8 DEF Prepare, Admitted
<1>9. ASSUME NEW c \in Calls, Refused(c) PROVE CallInv'
  BY <1>9 DEF Refused, Admitted
<1>10. ASSUME NEW c \in Calls, Cancel(c) PROVE CallInv'
  BY <1>10 DEF Cancel
<1>11. ASSUME NEW c \in Calls, Uncertain(c) PROVE CallInv'
  BY <1>11 DEF Uncertain, KeepsLease
<1>12. ASSUME NEW c \in Calls, CallerDies(c) PROVE CallInv'
  BY <1>12 DEF CallerDies
<1>13. ASSUME NEW c \in Calls, JudgeGone(c) PROVE CallInv'
  BY <1>13 DEF JudgeGone, Judged, Alive
<1>14. ASSUME NEW c \in Calls, JudgeActive(c) PROVE CallInv'
  BY <1>14 DEF JudgeActive, Drains
<1>15. ASSUME NEW k \in Kinds, Take(k) PROVE CallInv'
  BY <1>15 DEF Take
<1>16. CASE GiveUp
  BY <1>16 DEF GiveUp, Drains
<1>17. CASE Act
  BY <1>17 DEF Act
<1>18. CASE OpDies
  BY <1>18 DEF OpDies
<1>19. CASE UNCHANGED vars
  BY <1>19 DEF vars
<1> QED
  BY <1>1, <1>2, <1>3, <1>4, <1>5, <1>6, <1>7, <1>8, <1>9, <1>10, <1>11, <1>12, <1>13, <1>14,
     <1>15, <1>16, <1>17, <1>18, <1>19 DEF Next, Progress, Judge

\* "Calls already executing finish first": no operation installs, starts, stops,
\* upgrades or removes a plugin while a call the manager can probe executes, whoever
\* died, failed or was cancelled before.
THEOREM ExecutingCallsFinish == Spec => CallsFinishFirst
<1>1. Init => CallInv
  BY DEF Init, CallInv, CallTypes, LeaseInv, At, Judging, Executing
<1>2. CallInv /\ [Next]_vars => CallInv'
  BY CallStep
<1>3. ASSUME CallInv, [Next]_vars PROVE [Waited(Calls \ Foreign)]_vars
  <2>1. SUFFICES ASSUME Act PROVE Waited(Calls \ Foreign)
    BY <1>3 DEF Next, Progress, Judge, Waited, Resolve, Expire, Prepare, Refused, Create, Start,
                Ends, Removed, Release, Cancel, Uncertain, CallerDies, JudgeGone, JudgeActive,
                Take, GiveUp, OpDies, vars
  <2> QED
    BY <1>3, <2>1 DEF Act, Waited, CallInv, LeaseInv
<1> QED
  BY <1>1, <1>2, <1>3, PTL DEF Spec, CallsFinishFirst

(***************************************************************************)
(* Updates                                                                 *)
(***************************************************************************)
\* The steps of an update, of the host and the relay or of a plugin.
MainSteps == {"stop", "halt", "env", "bind", "start", "up"}
PlugSteps == {"pstop", "preg", "pup"}
Parts == [relay : Nat \cup {None}, host : Nat \cup {None}, svc : Nat \cup {None}]
RunStates == {"none", "admitting", "asked", "child", "retired", "cut"}
\* Where the supervisor performs no job.
Resting == {"loop", "host", "boot", "taken", "down", "exit"}

\* Where the supervisor is with the job it performs, and what the receipt of that
\* job says by then.
Position ==
  /\ at \in Resting => cur = None /\ ~old
  /\ at \notin Resting => cur \in Jobs
  /\ at \in {"idle", "pause", "begin"} => job[cur].st = "queued" /\ ~old
  /\ at \in {"idle", "pause"} => U!Waits(cur) /\ open
  /\ at = "build" => job[cur].st = "applying" /\ ~job[cur].rb /\ ~old
  /\ at = "lock" => job[cur].st = "applying" /\ job[cur].rb /\ U!IsMain(cur) /\ ~U!Waits(cur)
         /\ ~old
  /\ at \in MainSteps => U!IsMain(cur)
  /\ at \in PlugSteps => ~U!IsMain(cur)
  /\ at \in MainSteps \cup PlugSteps =>
       \/ job[cur].st = "applying" /\ job[cur].rb
       \/ old /\ job[cur].st = "queued" /\ job[cur].rec
  /\ at \in {"host", "boot", "taken", "down"} => ~open
\* One job is queued, applied or waiting for its recovery.
OnePending == \A i, j \in U!Pending : i = j
\* A job is for a newer version than the one it was prepared against, and only a job
\* to restore has its recovery asked for.
Ahead == \A j \in Jobs : /\ job[j].st # "none" => Version[j] > job[j].prev
                         /\ job[j].st \in {"none", "prepared", "applying"} => ~job[j].rec
                         /\ job[j].st \in {"none", "prepared"} => ~job[j].rb
                         /\ job[j].st = "queued" /\ ~job[j].rec => ~job[j].rb
\* What the steps of a switch have done by the time another is made.
Reached ==
  /\ at \in {"bind", "start", "up"} => main.env = U!Target
  /\ at \in {"start", "up"} => main.bind = U!Target
  /\ at = "up" => up.host = U!Target
  /\ at = "preg" /\ ~old => up.svc = U!Target
  /\ at = "pup" /\ old => package = U!Target

\* A job that may have changed the installation: its journal is saved, and it is
\* neither completed nor rolled back.
Dirty(j) == \/ job[j].st = "applying" /\ job[j].rb
            \/ job[j].st = "recovery-required"
            \/ job[j].st = "queued" /\ job[j].rec
\* The last version completed, of the host and the relay, and of the plugins.
NewestMain == U!Newest(U!Completed \ PluginJobs)
NewestPlug == U!Newest(U!Completed \cap PluginJobs)
\* The installation, its worker and its relay are those of the last completed
\* version.
MainWhole ==
  /\ main = [env |-> NewestMain, bind |-> NewestMain] /\ up.relay = NewestMain
  /\ up.host \in {NewestMain, None} /\ (at = "loop" \/ open => up.host = NewestMain)
\* So are a plugin's services and its registry.
PlugWhole == up.svc = NewestPlug /\ package = NewestPlug
\* A recovery the owner asked for was rejected as a new job is: the exception of
\* AllOrNothing.
RecLost == \E j \in Jobs : job[j].st = "failed" /\ job[j].rec
\* Unless a job may have changed it, the installation is whole; and what a pending
\* job restores is what was installed.
Content ==
  /\ \A j \in U!Pending : job[j].prev = IF U!IsMain(j) THEN NewestMain ELSE NewestPlug
  /\ (\E j \in Jobs \ PluginJobs : Dirty(j)) \/ MainWhole
  /\ (\E j \in PluginJobs : Dirty(j)) \/ PlugWhole
\* The newest of some versions, 0 when there is none.
Greatest(js, m) == m \in {0} \cup {Version[j] : j \in js} /\ \A j \in js : Version[j] <= m
\* Completed jobs have a newest version: there is no least upper bound of a set by
\* induction here, so the invariant keeps it.
HaveGreatest ==
  /\ \E m \in Nat : Greatest(U!Completed \ PluginJobs, m)
  /\ \E m \in Nat : Greatest(U!Completed \cap PluginJobs, m)

\* Admission is closed and the relay runs nothing that is not cut already.
Calm == pause /\ run \in {"none", "cut"}
\* Who holds the registry's lock.
Registry ==
  /\ reg = "ours" => at \notin Resting \cup {"idle", "pause", "begin"}
  /\ reg = "other" => busy > 0
  /\ reg = "dead" => at \in {"down", "taken"}
  /\ reg = "lost" => updateCrashes > 0
Applying == \E j \in Jobs : job[j].st = "applying"
\* Whoever stops the relay or its worker has closed admission and seen no work
\* since, or inherits a pause that did; except for GapInPause.
Quiet ==
  /\ run = "child" => up.host # None
  /\ at \in {"exit", "boot", "taken", "down"} => up.host = None
  /\ at = "loop" /\ open /\ ~reload => ~pause
  /\ at = "idle" => checks = IF pause THEN 1 ELSE 0
  /\ at = "pause" => checks = 1 /\ ~pause
  /\ at \in {"begin", "build"} \cup MainSteps /\ U!Waits(cur) => Calm \/ U!GapInPause
  /\ at \in {"loop", "host"} => ~Applying
  /\ at \in Resting /\ Applying => updateCrashes > 0
  /\ at \in {"down", "taken", "boot", "exit"} =>
       \A j \in Jobs : U!Waits(j) /\ job[j].st = "applying" /\ job[j].rb =>
         U!GapInPause \/ (Calm /\ at # "exit")
\* The inductive invariant.
UpdateInv == /\ U!TypeOK /\ Position /\ OnePending /\ Ahead /\ Reached
             /\ RecLost \/ Content
             /\ HaveGreatest /\ Registry /\ Quiet

\* While the supervisor performs a job, no other is under way.
LEMMA OnlyCur ==
  ASSUME UpdateInv, at \notin Resting
  PROVE  /\ cur \in Jobs
         /\ \A j \in Jobs : job[j].st \in {"queued", "applying", "recovery-required"} => j = cur
         /\ at \in {"idle", "pause", "begin"} => ~Applying
<1>1. cur \in Jobs /\ job[cur].st \in {"queued", "applying"}
  BY DEF UpdateInv, U!TypeOK, Position, Resting, MainSteps, PlugSteps
<1>2. cur \in U!Pending BY <1>1 DEF U!Pending, U!In
<1>3. \A j \in Jobs : job[j].st \in {"queued", "applying", "recovery-required"} => j = cur
  BY <1>2 DEF UpdateInv, OnePending, U!Pending, U!In
<1>4. QED BY <1>3 DEF Applying, UpdateInv, Position

\* A step that leaves the receipts, the installation and the job performed alone.
LEMMA SameWork ==
  ASSUME UpdateInv, UNCHANGED <<job, U!inst, at, cur, old, open>>
  PROVE  Position' /\ OnePending' /\ Ahead' /\ Reached' /\ (RecLost \/ Content)' /\ HaveGreatest'
<1> USE DEF UpdateInv, U!sup, U!inst, U!bounds
<1>1. Position' /\ Reached' BY DEF Position, Reached, U!Target
<1>2. U!Completed' = U!Completed /\ U!Pending' = U!Pending BY DEF U!Completed, U!Pending, U!In
<1>3. OnePending' /\ Ahead' /\ HaveGreatest' BY <1>2 DEF OnePending, Ahead, HaveGreatest
<1>4. (RecLost \/ Content)'
  BY <1>2 DEF RecLost, Content, Dirty, MainWhole, PlugWhole, NewestMain, NewestPlug
<1>5. QED BY <1>1, <1>3, <1>4

\* The receipts stay; at most a worker stops.
LEMMA SameJobs ==
  ASSUME UpdateInv, UNCHANGED <<job, main, package>>, up' = up \/ up' = U!Stopped,
         open' => open /\ up' = up,
         at' = "loop" => (at = "loop" \/ open) /\ up' = up
  PROVE  OnePending' /\ Ahead' /\ (RecLost \/ Content)' /\ HaveGreatest' /\ Applying' = Applying
         /\ (up'.host = up.host \/ up'.host = None)
<1>2. U!Completed' = U!Completed /\ U!Pending' = U!Pending BY DEF U!Completed, U!Pending, U!In
<1>3. OnePending' /\ Ahead' /\ HaveGreatest' /\ Applying' = Applying
  BY <1>2 DEF UpdateInv, OnePending, Ahead, HaveGreatest, Applying
<1>5. up'.relay = up.relay /\ up'.svc = up.svc /\ (up'.host = up.host \/ up'.host = None)
  BY DEF UpdateInv, U!TypeOK, U!Stopped
<1>4. (RecLost \/ Content)'
  <2>1. RecLost' = RecLost /\ \A j : Dirty(j)' = Dirty(j) BY DEF RecLost, Dirty
  <2>2. NewestMain' = NewestMain /\ NewestPlug' = NewestPlug BY <1>2 DEF NewestMain, NewestPlug
  <2>3. PlugWhole => PlugWhole' BY <2>2, <1>5 DEF PlugWhole
  <2>4. MainWhole => MainWhole' BY <2>2, <1>5 DEF MainWhole
  <2>5. QED BY <2>1, <2>2, <2>3, <2>4, <1>2 DEF UpdateInv, Content
<1>6. QED BY <1>3, <1>4, <1>5

\* What others do to the registry, and the relay to its work.
LEMMA OthersInv == ASSUME UpdateInv, U!RegTake \/ U!RegGive \/ U!Admit \/ U!Launch
    \/ U!RunEnds PROVE UpdateInv'
<1>1. /\ UNCHANGED <<job, main, up, package, at, cur, old, checks, inherited, open, reload,
                     pause>>
      /\ UNCHANGED <<updateCrashes, fails>> /\ busy' \in Nat /\ busy' >= busy
      /\ run' \in RunStates /\ reg' \in {"free", "ours", "other", "dead", "lost"}
      /\ \/ reg' = reg
         \/ reg = "free" /\ reg' = "other" /\ busy' > 0
         \/ reg = "other" /\ reg' = "free"
      /\ run' = "child" => run = "child" \/ up.host # None
      /\ run' = run \/ run' = "none" \/ (~pause \/ run \notin {"none", "cut"})
  BY DEF U!RegTake, U!RegGive, U!Admit, U!Launch, U!RunEnds, U!sup, U!inst, U!bounds,
    UpdateInv, U!TypeOK, RunStates
<1>2. U!TypeOK' BY <1>1 DEF UpdateInv, U!TypeOK, RunStates
<1>3. Position' /\ OnePending' /\ Ahead' /\ Reached' /\ (RecLost \/ Content)' /\ HaveGreatest'
  BY <1>1, SameWork DEF U!inst
<1>4. Registry' BY <1>1 DEF UpdateInv, U!TypeOK, Registry
<1>5. Quiet'
  <2>1. (Calm => Calm') /\ (U!GapInPause => U!GapInPause') /\ Applying' = Applying
    BY <1>1 DEF Calm, U!GapInPause, Applying, UpdateInv, U!TypeOK
  <2>2. QED BY <1>1, <2>1 DEF UpdateInv, Quiet
<1>6. QED BY <1>2, <1>3, <1>4, <1>5 DEF UpdateInv

\* The reload closes admission, and a job is picked.
LEMMA ReloadHoldInv == ASSUME UpdateInv, U!ReloadHold PROVE UpdateInv'
<1>1. /\ at = "loop" /\ reload /\ pause' = TRUE
      /\ UNCHANGED <<job, main, up, package, at, cur, old, checks, inherited, open, reload, run,
                     reg>>
      /\ UNCHANGED <<updateCrashes, fails, busy>>
  BY DEF U!ReloadHold, U!sup, U!inst, U!bounds
<1>2. U!TypeOK' BY <1>1 DEF UpdateInv, U!TypeOK
<1>3. Position' /\ OnePending' /\ Ahead' /\ Reached' /\ (RecLost \/ Content)' /\ HaveGreatest'
  BY <1>1, SameWork DEF U!inst
<1>4. Registry' BY <1>1 DEF UpdateInv, Registry
<1>5. Quiet' BY <1>1 DEF UpdateInv, Quiet, MainSteps, Applying
<1>6. QED BY <1>2, <1>3, <1>4, <1>5 DEF UpdateInv

LEMMA PickInv == ASSUME UpdateInv, NEW j \in Jobs, U!Pick(j) PROVE UpdateInv'
<1> USE DEF U!Pick, U!sup, U!inst, U!bounds
<1>1. U!TypeOK' BY DEF UpdateInv, U!TypeOK
<1>2. Position' BY DEF UpdateInv, Position, Resting, MainSteps, PlugSteps
<1>3. OnePending' /\ Ahead' /\ (RecLost \/ Content)' /\ HaveGreatest' /\ Applying' = Applying
      /\ (up'.host = up.host \/ up'.host = None)
  BY SameJobs
<1>4. Reached' BY DEF Reached
<1>5. Registry' BY DEF Registry, UpdateInv, Resting
<1>6. Quiet' BY <1>3 DEF Quiet, MainSteps, UpdateInv
<1>7. QED BY <1>1, <1>2, <1>3, <1>4, <1>5, <1>6 DEF UpdateInv

\* The job waits for the relay to be idle.
LEMMA IdleCheckInv == ASSUME UpdateInv, U!IdleCheck PROVE UpdateInv'
<1>z. at = "idle"
      /\ UNCHANGED <<job, main, up, package, old, inherited, open, reload, run, reg,
                     updateCrashes, fails, busy>>
  BY DEF U!IdleCheck, U!inst, U!bounds
<1>0. \/ run # "none" /\ at' = "loop" /\ cur' = None /\ pause' = FALSE /\ checks' = checks
      \/ /\ run = "none" /\ checks' = checks + 1 /\ cur' = cur /\ pause' = pause
         /\ \/ at' = "begin" /\ pause /\ checks' >= 2
            \/ at' = "pause" /\ ~(pause /\ checks' >= 2)
  <2>1. CASE run # "none" BY <2>1 DEF U!IdleCheck
  <2>2. CASE run = "none" /\ pause /\ U!EnoughChecks(checks') BY DEF U!IdleCheck, U!EnoughChecks
  <2>3. CASE run = "none" /\ ~(pause /\ U!EnoughChecks(checks'))
    BY DEF U!IdleCheck, U!EnoughChecks
  <2>4. QED BY <2>1, <2>2, <2>3
<1>1. U!TypeOK'
  <2>1. at' \in {"loop", "begin", "pause"} BY <1>0
  <2>2. cur' \in Jobs \cup {None} /\ pause' \in BOOLEAN BY <1>0 DEF UpdateInv, U!TypeOK
  <2>3. checks' \in Nat BY <1>0 DEF UpdateInv, U!TypeOK
  <2>4. QED BY <1>z, <2>1, <2>2, <2>3 DEF UpdateInv, U!TypeOK
<1>2. Position' BY <1>z, <1>0 DEF UpdateInv, Position, Resting, MainSteps, PlugSteps
<1>3. OnePending' /\ Ahead' /\ (RecLost \/ Content)' /\ HaveGreatest' /\ Applying' = Applying
      /\ (up'.host = up.host \/ up'.host = None)
  BY <1>z, SameJobs DEF UpdateInv, Position
<1>4. Reached' BY <1>0 DEF Reached
<1>5. Registry' BY <1>z DEF Registry, UpdateInv
<1>6. Quiet' BY OnlyCur, <1>z, <1>0, <1>3 DEF Quiet, Calm, MainSteps, Resting, UpdateInv
<1>7. QED BY <1>1, <1>2, <1>3, <1>4, <1>5, <1>6 DEF UpdateInv

\* The pause between two checks.
LEMMA PauseInv == ASSUME UpdateInv, U!Pause PROVE UpdateInv'
<1> USE DEF U!Pause, U!sup, U!inst, U!bounds
<1>1. U!TypeOK' BY DEF UpdateInv, U!TypeOK
<1>2. Position' BY DEF UpdateInv, Position, Resting, MainSteps, PlugSteps
<1>3. OnePending' /\ Ahead' /\ (RecLost \/ Content)' /\ HaveGreatest' /\ Applying' = Applying
      /\ (up'.host = up.host \/ up'.host = None)
  BY SameJobs
<1>4. Reached' BY DEF Reached
<1>5. Registry' BY DEF Registry, UpdateInv
<1>6. Quiet' BY DEF Quiet, MainSteps, Resting, UpdateInv, U!EnoughChecks
<1>7. QED BY <1>1, <1>2, <1>3, <1>4, <1>5, <1>6 DEF UpdateInv

\* The supervisor's life: its start, its exits and its death.
LEMMA BootInv == ASSUME UpdateInv, U!Boot PROVE UpdateInv'
<1> USE DEF U!Boot, U!sup, U!inst, U!bounds
<1>1. U!TypeOK' BY DEF UpdateInv, U!TypeOK
<1>2. Position' BY DEF UpdateInv, Position, Resting, MainSteps, PlugSteps
<1>3. OnePending' /\ Ahead' /\ (RecLost \/ Content)' /\ HaveGreatest' /\ Applying' = Applying
      /\ (up'.host = up.host \/ up'.host = None)
  BY SameJobs
<1>4. Reached' BY DEF Reached
<1>5. Registry' BY DEF Registry, UpdateInv, Resting
<1>6. Quiet' BY <1>3 DEF Quiet, Calm, U!GapInPause, MainSteps, Resting, UpdateInv
<1>7. QED BY <1>1, <1>2, <1>3, <1>4, <1>5, <1>6 DEF UpdateInv

LEMMA ReclaimInv == ASSUME UpdateInv, U!Reclaim PROVE UpdateInv'
<1> USE DEF U!Reclaim, U!sup, U!inst, U!bounds
<1>1. U!TypeOK' BY DEF UpdateInv, U!TypeOK
<1>2. Position' BY DEF UpdateInv, Position, Resting, MainSteps, PlugSteps
<1>3. OnePending' /\ Ahead' /\ (RecLost \/ Content)' /\ HaveGreatest' /\ Applying' = Applying
      /\ (up'.host = up.host \/ up'.host = None)
  BY SameJobs
<1>4. Reached' BY DEF Reached
<1>5. Registry' BY DEF Registry, UpdateInv, Resting
<1>6. Quiet' BY <1>3 DEF Quiet, Calm, U!GapInPause, MainSteps, Resting, UpdateInv
<1>7. QED BY <1>1, <1>2, <1>3, <1>4, <1>5, <1>6 DEF UpdateInv

LEMMA HostFailsInv == ASSUME UpdateInv, U!HostFails PROVE UpdateInv'
<1> USE DEF U!HostFails, U!sup, U!inst, U!bounds
<1>1. U!TypeOK' BY DEF UpdateInv, U!TypeOK
<1>2. Position' BY DEF UpdateInv, Position, Resting, MainSteps, PlugSteps
<1>3. OnePending' /\ Ahead' /\ (RecLost \/ Content)' /\ HaveGreatest' /\ Applying' = Applying
      /\ (up'.host = up.host \/ up'.host = None)
  BY SameJobs
<1>4. Reached' BY DEF Reached
<1>5. Registry' BY DEF Registry, UpdateInv, Resting
<1>6. Quiet' BY DEF Quiet, Applying, MainSteps, UpdateInv
<1>7. QED BY <1>1, <1>2, <1>3, <1>4, <1>5, <1>6 DEF UpdateInv

LEMMA ReloadExitInv == ASSUME UpdateInv, U!ReloadExit PROVE UpdateInv'
<1> USE DEF U!ReloadExit, U!sup, U!inst, U!bounds
<1>1. U!TypeOK' BY DEF UpdateInv, U!TypeOK, U!Stopped
<1>2. Position' BY DEF UpdateInv, Position, Resting, MainSteps, PlugSteps
<1>3. OnePending' /\ Ahead' /\ (RecLost \/ Content)' /\ HaveGreatest' /\ Applying' = Applying
      /\ (up'.host = up.host \/ up'.host = None)
  BY SameJobs
<1>4. Reached' BY DEF Reached
<1>5. Registry' BY DEF Registry, UpdateInv, Resting
<1>6. Quiet' BY DEF Quiet, Applying, MainSteps, UpdateInv, U!Stopped
<1>7. QED BY <1>1, <1>2, <1>3, <1>4, <1>5, <1>6 DEF UpdateInv

LEMMA ExitInv == ASSUME UpdateInv, U!Exit PROVE UpdateInv'
<1> USE DEF U!Exit, U!sup, U!inst, U!bounds
<1>1. U!TypeOK' BY DEF UpdateInv, U!TypeOK, U!Stopped
<1>2. Position' BY DEF UpdateInv, Position, Resting, MainSteps, PlugSteps
<1>3. OnePending' /\ Ahead' /\ (RecLost \/ Content)' /\ HaveGreatest' /\ Applying' = Applying
      /\ (up'.host = up.host \/ up'.host = None)
  BY SameJobs
<1>4. Reached' BY DEF Reached
<1>5. Registry' BY DEF Registry, UpdateInv, Resting
<1>6. Quiet' BY <1>3 DEF Quiet, U!GapInPause, MainSteps, Resting, UpdateInv
<1>7. QED BY <1>1, <1>2, <1>3, <1>4, <1>5, <1>6 DEF UpdateInv

LEMMA CrashInv == ASSUME UpdateInv, U!Crash PROVE UpdateInv'
<1>z. /\ at # "down" /\ updateCrashes' = updateCrashes + 1 /\ at' = "down" /\ up' = U!Stopped
      /\ reg' = (CASE reg = "ours" -> "dead" [] reg = "dead" -> "lost" [] OTHER -> reg)
      /\ run' = (IF run = "child" THEN "none" ELSE run)
      /\ cur' = None /\ old' = FALSE /\ checks' = 0 /\ open' = FALSE /\ reload' = FALSE
      /\ UNCHANGED <<job, main, package, inherited, pause, fails, busy>>
  BY DEF U!Crash
<1>0. up' \in [relay : Nat \cup {None}, host : Nat \cup {None}, svc : Nat \cup {None}]
      /\ up'.host = None
      /\ run' \in {"none", "admitting", "asked", "retired", "cut"}
      /\ run' = (IF run = "child" THEN "none" ELSE run)
  BY <1>z DEF UpdateInv, U!TypeOK, U!Stopped
<1>1. U!TypeOK'
  <2>1. updateCrashes' \in Nat /\ reg' \in {"free", "other", "dead", "lost"}
    BY <1>z DEF UpdateInv, U!TypeOK
  <2>2. QED BY <1>z, <1>0, <2>1 DEF UpdateInv, U!TypeOK
<1>2. Position' BY <1>z DEF Position, Resting, MainSteps, PlugSteps
<1>3. OnePending' /\ Ahead' /\ (RecLost \/ Content)' /\ HaveGreatest' /\ Applying' = Applying
      /\ (up'.host = up.host \/ up'.host = None)
  BY <1>z, SameJobs
<1>4. Reached' BY <1>z DEF Reached
<1>5. Registry' BY <1>z DEF Registry, UpdateInv, U!TypeOK
<1>6. Quiet'
  BY OnlyCur, <1>z, <1>0 DEF Quiet, Calm, U!GapInPause, Applying, Position, MainSteps,
    PlugSteps, Resting, U!Waits, UpdateInv, U!TypeOK
<1>7. QED BY <1>1, <1>2, <1>3, <1>4, <1>5, <1>6 DEF UpdateInv

\* A receipt is saved.
LEMMA Saved ==
  ASSUME U!TypeOK, NEW j \in Jobs, NEW r \in U!Receipts, U!Save(j, r)
  PROVE  job' \in [Jobs -> U!Receipts] /\ job'[j] = r /\ \A i \in Jobs \ {j} : job'[i] = job[i]
BY DEF U!TypeOK, U!Save

\* The newest version of a set is the set's.
LEMMA NewestStays ==
  ASSUME UpdateInv, NEW j \in Jobs, NEW r \in U!Receipts, U!Save(j, r), job[j].st # "completed",
         r.st # "completed"
  PROVE  NewestMain' = NewestMain /\ NewestPlug' = NewestPlug /\ HaveGreatest'
<1>1. U!Completed' = U!Completed BY Saved DEF U!Completed, U!In, UpdateInv
<1>2. QED BY <1>1 DEF NewestMain, NewestPlug, HaveGreatest, UpdateInv

\* A receipt that changes no completed job leaves what is completed.
LEMMA OtherJob ==
  ASSUME UpdateInv, NEW j \in Jobs, NEW r \in U!Receipts, U!Save(j, r),
         job[j].st \notin {"queued", "applying"},
         UNCHANGED <<U!inst, at, cur, old, open>>
  PROVE  Position' /\ Reached'
<1>1. CASE at \in Resting
  BY <1>1 DEF Position, Reached, UpdateInv, Resting, MainSteps, PlugSteps
<1>2. CASE at \notin Resting
  <2>1. cur \in Jobs /\ cur # j /\ job'[cur] = job[cur] 
    BY <1>2, Saved DEF UpdateInv, Position, U!TypeOK, Resting, MainSteps, PlugSteps
  <2>2. QED BY <2>1 DEF Position, Reached, UpdateInv, U!Target, U!inst
<1>3. QED BY <1>1, <1>2

\* A job is prepared against what is installed.
LEMMA PrepareInv == ASSUME UpdateInv, NEW j \in Jobs, U!Prepare(j) PROVE UpdateInv'
<1> USE DEF U!Prepare, U!sup, U!inst, U!bounds
<1> DEFINE r == [U!Receipt EXCEPT !.st = "prepared", !.prev = U!Installed(j)]
<1>0. r \in U!Receipts /\ r.st = "prepared" /\ ~r.rb /\ ~r.rec /\ Version[j] > r.prev
  BY DEF U!Receipt, U!Receipts, U!Installed, U!Eligible, UpdateInv, U!TypeOK
<1>1. job' \in [Jobs -> U!Receipts] /\ job'[j] = r /\ \A i \in Jobs \ {j} : job'[i] = job[i]
  BY <1>0, Saved DEF UpdateInv
<1> HIDE DEF r
<1>2. U!TypeOK' BY <1>1 DEF UpdateInv, U!TypeOK
<1>3. NewestMain' = NewestMain /\ NewestPlug' = NewestPlug /\ HaveGreatest'
  BY <1>0, NewestStays DEF r
<1>4. Position' /\ Reached' BY <1>0, OtherJob DEF r
<1>5. U!Pending' = U!Pending BY <1>0, <1>1 DEF U!Pending, U!In
<1>6. OnePending' /\ Ahead' BY <1>0, <1>1, <1>5 DEF UpdateInv, OnePending, Ahead
<1>7. \A i \in Jobs : Dirty(i)' = Dirty(i) /\ (job[i].st = "failed" /\ job[i].rec =>
          job'[i].st = "failed" /\ job'[i].rec)
  BY <1>0, <1>1 DEF Dirty
<1>8. (RecLost \/ Content)'
  <2>1. RecLost => RecLost' BY <1>7 DEF RecLost
  <2>2. \A i \in U!Pending : job'[i].prev = job[i].prev BY <1>1 DEF U!Pending, U!In
  <2>3. MainWhole => MainWhole' BY <1>3 DEF MainWhole
  <2>4. PlugWhole => PlugWhole' BY <1>3 DEF PlugWhole
  <2>5. QED
    BY <2>1, <2>2, <2>3, <2>4, <1>3, <1>5, <1>7, UpdatesAssumption DEF UpdateInv, Content
<1>9. Applying' = Applying /\ \A i \in Jobs : job'[i].st = "applying" => job'[i] = job[i]
  BY <1>0, <1>1 DEF Applying
<1>10. Registry' BY DEF UpdateInv, Registry
<1>11. Quiet' BY <1>9 DEF Quiet, Calm, U!GapInPause, UpdateInv
<1>12. QED BY <1>2, <1>3, <1>4, <1>6, <1>8, <1>10, <1>11 DEF UpdateInv

\* A job is queued while no other is pending.
LEMMA QueuedInv ==
  ASSUME UpdateInv, NEW j \in Jobs, NEW r \in U!Receipts, U!Save(j, r),
         job[j].st \in {"none", "prepared"}, U!Pending = {},
         r.st = "queued", r.prev = U!Installed(j), U!Eligible(j), ~r.rb, ~r.rec,
         UNCHANGED <<U!inst, U!sup, pause, run, reg, U!bounds>>
  PROVE  UpdateInv'
<1> USE DEF U!sup, U!inst, U!bounds
<1>0. at \in Resting
  <2>1. at \notin Resting => cur \in Jobs /\ job[cur].st \in {"queued", "applying"}
    BY DEF UpdateInv, U!TypeOK, Position, Resting, MainSteps, PlugSteps
  <2>2. QED BY <2>1 DEF U!Pending, U!In
<1>1. job' \in [Jobs -> U!Receipts] /\ job'[j] = r /\ \A i \in Jobs \ {j} : job'[i] = job[i]
  BY Saved DEF UpdateInv
<1>2. U!TypeOK' BY <1>1 DEF UpdateInv, U!TypeOK
<1>3. NewestMain' = NewestMain /\ NewestPlug' = NewestPlug /\ HaveGreatest' BY NewestStays
<1>4. Position' /\ Reached' BY OtherJob
<1>5. U!Pending' = {j} BY <1>1 DEF U!Pending, U!In
<1>6. OnePending' BY <1>5 DEF OnePending
<1>7. Ahead' BY <1>1 DEF UpdateInv, Ahead, U!Eligible
<1>8. \A i \in Jobs : ~Dirty(i) /\ ~Dirty(i)' BY <1>1 DEF Dirty, U!Pending, U!In
<1>9. (RecLost \/ Content)'
  <2>1. RecLost => RecLost' BY <1>1 DEF RecLost
  <2>2. ASSUME Content PROVE Content'
    <3>1. MainWhole /\ PlugWhole BY <2>2, <1>8, UpdatesAssumption DEF Content
    <3>2. r.prev = IF U!IsMain(j) THEN NewestMain ELSE NewestPlug
      BY <3>1 DEF MainWhole, PlugWhole, U!Installed
    <3>3. MainWhole' /\ PlugWhole' BY <3>1, <1>3 DEF MainWhole, PlugWhole
    <3>4. QED BY <3>2, <3>3, <1>1, <1>3, <1>5 DEF Content
  <2>3. QED BY <2>1, <2>2 DEF UpdateInv
<1>10. ~Applying /\ ~Applying' BY <1>1 DEF Applying, U!Pending, U!In
<1>11. Registry' BY DEF UpdateInv, Registry
<1>12. Quiet' BY <1>0, <1>10 DEF Quiet, UpdateInv, Resting, MainSteps, Applying
<1>13. QED BY <1>2, <1>3, <1>4, <1>6, <1>7, <1>9, <1>11, <1>12 DEF UpdateInv

\* The owner submits a job, the supervisor prepares one itself, and the owner asks
\* for a recovery.
LEMMA SubmitInv == ASSUME UpdateInv, NEW j \in Jobs, U!Submit(j) PROVE UpdateInv'
<1> DEFINE r == [job[j] EXCEPT !.st = "queued"]
<1>1. r \in U!Receipts /\ r.st = "queued" /\ r.prev = U!Installed(j) /\ ~r.rb /\ ~r.rec
  BY DEF U!Submit, UpdateInv, U!TypeOK, U!Receipts, Ahead
<1> HIDE DEF r
<1>2. U!Save(j, r) BY DEF U!Submit, r
<1>3. QED BY <1>1, <1>2, QueuedInv DEF U!Submit

LEMMA QueueAutomaticInv == ASSUME UpdateInv, NEW j \in Jobs, U!QueueAutomatic(j) PROVE UpdateInv'
<1> DEFINE r == [U!Receipt EXCEPT !.st = "queued", !.prev = U!Installed(j)]
<1>1. r \in U!Receipts /\ r.st = "queued" /\ r.prev = U!Installed(j) /\ ~r.rb /\ ~r.rec
  BY DEF UpdateInv, U!TypeOK, U!Receipts, U!Receipt, U!Installed
<1> HIDE DEF r
<1>2. U!Save(j, r) BY DEF U!QueueAutomatic, r
<1>3. QED BY <1>1, <1>2, QueuedInv DEF U!QueueAutomatic

LEMMA RetryRecoveryInv == ASSUME UpdateInv, NEW j \in Jobs, U!RetryRecovery(j) PROVE UpdateInv'
<1> DEFINE r == [job[j] EXCEPT !.st = "queued", !.rec = TRUE]
<1>0. r \in U!Receipts /\ r.st = "queued" /\ r.rec /\ r.prev = job[j].prev
  BY DEF U!RetryRecovery, UpdateInv, U!TypeOK, U!Receipts
<1> HIDE DEF r
<1>a. /\ U!Save(j, r) /\ job[j].st = "recovery-required"
             /\ \A i \in Jobs : job[i].st \notin {"queued", "applying"}
      /\ UNCHANGED <<main, up, package, at, cur, old, checks, inherited, open, reload, pause,
                     run, reg, updateCrashes, fails, busy>>
  BY DEF U!RetryRecovery, r, U!In, U!sup, U!inst, U!bounds
<1>b. at \in Resting BY <1>a DEF UpdateInv, U!TypeOK, Position, Resting, MainSteps, PlugSteps
<1>1. job' \in [Jobs -> U!Receipts] /\ job'[j] = r /\ \A i \in Jobs \ {j} : job'[i] = job[i]
  BY <1>0, <1>a, Saved DEF UpdateInv
<1>2. U!TypeOK' BY <1>1, <1>a DEF UpdateInv, U!TypeOK
<1>3. NewestMain' = NewestMain /\ NewestPlug' = NewestPlug /\ HaveGreatest'
  BY <1>0, <1>a, NewestStays
<1>4. Position' /\ Reached' BY <1>0, <1>a, OtherJob DEF U!inst
<1>5. U!Pending' = U!Pending BY <1>0, <1>1, <1>a DEF U!Pending, U!In
<1>6. OnePending' /\ Ahead' BY <1>0, <1>1, <1>a, <1>5 DEF UpdateInv, OnePending, Ahead
<1>7. \A i \in Jobs : Dirty(i)' = Dirty(i) BY <1>0, <1>1, <1>a DEF Dirty
<1>8. (RecLost \/ Content)'
  <2>1. RecLost => RecLost' BY <1>1, <1>a DEF RecLost
  <2>2. \A i \in U!Pending : job'[i].prev = job[i].prev BY <1>0, <1>1 DEF U!Pending, U!In
  <2>3. MainWhole => MainWhole' BY <1>3, <1>a DEF MainWhole
  <2>4. PlugWhole => PlugWhole' BY <1>3, <1>a DEF PlugWhole
  <2>5. QED
    BY <2>1, <2>2, <2>3, <2>4, <1>3, <1>5, <1>7, UpdatesAssumption DEF UpdateInv, Content
<1>9. ~Applying /\ ~Applying' BY <1>0, <1>1, <1>a DEF Applying
<1>10. Registry' BY <1>a DEF UpdateInv, Registry
<1>11. Quiet' BY <1>9, <1>a, <1>b DEF Quiet, UpdateInv, Resting, MainSteps, Applying
<1>12. QED BY <1>2, <1>3, <1>4, <1>6, <1>8, <1>10, <1>11 DEF UpdateInv

\* The supervisor starts its worker and opens admission.
LEMMA HostStartInv == ASSUME UpdateInv, U!HostStart PROVE UpdateInv'
<1>0. /\ at = "host" /\ at' = "loop"
      /\ up' = (IF up.host = None THEN [up EXCEPT !.host = main.bind] ELSE up) /\ ~open
      /\ UNCHANGED <<job, main, package, cur, old, checks, inherited, open, reload, pause, run,
                     reg, updateCrashes, fails, busy>>
  BY DEF U!HostStart, U!bounds, U!Started, UpdateInv, Position
<1>1. /\ up' \in [relay : Nat \cup {None}, host : Nat \cup {None}, svc : Nat \cup {None}]
      /\ up'.relay = up.relay /\ up'.svc = up.svc /\ up'.host # None
      /\ up'.host = (IF up.host = None THEN main.bind ELSE up.host)
  BY <1>0, UpdatesAssumption DEF UpdateInv, U!TypeOK
<1>2. U!TypeOK' BY <1>0 DEF UpdateInv, U!TypeOK
<1>3. U!Completed' = U!Completed /\ U!Pending' = U!Pending
  BY <1>0 DEF U!Completed, U!Pending, U!In
<1>4. OnePending' /\ Ahead' /\ HaveGreatest'
  BY <1>0, <1>3 DEF UpdateInv, OnePending, Ahead, HaveGreatest
<1>5. Position' /\ Reached'
  BY <1>0 DEF UpdateInv, Position, Reached, Resting, MainSteps, PlugSteps
<1>6. (RecLost \/ Content)'
  <2>1. RecLost' = RecLost /\ \A j : Dirty(j)' = Dirty(j) BY <1>0 DEF RecLost, Dirty
  <2>2. NewestMain' = NewestMain /\ NewestPlug' = NewestPlug BY <1>3 DEF NewestMain, NewestPlug
  <2>3. PlugWhole => PlugWhole' BY <2>2, <1>0 DEF PlugWhole
  <2>4. MainWhole => MainWhole' BY <2>2, <1>0 DEF MainWhole
  <2>5. QED BY <2>1, <2>2, <2>3, <2>4, <1>0, <1>3 DEF UpdateInv, Content
<1>7. Registry' BY <1>0 DEF UpdateInv, Registry, Resting
<1>8. Quiet' BY <1>0 DEF Quiet, Applying, MainSteps, UpdateInv
<1>9. QED BY <1>2, <1>4, <1>5, <1>6, <1>7, <1>8 DEF UpdateInv

LEMMA ReopenInv == ASSUME UpdateInv, U!Reopen PROVE UpdateInv'
<1>0. /\ at = "loop" /\ open' = TRUE /\ pause' = FALSE
      /\ UNCHANGED <<job, main, up, package, at, cur, old, checks, inherited, reload, run, reg,
                     updateCrashes, fails, busy>>
  BY DEF U!Reopen, U!Reopens, U!inst, U!bounds
<1>2. U!TypeOK'
  <2>1. open' \in BOOLEAN /\ pause' \in BOOLEAN BY <1>0
  <2>2. QED BY <1>0, <2>1 DEF UpdateInv, U!TypeOK
<1>3. U!Completed' = U!Completed /\ U!Pending' = U!Pending
  BY <1>0 DEF U!Completed, U!Pending, U!In
<1>4. OnePending' /\ Ahead' /\ HaveGreatest'
  BY <1>0, <1>3 DEF UpdateInv, OnePending, Ahead, HaveGreatest
<1>5. Position' /\ Reached' BY <1>0 DEF UpdateInv, Position, Reached
<1>6. (RecLost \/ Content)'
  <2>1. RecLost' = RecLost /\ \A j : Dirty(j)' = Dirty(j) BY <1>0 DEF RecLost, Dirty
  <2>2. NewestMain' = NewestMain /\ NewestPlug' = NewestPlug BY <1>3 DEF NewestMain, NewestPlug
  <2>3. PlugWhole => PlugWhole' BY <2>2, <1>0 DEF PlugWhole
  <2>4. MainWhole => MainWhole' BY <2>2, <1>0 DEF MainWhole
  <2>5. QED BY <2>1, <2>2, <2>3, <2>4, <1>0, <1>3 DEF UpdateInv, Content
<1>7. Registry' BY <1>0 DEF UpdateInv, Registry
<1>8. Quiet' BY <1>0 DEF Quiet, Applying, MainSteps, UpdateInv
<1>9. QED BY <1>2, <1>4, <1>5, <1>6, <1>7, <1>8 DEF UpdateInv

\* A job that preserves runs takes the registry for the switch alone.
LEMMA LockInv == ASSUME UpdateInv, U!Lock PROVE UpdateInv'
<1>0. /\ at = "lock" /\ at' = "stop"
      /\ UNCHANGED <<job, main, up, package, cur, checks, inherited, open, reload, run,
                     updateCrashes, fails, busy>>
      /\ \/ reg' = "ours" /\ pause' = TRUE /\ old' = old
         \/ reg' = reg /\ pause' = pause /\ old' = TRUE
  <2>1. U!IsMain(cur) BY DEF U!Lock, UpdateInv, Position
  <2>2. CASE reg = "free" BY <2>2 DEF U!Lock, U!inst, U!bounds
  <2>3. CASE reg # "free" BY <2>1 DEF U!Lock, U!Restore, U!First, U!inst, U!bounds
  <2>4. QED BY <2>2, <2>3
<1>2. U!TypeOK'
  <2>1. reg' \in {"free", "ours", "other", "dead", "lost"} /\ pause' \in BOOLEAN /\ old' \in BOOLEAN
    BY <1>0 DEF UpdateInv, U!TypeOK
  <2>2. QED BY <1>0, <2>1 DEF UpdateInv, U!TypeOK
<1>3. OnePending' /\ Ahead' /\ (RecLost \/ Content)' /\ HaveGreatest' /\ Applying' = Applying
  BY <1>0, SameJobs
<1>5. Position' /\ Reached' BY <1>0 DEF UpdateInv, Position, Reached, Resting, PlugSteps
<1>7. Registry' BY <1>0 DEF UpdateInv, Registry, Resting
<1>8. Quiet' BY <1>0 DEF Quiet, Position, Resting, UpdateInv
<1>9. QED BY <1>2, <1>3, <1>5, <1>7, <1>8 DEF UpdateInv

\* What the end of a job does.
LEMMA DoneFacts ==
  ASSUME UpdateInv, at \notin Resting,
         NEW st \in {"completed", "failed", "rolled-back", "recovery-required"},
         NEW then \in {"loop", "host", "exit"}, U!Done(st, then),
         then = "host" => ~open, UNCHANGED <<updateCrashes, busy>>
  PROVE  /\ cur \in Jobs /\ job' \in [Jobs -> U!Receipts]
         /\ job'[cur].st = st /\ job'[cur].prev = job[cur].prev
         /\ job'[cur].rb = job[cur].rb /\ job'[cur].rec = job[cur].rec
         /\ \A i \in Jobs \ {cur} : job'[i] = job[i]
         /\ U!Save(cur, [job[cur] EXCEPT !.st = st])
         /\ at' = then /\ cur' = None /\ old' = FALSE /\ ~pause' /\ reg' = U!Ours
         /\ pause' \in BOOLEAN /\ reload' \in BOOLEAN /\ UNCHANGED <<checks, inherited, open>>
         /\ Position' /\ Reached' /\ OnePending' /\ Registry' /\ ~Applying'
         /\ U!Pending' = IF st = "recovery-required" THEN U!Pending ELSE {}
<1>0. /\ cur \in Jobs /\ job[cur].st \in {"queued", "applying"}
      /\ \A j \in Jobs : job[j].st \in {"queued", "applying", "recovery-required"} => j = cur
  BY OnlyCur DEF UpdateInv, Position, U!TypeOK, Resting, MainSteps, PlugSteps
<1> DEFINE r == [job[cur] EXCEPT !.st = st]
<1>1. r \in U!Receipts /\ r.st = st /\ r.prev = job[cur].prev /\ r.rb = job[cur].rb
      /\ r.rec = job[cur].rec
  BY <1>0 DEF UpdateInv, U!TypeOK, U!Receipts
<1>2. U!Save(cur, r) BY DEF U!Done
<1> HIDE DEF r
<1>3. job' \in [Jobs -> U!Receipts] /\ job'[cur] = r /\ \A i \in Jobs \ {cur} : job'[i] = job[i]
  BY <1>0, <1>1, <1>2, Saved DEF UpdateInv
<1>4. at' = then /\ cur' = None /\ old' = FALSE /\ pause' = FALSE /\ reg' = U!Ours
      /\ UNCHANGED <<checks, inherited, open>>
  BY DEF U!Done
<1>5. reload' \in BOOLEAN
  <2>1. reload' = (reload \/ (U!IsMain(cur) /\ st \in {"completed", "rolled-back"}))
    BY DEF U!Done
  <2>2. QED BY <2>1
<1>6. Position' /\ Reached' BY <1>4 DEF Position, Reached, Resting, MainSteps, PlugSteps
<1>7. U!Pending' = IF st = "recovery-required" THEN U!Pending ELSE {}
  BY <1>0, <1>1, <1>3 DEF U!Pending, U!In
<1>8. OnePending' BY <1>7 DEF OnePending, UpdateInv
<1>9. Registry' BY <1>4 DEF Registry, UpdateInv, U!Ours, Resting
<1>10. ~Applying' BY <1>0, <1>1, <1>3 DEF Applying
<1>11. QED BY <1>0, <1>1, <1>2, <1>3, <1>4, <1>5, <1>6, <1>7, <1>8, <1>9, <1>10 DEF r

\* A job is rejected before it touched anything.
LEMMA RejectedInv ==
  ASSUME UpdateInv, at \in {"begin", "build"}, U!Done("failed", U!Onward),
         UNCHANGED <<U!inst, run, updateCrashes, busy>>, fails' \in Nat
  PROVE  UpdateInv'
<1> DEFINE r == [job[cur] EXCEPT !.st = "failed"]
<1>0. U!Onward \in {"loop", "host", "exit"} /\ (U!Onward = "host" => ~open)
          /\ (U!Onward = "loop" => open)
  BY DEF U!Onward
<1>1. at \notin Resting BY DEF Resting
<1>2. /\ cur \in Jobs /\ job' \in [Jobs -> U!Receipts]
      /\ job'[cur].st = "failed" /\ job'[cur].prev = job[cur].prev
      /\ job'[cur].rb = job[cur].rb /\ job'[cur].rec = job[cur].rec
      /\ \A i \in Jobs \ {cur} : job'[i] = job[i]
      /\ U!Save(cur, r)
      /\ at' = U!Onward /\ cur' = None /\ old' = FALSE /\ ~pause' /\ reg' = U!Ours
      /\ pause' \in BOOLEAN /\ reload' \in BOOLEAN /\ UNCHANGED <<checks, inherited, open>>
      /\ Position' /\ Reached' /\ OnePending' /\ Registry' /\ ~Applying' /\ U!Pending' = {}
  BY <1>0, <1>1, DoneFacts
<1>3. r \in U!Receipts /\ r.st = "failed" /\ job[cur].st \in {"queued", "applying"}
  BY <1>2 DEF UpdateInv, U!TypeOK, U!Receipts, Position
<1>4. NewestMain' = NewestMain /\ NewestPlug' = NewestPlug /\ HaveGreatest'
  BY <1>2, <1>3, NewestStays
<1>5. U!TypeOK'
  <2>1. reg' \in {"free", "ours", "other", "dead", "lost"} BY <1>2 DEF U!Ours, UpdateInv, U!TypeOK
  <2>2. at' \in {"loop", "host"} BY <1>2 DEF U!Onward
  <2>3. QED BY <1>2, <2>1, <2>2 DEF UpdateInv, U!TypeOK, U!inst
<1>6. Ahead' BY <1>2, <1>3 DEF UpdateInv, Ahead
<1>7. (RecLost \/ Content)'
  <2>1. RecLost => RecLost' BY <1>2 DEF RecLost
  <2>2. job[cur].rec => RecLost' BY <1>2 DEF RecLost
  <2>3. ASSUME Content, ~job[cur].rec PROVE Content'
    <3>1. \A i \in Jobs : Dirty(i) => Dirty(i)' BY <2>3, <1>2 DEF UpdateInv, Position, Dirty
    <3>2. MainWhole => MainWhole' BY <1>2, <1>0, <1>4 DEF MainWhole, U!inst
    <3>3. PlugWhole => PlugWhole' BY <1>4 DEF PlugWhole, U!inst
    <3>4. QED BY <2>3, <3>1, <3>2, <3>3, <1>2, UpdatesAssumption DEF Content
  <2>4. QED BY <2>1, <2>2, <2>3 DEF UpdateInv
<1>8. Quiet'
  <2>1. at' \in {"loop", "host"} BY <1>2 DEF U!Onward
  <2>2. up' = up /\ run' = run /\ updateCrashes' = updateCrashes BY DEF U!inst
  <2>3. QED BY <1>2, <2>1, <2>2 DEF UpdateInv, Quiet, MainSteps
<1>9. QED BY <1>2, <1>4, <1>5, <1>6, <1>7, <1>8 DEF UpdateInv

LEMMA BuildFailsInv == ASSUME UpdateInv, U!BuildFails PROVE UpdateInv'
<1>1. fails' \in Nat BY DEF U!BuildFails, UpdateInv, U!TypeOK
<1>2. QED BY <1>1, RejectedInv DEF U!BuildFails

\* A job starts: it is rejected, applied or, when its recovery was asked for,
\* restored.
LEMMA BeginInv == ASSUME UpdateInv, U!Begin PROVE UpdateInv'
<1> DEFINE Rejected == (U!Locks(cur) /\ reg # "free") \/ (~job[cur].rec
        /\ job[cur].prev # U!Installed(cur))
<1>1. at = "begin" /\ UNCHANGED <<main, up, package, run, updateCrashes, fails, busy>>
  BY DEF U!Begin, U!inst, U!bounds
<1>2. CASE Rejected
  <2>1. fails' \in Nat BY <1>1 DEF UpdateInv, U!TypeOK
  <2>2. QED BY <1>1, <1>2, <2>1, RejectedInv DEF U!Begin
<1>3. cur \in Jobs /\ job[cur].st = "queued" /\ ~old /\ ~Applying
      /\ \A j \in Jobs : job[j].st \in {"queued", "applying", "recovery-required"} => j = cur
  BY <1>1, OnlyCur DEF UpdateInv, Position, Resting
<1>4. ~Rejected => reg' = (IF U!Locks(cur) THEN "ours" ELSE reg) /\ pause' = pause
  BY DEF U!Begin
<1>5. CASE ~Rejected /\ job[cur].rec
  <2>1. job' = job /\ old' = TRUE /\ at' = U!First(cur)
        /\ UNCHANGED <<cur, checks, inherited, open, reload>>
    BY <1>5 DEF U!Begin, U!Restore
  <2>2. at' = (IF U!IsMain(cur) THEN "stop" ELSE "pstop") BY <2>1 DEF U!First
  <2>3. U!TypeOK'
    <3>1. reg' \in {"free", "ours", "other", "dead", "lost"} BY <1>4, <1>5 DEF UpdateInv, U!TypeOK
    <3>2. at' \in {"stop", "pstop"} BY <2>2
    <3>3. QED BY <1>1, <1>4, <1>5, <2>1, <3>2 DEF UpdateInv, U!TypeOK
  <2>4. OnePending' /\ Ahead' /\ (RecLost \/ Content)' /\ HaveGreatest' /\ Applying' = Applying
    BY <1>1, <2>1, <2>2, SameJobs
  <2>5. Position' /\ Reached'
    BY <1>3, <1>5, <2>1, <2>2 DEF Position, Reached, Resting, MainSteps, PlugSteps
  <2>6. Registry' BY <1>1, <1>4, <1>5, <2>2 DEF UpdateInv, Registry, Resting
  <2>7. Quiet' BY <1>1, <1>4, <1>5, <2>1, <2>2 DEF Quiet, Calm, U!GapInPause, Resting, UpdateInv
  <2>8. QED BY <2>3, <2>4, <2>5, <2>6, <2>7 DEF UpdateInv
<1>6. CASE ~Rejected /\ ~job[cur].rec
  <2> DEFINE r == [job[cur] EXCEPT !.st = "applying"]
  <2>1. U!Save(cur, r) /\ at' = "build"
        /\ UNCHANGED <<cur, old, checks, inherited, open, reload>>
    BY <1>6 DEF U!Begin
  <2>2. r \in U!Receipts /\ r.st = "applying" /\ ~r.rb /\ ~r.rec /\ r.prev = job[cur].prev
    BY <1>3, <1>6 DEF UpdateInv, U!TypeOK, U!Receipts, Ahead
  <2> HIDE DEF r
  <2>3. job' \in [Jobs -> U!Receipts] /\ job'[cur] = r /\ \A i \in Jobs \ {cur} : job'[i] = job[i]
    BY <1>3, <2>1, <2>2, Saved DEF UpdateInv
  <2>4. NewestMain' = NewestMain /\ NewestPlug' = NewestPlug /\ HaveGreatest'
    BY <1>3, <2>1, <2>2, NewestStays
  <2>5. U!TypeOK'
    <3>1. reg' \in {"free", "ours", "other", "dead", "lost"} BY <1>4, <1>6 DEF UpdateInv, U!TypeOK
    <3>2. QED BY <1>1, <1>4, <1>6, <2>1, <2>3 DEF UpdateInv, U!TypeOK
  <2>6. U!Pending' = U!Pending BY <1>3, <2>2, <2>3 DEF U!Pending, U!In
  <2>7. OnePending' /\ Ahead' BY <1>3, <2>2, <2>3, <2>6 DEF UpdateInv, OnePending, Ahead
  <2>8. Position' /\ Reached'
    BY <1>3, <2>1, <2>2, <2>3 DEF Position, Reached, Resting, MainSteps, PlugSteps
  <2>9. (RecLost \/ Content)'
    <3>1. RecLost => RecLost' BY <1>3, <2>3 DEF RecLost
    <3>2. \A i \in Jobs : Dirty(i)' = Dirty(i) BY <1>3, <1>6, <2>2, <2>3 DEF Dirty
    <3>3. \A i \in Jobs : job'[i].prev = job[i].prev BY <2>2, <2>3
    <3>4. MainWhole => MainWhole' BY <1>1, <2>1, <2>4 DEF MainWhole
    <3>5. PlugWhole => PlugWhole' BY <1>1, <2>4 DEF PlugWhole
    <3>6. U!Pending \subseteq Jobs BY DEF U!Pending, U!In
    <3>7. QED
      BY <3>1, <3>2, <3>3, <3>4, <3>5, <3>6, <2>4, <2>6, UpdatesAssumption DEF UpdateInv,
        Content
  <2>10. Registry' BY <1>1, <1>4, <1>6, <2>1 DEF UpdateInv, Registry, Resting
  <2>11. Quiet' BY <1>1, <1>4, <1>6, <2>1 DEF Quiet, Calm, U!GapInPause, Resting, UpdateInv
  <2>12. QED BY <2>4, <2>5, <2>7, <2>8, <2>9, <2>10, <2>11 DEF UpdateInv
<1>7. QED BY <1>2, <1>5, <1>6

\* The journal is saved before the first step.
LEMMA BuildInv == ASSUME UpdateInv, U!Build PROVE UpdateInv'
<1> DEFINE r == [job[cur] EXCEPT !.rb = TRUE]
<1>1. at = "build" /\ U!Save(cur, r)
      /\ UNCHANGED <<main, up, package, cur, old, checks, inherited, open, reload, pause, run,
                     updateCrashes, fails, busy>>
  BY DEF U!Build, U!Journal, U!inst, U!bounds
<1>2. cur \in Jobs /\ job[cur].st = "applying" /\ ~old
      /\ \A j \in Jobs : job[j].st \in {"queued", "applying", "recovery-required"} => j = cur
  BY <1>1, OnlyCur DEF UpdateInv, Position, Resting
<1>3. r \in U!Receipts /\ r.st = "applying" /\ r.rb /\ ~r.rec /\ r.prev = job[cur].prev
  BY <1>2 DEF UpdateInv, U!TypeOK, U!Receipts, Ahead
<1> HIDE DEF r
<1>4. job' \in [Jobs -> U!Receipts] /\ job'[cur] = r /\ \A i \in Jobs \ {cur} : job'[i] = job[i]
  BY <1>1, <1>2, <1>3, Saved DEF UpdateInv
<1>5. \/ U!IsMain(cur) /\ U!Waits(cur) /\ at' = "stop" /\ reg' = reg
      \/ U!IsMain(cur) /\ ~U!Waits(cur) /\ at' = "lock" /\ reg' = reg
      \/ ~U!IsMain(cur) /\ at' = "pstop" /\ reg = "free" /\ reg' = "ours"
  <2>1. CASE U!IsMain(cur) BY DEF U!Build
  <2>2. CASE ~U!IsMain(cur) BY DEF U!Build
  <2>3. QED BY <2>1, <2>2
<1>6. NewestMain' = NewestMain /\ NewestPlug' = NewestPlug /\ HaveGreatest'
  BY <1>1, <1>2, <1>3, NewestStays
<1>7. U!TypeOK'
  <2>1. reg' \in {"free", "ours", "other", "dead", "lost"} BY <1>5 DEF UpdateInv, U!TypeOK
  <2>2. at' \in {"stop", "lock", "pstop"} BY <1>5
  <2>3. QED BY <1>1, <1>4, <2>1, <2>2 DEF UpdateInv, U!TypeOK
<1>8. U!Pending' = U!Pending BY <1>2, <1>3, <1>4 DEF U!Pending, U!In
<1>9. OnePending' /\ Ahead' BY <1>2, <1>3, <1>4, <1>8 DEF UpdateInv, OnePending, Ahead
<1>10. Position' /\ Reached'
  BY <1>1, <1>2, <1>3, <1>4, <1>5 DEF Position, Reached, Resting, MainSteps, PlugSteps
<1>11. (RecLost \/ Content)'
  <2>1. RecLost => RecLost' BY <1>2, <1>4 DEF RecLost
  <2>2. \A i \in Jobs : Dirty(i) => Dirty(i)' BY <1>3, <1>4 DEF Dirty
  <2>3. \A i \in Jobs : job'[i].prev = job[i].prev BY <1>3, <1>4
  <2>4. MainWhole => MainWhole' BY <1>1, <1>5, <1>6 DEF MainWhole
  <2>5. PlugWhole => PlugWhole' BY <1>1, <1>6 DEF PlugWhole
  <2>6. U!Pending \subseteq Jobs BY DEF U!Pending, U!In
  <2>7. QED
    BY <2>1, <2>2, <2>3, <2>4, <2>5, <2>6, <1>6, <1>8, UpdatesAssumption DEF UpdateInv, Content
<1>12. Registry' BY <1>1, <1>5 DEF UpdateInv, Registry, Resting
<1>13. Quiet' BY <1>1, <1>5 DEF Quiet, Calm, U!GapInPause, Resting, UpdateInv
<1>14. QED BY <1>6, <1>7, <1>9, <1>10, <1>11, <1>12, <1>13 DEF UpdateInv

\* The steps of an update, in order.
LEMMA MainOrder ==
  ASSUME U!IsMain(cur)
  PROVE  /\ U!Last <=> at = "up"
         /\ {U!Order[n] : n \in DOMAIN U!Order} = MainSteps
         /\ \A n \in 1..Len(U!Order) - 1 :
              <<U!Order[n], U!Order[n + 1]>> \in
                {<<"stop", "halt">>, <<"halt", "env">>, <<"env", "bind">>, <<"bind", "start">>,
                 <<"start", "up">>}
<1>1. U!Order = <<"stop", "halt", "env", "bind", "start", "up">> BY DEF U!Order
<1>2. Len(U!Order) = 6 /\ DOMAIN U!Order = 1..6 BY <1>1
<1>3. U!Last <=> at = "up" BY <1>1 DEF U!Last
<1>4. {U!Order[n] : n \in DOMAIN U!Order} = MainSteps BY <1>1 DEF MainSteps
<1>5. QED BY <1>1, <1>3, <1>4

LEMMA PlugOrder ==
  ASSUME ~U!IsMain(cur), old \in BOOLEAN
  PROVE  /\ U!Last <=> at = IF old THEN "pup" ELSE "preg"
         /\ {U!Order[n] : n \in DOMAIN U!Order} = PlugSteps
         /\ \A n \in 1..Len(U!Order) - 1 :
              <<U!Order[n], U!Order[n + 1]>> \in
                IF old THEN {<<"pstop", "preg">>, <<"preg", "pup">>}
                ELSE {<<"pstop", "pup">>, <<"pup", "preg">>}
<1>1. CASE old
  <2>1. U!Order = <<"pstop", "preg", "pup">> BY <1>1 DEF U!Order
  <2>2. Len(U!Order) = 3 /\ DOMAIN U!Order = 1..3 BY <2>1
  <2>3. U!Last <=> at = "pup" BY <2>1 DEF U!Last
  <2>4. {U!Order[n] : n \in DOMAIN U!Order} = PlugSteps BY <2>1 DEF PlugSteps
  <2>5. QED BY <1>1, <2>1, <2>3, <2>4
<1>2. CASE ~old
  <2>1. U!Order = <<"pstop", "pup", "preg">> BY <1>2 DEF U!Order
  <2>2. Len(U!Order) = 3 /\ DOMAIN U!Order = 1..3 BY <2>1
  <2>3. U!Last <=> at = "preg" BY <2>1 DEF U!Last
  <2>4. {U!Order[n] : n \in DOMAIN U!Order} = PlugSteps BY <2>1 DEF PlugSteps
  <2>5. QED BY <1>2, <2>1, <2>3, <2>4
<1>3. QED BY <1>1, <1>2

\* What a step does to the installation and to the relay's work.
LEMMA EffectFacts ==
  ASSUME UpdateInv, at \in MainSteps \cup PlugSteps, U!Effect
  PROVE  /\ U!Target \in Nat /\ main' \in [env : Nat, bind : Nat] /\ up' \in Parts
         /\ package' \in Nat /\ run' \in RunStates
         /\ at \in MainSteps => package' = package /\ up'.svc = up.svc
         /\ at \in PlugSteps => main' = main /\ up'.relay = up.relay /\ up'.host = up.host
                /\ run' = run
         /\ at = "env" => main'.env = U!Target
         /\ at = "bind" => main'.bind = U!Target /\ main'.env = main.env
         /\ at = "start" => up'.host = U!Target /\ main' = main
         /\ at = "up" => up'.relay = U!Target /\ up'.host = up.host /\ main' = main
         /\ at = "preg" => package' = U!Target /\ up'.svc = up.svc
         /\ at = "pup" => up'.svc = U!Target /\ package' = package
         /\ run' = "child" => run = "child" /\ up'.host # None
         /\ run' = "cut" => run = "cut" \/ (U!Waits(cur) /\ run # "none" /\ at \in MainSteps)
         /\ U!Waits(cur) /\ run \in {"none", "cut"} => run' = run
<1>0. cur \in Jobs /\ (at \in MainSteps => U!IsMain(cur)) /\ main \in [env : Nat, bind : Nat]
          /\ up \in Parts /\ package \in Nat /\ run \in RunStates
      /\ (run = "child" => up.host # None)
  BY DEF UpdateInv, U!TypeOK, Position, Resting, MainSteps, PlugSteps, Parts, RunStates, Quiet
<1>1. U!Target \in Nat /\ U!Target # None
  BY <1>0, UpdatesAssumption DEF U!Target, UpdateInv, U!TypeOK, U!Receipts
<1> HIDE DEF U!Target
<1>2. CASE at = "stop"
  <2>1. /\ up' = [up EXCEPT !.relay = IF old /\ @ = U!Target THEN @ ELSE None]
        /\ main' = main /\ package' = package
        /\ run' = IF U!Waits(cur) /\ up'.relay = None THEN U!Cut ELSE run
    BY <1>2 DEF U!Effect, U!Stop, U!Sets
  <2>2. up' \in Parts /\ up'.host = up.host /\ up'.svc = up.svc BY <2>1, <1>0 DEF Parts
  <2>3. QED BY <1>0, <1>1, <1>2, <2>1, <2>2 DEF U!Cut, RunStates, PlugSteps
<1>3. CASE at = "halt"
  <2>1. /\ up' = [up EXCEPT !.host = None] /\ main' = main /\ package' = package
        /\ run' = IF run # "child" THEN run ELSE IF U!Waits(cur) THEN "cut" ELSE "retired"
    BY <1>3 DEF U!Effect, U!Halt, U!Sets
  <2>2. up' \in Parts /\ up'.svc = up.svc BY <2>1, <1>0 DEF Parts
  <2>3. QED BY <1>0, <1>1, <1>3, <2>1, <2>2 DEF RunStates, PlugSteps
<1>4. CASE at \in {"env", "bind"}
  <2>1. run' = run /\ up' = up /\ package' = package BY <1>4 DEF U!Effect, U!Sets
  <2>2. main' \in [env : Nat, bind : Nat] /\ (at = "env" => main'.env = U!Target)
            /\ (at = "bind" => main'.bind = U!Target /\ main'.env = main.env)
    BY <1>0, <1>1, <1>4 DEF U!Effect, U!Sets
  <2>3. QED BY <1>0, <1>4, <2>1, <2>2 DEF PlugSteps
<1>5. CASE at \in {"start", "up", "pstop", "pup"}
  <2>1. run' = run /\ main' = main /\ package' = package BY <1>5 DEF U!Effect, U!Sets
  <2>2. up' \in Parts /\ (at = "start" => up'.host = U!Target /\ up'.svc = up.svc)
        /\ (at = "up" => up'.relay = U!Target /\ up'.host = up.host /\ up'.svc = up.svc)
        /\ (at \in {"pstop", "pup"} => up'.relay = up.relay /\ up'.host = up.host)
        /\ (at = "pup" => up'.svc = U!Target)
    BY <1>0, <1>1, <1>5 DEF U!Effect, U!Sets, U!Started, Parts
  <2>3. QED BY <1>0, <1>1, <1>5, <2>1, <2>2 DEF MainSteps, PlugSteps
<1>6. CASE at = "preg"
  <2>1. run' = run /\ main' = main /\ package' = U!Target /\ up' = up
    BY <1>6 DEF U!Effect, U!Sets
  <2>2. QED BY <1>0, <1>1, <1>6, <2>1 DEF MainSteps
<1>7. QED BY <1>2, <1>3, <1>4, <1>5, <1>6 DEF MainSteps, PlugSteps

\* What a step that fails may have done.
LEMMA TriedFacts ==
  ASSUME UpdateInv, at \in MainSteps \cup PlugSteps, U!Effect \/ UNCHANGED <<U!inst, run>>
  PROVE  /\ main' \in [env : Nat, bind : Nat] /\ up' \in Parts /\ package' \in Nat
         /\ run' \in RunStates
         /\ U!IsMain(cur) => package' = package /\ up'.svc = up.svc
         /\ ~U!IsMain(cur) => main' = main /\ up'.relay = up.relay /\ up'.host = up.host
                /\ run' = run
         /\ run' = "child" => up'.host # None
         /\ U!Waits(cur) /\ run \in {"none", "cut"} => run' = run
<1>1. (at \in MainSteps <=> U!IsMain(cur)) /\ (at \in PlugSteps <=> ~U!IsMain(cur))
  BY DEF UpdateInv, Position
<1>2. CASE U!Effect BY <1>1, <1>2, EffectFacts
<1>3. CASE UNCHANGED <<U!inst, run>>
  BY <1>3 DEF U!inst, UpdateInv, U!TypeOK, Parts, RunStates, Quiet
<1>4. QED BY <1>2, <1>3

\* A job whose journal is saved is dirty, so nothing is claimed of its part.
LEMMA UnderWay ==
  ASSUME UpdateInv, at \in MainSteps \cup PlugSteps, U!Effect \/ UNCHANGED <<U!inst, run>>,
         job' = job, open' = open, at' # "loop"
  PROVE  OnePending' /\ Ahead' /\ (RecLost \/ Content)' /\ HaveGreatest' /\ Applying' = Applying
<1>1. U!Completed' = U!Completed /\ U!Pending' = U!Pending BY DEF U!Completed, U!Pending, U!In
<1>2. OnePending' /\ Ahead' /\ HaveGreatest' /\ Applying' = Applying
  BY <1>1 DEF UpdateInv, OnePending, Ahead, HaveGreatest, Applying
<1>3. RecLost' = RecLost /\ \A j : Dirty(j)' = Dirty(j) BY DEF RecLost, Dirty
<1>4. NewestMain' = NewestMain /\ NewestPlug' = NewestPlug BY <1>1 DEF NewestMain, NewestPlug
<1>5. cur \in Jobs /\ Dirty(cur)
  BY DEF UpdateInv, Position, Resting, MainSteps, PlugSteps, Dirty
<1>6. CASE U!IsMain(cur)
  <2>1. PlugWhole => PlugWhole' BY <1>4, <1>6, TriedFacts DEF PlugWhole
  <2>2. QED BY <1>1, <1>2, <1>3, <1>4, <1>5, <1>6, <2>1 DEF UpdateInv, Content, U!IsMain
<1>7. CASE ~U!IsMain(cur)
  <2>1. MainWhole => MainWhole' BY <1>4, <1>7, TriedFacts DEF MainWhole
  <2>2. QED BY <1>1, <1>2, <1>3, <1>4, <1>5, <1>7, <2>1 DEF UpdateInv, Content, U!IsMain
<1>8. QED BY <1>6, <1>7

\* From one step to the next.
LEMMA AdvanceInv ==
  ASSUME UpdateInv, at \in MainSteps \cup PlugSteps, U!Effect, NEW n \in 1..Len(U!Order) - 1,
         U!Order[n] = at,
         at' = U!Order[n + 1], UNCHANGED <<job, cur, old, checks, inherited, open, reload, pause,
                                           reg, U!bounds>>
  PROVE  UpdateInv'
<1>1. \/ U!IsMain(cur) /\ at \in MainSteps
         /\ <<at, at'>> \in {<<"stop", "halt">>, <<"halt", "env">>, <<"env", "bind">>,
                             <<"bind", "start">>, <<"start", "up">>}
      \/ ~U!IsMain(cur) /\ at \in PlugSteps /\ old
             /\ <<at, at'>> \in {<<"pstop", "preg">>, <<"preg", "pup">>}
      \/ ~U!IsMain(cur) /\ at \in PlugSteps /\ ~old
             /\ <<at, at'>> \in {<<"pstop", "pup">>, <<"pup", "preg">>}
  <2>1. (at \in MainSteps <=> U!IsMain(cur)) /\ (at \in PlugSteps <=> ~U!IsMain(cur))
            /\ old \in BOOLEAN
    BY DEF UpdateInv, U!TypeOK, Position
  <2>2. CASE U!IsMain(cur) BY <2>1, <2>2, MainOrder
  <2>3. CASE ~U!IsMain(cur) BY <2>1, <2>3, PlugOrder
  <2>4. QED BY <2>2, <2>3
<1>2. at' \in (MainSteps \cup PlugSteps) \ Resting
      /\ at' \notin {"loop", "idle", "pause", "begin", "build", "lock"}
  BY <1>1 DEF MainSteps, PlugSteps, Resting
<1>3. U!TypeOK'
  <2>1. at' \in {"halt", "env", "bind", "start", "up", "preg", "pup"} BY <1>1
  <2>2. main' \in [env : Nat, bind : Nat] /\ up' \in Parts /\ package' \in Nat
        /\ run' \in RunStates
    BY EffectFacts
  <2>3. QED BY <2>1, <2>2 DEF UpdateInv, U!TypeOK, Parts, RunStates, U!bounds
<1>4. OnePending' /\ Ahead' /\ (RecLost \/ Content)' /\ HaveGreatest' /\ Applying' = Applying
  BY <1>2, UnderWay
<1>5. Position' BY <1>1 DEF UpdateInv, Position, MainSteps, PlugSteps, Resting
<1>6. Reached'
  <2>1. U!Target' = U!Target BY DEF U!Target
  <2>2. QED BY <1>1, <2>1, EffectFacts DEF UpdateInv, Reached
<1>7. Registry' BY <1>2 DEF UpdateInv, Registry, U!bounds, MainSteps, PlugSteps
<1>8. Quiet'
  <2>1. run' = "child" => up'.host # None BY EffectFacts
  <2>2. at' \in MainSteps => at \in MainSteps BY <1>1 DEF MainSteps
  <2>3. U!Waits(cur)' = U!Waits(cur) /\ U!GapInPause' = U!GapInPause
    BY DEF U!GapInPause, U!bounds
  <2>4. U!Waits(cur) /\ Calm => Calm' BY EffectFacts DEF Calm
  <2>5. at' \in MainSteps /\ U!Waits(cur)' => Calm' \/ U!GapInPause'
    BY <2>2, <2>3, <2>4 DEF UpdateInv, Quiet
  <2>6. QED BY <1>2, <2>1, <2>5 DEF Quiet, Resting
<1>9. QED BY <1>3, <1>4, <1>5, <1>6, <1>7, <1>8 DEF UpdateInv

\* The newest version, as CHOOSE finds it.
LEMMA GreatestIsNewest ==
  ASSUME NEW js \in SUBSET Jobs, NEW m \in Nat, Greatest(js, m)
  PROVE  U!Newest(js) = m
<1> DEFINE S == {0} \cup {Version[j] : j \in js}
<1>1. m \in S /\ \A y \in S : y \in Nat /\ m >= y BY UpdatesAssumption DEF Greatest
<1>2. \A x \in S : (\A y \in S : x >= y) => x = m BY <1>1
<1>3. U!Max(S) = m BY <1>1, <1>2 DEF U!Max
<1>4. QED BY <1>3 DEF U!Newest

\* A completed job of a newer version is the newest; one of an older leaves it.
LEMMA GreatestGrows ==
  ASSUME NEW js \in SUBSET Jobs, NEW m \in Nat, Greatest(js, m), NEW j \in Jobs
  PROVE  Greatest(js \cup {j}, IF Version[j] > m THEN Version[j] ELSE m)
BY UpdatesAssumption DEF Greatest

\* The end of a job that a step of it reached: the outcome decides what is installed.
LEMMA EndInv ==
  ASSUME UpdateInv, at \in MainSteps \cup PlugSteps, U!Effect \/ UNCHANGED <<U!inst, run>>,
         NEW st \in {"completed", "rolled-back", "recovery-required"},
         NEW then \in {"loop", "host", "exit"},
         U!Done(st, then), then = "host" => ~open, then = "loop" => open,
         then = "exit" => up'.host = None, UNCHANGED <<updateCrashes, busy>>, fails' \in Nat,
         HaveGreatest', Content => Content'
  PROVE  UpdateInv'
<1>0. at \notin Resting BY DEF MainSteps, PlugSteps, Resting
<1>1. /\ cur \in Jobs /\ job' \in [Jobs -> U!Receipts]
      /\ job'[cur].st = st /\ job'[cur].prev = job[cur].prev /\ job'[cur].rb = job[cur].rb
      /\ job'[cur].rec = job[cur].rec
      /\ \A i \in Jobs \ {cur} : job'[i] = job[i]
      /\ at' = then /\ cur' = None /\ old' = FALSE /\ ~pause' /\ reg' = U!Ours
      /\ pause' \in BOOLEAN /\ reload' \in BOOLEAN /\ UNCHANGED <<checks, inherited, open>>
      /\ Position' /\ Reached' /\ OnePending' /\ Registry' /\ ~Applying'
  BY <1>0, DoneFacts
<1>2. U!TypeOK'
  <2>1. reg' \in {"free", "ours", "other", "dead", "lost"} BY <1>1 DEF U!Ours, UpdateInv, U!TypeOK
  <2>2. main' \in [env : Nat, bind : Nat] /\ up' \in Parts /\ package' \in Nat
        /\ run' \in RunStates
    BY TriedFacts
  <2>3. at' \in {"loop", "host", "exit"} BY <1>1
  <2>4. QED BY <1>1, <2>1, <2>2 DEF UpdateInv, U!TypeOK, Parts, RunStates
<1>3. Ahead'
  <2>1. job[cur].st # "none" BY DEF UpdateInv, Position
  <2>2. QED BY <1>1, <2>1 DEF UpdateInv, Ahead
<1>4. (RecLost \/ Content)'
  <2>1. job[cur].st # "failed" BY DEF UpdateInv, Position
  <2>2. RecLost => RecLost' BY <1>1, <2>1 DEF RecLost
  <2>3. QED BY <2>2 DEF UpdateInv
<1>5. Quiet' BY <1>1, TriedFacts DEF Quiet, MainSteps, Applying
<1>6. QED BY <1>1, <1>2, <1>3, <1>4, <1>5 DEF UpdateInv

\* The last step: the switch or its restoration is complete, and the installation
\* whole.
LEMMA LastInv ==
  ASSUME UpdateInv, at \in MainSteps \cup PlugSteps, U!Effect, U!Last,
         U!Done(IF old THEN "rolled-back" ELSE "completed", U!Onward), UNCHANGED U!bounds
  PROVE  UpdateInv'
<1> DEFINE st == IF old THEN "rolled-back" ELSE "completed"
           js == IF U!IsMain(cur) THEN U!Completed \ PluginJobs ELSE U!Completed \cap PluginJobs
<1>0. at \notin Resting BY DEF MainSteps, PlugSteps, Resting
<1>1. /\ cur \in Jobs /\ job[cur].st \in {"queued", "applying"} /\ (~old =>
             job[cur].st = "applying")
      /\ \A j \in Jobs : job[j].st \in {"queued", "applying", "recovery-required"} => j = cur
  BY <1>0, OnlyCur DEF UpdateInv, Position
<1>2. st \in {"completed", "rolled-back"} /\ U!Onward \in {"loop", "host", "exit"}
      /\ (U!Onward = "host" => ~open) /\ (U!Onward = "loop" => open) /\ U!Onward # "exit"
  BY DEF U!Onward
<1>3. /\ job' \in [Jobs -> U!Receipts] /\ job'[cur].st = st
      /\ \A i \in Jobs \ {cur} : job'[i] = job[i]
      /\ at' = U!Onward /\ U!Pending' = {} /\ open' = open
  BY <1>0, <1>2, DoneFacts DEF U!bounds
<1>4. U!Completed' = IF old THEN U!Completed ELSE U!Completed \cup {cur}
  BY <1>1, <1>3 DEF U!Completed, U!In
<1>5. HaveGreatest'
  <2>1. PICK m \in Nat : Greatest(U!Completed \ PluginJobs, m) BY DEF UpdateInv, HaveGreatest
  <2>2. PICK p \in Nat : Greatest(U!Completed \cap PluginJobs, p) BY DEF UpdateInv, HaveGreatest
  <2>3. U!Completed \subseteq Jobs /\ Version[cur] \in Nat
    BY <1>1, UpdatesAssumption DEF U!Completed, U!In
  <2>4. CASE old BY <2>1, <2>2, <2>4, <1>4 DEF HaveGreatest
  <2>5. CASE ~old /\ U!IsMain(cur)
    <3>1. (U!Completed \ PluginJobs)' = (U!Completed \ PluginJobs) \cup {cur}
          /\ (U!Completed \cap PluginJobs)' = U!Completed \cap PluginJobs
      BY <1>4, <2>5 DEF U!IsMain
    <3>2. Greatest((U!Completed \ PluginJobs) \cup {cur},
            IF Version[cur] > m THEN Version[cur] ELSE m)
      BY <1>1, <2>1, <2>2, <2>3, GreatestGrows
    <3>3. (IF Version[cur] > m THEN Version[cur] ELSE m) \in Nat BY <2>3
    <3>4. QED BY <2>2, <3>1, <3>2, <3>3 DEF HaveGreatest
  <2>6. CASE ~old /\ ~U!IsMain(cur)
    <3>1. (U!Completed \cap PluginJobs)' = (U!Completed \cap PluginJobs) \cup {cur}
          /\ (U!Completed \ PluginJobs)' = U!Completed \ PluginJobs
      BY <1>4, <2>6 DEF U!IsMain
    <3>2. Greatest((U!Completed \cap PluginJobs) \cup {cur},
            IF Version[cur] > p THEN Version[cur] ELSE p)
      BY <1>1, <2>1, <2>2, <2>3, GreatestGrows
    <3>3. (IF Version[cur] > p THEN Version[cur] ELSE p) \in Nat BY <2>3
    <3>4. QED BY <2>1, <3>1, <3>2, <3>3 DEF HaveGreatest
  <2>7. QED BY <2>4, <2>5, <2>6
<1>6. ASSUME Content PROVE Content'
  <2>1. cur \in U!Pending /\ job[cur].prev = U!Newest(js)
    BY <1>1, <1>6 DEF U!Pending, U!In, Content, NewestMain, NewestPlug
  <2>2. U!Target = IF U!IsMain(cur) THEN NewestMain' ELSE NewestPlug'
    <3>1. CASE old BY <2>1, <3>1, <1>4 DEF U!Target, NewestMain, NewestPlug
    <3>2. CASE ~old
      <4>1. js \in SUBSET Jobs /\ Version[cur] \in Nat
        BY <1>1, UpdatesAssumption DEF U!Completed, U!In
      <4>2. PICK m \in Nat : Greatest(js, m) BY DEF UpdateInv, HaveGreatest
      <4>3. U!Newest(js) = m BY <4>1, <4>2, GreatestIsNewest
      <4>4. Version[cur] > m BY <1>1, <2>1, <4>3 DEF UpdateInv, Ahead
      <4>5. Greatest(js \cup {cur}, Version[cur]) BY <1>1, <4>1, <4>2, <4>4, GreatestGrows
      <4>6. U!Newest(js \cup {cur}) = Version[cur] BY <1>1, <4>1, <4>5, GreatestIsNewest
      <4>7. CASE U!IsMain(cur)
        <5>1. (U!Completed \ PluginJobs)' = js \cup {cur} BY <1>4, <3>2, <4>7 DEF U!IsMain
        <5>2. NewestMain' = Version[cur] BY <4>6, <5>1 DEF NewestMain
        <5>3. QED BY <3>2, <4>7, <5>2 DEF U!Target
      <4>8. CASE ~U!IsMain(cur)
        <5>1. (U!Completed \cap PluginJobs)' = js \cup {cur} BY <1>4, <3>2, <4>8 DEF U!IsMain
        <5>2. NewestPlug' = Version[cur] BY <4>6, <5>1 DEF NewestPlug
        <5>3. QED BY <3>2, <4>8, <5>2 DEF U!Target
      <4>9. QED BY <4>7, <4>8
    <3>3. QED BY <3>1, <3>2
  <2>3. CASE U!IsMain(cur)
    <3>1. at = "up" BY <2>3, MainOrder
    <3>2. NewestMain' = U!Target /\ NewestPlug' = NewestPlug
      BY <1>4, <2>2, <2>3 DEF NewestPlug, U!IsMain
    <3>3. main.env = U!Target /\ main.bind = U!Target /\ up.host = U!Target
      BY <3>1 DEF UpdateInv, Reached
    <3>4. main' = main /\ up'.relay = U!Target /\ up'.host = U!Target /\ up'.svc = up.svc
          /\ package' = package
      BY <3>1, <3>3, EffectFacts DEF MainSteps
    <3>5. MainWhole' BY <3>2, <3>3, <3>4 DEF MainWhole, UpdateInv, U!TypeOK
    <3>6. PlugWhole => PlugWhole' BY <3>2, <3>4 DEF PlugWhole
    <3>7. \A j \in Jobs \cap PluginJobs : Dirty(j)' = Dirty(j) BY <1>3, <2>3 DEF Dirty, U!IsMain
    <3>8. QED BY <1>3, <1>6, <3>5, <3>6, <3>7, UpdatesAssumption DEF Content
  <2>4. CASE ~U!IsMain(cur)
    <3>1. at = IF old THEN "pup" ELSE "preg" BY <2>4, PlugOrder DEF UpdateInv, U!TypeOK
    <3>2. NewestPlug' = U!Target /\ NewestMain' = NewestMain
      BY <1>4, <2>2, <2>4 DEF NewestMain, U!IsMain
    <3>3. main' = main /\ up'.relay = up.relay /\ up'.host = up.host /\ up'.svc = U!Target
          /\ package' = U!Target
      BY <3>1, EffectFacts DEF PlugSteps, UpdateInv, Reached
    <3>4. PlugWhole' BY <3>2, <3>3 DEF PlugWhole
    <3>5. MainWhole => MainWhole' BY <1>2, <1>3, <3>2, <3>3 DEF MainWhole
    <3>6. \A j \in Jobs \ PluginJobs : Dirty(j)' = Dirty(j) BY <1>3, <2>4 DEF Dirty, U!IsMain
    <3>7. QED BY <1>3, <1>6, <3>4, <3>5, <3>6 DEF Content
  <2>5. QED BY <2>3, <2>4
<1>7. fails' \in Nat /\ UNCHANGED <<updateCrashes, busy>> BY DEF UpdateInv, U!TypeOK, U!bounds
<1>8. QED BY <1>2, <1>5, <1>6, <1>7, EndInv

\* A step of an update.
LEMMA StepInv == ASSUME UpdateInv, U!Step PROVE UpdateInv'
<1>1. at \in MainSteps \cup PlugSteps BY DEF U!Step, U!Effect, U!Sets, MainSteps, PlugSteps
<1>2. CASE U!Last BY <1>1, <1>2, LastInv DEF U!Step
<1>3. CASE ~U!Last
  <2>1. PICK n \in 1..Len(U!Order) - 1 : U!Order[n] = at /\ at' = U!Order[n + 1]
    BY <1>3 DEF U!Step
  <2>2. QED BY <1>1, <1>3, AdvanceInv DEF U!Step
<1>4. QED BY <1>2, <1>3

\* A step fails, its effect made or not: the version before is restored, or the
\* owner is waited for.
LEMMA StepFailsInv == ASSUME UpdateInv, U!StepFails PROVE UpdateInv'
<1>1. /\ (at \in MainSteps /\ U!IsMain(cur)) \/ (at \in PlugSteps /\ ~U!IsMain(cur))
      /\ U!Effect \/ UNCHANGED <<U!inst, run>>
      /\ fails' \in Nat /\ UNCHANGED <<updateCrashes, busy>>
  <2>1. at \in {U!Order[n] : n \in DOMAIN U!Order} BY DEF U!StepFails
  <2>2. at \in IF U!IsMain(cur) THEN MainSteps ELSE PlugSteps
    BY <2>1, MainOrder, PlugOrder DEF UpdateInv, U!TypeOK
  <2>3. QED BY <2>2 DEF U!StepFails, UpdateInv, U!TypeOK
<1>2. cur \in Jobs /\ job[cur].st \in {"queued", "applying"} /\ (~old =>
          job[cur].st = "applying" /\ job[cur].rb)
  BY <1>1 DEF UpdateInv, Position, Resting, MainSteps, PlugSteps
<1>3. CASE old
  <2> DEFINE then == IF at = "start" /\ up'.host = None THEN "exit" ELSE U!Onward
             r == [job[cur] EXCEPT !.st = "recovery-required"]
  <2>1. /\ U!Done("recovery-required", then) /\ then \in {"loop", "host", "exit"}
               /\ (then = "host" => ~open)
        /\ (then = "loop" => open) /\ (then = "exit" => up'.host = None)
    BY <1>3 DEF U!StepFails, U!Onward
  <2> HIDE DEF then
  <2>2. at \notin Resting BY <1>1 DEF Resting, MainSteps, PlugSteps
  <2>3. /\ job'[cur].st = "recovery-required" /\ job'[cur].prev = job[cur].prev
        /\ \A i \in Jobs \ {cur} : job'[i] = job[i]
        /\ U!Save(cur, r) /\ at' = then /\ open' = open /\ U!Pending' = U!Pending
    BY <1>1, <2>1, <2>2, DoneFacts
  <2>4. r \in U!Receipts /\ r.st = "recovery-required"
    BY <1>2 DEF UpdateInv, U!TypeOK, U!Receipts
  <2>5. NewestMain' = NewestMain /\ NewestPlug' = NewestPlug /\ HaveGreatest'
    BY <1>2, <2>3, <2>4, NewestStays
  <2>6. ASSUME Content PROVE Content'
    <3>0. PICK c \in Jobs : c = cur BY <1>2
    <3>1. Dirty(c)' /\ \A i \in Jobs : Dirty(i) => Dirty(i)' BY <2>3, <3>0 DEF Dirty
    <3>2. \A i \in U!Pending : job'[i].prev = job[i].prev BY <2>3 DEF U!Pending, U!In
    <3>3. U!IsMain(cur) /\ PlugWhole => PlugWhole' BY <1>1, <2>5, TriedFacts DEF PlugWhole
    <3>4. ~U!IsMain(cur) /\ MainWhole => MainWhole'
      BY <1>1, <2>1, <2>3, <2>5, TriedFacts DEF MainWhole
    <3>5. QED
      BY <2>3, <2>5, <2>6, <3>0, <3>1, <3>2, <3>3, <3>4, UpdatesAssumption DEF Content, U!IsMain
  <2>7. QED BY <1>1, <2>1, <2>5, <2>6, EndInv
<1>4. CASE ~old
  <2>1. /\ job' = job /\ old' = TRUE /\ at' = U!First(cur)
        /\ UNCHANGED <<cur, checks, inherited, open, reload>>
        /\ \/ cur \in Preserving /\ reg' = U!Ours /\ pause' = FALSE
           \/ cur \notin Preserving /\ UNCHANGED <<reg, pause>>
    BY <1>4 DEF U!StepFails, U!Restore
  <2>2. \/ U!IsMain(cur) /\ at \in MainSteps /\ at' = "stop"
        \/ ~U!IsMain(cur) /\ at \in PlugSteps /\ at' = "pstop"
    BY <1>1, <2>1 DEF U!First
  <2>3. U!TypeOK'
    <3>1. at' \in {"stop", "pstop"} BY <2>2
    <3>2. main' \in [env : Nat, bind : Nat] /\ up' \in Parts /\ package' \in Nat
          /\ run' \in RunStates
      BY <1>1, TriedFacts
    <3>3. reg' \in {"free", "ours", "other", "dead", "lost"} /\ pause' \in BOOLEAN
      BY <2>1 DEF U!Ours, UpdateInv, U!TypeOK
    <3>4. QED BY <1>1, <2>1, <3>1, <3>2, <3>3 DEF UpdateInv, U!TypeOK, Parts, RunStates
  <2>4. OnePending' /\ Ahead' /\ (RecLost \/ Content)' /\ HaveGreatest' /\ Applying' = Applying
    BY <1>1, <2>1, <2>2, UnderWay
  <2>5. Position' /\ Reached'
    BY <1>2, <1>4, <2>1, <2>2 DEF Position, Reached, Resting, MainSteps, PlugSteps
  <2>6. Registry'
    BY <1>1, <2>1, <2>2 DEF UpdateInv, Registry, U!Ours, Resting, MainSteps, PlugSteps
  <2>7. Quiet'
    <3>1. run' = "child" => up'.host # None BY <1>1, TriedFacts
    <3>2. at' = "stop" /\ U!Waits(cur)' => Calm' \/ U!GapInPause'
      <4>1. at' = "stop" /\ U!Waits(cur)' => U!Waits(cur) /\ at \in MainSteps
                /\ cur \notin Preserving
        BY <2>1, <2>2 DEF U!Waits
      <4>2. U!GapInPause' = U!GapInPause BY <1>1, <2>1 DEF U!GapInPause, U!Ours
      <4>3. at' = "stop" /\ U!Waits(cur)' => Calm \/ U!GapInPause BY <4>1 DEF UpdateInv, Quiet
      <4>4. U!Waits(cur) /\ run \in {"none", "cut"} => run' = run BY <1>1, TriedFacts
      <4>5. QED BY <2>1, <4>1, <4>2, <4>3, <4>4 DEF Calm
    <3>3. QED BY <2>2, <3>1, <3>2 DEF Quiet, MainSteps, Resting
  <2>8. QED BY <2>3, <2>4, <2>5, <2>6, <2>7 DEF UpdateInv
<1>5. QED BY <1>3, <1>4

\* A supervisor that starts undoes the job its predecessor left.
LEMMA ResumeInv == ASSUME UpdateInv, U!Resume PROVE UpdateInv'
<1>1. /\ at = "boot"
      /\ UNCHANGED <<main, up, package, run, updateCrashes, fails, busy, checks, inherited, open,
                     reload>>
      /\ cur = None /\ ~old /\ ~open /\ up.host = None
  BY DEF U!Resume, U!inst, U!bounds, UpdateInv, Position, Resting, Quiet
<1>2. CASE U!Interrupted = {}
  <2>1. at' = "host" /\ UNCHANGED <<job, cur, old, pause, reg>> BY <1>2 DEF U!Resume
  <2>2. U!TypeOK' BY <1>1, <2>1 DEF UpdateInv, U!TypeOK
  <2>3. OnePending' /\ Ahead' /\ (RecLost \/ Content)' /\ HaveGreatest' /\ Applying' = Applying
    BY <1>1, <2>1, SameJobs
  <2>4. ~Applying BY <1>2 DEF U!Interrupted, U!In, Applying
  <2>5. Position' /\ Reached' BY <1>1, <2>1 DEF Position, Reached, Resting, MainSteps, PlugSteps
  <2>6. Registry' BY <1>1, <2>1 DEF UpdateInv, Registry, Resting
  <2>7. Quiet' BY <1>1, <2>1, <2>3, <2>4 DEF UpdateInv, Quiet, MainSteps
  <2>8. QED BY <2>2, <2>3, <2>5, <2>6, <2>7 DEF UpdateInv
<1>3. CASE U!Interrupted # {}
  <2>1. PICK j \in U!Interrupted :
          IF reg # "free" /\ (U!IsMain(j) \/ job[j].rb)
          THEN /\ at' = "exit" /\ pause' = (pause /\ ~U!IsMain(j))
               /\ UNCHANGED <<job, cur, old, reg>>
          ELSE IF ~job[j].rb
          THEN /\ U!Save(j, [job[j] EXCEPT !.st = "failed"]) /\ at' = "host"
               /\ pause' = (pause /\ ~U!IsMain(j)) /\ UNCHANGED <<cur, old, reg>>
          ELSE /\ cur' = j /\ old' = TRUE /\ at' = U!First(j) /\ reg' = "ours"
               /\ pause' = (pause \/ U!IsMain(j)) /\ UNCHANGED job
    BY <1>3 DEF U!Resume
  <2>2. j \in Jobs /\ job[j].st = "applying" /\ ~job[j].rec
        /\ \A i \in Jobs : job[i].st \in {"queued", "applying", "recovery-required"} => i = j
    BY DEF U!Interrupted, U!In, UpdateInv, Ahead, OnePending, U!Pending
  <2>3. Applying /\ updateCrashes > 0 BY <1>1, <2>2 DEF Applying, UpdateInv, Quiet, Resting
  <2>4. CASE ~job[j].rb /\ ~(reg # "free" /\ U!IsMain(j))
    <3> DEFINE r == [job[j] EXCEPT !.st = "failed"]
    <3>1. U!Save(j, r) /\ at' = "host" /\ pause' = (pause /\ ~U!IsMain(j))
          /\ UNCHANGED <<cur, old, reg>>
      BY <2>1, <2>4
    <3>2. r \in U!Receipts /\ r.st = "failed" /\ r.prev = job[j].prev /\ r.rec = job[j].rec
      BY <2>2 DEF UpdateInv, U!TypeOK, U!Receipts
    <3> HIDE DEF r
    <3>3. job' \in [Jobs -> U!Receipts] /\ job'[j] = r /\ \A i \in Jobs \ {j} : job'[i] = job[i]
      BY <2>2, <3>1, <3>2, Saved DEF UpdateInv
    <3>4. NewestMain' = NewestMain /\ NewestPlug' = NewestPlug /\ HaveGreatest'
      BY <2>2, <3>1, <3>2, NewestStays
    <3>5. U!TypeOK'
      <4>1. pause' \in BOOLEAN BY <3>1
      <4>2. QED BY <1>1, <3>1, <3>3 DEF UpdateInv, U!TypeOK
    <3>6. U!Pending' = {} BY <2>2, <3>2, <3>3 DEF U!Pending, U!In
    <3>7. OnePending' /\ Ahead' BY <2>2, <3>2, <3>3, <3>6 DEF UpdateInv, OnePending, Ahead
    <3>8. Position' /\ Reached'
      BY <1>1, <3>1 DEF Position, Reached, Resting, MainSteps, PlugSteps
    <3>9. ~Applying' BY <2>2, <3>2, <3>3 DEF Applying
    <3>10. (RecLost \/ Content)'
      <4>1. RecLost => RecLost' BY <2>2, <3>3 DEF RecLost
      <4>2. \A i \in Jobs : Dirty(i) => Dirty(i)' BY <2>2, <2>4 DEF Dirty
      <4>3. MainWhole => MainWhole' BY <1>1, <3>1, <3>4 DEF MainWhole
      <4>4. PlugWhole => PlugWhole' BY <1>1, <3>4 DEF PlugWhole
      <4>5. QED BY <3>6, <4>1, <4>2, <4>3, <4>4, UpdatesAssumption DEF UpdateInv, Content
    <3>11. Registry' BY <1>1, <3>1 DEF UpdateInv, Registry, Resting
    <3>12. Quiet' BY <1>1, <3>1, <3>9 DEF UpdateInv, Quiet, MainSteps
    <3>13. QED BY <3>4, <3>5, <3>7, <3>8, <3>10, <3>11, <3>12 DEF UpdateInv
  <2>5. CASE reg # "free" /\ (U!IsMain(j) \/ job[j].rb)
    <3>1. at' = "exit" /\ pause' = (pause /\ ~U!IsMain(j)) /\ UNCHANGED <<job, cur, old, reg>>
      BY <2>1, <2>5
    <3>2. U!TypeOK'
      <4>1. pause' \in BOOLEAN BY <3>1
      <4>2. QED BY <1>1, <3>1 DEF UpdateInv, U!TypeOK
    <3>3. OnePending' /\ Ahead' /\ (RecLost \/ Content)' /\ HaveGreatest' /\ Applying' = Applying
      BY <1>1, <3>1, SameJobs
    <3>4. Position' /\ Reached'
      BY <1>1, <3>1 DEF Position, Reached, Resting, MainSteps, PlugSteps
    <3>5. Registry' BY <1>1, <3>1 DEF UpdateInv, Registry, Resting
    <3>6. U!GapInPause'
      <4>1. reg \in {"other", "lost"}
        BY <1>1, <2>5 DEF UpdateInv, U!TypeOK, Registry, Resting
      <4>2. reg' = reg /\ updateCrashes' > 0 /\ busy' = busy BY <1>1, <2>3, <3>1
      <4>3. QED BY <4>1, <4>2 DEF UpdateInv, Registry, U!GapInPause
    <3>7. Quiet' BY <1>1, <2>3, <3>1, <3>6 DEF UpdateInv, Quiet
    <3>8. QED BY <3>2, <3>3, <3>4, <3>5, <3>7 DEF UpdateInv
  <2>6. CASE job[j].rb /\ reg = "free"
    <3>1. cur' = j /\ old' = TRUE /\ at' = U!First(j) /\ reg' = "ours" /\ pause' = (pause
              \/ U!IsMain(j)) /\ job' = job
      BY <2>1, <2>6
    <3>2. \/ U!IsMain(j) /\ at' = "stop"
          \/ ~U!IsMain(j) /\ at' = "pstop"
      BY <3>1 DEF U!First
    <3>3. U!TypeOK'
      <4>1. pause' \in BOOLEAN /\ at' \in {"stop", "pstop"} BY <3>1, <3>2
      <4>2. QED BY <1>1, <2>2, <3>1, <4>1 DEF UpdateInv, U!TypeOK
    <3>4. OnePending' /\ Ahead' /\ (RecLost \/ Content)' /\ HaveGreatest' /\ Applying' = Applying
      BY <1>1, <3>1, <3>2, SameJobs
    <3>5. Position' /\ Reached'
      BY <2>2, <2>6, <3>1, <3>2 DEF Position, Reached, Resting, MainSteps, PlugSteps
    <3>6. Registry' BY <3>1, <3>2 DEF Registry, Resting
    <3>7. Quiet'
      <4>1. at' = "stop" /\ U!Waits(cur)' => Calm' \/ U!GapInPause'
        <5>1. U!Waits(j) => U!GapInPause \/ Calm BY <1>1, <2>2, <2>6 DEF UpdateInv, Quiet
        <5>2. U!GapInPause' = U!GapInPause /\ (Calm => Calm')
          BY <1>1, <2>6, <3>1 DEF U!GapInPause, Calm
        <5>3. QED BY <3>1, <5>1, <5>2
      <4>2. QED BY <1>1, <3>2, <4>1 DEF UpdateInv, Quiet, MainSteps, Resting
    <3>8. QED BY <3>3, <3>4, <3>5, <3>6, <3>7 DEF UpdateInv
  <2>7. QED BY <2>4, <2>5, <2>6
<1>4. QED BY <1>2, <1>3

\* Nothing is installed but version 0.
LEMMA UpdateInit == ASSUME U!Init PROVE UpdateInv
<1>1. U!TypeOK BY DEF U!Init, U!TypeOK, U!Receipts, U!Receipt
<1>2. job = [j \in Jobs |-> U!Receipt] /\ at = "loop" /\ cur = None /\ old = FALSE BY DEF U!Init
<1>3. \A j \in Jobs : job[j].st = "none" /\ ~job[j].rec /\ ~job[j].rb BY <1>2 DEF U!Receipt
<1>4. Position /\ Reached BY <1>2 DEF Position, Reached, Resting, MainSteps, PlugSteps
<1>5. U!Pending = {} /\ U!Completed = {} BY <1>3 DEF U!Pending, U!Completed, U!In
<1>6. OnePending /\ Ahead BY <1>3, <1>5 DEF OnePending, Ahead
<1>7. HaveGreatest /\ NewestMain = 0 /\ NewestPlug = 0
  <2>1. Greatest({}, 0) BY DEF Greatest
  <2>2. U!Completed \ PluginJobs = {} /\ U!Completed \cap PluginJobs = {} BY <1>5
  <2>3. QED BY <2>1, <2>2, GreatestIsNewest DEF HaveGreatest, NewestMain, NewestPlug
<1>8. Content
  <2>1. MainWhole BY <1>7 DEF U!Init, MainWhole
  <2>2. PlugWhole BY <1>7 DEF U!Init, PlugWhole
  <2>3. QED BY <1>5, <2>1, <2>2 DEF Content
<1>9. Registry BY DEF U!Init, Registry
<1>10. Quiet BY <1>3 DEF U!Init, Quiet, MainSteps, Applying
<1>11. QED BY <1>1, <1>4, <1>6, <1>7, <1>8, <1>9, <1>10 DEF UpdateInv

\* Every step keeps the invariant.
LEMMA UpdateNext == ASSUME UpdateInv, [U!Next]_(U!vars) PROVE UpdateInv'
<1>1. CASE UNCHANGED U!vars
  <2>1. UNCHANGED <<job, main, up, package, at, cur, old, checks, inherited, open, reload, pause,
                    run, reg, updateCrashes, fails, busy>>
    BY <1>1 DEF U!vars, U!inst, U!sup, U!bounds
  <2>2. U!TypeOK' BY <2>1 DEF UpdateInv, U!TypeOK
  <2>3. Position' /\ OnePending' /\ Ahead' /\ Reached' /\ (RecLost \/ Content)' /\ HaveGreatest'
    BY <2>1, SameWork DEF U!inst
  <2>4. Registry' BY <2>1 DEF UpdateInv, Registry
  <2>5. Quiet' BY <2>1 DEF UpdateInv, Quiet, Calm, U!GapInPause, Applying
  <2>6. QED BY <2>2, <2>3, <2>4, <2>5 DEF UpdateInv
<1>2. CASE U!Owner BY <1>2, PrepareInv, SubmitInv, RetryRecoveryInv DEF U!Owner
<1>3. CASE U!Host
  BY <1>3, PickInv, IdleCheckInv, PauseInv, BeginInv, BuildInv, LockInv, StepInv, BootInv,
    ReclaimInv, ResumeInv, HostStartInv, ReopenInv, ReloadHoldInv, ReloadExitInv, ExitInv DEF U!Host
<1>4. CASE U!BuildFails \/ U!StepFails \/ U!HostFails \/ U!Crash
  BY <1>4, BuildFailsInv, StepFailsInv, HostFailsInv, CrashInv
<1>5. CASE \E j \in Jobs : U!QueueAutomatic(j) BY <1>5, QueueAutomaticInv
<1>6. CASE U!RegTake \/ U!RegGive \/ U!Admit \/ U!Launch \/ U!RunEnds
  BY <1>6, OthersInv
<1>7. QED BY <1>1, <1>2, <1>3, <1>4, <1>5, <1>6 DEF U!Next

\* The invariant says what a reader wants to know.
LEMMA WholeWhenSettled == ASSUME UpdateInv PROVE U!AllOrNothing
<1> SUFFICES ASSUME U!Settled, \A j \in Jobs : job[j].st = "failed" => ~job[j].rec PROVE U!Whole
  BY DEF U!AllOrNothing
<1>1. Content BY DEF UpdateInv, RecLost
<1>2. \A j \in Jobs : ~Dirty(j) BY DEF U!Settled, Dirty
<1>3. MainWhole /\ PlugWhole BY <1>1, <1>2, UpdatesAssumption DEF Content
<1>4. up.host = NewestMain BY <1>3 DEF MainWhole, U!Settled
<1>5. up = [relay |-> NewestMain, host |-> NewestMain, svc |-> NewestPlug]
  BY <1>3, <1>4 DEF MainWhole, PlugWhole, UpdateInv, U!TypeOK
<1>6. QED BY <1>3, <1>5 DEF U!Whole, MainWhole, PlugWhole, NewestMain, NewestPlug

\* A step that cuts work is made under a pause that kept the relay idle.
LEMMA CutOnlyInGap == ASSUME UpdateInv, [U!Next]_(U!vars), run' = "cut" PROVE run = "cut"
    \/ U!GapInPause
<1>1. CASE U!Effect /\ at \in MainSteps \cup PlugSteps
  <2>1. run = "cut" \/ (U!Waits(cur) /\ run # "none" /\ at \in MainSteps) BY <1>1, EffectFacts
  <2>2. U!Waits(cur) /\ at \in MainSteps => Calm \/ U!GapInPause BY DEF UpdateInv, Quiet
  <2>3. QED BY <2>1, <2>2 DEF Calm
<1>2. CASE U!Step
  BY <1>1, <1>2 DEF U!Step, U!Effect, MainSteps
<1>3. CASE U!StepFails
  <2>1. at \in {U!Order[n] : n \in DOMAIN U!Order} BY <1>3 DEF U!StepFails
  <2>2. at \in MainSteps \cup PlugSteps BY <2>1, MainOrder, PlugOrder DEF UpdateInv, U!TypeOK
  <2>3. QED BY <1>1, <1>3, <2>2 DEF U!StepFails
<1>4. CASE U!Exit BY <1>4 DEF U!Exit, UpdateInv, Quiet
<1>5. CASE U!Crash BY <1>5 DEF U!Crash
<1>6. CASE U!Admit \/ U!Launch \/ U!RunEnds BY <1>6 DEF U!Admit, U!Launch, U!RunEnds
<1>7. CASE UNCHANGED run BY <1>7
<1>8. U!Owner => UNCHANGED run BY DEF U!Owner, U!Prepare, U!Submit, U!RetryRecovery
<1>9. (\E j \in Jobs : U!Pick(j) \/ U!QueueAutomatic(j)) \/ U!IdleCheck \/ U!Pause \/ U!Begin
          \/ U!Build \/ U!Lock => UNCHANGED run
  BY DEF U!Pick, U!QueueAutomatic, U!IdleCheck, U!Pause, U!Begin, U!Build, U!Lock
<1>10. U!Boot \/ U!Reclaim \/ U!Resume \/ U!HostStart \/ U!Reopen \/ U!ReloadHold \/ U!ReloadExit =>
           UNCHANGED run
  BY DEF U!Boot, U!Reclaim, U!Resume, U!HostStart, U!Reopen, U!ReloadHold, U!ReloadExit
<1>11. U!BuildFails \/ U!HostFails \/ U!RegTake \/ U!RegGive \/ UNCHANGED U!vars => UNCHANGED run
  BY DEF U!BuildFails, U!HostFails, U!RegTake, U!RegGive, U!vars
<1>12. QED BY <1>2, <1>3, <1>4, <1>5, <1>6, <1>8, <1>9, <1>10, <1>11 DEF U!Next, U!Host

\* A behaviour of the composition is one of Updates, whose part stutters while another
\* moves.
LEMMA UpdatesPart == HostsSpec => U!Spec
<1>1. HostsInit => U!Init BY DEF HostsInit
<1>2. [HostsNext]_<<part, vars, updates, hosts>> => [U!Next]_(U!vars)
  BY DEF HostsNext, updates, U!vars, U!inst, U!sup, U!bounds
<1>3. QED BY <1>1, <1>2, PTL DEF HostsSpec, U!Spec

LEMMA UpdateInvHolds == U!Spec => []UpdateInv
<1>1. U!Init => UpdateInv BY UpdateInit
<1>2. UpdateInv /\ [U!Next]_(U!vars) => UpdateInv' BY UpdateNext
<1>3. QED BY <1>1, <1>2, PTL DEF U!Spec

\* Whatever step of an update fails and wherever the supervisor dies: once it is settled,
\* what is installed and what runs is, in every part, of the last update that completed;
\* unless a recovery was rejected as a new job is (updater.ts, perform and recover).
THEOREM UpdatesAreWhole == HostsSpec => []AllOrNothing
<1>1. UpdateInv => AllOrNothing BY WholeWhenSettled DEF UpdateInv, AllOrNothing
<1>2. QED BY <1>1, UpdateInvHolds, UpdatesPart, PTL

\* No update and no reload of the supervisor stops the relay or a worker under work that
\* is not handed over, until a supervisor died and another process held the registry: the
\* next one may then give up the pause it inherits.
THEOREM UpdatesSpareWork == HostsSpec => WorkIsNotCut
<1>1. UpdateInv /\ [U!Next]_(U!vars) => [run' = "cut" => run = "cut" \/ U!GapInPause]_(U!vars)
  BY CutOnlyInGap
<1>2. U!Spec => U!WorkIsNotCut BY <1>1, UpdateInvHolds, PTL DEF U!Spec, U!WorkIsNotCut
<1>3. QED BY <1>2, UpdatesPart, PTL DEF WorkIsNotCut
===============================================================================
