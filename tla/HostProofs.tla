------------------------------ MODULE HostProofs ------------------------------
(***************************************************************************)
(* Theorems about HostExecutor, for any number of runs, workers, crashes,  *)
(* hand-overs and plugin commands.                                         *)
(*                                                                         *)
(* HostInv is about one attempt of each run, whatever happens to its       *)
(* workers: which files a run has while a worker is at some point of it,   *)
(* and what is left of them when the worker dies.  WriterInv is about the  *)
(* lease of the workspace while no worker is retired, so that one worker   *)
(* lives at a time: between its first run and its last the lease is its.   *)
(***************************************************************************)
EXTENDS HostExecutor, FiniteSetTheorems, TLAPS

\* The names of the lease's holders are distinct.
NamesDistinct == None \notin Workers /\ "plugin" \notin Workers \cup {None}

Active   == {"claimed", "spawned", "recorded", "ended", "told"}
Working  == Active \cup {"unclaimed"}
JobState == Working \cup Claiming \cup {"none", "recovering", "forgetting"}

\* The files an attaching observer missed: it looks for them in this order.
Missed == {{}, {"req"}, {"req", "claim"}, {"req", "claim", "ev"}}
FileType == [req : BOOLEAN, claim : BOOLEAN, ev : {"none", "open", "exit"}, cancel : BOOLEAN]
ProcType == [host : Workers \cup {None}, cli : BOOLEAN]

\* The types the arguments need.
Typed ==
  /\ file \in [Runs -> FileType]
  /\ proc \in [Runs -> ProcType]
  /\ worker \in [Workers -> {"off", "starting", "up", "retiring", "dead"}]
  /\ job \in [Workers -> [Runs -> JobState]]
  /\ cli \in [Runs -> {"none", "live", "signalled", "lost"}]
  /\ client \in [Runs -> {"none", "watching", "attaching", "over", "unknown"}]
  /\ check \in [Runs -> Missed]
  /\ tried \in [Runs -> Nat] /\ crashes \in Nat
  /\ lease \in Workers \cup {None, "plugin"} /\ own \subseteq Workers
  /\ plugin \in {"none", "checking", "running"}

-------------------------------------------------------------------------------
\* A request stands for an attempt nobody has begun, but for a worker that claims it.
Fresh(r) ==
  /\ file[r].req => tried[r] = 1
  /\ tried[r] = 0 => client[r] = "none"
  /\ file[r].req \/ tried[r] = 0 =>
       /\ ~file[r].claim /\ file[r].ev # "exit" /\ cli[r] = "none"
       /\ \A w \in Workers : job[w][r] \in Claiming \cup {"none"}

\* A worker at a run is alive and alone; until it unclaims the run, the claim and the
\* process file are its.
Held(w, r) ==
  /\ job[w][r] # "none" => Alive(w) /\ \A v \in Workers : job[v][r] \in Working => w = v
  /\ job[w][r] \in Active => file[r].claim /\ proc[r].host = w
  /\ job[w][r] = "unclaimed" => ~file[r].claim
  /\ job[w][r] \in {"recovering", "forgetting"} => worker[w] # "retiring"
  /\ job[w][r] \in Claiming => worker[w] = "up" /\ file[r].req
  /\ job[w][r] \in {"named", "opened"} => proc[r].host = w
  /\ job[w][r] = "opened" => file[r].ev # "none"

\* What a worker's place says of the CLI.
CliOf(w, r) ==
  /\ job[w][r] = "claimed" => cli[r] = "none"
  /\ job[w][r] \in {"claimed", "spawned", "recorded"} => file[r].ev # "exit"
  /\ job[w][r] = "recorded" => proc[r].cli
  /\ job[w][r] \in {"ended", "told", "unclaimed", "recovering", "forgetting"} => cli[r] # "live"

\* A live CLI is not told over, and it is recorded or its worker is about to do it.
Live(r) ==
  cli[r] = "live" =>
    /\ file[r].ev # "exit"
    /\ proc[r].cli \/ \E w \in Workers : job[w][r] = "spawned"

\* An observed run has its request or its events; a request that was missed once does
\* not come back.
Traced(r) ==
  /\ client[r] \in {"watching", "attaching"} => file[r].req \/ file[r].ev # "none"
  /\ client[r] = "attaching" /\ check[r] # {} => ~file[r].req
  /\ client[r] # "unknown"

Sound(r) == /\ Fresh(r) /\ Live(r) /\ Traced(r)
            /\ \A w \in Workers : Held(w, r) /\ CliOf(w, r)
\* One worker claims.
OneClaims == \A w, v \in Workers : worker[w] \in {"starting", "up"} /\ worker[v] \in {"starting", "up"} => w = v
HostInv == Typed /\ OneClaims /\ \A r \in Runs : Sound(r)

LEMMA HostInvImplies == HostInv => EndedIsStopped /\ AttachSeesTheRun
  BY DEF HostInv, Sound, Live, Traced, EndedIsStopped, AttachSeesTheRun

LEMMA HostInit == Init => HostInv
  BY DEF Init, HostInv, OneClaims, Typed, Sound, Fresh, Live, Traced, Held, CliOf, Active, Working, Claiming, JobState, NoFiles, NoProc, FileType, ProcType, Missed

USE DEF Active, Working, Claiming, JobState

-------------------------------------------------------------------------------
\* The types are kept.  Writing a flag or the events of a run, or moving a job, keeps
\* the types of the functions of functions.
LEMMA FlagTyped ==
  ASSUME file \in [Runs -> FileType], NEW r \in Runs, NEW k \in {"req", "claim", "cancel"},
         NEW b \in BOOLEAN, File(r, k, b)
  PROVE  file' \in [Runs -> FileType]
<1>1. [file[r] EXCEPT ![k] = b] \in FileType BY DEF FileType
<1>2. QED BY <1>1 DEF File

LEMMA EvTyped ==
  ASSUME file \in [Runs -> FileType], NEW r \in Runs, NEW e \in {"none", "open", "exit"},
         File(r, "ev", e)
  PROVE  file' \in [Runs -> FileType]
<1>1. [file[r] EXCEPT !["ev"] = e] \in FileType BY DEF FileType
<1>2. QED BY <1>1 DEF File

LEMMA ClaimKept ==
  ASSUME file \in [Runs -> FileType], NEW r \in Runs, NEW e, File(r, "ev", e)
  PROVE  file'[r].claim = file[r].claim
BY DEF File, FileType

LEMMA JobTyped ==
  ASSUME job \in [Workers -> [Runs -> JobState]], NEW w \in Workers, NEW r \in Runs,
         NEW at \in JobState, Job(w, r, at)
  PROVE  job' \in [Workers -> [Runs -> JobState]]
<1>1. [job[w] EXCEPT ![r] = at] \in [Runs -> JobState] OBVIOUS
<1>2. QED BY <1>1 DEF Job

\* An observer that attaches looks for the events last, and gives up only without them.
LEMMA Checked ==
  ASSUME Typed, NEW r \in Runs, Attach(r)
  PROVE  /\ check' \in [Runs -> Missed]
         /\ client' \in [Runs -> {"none", "watching", "attaching", "over", "unknown"}]
         /\ \A q \in Runs : q # r => client'[q] = client[q] /\ check'[q] = check[q]
         /\ client'[r] = "attaching" => check[r] # {} \/ ~file[r].req
         /\ client'[r] = "unknown" => check[r] # {} /\ file[r].ev = "none"
<1> DEFINE k == NextCheck(check[r])
           Clients == {"none", "watching", "attaching", "over", "unknown"}
<1>1. client \in [Runs -> Clients] /\ client[r] = "attaching" BY DEF Typed, Attach
<1>2. check \in [Runs -> Missed] BY DEF Typed
<1>3. \/ check[r] = {} /\ k = "req"
      \/ check[r] = {"req"} /\ k = "claim"
      \/ check[r] \in {{"req", "claim"}, {"req", "claim", "ev"}} /\ k = "ev"
  BY <1>2 DEF NextCheck, Missed
<1> HIDE DEF k
<1>4. CASE Exists(r, k)
  <2>1. client' = [client EXCEPT ![r] = "watching"] /\ check' = [check EXCEPT ![r] = {}]
    BY <1>4 DEF Attach, k
  <2>2. {} \in Missed BY DEF Missed
  <2>3. QED BY <1>1, <1>2, <2>1, <2>2
<1>5. CASE ~Exists(r, k)
  <2>1. /\ check' = [check EXCEPT ![r] = @ \cup {k}]
        /\ client' = [client EXCEPT ![r] = IF Cardinality(check'[r]) = 3 THEN "unknown" ELSE @]
    BY <1>5 DEF Attach, k
  <2>2. check'[r] = check[r] \cup {k} BY <1>2, <2>1
  <2>3. /\ check'[r] \in Missed
        /\ Cardinality(check'[r]) # 3 => check[r] # {} \/ ~file[r].req
        /\ Cardinality(check'[r]) = 3 => check[r] # {} /\ file[r].ev = "none"
    <3>1. Cardinality({"req"}) = 1 /\ IsFiniteSet({"req"}) BY FS_Singleton
    <3>2. Cardinality({"req", "claim"}) = 2
      <4>1. {"req", "claim"} = {"req"} \cup {"claim"} OBVIOUS
      <4>2. QED BY <3>1, <4>1, FS_AddElement
    <3>3. CASE check[r] = {} /\ k = "req"
      <4>1. check'[r] = {"req"} BY <2>2, <3>3
      <4>2. check'[r] \in Missed BY <4>1 DEF Missed
      <4>3. ~file[r].req BY <1>5, <3>3 DEF Exists
      <4>4. QED BY <3>1, <4>1, <4>2, <4>3
    <3>4. CASE check[r] = {"req"} /\ k = "claim"
      <4>1. check'[r] = {"req", "claim"} BY <2>2, <3>4
      <4>2. check'[r] \in Missed BY <4>1 DEF Missed
      <4>3. check[r] # {} BY <3>4
      <4>4. QED BY <3>2, <4>1, <4>2, <4>3
    <3>5. CASE check[r] \in {{"req", "claim"}, {"req", "claim", "ev"}} /\ k = "ev"
      <4>1. check[r] \cup {"ev"} = {"req", "claim", "ev"} BY <3>5
      <4>2. check'[r] \in Missed BY <2>2, <3>5, <4>1 DEF Missed
      <4>3. check[r] # {} /\ file[r].ev = "none" BY <1>5, <3>5 DEF Exists
      <4>4. QED BY <4>2, <4>3
    <3>6. QED BY <1>3, <3>3, <3>4, <3>5
  <2>4. CASE Cardinality(check'[r]) = 3
    <3>1. client' = [client EXCEPT ![r] = "unknown"] BY <1>1, <2>1, <2>4
    <3>2. QED BY <1>1, <1>2, <2>1, <2>3, <2>4, <3>1
  <2>5. CASE Cardinality(check'[r]) # 3
    <3>1. client' = client BY <1>1, <2>1, <2>5
    <3>2. QED BY <1>1, <1>2, <2>1, <2>3, <2>5, <3>1
  <2>6. QED BY <2>4, <2>5
<1>6. QED BY <1>4, <1>5

LEMMA TypedObserver ==
  ASSUME Typed, NEW r \in Runs, Submit(r) \/ See(r) \/ Offline(r) \/ Stop(r) \/ HandOver(r) \/ Attach(r) \/ CliEnds(r)
  PROVE  Typed'
<1> USE DEF fs, host, watch, writers
<1>1. CASE Submit(r)
  <2> USE <1>1
  <2>1. file' \in [Runs -> FileType] BY FlagTyped DEF Submit, Typed
  <2>2. tried' \in [Runs -> Nat] BY DEF Submit, Typed
  <2>3. client' \in [Runs -> {"none", "watching", "attaching", "over", "unknown"}] BY DEF Submit, Typed
  <2>4. QED BY <2>1, <2>2, <2>3 DEF Submit, Typed
<1>2. CASE See(r)
  <2> USE <1>2
  <2>1. file' \in [Runs -> FileType] BY EvTyped DEF See, Typed
  <2>2. QED BY <2>1 DEF See, Typed
<1>3. CASE Offline(r)
  <2> USE <1>3
  <2>1. file' \in [Runs -> FileType] BY FlagTyped DEF Offline, Typed
  <2>2. QED BY <2>1 DEF Offline, Typed
<1>4. CASE Stop(r)
  <2> USE <1>4
  <2>1. file' \in [Runs -> FileType] BY FlagTyped DEF Stop, Typed
  <2>2. QED BY <2>1 DEF Stop, Typed
<1>5. CASE HandOver(r) BY <1>5 DEF HandOver, Typed, Missed
<1>6. CASE Attach(r)
  <2> USE <1>6
  <2>1. UNCHANGED <<file, proc, worker, job, cli, tried, crashes, lease, own, plugin>> BY DEF Attach
  <2>2. /\ check' \in [Runs -> Missed]
        /\ client' \in [Runs -> {"none", "watching", "attaching", "over", "unknown"}]
    BY Checked
  <2>3. QED BY <2>1, <2>2 DEF Attach, NextCheck, Exists, Typed
<1>7. CASE CliEnds(r) BY <1>7 DEF CliEnds, Typed
<1>8. QED BY <1>1, <1>2, <1>3, <1>4, <1>5, <1>6, <1>7

LEMMA TypedWorker ==
  ASSUME Typed, NEW w \in Workers, Boot(w) \/ Ready(w) \/ StaleLease(w) \/ Retire(w) \/ Retired(w) \/ Crash(w)
  PROVE  Typed'
<1> USE DEF fs, host, watch, writers
<1>1. CASE Boot(w) BY <1>1 DEF Boot, Typed
<1>2. CASE Ready(w) BY <1>2 DEF Ready, Typed
<1>3. CASE StaleLease(w) BY <1>3 DEF StaleLease, Lanes, Typed
<1>4. CASE Retire(w) BY <1>4 DEF Retire, Typed
<1>5. CASE Retired(w) BY <1>5 DEF Retired, Lanes, Typed
<1>6. CASE Crash(w)
  <2> USE <1>6
  <2>1. job' \in [Workers -> [Runs -> JobState]] BY DEF Crash, Typed
  <2>2. QED BY <2>1 DEF Crash, Typed
<1>7. QED BY <1>1, <1>2, <1>3, <1>4, <1>5, <1>6

LEMMA TypedRun ==
  ASSUME Typed, NEW w \in Workers, NEW r \in Runs, Recover(w, r) \/ Forget(w, r) \/ Recovered(w, r) \/ Reserve(w, r) \/ Name(w, r) \/ Open(w, r) \/ Claim(w, r) \/ Launch(w, r) \/ Record(w, r) \/ PollCancel(w, r) \/ Observe(w, r) \/ Tell(w, r) \/ Unclaim(w, r) \/ Finish(w, r) \/ Refuse(w, r)
  PROVE  Typed'
<1> USE DEF fs, host, watch, writers
<1>1. CASE Recover(w, r)
  <2> USE <1>1
  <2>1. file' \in [Runs -> FileType] BY EvTyped DEF Recover, Typed
  <2>2. job' \in [Workers -> [Runs -> JobState]] BY JobTyped DEF Recover, Typed
  <2>3. QED BY <2>1, <2>2 DEF Recover, Orphaned, Looping, Typed
<1>2. CASE Recovered(w, r)
  <2> USE <1>2
  <2>1. file' \in [Runs -> FileType] BY FlagTyped DEF Recovered, Typed
  <2>2. job' \in [Workers -> [Runs -> JobState]] BY JobTyped DEF Recovered, Typed
  <2>3. QED BY <2>1, <2>2 DEF Recovered, Typed
<1>2a. CASE Forget(w, r)
  <2> USE <1>2a
  <2>1. job' \in [Workers -> [Runs -> JobState]] BY JobTyped DEF Forget, Typed
  <2>2. proc' \in [Runs -> ProcType] BY DEF Forget, NoProc, ProcType, Typed
  <2>3. QED BY <2>1, <2>2 DEF Forget, Typed
<1>2b. CASE Reserve(w, r)
  <2> USE <1>2b
  <2>1. job' \in [Workers -> [Runs -> JobState]] BY JobTyped DEF Reserve, Typed
  <2>2. QED BY <2>1 DEF Reserve, Leased, Typed
<1>2c. CASE Name(w, r)
  <2> USE <1>2c
  <2>1. job' \in [Workers -> [Runs -> JobState]] BY JobTyped DEF Name, Typed
  <2>2. proc' \in [Runs -> ProcType] BY DEF Name, ProcType, Typed
  <2>3. QED BY <2>1, <2>2 DEF Name, Typed
<1>2d. CASE Open(w, r)
  <2> USE <1>2d
  <2>1. file' \in [Runs -> FileType]
    <3> DEFINE e == IF file[r].ev = "none" THEN "open" ELSE file[r].ev
    <3>1. e \in {"none", "open", "exit"} BY DEF Typed, FileType
    <3>2. File(r, "ev", e) BY DEF Open
    <3> HIDE DEF e
    <3>3. QED BY <3>1, <3>2, EvTyped DEF Typed
  <2>2. job' \in [Workers -> [Runs -> JobState]] BY JobTyped DEF Open, Typed
  <2>3. QED BY <2>1, <2>2 DEF Open, Typed
<1>3. CASE Claim(w, r)
  <2> USE <1>3
  <2>1. file' \in [Runs -> FileType]
    <3> DEFINE f == [[file[r] EXCEPT !.req = FALSE] EXCEPT !.claim = TRUE]
    <3>1. file[r] \in FileType BY DEF Typed
    <3>2. f \in FileType BY <3>1 DEF FileType
    <3>3. file' = [file EXCEPT ![r] = f] BY DEF Claim, Typed
    <3>4. QED BY <3>2, <3>3 DEF Typed
  <2>2. job' \in [Workers -> [Runs -> JobState]] BY JobTyped DEF Claim, Typed
  <2>3. QED BY <2>1, <2>2 DEF Claim, Typed
<1>4. CASE Launch(w, r)
  <2> USE <1>4
  <2>1. job' \in [Workers -> [Runs -> JobState]]
    <3>1. Job(w, r, "spawned") \/ Job(w, r, "ended") BY DEF Launch
    <3>2. QED BY <3>1, JobTyped DEF Typed
  <2>2. QED BY <2>1 DEF Launch, Typed
<1>5. CASE Record(w, r)
  <2> USE <1>5
  <2>1. job' \in [Workers -> [Runs -> JobState]] BY JobTyped DEF Record, Typed
  <2>2. proc' \in [Runs -> ProcType]
    <3>1. [proc[r] EXCEPT !.cli = TRUE] \in ProcType BY DEF ProcType, Typed
    <3>2. QED BY <3>1 DEF Record, Typed
  <2>3. QED BY <2>1, <2>2 DEF Record, Typed
<1>6. CASE PollCancel(w, r) BY <1>6 DEF PollCancel, Cancelled, Typed
<1>7. CASE Observe(w, r)
  <2> USE <1>7
  <2>1. job' \in [Workers -> [Runs -> JobState]] BY JobTyped DEF Observe, Typed
  <2>2. QED BY <2>1 DEF Observe, Typed
<1>8. CASE Tell(w, r)
  <2> USE <1>8
  <2>1. file' \in [Runs -> FileType] BY EvTyped DEF Tell, Typed
  <2>2. job' \in [Workers -> [Runs -> JobState]] BY JobTyped DEF Tell, Typed
  <2>3. QED BY <2>1, <2>2 DEF Tell, Typed
<1>9. CASE Unclaim(w, r)
  <2> USE <1>9
  <2>1. file' \in [Runs -> FileType] BY FlagTyped DEF Unclaim, Typed
  <2>2. job' \in [Workers -> [Runs -> JobState]] BY JobTyped DEF Unclaim, Typed
  <2>3. QED BY <2>1, <2>2 DEF Unclaim, Typed
<1>10. CASE Finish(w, r)
  <2> USE <1>10
  <2>1. file' \in [Runs -> FileType] BY FlagTyped DEF Finish, Typed
  <2>2. job' \in [Workers -> [Runs -> JobState]] BY JobTyped DEF Finish, Typed
  <2>3. proc' \in [Runs -> ProcType] BY DEF Finish, NoProc, ProcType, Typed
  <2>4. QED BY <2>1, <2>2, <2>3 DEF Finish, NoProc, Typed
<1>11. CASE Refuse(w, r)
  <2> USE <1>11
  <2>1. file' \in [Runs -> FileType]
    <3> DEFINE f == [[file[r] EXCEPT !.ev = "exit"] EXCEPT !.req = FALSE]
    <3>1. file[r] \in FileType BY DEF Typed
    <3>2. f \in FileType BY <3>1 DEF FileType
    <3>3. file' = [file EXCEPT ![r] = f] BY DEF Refuse, Typed
    <3>4. QED BY <3>2, <3>3 DEF Typed
  <2>2. QED BY <2>1 DEF Refuse, Typed
<1>12. QED BY <1>1, <1>2, <1>2a, <1>2b, <1>2c, <1>2d, <1>3, <1>4, <1>5, <1>6, <1>7, <1>8, <1>9, <1>10,
  <1>11

LEMMA TypedPlugin ==
  ASSUME Typed, PluginLease \/ PluginCheck \/ PluginEnd
  PROVE  Typed'
<1> USE DEF fs, host, watch, writers
<1>1. CASE PluginLease BY <1>1 DEF PluginLease, Typed
<1>2. CASE PluginCheck BY <1>2 DEF PluginCheck, Typed
<1>3. CASE PluginEnd BY <1>3 DEF PluginEnd, Typed
<1>4. QED BY <1>1, <1>2, <1>3

-------------------------------------------------------------------------------
\* A step that only touches run r keeps what is said of the others.
Others(r) == \A q \in Runs \ {r} :
  /\ file'[q] = file[q] /\ proc'[q] = proc[q] /\ cli'[q] = cli[q]
  /\ client'[q] = client[q] /\ check'[q] = check[q] /\ tried'[q] = tried[q]
  /\ \A w \in Workers : job'[w][q] = job[w][q]

LEMMA OnlyOne ==
  ASSUME HostInv, NEW r \in Runs, Others(r), UNCHANGED worker, Typed', Sound(r)'
  PROVE  HostInv'
<1>1. ASSUME NEW q \in Runs, q # r PROVE Sound(q)'
  BY <1>1 DEF HostInv, Others, Sound, Fresh, Held, CliOf, Live, Traced, Alive
<1>2. QED BY <1>1 DEF HostInv, OneClaims

\* The relay's side of a run, and the end of its CLI.
LEMMA ObserverStep ==
  ASSUME Attempts = 1, HostInv, NEW r \in Runs,
         Submit(r) \/ Observer(r) \/ Stop(r) \/ HandOver(r) \/ CliEnds(r)
  PROVE  HostInv'
<1> USE DEF Observer, fs, host, watch, writers
<1>0. Typed' BY TypedObserver DEF HostInv
<1>1. Others(r) /\ UNCHANGED worker
  <2>1. CASE Attach(r) BY <2>1, Checked DEF HostInv, Attach, Others
  <2>2. CASE ~Attach(r)
    BY <2>2 DEF HostInv, Typed, Submit, See, Offline, Stop, HandOver, CliEnds, File, Others
  <2>3. QED BY <2>1, <2>2
<1>2. Sound(r)'
  <2> USE DEF HostInv, Typed, Sound, Fresh, Held, CliOf, Live, Traced, Alive, File
  <2>1. CASE Submit(r)
    <3> USE <2>1 DEF Submit
    <3>1. Fresh(r)' OBVIOUS
    <3>2. Live(r)' OBVIOUS
    <3>3. Traced(r)' BY DEF FileType
    <3>4. ASSUME NEW v \in Workers PROVE Held(v, r)' OBVIOUS
    <3>5. ASSUME NEW v \in Workers PROVE CliOf(v, r)' OBVIOUS
    <3>6. QED BY <3>1, <3>2, <3>3, <3>4, <3>5
  <2>2. CASE See(r) BY <2>2 DEF See
  <2>3. CASE Offline(r) BY <2>3 DEF Offline
  <2>4. CASE Stop(r) BY <2>4 DEF Stop
  <2>5. CASE HandOver(r) BY <2>5 DEF HandOver
  <2>6. CASE Attach(r)
    <3>1. UNCHANGED <<file, proc, worker, job, cli, tried>> BY <2>6 DEF Attach
    <3>2. client[r] = "attaching" BY <2>6 DEF Attach
    <3>3. /\ client'[r] = "attaching" => check[r] # {} \/ ~file[r].req
          /\ client'[r] = "unknown" => check[r] # {} /\ file[r].ev = "none"
      BY <2>6, Checked
    <3>4. QED BY <3>1, <3>2, <3>3
  <2>7. CASE CliEnds(r) BY <2>7 DEF CliEnds
  <2>8. QED BY <2>1, <2>2, <2>3, <2>4, <2>5, <2>6, <2>7
<1>3. QED BY <1>0, <1>1, <1>2, OnlyOne

\* A worker's step for run r touches the files and places of r alone.
LEMMA OthersKept ==
  ASSUME Typed, NEW w \in Workers, NEW r \in Runs, Step(w, r) \/ Refuse(w, r)
  PROVE  Others(r) /\ UNCHANGED worker
<1> USE DEF Step, fs, host, watch, writers, Typed, Others, File, Job
<1>1. CASE Recover(w, r) BY <1>1 DEF Recover
<1>2. CASE Forget(w, r) \/ Recovered(w, r) BY <1>2 DEF Forget, Recovered
<1>3. CASE Reserve(w, r) \/ Name(w, r) \/ Open(w, r) \/ Claim(w, r)
  BY <1>3 DEF Reserve, Name, Open, Claim
<1>4. CASE Launch(w, r)
  <2>1. Job(w, r, "spawned") \/ Job(w, r, "ended") BY <1>4 DEF Launch
  <2>2. \A q \in Runs \ {r} : \A v \in Workers : job'[v][q] = job[v][q] BY <2>1
  <2>3. QED BY <1>4, <2>2 DEF Launch
<1>5. CASE Record(w, r) BY <1>5 DEF Record
<1>6. CASE PollCancel(w, r) BY <1>6 DEF PollCancel
<1>7. CASE Observe(w, r) BY <1>7 DEF Observe
<1>8. CASE Tell(w, r) BY <1>8 DEF Tell
<1>9. CASE Unclaim(w, r) BY <1>9 DEF Unclaim
<1>10. CASE Finish(w, r) BY <1>10 DEF Finish
<1>11. CASE Refuse(w, r) BY <1>11 DEF Refuse
<1>12. QED BY <1>1, <1>2, <1>3, <1>4, <1>5, <1>6, <1>7, <1>8, <1>9, <1>10, <1>11

\* A worker's step for one run.
LEMMA RunStep ==
  ASSUME NamesDistinct, Attempts = 1, HostInv, NEW w \in Workers, NEW r \in Runs,
         Step(w, r) \/ Refuse(w, r)
  PROVE  HostInv'
<1> USE DEF Step, fs, host, watch, writers
<1>0. Typed' BY TypedRun DEF HostInv
<1>1. Others(r) /\ UNCHANGED worker BY OthersKept DEF HostInv
<1>2. Sound(r)'
  <2> USE DEF HostInv, Typed, Sound, Fresh, Held, CliOf, Live, Traced, Alive, File, Job
  <2>1. CASE Recover(w, r) BY <2>1 DEF Recover, Orphaned, NamesDistinct
  <2>2. CASE Recovered(w, r) BY <2>2 DEF Recovered
  <2>2a. CASE Forget(w, r) BY <2>2a DEF Forget, NoProc
  <2>2b. CASE Reserve(w, r)
    <3> USE <2>2b DEF Reserve
    <3>0. /\ worker[w] = "up" /\ file[r].req /\ job'[w][r] = "reserved" /\ file' = file /\ proc' = proc
          /\ \A v \in Workers : /\ v # w => job'[v][r] = job[v][r]
                               /\ job[v][r] \in {"none", "reserved", "named", "opened"}
      OBVIOUS
    <3>1. Fresh(r)' OBVIOUS
    <3>2. Live(r)' OBVIOUS
    <3>3. Traced(r)' OBVIOUS
    <3>4. ASSUME NEW v \in Workers PROVE Held(v, r)' BY <1>1, <3>0 DEF NamesDistinct
    <3>5. ASSUME NEW v \in Workers PROVE CliOf(v, r)' OBVIOUS
    <3>6. QED BY <3>1, <3>2, <3>3, <3>4, <3>5
  <2>2c. CASE Name(w, r) BY <2>2c DEF Name, OneClaims
  <2>2d. CASE Open(w, r) BY <2>2d DEF Open, FileType
  <2>3. CASE Claim(w, r)
    <3> USE <2>3 DEF Claim
    <3>0. \A v \in Workers : job[v][r] # "none" => v = w BY DEF OneClaims
    <3>1. Fresh(r)' OBVIOUS
    <3>2. Live(r)' OBVIOUS
    <3>3. Traced(r)' OBVIOUS
    <3>4. ASSUME NEW v \in Workers PROVE Held(v, r)' BY <3>0 DEF FileType
    <3>5. ASSUME NEW v \in Workers PROVE CliOf(v, r)' OBVIOUS
    <3>6. QED BY <3>1, <3>2, <3>3, <3>4, <3>5
  <2>4. CASE Launch(w, r)
    <3> USE <2>4 DEF Launch
    <3>0. /\ job[w][r] = "claimed" /\ \A v \in Workers : v # w => job'[v][r] = job[v][r]
          /\ \/ job'[w][r] = "spawned"
             \/ job'[w][r] = "ended" /\ UNCHANGED cli
      OBVIOUS
    <3>1. Fresh(r)' BY <3>0
    <3>2. Live(r)' BY <3>0
    <3>3. Traced(r)' OBVIOUS
    <3>4. ASSUME NEW v \in Workers PROVE Held(v, r)' BY <3>0
    <3>5. ASSUME NEW v \in Workers PROVE CliOf(v, r)' BY <3>0
    <3>6. QED BY <3>1, <3>2, <3>3, <3>4, <3>5
  <2>5. CASE Record(w, r) BY <2>5 DEF Record
  <2>6. CASE PollCancel(w, r) BY <2>6 DEF PollCancel, Cancelled
  <2>7. CASE Observe(w, r) BY <2>7 DEF Observe
  <2>8. CASE Tell(w, r) BY <2>8 DEF Tell
  <2>9. CASE Unclaim(w, r)
    <3> USE <2>9 DEF Unclaim
    <3>1. Fresh(r)' OBVIOUS
    <3>2. Live(r)' OBVIOUS
    <3>3. Traced(r)' OBVIOUS
    <3>4. ASSUME NEW v \in Workers PROVE Held(v, r)' BY DEF FileType
    <3>5. ASSUME NEW v \in Workers PROVE CliOf(v, r)' OBVIOUS
    <3>6. QED BY <3>1, <3>2, <3>3, <3>4, <3>5
  <2>10. CASE Finish(w, r) BY <2>10 DEF Finish, NoProc
  <2>11. CASE Refuse(w, r)
    <3> USE <2>11 DEF Refuse, Looping, FileType
    <3>0. \A v \in Workers : job[v][r] = "none" BY DEF OneClaims
    <3>1. Fresh(r)' OBVIOUS
    <3>2. Live(r)' OBVIOUS
    <3>3. Traced(r)' OBVIOUS
    <3>4. ASSUME NEW v \in Workers PROVE Held(v, r)' BY <3>0
    <3>5. ASSUME NEW v \in Workers PROVE CliOf(v, r)' BY <3>0
    <3>6. QED BY <3>1, <3>2, <3>3, <3>4, <3>5
  <2>12. QED BY <2>1, <2>2, <2>2a, <2>2b, <2>2c, <2>2d, <2>3, <2>4, <2>5, <2>6, <2>7, <2>8, <2>9, <2>10,
    <2>11
<1>3. QED BY <1>0, <1>1, <1>2, OnlyOne

\* The life of a worker: it changes no file of a run, and a worker that dies leaves
\* its runs at the points where they are.
LEMMA WorkerStep ==
  ASSUME NamesDistinct, Attempts = 1, HostInv, NEW w \in Workers,
         Boot(w) \/ Ready(w) \/ StaleLease(w) \/ Retire(w) \/ Retired(w) \/ Crash(w)
  PROVE  HostInv'
<1> USE DEF HostInv, fs, host, watch, writers
<1>0. Typed' BY TypedWorker
<1>1. ASSUME NEW r \in Runs PROVE Sound(r)'
  <2> USE DEF Typed, Sound, Fresh, Held, CliOf, Live, Traced, Alive
  <2>1. CASE Boot(w) BY <2>1 DEF Boot
  <2>2. CASE Ready(w) BY <2>2 DEF Ready
  <2>3. CASE StaleLease(w) BY <2>3 DEF StaleLease, Lanes, Looping
  <2>4. CASE Retire(w) BY <2>4 DEF Retire, Looping
  <2>5. CASE Retired(w)
    <3> USE <2>5 DEF Retired, Lanes
    <3>1. Fresh(r)' OBVIOUS
    <3>2. Live(r)' OBVIOUS
    <3>3. Traced(r)' OBVIOUS
    <3>4. ASSUME NEW v \in Workers PROVE Held(v, r)' OBVIOUS
    <3>5. ASSUME NEW v \in Workers PROVE CliOf(v, r)' OBVIOUS
    <3>6. QED BY <3>1, <3>2, <3>3, <3>4, <3>5
  <2>6. CASE Crash(w) BY <2>6 DEF Crash
  <2>7. QED BY <2>1, <2>2, <2>3, <2>4, <2>5, <2>6
<1>2. OneClaims'
  BY DEF OneClaims, Typed, Boot, Ready, StaleLease, Retire, Retired, Crash
<1>3. QED BY <1>0, <1>1, <1>2

\* A plugin command's step touches none of this.
LEMMA PluginStep ==
  ASSUME HostInv, PluginLease \/ PluginCheck \/ PluginEnd
  PROVE  HostInv'
<1>1. UNCHANGED <<file, proc, worker, job, cli, client, check, tried>>
  BY DEF PluginLease, PluginCheck, PluginEnd, host, watch
<1>2. Typed' BY TypedPlugin DEF HostInv
<1>3. QED BY <1>1, <1>2 DEF HostInv, OneClaims, Sound, Fresh, Held, CliOf, Live, Traced, Alive

LEMMA HostNext ==
  ASSUME NamesDistinct, Attempts = 1
  PROVE  HostInv /\ [Next]_vars => HostInv'
<1> SUFFICES ASSUME HostInv, [Next]_vars PROVE HostInv'
  OBVIOUS
<1>1. ASSUME NEW r \in Runs, Submit(r) \/ Observer(r) \/ Stop(r) \/ HandOver(r) \/ CliEnds(r)
      PROVE HostInv'
  BY <1>1, ObserverStep
<1>2. ASSUME NEW w \in Workers,
             Boot(w) \/ Ready(w) \/ StaleLease(w) \/ Retire(w) \/ Retired(w) \/ Crash(w)
      PROVE HostInv'
  BY <1>2, WorkerStep
<1>3. ASSUME NEW w \in Workers, NEW r \in Runs, Step(w, r) \/ Refuse(w, r) PROVE HostInv'
  BY <1>3, RunStep
<1>4. CASE PluginLease \/ PluginCheck \/ PluginEnd BY <1>4, PluginStep
<1>5. CASE UNCHANGED vars
  BY <1>5 DEF vars, fs, host, watch, writers, HostInv, OneClaims, Typed, Sound, Fresh, Held, CliOf, Live,
              Traced, Alive
<1>6. QED BY <1>1, <1>2, <1>3, <1>4, <1>5 DEF Next

\* A run told over has no CLI that works on unsignalled, whatever died, was retired or
\* recovered meanwhile, while its id names one attempt.
THEOREM ToldIsStopped == NamesDistinct /\ Attempts = 1 => (Spec => []EndedIsStopped)
<1> SUFFICES ASSUME NamesDistinct, Attempts = 1 PROVE Spec => []EndedIsStopped
  OBVIOUS
<1>1. HostInv /\ [Next]_vars => HostInv' BY HostNext
<1>2. Spec => []HostInv BY HostInit, <1>1, PTL DEF Spec
<1>3. QED BY <1>2, HostInvImplies, PTL

\* No hand-over of the relay gives the outcome of a run up as unknown.
THEOREM HandedOverIsSeen == NamesDistinct /\ Attempts = 1 => (Spec => []AttachSeesTheRun)
<1> SUFFICES ASSUME NamesDistinct, Attempts = 1 PROVE Spec => []AttachSeesTheRun
  OBVIOUS
<1>1. HostInv /\ [Next]_vars => HostInv' BY HostNext
<1>2. Spec => []HostInv BY HostInit, <1>1, PTL DEF Spec
<1>3. QED BY <1>2, HostInvImplies, PTL

-------------------------------------------------------------------------------
\* With no worker retired, one lives at a time.
OneAlive == \A w, v \in Workers : Alive(w) /\ Alive(v) => w = v
NoRetired == \A w \in Workers : worker[w] # "retiring"

\* The worker that is up holds every claim there is; it works under no lease of others.
Jobs(w, r) ==
  /\ job[w][r] # "none" => Alive(w)
  /\ job[w][r] \in Active => file[r].claim /\ proc[r].host = w
  /\ job[w][r] \in Working \cup Claiming => worker[w] = "up"
  /\ job[w][r] \in {"named", "opened"} => proc[r].host = w
  /\ worker[w] = "up" /\ file[r].claim => job[w][r] \in Active
  /\ job[w][r] \in {"claimed", "ended", "told", "unclaimed", "recovering", "forgetting"} => cli[r] # "live"
  /\ job[w][r] = "recorded" => proc[r].cli

\* A live CLI keeps its claim, which names who is or was to end it, until that is forgotten.
LiveClaimed(r) ==
  cli[r] = "live" => file[r].claim /\ (proc[r].cli \/ \E w \in Workers : job[w][r] = "spawned")
Claimant(r) ==
  file[r].claim /\ proc[r].host # None => worker[proc[r].host] \in {"up", "dead"}

\* The lease is a worker's exactly while it has runs, or died with them; a plugin
\* command that runs found no claim.
Leases ==
  /\ \A w \in Workers : /\ Lanes(w) # {} => lease = w /\ w \in own
                        /\ lease = w /\ Alive(w) => Lanes(w) # {}
                        /\ lease = w => worker[w] \in {"up", "dead"}
                        /\ w \in own => lease = w /\ worker[w] = "up"
  /\ lease = "plugin" <=> plugin # "none"
  /\ plugin = "running" => \A r \in Runs : ~file[r].claim

\* Before the first crash no worker is dead, and every claim and every CLI has its worker.
Tended(r) ==
  /\ cli[r] # "none" => \E w \in Workers : job[w][r] \in {"spawned", "recorded"}
  /\ file[r].claim => \E w \in Workers : job[w][r] \in Active
  /\ \A w \in Workers : job[w][r] \notin {"recovering", "forgetting"}
NoCrash == crashes = 0 => (\A w \in Workers : worker[w] # "dead") /\ \A r \in Runs : Tended(r)

Writer(r) == LiveClaimed(r) /\ Claimant(r) /\ \A w \in Workers : Jobs(w, r)
WriterInv == Typed /\ OneAlive /\ NoRetired /\ Leases /\ NoCrash /\ \A r \in Runs : Writer(r)

\* No CLI that works on unsignalled writes beside a plugin command; a CLI its dead worker
\* left behind may, until it dies of the signal.
NoLiveWriter == plugin = "running" => \A r \in Runs : cli[r] # "live"

LEMMA WriterInvImplies ==
  ASSUME NamesDistinct, WriterInv
  PROVE  NoLiveWriter /\ (crashes = 0 => OneWriter)
<1> USE DEF NamesDistinct, WriterInv, Leases
<1>1. NoLiveWriter BY DEF NoLiveWriter, Writer, LiveClaimed
<1>2. ASSUME crashes = 0, plugin = "running", NEW r \in Runs, cli[r] # "none" PROVE FALSE
  <2>1. PICK w \in Workers : job[w][r] \in {"spawned", "recorded"} BY <1>2 DEF NoCrash, Tended
  <2>2. Lanes(w) # {} BY <2>1 DEF Lanes
  <2>3. QED BY <1>2, <2>2
<1>3. QED BY <1>1, <1>2 DEF OneWriter

LEMMA WriterInit == NamesDistinct /\ Init => WriterInv
<1> SUFFICES ASSUME NamesDistinct, Init PROVE WriterInv
  OBVIOUS
<1>1. Typed BY HostInit DEF HostInv
<1>2. \A w \in Workers : Lanes(w) = {} BY DEF Init, Lanes
<1>3. QED
  BY <1>1, <1>2 DEF NamesDistinct, Init, WriterInv, OneAlive, NoRetired, Leases, NoCrash, Tended, Writer,
     LiveClaimed, Claimant, Jobs, Alive, NoFiles, NoProc

\* A step that changes neither claims, workers, places nor the lease, and after which a
\* CLI is as it was or no longer live.
LEMMA Aside ==
  ASSUME WriterInv, Typed', UNCHANGED <<proc, worker, job, lease, own, plugin, crashes>>,
         \A r \in Runs : /\ file'[r].claim = file[r].claim
                         /\ cli'[r] = "live" => cli[r] = "live"
                         /\ cli'[r] # "none" => cli[r] # "none"
  PROVE  WriterInv'
<1>1. \A w \in Workers : Lanes(w)' = Lanes(w) /\ (Alive(w)' <=> Alive(w)) BY DEF Lanes, Alive
<1>2. Leases' BY <1>1 DEF WriterInv, Leases
<1>3. OneAlive' /\ NoRetired' /\ NoCrash' BY <1>1 DEF WriterInv, OneAlive, NoRetired, NoCrash, Tended
<1>4. ASSUME NEW r \in Runs PROVE Writer(r)'
  BY <1>1 DEF WriterInv, Writer, LiveClaimed, Claimant, Jobs
<1>5. QED BY <1>2, <1>3, <1>4 DEF WriterInv

\* A worker's step for run r, which leaves the other runs and the workers alone.
LEMMA OneRun ==
  ASSUME WriterInv, Typed', NEW r \in Runs, Others(r), UNCHANGED <<worker, plugin, crashes>>,
         Writer(r)', crashes = 0 => Tended(r)', Leases'
  PROVE  WriterInv'
<1>1. ASSUME NEW q \in Runs, q # r PROVE Writer(q)' /\ (Tended(q) => Tended(q)')
  BY <1>1 DEF WriterInv, Others, Writer, Tended, LiveClaimed, Claimant, Jobs, Alive
<1>2. OneAlive' /\ NoRetired' BY DEF WriterInv, OneAlive, NoRetired, Alive
<1>3. NoCrash' BY <1>1 DEF WriterInv, NoCrash
<1>4. QED BY <1>1, <1>2, <1>3 DEF WriterInv

\* With the lanes, the workers, the lease and the claims as they were, so are the leases.
LEMMA LeasesKept ==
  ASSUME Leases, UNCHANGED <<worker, lease, own, plugin>>,
         \A w \in Workers : Lanes(w)' = Lanes(w),
         \A r \in Runs : file'[r].claim => file[r].claim
  PROVE  Leases'
BY DEF Leases, Alive

\* Only Reserve begins and Finish ends a lane; the lease goes with the first and the last.
LEMMA LeasesAtRun ==
  ASSUME NamesDistinct, WriterInv, NEW w \in Workers, NEW r \in Runs, Step(w, r)
  PROVE  Leases'
<1> USE DEF fs, host, watch, writers
<1>1. Typed /\ Leases BY DEF WriterInv
<1>2. UNCHANGED <<worker, plugin>>
  BY DEF Step, Recover, Forget, Recovered, Reserve, Name, Open, Claim, Launch, Record, PollCancel, Observe,
         Tell, Unclaim, Finish
<1>3. CASE Reserve(w, r)
  <2>1. file' = file /\ worker[w] = "up" BY <1>3 DEF Reserve
  <2>2. \A v \in Workers : Alive(v) => v = w
    BY <2>1 DEF Alive, WriterInv, OneAlive, NamesDistinct
  <2>3. /\ Lanes(w)' = Lanes(w) \cup {r}
        /\ \A v \in Workers : v # w => Lanes(v)' = Lanes(v)
    BY <1>1, <1>3 DEF Reserve, Job, Lanes, Typed
  <2>5. lease # "plugin" /\ lease' = w /\ own' = own \cup {w}
    BY <1>1, <1>3, <2>1, <2>2 DEF Reserve, Leased, Leases, NamesDistinct, Typed, Alive
  <2>6. own \subseteq {w} BY <1>1, <2>1, <2>2 DEF Leases, Typed, Alive, NamesDistinct
  <2>7. plugin = "none" BY <1>1, <2>5 DEF Leases
  <2>8. \A v \in Workers : v # w => Lanes(v) = {}
    BY <2>1, <2>2 DEF WriterInv, Writer, Jobs, Lanes
  <2>9. QED
    BY <1>1, <1>2, <2>1, <2>3, <2>5, <2>6, <2>7, <2>8 DEF Leases, NamesDistinct, Alive
<1>4. CASE Finish(w, r)
  <2>1. worker[w] = "up" /\ Lanes(w) # {} /\ lease = w /\ w \in own
    BY <1>1, <1>4 DEF Finish, WriterInv, Writer, Jobs, Lanes, Leases
  <2>2. \A v \in Workers : v # w => v \notin own /\ Lanes(v) = {}
    BY <1>1, <2>1 DEF Leases
  <2>3. /\ Lanes(w)' = Lanes(w) \ {r}
        /\ \A v \in Workers : v # w => Lanes(v)' = Lanes(v)
    BY <1>1, <1>4 DEF Finish, Job, Lanes, Typed
  <2>4. IF Lanes(w) = {r} THEN lease' = None /\ own' = own \ {w} ELSE UNCHANGED <<lease, own>>
    BY <1>4, <2>1 DEF Finish, LastLane
  <2>5. Lanes(w) = {r} \/ Lanes(w)' # {} BY <2>1, <2>3
  <2>6. plugin = "none" BY <1>1, <2>1 DEF Leases, NamesDistinct
  <2>7. QED
    BY <1>1, <1>2, <2>1, <2>2, <2>3, <2>4, <2>5, <2>6 DEF Leases, NamesDistinct, Alive
<1>5. CASE Claim(w, r)
  <2>1. job[w][r] = "opened" /\ UNCHANGED <<lease, own>> BY <1>5 DEF Claim
  <2>2. \A q \in Runs : q # r => file'[q].claim = file[q].claim BY <1>1, <1>5 DEF Claim, Typed
  <2>3. \A v \in Workers : Lanes(v)' = Lanes(v) BY <1>1, <1>5, <2>1 DEF Claim, Job, Lanes, Typed
  <2>4. lease = w BY <1>1, <2>1 DEF Leases, Lanes
  <2>5. plugin = "none" BY <1>1, <2>4 DEF Leases, NamesDistinct
  <2>6. QED BY <1>1, <1>2, <2>1, <2>3, <2>5 DEF Leases, Alive
<1>6. CASE ~Reserve(w, r) /\ ~Claim(w, r) /\ ~Finish(w, r)
  <2>1. UNCHANGED <<lease, own>>
    BY <1>6 DEF Step, Recover, Forget, Recovered, Name, Open, Launch, Record, PollCancel, Observe, Tell,
           Unclaim
  <2>2. \A q \in Runs : file'[q].claim => file[q].claim
    <3> USE <1>1 DEF Typed, FileType, File
    <3>1. CASE Recover(w, r) \/ Tell(w, r)
      <4>1. File(r, "ev", "exit") BY <3>1 DEF Recover, Tell
      <4>2. QED BY <4>1
    <3>2. CASE Recovered(w, r) \/ Unclaim(w, r) BY <3>2 DEF Recovered, Unclaim
    <3>3. CASE \/ Forget(w, r) \/ Name(w, r) \/ Launch(w, r) \/ Record(w, r) \/ PollCancel(w, r)
               \/ Observe(w, r)
      BY <3>3 DEF Forget, Name, Launch, Record, PollCancel, Observe
    <3>4. CASE Open(w, r) BY <3>4 DEF Open
    <3>5. QED BY <1>6, <3>1, <3>2, <3>3, <3>4 DEF Step
  <2>3. \A v \in Workers : Lanes(v)' = Lanes(v)
    <3> DEFINE Moves(a, b) == job[w][r] = a /\ Job(w, r, b)
    <3>1. \/ Moves("none", "recovering") \/ Moves("recovering", "forgetting")
          \/ Moves("forgetting", "none")
          \/ Moves("reserved", "named") \/ Moves("named", "opened")
          \/ Moves("claimed", "spawned") \/ Moves("claimed", "ended")
          \/ Moves("spawned", "recorded") \/ Moves("recorded", "ended")
          \/ Moves("ended", "told") \/ Moves("told", "unclaimed") \/ UNCHANGED job
      BY <1>6 DEF Step, Recover, Orphaned, Forget, Recovered, Name, Open, Launch, Record, PollCancel,
             Observe, Tell, Unclaim
    <3>2. CASE UNCHANGED job BY <3>2 DEF Lanes
    <3>3. CASE \/ Moves("none", "recovering") \/ Moves("recovering", "forgetting")
               \/ Moves("forgetting", "none")
      BY <1>1, <3>3 DEF Lanes, Job, Typed
    <3>4. CASE /\ ~UNCHANGED job /\ ~Moves("none", "recovering")
               /\ ~Moves("recovering", "forgetting") /\ ~Moves("forgetting", "none")
      BY <1>1, <3>1, <3>4 DEF Lanes, Job, Typed
    <3>5. QED BY <3>2, <3>3, <3>4
  <2>4. QED BY <1>1, <1>2, <2>1, <2>2, <2>3, LeasesKept
<1>7. QED BY <1>3, <1>4, <1>5, <1>6

\* What is said of a run's claim, CLI and places holds after the step of its worker.
LEMMA WriterAtRun ==
  ASSUME NamesDistinct, WriterInv, NEW w \in Workers, NEW r \in Runs, Step(w, r)
  PROVE  Writer(r)' /\ (crashes = 0 => Tended(r)')
<1> USE DEF fs, host, watch, writers
<1>1. /\ Typed /\ Writer(r) /\ (crashes = 0 => Tended(r))
      /\ UNCHANGED worker /\ None \notin Workers
  BY DEF WriterInv, NoCrash, NamesDistinct, Step, Recover, Forget, Recovered, Reserve, Name, Open, Claim,
     Launch, Record, PollCancel, Observe, Tell, Unclaim, Finish
\* The other workers are not alive, and nowhere in the run.
<1>2. Alive(w) /\ \A v \in Workers : v # w => job[v][r] = "none"
  <2>1. Alive(w)
    <3>1. job[w][r] # "none" \/ worker[w] \in {"starting", "up"}
      BY DEF Step, Recover, Forget, Recovered, Reserve, Name, Open, Claim, Launch, Record, PollCancel,
             Cancelled, Observe, Tell, Unclaim, Finish
    <3>2. QED BY <1>1, <3>1 DEF Writer, Jobs, Alive
  <2>2. QED BY <2>1 DEF WriterInv, Writer, Jobs, OneAlive
<1>3. \A v \in Workers : v # w => job'[v][r] = "none"
  <2>1. UNCHANGED job \/ \E at \in JobState : Job(w, r, at)
    BY DEF Step, Recover, Forget, Recovered, Reserve, Name, Open, Claim, Launch, Record, PollCancel,
           Observe, Tell, Unclaim, Finish
  <2>2. QED BY <1>1, <1>2, <2>1 DEF Job, Typed
<1> USE DEF Writer, LiveClaimed, Claimant, Jobs, Tended, Alive
<1>4. CASE Recover(w, r)
  <2>1. job[w][r] = "none" /\ job'[w][r] = "recovering"
    BY <1>1, <1>4 DEF Recover, Orphaned, Job, Typed
  <2>2. file'[r].claim = file[r].claim /\ file[r].claim /\ proc'[r] = proc[r]
    <3>1. File(r, "ev", "exit") /\ file[r].claim /\ proc' = proc BY <1>4 DEF Recover, Orphaned
    <3>2. QED BY <1>1, <3>1, ClaimKept DEF Typed
  <2>3. cli'[r] = "live" => cli[r] = "live" /\ ~proc[r].cli
    <3>1. cli' = [cli EXCEPT ![r] = IF cli[r] = "live" /\ proc[r].cli THEN "signalled" ELSE cli[r]]
      BY <1>1, <1>4 DEF Recover, Typed
    <3>2. QED BY <1>1, <3>1 DEF Typed
  <2>4. cli'[r] # "live" BY <1>1, <1>2, <2>1, <2>3
  <2>5. Writer(r)' BY <1>1, <1>2, <1>3, <2>1, <2>2, <2>4, <1>4 DEF Recover, Orphaned
  <2>6. crashes = 0 => Tended(r)' BY <1>1, <1>2, <2>1, <2>2
  <2>7. QED BY <2>5, <2>6
<1>5. CASE Forget(w, r)
  <2>1. job[w][r] = "recovering" /\ job'[w][r] = "forgetting" BY <1>1, <1>5 DEF Forget, Job, Typed
  <2>2. file'[r].claim = file[r].claim /\ proc'[r].host = None /\ ~proc'[r].cli /\ cli'[r] = cli[r]
    BY <1>1, <1>5, <2>1 DEF Forget, NoProc, Typed
  <2>3. Writer(r)' BY <1>1, <1>2, <1>3, <2>1, <2>2
  <2>4. crashes = 0 => Tended(r)' BY <1>1, <1>2, <1>3, <2>1, <2>2
  <2>5. QED BY <2>3, <2>4
<1>6. CASE Recovered(w, r)
  <2>1. job[w][r] = "forgetting" /\ job'[w][r] = "none" BY <1>1, <1>6 DEF Recovered, Job, Typed
  <2>2. ~file'[r].claim /\ proc'[r] = proc[r] /\ cli'[r] = cli[r]
    BY <1>1, <1>6, <2>1 DEF Recovered, File, Typed, FileType
  <2>3. Writer(r)' BY <1>1, <1>2, <1>3, <2>1, <2>2
  <2>4. crashes = 0 => Tended(r)' BY <1>1, <1>2, <1>3, <2>1, <2>2
  <2>5. QED BY <2>3, <2>4
<1>7. CASE Reserve(w, r)
  <2>1. job[w][r] = "none" /\ job'[w][r] = "reserved" BY <1>1, <1>7 DEF Reserve, Job, Typed
  <2>2. worker[w] = "up" /\ file'[r].claim = file[r].claim /\ proc'[r] = proc[r] /\ cli'[r] = cli[r]
    BY <1>1, <1>7, <2>1 DEF Reserve, File, Typed, FileType
  <2>3. Writer(r)' BY <1>1, <1>2, <1>3, <2>1, <2>2
  <2>4. crashes = 0 => Tended(r)' BY <1>1, <1>2, <1>3, <2>1, <2>2
  <2>5. QED BY <2>3, <2>4
<1>8. CASE Name(w, r)
  <2>1. job[w][r] = "reserved" /\ job'[w][r] = "named" BY <1>1, <1>8 DEF Name, Job, Typed
  <2>2. file'[r].claim = file[r].claim /\ proc'[r] = [host |-> w, cli |-> FALSE] /\ cli'[r] = cli[r]
    BY <1>1, <1>8, <2>1 DEF Name, File, Typed, FileType
  <2>3. Writer(r)' BY <1>1, <1>2, <1>3, <2>1, <2>2
  <2>4. crashes = 0 => Tended(r)' BY <1>1, <1>2, <1>3, <2>1, <2>2
  <2>5. QED BY <2>3, <2>4
<1>9. CASE Open(w, r)
  <2>1. job[w][r] = "named" /\ job'[w][r] = "opened" BY <1>1, <1>9 DEF Open, Job, Typed
  <2>2. file'[r].claim = file[r].claim /\ proc'[r] = proc[r] /\ cli'[r] = cli[r]
    BY <1>1, <1>9, <2>1 DEF Open, File, Typed, FileType
  <2>3. Writer(r)' BY <1>1, <1>2, <1>3, <2>1, <2>2
  <2>4. crashes = 0 => Tended(r)' BY <1>1, <1>2, <1>3, <2>1, <2>2
  <2>5. QED BY <2>3, <2>4
<1>10. CASE Claim(w, r)
  <2>1. job[w][r] = "opened" /\ job'[w][r] = "claimed" BY <1>1, <1>10 DEF Claim, Job, Typed
  <2>2. file'[r].claim /\ proc'[r] = proc[r] /\ cli'[r] = cli[r]
    BY <1>1, <1>10, <2>1 DEF Claim, File, Typed, FileType
  <2>3. Writer(r)'
    <3>1. worker[w] = "up" /\ proc[r].host = w BY <1>1, <2>1
    <3>2. cli[r] # "live" BY <1>1, <2>1, <3>1
    <3>3. LiveClaimed(r)' BY <2>2, <3>2
    <3>4. Claimant(r)' BY <1>1, <2>2, <3>1
    <3>5. ASSUME NEW v \in Workers PROVE Jobs(v, r)'
      <4>1. CASE v = w BY <1>1, <1>2, <2>1, <2>2, <3>1, <3>2, <4>1
      <4>2. CASE v # w
        <5>1. worker'[v] # "up" BY <1>1, <1>2, <4>2 DEF WriterInv, OneAlive
        <5>2. job'[v][r] = "none" BY <1>3, <4>2
        <5>3. QED BY <5>1, <5>2
      <4>3. QED BY <4>1, <4>2
    <3>6. QED BY <3>3, <3>4, <3>5
  <2>4. crashes = 0 => Tended(r)' BY <1>1, <1>2, <1>3, <2>1, <2>2
  <2>5. QED BY <2>3, <2>4
<1>11. CASE Launch(w, r)
  <2>1. job[w][r] = "claimed" /\ file'[r].claim = file[r].claim /\ proc'[r] = proc[r]
    BY <1>11 DEF Launch
  <2>2. \/ job'[w][r] = "spawned" /\ cli'[r] = "live"
        \/ job'[w][r] = "ended" /\ cli'[r] = cli[r]
    BY <1>1, <1>11 DEF Launch, Job, Typed
  <2>3. Writer(r)' BY <1>1, <1>2, <1>3, <2>1, <2>2
  <2>4. crashes = 0 => Tended(r)' BY <1>1, <1>2, <1>3, <2>1, <2>2
  <2>5. QED BY <2>3, <2>4
<1>12. CASE Record(w, r)
  <2>1. job[w][r] = "spawned" /\ job'[w][r] = "recorded" BY <1>1, <1>12 DEF Record, Job, Typed
  <2>2. file'[r].claim = file[r].claim /\ proc'[r].host = proc[r].host /\ proc'[r].cli /\ cli'[r] = cli[r]
    BY <1>1, <1>12, <2>1 DEF Record, File, Typed, FileType, ProcType
  <2>3. Writer(r)' BY <1>1, <1>2, <1>3, <2>1, <2>2
  <2>4. crashes = 0 => Tended(r)' BY <1>1, <1>2, <1>3, <2>1, <2>2
  <2>5. QED BY <2>3, <2>4
<1>13. CASE PollCancel(w, r)
  <2>1. job[w][r] = "recorded" /\ job'[w][r] = "recorded" BY <1>1, <1>13 DEF PollCancel, Cancelled, Typed
  <2>2. file'[r].claim = file[r].claim /\ proc'[r] = proc[r] /\ cli[r] # "none" /\ cli'[r] = "signalled"
    BY <1>1, <1>13, <2>1 DEF PollCancel, File, Typed, FileType, Cancelled
  <2>3. Writer(r)' BY <1>1, <1>2, <1>3, <2>1, <2>2
  <2>4. crashes = 0 => Tended(r)' BY <1>1, <1>2, <1>3, <2>1, <2>2
  <2>5. QED BY <2>3, <2>4
<1>14. CASE Observe(w, r)
  <2>1. job[w][r] = "recorded" /\ job'[w][r] = "ended" BY <1>1, <1>14 DEF Observe, Job, Typed
  <2>2. file'[r].claim = file[r].claim /\ proc'[r] = proc[r] /\ cli[r] = "none" /\ cli'[r] = cli[r]
    BY <1>1, <1>14, <2>1 DEF Observe, File, Typed, FileType
  <2>3. Writer(r)' BY <1>1, <1>2, <1>3, <2>1, <2>2
  <2>4. crashes = 0 => Tended(r)' BY <1>1, <1>2, <1>3, <2>1, <2>2
  <2>5. QED BY <2>3, <2>4
<1>15. CASE Tell(w, r)
  <2>1. job[w][r] = "ended" /\ job'[w][r] = "told" BY <1>1, <1>15 DEF Tell, Job, Typed
  <2>2. file'[r].claim = file[r].claim /\ proc'[r] = proc[r] /\ cli'[r] = cli[r]
    BY <1>1, <1>15, <2>1 DEF Tell, File, Typed, FileType
  <2>3. Writer(r)' BY <1>1, <1>2, <1>3, <2>1, <2>2
  <2>4. crashes = 0 => Tended(r)' BY <1>1, <1>2, <1>3, <2>1, <2>2
  <2>5. QED BY <2>3, <2>4
<1>16. CASE Unclaim(w, r)
  <2>1. job[w][r] = "told" /\ job'[w][r] = "unclaimed" BY <1>1, <1>16 DEF Unclaim, Job, Typed
  <2>2. ~file'[r].claim /\ proc'[r] = proc[r] /\ cli'[r] = cli[r]
    BY <1>1, <1>16, <2>1 DEF Unclaim, File, Typed, FileType
  <2>3. Writer(r)' BY <1>1, <1>2, <1>3, <2>1, <2>2
  <2>4. crashes = 0 => Tended(r)' BY <1>1, <1>2, <1>3, <2>1, <2>2
  <2>5. QED BY <2>3, <2>4
<1>17. CASE Finish(w, r)
  <2>1. job[w][r] = "unclaimed" /\ job'[w][r] = "none" BY <1>1, <1>17 DEF Finish, Job, Typed
  <2>2. file'[r].claim = file[r].claim /\ proc'[r].host = None /\ ~proc'[r].cli /\ cli'[r] = cli[r]
    BY <1>1, <1>17, <2>1 DEF Finish, NoProc, File, Typed, FileType
  <2>3. Writer(r)' BY <1>1, <1>2, <1>3, <2>1, <2>2
  <2>4. crashes = 0 => Tended(r)' BY <1>1, <1>2, <1>3, <2>1, <2>2
  <2>5. QED BY <2>3, <2>4
<1>18. QED BY <1>4, <1>5, <1>6, <1>7, <1>8, <1>9, <1>10, <1>11, <1>12, <1>13, <1>14, <1>15, <1>16, <1>17
  DEF Step

LEMMA WriterRunStep ==
  ASSUME NamesDistinct, WriterInv, NEW w \in Workers, NEW r \in Runs, Step(w, r) \/ Refuse(w, r)
  PROVE  WriterInv'
<1> USE DEF fs, host, watch, writers
<1>0. Typed' BY TypedRun DEF Step, WriterInv
<1>1. CASE Step(w, r)
  <2>1. Others(r) BY <1>1, OthersKept DEF WriterInv
  <2>2. UNCHANGED <<worker, plugin, crashes>>
    BY <1>1 DEF Step, Recover, Forget, Recovered, Reserve, Name, Open, Claim, Launch, Record, PollCancel, Observe,
         Tell, Unclaim, Finish
  <2>3. QED BY <1>0, <1>1, <2>1, <2>2, LeasesAtRun, WriterAtRun, OneRun
<1>2. CASE Refuse(w, r)
  <2>1. UNCHANGED <<proc, worker, job, lease, own, plugin, crashes, cli>> BY <1>2 DEF Refuse
  <2>2. \A q \in Runs : file'[q].claim = file[q].claim
    BY <1>2 DEF Refuse, WriterInv, Typed, FileType
  <2>3. QED BY <1>0, <2>1, <2>2, Aside
<1>3. QED BY <1>1, <1>2

LEMMA WriterObserverStep ==
  ASSUME WriterInv, NEW r \in Runs, Submit(r) \/ Observer(r) \/ Stop(r) \/ HandOver(r) \/ CliEnds(r)
  PROVE  WriterInv'
<1> USE DEF Observer, fs, host, watch, writers, WriterInv, Typed, File, FileType
<1>0. Typed' BY TypedObserver
<1>1. UNCHANGED <<proc, worker, job, lease, own, plugin, crashes>>
  BY DEF Submit, See, Offline, Attach, Stop, HandOver, CliEnds
<1>2. ASSUME NEW q \in Runs
      PROVE file'[q].claim = file[q].claim /\ (cli'[q] = cli[q] \/ cli'[q] = "none")
  <2>1. CASE Submit(r) BY <2>1 DEF Submit
  <2>2. CASE See(r) BY <2>2 DEF See
  <2>3. CASE Offline(r) BY <2>3 DEF Offline
  <2>4. CASE Stop(r) BY <2>4 DEF Stop
  <2>5. CASE Attach(r) \/ HandOver(r) BY <2>5 DEF Attach, HandOver
  <2>6. CASE CliEnds(r) BY <2>6 DEF CliEnds
  <2>7. QED BY <2>1, <2>2, <2>3, <2>4, <2>5, <2>6
<1>3. QED BY <1>0, <1>1, <1>2, Aside

LEMMA WriterWorkerStep ==
  ASSUME NamesDistinct, ~Retires, WriterInv, NEW w \in Workers,
         Boot(w) \/ Ready(w) \/ StaleLease(w) \/ Retire(w) \/ Retired(w) \/ Crash(w)
  PROVE  WriterInv'
<1> USE DEF fs, host, watch, writers, WriterInv, Typed, Alive, NamesDistinct
<1>0. Typed' BY TypedWorker
<1>1. CASE Boot(w)
  <2> USE <1>1 DEF Boot
  <2>1. OneAlive' /\ NoRetired' BY DEF OneAlive, NoRetired
  <2>2. Leases' BY DEF Leases, Lanes, Writer, Jobs
  <2>3. NoCrash' BY DEF NoCrash, Tended
  <2>4. ASSUME NEW r \in Runs PROVE Writer(r)' BY DEF Writer, LiveClaimed, Claimant, Jobs
  <2>5. QED BY <1>0, <2>1, <2>2, <2>3, <2>4
<1>2. CASE Ready(w)
  <2> USE <1>2 DEF Ready
  <2>1. OneAlive' /\ NoRetired' BY DEF OneAlive, NoRetired
  <2>2. Leases' BY DEF Leases, Lanes, OneAlive
  <2>3. NoCrash' BY DEF NoCrash, Tended
  <2>4. ASSUME NEW r \in Runs PROVE Writer(r)'
    BY DEF Orphaned, ProcType, OneAlive, Writer, LiveClaimed, Claimant, Jobs
  <2>5. QED BY <1>0, <2>1, <2>2, <2>3, <2>4
<1>3. CASE StaleLease(w)
  <2> USE <1>3 DEF StaleLease, Looping
  <2>1. OneAlive' /\ NoRetired' BY DEF OneAlive, NoRetired
  <2>2. Leases' BY DEF Leases, Lanes
  <2>3. NoCrash' BY DEF NoCrash, Leases
  <2>4. ASSUME NEW r \in Runs PROVE Writer(r)' BY DEF Lanes, Writer, LiveClaimed, Claimant, Jobs
  <2>5. QED BY <1>0, <2>1, <2>2, <2>3, <2>4
<1>4. CASE Retire(w) BY <1>4 DEF Retire
<1>5. CASE Retired(w) BY <1>5 DEF Retired, NoRetired
<1>6. CASE Crash(w)
  <2> USE <1>6 DEF Crash
  <2>1. OneAlive' /\ NoRetired' BY DEF OneAlive, NoRetired
  <2>2. Leases' BY DEF Leases, Lanes
  <2>3. NoCrash' BY DEF NoCrash
  <2>4. ASSUME NEW r \in Runs PROVE Writer(r)'
    BY DEF OneAlive, Writer, LiveClaimed, Claimant, Jobs
  <2>5. QED BY <1>0, <2>1, <2>2, <2>3, <2>4
<1>7. QED BY <1>1, <1>2, <1>3, <1>4, <1>5, <1>6

LEMMA WriterPluginStep ==
  ASSUME NamesDistinct, WriterInv, PluginLease \/ PluginCheck \/ PluginEnd
  PROVE  WriterInv'
<1> USE DEF fs, host, watch, writers, WriterInv
<1>0. Typed' BY TypedPlugin
<1>1. UNCHANGED <<file, proc, worker, job, own, cli, crashes>>
  BY DEF PluginLease, PluginCheck, PluginEnd
<1>2. \A w \in Workers : Lanes(w)' = Lanes(w) /\ (Alive(w)' <=> Alive(w))
  BY <1>1 DEF Lanes, Alive
<1>3. Leases'
  BY <1>1, <1>2 DEF PluginLease, PluginCheck, PluginEnd, Leases, Typed, NamesDistinct
<1>4. QED
  BY <1>0, <1>1, <1>2, <1>3 DEF OneAlive, NoRetired, NoCrash, Tended, Writer, LiveClaimed, Claimant, Jobs

LEMMA WriterNext ==
  ASSUME NamesDistinct, ~Retires
  PROVE  WriterInv /\ [Next]_vars => WriterInv'
<1> SUFFICES ASSUME WriterInv, [Next]_vars PROVE WriterInv'
  OBVIOUS
<1>1. ASSUME NEW r \in Runs, Submit(r) \/ Observer(r) \/ Stop(r) \/ HandOver(r) \/ CliEnds(r)
      PROVE WriterInv'
  BY <1>1, WriterObserverStep
<1>2. ASSUME NEW w \in Workers,
             Boot(w) \/ Ready(w) \/ StaleLease(w) \/ Retire(w) \/ Retired(w) \/ Crash(w)
      PROVE WriterInv'
  BY <1>2, WriterWorkerStep
<1>3. ASSUME NEW w \in Workers, NEW r \in Runs, Step(w, r) \/ Refuse(w, r) PROVE WriterInv'
  BY <1>3, WriterRunStep
<1>4. CASE PluginLease \/ PluginCheck \/ PluginEnd BY <1>4, WriterPluginStep
<1>5. CASE UNCHANGED vars
  BY <1>5, Aside DEF vars, fs, host, watch, writers, WriterInv, Typed
<1>6. QED BY <1>1, <1>2, <1>3, <1>4, <1>5 DEF Next

\* While no worker is retired, no plugin command writes to a workspace beside a CLI that
\* works on, through any crashes and recoveries of the workers and any attempts of a run.
THEOREM NoWriterBesideALiveCli == NamesDistinct /\ ~Retires => (Spec => []NoLiveWriter)
<1> SUFFICES ASSUME NamesDistinct, ~Retires PROVE Spec => []NoLiveWriter
  OBVIOUS
<1>1. Init => WriterInv BY WriterInit
<1>2. WriterInv /\ [Next]_vars => WriterInv' BY WriterNext
<1>3. WriterInv => NoLiveWriter BY WriterInvImplies
<1>4. QED BY <1>1, <1>2, <1>3, PTL DEF Spec

\* Until a worker dies not even a signalled CLI writes beside a plugin command: the lease
\* is held until the last run of the worker is finished.
THEOREM WorkspaceHasOneWriter == NamesDistinct /\ ~Retires => (Spec => [](crashes = 0 => OneWriter))
<1> SUFFICES ASSUME NamesDistinct, ~Retires PROVE Spec => [](crashes = 0 => OneWriter)
  OBVIOUS
<1>1. Init => WriterInv BY WriterInit
<1>2. WriterInv /\ [Next]_vars => WriterInv' BY WriterNext
<1>3. WriterInv => (crashes = 0 => OneWriter) BY WriterInvImplies
<1>4. QED BY <1>1, <1>2, <1>3, PTL DEF Spec
===============================================================================
