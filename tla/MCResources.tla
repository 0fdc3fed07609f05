----------------------------- MODULE MCResources -----------------------------
(***************************************************************************)
(* What work uses: the setups a run tries one after the other and their    *)
(* logins, the plugins, and the workspace that plugin commands write to    *)
(* beside the host workers' runs.  The three share no state here: a        *)
(* behaviour is one of one of them, its part, while the others stay as     *)
(* they start, and the run explores the union of their state graphs.       *)
(***************************************************************************)
EXTENDS Packages, Sequences, TLC
CONSTANTS t1, t2, c, a1, a2, lib, mail, lib1, lib2, mail1, mail2, read, write,
  status, key, token, notes

\* Setups
CONSTANTS Timed, Present, Chain, Group, ScopeOf, Slots, Rejections, MaxFailures, MaxAttempts
\* HostExecutor
CONSTANTS Runs, Scheduled, Workers, MaxCommands

\* a and a2 are two choices of one login; b is another login.
MCChain == [r \in {t1, t2, c} |-> IF r = c THEN <<"a", "a2">> ELSE <<"a", "b">>]
MCGroup == [r \in {t1, t2, c} |-> IF r = c THEN 1 ELSE 2]
MCScopeOf == [p \in {"a", "b", "a2"} |-> IF p = "b" THEN "B" ELSE "A"]
MCRejections ==
  [cat : {"quota"}, reset : {0, 1}]
  \cup [cat : {"credits-required", "login-unavailable", "provider-rejected", "access-denied"},
         reset : {None}]

\* A second release of the library adds an alias, which the mail plugin has, too, and a
\* secret, and no longer takes the folder; the second one of mail is not valid.
Descriptor(i, aliases, all, uses, targets) ==
  [id |-> i, aliases |-> aliases, secrets |-> all, uses |-> uses, targets |-> targets]
MCPackage == [r \in {lib1, lib2, mail1, mail2} |->
  CASE r = lib1  -> Descriptor(lib, {read}, {key}, {key}, {notes})
    [] r = lib2  -> Descriptor(lib, {read, write}, {key, token}, {token}, {})
    [] r = mail1 -> Descriptor(mail, {write}, {}, {}, {notes})
    [] r = mail2 -> Descriptor(mail, {status}, {}, {}, {})]
MCPinned == (lib :> lib1) @@ (mail :> mail1)

VARIABLES
  part,
  \* Setups
  health, worked, run, startLock, launched,
  \* HostExecutor
  file, process, worker, workerLock, lane, cli, client, check, stopped, lease, own, plugin,
  workerCrashes, handoffs, pluginCommands, attempted

\* Two scheduled runs, two of the host executor, and two processes of the manager.
Symmetric == Permutations({t1, t2}) \cup Permutations(Scheduled) \cup Permutations({a1, a2})

setups == <<health, worked, run, startLock, launched>>
hosts == <<file, process, worker, workerLock, lane, cli, client, check, stopped, lease, own, plugin,
           workerCrashes, handoffs, pluginCommands, attempted>>

Q == INSTANCE Setups WITH lock <- startLock
Choices == DOMAIN ScopeOf
\* setup-fallback.ts, StartupCategory.
Categories == {"cli-unavailable", "login-unavailable", "quota", "credits-required",
               "provider-rejected", "access-denied"}
\* A run has its setups saved with it, the first group is of it, and a rejection is of
\* any category.
ASSUME SetupsAssumption ==
  /\ Timed \cap Present = {}
  /\ Chain \in [Timed \cup Present -> Seq(Choices) \ {<<>>}]
  /\ \A r \in Timed \cup Present : Group[r] \in 1 .. Len(Chain[r])
  /\ Rejections \subseteq [cat : Categories, reset : Nat \cup {None}]
  /\ MaxFailures \in Nat
  /\ None \notin Nat \cup Choices \cup Timed \cup Present
\* The names a lease can hold are distinct.
ASSUME HolderAssumption == None \notin Workers /\ "plugin" \notin Workers \cup {None}
W == INSTANCE HostExecutor WITH
       MaxCrashes <- 0, MaxHandoffs <- 0, Retires <- FALSE, Attempts <- 1,
       proc <- process, lock <- workerLock, job <- lane, crashes <- workerCrashes,
       commands <- pluginCommands, tried <- attempted

ResourcesInit ==
  /\ part \in {"setups", "writers", "registry"}
  /\ Init /\ Q!Init /\ W!Init
  /\ part # "setups" => health = [s \in Q!Scopes |-> Q!Unknown]
ResourcesNext ==
  \/ part = "setups"   /\ Q!Next /\ UNCHANGED <<part, vars, hosts>>
  \/ part = "writers"  /\ W!Next /\ UNCHANGED <<part, vars, setups>>
  \/ part = "registry" /\ Next   /\ UNCHANGED <<part, setups, hosts>>
ResourcesSpec == ResourcesInit /\ [][ResourcesNext]_<<part, vars, setups, hosts>>

\* Setups: no login is tried twice, and what is known of one is not forgotten.
LoginsAreSpared == Q!LoginsAreSpared
ResetSurvives == Q!ResetSurvives
\* Host executor: no plugin command writes to a workspace beside a run's CLI.
OneWriter == W!OneWriter
=============================================================================
