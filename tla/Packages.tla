------------------------------ MODULE Packages ------------------------------
(***************************************************************************)
(* The files of a plugin registry and the requests that change them        *)
(* (plugins/manager.mjs): the catalog and the folder bindings of           *)
(* config.json, the records and aliases of registry.json, and of each      *)
(* plugin its snapshots, its secrets, its generated compose.json and its   *)
(* containers.  A request reads some of them before it holds registry.lock *)
(* and writes them one after the other under it; it may die in between.    *)
(*                                                                         *)
(* A release stands for the bytes of a package, so that its revision, the  *)
(* digest of them, is the release itself.  The calls that hold an          *)
(* operation up are the business of Plugins.                               *)
(* A definition commented "Mutant of D" is D with a plausible bug.         *)
(***************************************************************************)
EXTENDS Naturals, FiniteSets

CONSTANTS
  Ids,          \* the plugins
  Procs,        \* the processes that run the manager
  Package,      \* release -> its descriptor: id, aliases, secrets, uses and targets
  Pinned,       \* plugin -> the release its checkout shows and the catalog pins at first
  Reserved,     \* the aliases no package may declare
  Folders,
  MaxRequests,  \* bound: requests to the manager
  MaxEdits,     \* bound: changes of a checkout or of the host's grants
  MaxCrashes,   \* bound: processes that die
  None

Releases == DOMAIN Package
Of(p) == {r \in Releases : Package[r].id = p}
Aliases == UNION {Package[r].aliases : r \in Releases}
Secrets == UNION {Package[r].secrets : r \in Releases}

\* What a compose.json of a release is generated from.
Descriptions(r) ==
  [release : {r}, folders : SUBSET Folders, secrets : [Package[r].secrets -> Nat]]

ASSUME PinnedAssumption == Pinned \in [Ids -> Releases]
ASSUME NoneAssumption ==
  None \notin Ids \cup Releases \cup Procs /\ \A r \in Releases : None \notin Descriptions(r)

VARIABLES
  checkout,  \* plugin -> the release its source directory shows
  granted,   \* plugin -> the folders the host's configuration lets it mount
  catalog,   \* config.json: plugin -> the release pinned
  folders,   \* config.json: plugin -> the folders bound to it
  records,   \* registry.json: plugin -> the release installed, or None
  commands,  \* registry.json: alias -> the plugin it calls, or None
  packages,  \* release -> the release its directory really holds, or None
  images,    \* release -> the release its images were built from, or None
  secrets,   \* plugin -> secret -> the draw that made it, or 0
  compose,   \* plugin -> what its compose.json was generated from, or None
  up,        \* plugin -> the compose.json its containers were created from, or None
  proc,      \* process -> its request
  lock,      \* the process that created registry.lock, or None
  requests, edits, crashes

config == <<catalog, folders>>
registry == <<records, commands>>
files == <<packages, images, secrets, compose>>
owners == <<checkout, granted>>
bounds == <<requests, edits, crashes>>
vars == <<owners, config, registry, files, up, proc, lock, bounds>>

\* What a package must declare to be accepted.
Valid(r) ==
  /\ Package[r].aliases \cap Reserved = {}
  /\ Package[r].uses \subseteq Package[r].secrets
\* Reading a package yields its bytes, and fails on one that is not valid.
Snapshot(r) == IF Valid(r) THEN r ELSE None

Idle == [kind |-> None, id |-> None, at |-> "idle", release |-> None, folder |-> None, bound |-> {}]
Init ==
  /\ checkout = Pinned
  /\ granted = [p \in Ids |-> Folders] /\ catalog = checkout /\ folders = [p \in Ids |-> {}]
  /\ records = [p \in Ids |-> None] /\ commands = [a \in Aliases |-> None]
  /\ packages = [r \in Releases |-> None] /\ images = packages
  /\ secrets = [p \in Ids |-> [s \in Secrets |-> 0]] /\ compose = records /\ up = records
  /\ proc = [w \in Procs |-> Idle] /\ lock = None
  /\ requests = 0 /\ edits = 0 /\ crashes = 0

\* Each folder is mounted below a volume that its release declares.
Mountable(r, fs) == fs \subseteq Package[r].targets
Generated(p, r, fs) ==
  [release |-> r, folders |-> fs, secrets |-> [s \in Package[r].secrets |-> secrets[p][s]]]

(***************************************************************************)
(* A request, up to the lock                                               *)
(***************************************************************************)
At(w, k, st) == proc[w].kind \in k /\ proc[w].at = st
Goes(w, st) == proc' = [proc EXCEPT ![w].at = st]
Ends(w) == proc' = [proc EXCEPT ![w] = Idle] /\ lock' = None
Lives == {"start", "stop", "uninstall", "status"}
Bindings == {"bind", "unbind"}
OnInstalled == Lives \cup Bindings

Asks(w, req) ==
  /\ proc[w] = Idle /\ requests < MaxRequests /\ requests' = requests + 1
  /\ proc' = [proc EXCEPT ![w] = [req EXCEPT !.at = "asked"]]
  /\ UNCHANGED <<owners, config, registry, files, up, lock, edits, crashes>>
\* The checkout is read and is the pinned revision; config.json has been read, too.
AskInstall(w, p) ==
  /\ Snapshot(checkout[p]) = catalog[p]
  /\ Asks(w, [Idle EXCEPT !.kind = "install", !.id = p, !.release = checkout[p], !.bound = folders[p]])
\* The owner pins the revision that was inspected (again: nothing would change).
AskPin(w, p) ==
  /\ Snapshot(checkout[p]) \notin {None, catalog[p]}
  /\ Asks(w, [Idle EXCEPT !.kind = "pin", !.id = p, !.release = checkout[p]])
AskInstalled(w, k, p, f) ==
  /\ records[p] # None /\ (f # None <=> k \in Bindings)
  /\ Asks(w, [Idle EXCEPT !.kind = k, !.id = p, !.release = records[p], !.folder = f])
Lock(w) ==
  /\ proc[w].at = "asked" /\ lock = None /\ lock' = w /\ Goes(w, "locked")
  /\ UNCHANGED <<owners, config, registry, files, up, bounds>>
Busy(w) ==
  /\ proc[w].at = "asked" /\ lock # None /\ proc' = [proc EXCEPT ![w] = Idle]
  /\ UNCHANGED <<owners, config, registry, files, up, lock, bounds>>
Pin(w) ==
  /\ At(w, {"pin"}, "locked") /\ catalog' = [catalog EXCEPT ![proc[w].id] = proc[w].release] /\ Ends(w)
  /\ UNCHANGED <<owners, folders, registry, files, up, bounds>>

(***************************************************************************)
(* install                                                                 *)
(***************************************************************************)
Declared(w) == Package[proc[w].release].aliases
Collides(w) == \E a \in Declared(w) : commands[a] # None
\* It is installed already, in whatever release, or an alias is taken.
Declined(w) ==
  /\ At(w, {"install"}, "locked") /\ (records[proc[w].id] # None \/ Collides(w)) /\ Ends(w)
  /\ UNCHANGED <<owners, config, registry, files, up, bounds>>
\* The directory is written beside its place from what the snapshot read, and
\* renamed; one that an interrupted install left is never replaced.
\* Mutant of Copied: the files are read from the checkout again.
CopiedAgain(w) == checkout[proc[w].id]
Copied(w) == proc[w].release
Stage(w) ==
  LET r == proc[w].release IN
  /\ At(w, {"install"}, "locked") /\ records[proc[w].id] = None /\ ~Collides(w)
  /\ packages' = [packages EXCEPT ![r] = IF @ = None THEN Copied(w) ELSE @]
  /\ IF packages[r] \in {None, r} THEN Goes(w, "staged") /\ UNCHANGED lock ELSE Ends(w)
  /\ UNCHANGED <<owners, config, registry, images, secrets, compose, up, bounds>>
Drawn(w, s) == secrets[proc[w].id][s] = 0
Secret(w) ==
  /\ At(w, {"install"}, "staged")
  /\ secrets' = [secrets EXCEPT ![proc[w].id] =
       [s \in Secrets |-> IF s \in Package[proc[w].release].secrets /\ Drawn(w, s) THEN requests ELSE @[s]]]
  /\ Goes(w, "secret") /\ UNCHANGED <<owners, config, registry, packages, images, compose, up, lock, bounds>>
\* Bindings an earlier installation left may not fit this release.
Describe(w) ==
  LET p == proc[w].id  r == proc[w].release IN
  /\ At(w, {"install"}, "secret")
  /\ IF Mountable(r, proc[w].bound)
     THEN /\ compose' = [compose EXCEPT ![p] = Generated(p, r, proc[w].bound)]
          /\ Goes(w, "described") /\ UNCHANGED lock
     ELSE Ends(w) /\ UNCHANGED compose
  /\ UNCHANGED <<owners, config, registry, packages, images, secrets, up, bounds>>
Build(w) ==
  LET r == proc[w].release IN
  /\ At(w, {"install"}, "described") /\ images' = [images EXCEPT ![r] = packages[r]] /\ Goes(w, "built")
  /\ UNCHANGED <<owners, config, registry, packages, secrets, compose, up, lock, bounds>>
Register(w) ==
  /\ At(w, {"install"}, "built") /\ records' = [records EXCEPT ![proc[w].id] = proc[w].release]
  /\ commands' = [a \in Aliases |-> IF a \in Declared(w) THEN proc[w].id ELSE commands[a]]
  /\ Ends(w) /\ UNCHANGED <<owners, config, files, up, bounds>>

(***************************************************************************)
(* Requests about an installed plugin                                      *)
(***************************************************************************)
Changed(w) == records[proc[w].id] # proc[w].release
\* The folders bound once the request has been served.
Wanted(w) ==
  LET p == proc[w].id IN
  CASE proc[w].kind = "bind" -> folders[p] \cup {proc[w].folder}
    [] proc[w].kind = "unbind" -> folders[p] \ {proc[w].folder}
    [] OTHER -> folders[p]
\* The host's roots for this agent's plugin cover them, and they can be mounted.
Permitted(w) == Wanted(w) \subseteq granted[proc[w].id] /\ Mountable(proc[w].release, Wanted(w))
Running(w) == up[proc[w].id] # None
\* The plugin changed since the request read its record; its folders are not granted
\* any more, or not mountable; or it runs while its bindings are to change.
Stale(w) ==
  /\ At(w, OnInstalled, "locked")
  /\ Changed(w) \/ ~Permitted(w) \/ (proc[w].kind \in Bindings /\ Running(w))
  /\ Ends(w) /\ UNCHANGED <<owners, config, registry, files, up, bounds>>
\* A change of bindings writes config.json before compose.json.
Bind(w) ==
  /\ At(w, Bindings, "locked") /\ ~Changed(w) /\ Permitted(w) /\ ~Running(w)
  /\ folders' = [folders EXCEPT ![proc[w].id] = Wanted(w)] /\ Goes(w, "bound")
  /\ UNCHANGED <<owners, catalog, registry, files, up, lock, bounds>>
\* compose.json is generated from the secrets and the bindings of now before Docker
\* is asked for anything.
Refreshed(w) == Generated(proc[w].id, proc[w].release, folders[proc[w].id])
Refresh(w) ==
  /\ \/ At(w, Bindings, "bound")
     \/ At(w, Lives, "locked") /\ ~Changed(w) /\ Permitted(w)
  /\ compose' = [compose EXCEPT ![proc[w].id] = Refreshed(w)]
  /\ IF proc[w].kind \in Bindings \cup {"status"} THEN Ends(w) ELSE Goes(w, "fresh") /\ UNCHANGED lock
  /\ UNCHANGED <<owners, config, registry, packages, images, secrets, up, bounds>>
\* docker compose up, stop or down.
Docker(w) ==
  LET p == proc[w].id IN
  /\ At(w, Lives, "fresh") /\ up' = [up EXCEPT ![p] = IF proc[w].kind = "start" THEN compose[p] ELSE None]
  /\ IF proc[w].kind = "uninstall" THEN Goes(w, "down") /\ UNCHANGED lock ELSE Ends(w)
  /\ UNCHANGED <<owners, config, registry, files, bounds>>
\* The bindings, the secrets and the data of the plugin stay.
Forgotten(w, a) == commands[a] = proc[w].id
Forget(w) ==
  /\ At(w, {"uninstall"}, "down") /\ records' = [records EXCEPT ![proc[w].id] = None]
  /\ commands' = [a \in Aliases |-> IF Forgotten(w, a) THEN None ELSE commands[a]]
  /\ Ends(w) /\ UNCHANGED <<owners, config, files, up, bounds>>

(***************************************************************************)
(* Failures, and what changes around the manager                           *)
(***************************************************************************)
\* A build or Docker fails.
Fails(w) ==
  /\ proc[w].at \in {"described", "fresh"} /\ Ends(w)
  /\ UNCHANGED <<owners, config, registry, files, up, bounds>>
\* A process dies; one that holds the lock leaves it.
Dies(w) ==
  /\ proc[w].at \notin {"idle", "asked", "dead"} /\ crashes < MaxCrashes /\ crashes' = crashes + 1
  /\ Goes(w, "dead") /\ UNCHANGED <<owners, config, registry, files, up, lock, requests, edits>>
\* The owner has verified that it is gone, and removes its lock.
Inspected(w) ==
  /\ proc[w].at = "dead" /\ Ends(w)
  /\ UNCHANGED <<owners, config, registry, files, up, bounds>>
Edit(p) ==
  /\ edits < MaxEdits /\ edits' = edits + 1
  /\ \/ \E r \in Of(p) \ {checkout[p]} : checkout' = [checkout EXCEPT ![p] = r] /\ UNCHANGED granted
     \/ \E f \in Folders : /\ UNCHANGED checkout
          /\ granted' = [granted EXCEPT ![p] = IF f \in @ THEN @ \ {f} ELSE @ \cup {f}]
  /\ UNCHANGED <<config, registry, files, up, proc, lock, requests, crashes>>

Next ==
  \/ \E w \in Procs :
       \/ \E p \in Ids : \/ AskInstall(w, p) \/ AskPin(w, p)
                         \/ \E k \in OnInstalled, f \in Folders \cup {None} : AskInstalled(w, k, p, f)
       \/ Lock(w) \/ Busy(w) \/ Pin(w)
       \/ Declined(w) \/ Stage(w) \/ Secret(w) \/ Describe(w) \/ Build(w) \/ Register(w)
       \/ Stale(w) \/ Bind(w) \/ Refresh(w) \/ Docker(w) \/ Forget(w)
       \/ Fails(w) \/ Dies(w) \/ Inspected(w)
  \/ \E p \in Ids : Edit(p)
Spec == Init /\ [][Next]_vars

(***************************************************************************)
(* Properties                                                              *)
(***************************************************************************)
\* The registry stays readable: an alias calls an installed plugin that declares it,
\* and every alias of an installed plugin calls that plugin.
AliasesAreOwned ==
  \A a \in Aliases, p \in Ids :
    commands[a] = p <=> records[p] # None /\ a \in Package[records[p]].aliases
\* What is installed is what was reviewed: its directory holds the release its record
\* names, its images were built from it, and it has its compose.json and its secrets,
\* wherever an earlier installation died.
InstalledIsReviewed ==
  \A p \in Ids, r \in Releases : records[p] = r =>
    /\ packages[r] = r /\ images[r] = r /\ compose[p] # None
    /\ \A s \in Package[r].secrets : secrets[p][s] # 0
\* Services run the release that is installed, over the folders bound to it now and
\* with the secrets it was given, although compose.json may be stale for a while.
RunsAsBound ==
  \A p \in Ids : up[p] # None => records[p] # None /\ up[p] = Generated(p, records[p], folders[p])
\* "Secrets persist privately across reinstall."
SecretsPersist ==
  [][\A p \in Ids, s \in Secrets : secrets[p][s] # 0 => secrets'[p][s] = secrets[p][s]]_vars
\* The registry is sound: its aliases belong to what is installed, what is installed was
\* reviewed, what runs is bound so, and secrets outlive the releases that use them.
RegistryIsSound == [](AliasesAreOwned /\ InstalledIsReviewed /\ RunsAsBound) /\ SecretsPersist
==============================================================================
