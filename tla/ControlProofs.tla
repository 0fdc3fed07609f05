---------------------------- MODULE ControlProofs ----------------------------
(***************************************************************************)
(* Theorems about what the control state and its grants decide, as         *)
(* MCControl composes it.                                                  *)
(*                                                                         *)
(* Pairing and authority: what revocation and the locks of the control     *)
(* state guarantee, for any accounts, applications, administrators'        *)
(* commands and admitted work.                                             *)
(*                                                                         *)
(* Tasks, for any number of grants, events, owners, sources and restarts:  *)
(* a task's file is what survives a restart, so whatever must not be done  *)
(* twice is in it before it is tried.  GrantInv says what the file of a    *)
(* task says of what was done for it (Filed), what the call under way may  *)
(* rely on until it goes on (Held), and that the contact is claimed by one *)
(* task at a time (Sole), which is why the watch a revoked task removes is *)
(* no other's.                                                             *)
(***************************************************************************)
EXTENDS MCControl, TLAPS

(***************************************************************************)
(* Pairing and authority                                                   *)
(***************************************************************************)
Authorities == [id : Users \cup OwnerIds, gen : Nat]
Owners == [id : Users \cup OwnerIds, gen : Nat, chat : Users \cup {None}, link : Nat \cup {None}]
Eras == [revoked : Nat, linked : Nat]
Requests == [user : Users, token : {None}]
            \cup [user : Nat, token : {"token"}, owner : Authorities]
Bindings == [app : Apps, bid : Nat, cred : Apps \cup {None}, owner : Authorities,
             share : BOOLEAN, launch : BOOLEAN]
Called == [pc : {"called"}, kind : Kinds, app : Apps, cred : Apps \cup {None},
           owner : Authorities]
Holding == [pc : {"locked", "checked"}, call : Called, list : SUBSET Bindings]
Submits == [pc : {"authenticated"}, bid : Nat, req : {1}, era : Eras]
           \cup [pc : {"found", "checked"}, bid : Nat, req : {1}, era : Eras, owner : Authorities]
Works == [bid : Nat \cup {None}, req : {1, None}, owner : Authorities, chat : Users \cup {None},
          link : Nat \cup {None}, era : Eras, status : {"queued", "running", "ended"}]
Types ==
  /\ owner \in {None} \cup Owners
  /\ pending \subseteq Requests
  /\ bindings \subseteq Bindings
  /\ admin \in [Admins -> {Idle} \cup Called \cup Holding]
  /\ claim \in {Idle} \cup [pc : {"claiming"}, user : Users, owner : Owners]
  /\ submit \in {Idle} \cup Submits
  /\ runs \subseteq Works
  /\ serial \in Nat /\ eras \in Eras

\* Nothing moves the owner while a claim is under way.
ClaimInv == claim.pc = "claiming" => lock = "claim" /\ owner # None /\ claim.owner = owner

\* A command that holds the bindings' lock has read what they are.
BinderInv == \A a \in Admins : admin[a].pc \in {"locked", "checked"} =>
                                 binderLock = a /\ admin[a].list = bindings

\* No generation and no binding is of a number that is yet to be drawn.
Drawn(o) == o.gen <= serial
SerialInv ==
  /\ owner # None => Drawn(owner)
  /\ \A b \in bindings : Drawn(b.owner) /\ b.bid <= serial
  /\ \A a \in Admins : /\ admin[a].pc = "called" => Drawn(admin[a].owner)
                       /\ admin[a].pc \in {"locked", "checked"} => Drawn(admin[a].call.owner)
  /\ submit.pc # "idle" => submit.bid <= serial
  /\ submit.pc \in {"found", "checked"} => Drawn(submit.owner)
  /\ \A r \in runs : Drawn(r.owner)

\* What is held for the owner of this moment was asked for since the last revocation.
Current(a, era) == Same(a) => era.revoked = eras.revoked
EraInv ==
  /\ submit.pc = "authenticated" =>
       \A b \in bindings : b.bid = submit.bid => Current(b.owner, submit.era)
  /\ submit.pc \in {"found", "checked"} => Current(submit.owner, submit.era)
  /\ \A r \in runs : Current(r.owner, r.era)

\* The link of this moment is the last one made, and a chat's run is of the link that
\* was the last one when the run was made.
LinkInv ==
  /\ Linked => owner.link \in Nat /\ owner.link + 1 = eras.linked
  /\ \A r \in runs : r.chat # None => r.link \in Nat /\ r.link + 1 = r.era.linked

OwnerInv == Types /\ ClaimInv /\ BinderInv /\ SerialInv /\ EraInv /\ LinkInv

USE NoneAssumption

(***************************************************************************)
(* Steps                                                                   *)
(***************************************************************************)
\* taskLaunch changes one field of a binding.
LEMMA Relaunched ==
  ASSUME NEW o \in Bindings
  PROVE  /\ [o EXCEPT !.launch = TRUE] \in Bindings
         /\ [o EXCEPT !.launch = TRUE].bid = o.bid
         /\ [o EXCEPT !.launch = TRUE].owner = o.owner
<1>1. ASSUME NEW v \in BOOLEAN
      PROVE  /\ [o EXCEPT !.launch = v] \in Bindings
             /\ [o EXCEPT !.launch = v].bid = o.bid
             /\ [o EXCEPT !.launch = v].owner = o.owner
  BY DEF Bindings
<1> QED
  BY <1>1, Zenon

\* A number of an era grows by one.
LEMMA EraGrows ==
  ASSUME eras \in Eras
  PROVE  /\ Era("linked") => eras' = [revoked |-> eras.revoked, linked |-> eras.linked + 1]
         /\ Era("revoked") => eras' = [revoked |-> eras.revoked + 1, linked |-> eras.linked]
  BY DEF Era, Eras

\* The owner's identity and generation are another's only after a revocation.
LEMMA OwnerStep ==
  ASSUME OwnerInv, [Next]_vars
  PROVE  owner # None /\ owner' # None => Authority(owner') = Authority(owner)
<1> SUFFICES ASSUME owner # None, owner' # None PROVE Authority(owner') = Authority(owner)
  OBVIOUS
<1> USE DEF OwnerInv, Types, Owners, Authority
<1>1. CASE UNCHANGED owner
  BY <1>1
<1>2. CASE Unlink
  BY <1>2 DEF Unlink
<1>3. ASSUME NEW r \in pending, Approve(r) PROVE Authority(owner') = Authority(owner)
  BY <1>3 DEF Approve
<1>4. CASE ClaimEnd
  BY <1>4 DEF ClaimEnd, ClaimInv
<1> QED
  BY <1>1, <1>2, <1>3, <1>4 DEF Next, vars, control, binding, work, Expire, ClaimRefused,
    ClaimBegin, RequestPairing, Bootstrap, RegisterOwner, Revoke, CreateLink, Authenticate,
    BindCall, BindLock, BindBusy, BindCheck, BindRefused, BindWrite, TelegramAdmit, Lookup,
    SubmitCheck, SubmitCreate, StartRefused, Start, End

\* Pairing: requests, approval, links and revocation.
LEMMA PairingStep ==
  ASSUME OwnerInv,
         \/ \E r \in pending : Expire(r) \/ Approve(r) \/ ClaimRefused(r)
         \/ \E r \in pending, u \in Users : ClaimBegin(r, u)
         \/ \E u \in Users : RequestPairing(u) \/ Bootstrap(u)
         \/ \E id \in OwnerIds : RegisterOwner(id)
         \/ Unlink \/ Revoke \/ ClaimEnd
         \/ \E b \in bindings : CreateLink(b)
  PROVE  OwnerInv'
<1> USE DEF OwnerInv, Types, ClaimInv, BinderInv, SerialInv, EraInv, LinkInv, Drawn, Current,
            Same, Authority, Linked, Idle, Free, control, binding, work, Owners, Authorities,
            Eras, Requests, Bindings, Called, Holding, Submits, Works
<1> DEFINE Goal == OwnerInv'
<1> SUFFICES Goal
  OBVIOUS
<1> HIDE DEF Goal
<1>1. ASSUME NEW r \in pending, Expire(r) PROVE Goal
  BY <1>1 DEF Expire, Goal
<1>2. ASSUME NEW r \in pending, Approve(r) PROVE Goal
  BY <1>2, EraGrows DEF Approve, Draw, Goal
<1>3. ASSUME NEW r \in pending, ClaimRefused(r) PROVE Goal
  BY <1>3 DEF ClaimRefused, Goal
<1>4. ASSUME NEW r \in pending, NEW u \in Users, ClaimBegin(r, u) PROVE Goal
  BY <1>4 DEF ClaimBegin, Goal
<1>5. ASSUME NEW u \in Users, RequestPairing(u) PROVE Goal
  BY <1>5 DEF RequestPairing, Goal
<1>6. ASSUME NEW u \in Users, Bootstrap(u) PROVE Goal
  BY <1>6, EraGrows DEF Bootstrap, Draw, Goal
<1>7. ASSUME NEW id \in OwnerIds, RegisterOwner(id) PROVE Goal
  BY <1>7 DEF RegisterOwner, Draw, Goal
<1>8. CASE Unlink
  <2>1. owner' = [owner EXCEPT !.chat = None, !.link = None] /\ owner' \in Owners /\ owner # None
    BY <1>8, EraGrows DEF Unlink
  <2>2. eras' \in Eras /\ eras'.revoked = eras.revoked
    BY <1>8, EraGrows DEF Unlink
  <2>3. /\ lock = None /\ owner'.id = owner.id /\ owner'.gen = owner.gen /\ owner'.chat = None
        /\ pending' = {} /\ UNCHANGED <<lock, bindings, admin, claim, submit, runs, serial>>
    BY <1>8, <2>1 DEF Unlink
  <2>4. Types'
    BY <2>1, <2>2, <2>3
  <2>5. ClaimInv' /\ BinderInv' /\ SerialInv'
    BY <1>8, <2>1, <2>3 DEF Unlink
  <2>6. EraInv' /\ LinkInv'
    BY <2>1, <2>2, <2>3
  <2> QED
    BY <2>4, <2>5, <2>6 DEF Goal
<1>9. CASE Revoke
  BY <1>9, EraGrows DEF Revoke, Goal
<1>10. CASE ClaimEnd
  <2>1. claim.pc = "claiming" /\ claim.user \in Users /\ claim.owner = owner /\ owner \in Owners
    BY <1>10 DEF ClaimEnd
  <2>2. /\ owner' = [owner EXCEPT !.chat = claim.user, !.link = eras.linked]
        /\ eras' = [revoked |-> eras.revoked, linked |-> eras.linked + 1]
        /\ lock' = None /\ claim' = Idle /\ pending' = {}
        /\ UNCHANGED <<bindings, binderLock, admin, submit, runs, serial>>
    BY <1>10, <2>1, EraGrows DEF ClaimEnd
  <2>3. /\ eras' \in Eras /\ eras.linked \in Nat
        /\ owner'.id = owner.id /\ owner'.gen = owner.gen /\ owner'.link = eras.linked
    BY <2>1, <2>2
  <2>4. owner' \in Owners
    BY <2>1, <2>2, <2>3
  <2>5. Types' /\ ClaimInv' /\ BinderInv' /\ SerialInv'
    BY <2>1, <2>2, <2>3, <2>4
  <2>6. EraInv' /\ LinkInv'
    BY <2>1, <2>2, <2>3
  <2> QED
    BY <2>5, <2>6 DEF Goal
<1>11. ASSUME NEW b \in bindings, CreateLink(b) PROVE Goal
  BY <1>11 DEF CreateLink, Goal
<1> QED
  BY <1>1, <1>2, <1>3, <1>4, <1>5, <1>6, <1>7, <1>8, <1>9, <1>10, <1>11

\* An administrator's command on a binding.
LEMMA BindingStep ==
  ASSUME OwnerInv,
         \E a \in Admins :
           \/ \E k \in Kinds, app \in Apps : \E c \in Tokens(k, app) : BindCall(a, k, app, c)
           \/ BindLock(a) \/ BindBusy(a) \/ BindCheck(a) \/ BindRefused(a) \/ BindWrite(a)
  PROVE  OwnerInv'
<1> USE DEF OwnerInv, Types, ClaimInv, BinderInv, SerialInv, EraInv, LinkInv, Drawn, Current,
            Same, Authority, Linked, Idle, Free, control, binding, work, Owners, Authorities,
            Eras, Requests, Bindings, Called, Holding, Submits, Works
<1> DEFINE Goal == OwnerInv'
<1> SUFFICES Goal
  OBVIOUS
<1> HIDE DEF Goal
<1>1. ASSUME NEW a \in Admins, NEW k \in Kinds, NEW app \in Apps, NEW c \in Tokens(k, app),
             BindCall(a, k, app, c) PROVE Goal
  BY <1>1 DEF BindCall, Tokens, Call, AdminStep, Goal
<1>2. ASSUME NEW a \in Admins, BindLock(a) PROVE Goal
  BY <1>2 DEF BindLock, AdminStep, Goal
<1>3. ASSUME NEW a \in Admins, BindBusy(a) PROVE Goal
  BY <1>3 DEF BindBusy, AdminStep, Goal
<1>4. ASSUME NEW a \in Admins, BindCheck(a) PROVE Goal
  BY <1>4 DEF BindCheck, AdminStep, Goal
<1>5. ASSUME NEW a \in Admins, BindRefused(a) PROVE Goal
  BY <1>5 DEF BindRefused, AdminStep, Goal
<1>6. ASSUME NEW a \in Admins, BindWrite(a) PROVE Goal
  <2> DEFINE call == admin[a].call
             list == admin[a].list
  <2>1. /\ admin[a] \in Holding /\ call \in Called
        /\ list = bindings /\ binderLock = a /\ Drawn(call.owner)
    BY <1>6 DEF BindWrite, AdminStep
  <2>2. /\ serial' \in Nat /\ serial <= serial'
        /\ call.kind \in {"register", "share"} => serial' = serial + 1
    BY <1>6 DEF BindWrite, Draw
  <2>3. ASSUME NEW b \in bindings'
        PROVE  /\ b \in Bindings /\ b.bid <= serial' /\ b.owner.gen <= serial'
               /\ \/ \E o \in bindings : b.bid = o.bid /\ b.owner = o.owner
                  \/ b.bid = serial + 1
    <3>1. CASE b \in bindings
      BY <3>1, <2>2
    <3>2. CASE \E o \in bindings : b = [o EXCEPT !.launch = TRUE]
      BY <3>2, <2>2, Relaunched
    <3>3. CASE \E o \in bindings : b = [o EXCEPT !.cred = call.cred]
      BY <3>3, <2>1, <2>2
    <3>4. CASE /\ call.kind \in {"register", "share"}
               /\ b = [app |-> call.app, bid |-> serial + 1, cred |-> call.cred,
                       owner |-> call.owner, share |-> call.kind = "share", launch |-> FALSE]
      BY <3>4, <2>1, <2>2
    <3>5. b \in Written(call, list)
      BY <1>6 DEF BindWrite
    <3>6. CASE call.kind \in {"remove", "launch", "rotate"}
      BY <3>1, <3>2, <3>3, <3>5, <3>6, <2>1 DEF Written
    <3>7. CASE call.kind \notin {"remove", "launch", "rotate"}
      <4>1. call.kind \in {"register", "share"}
        BY <3>7, <2>1, KindsAssumption
      <4> QED
        BY <3>1, <3>4, <3>5, <3>7, <4>1, <2>1 DEF Written
    <3> QED
      BY <3>6, <3>7
  <2>4. /\ admin' = [admin EXCEPT ![a] = Idle] /\ binderLock' = None
        /\ UNCHANGED <<owner, pending, lock, calls, claim, submit, runs, eras>>
    BY <1>6 DEF BindWrite, AdminStep
  <2>5. Types'
    BY <2>2, <2>3, <2>4
  <2>6. ClaimInv' /\ BinderInv'
    BY <2>1, <2>4
  <2>7. SerialInv'
    BY <2>2, <2>3, <2>4
  <2>8. EraInv' /\ LinkInv'
    BY <2>2, <2>3, <2>4
  <2> QED
    BY <2>5, <2>6, <2>7, <2>8 DEF Goal
<1> QED
  BY <1>1, <1>2, <1>3, <1>4, <1>5, <1>6

\* Admission of work, and its runs.
LEMMA WorkStep ==
  ASSUME OwnerInv,
         \/ \E b \in bindings : \E req \in {1} : Authenticate(b, req)
         \/ TelegramAdmit \/ Lookup \/ SubmitCheck \/ SubmitCreate
         \/ \E r \in runs : StartRefused(r) \/ Start(r) \/ End(r)
  PROVE  OwnerInv'
<1> USE DEF OwnerInv, Types, ClaimInv, BinderInv, SerialInv, EraInv, LinkInv, Drawn, Current,
            Same, Authority, Linked, Idle, Free, control, binding, work, Owners, Authorities,
            Eras, Requests, Bindings, Called, Holding, Submits, Works
<1> DEFINE Goal == OwnerInv'
<1> SUFFICES Goal
  OBVIOUS
<1> HIDE DEF Goal
<1>1. ASSUME NEW b \in bindings, NEW req \in {1}, Authenticate(b, req) PROVE Goal
  BY <1>1 DEF Authenticate, Goal
<1>2. CASE TelegramAdmit
  BY <1>2 DEF TelegramAdmit, Goal
<1>3. CASE Lookup
  BY <1>3 DEF Lookup, Goal
<1>4. CASE SubmitCheck
  BY <1>4 DEF SubmitCheck, Goal
<1>5. CASE SubmitCreate
  BY <1>5 DEF SubmitCreate, Goal
<1>6. ASSUME NEW r \in runs, StartRefused(r) PROVE Goal
  <2>1. /\ runs' = (runs \ {r}) \cup {[r EXCEPT !.status = "ended"]}
        /\ UNCHANGED <<control, lock, bindings, binderLock, admin, claim, submit, serial, eras>>
    BY <1>6 DEF StartRefused, SetStatus
  <2> QED
    BY <2>1 DEF Goal
<1>7. ASSUME NEW r \in runs, Start(r) PROVE Goal
  <2>1. /\ runs' = (runs \ {r}) \cup {[r EXCEPT !.status = "running"]}
        /\ UNCHANGED <<control, lock, bindings, binderLock, admin, claim, submit, serial, eras>>
    BY <1>7 DEF Start, SetStatus
  <2> QED
    BY <2>1 DEF Goal
<1>8. ASSUME NEW r \in runs, End(r) PROVE Goal
  <2>1. /\ runs' = (runs \ {r}) \cup {[r EXCEPT !.status = "ended"]}
        /\ UNCHANGED <<control, lock, bindings, binderLock, admin, claim, submit, serial, eras>>
    BY <1>8 DEF End, SetStatus
  <2> QED
    BY <2>1 DEF Goal
<1> QED
  BY <1>1, <1>2, <1>3, <1>4, <1>5, <1>6, <1>7, <1>8

\* Every step keeps the invariant.
LEMMA OwnerInvStep ==
  ASSUME OwnerInv, [Next]_vars
  PROVE  OwnerInv'
<1>1. CASE UNCHANGED vars
  BY <1>1 DEF vars, control, binding, work, OwnerInv, Types, ClaimInv, BinderInv, SerialInv,
    EraInv, LinkInv, Drawn, Current, Same, Authority, Linked
<1> QED
  BY <1>1, PairingStep, BindingStep, WorkStep DEF Next

\* The inductive invariant.
THEOREM OwnershipIsSound == Spec => []OwnerInv
<1>1. Init => OwnerInv
  BY DEF Init, OwnerInv, Types, ClaimInv, BinderInv, SerialInv, EraInv, LinkInv, Linked, Idle,
     Eras
<1> QED
  BY <1>1, OwnerInvStep, PTL DEF Spec

(***************************************************************************)
(* What it says                                                            *)
(***************************************************************************)
\* Whoever links or unlinks Telegram at the same time, and whatever ran between the
\* reads and the writes of a claim, the owner becomes another only by a revocation.
THEOREM OwnerIsStable == Spec => OwnerStaysItself
<1>1. ASSUME OwnerInv, [Next]_vars
      PROVE  [owner # None /\ owner' # None => Authority(owner') = Authority(owner)]_vars
  BY <1>1, OwnerStep
<1> QED
  BY <1>1, OwnershipIsSound, PTL DEF Spec, OwnerStaysItself

\* No administrator's command undoes another's: under the bindings' lock each writes
\* what it read.
THEOREM BindingsAreKept == Spec => BindingsSurvive
<1> DEFINE Survive == \A b \in bindings : b \notin bindings' =>
                        \E a \in Admins : admin[a].pc = "checked" /\ admin[a].call.app = b.app
                                           /\ admin'[a] = Idle
<1>1. ASSUME OwnerInv, [Next]_vars PROVE [Survive]_vars
  <2>1. CASE UNCHANGED bindings
    BY <2>1
  <2>2. ASSUME NEW a \in Admins, BindWrite(a) PROVE Survive
    <3>1. admin[a].pc = "checked" /\ admin[a].list = bindings /\ admin'[a] = Idle
      BY <1>1, <2>2 DEF BindWrite, AdminStep, OwnerInv, BinderInv, Types
    <3>2. \A b \in bindings : b.app # admin[a].call.app => b \in bindings'
      BY <3>1, <2>2 DEF BindWrite, Written
    <3> QED
      BY <3>1, <3>2
  <2> QED
    BY <1>1, <2>1, <2>2 DEF Next, vars, control, binding, work, Expire, Approve, ClaimRefused,
      ClaimBegin, RequestPairing, Bootstrap, RegisterOwner, Unlink, Revoke, ClaimEnd, CreateLink,
      Authenticate, BindCall, BindLock, BindBusy, BindCheck, BindRefused, TelegramAdmit, Lookup,
      SubmitCheck, SubmitCreate, StartRefused, Start, End
<1> QED
  BY <1>1, OwnershipIsSound, PTL DEF Spec, BindingsSurvive

\* Work requested before a revocation, or by a chat before its link was ended, is never
\* authorized again: not for the same account paired anew, not through a binding, and
\* not when it was being admitted meanwhile.
THEOREM RevokedWorkStaysRevoked == Spec => []AuthorityNeverReturns
<1>1. ASSUME OwnerInv PROVE AuthorityNeverReturns
  <2> SUFFICES ASSUME NEW r \in runs, Authorized(r)
               PROVE  /\ r.era.revoked = eras.revoked
                      /\ r.chat # None => r.era.linked = eras.linked
    BY DEF AuthorityNeverReturns
  <2>1. r.era.revoked = eras.revoked
    BY <1>1 DEF OwnerInv, EraInv, Current, Authorized, OwnsRun
  <2>2. ASSUME r.chat # None PROVE r.era.linked = eras.linked
    <3>1. Linked /\ r.link = owner.link
      BY <2>2 DEF Authorized, OwnsRun, Same, Linked
    <3> QED
      BY <1>1, <2>2, <3>1 DEF OwnerInv, LinkInv
  <2> QED
    BY <2>1, <2>2
<1> QED
  BY <1>1, OwnershipIsSound, PTL

(***************************************************************************)
(* Tasks                                                                   *)
(***************************************************************************)
\* The kind of a task that is not there is no kind.
KindsDistinct == None \notin T!AllKinds

States == {"absent", "pending", "active", "revoked", "retired"}
Places == {"idle", "grant", "mark", "open", "unwatch", "admit", "send", "asked", "sent"}
OwnerType == [epoch : Nat, link : Nat]
FileType ==
  [state : States, kind : GrantKinds \cup {None}, owner : OwnerType \cup {None},
   binding : Nat \cup {None}, unwatch : BOOLEAN, grant : BOOLEAN, dispatched : BOOLEAN,
   ops : [T!RunIds -> {"none", "uncertain", "accepted"}], hour : Nat, total : Nat, replies : Nat,
   seen : SUBSET Events]
\* A run has the epoch of its task's owner, or none.
Epochs == {o.epoch : o \in OwnerType \cup {None}} \cup {None}
RunType == [st : {"none", "queued", "running", "failed", "ended"}, task : Grants \cup {None},
            epoch : Epochs, link : {None}]

\* The types the argument needs: those of a task's file and of the rest.
FilesTyped ==
  /\ task \in [Grants -> FileType]
  /\ tried \in [Grants -> [T!RunIds -> Nat]]
  /\ opened \in [Grants -> Nat]
  /\ admitted \in [Grants -> [Events -> Nat]]
RestTyped ==
  /\ taskRuns \in [T!RunIds -> RunType]
  /\ chain = [at |-> chain.at, task |-> chain.task, run |-> chain.run] /\ chain.at \in Places
  /\ expired \subseteq Grants /\ source \in Nat /\ approver \in OwnerType

\* Nothing was done for a task whose file says this.
Blank(f) == ~f.dispatched /\ f.seen = {} /\ \A r \in T!RunIds : f.ops[r] = "none"
Is(t, state) == task[t].state = state

\* The file of a task says what was tried for it.
Filed(t) ==
  /\ Is(t, "absent") \/ Is(t, "pending") => Blank(task[t])
  /\ Is(t, "absent") => task[t].kind = None
  /\ Is(t, "retired") => task[t] = T!Retired
  /\ task[t].unwatch <=> Is(t, "revoked")
  /\ task[t].unwatch => task[t].kind # "scoped"
  /\ t \in expired => ~Is(t, "absent") /\ ~T!Lasting(task[t])
  /\ \A r \in T!RunIds : /\ tried[t][r] <= 1
                         /\ tried[t][r] = 1 => Is(t, "retired") \/ task[t].ops[r] = "uncertain"
  /\ opened[t] <= 1
  /\ opened[t] = 1 => Is(t, "retired") \/ task[t].dispatched
  /\ \A e \in Events : /\ admitted[t][e] <= 1
                       /\ admitted[t][e] = 1 => Is(t, "retired") \/ e \in task[t].seen

\* What a call finds when it goes on: nothing else changes its task's file meanwhile.
Granting ==
  chain.at = "grant" =>
    /\ watched
    /\ \/ /\ Is(chain.task, "absent") /\ chain.run \in FileType
          /\ Blank(chain.run) /\ ~chain.run.unwatch
       \/ Is(chain.task, "pending") /\ task[chain.task].kind # "scoped"
Opening ==
  /\ chain.at \in {"mark", "open"} => Is(chain.task, "active") /\ opened[chain.task] = 0
  /\ chain.at = "open" => task[chain.task].dispatched
Admitting ==
  chain.at = "admit" => /\ Is(chain.task, "active") /\ chain.run \in Events
                        /\ chain.run \in task[chain.task].seen
                        /\ admitted[chain.task][chain.run] = 0
Sending ==
  /\ chain.at \in {"send", "asked", "sent"} =>
       /\ chain.run \in T!RunIds /\ Is(chain.task, "active")
       /\ taskRuns[chain.run].task \in {None, chain.task}
       /\ task[chain.task].ops[T!Key(chain.task, chain.run)] = "uncertain"
  /\ chain.at \in {"send", "asked"} => tried[chain.task][T!Key(chain.task, chain.run)] = 0
  /\ chain.at = "asked" => vouched = task[chain.task].owner.epoch
Held == /\ chain.at # "idle" => chain.task \in Grants
        /\ chain.at = "unwatch" => task[chain.task].unwatch
        /\ Granting /\ Opening /\ Admitting /\ Sending

\* One task at a time has the contact, or is about to.
Occupant(t) == \/ T!Known(t) /\ task[t].kind # "scoped" /\ T!Occupies(t)
               \/ chain.at = "grant" /\ chain.task = t
Sole == \A t, u \in Grants : Occupant(t) /\ Occupant(u) => t = u

GrantInv == /\ FilesTyped /\ RestTyped /\ \A t \in Grants : Filed(t)
            /\ Held /\ Sole /\ T!ActiveIsWatched

USE DEF T!memory, T!world, T!seenBy
-------------------------------------------------------------------------------
(***************************************************************************)
(* What most steps leave alone                                             *)
(***************************************************************************)
\* A step that changes the file of one task says nothing of the others.
LEMMA OneFile ==
  ASSUME GrantInv, NEW t \in Grants, Filed(t)', expired' = expired,
         \A u \in Grants \ {t} : /\ task'[u] = task[u] /\ tried'[u] = tried[u]
                                 /\ opened'[u] = opened[u] /\ admitted'[u] = admitted[u]
  PROVE  \A u \in Grants : Filed(u)'
<1>1. SUFFICES ASSUME NEW u \in Grants \ {t} PROVE Filed(u)' OBVIOUS
<1>2. QED BY <1>1 DEF GrantInv, Filed, Is, T!Lasting, Blank

LEMMA SameFiles ==
  ASSUME GrantInv, UNCHANGED <<task, expired, tried, opened, admitted>>
  PROVE  FilesTyped' /\ \A u \in Grants : Filed(u)'
BY DEF GrantInv, FilesTyped, Filed, Is

\* Once a call is over nothing is held.
LEMMA IdleHolds == ASSUME chain'.at = "idle" PROVE Held'
BY DEF Held, Granting, Opening, Admitting, Sending

LEMMA SoleKept == ASSUME Sole, \A t \in Grants : Occupant(t)' => Occupant(t) PROVE Sole'
BY DEF Sole

\* A task that claims the contact and hears it occupies it.
LEMMA LiveOccupies ==
  ASSUME NEW t \in Grants, T!Live(t), task[t].kind # "scoped" PROVE Occupant(t)
BY DEF Occupant, T!Occupies, T!Claims, T!Live, T!Known

LEMMA WatchKept ==
  ASSUME T!ActiveIsWatched, watched' = watched,
         \A t \in Grants : T!Live(t)' /\ task'[t].kind # "scoped"
           => T!Live(t) /\ task[t].kind # "scoped"
  PROVE  T!ActiveIsWatched'
BY DEF T!ActiveIsWatched

\* The key of a message is the name of a run.
LEMMA KeyIsRun == ASSUME NEW t \in Grants, NEW r \in T!RunIds PROVE T!Key(t, r) \in T!RunIds
BY DEF T!Key, T!RunIds

LEMMA InitInv == KindsDistinct /\ T!Init => GrantInv
BY DEF T!Init, T!Idle, T!NoTask, T!NoRun, GrantInv, FilesTyped, RestTyped, FileType, RunType,
   Epochs, OwnerType, States, Places,
   Filed, Blank, Is, T!Lasting, KindsDistinct, T!AllKinds, Held, Granting, Opening, Admitting,
   Sending, Sole, Occupant,
   T!Known, T!Occupies, T!Claims, T!ActiveIsWatched, T!Live

LEMMA InvImplies == GrantInv => T!GrantsHold
BY DEF GrantInv, FilesTyped, Filed, T!GrantsHold, T!AtMostOnce

-------------------------------------------------------------------------------
(***************************************************************************)
(* Steps outside the chain of calls                                        *)
(***************************************************************************)
Aside == \/ \E t \in Grants : T!OwnerDecides(t)
         \/ \E r \in T!RunIds : T!StartRun(r) \/ T!EndRun(r)
         \/ T!Repair \/ T!Relink \/ T!Rebind

LEMMA AsideInv == ASSUME GrantInv, Aside PROVE GrantInv'
<1>1. UNCHANGED <<task, chain, watched, expired, T!seenBy>>
  BY DEF Aside, T!OwnerDecides, T!StartRun, T!EndRun, T!Repair, T!Relink, T!Rebind
<1>2. taskRuns' \in [T!RunIds -> RunType]
        /\ \A r \in T!RunIds : taskRuns'[r].task \in {None, taskRuns[r].task}
  <2>1. CASE UNCHANGED taskRuns BY <2>1 DEF GrantInv, RestTyped
  <2>2. CASE \E r \in T!RunIds : T!StartRun(r) \/ T!EndRun(r)
    <3>1. PICK r \in T!RunIds : T!StartRun(r) \/ T!EndRun(r) BY <2>2
    <3>2. \E x \in {[taskRuns[r] EXCEPT !.st = "failed"], [taskRuns[r] EXCEPT !.st = "running"],
            T!Ended} :
            taskRuns' = [taskRuns EXCEPT ![r] = x]
      BY <3>1 DEF T!StartRun, T!EndRun, GrantInv, RestTyped
    <3>3. QED BY <3>2 DEF GrantInv, RestTyped, RunType, Epochs, T!Ended, T!NoRun
  <2>3. QED BY <2>1, <2>2 DEF Aside, T!OwnerDecides, T!Repair, T!Relink, T!Rebind
<1>3. source' \in Nat /\ approver' \in OwnerType
  <2>1. CASE UNCHANGED <<source, approver>> BY <2>1 DEF GrantInv, RestTyped
  <2>2. CASE T!Repair BY <2>2 DEF T!Repair, GrantInv, RestTyped, OwnerType
  <2>3. CASE T!Relink BY <2>3 DEF T!Relink, GrantInv, RestTyped, OwnerType
  <2>4. CASE T!Rebind BY <2>4 DEF T!Rebind, GrantInv, RestTyped
  <2>5. QED BY <2>1, <2>2, <2>3, <2>4 DEF Aside, T!OwnerDecides, T!StartRun, T!EndRun
<1>4. RestTyped' BY <1>1, <1>2, <1>3 DEF GrantInv, RestTyped
<1>5. Held'
  BY <1>1, <1>2 DEF GrantInv, Held, Granting, Opening, Admitting, Sending, Is, T!Key, T!Lasting
<1>6. Sole' /\ T!ActiveIsWatched'
  BY <1>1 DEF GrantInv, Sole, Occupant, T!Known, T!Occupies, T!Claims, T!ActiveIsWatched, T!Live
<1>7. QED BY <1>1, <1>4, <1>5, <1>6, SameFiles DEF GrantInv

LEMMA ExpireInv == ASSUME GrantInv, KindsDistinct, NEW t \in Grants, T!Expire(t) PROVE GrantInv'
<1>1. /\ UNCHANGED <<task, taskRuns, chain, source, approver, watched, T!seenBy>>
           /\ expired' = expired \cup {t}
      /\ task[t].kind \in {"opener", "waiting"}
  BY DEF T!Expire
<1>2. FilesTyped' /\ RestTyped' BY <1>1 DEF GrantInv, FilesTyped, RestTyped
<1>3. \A u \in Grants : Filed(u)'
  <2>1. ~Is(t, "absent") /\ ~T!Lasting(task[t])
    BY <1>1 DEF KindsDistinct, T!AllKinds, GrantInv, Filed, T!Lasting
  <2>2. QED BY <1>1, <2>1 DEF GrantInv, Filed, Is, T!Lasting, Blank
<1>4. Held'
  BY <1>1 DEF GrantInv, Held, Granting, Opening, Admitting, Sending, Is, T!Key, T!Lasting
<1>5. \A u \in Grants : Occupant(u)' => Occupant(u)
  BY <1>1 DEF Occupant, T!Known, T!Occupies, T!Claims
<1>6. T!ActiveIsWatched' BY <1>1, WatchKept DEF GrantInv, T!Live
<1>7. QED BY <1>2, <1>3, <1>4, <1>5, <1>6, SoleKept DEF GrantInv

LEMMA RestartInv == ASSUME GrantInv, T!Restart PROVE GrantInv'
<1>1. UNCHANGED <<task, source, approver, watched, expired, tried, opened, admitted>>
        /\ chain' = T!Idle
        /\ taskRuns' = [r \in T!RunIds |-> T!NoRun]
  BY DEF T!Restart
<1>2. RestTyped' BY <1>1 DEF GrantInv, RestTyped, T!Idle, Places, RunType, Epochs, T!NoRun
<1>3. Held' BY <1>1, IdleHolds DEF T!Idle
<1>4. \A u \in Grants : Occupant(u)' => Occupant(u)
  BY <1>1 DEF Occupant, T!Known, T!Occupies, T!Claims, T!Idle
<1>5. T!ActiveIsWatched' BY <1>1, WatchKept DEF GrantInv, T!Live
<1>6. QED BY <1>1, <1>2, <1>3, <1>4, <1>5, SoleKept, SameFiles DEF GrantInv

-------------------------------------------------------------------------------
(***************************************************************************)
(* The owner's calls                                                       *)
(***************************************************************************)
\* A grant is saved as the file was, active and with its rules.
GrantOf(x) == [x EXCEPT !.state = "active", !.grant = TRUE]
LEMMA Granted ==
  ASSUME NEW x \in FileType
  PROVE  /\ GrantOf(x) \in FileType /\ GrantOf(x).state = "active"
         /\ GrantOf(x).kind = x.kind /\ GrantOf(x).unwatch = x.unwatch
BY DEF GrantOf, FileType, States

\* A task that is not granted had nothing done for it, and its file may be any that
\* claims nothing.
LEMMA NothingDone ==
  ASSUME GrantInv, NEW t \in Grants, Is(t, "absent") \/ Is(t, "pending")
  PROVE  /\ \A r \in T!RunIds : tried[t][r] = 0
         /\ opened[t] = 0
         /\ \A e \in Events : admitted[t][e] = 0
<1>1. Filed(t) BY DEF GrantInv
<1>2. Blank(task[t]) /\ task[t].state # "retired" BY <1>1 DEF Filed, Is
<1>3. ASSUME NEW r \in T!RunIds PROVE tried[t][r] = 0
  <2>1. tried[t][r] \in Nat BY DEF GrantInv, FilesTyped
  <2>2. tried[t][r] =< 1 /\ tried[t][r] # 1 BY <1>1, <1>2 DEF Filed, Is, Blank
  <2>3. QED BY <2>1, <2>2
<1>4. opened[t] = 0
  <2>1. opened[t] \in Nat BY DEF GrantInv, FilesTyped
  <2>2. opened[t] =< 1 /\ opened[t] # 1 BY <1>1, <1>2 DEF Filed, Is, Blank
  <2>3. QED BY <2>1, <2>2
<1>5. ASSUME NEW e \in Events PROVE admitted[t][e] = 0
  <2>1. admitted[t][e] \in Nat BY DEF GrantInv, FilesTyped
  <2>2. admitted[t][e] =< 1 /\ admitted[t][e] # 1 BY <1>1, <1>2 DEF Filed, Is, Blank
  <2>3. QED BY <2>1, <2>2
<1>6. QED BY <1>3, <1>4, <1>5

LEMMA NewFile ==
  ASSUME GrantInv, NEW t \in Grants, Is(t, "absent") \/ Is(t, "pending"),
         task'[t].state = "active" \/ (task'[t].state = "pending" /\ Blank(task'[t])),
         task'[t].unwatch = FALSE, t \in expired' => ~T!Lasting(task'[t]),
         tried' = tried, opened' = opened, admitted' = admitted
  PROVE  Filed(t)'
BY NothingDone DEF Filed, Is, Blank

\* A task in use keeps what its file says was tried for it.
LEMMA KeptFile ==
  ASSUME GrantInv, NEW t \in Grants, NEW g, task'[t] = g, g.state \in {"active", "revoked"},
         Is(t, "active") \/ Is(t, "revoked"),
         task[t].dispatched => g.dispatched, task[t].seen \subseteq g.seen,
         \A r \in T!RunIds : task[t].ops[r] = "uncertain" => g.ops[r] = "uncertain",
         g.kind = task[t].kind, g.unwatch <=> g.state = "revoked", g.unwatch => g.kind # "scoped",
         expired' = expired, tried' = tried, opened' = opened, admitted' = admitted
  PROVE  Filed(t)'
BY DEF GrantInv, Filed, Is, T!Lasting

\* A retired one needs to say nothing.
LEMMA RetiredFile ==
  ASSUME GrantInv, KindsDistinct, NEW t \in Grants, task'[t] = T!Retired,
         expired' = expired, tried' = tried, opened' = opened, admitted' = admitted
  PROVE  Filed(t)'
BY DEF GrantInv, Filed, Is, T!Lasting, T!Retired, T!NoTask, KindsDistinct, T!AllKinds

LEMMA RetiredIsFile == T!Retired \in FileType /\ T!Retired.state = "retired"
  /\ T!Retired.unwatch = FALSE
BY DEF T!Retired, T!NoTask, FileType, States

\* A step that does nothing but retire a task, or that and stop watching when no
\* other task is heard.
LEMMA Retire ==
  ASSUME GrantInv, KindsDistinct, NEW t \in Grants, task' = [task EXCEPT ![t] = T!Retired],
         chain' = T!Idle,
         RestTyped', expired' = expired, tried' = tried, opened' = opened, admitted' = admitted,
         watched' = watched \/ \A u \in Grants \ {t} : T!Live(u) => task[u].kind = "scoped"
  PROVE  GrantInv'
<1>1. FilesTyped' /\ task'[t] = T!Retired BY RetiredIsFile DEF GrantInv, FilesTyped
<1>2. \A u \in Grants : Filed(u)' BY <1>1, RetiredFile, OneFile DEF GrantInv, FilesTyped
<1>3. Held' BY IdleHolds DEF T!Idle
<1>4. \A u \in Grants : Occupant(u)' => Occupant(u)
  BY <1>1, RetiredIsFile DEF Occupant, T!Known, T!Occupies, T!Claims, GrantInv, FilesTyped, T!Idle
<1>5. T!ActiveIsWatched'
  BY <1>1, RetiredIsFile DEF GrantInv, T!Live, FilesTyped, T!ActiveIsWatched
<1>6. QED BY <1>1, <1>2, <1>3, <1>4, <1>5, SoleKept DEF GrantInv

\* A step that writes the file of an active task, which stays active or is revoked
\* while it has the contact.
LEMMA Write ==
  ASSUME GrantInv, NEW t \in Grants, NEW g \in FileType, task' = [task EXCEPT ![t] = g],
         Is(t, "active"),
         g.state = "active" \/ (g.state = "revoked" /\ T!Live(t) /\ g.kind # "scoped"),
         task[t].dispatched => g.dispatched, task[t].seen \subseteq g.seen,
         \A r \in T!RunIds : task[t].ops[r] = "uncertain" => g.ops[r] = "uncertain",
         g.kind = task[t].kind, g.unwatch <=> g.state = "revoked", RestTyped', Held',
         chain'.at # "grant",
         watched' = watched, expired' = expired, tried' = tried, opened' = opened,
         admitted' = admitted
  PROVE  GrantInv'
<1>1. FilesTyped' /\ task'[t] = g BY DEF GrantInv, FilesTyped
<1>2. Filed(t)' BY <1>1, KeptFile DEF Is
<1>3. \A u \in Grants : Filed(u)' BY <1>1, <1>2, OneFile DEF GrantInv, FilesTyped
<1>4. \A u \in Grants : Occupant(u)' => Occupant(u)
  BY <1>1 DEF Occupant, T!Known, T!Occupies, T!Claims, T!Live, Is, GrantInv, FilesTyped
<1>5. T!ActiveIsWatched' BY <1>1, WatchKept DEF GrantInv, T!Live, FilesTyped, Is
<1>6. QED BY <1>1, <1>3, <1>4, <1>5, SoleKept DEF GrantInv

\* A step that writes no file.
LEMMA GoOn ==
  ASSUME GrantInv, RestTyped', Held', task' = task, expired' = expired,
         tried' = tried, opened' = opened, admitted' = admitted,
         watched' = watched \/ watched' = TRUE,
         \A u \in Grants : chain'.at = "grant" /\ chain'.task = u => Occupant(u)
  PROVE  GrantInv'
<1>1. \A u \in Grants : Occupant(u)' => Occupant(u) BY DEF Occupant, T!Known, T!Occupies, T!Claims
<1>2. T!ActiveIsWatched' BY DEF GrantInv, T!Live, T!ActiveIsWatched
<1>3. QED BY <1>1, <1>2, SoleKept, SameFiles DEF GrantInv

\* A new task is blank, and no other has the contact it asks for.
LEMMA FreshIsBlank ==
  ASSUME GrantInv, NEW k \in GrantKinds
  PROVE  /\ T!Fresh(k) \in FileType /\ Blank(T!Fresh(k)) /\ T!Fresh(k).unwatch = FALSE
              /\ T!Fresh(k).state = "pending"
         /\ T!Fresh(k).kind = k
BY DEF T!Fresh, T!NoTask, FileType, States, Blank, GrantInv, RestTyped

LEMMA FreeOfOthers ==
  ASSUME chain = T!Idle, NEW k, T!Free(k), k # "scoped" PROVE \A u \in Grants : ~Occupant(u)
BY DEF T!Free, Occupant, T!Idle

LEMMA StartInv ==
  ASSUME GrantInv, NEW t \in Grants, NEW k \in GrantKinds, T!Start(t, k) PROVE GrantInv'
<1>1. /\ chain = T!Idle /\ ~T!Known(t) /\ T!Free(k)
      /\ UNCHANGED <<taskRuns, approver, source, expired, T!seenBy>>
  BY DEF T!Start
<1>2. Is(t, "absent") /\ Blank(task[t]) /\ t \notin expired
  BY <1>1 DEF T!Known, Is, GrantInv, Filed
<1>3. CASE k = "scoped"
  <2> DEFINE f == GrantOf(T!Fresh(k))
  <2>1. /\ task' = [task EXCEPT ![t] = f] /\ UNCHANGED <<watched, chain>>
    BY <1>3 DEF T!Start, GrantOf
  <2>2. f \in FileType /\ f.state = "active" /\ f.kind = "scoped" /\ ~f.unwatch
    BY <1>3, FreshIsBlank, Granted
  <2> HIDE DEF f
  <2>3. FilesTyped' /\ task'[t] = f BY <2>1, <2>2, <1>1 DEF GrantInv, FilesTyped
  <2>4. RestTyped' BY <2>1, <1>1 DEF GrantInv, RestTyped
  <2>5. Filed(t)'
    <3>1. task'[t].state = "active" /\ task'[t].unwatch = FALSE /\ t \notin expired'
      BY <1>1, <1>2, <2>2, <2>3 DEF FileType
    <3>2. QED BY <1>1, <3>1, <1>2, NewFile DEF Is
  <2>6. \A u \in Grants : Filed(u)' BY <2>1, <2>5, <1>1, OneFile DEF GrantInv, FilesTyped
  <2>7. Held' BY <2>1, <1>1, IdleHolds DEF T!Idle
  <2>8. \A u \in Grants : Occupant(u)' => Occupant(u)
    BY <2>1, <2>2, <2>3, <1>1 DEF Occupant, T!Known, T!Occupies, T!Claims, GrantInv, FilesTyped
  <2>9. T!ActiveIsWatched'
    BY <2>1, <2>2, <2>3, <1>1, WatchKept DEF GrantInv, T!Live, FilesTyped
  <2>10. QED BY <2>3, <2>4, <2>6, <2>7, <2>8, <2>9, SoleKept DEF GrantInv
<1>4. CASE k # "scoped"
  <2>1. watched' = TRUE /\ chain' = [at |-> "grant", task |-> t, run |-> T!Fresh(k)]
          /\ UNCHANGED task
    BY <1>4 DEF T!Start
  <2>2. RestTyped' BY <2>1, <1>1 DEF GrantInv, RestTyped, Places
  <2>3. Held'
    BY <2>1, <1>1, <1>2, FreshIsBlank DEF Held, Granting, Opening, Admitting, Sending, Is
  <2>4. \A u \in Grants : Occupant(u)' => u = t
    BY <2>1, <1>1, <1>4, FreeOfOthers DEF Occupant, T!Known, T!Occupies, T!Claims
  <2>5. T!ActiveIsWatched' BY <2>1 DEF T!ActiveIsWatched
  <2>6. QED BY <1>1, <2>1, <2>2, <2>3, <2>4, <2>5, SameFiles DEF GrantInv, Sole
<1>5. QED BY <1>3, <1>4

LEMMA ProposeInv ==
  ASSUME GrantInv, NEW t \in Grants, NEW k \in GrantKinds, T!Propose(t, k) PROVE GrantInv'
<1> DEFINE f == T!Fresh(k)
<1>1. /\ chain = T!Idle /\ ~T!Known(t) /\ T!Free(k) /\ task' = [task EXCEPT ![t] = f]
      /\ UNCHANGED <<taskRuns, chain, T!world, T!seenBy>>
  BY DEF T!Propose
<1>2. Is(t, "absent") /\ Blank(task[t]) /\ t \notin expired
  BY <1>1 DEF T!Known, Is, GrantInv, Filed
<1>3. f \in FileType /\ Blank(f) /\ f.unwatch = FALSE /\ f.state = "pending" /\ f.kind = k
  BY FreshIsBlank
<1> HIDE DEF f
<1>4. FilesTyped' /\ task'[t] = f BY <1>1, <1>3 DEF GrantInv, FilesTyped
<1>5. RestTyped' BY <1>1 DEF GrantInv, RestTyped
<1>6. Filed(t)'
  <2>1. task'[t].state = "pending" /\ Blank(task'[t]) /\ task'[t].unwatch = FALSE
          /\ t \notin expired'
    BY <1>1, <1>2, <1>3, <1>4
  <2>2. QED BY <1>1, <1>2, <2>1, NewFile DEF Is
<1>7. \A u \in Grants : Filed(u)' BY <1>1, <1>6, OneFile DEF GrantInv, FilesTyped
<1>8. Held' BY <1>1, IdleHolds DEF T!Idle
<1>9. \A u \in Grants \ {t} : Occupant(u)' => Occupant(u)
  BY <1>1, <1>4 DEF Occupant, T!Known, T!Occupies, T!Claims, GrantInv, FilesTyped
<1>10. Sole'
  <2>1. CASE k = "scoped"
    BY <2>1, <1>1, <1>3, <1>4, <1>9, SoleKept DEF Occupant, T!Idle, GrantInv
  <2>2. CASE k # "scoped" BY <2>2, <1>1, <1>9, FreeOfOthers DEF Sole
  <2>3. QED BY <2>1, <2>2
<1>11. T!ActiveIsWatched'
  BY <1>1, <1>3, <1>4, WatchKept DEF GrantInv, T!Live, FilesTyped
<1>12. QED BY <1>4, <1>5, <1>7, <1>8, <1>10, <1>11 DEF GrantInv

LEMMA RevokeInv ==
  ASSUME GrantInv, KindsDistinct, NEW t \in Grants, T!Revoke(t) PROVE GrantInv'
<1>1. /\ chain = T!Idle /\ T!Known(t) /\ task[t] # T!Retired
      /\ UNCHANGED <<approver, source, expired, watched, T!seenBy>>
  BY DEF T!Revoke
<1>2. taskRuns' \in [T!RunIds -> RunType]
  BY DEF T!Revoke, GrantInv, RestTyped, RunType, Epochs, T!Ended, T!NoRun
<1>3. CASE ~T!Lasting(task[t])
  <2>1. task' = [task EXCEPT ![t] = T!Retired] BY <1>3 DEF T!Revoke, GrantInv, FilesTyped
  <2>2. task'[t] = T!Retired /\ chain' = T!Idle
    BY <2>1, RetiredIsFile DEF T!Revoke, GrantInv, FilesTyped
  <2>3. RestTyped' BY <1>1, <1>2, <2>2 DEF GrantInv, RestTyped, T!Idle, Places
  <2>4. QED BY <1>1, <2>1, <2>2, <2>3, Retire
<1>4. CASE T!Lasting(task[t])
  <2> DEFINE g == [task[t] EXCEPT !.state = "revoked", !.unwatch = TRUE]
  <2>1. task' = [task EXCEPT ![t] = g] BY <1>4 DEF T!Revoke, GrantInv, FilesTyped
  <2>2. /\ g \in FileType /\ g.state = "revoked" /\ g.unwatch = TRUE /\ g.kind = task[t].kind
        /\ g.dispatched = task[t].dispatched /\ g.seen = task[t].seen /\ g.ops = task[t].ops
    <3>1. task[t] \in FileType BY DEF GrantInv, FilesTyped
    <3>2. QED BY <3>1 DEF FileType, States
  <2> HIDE DEF g
  <2>3. FilesTyped' /\ task'[t] = g BY <1>1, <2>1, <2>2 DEF GrantInv, FilesTyped
  <2>4. chain' = [at |-> "unwatch", task |-> t, run |-> None] BY <2>2, <2>3 DEF T!Revoke
  <2>5. RestTyped' BY <1>1, <1>2, <2>4 DEF GrantInv, RestTyped, Places
  <2>6. g.kind # "scoped" /\ t \notin expired
    BY <1>1, <1>4, <2>2 DEF GrantInv, Filed, T!Lasting, Is
  <2>7. Filed(t)'
    BY <1>1, <2>2, <2>3, <2>6 DEF GrantInv, Filed, T!Known, Is, T!Lasting, Blank
  <2>8. \A u \in Grants : Filed(u)' BY <1>1, <2>1, <2>7, OneFile DEF GrantInv, FilesTyped
  <2>9. Held' BY <2>2, <2>3, <2>4 DEF Held, Granting, Opening, Admitting, Sending
  <2>10. T!Known(t) /\ task[t].state \in {"active", "pending", "revoked"}
    BY <1>1 DEF GrantInv, FilesTyped, FileType, States, Filed, Is, T!Known
  <2>11. Occupant(t) BY <2>2, <2>6, <2>10 DEF Occupant, T!Occupies, T!Claims, GrantInv, Filed, Is
  <2>12. \A u \in Grants : Occupant(u)' => Occupant(u)
    BY <1>1, <2>1, <2>4, <2>11 DEF Occupant, T!Known, T!Occupies, T!Claims, GrantInv, FilesTyped
  <2>13. T!ActiveIsWatched' BY <1>1, <2>1, <2>2, <2>3, WatchKept DEF GrantInv, T!Live, FilesTyped
  <2>14. QED BY <2>3, <2>5, <2>8, <2>9, <2>12, <2>13, SoleKept DEF GrantInv
<1>5. QED BY <1>3, <1>4

LEMMA DecideInv ==
  ASSUME GrantInv, KindsDistinct, NEW t \in Grants, T!Decide(t) PROVE GrantInv'
<1> DEFINE f == task[t]
<1>1. chain = T!Idle /\ T!Known(t) /\ UNCHANGED <<taskRuns, approver, source, expired, tried,
        opened, admitted>>
  BY DEF T!Decide
<1>2. ASSUME NEW at \in {"unwatch", "grant", "mark"}, T!Rest(t, at) PROVE RestTyped'
  BY <1>1, <1>2 DEF GrantInv, RestTyped, T!Rest, Places
<1>3. CASE f.state = "revoked" /\ f.unwatch /\ T!Rest(t, "unwatch") /\ UNCHANGED <<task, watched>>
  <2>1. Held' BY <1>3 DEF Held, Granting, Opening, Admitting, Sending, T!Rest
  <2>2. QED BY <1>1, <1>2, <1>3, <2>1, GoOn DEF T!Rest
<1>4. CASE task' = [task EXCEPT ![t] = T!Retired] /\ UNCHANGED <<chain, watched>>
  <2>1. RestTyped' BY <1>1, <1>4 DEF GrantInv, RestTyped
  <2>2. QED BY <1>1, <1>4, <2>1, Retire
<1>5. CASE /\ f.state = "pending" /\ f.kind = "scoped" /\ UNCHANGED <<chain, watched>>
           /\ task' = [task EXCEPT ![t].state = "active", ![t].grant = TRUE]
  <2> DEFINE g == GrantOf(f)
  <2>1. f \in FileType BY DEF GrantInv, FilesTyped
  <2>2. task' = [task EXCEPT ![t] = g] BY <1>5, <2>1 DEF GrantOf, GrantInv, FilesTyped
  <2>3. g \in FileType /\ g.state = "active" /\ g.kind = "scoped" /\ g.unwatch = f.unwatch
    BY <1>5, <2>1, Granted
  <2> HIDE DEF g
  <2>4. FilesTyped' /\ task'[t] = g BY <1>1, <2>2, <2>3 DEF GrantInv, FilesTyped
  <2>5. g.unwatch = FALSE BY <1>5, <2>1, <2>3 DEF GrantInv, Filed, Is, FileType
  <2>6. Filed(t)' BY <1>1, <1>5, <2>3, <2>4, <2>5, NewFile DEF Is, T!Lasting
  <2>7. \A u \in Grants : Filed(u)' BY <1>1, <2>2, <2>6, OneFile DEF GrantInv, FilesTyped
  <2>8. RestTyped' BY <1>1, <1>5 DEF GrantInv, RestTyped
  <2>9. Held' BY <1>1, <1>5, IdleHolds DEF T!Idle
  <2>10. \A u \in Grants : Occupant(u)' => Occupant(u)
    BY <1>1, <1>5, <2>2, <2>3, <2>4 DEF Occupant, T!Known, T!Occupies, T!Claims, GrantInv,
       FilesTyped
  <2>11. T!ActiveIsWatched'
    BY <1>1, <1>5, <2>2, <2>3, <2>4, WatchKept DEF GrantInv, T!Live, FilesTyped
  <2>12. QED BY <2>4, <2>7, <2>8, <2>9, <2>10, <2>11, SoleKept DEF GrantInv
<1>6. CASE /\ f.state = "pending" /\ t \notin expired /\ f.kind # "scoped"
           /\ watched' = TRUE /\ T!Rest(t, "grant") /\ UNCHANGED task
  <2>1. Held' BY <1>6 DEF Held, Granting, Opening, Admitting, Sending, T!Rest, Is
  <2>2. Occupant(t) BY <1>6, <1>1 DEF Occupant, T!Occupies, T!Claims
  <2>3. QED BY <1>1, <1>2, <1>6, <2>1, <2>2, GoOn DEF T!Rest
<1>7. CASE f.state = "active" /\ ~f.dispatched /\ T!Rest(t, "mark") /\ UNCHANGED <<task, watched>>
  <2>1. opened[t] = 0
    <3>1. opened[t] \in Nat BY DEF GrantInv, FilesTyped
    <3>2. opened[t] =< 1 /\ opened[t] # 1 BY <1>7 DEF GrantInv, Filed, Is
    <3>3. QED BY <3>1, <3>2
  <2>2. Held' BY <1>1, <1>7, <2>1 DEF Held, Granting, Opening, Admitting, Sending, T!Rest, Is
  <2>3. QED BY <1>1, <1>2, <1>7, <2>2, GoOn DEF T!Rest
<1>8. QED BY <1>3, <1>4, <1>5, <1>6, <1>7 DEF T!Decide

LEMMA NextHourInv == ASSUME GrantInv, NEW t \in Grants, T!NextHour(t) PROVE GrantInv'
<1> DEFINE g == [task[t] EXCEPT !.hour = 0, !.replies = 0]
<1>1. /\ chain = T!Idle /\ T!Known(t) /\ task[t].hour + task[t].replies > 0
      /\ UNCHANGED <<taskRuns, chain, approver, source, watched, expired, tried, opened,
           admitted>>
  BY DEF T!NextHour
<1>2. task[t] \in FileType BY DEF GrantInv, FilesTyped
<1>3. task' = [task EXCEPT ![t] = g] BY <1>2 DEF T!NextHour, GrantInv, FilesTyped
<1>4. /\ g \in FileType /\ g.state = task[t].state /\ g.kind = task[t].kind
           /\ g.unwatch = task[t].unwatch
      /\ g.dispatched = task[t].dispatched /\ g.ops = task[t].ops /\ g.seen = task[t].seen
  BY <1>2 DEF FileType
<1>5. task[t].state # "retired"
  BY <1>1 DEF GrantInv, Filed, Is, T!Retired, T!NoTask
<1> HIDE DEF g
<1>6. FilesTyped' /\ task'[t] = g BY <1>1, <1>3, <1>4 DEF GrantInv, FilesTyped
<1>7. Filed(t)' BY <1>1, <1>4, <1>5, <1>6 DEF GrantInv, Filed, Is, Blank, T!Lasting
<1>8. \A u \in Grants : Filed(u)' BY <1>1, <1>3, <1>7, OneFile DEF GrantInv, FilesTyped
<1>9. RestTyped' /\ Held' BY <1>1, IdleHolds DEF GrantInv, RestTyped, T!Idle
<1>10. \A u \in Grants : Occupant(u)' => Occupant(u)
  BY <1>1, <1>3, <1>4, <1>6 DEF Occupant, T!Known, T!Occupies, T!Claims, GrantInv, FilesTyped
<1>11. T!ActiveIsWatched' BY <1>1, <1>3, <1>4, <1>6, WatchKept DEF GrantInv, T!Live, FilesTyped
<1>12. QED BY <1>6, <1>8, <1>9, <1>10, <1>11, SoleKept DEF GrantInv

-------------------------------------------------------------------------------
(***************************************************************************)
(* The rest of a call                                                      *)
(***************************************************************************)
LEMMA SaveGrantInv == ASSUME GrantInv, T!SaveGrant PROVE GrantInv'
<1>t. PICK t \in Grants : chain.task = t BY DEF T!SaveGrant, GrantInv, Held
<1> DEFINE f == IF T!Known(t) THEN task[t] ELSE chain.run
           g == GrantOf(f)
<1>1. /\ chain.at = "grant" /\ task' = [task EXCEPT ![t] = g]
      /\ chain' \in {T!Idle, [at |-> "mark", task |-> t, run |-> None]}
      /\ UNCHANGED <<taskRuns, approver, source, watched, expired, tried, opened, admitted>>
  BY <1>t DEF T!SaveGrant, GrantOf, T!Rest
<1>2. watched BY <1>1 DEF GrantInv, Held, Granting
<1>3. (Is(t, "absent") \/ Is(t, "pending")) /\ f \in FileType /\ f.unwatch = FALSE
  <2>1. CASE Is(t, "absent")
    BY <2>1, <1>t, <1>1 DEF GrantInv, Held, Granting, T!Known, Is, FileType
  <2>2. CASE Is(t, "pending")
    BY <2>2, <1>1, <1>2 DEF GrantInv, FilesTyped, Filed, T!Known, Is, FileType
  <2>3. QED BY <2>1, <2>2, <1>t, <1>1 DEF GrantInv, Held, Granting
<1>4. g \in FileType /\ g.state = "active" /\ g.kind = f.kind /\ g.unwatch = FALSE
  BY <1>3, Granted
<1>5. t \in expired => ~T!Lasting(g)
  BY <1>2, <1>4 DEF GrantInv, Filed, Is, T!Known, T!Lasting
<1> HIDE DEF g, f
<1>6. FilesTyped' /\ task'[t] = g BY <1>1, <1>2, <1>4 DEF GrantInv, FilesTyped
<1>7. Filed(t)' BY <1>1, <1>2, <1>3, <1>4, <1>5, <1>6, NewFile DEF Is
<1>8. \A u \in Grants : Filed(u)' BY <1>1, <1>2, <1>7, OneFile DEF GrantInv, FilesTyped
<1>9. RestTyped' BY <1>1 DEF GrantInv, RestTyped, T!Idle, Places
<1>10. opened[t] = 0 BY <1>2, <1>3, NothingDone
<1>11. Held'
  BY <1>1, <1>2, <1>4, <1>6, <1>10 DEF Held, Granting, Opening, Admitting, Sending, Is, T!Idle
<1>12. \A u \in Grants : Occupant(u)' => Occupant(u)
  BY <1>t, <1>1, <1>6 DEF Occupant, T!Known, T!Occupies, T!Claims, GrantInv, FilesTyped, T!Idle
<1>13. T!ActiveIsWatched' BY <1>1, <1>2 DEF T!ActiveIsWatched
<1>14. QED BY <1>6, <1>8, <1>9, <1>11, <1>12, <1>13, SoleKept DEF GrantInv

LEMMA MarkInv == ASSUME GrantInv, T!Mark PROVE GrantInv'
<1>t. PICK t \in Grants : chain.task = t BY DEF T!Mark, GrantInv, Held
<1> DEFINE g == [task[t] EXCEPT !.dispatched = TRUE]
<1>1. /\ chain.at = "mark" /\ task' = [task EXCEPT ![t] = g]
      /\ chain' = [at |-> "open", task |-> t, run |-> None]
      /\ UNCHANGED <<taskRuns, approver, source, watched, expired, tried, opened, admitted>>
  BY <1>t DEF T!Mark, T!Rest
<1>2. Is(t, "active") /\ opened[t] = 0 BY <1>t, <1>1 DEF GrantInv, Held, Opening
<1>3. task[t] \in FileType BY <1>2 DEF GrantInv, FilesTyped
<1>4. /\ g \in FileType /\ g.state = "active" /\ g.kind = task[t].kind
           /\ g.unwatch = task[t].unwatch
      /\ g.dispatched = TRUE /\ g.ops = task[t].ops /\ g.seen = task[t].seen
  BY <1>2, <1>3 DEF FileType, Is
<1>5. g.unwatch = FALSE BY <1>2, <1>3, <1>4 DEF GrantInv, Filed, Is, FileType
<1> HIDE DEF g
<1>6. RestTyped' BY <1>1 DEF GrantInv, RestTyped, Places
<1>7. task'[t] = g BY <1>1, <1>2 DEF GrantInv, FilesTyped
<1>8. Held' BY <1>1, <1>2, <1>4, <1>7 DEF Held, Granting, Opening, Admitting, Sending, Is
<1>9. QED BY <1>1, <1>2, <1>4, <1>5, <1>6, <1>8, Write

LEMMA OpenInv == ASSUME GrantInv, T!Open PROVE GrantInv'
<1>t. PICK t \in Grants : chain.task = t BY DEF T!Open, GrantInv, Held
<1> DEFINE rec == [st |-> "queued", task |-> t, epoch |-> task[t].owner.epoch, link |-> None]
<1>1. /\ chain.at = "open" /\ taskRuns' = [taskRuns EXCEPT ![t] = rec]
           /\ opened' = [opened EXCEPT ![t] = @ + 1]
      /\ chain' = T!Idle /\ UNCHANGED <<task, approver, source, watched, expired, tried,
           admitted>>
  BY <1>t DEF T!Open
<1>2. Is(t, "active") /\ opened[t] = 0 /\ task[t].dispatched
  BY <1>t, <1>1 DEF GrantInv, Held, Opening
<1>3. task[t] \in FileType BY <1>2 DEF GrantInv, FilesTyped
<1>4. rec \in RunType BY <1>2, <1>3 DEF RunType, Epochs, FileType
<1> HIDE DEF rec
<1>5. RestTyped' BY <1>1, <1>4 DEF GrantInv, RestTyped, T!Idle, Places
<1>6. FilesTyped' /\ opened'[t] = 1 BY <1>1, <1>2 DEF GrantInv, FilesTyped
<1>7. Filed(t)' BY <1>1, <1>2, <1>6 DEF GrantInv, Filed, Is, T!Lasting, Blank
<1>8. \A u \in Grants : Filed(u)' BY <1>1, <1>2, <1>7, OneFile DEF GrantInv, FilesTyped
<1>9. Held' BY <1>1, IdleHolds DEF T!Idle
<1>10. \A u \in Grants : Occupant(u)' => Occupant(u)
  BY <1>1 DEF Occupant, T!Known, T!Occupies, T!Claims, T!Idle
<1>11. T!ActiveIsWatched' BY <1>1, WatchKept DEF GrantInv, T!Live
<1>12. QED BY <1>5, <1>6, <1>8, <1>9, <1>10, <1>11, SoleKept DEF GrantInv

LEMMA UnwatchInv == ASSUME GrantInv, KindsDistinct, T!Unwatch PROVE GrantInv'
<1>t. PICK t \in Grants : chain.task = t BY DEF T!Unwatch, GrantInv, Held
<1>1. /\ chain.at = "unwatch" /\ chain' = T!Idle
      /\ UNCHANGED <<taskRuns, approver, source, expired, tried, opened, admitted>>
  BY DEF T!Unwatch
<1>2. task[t].unwatch BY <1>t, <1>1 DEF GrantInv, Held
<1>3. RestTyped' BY <1>1 DEF GrantInv, RestTyped, T!Idle, Places
<1>4. CASE watched' = FALSE /\ task' = [task EXCEPT ![t] = T!Retired]
  <2>1. Occupant(t) BY <1>2 DEF Occupant, T!Known, T!Occupies, GrantInv, Filed, Is
  <2>2. \A u \in Grants \ {t} : T!Live(u) => task[u].kind = "scoped"
    BY <2>1, <1>2, LiveOccupies DEF GrantInv, Sole
  <2>3. QED BY <1>1, <1>2, <1>3, <1>4, <2>2, Retire
<1>5. CASE UNCHANGED <<watched, task>>
  <2>1. Held' BY <1>1, IdleHolds DEF T!Idle
  <2>2. QED BY <1>1, <1>3, <1>5, <2>1, GoOn DEF T!Idle
<1>6. QED BY <1>t, <1>4, <1>5 DEF T!Unwatch

LEMMA CreateAdmittedInv == ASSUME GrantInv, T!CreateAdmitted PROVE GrantInv'
<1>t. PICK t \in Grants, e \in Events : chain.task = t /\ chain.run = e
  BY DEF T!CreateAdmitted, GrantInv, Held, Admitting
<1> DEFINE rec == [st |-> "queued", task |-> t, link |-> None, epoch |-> task[t].owner.epoch]
<1>1. /\ chain.at = "admit" /\ taskRuns' = [taskRuns EXCEPT ![e] = rec]
      /\ admitted' = [admitted EXCEPT ![t][e] = @ + 1]
      /\ chain' = T!Idle /\ UNCHANGED <<task, approver, source, watched, expired, tried, opened>>
  BY <1>t DEF T!CreateAdmitted
<1>2. Is(t, "active") /\ e \in task[t].seen /\ admitted[t][e] = 0
  BY <1>t, <1>1 DEF GrantInv, Held, Admitting
<1>3. task[t] \in FileType BY <1>2 DEF GrantInv, FilesTyped
<1>4. rec \in RunType BY <1>2, <1>3 DEF RunType, Epochs, FileType
<1> HIDE DEF rec
<1>5. RestTyped' BY <1>1, <1>2, <1>4 DEF GrantInv, RestTyped, T!Idle, Places, T!RunIds
<1>6. FilesTyped' /\ admitted'[t] = [admitted[t] EXCEPT ![e] = 1]
  BY <1>1, <1>2 DEF GrantInv, FilesTyped
<1>7. \A d \in Events : admitted'[t][d] = IF d = e THEN 1 ELSE admitted[t][d]
  BY <1>2, <1>6 DEF GrantInv, FilesTyped
<1>8. Filed(t)' BY <1>1, <1>2, <1>7 DEF GrantInv, Filed, Is, T!Lasting, Blank
<1>9. \A u \in Grants : Filed(u)' BY <1>1, <1>2, <1>8, OneFile DEF GrantInv, FilesTyped
<1>10. Held' BY <1>1, IdleHolds DEF T!Idle
<1>11. \A u \in Grants : Occupant(u)' => Occupant(u)
  BY <1>1 DEF Occupant, T!Known, T!Occupies, T!Claims, T!Idle
<1>12. T!ActiveIsWatched' BY <1>1, WatchKept DEF GrantInv, T!Live
<1>13. QED BY <1>5, <1>6, <1>9, <1>10, <1>11, <1>12, SoleKept DEF GrantInv

-------------------------------------------------------------------------------
(***************************************************************************)
(* Admission                                                               *)
(***************************************************************************)
\* A run admitted for a task is one of its runs.
LEMMA RunAdded ==
  ASSUME GrantInv, NEW r \in T!RunIds, NEW rec \in RunType,
         taskRuns' = [taskRuns EXCEPT ![r] = rec]
  PROVE  taskRuns' \in [T!RunIds -> RunType]
BY DEF GrantInv, RestTyped

LEMMA AdmitInv == ASSUME GrantInv, NEW e \in Events, T!Admit(e) PROVE GrantInv'
<1>1. chain = T!Idle /\ UNCHANGED <<approver, source, watched, expired, tried, opened, admitted>>
  BY DEF T!Admit
<1>2. PICK t \in Grants :
        /\ T!Live(t) /\ task[t].kind # "scoped"
        /\ \/ taskRuns' = [taskRuns EXCEPT ![e] = T!EventRun(t)] /\ UNCHANGED <<task, chain>>
           \/ /\ task' = [task EXCEPT ![t].state = "revoked", ![t].unwatch = TRUE]
              /\ T!Rest(t, "unwatch") /\ UNCHANGED taskRuns
           \/ /\ task' = [task EXCEPT ![t].hour = @ + 1, ![t].total = @ + 1]
              /\ taskRuns' = [taskRuns EXCEPT ![e] = T!EventRun(t)] /\ UNCHANGED chain
  BY DEF T!Admit, T!Matches
<1>3. task[t] \in FileType /\ Is(t, "active") /\ task[t].unwatch = FALSE
  <2>1. task[t] \in FileType /\ Is(t, "active") BY <1>2 DEF GrantInv, FilesTyped, T!Live, Is
  <2>2. QED BY <2>1 DEF GrantInv, Filed, Is, FileType
<1>4. e \in T!RunIds /\ T!EventRun(t) \in RunType BY DEF T!RunIds, T!EventRun, RunType, Epochs
<1>5. CASE taskRuns' = [taskRuns EXCEPT ![e] = T!EventRun(t)] /\ UNCHANGED <<task, chain>>
  <2>1. RestTyped' BY <1>1, <1>4, <1>5, RunAdded DEF GrantInv, RestTyped
  <2>2. Held' BY <1>1, <1>5, IdleHolds DEF T!Idle
  <2>3. QED BY <1>1, <1>5, <2>1, <2>2, GoOn DEF T!Idle
<1>6. CASE /\ task' = [task EXCEPT ![t].state = "revoked", ![t].unwatch = TRUE]
           /\ T!Rest(t, "unwatch") /\ UNCHANGED taskRuns
  <2> DEFINE g == [task[t] EXCEPT !.state = "revoked", !.unwatch = TRUE]
  <2>1. task' = [task EXCEPT ![t] = g] BY <1>3, <1>6 DEF GrantInv, FilesTyped
  <2>2. /\ g \in FileType /\ g.state = "revoked" /\ g.unwatch = TRUE /\ g.kind = task[t].kind
        /\ g.dispatched = task[t].dispatched /\ g.seen = task[t].seen /\ g.ops = task[t].ops
    BY <1>3 DEF FileType, States
  <2> HIDE DEF g
  <2>3. task'[t] = g BY <2>1 DEF GrantInv, FilesTyped
  <2>4. RestTyped' BY <1>1, <1>6 DEF GrantInv, RestTyped, T!Rest, Places
  <2>5. Held' BY <1>6, <2>2, <2>3 DEF Held, Granting, Opening, Admitting, Sending, T!Rest
  <2>6. chain'.at # "grant" BY <1>6 DEF T!Rest
  <2>7. g.unwatch <=> g.state = "revoked" BY <2>2
  <2>8. g.state = "revoked" /\ T!Live(t) /\ g.kind # "scoped" BY <1>2, <2>2
  <2>9. \A r \in T!RunIds : task[t].ops[r] = "uncertain" => g.ops[r] = "uncertain" BY <2>2
  <2>10. QED BY <1>1, <1>3, <2>1, <2>2, <2>4, <2>5, <2>6, <2>7, <2>8, <2>9, Write
<1>7. CASE /\ task' = [task EXCEPT ![t].hour = @ + 1, ![t].total = @ + 1]
           /\ taskRuns' = [taskRuns EXCEPT ![e] = T!EventRun(t)] /\ UNCHANGED chain
  <2> DEFINE g == [task[t] EXCEPT !.hour = @ + 1, !.total = @ + 1]
  <2>1. task' = [task EXCEPT ![t] = g] BY <1>3, <1>7 DEF GrantInv, FilesTyped
  <2>2. /\ g \in FileType /\ g.state = task[t].state /\ g.unwatch = FALSE /\ g.kind = task[t].kind
        /\ g.dispatched = task[t].dispatched /\ g.seen = task[t].seen /\ g.ops = task[t].ops
    <3>1. task[t].hour + 1 \in Nat /\ task[t].total + 1 \in Nat BY <1>3 DEF FileType
    <3>2. QED BY <1>3, <3>1 DEF FileType
  <2> HIDE DEF g
  <2>3. RestTyped' BY <1>1, <1>4, <1>7, RunAdded DEF GrantInv, RestTyped
  <2>4. Held' /\ chain'.at # "grant" BY <1>1, <1>7, IdleHolds DEF T!Idle
  <2>5. g.state = "active" BY <1>3, <2>2 DEF Is
  <2>6. QED BY <1>1, <1>3, <2>1, <2>2, <2>3, <2>4, <2>5, Write
<1>8. QED BY <1>2, <1>5, <1>6, <1>7

LEMMA ApplicationEventInv ==
  ASSUME GrantInv, KindsDistinct, NEW e \in Events, T!ApplicationEvent(e) PROVE GrantInv'
<1>1. chain = T!Idle /\ UNCHANGED <<taskRuns, approver, source, watched, expired, tried, opened,
        admitted>>
  BY DEF T!ApplicationEvent
<1>2. PICK t \in Grants :
        /\ T!Live(t) /\ e \notin task[t].seen
        /\ \/ task' = [task EXCEPT ![t] = T!Retired] /\ UNCHANGED chain
           \/ /\ task' = [task EXCEPT ![t].hour = @ + 1, ![t].total = @ + 1,
                   ![t].seen = @ \cup {e}]
              /\ chain' = [at |-> "admit", task |-> t, run |-> e]
  BY DEF T!ApplicationEvent
<1>3. CASE task' = [task EXCEPT ![t] = T!Retired] /\ UNCHANGED chain
  <2>1. RestTyped' BY <1>1, <1>3 DEF GrantInv, RestTyped
  <2>2. QED BY <1>1, <1>3, <2>1, Retire
<1>4. CASE /\ task' = [task EXCEPT ![t].hour = @ + 1, ![t].total = @ + 1, ![t].seen = @ \cup {e}]
           /\ chain' = [at |-> "admit", task |-> t, run |-> e]
  <2> DEFINE g == [task[t] EXCEPT !.hour = @ + 1, !.total = @ + 1, !.seen = @ \cup {e}]
  <2>1. task[t] \in FileType /\ Is(t, "active") BY <1>2 DEF GrantInv, FilesTyped, T!Live, Is
  <2>2. task[t].unwatch = FALSE BY <2>1 DEF GrantInv, Filed, Is, FileType
  <2>3. task' = [task EXCEPT ![t] = g] BY <2>1, <1>4 DEF GrantInv, FilesTyped
  <2>4. /\ g \in FileType /\ g.state = "active" /\ g.unwatch = FALSE /\ g.kind = task[t].kind
        /\ g.dispatched = task[t].dispatched /\ g.seen = task[t].seen \cup {e}
             /\ g.ops = task[t].ops
    <3>1. task[t].hour + 1 \in Nat /\ task[t].total + 1 \in Nat BY <2>1 DEF FileType
    <3>2. task[t].seen \cup {e} \in SUBSET Events BY <2>1 DEF FileType
    <3>3. QED BY <2>1, <2>2, <3>1, <3>2 DEF FileType, Is
  <2> HIDE DEF g
  <2>5. task'[t] = g BY <2>3 DEF GrantInv, FilesTyped
  <2>6. RestTyped' BY <1>1, <1>4 DEF GrantInv, RestTyped, Places
  <2>7. admitted[t][e] = 0
    <3>1. admitted[t][e] \in Nat BY DEF GrantInv, FilesTyped
    <3>2. admitted[t][e] =< 1 /\ admitted[t][e] # 1 BY <1>2, <2>1 DEF GrantInv, Filed, Is
    <3>3. QED BY <3>1, <3>2
  <2>8. Held' BY <1>1, <1>4, <2>4, <2>5, <2>7 DEF Held, Granting, Opening, Admitting, Sending, Is
  <2>9. chain'.at # "grant" BY <1>4
  <2>10. QED BY <1>1, <2>1, <2>3, <2>4, <2>6, <2>8, <2>9, Write
<1>5. QED BY <1>2, <1>3, <1>4

-------------------------------------------------------------------------------
(***************************************************************************)
(* The messages of a run                                                   *)
(***************************************************************************)
\* A run with authority is one of an active task's.
LEMMA AuthorityIsGranted ==
  ASSUME GrantInv, NEW r \in T!RunIds, T!Authorized(r)
  PROVE  /\ taskRuns[r].task \in Grants /\ T!Live(taskRuns[r].task)
              /\ Is(taskRuns[r].task, "active")
         /\ T!SameOwner(task[taskRuns[r].task].owner)
BY DEF T!Authorized, GrantInv, RestTyped, RunType, T!Live, Is

LEMMA CompleteInv ==
  ASSUME GrantInv, KindsDistinct, NEW r \in T!RunIds, T!Complete(r)
  PROVE GrantInv'
<1>1. PICK t \in Grants : taskRuns[r].task = t BY AuthorityIsGranted DEF T!Complete
<1>2. /\ chain' = T!Idle /\ task' = [task EXCEPT ![t] = T!Retired]
      /\ UNCHANGED <<taskRuns, chain, approver, source, watched, expired, tried, opened,
           admitted>>
  BY <1>1 DEF T!Complete
<1>3. RestTyped' BY <1>2 DEF GrantInv, RestTyped
<1>4. QED BY <1>2, <1>3, Retire

\* Operations of ended runs go, uncertain ones never.
LEMMA PrunedKeeps ==
  ASSUME GrantInv, NEW t \in Grants
  PROVE  /\ T!Pruned(task[t], t) \in [T!RunIds -> {"none", "uncertain", "accepted"}]
         /\ \A r \in T!RunIds : task[t].ops[r] = "uncertain"
              => T!Pruned(task[t], t)[r] = "uncertain"
<1>1. task[t].ops \in [T!RunIds -> {"none", "uncertain", "accepted"}]
  BY DEF GrantInv, FilesTyped, FileType
<1>2. QED BY <1>1 DEF T!Pruned

LEMMA SendInv == ASSUME GrantInv, NEW r \in T!RunIds, T!Send(r) PROVE GrantInv'
<1>1. PICK t \in Grants : taskRuns[r].task = t /\ Is(t, "active")
  BY AuthorityIsGranted DEF T!Send, T!Sendable
<1> DEFINE k == T!Key(t, r)
           n == IF task[t].kind \in {"public", "scoped"}
                THEN task[t].replies + 1 ELSE task[t].replies
           o == [T!Pruned(task[t], t) EXCEPT
                    ![k] = IF task[t].kind = "scoped" THEN "accepted" ELSE "uncertain"]
           g == [task[t] EXCEPT !.replies = n, !.ops = o]
<1>2. task[t] \in FileType BY DEF GrantInv, FilesTyped
<1>3. /\ chain = T!Idle /\ task[t].ops[k] = "none"
      /\ task' = [task EXCEPT ![t] = g]
      /\ chain' = IF task[t].kind = "scoped" THEN T!Idle
                   ELSE [at |-> "send", task |-> t, run |-> r]
      /\ UNCHANGED <<taskRuns, approver, source, watched, expired, tried, opened, admitted>>
  BY <1>1, <1>2 DEF T!Send, T!Sendable, GrantInv, FilesTyped
<1>4. k \in T!RunIds BY KeyIsRun
<1>5. n \in Nat BY <1>2 DEF FileType
<1>6. /\ o \in [T!RunIds -> {"none", "uncertain", "accepted"}]
      /\ \A q \in T!RunIds : task[t].ops[q] = "uncertain" => o[q] = "uncertain"
      /\ task[t].kind # "scoped" => o[k] = "uncertain"
  BY <1>3, <1>4, PrunedKeeps
<1> HIDE DEF n, o
<1>7. /\ g \in FileType /\ g.state = "active" /\ g.unwatch = task[t].unwatch
           /\ g.kind = task[t].kind
      /\ g.dispatched = task[t].dispatched /\ g.seen = task[t].seen /\ g.ops = o
  BY <1>1, <1>2, <1>5, <1>6 DEF FileType, Is
<1>8. g.unwatch = FALSE BY <1>1, <1>2, <1>7 DEF GrantInv, Filed, Is, FileType
<1> HIDE DEF g
<1>9. task'[t] = g BY <1>3 DEF GrantInv, FilesTyped
<1>10. RestTyped' BY <1>3 DEF GrantInv, RestTyped, T!Idle, Places
<1>11. tried[t][k] = 0
  <2>1. tried[t][k] \in Nat BY <1>4 DEF GrantInv, FilesTyped
  <2>2. tried[t][k] =< 1 /\ tried[t][k] # 1 BY <1>1, <1>3, <1>4 DEF GrantInv, Filed, Is
  <2>3. QED BY <2>1, <2>2
<1>12. Held'
  <2>1. CASE task[t].kind = "scoped" BY <2>1, <1>3, IdleHolds DEF T!Idle
  <2>2. CASE task[t].kind # "scoped"
    <3>1. T!Key(t, r)' = k BY <1>7, <1>9 DEF T!Key, T!Lasting
    <3>2. QED
      BY <2>2, <3>1, <1>1, <1>3, <1>6, <1>7, <1>9, <1>11 DEF Held, Granting, Opening, Admitting,
         Sending, Is
  <2>3. QED BY <2>1, <2>2
<1>13. chain'.at # "grant" BY <1>3 DEF T!Idle
<1>14. QED BY <1>1, <1>3, <1>6, <1>7, <1>8, <1>10, <1>12, <1>13, Write

LEMMA AskInv == ASSUME GrantInv, T!Ask PROVE GrantInv'
<1>1. PICK t \in Grants, r \in T!RunIds : chain.task = t /\ chain.run = r
  BY DEF T!Ask, GrantInv, Held, Sending
<1>2. /\ chain.at = "send"
      /\ UNCHANGED <<task, taskRuns, approver, source, watched, expired, tried, opened, admitted>>
  BY DEF T!Ask
<1>3. CASE chain' = T!Idle
  <2>1. RestTyped' BY <1>2, <1>3 DEF GrantInv, RestTyped, T!Idle, Places
  <2>2. Held' BY <1>3, IdleHolds DEF T!Idle
  <2>3. QED BY <1>2, <1>3, <2>1, <2>2, GoOn DEF T!Idle
<1>4. CASE /\ T!MayDispatch(r) /\ chain' = [chain EXCEPT !.at = "asked"]
           /\ vouched' = approver.epoch
  <2>1. chain' = [at |-> "asked", task |-> t, run |-> r] BY <1>1, <1>4 DEF GrantInv, RestTyped
  <2>2. RestTyped' BY <1>2, <2>1 DEF GrantInv, RestTyped, Places
  <2>3. taskRuns[r].task = t
    BY <1>1, <1>2, <1>4 DEF T!MayDispatch, T!Authorized, GrantInv, Held, Sending
  <2>4. vouched' = task[t].owner.epoch
    BY <1>4, <2>3 DEF T!MayDispatch, T!Authorized, T!SameOwner
  <2>5. T!Key(t, r)' = T!Key(t, r) BY <1>2 DEF T!Key, T!Lasting
  <2>6. Held'
    BY <1>1, <1>2, <2>1, <2>4, <2>5
    DEF GrantInv, Held, Granting, Opening, Admitting, Sending, Is
  <2>7. \A u \in Grants : Occupant(u)' => Occupant(u)
    BY <1>2, <2>1 DEF Occupant, T!Known, T!Occupies, T!Claims
  <2>8. T!ActiveIsWatched' BY <1>2, WatchKept DEF GrantInv, T!Live
  <2>9. QED BY <1>2, <2>2, <2>6, <2>7, <2>8, SameFiles, SoleKept DEF GrantInv
<1>5. QED BY <1>1, <1>3, <1>4 DEF T!Ask

LEMMA DispatchInv == ASSUME GrantInv, T!Dispatch PROVE GrantInv'
<1>1. PICK t \in Grants, r \in T!RunIds : chain.task = t /\ chain.run = r
  BY DEF T!Dispatch, GrantInv, Held, Sending
<1> DEFINE k == T!Key(t, r)
<1>2. chain.at = "asked" /\ UNCHANGED <<task, taskRuns, approver, source, watched, expired,
        opened, admitted>>
  BY DEF T!Dispatch
<1>3. Is(t, "active") /\ task[t].ops[k] = "uncertain" /\ tried[t][k] = 0
        /\ taskRuns[r].task \in {None, t}
  BY <1>1, <1>2 DEF GrantInv, Held, Sending
<1>4. k \in T!RunIds BY KeyIsRun
<1>5. CASE chain' = T!Idle /\ UNCHANGED tried
  <2>1. RestTyped' BY <1>2, <1>5 DEF GrantInv, RestTyped, T!Idle, Places
  <2>2. Held' BY <1>5, IdleHolds DEF T!Idle
  <2>3. QED BY <1>2, <1>5, <2>1, <2>2, GoOn DEF T!Idle
<1>6. CASE tried' = [tried EXCEPT ![t][k] = @ + 1] /\ chain' = [chain EXCEPT !.at = "sent"]
  <2>1. chain' = [at |-> "sent", task |-> t, run |-> r] BY <1>1, <1>6 DEF GrantInv, RestTyped
  <2>2. RestTyped' BY <1>2, <2>1 DEF GrantInv, RestTyped, Places
  <2> HIDE DEF k
  <2>3. FilesTyped' /\ \A q \in T!RunIds : tried'[t][q] = IF q = k THEN 1 ELSE tried[t][q]
    BY <1>2, <1>3, <1>4, <1>6 DEF GrantInv, FilesTyped
  <2>4. Filed(t)' BY <1>2, <1>3, <1>4, <2>3 DEF GrantInv, Filed, Is, T!Lasting, Blank
  <2>5. \A u \in Grants : Filed(u)' BY <1>2, <1>6, <2>4, OneFile DEF GrantInv, FilesTyped
  <2>6. T!Key(t, r)' = k BY <1>2 DEF T!Key, T!Lasting, k
  <2>7. Held' BY <1>2, <1>3, <2>1, <2>6 DEF Held, Granting, Opening, Admitting, Sending, Is
  <2>8. \A u \in Grants : Occupant(u)' => Occupant(u)
    BY <1>2, <2>1 DEF Occupant, T!Known, T!Occupies, T!Claims
  <2>9. T!ActiveIsWatched' BY <1>2, WatchKept DEF GrantInv, T!Live
  <2>10. QED BY <2>2, <2>3, <2>5, <2>7, <2>8, <2>9, SoleKept DEF GrantInv
<1>7. QED BY <1>1, <1>5, <1>6 DEF T!Dispatch

LEMMA ReceiptInv == ASSUME GrantInv, T!Receipt PROVE GrantInv'
<1>1. PICK t \in Grants, r \in T!RunIds : chain.task = t /\ chain.run = r
  BY DEF T!Receipt, GrantInv, Held, Sending
<1> DEFINE k == T!Key(t, r)
<1>2. /\ chain.at = "sent" /\ chain' = T!Idle
      /\ UNCHANGED <<taskRuns, approver, source, watched, expired, opened, admitted>>
  BY DEF T!Receipt
<1>3. Is(t, "active") /\ task[t].ops[k] = "uncertain" BY <1>1, <1>2 DEF GrantInv, Held, Sending
<1>4. k \in T!RunIds BY KeyIsRun
<1>5. RestTyped' BY <1>2 DEF GrantInv, RestTyped, T!Idle, Places
<1>6. Held' BY <1>2, IdleHolds DEF T!Idle
<1>7. CASE UNCHANGED <<task, tried>>
  BY <1>2, <1>5, <1>6, <1>7, GoOn DEF T!Idle
<1>8. CASE task' = [task EXCEPT ![t].ops[k] = "accepted"] /\ tried' = [tried EXCEPT ![t][k] = 0]
  <2> DEFINE o == [task[t].ops EXCEPT ![k] = "accepted"]
             g == [task[t] EXCEPT !.ops = o]
  <2> HIDE DEF k
  <2>1. task[t] \in FileType BY DEF GrantInv, FilesTyped
  <2>2. task' = [task EXCEPT ![t] = g] BY <1>8, <2>1 DEF GrantInv, FilesTyped
  <2>3. /\ o \in [T!RunIds -> {"none", "uncertain", "accepted"}]
        /\ \A q \in T!RunIds : q # k => o[q] = task[t].ops[q]
    BY <1>4, <2>1 DEF FileType
  <2> HIDE DEF o
  <2>4. /\ g \in FileType /\ g.state = "active" /\ g.unwatch = task[t].unwatch
             /\ g.kind = task[t].kind
        /\ g.dispatched = task[t].dispatched /\ g.seen = task[t].seen /\ g.ops = o
    BY <1>3, <2>1, <2>3 DEF FileType, Is
  <2> HIDE DEF g
  <2>5. FilesTyped' /\ task'[t] = g /\ \A q \in T!RunIds :
          tried'[t][q] = IF q = k THEN 0 ELSE tried[t][q]
    BY <1>2, <1>4, <1>8, <2>2, <2>4 DEF GrantInv, FilesTyped
  <2>6. Filed(t)' BY <1>2, <1>3, <1>4, <2>3, <2>4, <2>5 DEF GrantInv, Filed, Is, T!Lasting, Blank
  <2>7. \A u \in Grants : Filed(u)' BY <1>2, <1>8, <2>2, <2>6, OneFile DEF GrantInv, FilesTyped
  <2>8. \A u \in Grants : Occupant(u)' => Occupant(u)
    BY <1>2, <1>3, <2>2, <2>4, <2>5 DEF Occupant, T!Known, T!Occupies, T!Claims, GrantInv,
       FilesTyped, T!Idle, Is
  <2>9. T!ActiveIsWatched'
    BY <1>2, <1>3, <2>2, <2>4, <2>5, WatchKept DEF GrantInv, T!Live, FilesTyped, Is
  <2>10. QED BY <1>5, <1>6, <2>5, <2>7, <2>8, <2>9, SoleKept DEF GrantInv
<1>9. QED BY <1>1, <1>7, <1>8 DEF T!Receipt

-------------------------------------------------------------------------------
(***************************************************************************)
(* The theorems                                                            *)
(***************************************************************************)
LEMMA StepInv == GrantInv /\ KindsDistinct /\ [T!Next]_(T!vars) => GrantInv'
<1> SUFFICES ASSUME GrantInv, KindsDistinct, [T!Next]_(T!vars) PROVE GrantInv'
  OBVIOUS
<1>1. CASE Aside BY <1>1, AsideInv
<1>2. ASSUME NEW t \in Grants, T!Call(t), ~T!OwnerDecides(t) PROVE GrantInv'
  BY <1>2, StartInv, ProposeInv, RevokeInv, DecideInv, NextHourInv, ExpireInv DEF T!Call
<1>3. ASSUME NEW e \in Events, T!Admit(e) \/ T!ApplicationEvent(e) PROVE GrantInv'
  BY <1>3, AdmitInv, ApplicationEventInv
<1>4. ASSUME NEW r \in T!RunIds, T!Send(r) \/ T!Complete(r) PROVE GrantInv'
  BY <1>4, SendInv, CompleteInv
<1>5. CASE T!Chained
  BY <1>5, SaveGrantInv, MarkInv, OpenInv, UnwatchInv, CreateAdmittedInv, AskInv, DispatchInv,
     ReceiptInv DEF T!Chained
<1>6. CASE T!Restart BY <1>6, RestartInv
<1>7. CASE UNCHANGED T!vars
  <2>1. RestTyped' /\ Held'
    BY <1>7 DEF T!vars, GrantInv, RestTyped, Held, Granting, Opening, Admitting, Sending, Is,
       T!Key, T!Lasting
  <2>2. \A u \in Grants : chain'.at = "grant" /\ chain'.task = u => Occupant(u)
    BY <1>7 DEF T!vars, Occupant
  <2>3. QED BY <1>7, <2>1, <2>2, GoOn DEF T!vars
<1>8. QED BY <1>1, <1>2, <1>3, <1>4, <1>5, <1>6, <1>7 DEF T!Next, Aside

LEMMA InvHolds == ASSUME KindsDistinct PROVE T!Spec => []GrantInv
<1>1. T!Init => GrantInv BY InitInv
<1>2. GrantInv /\ [T!Next]_(T!vars) => GrantInv' BY StepInv
<1>3. QED BY <1>1, <1>2, PTL DEF T!Spec

\* A message whose fate is unknown, a task's opener and an application's event are
\* each done at most once, through every restart, lost receipt and repeated call;
\* and the contact of every granted task is watched (tasks.ts, dispatchInitial,
\* applicationEvent and workerCall).
THEOREM GrantsAreKept == T!Spec => []GrantsHold
<1>1. T!Spec => []GrantInv BY InvHolds, TasksAssumption DEF KindsDistinct
<1>2. GrantInv => GrantsHold BY InvImplies DEF GrantsHold
<1>3. QED BY <1>1, <1>2, PTL

\* A message leaves only for a run still running, of a grant neither revoked nor
\* expired by then, whose owner was still the one paired when the authority of the
\* message was asked for the last time (workerCall's second look, authorize): a later
\* pairing, while the source's answers are awaited, is the only thing it overtakes.
THEOREM AuthorityIsChecked == T!Spec => SentWithAuthority
<1> DEFINE A == \A t \in Grants, r \in T!RunIds : tried'[t][r] > tried[t][r] =>
                  taskRuns[chain.run].st = "running" /\ T!Live(t) /\ vouched = task[t].owner.epoch
<1>1. GrantInv /\ [T!Next]_(T!vars) => A
  <2> SUFFICES ASSUME GrantInv, [T!Next]_(T!vars), NEW t \in Grants, NEW r \in T!RunIds,
                      tried'[t][r] > tried[t][r]
               PROVE  /\ taskRuns[chain.run].st = "running" /\ T!Live(t)
                      /\ vouched = task[t].owner.epoch
    OBVIOUS
  <2>1. tried[t][r] \in Nat BY DEF GrantInv, FilesTyped
  <2>2. tried' # tried BY <2>1
  <2>3. T!Dispatch \/ T!Receipt
    BY <2>2 DEF T!Next, T!Call, T!Chained, T!vars, T!Start, T!Propose, T!OwnerDecides, T!Revoke,
       T!Decide, T!NextHour, T!Expire, T!Admit,
       T!ApplicationEvent, T!StartRun, T!EndRun, T!Send, T!Complete, T!SaveGrant, T!Mark,
       T!Open, T!Unwatch, T!CreateAdmitted, T!Ask, T!Repair,
       T!Relink, T!Rebind, T!Restart
  <2>4. PICK u \in Grants, q \in T!RunIds : chain.task = u /\ chain.run = q
    BY <2>3 DEF T!Dispatch, T!Receipt, GrantInv, Held, Sending
  <2>5. ~T!Receipt
    <3>1. SUFFICES ASSUME tried' = [tried EXCEPT ![u][T!Key(u, q)] = 0] PROVE FALSE
      BY <2>2, <2>4 DEF T!Receipt
    <3>2. tried'[t][r] \in {0, tried[t][r]} BY <3>1, KeyIsRun DEF GrantInv, FilesTyped
    <3>3. QED BY <2>1, <3>2
  <2>6. /\ tried' = [tried EXCEPT ![u][T!Key(u, q)] = @ + 1] /\ chain.at = "asked"
        /\ taskRuns[q].st = "running" /\ u \notin expired
    BY <2>2, <2>3, <2>4, <2>5 DEF T!Dispatch
  <2>7. t = u
    <3>1. t # u => tried'[t] = tried[t] BY <2>6 DEF GrantInv, FilesTyped
    <3>2. QED BY <2>1, <3>1
  <2>8. Is(u, "active") /\ vouched = task[u].owner.epoch
    BY <2>4, <2>6 DEF GrantInv, Held, Sending
  <2>9. QED BY <2>4, <2>6, <2>7, <2>8 DEF T!Live, Is
<1>2. GrantInv /\ [T!Next]_(T!vars) => [A]_(T!vars) BY <1>1
<1>3. T!Spec => []GrantInv BY InvHolds, TasksAssumption DEF KindsDistinct
<1>4. QED BY <1>2, <1>3, PTL DEF T!Spec, T!SentWithAuthority, SentWithAuthority
===============================================================================
