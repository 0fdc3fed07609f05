------------------------------ MODULE Ownership ------------------------------
(***************************************************************************)
(* Who owns the agent and whose work may run: the owner record and the     *)
(* pairing requests of the control state (src/src/control-state.ts), the   *)
(* application bindings with their own lock (src/src/application-channel.  *)
(* ts), and the authority that admitted runs carry (src/src/identity.ts).  *)
(*                                                                         *)
(* One operation of the control store is one step, as control-state.lock   *)
(* makes it; the claim of a link token awaits the bindings while it holds  *)
(* that lock and is two.  The commands on bindings and the admission of an *)
(* application's request read the owner and the bindings in separate       *)
(* steps.  Random identifiers (owner generations, bindings, link tokens)   *)
(* are drawn from one counter, those of links are told by the changes of   *)
(* the link before them.  A definition                                     *)
(* commented "Mutant of D" is D with a plausible bug; no action uses it.   *)
(***************************************************************************)
EXTENDS Naturals, FiniteSets

CONSTANTS
  Users,      \* Telegram accounts (each with its private chat)
  OwnerIds,   \* verified identities an administrator may register
  Apps,       \* application names; the token an application is registered with too,
              \* which a rotation may replace by any other
  Kinds,      \* commands on bindings: register, share (register, sharing the
              \* owner's conversation), rotate, remove, launch
  Admins,     \* administrators' commands that may be under way at once
  MaxPending, \* pairing requests kept (3 in the code)
  MaxSerial,  \* bound: random identifiers drawn
  MaxChanges, \* bound: changes of the owner or the link, and commands on bindings, together
  MaxRuns,    \* bound: runs admitted
  MaxCalls,   \* bound: administrators' commands on bindings
  None

ASSUME NoneAssumption == None \notin Admins \cup {"claim", "token"}
ASSUME KindsAssumption == Kinds \subseteq {"register", "share", "rotate", "remove", "launch"}

VARIABLES
  owner,     \* None, or [id, gen, chat, link]: chat and link of the Telegram link
  pending,   \* pairing requests: of an account, or of a binding with a token
  lock,      \* who holds control-state.lock between two steps; None otherwise
  bindings,  \* application-bindings.json
  binderLock,\* application-bindings.json.lock
  admin,     \* command -> where it is
  calls,     \* commands on bindings so far
  claim,     \* the claim of a link token under way
  submit,    \* the application request being admitted (admissions are serial)
  runs,      \* admitted runs
  serial,
  eras       \* revocations and changes of the Telegram link so far

control == <<owner, pending>>
binding == <<bindings, binderLock, admin, calls>>
work == <<submit, runs>>
vars == <<control, lock, binding, claim, work, serial, eras>>

Idle == [pc |-> "idle"]
Init ==
  /\ owner = None /\ pending = {} /\ lock = None
  /\ bindings = {} /\ binderLock = None /\ admin = [a \in Admins |-> Idle] /\ calls = 0
  /\ claim = Idle /\ submit = Idle /\ runs = {} /\ serial = 0
  /\ eras = [revoked |-> 0, linked |-> 0]

Linked == IF owner = None THEN FALSE ELSE owner.chat # None
Authority(o) == IF o = None THEN None ELSE [id |-> o.id, gen |-> o.gen]
\* sameOwner of an authority and the control state's owner.
Same(a) == owner # None /\ a = Authority(owner)
Draw == serial < MaxSerial /\ serial' = serial + 1
Free == lock = None
MayChange == eras.linked + eras.revoked + calls < MaxChanges
Era(e) == eras' = [eras EXCEPT ![e] = @ + 1]

(***************************************************************************)
(* Pairing and ownership                                                   *)
(***************************************************************************)
\* prune: a request expires.
Expire(r) ==
  /\ Free /\ pending' = pending \ {r}
  /\ UNCHANGED <<owner, lock, binding, claim, work, serial, eras>>

\* checkOwner, requestPairing: an unknown account writes to the bot.
RequestPairing(u) ==
  /\ Free /\ ~Linked /\ Cardinality(pending) < MaxPending
  /\ \A r \in pending : r.token = None => r.user # u
  /\ pending' = pending \cup {[user |-> u, token |-> None]}
  /\ UNCHANGED <<owner, lock, binding, claim, work, serial, eras>>

\* bootstrapApplicationOwner: an installation without a bot.
Bootstrap(u) ==
  /\ Free /\ owner = None /\ Draw /\ MayChange
  /\ owner' = [id |-> u, gen |-> serial + 1, chat |-> u, link |-> eras.linked]
  /\ pending' = {} /\ Era("linked")
  /\ UNCHANGED <<lock, binding, claim, work>>

\* registerOwner, the first time; the same identity is found there later.
RegisterOwner(id) ==
  /\ Free /\ owner = None /\ Draw
  /\ owner' = [id |-> id, gen |-> serial + 1, chat |-> None, link |-> None]
  /\ UNCHANGED <<pending, lock, binding, claim, work, eras>>

\* unlinkTelegram: the account's identity and generation stay.
Unlink ==
  /\ Free /\ owner # None
  /\ owner' = [owner EXCEPT !.chat = None, !.link = None]
  /\ pending' = {} /\ IF Linked THEN Era("linked") ELSE UNCHANGED eras
  /\ UNCHANGED <<lock, binding, claim, work, serial>>

\* approveOwner: the first owner takes the account's identity.
Approve(r) ==
  /\ Free /\ r.token = None /\ ~Linked /\ MayChange
  /\ IF owner = None THEN Draw ELSE UNCHANGED serial
  /\ owner' = [id |-> IF owner = None THEN r.user ELSE owner.id,
               gen |-> IF owner = None THEN serial + 1 ELSE owner.gen,
               chat |-> r.user, link |-> eras.linked]
  /\ pending' = {} /\ Era("linked")
  /\ UNCHANGED <<lock, binding, claim, work>>

\* revokeOwner: conversations, AI choices and waits go with the owner.
Revoke ==
  /\ Free /\ owner # None
  /\ owner' = None /\ pending' = {} /\ Era("revoked")
  /\ UNCHANGED <<lock, binding, claim, work, serial>>

\* createApplicationTelegramPairing: one request per binding.  The binding was
\* read before the lock was taken; it may be gone by now.
CreateLink(b) ==
  /\ Free /\ b.share /\ Same(b.owner) /\ ~Linked
  /\ LET kept == {r \in pending : r.token = None \/ r.user # b.bid} IN
       /\ Cardinality(kept) < MaxPending
       /\ pending' = kept \cup {[user |-> b.bid, token |-> "token", owner |-> b.owner]}
  /\ UNCHANGED <<owner, lock, binding, claim, work, serial, eras>>

\* Mutant of ClaimBegin: the state is read before the lock is taken.
ClaimBeginUnlocked(r, u) ==
  /\ Free /\ claim = Idle /\ r.token # None /\ ~Linked /\ Same(r.owner)
  /\ \E b \in bindings : b.bid = r.user /\ b.share /\ b.owner = r.owner
  /\ claim' = [pc |-> "claiming", user |-> u, owner |-> owner]
  /\ UNCHANGED <<control, lock, binding, work, serial, eras>>
\* claimApplicationTelegramPairing: the request and the live binding are checked
\* under the lock ...
ClaimBegin(r, u) ==
  /\ Free /\ claim = Idle /\ r.token # None /\ ~Linked /\ Same(r.owner)
  /\ \E b \in bindings : b.bid = r.user /\ b.share /\ b.owner = r.owner
  /\ claim' = [pc |-> "claiming", user |-> u, owner |-> owner]
  /\ lock' = "claim"
  /\ UNCHANGED <<control, binding, work, serial, eras>>

\* ... and the account is linked, whatever happened to the binding meanwhile.
ClaimEnd ==
  /\ claim.pc = "claiming" /\ lock \in {"claim", None} /\ MayChange
  /\ owner' = [claim.owner EXCEPT !.chat = claim.user, !.link = eras.linked]
  /\ pending' = {} /\ Era("linked")
  /\ lock' = None /\ claim' = Idle
  /\ UNCHANGED <<binding, work, serial>>

\* A request that no longer stands is used up by the attempt.
ClaimRefused(r) ==
  /\ Free /\ r.token # None
  /\ \/ Linked \/ ~Same(r.owner)
     \/ ~\E b \in bindings : b.bid = r.user /\ b.share /\ b.owner = r.owner
  /\ pending' = pending \ {r}
  /\ UNCHANGED <<owner, lock, binding, claim, work, serial, eras>>

(***************************************************************************)
(* Application bindings                                                    *)
(***************************************************************************)
AdminStep(a, from, to) == admin[a].pc = from /\ admin' = [admin EXCEPT ![a] = to]
Call(kind, app, cred) ==
  [pc |-> "called", kind |-> kind, app |-> app, cred |-> cred, owner |-> Authority(owner)]

Tokens(kind, app) ==
  CASE kind \in {"register", "share"} -> {app} [] kind = "rotate" -> Apps [] OTHER -> {None}
\* application-cli: the owner is read first.
BindCall(a, kind, app, cred) ==
  /\ owner # None /\ calls < MaxCalls /\ MayChange /\ calls' = calls + 1
  /\ AdminStep(a, "idle", Call(kind, app, cred))
  /\ UNCHANGED <<control, lock, bindings, binderLock, claim, work, serial, eras>>

\* Mutant of BindLock: the lock file is not created exclusively.
BindLockAnyway(a) ==
  /\ AdminStep(a, "called", [pc |-> "locked", call |-> admin[a], list |-> bindings])
  /\ binderLock' = a
  /\ UNCHANGED <<control, lock, bindings, calls, claim, work, serial, eras>>
\* The lock, which nobody waits for, and the bindings.
BindLock(a) ==
  /\ binderLock = None
  /\ AdminStep(a, "called", [pc |-> "locked", call |-> admin[a], list |-> bindings])
  /\ binderLock' = a
  /\ UNCHANGED <<control, lock, bindings, calls, claim, work, serial, eras>>
BindBusy(a) ==
  /\ binderLock # None /\ AdminStep(a, "called", Idle)
  /\ UNCHANGED <<control, lock, bindings, binderLock, calls, claim, work, serial, eras>>

\* What register and taskLaunch accept, for the owner of this moment.
Acceptable(c, list) ==
  LET existing == {b \in list : b.app = c.app} IN
  /\ IF c.kind = "launch" THEN TRUE ELSE Same(c.owner)
  /\ c.kind \in {"rotate", "launch"} => \E b \in existing : Same(b.owner)
  /\ c.kind \in {"register", "share"} => existing = {}
  /\ c.kind \in {"register", "share", "rotate"} =>
       \A b \in list \ existing : b.cred # c.cred
BindCheck(a) ==
  /\ admin[a].pc = "locked"
  /\ Acceptable(admin[a].call, admin[a].list)
  /\ AdminStep(a, "locked", [admin[a] EXCEPT !.pc = "checked"])
  /\ UNCHANGED <<control, lock, bindings, binderLock, calls, claim, work, serial, eras>>
BindRefused(a) ==
  /\ admin[a].pc = "locked" /\ ~Acceptable(admin[a].call, admin[a].list)
  /\ AdminStep(a, "locked", Idle)
  /\ binderLock' = None
  /\ UNCHANGED <<control, lock, bindings, calls, claim, work, serial, eras>>

Written(c, list) ==
  LET rest == {b \in list : b.app # c.app}
      old == {b \in list : b.app = c.app} IN
  rest \cup
  CASE c.kind = "remove" -> {}
    [] c.kind = "launch" -> {[b EXCEPT !.launch = TRUE] : b \in old}
    [] c.kind = "rotate" -> {[b EXCEPT !.cred = c.cred] : b \in old}
    [] OTHER -> {[app |-> c.app, bid |-> serial + 1, cred |-> c.cred, owner |-> c.owner,
                  share |-> c.kind = "share", launch |-> FALSE]}
\* writeBindings, and the lock is given up.
BindWrite(a) ==
  /\ admin[a].pc = "checked"
  /\ bindings' = Written(admin[a].call, admin[a].list)
  /\ IF admin[a].call.kind \in {"register", "share"} THEN Draw ELSE UNCHANGED serial
  /\ AdminStep(a, "checked", Idle)
  /\ binderLock' = None
  /\ UNCHANGED <<control, lock, calls, claim, work, eras>>

(***************************************************************************)
(* Work                                                                    *)
(***************************************************************************)
\* A message of the linked account, or an occurrence of a schedule made from it;
\* the run carries the link of the moment it is created.
TelegramAdmit ==
  /\ Linked /\ Cardinality(runs) < MaxRuns
  /\ runs' = runs \cup {[bid |-> None, req |-> None, owner |-> Authority(owner), chat |-> owner.chat,
                         link |-> owner.link, era |-> eras, status |-> "queued"]}
  /\ UNCHANGED <<control, lock, binding, claim, submit, serial, eras>>

\* route: authenticate finds the credential's binding of this owner.
Authenticate(b, req) ==
  /\ submit = Idle /\ Same(b.owner)
  /\ submit' = [pc |-> "authenticated", bid |-> b.bid, req |-> req, era |-> eras]
  /\ UNCHANGED <<control, lock, binding, claim, runs, serial, eras>>

\* submit: the binding is looked up again; a request admitted before is answered.
Lookup ==
  /\ submit.pc = "authenticated"
  /\ LET found == {b \in bindings : b.bid = submit.bid}
         prior == {r \in runs : r.bid = submit.bid /\ r.req = submit.req} IN
       submit' = IF found = {} \/ prior # {} THEN Idle
                 ELSE [pc |-> "found", bid |-> submit.bid, req |-> submit.req,
                       era |-> submit.era, owner |-> (CHOOSE b \in found : TRUE).owner]
  /\ UNCHANGED <<control, lock, binding, claim, runs, serial, eras>>

\* The owner is compared; the choice of AI is captured, which waits for the control
\* lock; then the run is created under the binding's authority.
SubmitCheck ==
  /\ submit.pc = "found"
  /\ submit' = IF Same(submit.owner) THEN [submit EXCEPT !.pc = "checked"] ELSE Idle
  /\ UNCHANGED <<control, lock, binding, claim, runs, serial, eras>>
SubmitCreate ==
  /\ submit.pc = "checked" /\ Free /\ Cardinality(runs) < MaxRuns
  /\ runs' = runs \cup {[bid |-> submit.bid, req |-> submit.req, owner |-> submit.owner, chat |-> None,
                         link |-> None, era |-> submit.era, status |-> "queued"]}
  /\ submit' = Idle
  /\ UNCHANGED <<control, lock, binding, claim, serial, eras>>

\* Mutant of OwnsRun: an owner's chat is enough, whichever link it was admitted under.
OwnsRunOfChat(r) == Same(r.owner) /\ (r.chat = None \/ r.chat = owner.chat)
\* identity.ts: a run of a chat belongs to the link it was admitted under.
OwnsRun(r) ==
  /\ Same(r.owner)
  /\ r.chat = None \/ (r.chat = owner.chat /\ r.link = owner.link)
\* ApplicationBindings.authorize.
Authorized(r) ==
  /\ OwnsRun(r)
  /\ r.bid # None => \E b \in bindings : b.bid = r.bid /\ Same(b.owner)

SetStatus(r, s) == runs' = (runs \ {r}) \cup {[r EXCEPT !.status = s]}
\* startJob: the checks, of which one is that the run is still queued.
StartRefused(r) ==
  /\ r.status = "queued" /\ ~Authorized(r) /\ SetStatus(r, "ended")
  /\ UNCHANGED <<control, lock, binding, claim, submit, serial, eras>>
Start(r) ==
  /\ r.status = "queued" /\ Authorized(r) /\ SetStatus(r, "running")
  /\ UNCHANGED <<control, lock, binding, claim, submit, serial, eras>>
\* It ends by itself, or the sweep stops it because its authority is gone.
End(r) ==
  /\ r.status = "running" /\ SetStatus(r, "ended")
  /\ UNCHANGED <<control, lock, binding, claim, submit, serial, eras>>

Next ==
  \/ \E r \in pending : Expire(r) \/ Approve(r) \/ ClaimRefused(r)
  \/ \E r \in pending, u \in Users : ClaimBegin(r, u)
  \/ \E u \in Users : RequestPairing(u) \/ Bootstrap(u)
  \/ \E id \in OwnerIds : RegisterOwner(id)
  \/ Unlink \/ Revoke \/ ClaimEnd
  \/ \E b \in bindings : CreateLink(b) \/ \E req \in {1} : Authenticate(b, req)
  \/ \E a \in Admins :
       \/ \E k \in Kinds, app \in Apps : \E c \in Tokens(k, app) : BindCall(a, k, app, c)
       \/ BindLock(a) \/ BindBusy(a) \/ BindCheck(a) \/ BindRefused(a) \/ BindWrite(a)
  \/ TelegramAdmit \/ Lookup \/ SubmitCheck \/ SubmitCreate
  \/ \E r \in runs : StartRefused(r) \/ Start(r) \/ End(r)

Spec == Init /\ [][Next]_vars

(***************************************************************************)
(* Properties                                                              *)
(***************************************************************************)
\* Whoever links or unlinks Telegram at the same time, the installation's identity
\* and generation change only by passing through a revocation: bindings, tasks,
\* schedules and runs are held by that pair.
OwnerStaysItself ==
  [][owner # None /\ owner' # None => Authority(owner') = Authority(owner)]_vars

\* Two administrators' commands never undo each other: a binding changes or goes
\* only by a command about its own application.
BindingsSurvive ==
  [][\A b \in bindings : b \notin bindings' =>
       \E a \in Admins : admin[a].pc = "checked" /\ admin[a].call.app = b.app
                         /\ admin'[a] = Idle]_vars

\* Withdrawn authority does not come back: work requested before a revocation of
\* the owner, or by a chat before its link was ended, is never authorized again,
\* not even when the same account is paired again, and not when the request was
\* being admitted while it happened.
AuthorityNeverReturns ==
  \A r \in runs : Authorized(r) =>
    /\ r.era.revoked = eras.revoked
    /\ r.chat # None => r.era.linked = eras.linked
=============================================================================
