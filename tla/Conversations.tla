---------------------------- MODULE Conversations ----------------------------
(***************************************************************************)
(* The conversations of the control state (src/src/control-state.ts): the  *)
(* owner's active and saved sessions, the private sessions of application  *)
(* scopes, the AI selection, and the choices queued work has captured.     *)
(* Every store operation is one step, as control-state.lock makes it; the  *)
(* menus and the application's controls read between such steps, so each   *)
(* of their reads is a step of its own.                                    *)
(*                                                                         *)
(* An engine is a client with its credential home.  A token is a native    *)
(* session ID.  A definition commented "Mutant of D" is D with a plausible *)
(* bug; no action uses it.                                                 *)
(***************************************************************************)
EXTENDS Naturals, Sequences, FiniteSets, SequencesExt, Functions

CONSTANTS
  Savable,   \* AI choices the owner may save: records [id, engine, provider]
  Detected,  \* those that discovery of installed clients adds and withdraws
  Requested, \* those a request brings, all of one id
  Initial,   \* the preset a fresh installation starts with
  Reports,   \* engines whose client reports its own native session ID
  Scopes,    \* application scopes
  Channels,  \* where the owner's controls are used from: Telegram, an application
  MaxSaved,  \* owner-saved presets kept (12 in the code)
  MaxConv,   \* bound: conversations created
  MaxToken,  \* bound: native session IDs
  MaxQueue,  \* bound: captured choices waiting
  MaxOps,    \* bound: control operations and application requests
  None

VARIABLES
  conv,      \* conversation -> its record; conversations are numbered as created
  others,    \* state.sessions: every conversation but the active one, in order
  active,    \* state.activeSession
  ai,        \* state.ai: presets, selected and default id, the fallback chain
  op,        \* channel -> the control operation it is in the middle of
  queue,     \* choices captured by admitted work, in order
  run,       \* the chat turn being executed
  claimed,   \* native sessions created: the token, the conversation and engine whose
             \* client created it, and whether that attempt was ordered
  token,     \* native session IDs used so far
  ops        \* control operations so far

vars == <<conv, others, active, ai, op, queue, run, claimed, token, ops>>
turn == <<queue, run, claimed>>   \* what no control operation changes

NoOp == [kind |-> "none"]
NoRun == [s |-> None]

Init ==
  /\ conv = <<>> /\ others = <<>> /\ active = None
  /\ ai = [presets |-> {Initial}, sel |-> Initial.id, def |-> Initial.id, chain |-> None]
  /\ op = [c \in Channels |-> NoOp]
  /\ queue = <<>> /\ run = NoRun /\ claimed = {} /\ token = 0 /\ ops = 0

PresetOf(id) == CHOOSE p \in ai.presets : p.id = id
Known(id) == \E p \in ai.presets : p.id = id
Put(ps, p) == {q \in ps : q.id # p.id} \cup {p}
OfEngine(e) == {p \in ai.presets : p.engine = e}

\* A conversation's binding is fixed when it is created.
Fresh(p, bound, scope) ==
  [engine |-> p.engine, preset |-> bound, own |-> token + 1, native |-> None,
   started |-> FALSE, archived |-> FALSE, scope |-> scope, shared |-> FALSE,
   linked |-> {}]
Spend == ops < MaxOps /\ ops' = ops + 1
Room == Len(conv) < MaxConv /\ token < MaxToken

\* rememberPreset: the active conversation keeps the selection it was used with.
Remember(cs) ==
  IF active # None /\ cs[active].engine = PresetOf(ai.sel).engine
  THEN [cs EXCEPT ![active].preset = PresetOf(ai.sel)] ELSE cs
Aside == IF active = None THEN others ELSE Append(others, active)
\* currentApplicationSession: s is the first conversation of the scope that is not
\* archived, or None without one.
IsCurrent(s, scope) ==
  LET all == IF active = None THEN others ELSE <<active>> \o others
      Fits(k) == conv[all[k]].scope = scope /\ ~conv[all[k]].archived
  IN IF \E k \in DOMAIN all : Fits(k)
     THEN \E k \in DOMAIN all : s = all[k] /\ Fits(k) /\ \A j \in 1 .. (k - 1) : ~Fits(j)
     ELSE s = None

\* sameChoice: resolveFallbacks drops a fallback that repeats the primary.
SameChoice(p, q) == p.engine = q.engine /\ p.provider = q.provider
Chain(p) == IF ai.chain = None THEN None ELSE IF SameChoice(ai.chain, p) THEN None ELSE ai.chain
Enqueue(who, s, p) ==
  /\ Len(queue) < MaxQueue
  /\ queue' = Append(queue, [who |-> who, s |-> s, preset |-> p, chain |-> Chain(p)])
  /\ UNCHANGED <<run, claimed>>

(***************************************************************************)
(* Admission of work                                                       *)
(***************************************************************************)
ProviderChanged(p) ==
  LET c == conv[active]
  IN c.started /\ c.preset # None /\ c.preset.provider # p.provider

\* captureChoice: a message of the owner pins the active conversation and the
\* selected preset; a change of provider since the last turn starts another one.
Capture ==
  LET p == PresetOf(ai.sel) IN
  /\ \/ /\ active # None
        /\ \/ /\ conv[active].engine # p.engine
              /\ UNCHANGED conv
           \/ /\ conv[active].engine = p.engine /\ ~ProviderChanged(p)
              /\ conv' = [conv EXCEPT ![active].preset = p]
        /\ Enqueue("owner", active, p)
        /\ UNCHANGED <<others, active, token>>
     \/ /\ active # None => conv[active].engine = p.engine /\ ProviderChanged(p)
        /\ Room
        /\ conv' = Append(conv, Fresh(p, p, None))
        /\ others' = Aside /\ active' = Len(conv) + 1 /\ token' = token + 1
        /\ Enqueue("owner", Len(conv) + 1, p)
  /\ UNCHANGED <<ai, op, ops>>

\* activate, when the binding shares the owner's conversation; rest: state.sessions.
Activate(s, share, cs, rest) ==
  IF share
  THEN /\ conv' = [cs EXCEPT ![s].shared = TRUE, ![s].archived = FALSE]
       /\ others' = IF active \in {s, None} THEN RemoveFirst(rest, s)
                    ELSE Append(RemoveFirst(rest, s), active)
       /\ active' = s
       /\ ai' = [ai EXCEPT !.presets = Put(ai.presets, cs[s].preset),
                           !.sel = cs[s].preset.id]
  ELSE conv' = cs /\ others' = rest /\ UNCHANGED <<active, ai>>

\* captureApplicationChoice: requested is the request's AI, None without one.
CaptureApplication(scope, s, share, requested) ==
  LET n == Len(conv) + 1
      p == IF requested = None THEN PresetOf(ai.sel) ELSE requested IN
  /\ IsCurrent(s, scope)
  /\ \/ /\ s # None /\ conv[s].preset # None
        /\ requested # None => requested.engine = conv[s].engine
        /\ LET cs == IF requested = None THEN conv ELSE [conv EXCEPT ![s].preset = requested]
           IN Activate(s, share, cs, others) /\ Enqueue("application", s, cs[s].preset)
        /\ UNCHANGED token
     \/ /\ s # None => conv[s].preset = None
        /\ Room /\ token' = token + 1
        /\ Activate(n, share, Append(conv, Fresh(p, p, scope)), Append(others, n))
        /\ Enqueue("application", n, p)
  /\ Spend /\ UNCHANGED op

(***************************************************************************)
(* Controls.  A channel first shows a page (what was active then is what   *)
(* an application expects of it), then acts.                               *)
(***************************************************************************)
Expected(c) == op[c].kind = "page" /\ op[c].seen = active

Open(c) ==
  /\ op[c] = NoOp
  /\ op' = [op EXCEPT ![c] = [kind |-> "page", seen |-> active]]
  /\ Spend
  /\ UNCHANGED <<conv, others, active, ai, turn, token>>

Leave(c) == op' = [op EXCEPT ![c] = NoOp]

\* /new and the application's new conversation: what is active is read ...
NewRead(c) ==
  /\ op[c].kind = "page"
  /\ op' = [op EXCEPT ![c] = [kind |-> "new", seen |-> @.seen, previous |-> active]]
  /\ UNCHANGED <<conv, others, active, ai, turn, token, ops>>

\* ... then resetSession replaces whatever is active by then (an application
\* names the conversation it means) ...
ResetSession(c) ==
  /\ op[c].kind = "new" /\ Room
  /\ (c = "application" => op[c].seen = active)
  /\ conv' = Append(Remember(conv), Fresh(PresetOf(ai.def), None, None))
  /\ others' = Aside /\ active' = Len(conv) + 1 /\ token' = token + 1
  /\ ai' = [ai EXCEPT !.sel = ai.def]
  /\ op' = [op EXCEPT ![c] = [kind |-> "close", previous |-> @.previous]]
  /\ UNCHANGED <<turn, ops>>

Closable(s) ==
  s # None /\ conv[s].started /\ conv[s].preset # None /\ conv[s].scope = None

\* ... and queueSessionClose queues its close turn, with the engine it had.
QueueClose(c) ==
  /\ op[c].kind = "close"
  /\ LET s == op[c].previous IN
       IF Closable(s)
       THEN /\ Len(queue) < MaxQueue
            /\ queue' = Append(queue, [who |-> "close", s |-> s,
                                       preset |-> conv[s].preset, chain |-> None])
       ELSE UNCHANGED queue
  /\ Leave(c)
  /\ UNCHANGED <<conv, others, active, ai, run, claimed, token, ops>>

\* Choose AI (menu.ts, select): whether the preset needs another conversation is
\* judged before selectPreset takes the lock.
Differs(p) ==
  ~SameChoice(PresetOf(ai.sel), p)
SelectRead(c, p) ==
  /\ op[c].kind = "page" /\ p \in ai.presets
  /\ op' = [op EXCEPT ![c] = [kind |-> "select", seen |-> @.seen, previous |-> active,
                              id |-> p.id, fresh |-> Differs(p)]]
  /\ UNCHANGED <<conv, others, active, ai, turn, token, ops>>

\* What selectPreset checks under the lock.
MaySelect(c) ==
  /\ op[c].kind = "select" /\ Known(op[c].id)
  /\ op[c].seen = active
  /\ active # None /\ Differs(PresetOf(op[c].id)) => op[c].fresh

SelectPreset(c) ==
  LET p == PresetOf(op[c].id) fresh == op[c].fresh IN
  /\ MaySelect(c)
  /\ \/ /\ fresh \/ active = None
        /\ Room /\ token' = token + 1
        /\ conv' = Append(Remember(conv), Fresh(p, p, None))
        /\ others' = Aside /\ active' = Len(conv) + 1
     \/ /\ ~fresh /\ active # None
        /\ LET c2 == conv[active] IN
             conv' = IF c2.engine = p.engine /\ (c2.preset = None \/ c2.preset.provider = p.provider)
                     THEN [conv EXCEPT ![active].preset = p] ELSE conv
        /\ UNCHANGED <<others, active, token>>
  /\ ai' = [ai EXCEPT !.sel = p.id]
  /\ op' = [op EXCEPT ![c] = IF fresh THEN [kind |-> "close", previous |-> @.previous] ELSE NoOp]
  /\ UNCHANGED <<turn, ops>>

\* A refusal (the menu or the page is stale) ends the operation.
Refuse(c) ==
  /\ \/ op[c].kind = "page"
     \/ (op[c].kind = "new" /\ c = "application" /\ op[c].seen # active)
     \/ (op[c].kind = "select" /\ ~MaySelect(c))
  /\ Leave(c)
  /\ UNCHANGED <<conv, others, active, ai, turn, token, ops>>

\* A conversation's own preset, saved by now or not; older records without one take
\* a saved preset of the same engine.
Binding(s) == IF conv[s].preset = None THEN OfEngine(conv[s].engine) ELSE {conv[s].preset}
\* Mutant of Restored: the conversation's preset is taken to be saved still.
RestoredLeft(p) == ai.presets
Restored(p) == Put(ai.presets, p)

\* switchSession, with p \in Binding(s).
Visible(s) == conv[s].scope = None \/ conv[s].shared
SwitchSession(c, s, p) ==
  /\ op[c].kind = "page" /\ (c = "application" => Expected(c))
  /\ s # active /\ ~conv[s].archived /\ Visible(s)
  /\ ~(conv[s].started /\ conv[s].engine \in Reports /\ conv[s].native = None)
  /\ conv' = Remember(conv)
  /\ others' = RemoveFirst(Aside, s)
  /\ active' = s
  /\ ai' = [ai EXCEPT !.presets = Restored(p), !.sel = p.id]
  /\ Leave(c)
  /\ UNCHANGED <<turn, token, ops>>

\* archiveSession, from the conversation menu.
ArchiveSession(s) ==
  /\ Visible(s) /\ ~conv[s].archived
  /\ IF s = active
     THEN /\ conv' = [Remember(conv) EXCEPT ![s].archived = TRUE]
          /\ others' = Aside /\ active' = None
          /\ ai' = [ai EXCEPT !.sel = ai.def]
     ELSE /\ conv' = [conv EXCEPT ![s].archived = TRUE]
          /\ UNCHANGED <<others, active, ai>>
  /\ Spend
  /\ UNCHANGED <<op, turn, token>>
RestoreSession(s) ==
  /\ Visible(s) /\ conv[s].archived
  /\ conv' = [conv EXCEPT ![s].archived = FALSE]
  /\ Spend
  /\ UNCHANGED <<others, active, ai, op, turn, token>>

\* "Retire the binding, not its native session."
Retire(s) == others' = Append(others, Len(conv) + 1)

\* changeApplicationSession on a private scope; s is what the page showed.
ChangeApplication(scope, p, s) ==
  LET next == IF p = None THEN PresetOf(ai.def) ELSE p IN
  /\ IsCurrent(s, scope)
  /\ s # None => ~conv[s].shared /\ s # active
  /\ \/ /\ p # None /\ s # None /\ conv[s].engine = p.engine
        /\ conv' = [conv EXCEPT ![s].preset = p]
        /\ UNCHANGED <<others, token>>
     \/ /\ p # None /\ s # None => conv[s].engine # p.engine
        /\ Room /\ token' = token + 1
        /\ conv' = Append(IF s = None THEN conv ELSE [conv EXCEPT ![s].archived = TRUE],
                          Fresh(next, next, scope))
        /\ Retire(s)
  /\ Spend
  /\ UNCHANGED <<active, ai, op, turn>>

\* savePreset: at the cap a choice not in use makes room.
SavePreset(p) ==
  /\ p \in Savable /\ ~Known(p.id)
  /\ LET full == Cardinality(ai.presets \ Detected) >= MaxSaved
         spare == {q \in ai.presets \ Detected : q.id \notin {ai.sel, ai.def}}
     IN IF full THEN \E q \in spare : ai' = [ai EXCEPT !.presets = Put(@ \ {q}, p)]
        ELSE ai' = [ai EXCEPT !.presets = Put(@, p)]
  /\ Spend
  /\ UNCHANGED <<conv, others, active, op, turn, token>>

\* Discovery replaces its entries, but for those in use.
Preserved == {p \in ai.presets : p \notin Detected \/ p.id \in {ai.sel, ai.def}}
\* syncClientPresets, at a start and from Choose AI.
SyncPresets(found) ==
  /\ ai' = [ai EXCEPT !.presets =
              Preserved \cup {p \in found : \A q \in Preserved : q.id # p.id}]
  /\ Spend
  /\ UNCHANGED <<conv, others, active, op, turn, token>>

\* ezenciel-agents-ai default and fallbacks.
DefaultPreset ==
  /\ ai' = [ai EXCEPT !.def = ai.sel]
  /\ Spend
  /\ UNCHANGED <<conv, others, active, op, turn, token>>
SetFallbacks(p) ==
  /\ ai' = [ai EXCEPT !.chain = p]
  /\ Spend
  /\ UNCHANGED <<conv, others, active, op, turn, token>>

(***************************************************************************)
(* Execution of a captured choice                                          *)
(***************************************************************************)
Stored(s) == s = active \/ s \in ToSet(others)
\* executionSession: the conversation exists under the engine that was captured,
\* and a client that names its own sessions has named this one.
Resolves(q) == Stored(q.s) /\ conv[q.s].engine = q.preset.engine
Resumable(q) ==
  ~(conv[q.s].started /\ conv[q.s].engine \in Reports /\ conv[q.s].native = None)

\* engineSession: the conversation's own native session for its engine, a linked
\* one for any other.
Linked(c, e) == {l \in c.linked : l.engine = e}
Native(c, e) ==
  IF c.engine = e
  THEN [engine |-> e, token |-> IF c.native # None THEN c.native ELSE c.own, started |-> c.started]
  ELSE CHOOSE l \in Linked(c, e) : TRUE

\* Who created a session under token t.
Claims(t) == {m \in claimed : m.token = t}

\* launchSetup: q is a captured choice or the run that continues it, p the setup.
Launch(q, p, chain, ordered) ==
  LET c == conv[q.s]
      new == c.engine # p.engine /\ Linked(c, p.engine) = {}
      cs == IF new THEN [conv EXCEPT ![q.s].linked = @ \cup
                           {[engine |-> p.engine, token |-> token + 1, started |-> FALSE]}]
            ELSE conv
      n == Native(cs[q.s], p.engine)
  IN /\ new => token < MaxToken
     /\ token' = IF new THEN token + 1 ELSE token
     /\ conv' = cs
     /\ run' = [s |-> q.s, who |-> q.who, preset |-> p, chain |-> chain, ordered |-> ordered,
                token |-> n.token, resumed |-> n.started,
                offered |-> \E m \in Claims(n.token) : m.ordered]

StartRun ==
  /\ run = NoRun /\ queue # <<>>
  /\ queue' = Tail(queue)
  /\ LET q == Head(queue) IN
       IF Resolves(q) /\ Resumable(q)
       THEN Launch(q, q.preset, q.chain, q.chain # None)
       ELSE UNCHANGED <<conv, run, token>>
  /\ UNCHANGED <<others, active, ai, op, claimed, ops>>

\* An ordered run whose setup was rejected tries the fallback of its chain.
NextSetup ==
  /\ run # NoRun /\ run.token = 0
  /\ Launch(run, run.chain, None, TRUE)
  /\ UNCHANGED <<others, active, ai, op, queue, claimed, ops>>

\* Where the native session of the run's engine is kept.
SetNative(t, started) ==
  LET s == run.s e == run.preset.engine IN
  IF conv[s].engine = e THEN [conv EXCEPT ![s].native = t, ![s].started = started]
  ELSE [conv EXCEPT ![s].linked = {l \in @ : l.engine # e}
                                    \cup {[engine |-> e, token |-> t, started |-> started]}]

\* The client of the run creates its session under token t.
Claim(t) == claimed' = claimed \cup {[token |-> t, s |-> run.s, engine |-> run.preset.engine,
                                      ordered |-> run.ordered]}

\* onSession: a reporting client names the session it created.
ReportSession ==
  /\ run # NoRun /\ run.token > 0 /\ run.preset.engine \in Reports /\ ~run.resumed
  /\ token < MaxToken /\ token' = token + 1
  /\ conv' = SetNative(token + 1, TRUE)
  /\ Claim(token + 1)
  /\ run' = [run EXCEPT !.token = token + 1, !.resumed = TRUE]
  /\ UNCHANGED <<others, active, ai, op, queue, ops>>

\* Any other client creates a session under the ID it was given.
ClaimSession ==
  /\ run # NoRun /\ run.token > 0 /\ run.preset.engine \notin Reports
  /\ Claims(run.token) = {}
  /\ Claim(run.token)
  /\ UNCHANGED <<conv, others, active, ai, op, queue, run, token, ops>>

\* Mutant of Settle: a rejected attempt's ID is offered again.
SettleKeeps(worked) ==
  conv' = (IF worked THEN SetNative(run.token, TRUE) ELSE conv) /\ UNCHANGED token
\* settleEngineSession, for clients that use IDs of the relay.
Settle(worked) ==
  IF worked THEN conv' = SetNative(run.token, TRUE) /\ UNCHANGED token
  ELSE token < MaxToken /\ token' = token + 1 /\ conv' = SetNative(token + 1, FALSE)

\* The turn ends: its work began or it completed, or its setup rejected it before.
FinishRun(worked) ==
  /\ run # NoRun /\ run.token > 0
  /\ worked /\ run.preset.engine \notin Reports => Claims(run.token) # {}
  /\ LET settled == Native(conv[run.s], run.preset.engine).started
                    \/ (run.ordered /\ run.preset.engine \in Reports) IN
     \/ settled /\ UNCHANGED <<conv, token>>
     \/ ~settled /\ run.ordered /\ Settle(worked)
     \/ /\ ~settled /\ ~run.ordered
        /\ conv' = IF worked THEN [conv EXCEPT ![run.s].started = TRUE] ELSE conv
        /\ UNCHANGED token
  /\ run' = IF ~worked /\ run.chain # None THEN [run EXCEPT !.token = 0] ELSE NoRun
  /\ UNCHANGED <<others, active, ai, op, queue, claimed, ops>>

Next ==
  \/ Capture
  \/ \E scope \in Scopes :
       \E s \in DOMAIN conv \cup {None} :
         \/ \E share \in BOOLEAN, r \in Requested \cup {None} :
              CaptureApplication(scope, s, share, r)
         \/ \E p \in ai.presets \cup {None} : ChangeApplication(scope, p, s)
  \/ \E c \in Channels :
       \/ Open(c) \/ NewRead(c) \/ ResetSession(c) \/ QueueClose(c) \/ SelectPreset(c) \/ Refuse(c)
       \/ \E p \in ai.presets : SelectRead(c, p)
       \/ \E s \in DOMAIN conv : \E p \in Binding(s) : SwitchSession(c, s, p)
  \/ \E s \in DOMAIN conv : ArchiveSession(s) \/ RestoreSession(s)
  \/ \E p \in Savable : SavePreset(p)
  \/ \E found \in SUBSET Detected : SyncPresets(found)
  \/ DefaultPreset
  \/ \E p \in ai.presets \cup {None} : SetFallbacks(p)
  \/ StartRun \/ NextSetup \/ ReportSession \/ ClaimSession
  \/ \E worked \in BOOLEAN : FinishRun(worked)

Spec == Init /\ [][Next]_vars

(***************************************************************************)
(* Properties                                                              *)
(***************************************************************************)
\* Every write leaves a state that isState accepts when it is read again: the
\* selected and default presets exist under one id each, a conversation's preset
\* is of its engine, and it has one linked session per other engine.  A state
\* that failed this would stop every later operation of the agent.
StateIsReadable ==
  /\ Known(ai.sel) /\ Known(ai.def)
  /\ \A p, q \in ai.presets : p.id = q.id => p = q
  /\ \A s \in DOMAIN conv :
       /\ conv[s].preset # None => conv[s].preset.engine = conv[s].engine
       /\ \A l, m \in conv[s].linked :
            l.engine # conv[s].engine /\ (l.engine = m.engine => l = m)
  /\ IsInjective(others) /\ (active = None \/ active \notin ToSet(others))

\* "Admitted work still resolves the old immutable session ID": whatever the owner
\* or an application does between the admission of a message and its turn (new,
\* switch, archive, another AI), the captured conversation is there and bound to
\* the engine that was captured with it.
AdmittedWorkResolves == \A i \in DOMAIN queue : Resolves(queue[i])

\* Control operations leave a state that can be read and that admitted work needs.
WorkResolves == StateIsReadable /\ AdmittedWorkResolves

\* "A native session never resumes under another home": a turn resumes only a
\* session its own conversation's client created on that engine; and no turn starts
\* a session under an ID that the client of an ordered attempt has already used.
ResumesItsOwn ==
  run # NoRun /\ run.token > 0 =>
    /\ run.resumed => \A m \in Claims(run.token) : m.s = run.s /\ m.engine = run.preset.engine
    /\ ~run.resumed => ~run.offered

\* A private application conversation is never the owner's: it does not become
\* active, and neither the owner's messages nor a close turn (which carries the
\* owner's authority) run in it.
PrivateStaysPrivate ==
  /\ active # None => Visible(active)
  /\ \A i \in DOMAIN queue : queue[i].who = "owner" => Visible(queue[i].s)
  /\ \A i \in DOMAIN queue : queue[i].who = "close" => conv[queue[i].s].scope = None

\* Conversations keep apart: their native sessions, and their owners.
ConversationsKeepApart == ResumesItsOwn /\ PrivateStaysPrivate
=============================================================================
