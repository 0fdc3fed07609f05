----------------------------- MODULE MCControl -----------------------------
(***************************************************************************)
(* What the control state and its grants decide: pairing, authority and    *)
(* the application bindings; the conversations and the AI choices; and the *)
(* external tasks.  The three share no state here: a behaviour is one of   *)
(* one of them, its part, while the others stay as they start, and the run *)
(* explores the union of their state graphs.                               *)
(***************************************************************************)
EXTENDS Ownership, TLC
CONSTANTS a1, a2, app1, app2, t1, t2, e1

\* Conversations
CONSTANTS Initial, Savable, Detected, Requested, Reports, Scopes, Channels, MaxSaved, MaxConv,
          MaxToken, MaxQueue, MaxOps

Preset(id, engine, provider) == [id |-> id, engine |-> engine, provider |-> provider]
FirstPreset    == Preset("initial", "claude", "a")
OwnPresets     == {Preset("own", "codex", "o")}
FoundPresets   == {Preset("detected", "codex", "p")}
BroughtPresets == {Preset("application", "codex", "o")}

\* Tasks
CONSTANTS Grants, Events, GrantKinds, Hourly, Total, Outstanding, Links, MaxOwners, MaxBinds,
          MaxRestarts

VARIABLES
  part,
  \* Conversations
  conv, others, active, ai, op, queue, run, claimed, token, ops,
  \* Tasks
  task, approval, taskRuns, chain, approver, source, watched, expired, restarts, tried,
  opened, admitted, vouched

\* Two administrators, two applications, and two grants.
Symmetric == Permutations({a1, a2}) \cup Permutations({app1, app2}) \cup Permutations({t1, t2})

conversations == <<conv, others, active, ai, op, queue, run, claimed, token, ops>>
tasks == <<task, approval, taskRuns, chain, approver, source, watched, expired, restarts, tried,
           opened, admitted, vouched>>

C == INSTANCE Conversations
T == INSTANCE Tasks WITH runs <- taskRuns, owner <- approver
\* A task of no kind is none.
ASSUME TasksAssumption == None \notin T!AllKinds
\* None is no choice of an AI and no conversation; discovery gives each client it
\* finds an ID of its own.
ASSUME ConversationsAssumption ==
  /\ None \notin Nat \cup Savable \cup Detected \cup Requested \cup {Initial}
  /\ \A p, q \in Detected : p.id = q.id => p = q

\* Of the operations of the conversations' part the last only opens a page in Telegram,
\* with no turn and no other control operation under way: enough to go back to a
\* conversation whose preset made room for another.
LastPage ==
  ops # ops' /\ ops' = MaxOps =>
    C!Open("telegram") /\ run = C!NoRun /\ \A c \in Channels : op[c] = C!NoOp

ControlInit == part \in {"ownership", "conversations", "tasks"} /\ Init /\ C!Init /\ T!Init
ControlNext ==
  \/ part = "ownership"     /\ Next   /\ UNCHANGED <<part, conversations, tasks>>
  \/ part = "conversations" /\ C!Next /\ LastPage /\ UNCHANGED <<part, vars, tasks>>
  \/ part = "tasks"         /\ T!Next /\ UNCHANGED <<part, vars, conversations>>
ControlSpec == ControlInit /\ [][ControlNext]_<<part, vars, conversations, tasks>>

\* Conversations: whatever the controls did meanwhile, the state can be read and
\* admitted work finds the conversation it was captured with.
WorkResolves == C!WorkResolves
\* Conversations: they share no native session and no owner.
ConversationsKeepApart == C!ConversationsKeepApart
\* Tasks: a grant's messages and runs are not repeated across crashes, restarts and
\* retries, and a contact is watched as long as a grant waits for it.
GrantsHold == T!GrantsHold
\* Tasks: a message goes out for a running run under a live grant, whose owner was
\* the one paired when its authority was last asked, whatever came between the steps
\* of the call that sends it.
SentWithAuthority == T!SentWithAuthority
=============================================================================
