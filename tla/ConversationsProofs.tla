------------------------- MODULE ConversationsProofs -------------------------
(***************************************************************************)
(* Theorems about the conversations of the control state and the choices   *)
(* that admitted work has captured, for any presets, engines, scopes,      *)
(* channels and bounds.                                                    *)
(*                                                                         *)
(* What makes the captured choices resolve is that no operation of the     *)
(* menus, of an application or of a turn loses a conversation or changes   *)
(* its engine, whatever it read before the lock: ConvInv adds to WorkInv   *)
(* where every conversation is kept (Placed), what it is bound to (Bound), *)
(* that the selection can be read (Selection), and what an operation in    *)
(* its middle may still act on (OpsInv).  What keeps native sessions apart *)
(* is that a session ID sits in one slot of one conversation (SlotInv),    *)
(* that whoever claimed one did so from that slot (ClaimInv), and that the *)
(* turn under way runs in the slot it was launched with (RunInv).          *)
(***************************************************************************)
EXTENDS MCControl, SequenceTheorems, TLAPS

Presets == Savable \cup Detected \cup Requested \cup {Initial}
Ids == {p.id : p \in Presets}
Engines == {p.engine : p \in Presets}
NativeSessions == [engine : Engines, token : Nat, started : BOOLEAN]
Records == [engine : Engines, preset : Presets \cup {None}, own : Nat, native : Nat \cup {None},
            started : BOOLEAN, archived : BOOLEAN, scope : Scopes \cup {None}, shared : BOOLEAN,
            linked : SUBSET NativeSessions]
Pinned == [who : {"owner", "application", "close"}, s : Nat, preset : Presets,
           chain : Presets \cup {None}]
Turns == [s : Nat, who : {"owner", "application", "close"}, preset : Presets,
          chain : Presets \cup {None}, ordered : BOOLEAN, token : Nat, resumed : BOOLEAN,
          offered : BOOLEAN]
Operations ==
  {C!NoOp} \cup [kind : {"page"}, seen : Nat \cup {None}]
         \cup [kind : {"new"}, seen : Nat \cup {None}, previous : Nat \cup {None}]
         \cup [kind : {"close"}, previous : Nat \cup {None}]
         \cup [kind : {"select"}, seen : Nat \cup {None}, previous : Nat \cup {None}, id : Ids,
               fresh : BOOLEAN]
Selections ==
  [presets : SUBSET Presets, sel : Ids, def : Ids, chain : Presets \cup {None}]
ConvTypes ==
  /\ conv \in Seq(Records)
  /\ others \in Seq(Nat) /\ active \in Nat \cup {None}
  /\ ai \in Selections
  /\ op \in [Channels -> Operations]
  /\ queue \in Seq(Pinned)
  /\ run \in {C!NoRun} \cup Turns
  /\ claimed \subseteq [token : Nat, s : Nat, engine : Engines, ordered : BOOLEAN]
  /\ token \in Nat /\ ops \in Nat

\* The selection can be read, and the active conversation is of its engine: a
\* message captured now is one its conversation's client can run.
Selection ==
  /\ C!Known(ai.sel) /\ C!Known(ai.def)
  /\ \A p, q \in ai.presets : p.id = q.id => p = q
  /\ active # None => conv[active].engine = C!PresetOf(ai.sel).engine

\* Every conversation is the active one or a saved one, once.
Placed ==
  /\ \A s \in DOMAIN conv : C!Stored(s)
  /\ C!ToSet(others) \subseteq DOMAIN conv /\ C!IsInjective(others)
  /\ active # None => active \in DOMAIN conv /\ active \notin C!ToSet(others)

\* What a conversation is bound to.
Bound ==
  \A s \in DOMAIN conv :
    /\ conv[s].preset # None => conv[s].preset.engine = conv[s].engine
    /\ \A l, m \in conv[s].linked :
         l.engine # conv[s].engine /\ (l.engine = m.engine => l = m)

\* What waits was captured with a conversation that is there, bound as it was.
WorkInv ==
  \A i \in DOMAIN queue :
    /\ queue[i].s \in DOMAIN conv
    /\ conv[queue[i].s].engine = queue[i].preset.engine
    /\ queue[i].who = "owner" => C!Visible(queue[i].s)
    /\ queue[i].who = "close" => conv[queue[i].s].scope = None

\* What an operation found active is a conversation, and stays one.
Continues == {"new", "select", "close"}
OpsInv ==
  \A c \in Channels : op[c].kind \in Continues => op[c].previous \in DOMAIN conv \cup {None}

PrivateInv == active # None => C!Visible(active)

\* A conversation's native sessions: its own, and one for each engine it was linked to.
Slots(c) ==
  {[engine |-> c.engine, token |-> IF c.native # None THEN c.native ELSE c.own,
    started |-> c.started]} \cup c.linked

\* No two native sessions have one ID.
SlotInv ==
  \A s, z \in DOMAIN conv : \A l \in Slots(conv[s]), m \in Slots(conv[z]) :
    l.token \in 1 .. token /\ (l.token = m.token => s = z /\ l = m)

\* A session was created for the conversation and engine that hold its ID; one not
\* known to have started, by a client that is no reporter, and under an order only by
\* the turn under way.
ClaimInv ==
  \A m \in claimed :
    /\ m.token \in 1 .. token
    /\ \A s \in DOMAIN conv : \A l \in Slots(conv[s]) :
         l.token = m.token =>
           /\ m.s = s /\ m.engine = l.engine
           /\ m.engine \in Reports => l.started
           /\ ~l.started /\ m.ordered => run # C!NoRun /\ run.token = m.token /\ run.ordered

\* The turn under way runs in its conversation's session of its engine, or is about
\* to try its fallback.
RunInv ==
  run # C!NoRun =>
    /\ run.s \in DOMAIN conv
    /\ run.token = 0 => run.chain # None
    /\ run.token > 0 =>
         /\ \E l \in Slots(conv[run.s]) : l.token = run.token /\ l.engine = run.preset.engine
         /\ ~run.resumed => ~run.offered

ConvInv ==
  /\ ConvTypes /\ Selection /\ Placed /\ Bound /\ WorkInv /\ OpsInv /\ PrivateInv
  /\ SlotInv /\ ClaimInv /\ RunInv

USE ConversationsAssumption DEF Presets

\* Sequences
LEMMA AppendOf ==
  ASSUME NEW q \in Seq(Nat), C!IsInjective(q), NEW x \in Nat, x \notin C!ToSet(q)
  PROVE  /\ Append(q, x) \in Seq(Nat) /\ C!IsInjective(Append(q, x))
         /\ C!ToSet(Append(q, x)) = C!ToSet(q) \cup {x}
<1>1. /\ Append(q, x) \in Seq(Nat) /\ DOMAIN Append(q, x) = 1 .. (Len(q) + 1)
      /\ \A i \in 1 .. Len(q) : Append(q, x)[i] = q[i]
      /\ Append(q, x)[Len(q) + 1] = x /\ DOMAIN q = 1 .. Len(q) /\ Len(q) \in Nat
  OBVIOUS
<1>2. C!ToSet(Append(q, x)) = C!ToSet(q) \cup {x}
  <2>1. \A i \in DOMAIN Append(q, x) : i \in DOMAIN q \/ i = Len(q) + 1 BY <1>1
  <2>2. DOMAIN q \subseteq DOMAIN Append(q, x) /\ Len(q) + 1 \in DOMAIN Append(q, x) BY <1>1
  <2>3. QED BY <1>1, <2>1, <2>2 DEF C!ToSet
<1>3. C!IsInjective(Append(q, x)) BY <1>1 DEF C!IsInjective, C!ToSet
<1>4. QED BY <1>1, <1>2, <1>3

LEMMA RemoveAtOf ==
  ASSUME NEW q \in Seq(Nat), NEW k \in 1 .. Len(q)
  PROVE  /\ C!RemoveAt(q, k) \in Seq(Nat) /\ Len(C!RemoveAt(q, k)) = Len(q) - 1
         /\ \A i \in 1 .. (Len(q) - 1) : C!RemoveAt(q, k)[i] = q[IF i < k THEN i ELSE i + 1]
<1> DEFINE a == SubSeq(q, 1, k - 1)
           b == SubSeq(q, k + 1, Len(q))
<1>1. a \in Seq(Nat) /\ Len(a) = k - 1 /\ \A i \in 1 .. (k - 1) : a[i] = q[i]
  OBVIOUS
<1>2. b \in Seq(Nat) /\ Len(b) = Len(q) - k /\ \A i \in 1 .. (Len(q) - k) : b[i] = q[k + i]
  OBVIOUS
<1>3. C!RemoveAt(q, k) = a \o b BY DEF C!RemoveAt
<1>4. Len(q) \in Nat /\ k \in Nat OBVIOUS
<1> HIDE DEF a, b
<1>5. a \in Seq(Nat) /\ b \in Seq(Nat) BY <1>1, <1>2
<1>6. /\ a \o b \in Seq(Nat) /\ Len(a \o b) = Len(a) + Len(b)
      /\ \A i \in 1 .. Len(a) + Len(b) : (a \o b)[i] = IF i <= Len(a) THEN a[i] ELSE b[i - Len(a)]
  BY <1>5, ConcatProperties, Zenon
<1>7. Len(a) + Len(b) = Len(q) - 1 BY <1>1, <1>2, <1>4
<1>8. ASSUME NEW i \in 1 .. (Len(q) - 1)
      PROVE  (a \o b)[i] = q[IF i < k THEN i ELSE i + 1]
  <2>1. CASE i < k BY <1>1, <1>4, <1>6, <1>7, <2>1
  <2>2. CASE ~(i < k)
    <3>a. i \in 1 .. Len(a) + Len(b) /\ ~(i <= Len(a)) /\ Len(a) = k - 1
      BY <1>1, <1>4, <1>7, <2>2
    <3>1. (a \o b)[i] = b[i - (k - 1)] BY <1>6, <3>a
    <3>2. i - (k - 1) \in 1 .. (Len(q) - k) /\ k + (i - (k - 1)) = i + 1 BY <1>4, <2>2
    <3>3. QED BY <1>2, <2>2, <3>1, <3>2
  <2>3. QED BY <2>1, <2>2
<1>9. QED BY <1>3, <1>6, <1>7, <1>8

LEMMA RemoveFirstOf ==
  ASSUME NEW q \in Seq(Nat), C!IsInjective(q), NEW x
  PROVE  /\ C!RemoveFirst(q, x) \in Seq(Nat) /\ C!IsInjective(C!RemoveFirst(q, x))
         /\ C!ToSet(C!RemoveFirst(q, x)) = C!ToSet(q) \ {x}
<1>0. Len(q) \in Nat /\ DOMAIN q = 1 .. Len(q) OBVIOUS
<1>1. ASSUME \A i \in 1 .. Len(q) : q[i] # x
      PROVE  C!RemoveFirst(q, x) = q /\ x \notin C!ToSet(q)
  <2>1. ~\E i \in 1 .. Len(q) : q[i] = x BY <1>1
  <2>2. C!RemoveFirst(q, x) = q BY <2>1, Zenon DEF C!RemoveFirst
  <2>3. QED BY <1>0, <1>1, <2>2 DEF C!ToSet
<1>2. ASSUME NEW k \in 1 .. Len(q), q[k] = x
      PROVE  /\ C!RemoveFirst(q, x) \in Seq(Nat) /\ C!IsInjective(C!RemoveFirst(q, x))
             /\ C!ToSet(C!RemoveFirst(q, x)) = C!ToSet(q) \ {x}
  <2> DEFINE I == {i \in 1 .. Len(q) : q[i] = x}
             r == C!RemoveAt(q, k)
  <2>1. I = {k} BY <1>2 DEF C!IsInjective
  <2>2. C!Min(I) = k BY <2>1 DEF C!Min
  <2>3. C!SelectInSeq(q, LAMBDA v : v = x) = k BY <2>1, <2>2 DEF C!SelectInSeq
  <2>4. C!RemoveFirst(q, x) = r BY <1>2, <2>3 DEF C!RemoveFirst
  <2>5. /\ r \in Seq(Nat) /\ DOMAIN r = 1 .. (Len(q) - 1)
        /\ \A i \in 1 .. (Len(q) - 1) : r[i] = q[IF i < k THEN i ELSE i + 1]
    BY RemoveAtOf
  <2> HIDE DEF r
  <2> DEFINE from(i) == IF i < k THEN i ELSE i + 1
  <2>a. \A i \in DOMAIN r : from(i) \in 1 .. Len(q) /\ from(i) # k /\ r[i] = q[from(i)]
    <3>1. \A i \in 1 .. (Len(q) - 1) : from(i) \in 1 .. Len(q) /\ from(i) # k BY <1>0
    <3>2. QED BY <2>5, <3>1
  <2>b. \A i, j \in DOMAIN r : from(i) = from(j) => i = j
    <3>1. \A i, j \in 1 .. (Len(q) - 1) : from(i) = from(j) => i = j BY <1>0
    <3>2. QED BY <2>5, <3>1
  <2> HIDE DEF from
  <2>6. C!IsInjective(r) BY <1>0, <2>a, <2>b DEF C!IsInjective
  <2>7. C!ToSet(r) \subseteq C!ToSet(q) \ {x}
    <3>1. \A i \in DOMAIN r : r[i] # x /\ r[i] \in C!ToSet(q)
      BY <1>0, <1>2, <2>a DEF C!IsInjective, C!ToSet
    <3>2. QED BY <3>1 DEF C!ToSet
  <2>8. C!ToSet(q) \ {x} \subseteq C!ToSet(r)
    <3>1. \A j \in 1 .. Len(q) : j # k => \E i \in DOMAIN r : r[i] = q[j]
      <4>1. ASSUME NEW j \in 1 .. Len(q), j < k PROVE j \in DOMAIN r /\ r[j] = q[j]
        BY <1>0, <1>2, <2>5, <4>1
      <4>2. ASSUME NEW j \in 1 .. Len(q), j > k PROVE j - 1 \in DOMAIN r /\ r[j - 1] = q[j]
        BY <1>0, <1>2, <2>5, <4>2
      <4>3. QED BY <4>1, <4>2, <1>0, <1>2
    <3>2. QED BY <3>1, <1>0, <1>2 DEF C!ToSet
  <2>9. QED BY <2>4, <2>5, <2>6, <2>7, <2>8
<1>3. QED BY <1>1, <1>2

\* Conversations after a step that runs no turn: what was there keeps its engine, its
\* native sessions, its scope and being shared; one more may be added.
Kin(c, d) ==
  /\ d.engine = c.engine /\ d.own = c.own /\ d.native = c.native /\ d.started = c.started
  /\ d.linked = c.linked /\ d.scope = c.scope /\ (c.shared => d.shared)
Seen(c) == c.scope = None \/ c.shared
BoundAs(c) == c.preset # None => c.preset.engine = c.engine
Unused(c) == c.own = token + 1 /\ c.native = None /\ ~c.started /\ c.linked = {}
Grown(cs, t) ==
  /\ cs \in Seq(Records)
  /\ \A s \in DOMAIN conv : s \in DOMAIN cs /\ Kin(conv[s], cs[s])
  /\ \A s \in DOMAIN cs : BoundAs(cs[s])
  /\ \/ DOMAIN cs = DOMAIN conv /\ t = token
     \/ DOMAIN cs = DOMAIN conv \cup {Len(conv) + 1} /\ t = token + 1 /\ Unused(cs[Len(conv) + 1])

LEMMA GrownSame ==
  ASSUME ConvInv PROVE Grown(conv, token)
BY DEF ConvInv, ConvTypes, Bound, Grown, Kin, BoundAs

LEMMA GrownPreset ==
  ASSUME NEW cs, NEW t, Grown(cs, t), NEW s \in DOMAIN cs, NEW p \in Presets,
         p.engine = cs[s].engine
  PROVE  Grown([cs EXCEPT ![s].preset = p], t)
<1> DEFINE d == [cs EXCEPT ![s].preset = p]
<1>1. cs \in Seq(Records) /\ cs[s] \in Records BY DEF Grown
<1>2. /\ d \in Seq(Records) /\ DOMAIN d = DOMAIN cs /\ d[s] = [cs[s] EXCEPT !.preset = p]
      /\ \A z \in DOMAIN cs : z # s => d[z] = cs[z]
  BY <1>1 DEF Records
<1>3. Kin(cs[s], d[s]) /\ BoundAs(d[s]) /\ (Unused(cs[s]) => Unused(d[s]))
  BY <1>1, <1>2 DEF Records, Kin, BoundAs, Unused
<1> HIDE DEF d
<1>4. QED BY <1>2, <1>3 DEF Grown, Kin

LEMMA GrownFlags ==
  ASSUME NEW cs, NEW t, Grown(cs, t), NEW s \in DOMAIN cs, NEW a \in BOOLEAN
  PROVE  /\ Grown([cs EXCEPT ![s].archived = a], t)
         /\ Grown([cs EXCEPT ![s].shared = TRUE, ![s].archived = a], t)
<1> DEFINE d == [cs EXCEPT ![s].shared = TRUE, ![s].archived = a]
           e == [cs EXCEPT ![s].archived = a]
<1>1. cs \in Seq(Records) /\ cs[s] \in Records BY DEF Grown
<1> DEFINE v == [cs[s] EXCEPT !.shared = TRUE, !.archived = a]
           w == [cs[s] EXCEPT !.archived = a]
<1>0. v \in Records /\ w \in Records BY <1>1 DEF Records
<1>a. d = [cs EXCEPT ![s] = v] /\ e = [cs EXCEPT ![s] = w] BY <1>1
<1> HIDE DEF v, w, d, e
<1>2. /\ d \in Seq(Records) /\ DOMAIN d = DOMAIN cs /\ d[s] = v
      /\ \A z \in DOMAIN cs : z # s => d[z] = cs[z]
  BY <1>1, <1>0, <1>a
<1>3. /\ e \in Seq(Records) /\ DOMAIN e = DOMAIN cs /\ e[s] = w
      /\ \A z \in DOMAIN cs : z # s => e[z] = cs[z]
  BY <1>1, <1>0, <1>a
<1>4. /\ Kin(cs[s], d[s]) /\ (BoundAs(cs[s]) => BoundAs(d[s])) /\ (Unused(cs[s]) => Unused(d[s]))
      /\ Kin(cs[s], e[s]) /\ (BoundAs(cs[s]) => BoundAs(e[s])) /\ (Unused(cs[s]) => Unused(e[s]))
  BY <1>1, <1>2, <1>3 DEF v, w, Records, Kin, BoundAs, Unused
<1>5. Grown(d, t) BY <1>2, <1>4 DEF Grown, Kin
<1>6. Grown(e, t) BY <1>3, <1>4 DEF Grown, Kin
<1>7. QED BY <1>5, <1>6 DEF d, e

LEMMA GrownAppend ==
  ASSUME ConvInv, NEW cs, Grown(cs, token), NEW p \in Presets, NEW b \in {p, None},
         NEW sc \in Scopes \cup {None}
  PROVE  /\ Grown(Append(cs, C!Fresh(p, b, sc)), token + 1)
         /\ Len(cs) = Len(conv)
         /\ DOMAIN Append(cs, C!Fresh(p, b, sc)) = DOMAIN conv \cup {Len(conv) + 1}
         /\ Len(conv) + 1 \in Nat
         /\ Append(cs, C!Fresh(p, b, sc))[Len(conv) + 1] = C!Fresh(p, b, sc)
<1> DEFINE f == C!Fresh(p, b, sc)
           d == Append(cs, f)
<1>1. token \in Nat /\ conv \in Seq(Records) BY DEF ConvInv, ConvTypes
<1>2. cs \in Seq(Records) /\ DOMAIN cs = DOMAIN conv BY <1>1 DEF Grown
<1>3. Len(cs) = Len(conv) BY <1>1, <1>2
<1>4. p.engine \in Engines BY DEF Engines
<1>5. f \in Records BY <1>1, <1>4 DEF C!Fresh, Records
<1>6. Unused(f) /\ BoundAs(f) BY DEF Unused, BoundAs, C!Fresh
<1> HIDE DEF f
<1>7. /\ d \in Seq(Records) /\ DOMAIN d = DOMAIN conv \cup {Len(conv) + 1}
      /\ d[Len(conv) + 1] = f /\ \A s \in DOMAIN conv : d[s] = cs[s]
  BY <1>1, <1>2, <1>3, <1>5
<1> HIDE DEF d
<1>8. Grown(d, token + 1) BY <1>6, <1>7, <1>2 DEF Grown
<1>9. QED BY <1>1, <1>3, <1>7, <1>8 DEF d, f

LEMMA KinSlots ==
  ASSUME NEW c, NEW d, Kin(c, d) PROVE Slots(d) = Slots(c)
BY DEF Kin, Slots

\* What such a step leaves true.
LEMMA GrownKeeps ==
  ASSUME ConvInv, Grown(conv', token'), UNCHANGED <<run, claimed>>
  PROVE  Bound' /\ SlotInv' /\ ClaimInv' /\ RunInv'
<1> USE DEF ConvInv
<1>1. conv \in Seq(Records) /\ conv' \in Seq(Records) /\ token \in Nat /\ token' \in Nat
  BY DEF ConvTypes, Grown
<1> DEFINE n == Len(conv) + 1
<1>2. /\ n \notin DOMAIN conv
      /\ \A s \in DOMAIN conv' : s \in DOMAIN conv \/ s = n
      /\ \A s \in DOMAIN conv : s \in DOMAIN conv' /\ Kin(conv[s], conv'[s])
      /\ \A s \in DOMAIN conv' : BoundAs(conv'[s])
      /\ n \in DOMAIN conv' => token' = token + 1 /\ Unused(conv'[n])
      /\ token <= token'
  BY <1>1 DEF Grown
<1>3. \A s \in DOMAIN conv : Slots(conv'[s]) = Slots(conv[s]) BY <1>2, KinSlots
<1>4. n \in DOMAIN conv' =>
        Slots(conv'[n]) = {[engine |-> conv'[n].engine, token |-> token + 1, started |-> FALSE]}
  <2>1. n \in DOMAIN conv' => conv'[n] \in Records BY <1>1
  <2>2. QED BY <1>2, <2>1 DEF Slots, Unused, Records
<1>5. n \in DOMAIN conv' => \A l \in Slots(conv'[n]) : l.token = token + 1 BY <1>4
<1>6. \A s \in DOMAIN conv : \A l \in Slots(conv[s]) : l.token \in 1 .. token BY DEF SlotInv
<1> HIDE DEF n
<1>7. Bound'
  <2>1. \A s \in DOMAIN conv : conv'[s].linked = conv[s].linked
          /\ conv'[s].engine = conv[s].engine
    BY <1>2 DEF Kin
  <2>2. n \in DOMAIN conv' => conv'[n].linked = {} BY <1>2 DEF Unused
  <2>3. QED BY <1>2, <2>1, <2>2 DEF Bound, BoundAs
<1>8. SlotInv'
  <2> SUFFICES ASSUME NEW s \in DOMAIN conv', NEW z \in DOMAIN conv',
                      NEW l \in Slots(conv'[s]), NEW m \in Slots(conv'[z])
               PROVE  l.token \in 1 .. token' /\ (l.token = m.token => s = z /\ l = m)
    BY DEF SlotInv, Slots
  <2>1. CASE s \in DOMAIN conv /\ z \in DOMAIN conv BY <2>1, <1>1, <1>2, <1>3 DEF SlotInv
  <2>2. CASE s = n /\ z \in DOMAIN conv BY <2>2, <1>1, <1>2, <1>3, <1>5, <1>6
  <2>3. CASE s \in DOMAIN conv /\ z = n BY <2>3, <1>1, <1>2, <1>3, <1>5, <1>6
  <2>4. CASE s = n /\ z = n
    <3>1. l.token = token + 1 BY <2>4, <1>5
    <3>2. l = m BY <2>4, <1>4
    <3>3. QED BY <2>4, <3>1, <3>2, <1>1, <1>2
  <2>5. QED BY <1>2, <2>1, <2>2, <2>3, <2>4
<1>9. ClaimInv'
  <2> SUFFICES ASSUME NEW m \in claimed
               PROVE  /\ m.token \in 1 .. token'
                      /\ \A s \in DOMAIN conv' : \A l \in Slots(conv'[s]) : l.token = m.token =>
                           /\ m.s = s /\ m.engine = l.engine
                           /\ m.engine \in Reports => l.started
                           /\ ~l.started /\ m.ordered =>
                                run # C!NoRun /\ run.token = m.token /\ run.ordered
    BY DEF ClaimInv, Slots
  <2>1. m.token \in 1 .. token BY DEF ClaimInv
  <2>2. \A s \in DOMAIN conv : \A l \in Slots(conv'[s]) : l.token = m.token =>
           /\ m.s = s /\ m.engine = l.engine
           /\ m.engine \in Reports => l.started
           /\ ~l.started /\ m.ordered => run # C!NoRun /\ run.token = m.token /\ run.ordered
    BY <1>3 DEF ClaimInv
  <2>3. n \in DOMAIN conv' => \A l \in Slots(conv'[n]) : l.token # m.token
    BY <1>1, <1>5, <2>1
  <2>4. QED BY <1>1, <1>2, <2>1, <2>2, <2>3
<1>10. RunInv' BY <1>2, <1>3 DEF RunInv
<1>11. QED BY <1>7, <1>8, <1>9, <1>10

\* The work that waits keeps its conversations, and one more may be captured.
LEMMA GrownWork ==
  ASSUME ConvInv, Grown(conv', token'),
         \/ UNCHANGED queue
         \/ \E q \in Pinned :
              /\ queue' = Append(queue, q)
              /\ q.s \in DOMAIN conv' /\ conv'[q.s].engine = q.preset.engine
              /\ q.who = "owner" => Seen(conv'[q.s])
              /\ q.who = "close" => conv'[q.s].scope = None
  PROVE  queue' \in Seq(Pinned) /\ WorkInv'
<1> USE DEF ConvInv
<1>1. \A s \in DOMAIN conv : s \in DOMAIN conv' /\ Kin(conv[s], conv'[s]) BY DEF Grown
<1>2. queue \in Seq(Pinned) BY DEF ConvTypes
<1>3. \A i \in DOMAIN queue :
        /\ queue[i].s \in DOMAIN conv' /\ conv'[queue[i].s].engine = queue[i].preset.engine
        /\ queue[i].who = "owner" => Seen(conv'[queue[i].s])
        /\ queue[i].who = "close" => conv'[queue[i].s].scope = None
  BY <1>1 DEF WorkInv, Kin, C!Visible, Seen
<1>4. CASE UNCHANGED queue BY <1>2, <1>3, <1>4 DEF WorkInv, C!Visible, Seen
<1>5. ASSUME NEW q \in Pinned, queue' = Append(queue, q),
             q.s \in DOMAIN conv', conv'[q.s].engine = q.preset.engine,
             q.who = "owner" => Seen(conv'[q.s]), q.who = "close" => conv'[q.s].scope = None
      PROVE  queue' \in Seq(Pinned) /\ WorkInv'
  <2>1. /\ queue' \in Seq(Pinned) /\ DOMAIN queue' = 1 .. (Len(queue) + 1)
        /\ queue'[Len(queue) + 1] = q
        /\ \A i \in 1 .. Len(queue) : queue'[i] = queue[i]
        /\ DOMAIN queue = 1 .. Len(queue) /\ Len(queue) \in Nat
    BY <1>2, <1>5
  <2>2. \A i \in DOMAIN queue' : i \in DOMAIN queue \/ i = Len(queue) + 1 BY <2>1
  <2>3. \A i \in DOMAIN queue' :
          /\ queue'[i].s \in DOMAIN conv' /\ conv'[queue'[i].s].engine = queue'[i].preset.engine
          /\ queue'[i].who = "owner" => Seen(conv'[queue'[i].s])
          /\ queue'[i].who = "close" => conv'[queue'[i].s].scope = None
    BY <1>3, <1>5, <2>1, <2>2
  <2>4. QED BY <2>1, <2>3 DEF WorkInv, C!Visible, Seen
<1>6. QED BY <1>4, <1>5

\* What an ID of a preset stands for.
LEMMA PickOf ==
  ASSUME NEW ps, NEW p \in ps, \A q \in ps : q.id = p.id => q = p
  PROVE  (CHOOSE q \in ps : q.id = p.id) = p
OBVIOUS

LEMMA PresetKnown ==
  ASSUME ConvInv, NEW id, C!Known(id)
  PROVE  /\ C!PresetOf(id) \in ai.presets /\ C!PresetOf(id) \in Presets /\ C!PresetOf(id).id = id
         /\ id \in Ids
<1>1. PICK p \in ai.presets : p.id = id BY DEF C!Known
<1>2. C!PresetOf(id) \in ai.presets /\ C!PresetOf(id).id = id BY <1>1 DEF C!PresetOf
<1>3. ai.presets \subseteq Presets BY DEF ConvInv, ConvTypes, Selections
<1>4. QED BY <1>2, <1>3 DEF Ids

LEMMA PutOf ==
  ASSUME NEW ps \in SUBSET Presets, \A q, r \in ps : q.id = r.id => q = r, NEW p \in Presets
  PROVE  /\ C!Put(ps, p) \subseteq Presets /\ p \in C!Put(ps, p)
         /\ \A q, r \in C!Put(ps, p) : q.id = r.id => q = r
         /\ \A q \in ps : \E r \in C!Put(ps, p) : r.id = q.id
BY DEF C!Put

\* Choosing a preset makes it the selection.
LEMMA Chosen ==
  ASSUME ConvInv, NEW p \in Presets,
         ai' = [ai EXCEPT !.presets = C!Put(ai.presets, p), !.sel = p.id]
  PROVE  /\ ai' \in Selections /\ C!Known(ai.sel)' /\ C!Known(ai.def)'
         /\ (\A q, r \in ai.presets : q.id = r.id => q = r)'
         /\ C!PresetOf(ai.sel)' = p
<1>1. ai \in Selections BY DEF ConvInv, ConvTypes
<1>2. ai.presets \in SUBSET Presets BY <1>1 DEF Selections
<1>3. \A q, r \in ai.presets : q.id = r.id => q = r BY DEF ConvInv, Selection
<1>4. ai'.presets = C!Put(ai.presets, p) /\ ai'.sel = p.id /\ ai'.def = ai.def
      /\ ai'.chain = ai.chain
  BY <1>1 DEF Selections
<1>5. /\ C!Put(ai.presets, p) \subseteq Presets /\ p \in C!Put(ai.presets, p)
      /\ \A q, r \in C!Put(ai.presets, p) : q.id = r.id => q = r
      /\ \A q \in ai.presets : \E r \in C!Put(ai.presets, p) : r.id = q.id
  BY <1>2, <1>3, PutOf
<1>6. ai' \in Selections
  <2>1. p.id \in Ids BY DEF Ids
  <2>2. QED BY <1>1, <1>5, <2>1 DEF Selections
<1>7. C!Known(ai.sel)' BY <1>4, <1>5 DEF C!Known
<1>8. C!Known(ai.def)' BY <1>4, <1>5 DEF ConvInv, Selection, C!Known
<1>9. C!PresetOf(ai.sel)' = p BY <1>4, <1>5, PickOf DEF C!PresetOf
<1>10. QED BY <1>4, <1>5, <1>6, <1>7, <1>8, <1>9

LEMMA AsideOf ==
  ASSUME ConvInv
  PROVE  C!Aside \in Seq(Nat) /\ C!IsInjective(C!Aside) /\ C!ToSet(C!Aside) = DOMAIN conv
<1>1. /\ others \in Seq(Nat) /\ active \in Nat \cup {None} /\ C!IsInjective(others)
      /\ C!ToSet(others) \subseteq DOMAIN conv
      /\ \A s \in DOMAIN conv : s = active \/ s \in C!ToSet(others)
      /\ active # None => active \in DOMAIN conv /\ active \notin C!ToSet(others)
      /\ None \notin DOMAIN conv
  BY DEF ConvInv, ConvTypes, Placed, C!Stored
<1>2. CASE active = None BY <1>1, <1>2 DEF C!Aside
<1>3. CASE active # None
  <2>1. /\ Append(others, active) \in Seq(Nat) /\ C!IsInjective(Append(others, active))
        /\ C!ToSet(Append(others, active)) = C!ToSet(others) \cup {active}
    BY <1>1, <1>3, AppendOf
  <2>2. QED BY <1>1, <1>3, <2>1 DEF C!Aside
<1>4. QED BY <1>2, <1>3

LEMMA RememberOf ==
  ASSUME ConvInv
  PROVE  Grown(C!Remember(conv), token) /\ DOMAIN C!Remember(conv) = DOMAIN conv
<1>1. Grown(conv, token) BY GrownSame
<1>2. conv \in Seq(Records) /\ token \in Nat BY DEF ConvInv, ConvTypes
<1>3. CASE active # None /\ conv[active].engine = C!PresetOf(ai.sel).engine
  <2>1. C!PresetOf(ai.sel) \in Presets BY PresetKnown DEF ConvInv, Selection
  <2>2. active \in DOMAIN conv BY <1>3 DEF ConvInv, Placed
  <2>3. Grown([conv EXCEPT ![active].preset = C!PresetOf(ai.sel)], token)
    BY <1>1, <1>3, <2>1, <2>2, GrownPreset
  <2>4. QED BY <1>2, <1>3, <2>3 DEF C!Remember
<1>4. CASE ~(active # None /\ conv[active].engine = C!PresetOf(ai.sel).engine)
  BY <1>1, <1>4 DEF C!Remember
<1>5. QED BY <1>3, <1>4

\* A new conversation becomes active.
LEMMA PlacedNew ==
  ASSUME ConvInv, DOMAIN conv' = DOMAIN conv \cup {Len(conv) + 1},
         others' = C!Aside, active' = Len(conv) + 1
  PROVE  Placed' /\ others' \in Seq(Nat) /\ active' \in Nat \cup {None}
<1>1. conv \in Seq(Records) BY DEF ConvInv, ConvTypes
<1>2. Len(conv) + 1 \in Nat /\ Len(conv) + 1 \notin DOMAIN conv BY <1>1
<1>3. C!Aside \in Seq(Nat) /\ C!IsInjective(C!Aside) /\ C!ToSet(C!Aside) = DOMAIN conv BY AsideOf
<1>4. QED BY <1>2, <1>3 DEF Placed, C!Stored

\* A new conversation is put aside.
LEMMA PlacedAside ==
  ASSUME ConvInv
  PROVE  LET n == Len(conv) + 1
         IN /\ Append(others, n) \in Seq(Nat) /\ C!IsInjective(Append(others, n))
            /\ C!ToSet(Append(others, n)) = C!ToSet(others) \cup {n}
            /\ n \in Nat /\ n \notin DOMAIN conv /\ active # n
<1>1. conv \in Seq(Records) BY DEF ConvInv, ConvTypes
<1>2. Len(conv) + 1 \in Nat /\ Len(conv) + 1 \notin DOMAIN conv BY <1>1
<1>3. /\ others \in Seq(Nat) /\ C!IsInjective(others) /\ Len(conv) + 1 \notin C!ToSet(others)
      /\ active # Len(conv) + 1
  BY <1>2 DEF ConvInv, ConvTypes, Placed
<1>4. QED BY <1>2, <1>3, AppendOf

\* Where nothing moved, nothing changes.
LEMMA Unmoved ==
  ASSUME ConvInv, Grown(conv', token')
  PROVE  /\ UNCHANGED active => PrivateInv'
         /\ UNCHANGED op => OpsInv'
         /\ UNCHANGED <<active, ai>> => Selection'
         /\ UNCHANGED <<others, active>> /\ DOMAIN conv' = DOMAIN conv => Placed'
<1>1. \A s \in DOMAIN conv : s \in DOMAIN conv' /\ Kin(conv[s], conv'[s]) BY DEF Grown
<1>2. active # None => active \in DOMAIN conv BY DEF ConvInv, Placed
<1>3. UNCHANGED active => PrivateInv' BY <1>1, <1>2 DEF ConvInv, PrivateInv, C!Visible, Kin
<1>4. UNCHANGED op => OpsInv' BY <1>1 DEF ConvInv, OpsInv
<1>5. UNCHANGED <<active, ai>> => Selection'
  BY <1>1, <1>2 DEF ConvInv, Selection, C!Known, C!PresetOf, Kin
<1>6. UNCHANGED <<others, active>> /\ DOMAIN conv' = DOMAIN conv => Placed'
  BY DEF ConvInv, Placed, C!Stored
<1>7. QED BY <1>3, <1>4, <1>5, <1>6

LEMMA OpMoved ==
  ASSUME ConvInv, NEW c \in Channels, NEW o \in Operations, op' = [op EXCEPT ![c] = o],
         o.kind \in Continues => o.previous \in DOMAIN conv \cup {None},
         DOMAIN conv \subseteq DOMAIN conv'
  PROVE  op' \in [Channels -> Operations] /\ OpsInv'
<1>1. op \in [Channels -> Operations] BY DEF ConvInv, ConvTypes
<1>2. op' \in [Channels -> Operations] BY <1>1
<1>3. \A d \in Channels : op'[d] = IF d = c THEN o ELSE op[d] BY <1>1
<1>4. QED BY <1>2, <1>3 DEF ConvInv, OpsInv

LEMMA OpKinds ==
  ASSUME ConvInv, NEW c \in Channels
  PROVE  /\ op[c].kind \in {"page", "new", "select"} => op[c].seen \in Nat \cup {None}
         /\ op[c].kind \in Continues => op[c].previous \in Nat \cup {None}
         /\ op[c].kind \in Continues => op[c].previous \in DOMAIN conv \cup {None}
         /\ op[c].kind = "select" => op[c].id \in Ids /\ op[c].fresh \in BOOLEAN
<1>1. op[c] \in Operations BY DEF ConvInv, ConvTypes
<1>2. op[c].kind \in Continues => op[c].previous \in DOMAIN conv \cup {None}
  BY DEF ConvInv, OpsInv
<1>3. QED BY <1>1, <1>2 DEF Operations, Continues, C!NoOp

\* A step of a control keeps the invariant when what it moves is as it should be.
LEMMA ControlStep ==
  ASSUME ConvInv, Grown(conv', token'), UNCHANGED <<run, claimed>>,
         queue' \in Seq(Pinned), WorkInv',
         others' \in Seq(Nat), active' \in Nat \cup {None}, ai' \in Selections,
         op' \in [Channels -> Operations], ops' \in Nat,
         Selection', Placed', OpsInv', PrivateInv'
  PROVE  ConvInv'
<1>1. Bound' /\ SlotInv' /\ ClaimInv' /\ RunInv' BY GrownKeeps
<1>2. ConvTypes' BY DEF ConvInv, ConvTypes, Grown
<1>3. QED BY <1>1, <1>2 DEF ConvInv

\* Captured work is an entry of the queue.
LEMMA Captured ==
  ASSUME ConvInv, NEW who \in {"owner", "application"}, NEW s \in Nat, NEW p \in Presets,
         C!Enqueue(who, s, p)
  PROVE  \E q \in Pinned : queue' = Append(queue, q) /\ q.s = s /\ q.who = who /\ q.preset = p
<1> DEFINE q == [who |-> who, s |-> s, preset |-> p, chain |-> C!Chain(p)]
<1>1. C!Chain(p) \in Presets \cup {None} BY DEF C!Chain, ConvInv, ConvTypes, Selections
<1>2. q \in Pinned BY <1>1 DEF Pinned
<1>3. QED BY <1>2 DEF C!Enqueue

\* captureChoice
LEMMA CaptureKeeps ==
  ASSUME ConvInv, C!Capture PROVE ConvInv'
<1> DEFINE p == C!PresetOf(ai.sel)
           n == Len(conv) + 1
<1>1. p \in Presets BY PresetKnown DEF ConvInv, Selection
<1>2. UNCHANGED <<run, claimed, ai, op, ops>> BY DEF C!Capture, C!Enqueue
<1>3. /\ op \in [Channels -> Operations] /\ ops \in Nat /\ ai \in Selections /\ token \in Nat
      /\ others \in Seq(Nat) /\ active \in Nat \cup {None} /\ conv \in Seq(Records)
  BY DEF ConvInv, ConvTypes
<1>4. Grown(conv, token) BY GrownSame
<1>5. active # None => active \in DOMAIN conv /\ conv[active].engine = p.engine
  BY DEF ConvInv, Placed, Selection
<1> HIDE DEF p
<1>6. CASE /\ active # None /\ conv' = [conv EXCEPT ![active].preset = p]
           /\ C!Enqueue("owner", active, p) /\ UNCHANGED <<others, active, token>>
  <2>1. Grown(conv', token') BY <1>1, <1>4, <1>5, <1>6, GrownPreset
  <2>2. DOMAIN conv' = DOMAIN conv BY <1>6, <1>3
  <2>3. Seen(conv'[active]) /\ conv'[active].engine = p.engine
    BY <1>5, <1>6, <2>1 DEF Grown, Kin, Seen, C!Visible, ConvInv, PrivateInv
  <2>4. PICK q \in Pinned : queue' = Append(queue, q) /\ q.s = active /\ q.who = "owner"
          /\ q.preset = p
    BY <1>1, <1>3, <1>6, Captured
  <2>a. /\ q.s \in DOMAIN conv' /\ conv'[q.s].engine = q.preset.engine /\ Seen(conv'[q.s])
        /\ q.who # "close"
    BY <1>5, <1>6, <2>2, <2>3, <2>4
  <2>5. queue' \in Seq(Pinned) /\ WorkInv' BY <2>1, <2>4, <2>a, GrownWork
  <2>6. Selection' /\ Placed' /\ OpsInv' /\ PrivateInv' BY <1>2, <1>6, <2>1, <2>2, Unmoved
  <2>7. QED BY <1>2, <1>3, <1>6, <2>1, <2>5, <2>6, ControlStep
<1>7. CASE /\ conv' = Append(conv, C!Fresh(p, p, None))
           /\ others' = C!Aside /\ active' = n /\ token' = token + 1 /\ C!Enqueue("owner", n, p)
  <2> DEFINE new == Append(conv, C!Fresh(p, p, None))
  <2>0. /\ Grown(new, token + 1) /\ new[n] = C!Fresh(p, p, None)
        /\ DOMAIN new = DOMAIN conv \cup {n} /\ n \in Nat
    BY <1>1, <1>4, GrownAppend
  <2>1. Grown(conv', token') /\ conv'[n] = C!Fresh(p, p, None) BY <1>7, <2>0
  <2>2. DOMAIN conv' = DOMAIN conv \cup {n} /\ n \in Nat BY <1>7, <2>0
  <2>3. conv'[n].engine = p.engine /\ conv'[n].scope = None BY <2>1 DEF C!Fresh
  <2>4. PICK q \in Pinned : queue' = Append(queue, q) /\ q.s = n /\ q.who = "owner"
          /\ q.preset = p
    BY <1>1, <2>2, <1>7, Captured
  <2>5. queue' \in Seq(Pinned) /\ WorkInv' BY <2>1, <2>2, <2>3, <2>4, GrownWork DEF Seen
  <2>6. Placed' /\ others' \in Seq(Nat) /\ active' \in Nat \cup {None} BY <1>7, <2>2, PlacedNew
  <2>7. OpsInv' BY <1>2, <2>1, Unmoved
  <2>8. PrivateInv' BY <1>7, <2>3 DEF PrivateInv, C!Visible
  <2>9. Selection' BY <1>2, <1>7, <2>3 DEF p, ConvInv, Selection, C!Known, C!PresetOf
  <2>10. QED BY <1>2, <1>3, <2>1, <2>5, <2>6, <2>7, <2>8, <2>9, ControlStep
<1>8. QED BY <1>5, <1>6, <1>7 DEF C!Capture, p

\* activate, with the conversations cs and the saved ones rest.
LEMMA ActivateKeeps ==
  ASSUME ConvInv, NEW cs, NEW t, Grown(cs, t), NEW s \in DOMAIN cs, cs[s].preset \in Presets,
         NEW rest \in Seq(Nat), C!IsInjective(rest), C!ToSet(rest) \subseteq DOMAIN cs,
         \A z \in DOMAIN cs : z = active \/ z \in C!ToSet(rest),
         active # None => active \in DOMAIN cs /\ active \notin C!ToSet(rest),
         NEW share, C!Activate(s, share, cs, rest)
  PROVE  /\ Grown(conv', t) /\ DOMAIN conv' = DOMAIN cs
         /\ conv'[s].engine = cs[s].preset.engine
         /\ others' \in Seq(Nat) /\ active' \in Nat \cup {None} /\ ai' \in Selections
         /\ Selection' /\ Placed' /\ PrivateInv'
<1>1. /\ conv \in Seq(Records) /\ cs \in Seq(Records) /\ active \in Nat \cup {None}
      /\ ai \in Selections /\ None \notin DOMAIN cs /\ s \in Nat
  BY DEF ConvInv, ConvTypes, Grown
<1>2. cs[s].preset # None /\ cs[s].engine = cs[s].preset.engine BY DEF Grown, BoundAs
<1>3. CASE share
  <2>1. /\ conv' = [cs EXCEPT ![s].shared = TRUE, ![s].archived = FALSE] /\ active' = s
        /\ ai' = [ai EXCEPT !.presets = C!Put(ai.presets, cs[s].preset), !.sel = cs[s].preset.id]
        /\ others' = IF active \in {s, None} THEN C!RemoveFirst(rest, s)
                     ELSE Append(C!RemoveFirst(rest, s), active)
    BY <1>3 DEF C!Activate
  <2>2. Grown(conv', t) BY <2>1, GrownFlags
  <2> DEFINE v == [cs[s] EXCEPT !.shared = TRUE, !.archived = FALSE]
  <2>a. conv' = [cs EXCEPT ![s] = v] BY <1>1, <2>1
  <2>b. v.engine = cs[s].engine /\ v.shared BY <1>1 DEF Records
  <2> HIDE DEF v
  <2>3. /\ DOMAIN conv' = DOMAIN cs /\ conv'[s].engine = cs[s].preset.engine /\ conv'[s].shared
    BY <1>1, <1>2, <2>a, <2>b
  <2>4. /\ ai' \in Selections /\ C!Known(ai.sel)' /\ C!Known(ai.def)'
        /\ (\A q, r \in ai.presets : q.id = r.id => q = r)'
        /\ C!PresetOf(ai.sel)' = cs[s].preset
    BY <2>1, Chosen
  <2>5. Selection' BY <2>1, <2>3, <2>4 DEF Selection
  <2>6. PrivateInv' BY <2>1, <2>3 DEF PrivateInv, C!Visible
  <2> DEFINE r == C!RemoveFirst(rest, s)
  <2>7. r \in Seq(Nat) /\ C!IsInjective(r) /\ C!ToSet(r) = C!ToSet(rest) \ {s} BY RemoveFirstOf
  <2> HIDE DEF r
  <2>8. others' \in Seq(Nat) /\ C!IsInjective(others') /\ C!ToSet(others') = DOMAIN cs \ {s}
    <3>1. CASE active \in {s, None}
      <4>1. others' = r BY <2>1, <3>1 DEF r
      <4>2. QED BY <1>1, <2>7, <3>1, <4>1
    <3>2. CASE active \notin {s, None}
      <4>1. others' = Append(r, active) BY <2>1, <3>2 DEF r
      <4>2. active \in Nat /\ active \notin C!ToSet(r) BY <1>1, <2>7, <3>2
      <4>3. others' \in Seq(Nat) /\ C!IsInjective(others')
              /\ C!ToSet(others') = C!ToSet(r) \cup {active}
        BY <2>7, <4>1, <4>2, AppendOf
      <4>4. QED BY <2>7, <3>2, <4>3
    <3>3. QED BY <3>1, <3>2
  <2>9. Placed' BY <1>1, <2>1, <2>3, <2>8 DEF Placed, C!Stored
  <2>10. QED BY <1>1, <2>1, <2>2, <2>3, <2>4, <2>5, <2>6, <2>8, <2>9
<1>4. CASE ~share
  <2>1. conv' = cs /\ others' = rest /\ UNCHANGED <<active, ai>> BY <1>4 DEF C!Activate
  <2>2. Placed' BY <2>1 DEF Placed, C!Stored
  <2>3. \A z \in DOMAIN conv : Kin(conv[z], conv'[z]) BY <2>1 DEF Grown
  <2>4. active # None => active \in DOMAIN conv BY DEF ConvInv, Placed
  <2>5. Selection' BY <2>1, <2>3, <2>4 DEF ConvInv, Selection, C!Known, C!PresetOf, Kin
  <2>6. PrivateInv' BY <2>1, <2>3, <2>4 DEF ConvInv, PrivateInv, C!Visible, Kin
  <2>7. QED BY <1>1, <1>2, <2>1, <2>2, <2>5, <2>6
<1>5. QED BY <1>3, <1>4

\* captureApplicationChoice
LEMMA CaptureApplicationKeeps ==
  ASSUME ConvInv, NEW scope \in Scopes, NEW s \in DOMAIN conv \cup {None}, NEW share,
         NEW r \in Requested \cup {None}, C!CaptureApplication(scope, s, share, r)
  PROVE  ConvInv'
<1> DEFINE n == Len(conv) + 1
           p == IF r = None THEN C!PresetOf(ai.sel) ELSE r
<1>1. p \in Presets BY PresetKnown DEF ConvInv, Selection
<1>2. UNCHANGED <<run, claimed, op>> /\ ops' \in Nat
  BY DEF C!CaptureApplication, C!Enqueue, C!Spend, ConvInv, ConvTypes
<1>3. /\ op \in [Channels -> Operations] /\ conv \in Seq(Records)
      /\ others \in Seq(Nat) /\ C!IsInjective(others) /\ C!ToSet(others) \subseteq DOMAIN conv
      /\ \A z \in DOMAIN conv : z = active \/ z \in C!ToSet(others)
      /\ active # None => active \in DOMAIN conv /\ active \notin C!ToSet(others)
  BY DEF ConvInv, ConvTypes, Placed, C!Stored
<1>4. Grown(conv, token) BY GrownSame
<1> HIDE DEF p
<1>5. ASSUME NEW cs, NEW z \in Nat, Grown(conv', token'), Grown(cs, token'),
             cs[z].preset \in Presets,
             z \in DOMAIN conv', conv'[z].engine = cs[z].preset.engine,
             C!Enqueue("application", z, cs[z].preset),
             others' \in Seq(Nat) /\ active' \in Nat \cup {None} /\ ai' \in Selections
             /\ Selection' /\ Placed' /\ PrivateInv'
      PROVE  ConvInv'
  <2>1. PICK q \in Pinned : /\ queue' = Append(queue, q) /\ q.s = z /\ q.who = "application"
                            /\ q.preset = cs[z].preset
    BY <1>5, Captured
  <2>2. queue' \in Seq(Pinned) /\ WorkInv' BY <1>5, <2>1, GrownWork
  <2>3. OpsInv' BY <1>2, <1>5, Unmoved
  <2>4. QED BY <1>2, <1>3, <1>5, <2>2, <2>3, ControlStep
<1>6. CASE /\ s # None /\ conv[s].preset # None
           /\ r # None => r.engine = conv[s].engine
           /\ LET cs == IF r = None THEN conv ELSE [conv EXCEPT ![s].preset = r]
              IN C!Activate(s, share, cs, others) /\ C!Enqueue("application", s, cs[s].preset)
           /\ UNCHANGED token
  <2> DEFINE cs == IF r = None THEN conv ELSE [conv EXCEPT ![s].preset = r]
  <2>1. s \in DOMAIN conv /\ s \in Nat /\ conv[s] \in Records BY <1>3, <1>6
  <2>2. r # None => r \in Presets OBVIOUS
  <2>3. Grown(cs, token) BY <1>4, <1>6, <2>1, <2>2, GrownPreset
  <2>4. cs[s].preset \in Presets /\ DOMAIN cs = DOMAIN conv
    BY <1>3, <1>6, <2>1, <2>2 DEF Records
  <2>5. C!Activate(s, share, cs, others) /\ C!Enqueue("application", s, cs[s].preset)
          /\ token' = token
    BY <1>6
  <2> HIDE DEF cs
  <2>6. /\ Grown(conv', token) /\ DOMAIN conv' = DOMAIN cs
        /\ conv'[s].engine = cs[s].preset.engine
        /\ others' \in Seq(Nat) /\ active' \in Nat \cup {None} /\ ai' \in Selections
        /\ Selection' /\ Placed' /\ PrivateInv'
    BY <1>3, <2>1, <2>3, <2>4, <2>5, ActivateKeeps
  <2>7. QED BY <1>5, <2>1, <2>3, <2>4, <2>5, <2>6
<1>7. CASE /\ token' = token + 1
           /\ C!Activate(n, share, Append(conv, C!Fresh(p, p, scope)), Append(others, n))
           /\ C!Enqueue("application", n, p)
  <2> DEFINE cs == Append(conv, C!Fresh(p, p, scope))
             rest == Append(others, n)
  <2>1. Grown(cs, token + 1) /\ cs[n] = C!Fresh(p, p, scope) BY <1>1, <1>4, GrownAppend
  <2>2. /\ rest \in Seq(Nat) /\ C!IsInjective(rest) /\ C!ToSet(rest) = C!ToSet(others) \cup {n}
        /\ n \in Nat /\ n \notin DOMAIN conv /\ active # n
    BY PlacedAside
  <2>3. cs[n].preset = p BY <2>1 DEF C!Fresh
  <2>4. C!Activate(n, share, cs, rest) BY <1>7
  <2> HIDE DEF cs, rest
  <2>5. DOMAIN cs = DOMAIN conv \cup {n} BY <1>3, <2>1 DEF Grown, ConvInv, ConvTypes
  <2>6. /\ Grown(conv', token + 1) /\ DOMAIN conv' = DOMAIN cs
        /\ conv'[n].engine = cs[n].preset.engine
        /\ others' \in Seq(Nat) /\ active' \in Nat \cup {None} /\ ai' \in Selections
        /\ Selection' /\ Placed' /\ PrivateInv'
    BY <1>1, <1>3, <2>1, <2>2, <2>3, <2>4, <2>5, ActivateKeeps
  <2>7. QED BY <1>1, <1>5, <1>7, <2>1, <2>2, <2>3, <2>5, <2>6
<1>8. QED BY <1>6, <1>7 DEF C!CaptureApplication, p

\* A step that moves no conversation and captures nothing.
LEMMA StillStep ==
  ASSUME ConvInv, UNCHANGED <<conv, token, run, claimed, queue, others, active>>,
         ai' \in Selections, op' \in [Channels -> Operations], ops' \in Nat, Selection', OpsInv'
  PROVE  ConvInv'
<1>1. Grown(conv', token') BY GrownSame
<1>2. queue' \in Seq(Pinned) /\ WorkInv' BY <1>1, GrownWork
<1>3. Placed' /\ PrivateInv' BY <1>1, Unmoved
<1>4. QED BY <1>1, <1>2, <1>3, ControlStep DEF ConvInv, ConvTypes

\* Where only a channel moves.
LEMMA OpStep ==
  ASSUME ConvInv, UNCHANGED <<conv, token, run, claimed, queue, others, active, ai>>,
         ops' \in Nat,
         NEW c \in Channels, NEW o \in Operations, op' = [op EXCEPT ![c] = o],
         o.kind \in Continues => o.previous \in DOMAIN conv \cup {None}
  PROVE  ConvInv'
<1>1. op' \in [Channels -> Operations] /\ OpsInv' BY OpMoved
<1>2. Selection' BY GrownSame, Unmoved
<1>3. QED BY <1>1, <1>2, StillStep DEF ConvInv, ConvTypes

LEMMA OpenKeeps ==
  ASSUME ConvInv, NEW c \in Channels, C!Open(c) PROVE ConvInv'
<1> DEFINE o == [kind |-> "page", seen |-> active]
<1>1. o \in Operations BY DEF ConvInv, ConvTypes, Operations
<1>2. o.kind \notin Continues BY DEF Continues
<1>3. op' = [op EXCEPT ![c] = o] /\ ops' \in Nat
      /\ UNCHANGED <<conv, token, run, claimed, queue, others, active, ai>>
  BY DEF C!Open, C!Spend, C!turn, ConvInv, ConvTypes
<1> HIDE DEF o
<1>4. QED BY <1>1, <1>2, <1>3, OpStep

LEMMA NewReadKeeps ==
  ASSUME ConvInv, NEW c \in Channels, C!NewRead(c) PROVE ConvInv'
<1> DEFINE o == [kind |-> "new", seen |-> op[c].seen, previous |-> active]
<1>1. op[c].seen \in Nat \cup {None} BY OpKinds DEF C!NewRead
<1>2. active \in Nat \cup {None} /\ active \in DOMAIN conv \cup {None}
  BY DEF ConvInv, ConvTypes, Placed
<1>3. o \in Operations BY <1>1, <1>2 DEF Operations
<1>4. op' = [op EXCEPT ![c] = o] /\ ops' \in Nat
      /\ UNCHANGED <<conv, token, run, claimed, queue, others, active, ai>>
  BY DEF C!NewRead, C!turn, ConvInv, ConvTypes
<1>5. o.previous \in DOMAIN conv \cup {None} BY <1>2
<1> HIDE DEF o
<1>6. QED BY <1>3, <1>4, <1>5, OpStep

LEMMA SelectReadKeeps ==
  ASSUME ConvInv, NEW c \in Channels, NEW p \in ai.presets, C!SelectRead(c, p) PROVE ConvInv'
<1> DEFINE o == [kind |-> "select", seen |-> op[c].seen, previous |-> active, id |-> p.id,
                 fresh |-> C!Differs(p)]
<1>1. op[c].seen \in Nat \cup {None} BY OpKinds DEF C!SelectRead
<1>2. active \in Nat \cup {None} /\ active \in DOMAIN conv \cup {None}
  BY DEF ConvInv, ConvTypes, Placed
<1>3. p.id \in Ids BY DEF ConvInv, ConvTypes, Selections, Ids
<1>4. C!Differs(p) \in BOOLEAN BY DEF C!Differs, C!SameChoice
<1>5. o \in Operations BY <1>1, <1>2, <1>3, <1>4 DEF Operations
<1>6. op' = [op EXCEPT ![c] = o] /\ ops' \in Nat
      /\ UNCHANGED <<conv, token, run, claimed, queue, others, active, ai>>
  BY DEF C!SelectRead, C!turn, ConvInv, ConvTypes
<1>7. o.previous \in DOMAIN conv \cup {None} BY <1>2
<1> HIDE DEF o
<1>8. QED BY <1>5, <1>6, <1>7, OpStep

LEMMA NoOpIs == C!NoOp \in Operations /\ C!NoOp.kind \notin Continues
BY DEF C!NoOp, Operations, Continues

LEMMA RefuseKeeps ==
  ASSUME ConvInv, NEW c \in Channels, C!Refuse(c) PROVE ConvInv'
<1>1. op' = [op EXCEPT ![c] = C!NoOp] /\ ops' \in Nat
      /\ UNCHANGED <<conv, token, run, claimed, queue, others, active, ai>>
  BY DEF C!Refuse, C!Leave, C!turn, ConvInv, ConvTypes
<1>2. QED BY <1>1, NoOpIs, OpStep

\* A control starts another conversation with the preset p.
LEMMA NewConversation ==
  ASSUME ConvInv, NEW p \in Presets, NEW b \in {p, None},
         conv' = Append(C!Remember(conv), C!Fresh(p, b, None)),
         others' = C!Aside, active' = Len(conv) + 1, token' = token + 1,
         UNCHANGED <<run, claimed, queue, ops>>,
         ai' \in Selections, op' \in [Channels -> Operations], OpsInv',
         C!Known(ai.sel)', C!Known(ai.def)', (\A q, r \in ai.presets : q.id = r.id => q = r)',
         C!PresetOf(ai.sel)' = p
  PROVE  ConvInv'
<1> DEFINE n == Len(conv) + 1
<1>1. /\ Grown(conv', token') /\ DOMAIN conv' = DOMAIN conv \cup {n}
      /\ conv'[n] = C!Fresh(p, b, None)
  BY RememberOf, GrownAppend
<1>a. C!Fresh(p, b, None).engine = p.engine /\ C!Fresh(p, b, None).scope = None BY DEF C!Fresh
<1>2. conv'[n].engine = p.engine /\ conv'[n].scope = None BY <1>1, <1>a
<1>3. Placed' /\ others' \in Seq(Nat) /\ active' \in Nat \cup {None} BY <1>1, PlacedNew
<1>4. Selection' BY <1>2 DEF Selection
<1>5. PrivateInv' BY <1>2 DEF PrivateInv, C!Visible
<1>6. queue' \in Seq(Pinned) /\ WorkInv' BY <1>1, GrownWork
<1>7. ops' \in Nat BY DEF ConvInv, ConvTypes
<1> HIDE DEF n
<1>8. QED BY <1>1, <1>3, <1>4, <1>5, <1>6, <1>7, ControlStep

\* resetSession
LEMMA ResetKeeps ==
  ASSUME ConvInv, NEW c \in Channels, C!ResetSession(c) PROVE ConvInv'
<1> DEFINE p == C!PresetOf(ai.def)
           o == [kind |-> "close", previous |-> op[c].previous]
<1>1. p \in Presets /\ p.id = ai.def /\ p \in ai.presets BY PresetKnown DEF ConvInv, Selection
<1>2. op[c].previous \in Nat \cup {None} /\ op[c].previous \in DOMAIN conv \cup {None}
  BY OpKinds DEF C!ResetSession, Continues
<1>3. o \in Operations BY <1>2 DEF Operations
<1>4. /\ conv' = Append(C!Remember(conv), C!Fresh(p, None, None))
      /\ others' = C!Aside /\ active' = Len(conv) + 1 /\ token' = token + 1
      /\ UNCHANGED <<run, claimed, queue, ops>>
      /\ ai' = [ai EXCEPT !.sel = ai.def] /\ op' = [op EXCEPT ![c] = o]
  BY DEF C!ResetSession, C!turn
<1>5. /\ ai' \in Selections /\ C!Known(ai.sel)' /\ C!Known(ai.def)'
      /\ (\A q, r \in ai.presets : q.id = r.id => q = r)' /\ C!PresetOf(ai.sel)' = p
  <2>1. ai \in Selections BY DEF ConvInv, ConvTypes
  <2>2. ai'.presets = ai.presets /\ ai'.sel = ai.def /\ ai'.def = ai.def
    BY <2>1, <1>4 DEF Selections
  <2>3. ai' \in Selections BY <2>1, <1>4 DEF Selections
  <2>4. QED BY <2>2, <2>3 DEF ConvInv, Selection, C!Known, C!PresetOf
<1>6. DOMAIN conv' = DOMAIN conv \cup {Len(conv) + 1}
  BY <1>1, <1>4, RememberOf, GrownAppend
<1>7. o.previous \in DOMAIN conv \cup {None} BY <1>2
<1> HIDE DEF p, o
<1>8. op' \in [Channels -> Operations] /\ OpsInv' BY <1>3, <1>4, <1>6, <1>7, OpMoved
<1>9. QED BY <1>1, <1>4, <1>5, <1>8, NewConversation

\* queueSessionClose
LEMMA QueueCloseKeeps ==
  ASSUME ConvInv, NEW c \in Channels, C!QueueClose(c) PROVE ConvInv'
<1> DEFINE s == op[c].previous
<1>1. s \in DOMAIN conv \cup {None} BY OpKinds DEF C!QueueClose, Continues
<1>2. /\ op' = [op EXCEPT ![c] = C!NoOp]
      /\ UNCHANGED <<conv, token, run, claimed, others, active, ai, ops>>
  BY DEF C!QueueClose, C!Leave
<1>3. Grown(conv', token') BY <1>2, GrownSame
<1>4. op' \in [Channels -> Operations] /\ OpsInv' BY <1>2, NoOpIs, OpMoved
<1>5. Selection' /\ Placed' /\ PrivateInv' BY <1>2, <1>3, Unmoved
<1>6. queue' \in Seq(Pinned) /\ WorkInv'
  <2>1. CASE UNCHANGED queue BY <1>3, <2>1, GrownWork
  <2>2. CASE /\ C!Closable(s)
             /\ queue' = Append(queue, [who |-> "close", s |-> s, preset |-> conv[s].preset,
                                        chain |-> None])
    <3> DEFINE q == [who |-> "close", s |-> s, preset |-> conv[s].preset, chain |-> None]
    <3>1. s \in DOMAIN conv /\ conv[s].scope = None /\ conv[s].preset # None
      BY <1>1, <2>2 DEF C!Closable
    <3>2. conv \in Seq(Records) BY DEF ConvInv, ConvTypes
    <3>3. conv[s] \in Records /\ s \in Nat BY <3>1, <3>2
    <3>4. q \in Pinned BY <3>1, <3>3 DEF Pinned, Records
    <3>5. q.s \in DOMAIN conv' /\ conv'[q.s].engine = q.preset.engine /\ conv'[q.s].scope = None
          /\ q.who # "owner" /\ queue' = Append(queue, q)
      BY <1>2, <2>2, <3>1 DEF ConvInv, Bound
    <3> HIDE DEF q
    <3>6. QED BY <1>3, <3>4, <3>5, GrownWork
  <2>3. QED BY <2>1, <2>2 DEF C!QueueClose
<1>7. QED BY <1>2, <1>3, <1>4, <1>5, <1>6, ControlStep DEF ConvInv, ConvTypes

\* selectPreset
LEMMA SelectPresetKeeps ==
  ASSUME ConvInv, NEW c \in Channels, C!SelectPreset(c) PROVE ConvInv'
<1> DEFINE p == C!PresetOf(op[c].id)
           fresh == op[c].fresh
           o == IF fresh THEN [kind |-> "close", previous |-> op[c].previous] ELSE C!NoOp
<1>1. /\ op[c].previous \in Nat \cup {None} /\ op[c].previous \in DOMAIN conv \cup {None}
      /\ fresh \in BOOLEAN
  BY OpKinds DEF C!SelectPreset, C!MaySelect, Continues
<1>2. p \in Presets /\ p.id = op[c].id /\ p \in ai.presets
  BY PresetKnown DEF C!SelectPreset, C!MaySelect
<1>3. o \in Operations /\ (o.kind \in Continues => o.previous \in DOMAIN conv \cup {None})
  BY <1>1, NoOpIs DEF Operations
<1>4. /\ ai' = [ai EXCEPT !.sel = p.id] /\ op' = [op EXCEPT ![c] = o]
      /\ UNCHANGED <<run, claimed, queue, ops>>
  BY DEF C!SelectPreset, C!turn
<1>5. /\ ai' \in Selections /\ C!Known(ai.sel)' /\ C!Known(ai.def)'
      /\ (\A q, r \in ai.presets : q.id = r.id => q = r)' /\ C!PresetOf(ai.sel)' = p
  <2>1. ai \in Selections BY DEF ConvInv, ConvTypes
  <2>2. ai'.presets = ai.presets /\ ai'.sel = p.id /\ ai'.def = ai.def
    BY <2>1, <1>4 DEF Selections
  <2>3. p.id \in Ids BY <1>2 DEF Ids
  <2>4. ai' \in Selections BY <2>1, <2>3, <1>4 DEF Selections
  <2>5. \A q, r \in ai.presets : q.id = r.id => q = r BY DEF ConvInv, Selection
  <2>6. C!PresetOf(ai.sel)' = p BY <1>2, <2>2, <2>5, PickOf DEF C!PresetOf
  <2>7. QED BY <1>2, <2>2, <2>4, <2>5, <2>6 DEF ConvInv, Selection, C!Known
<1>6. active # None /\ ~fresh => p.engine = conv[active].engine
  BY DEF C!SelectPreset, C!MaySelect, C!Differs, C!SameChoice, ConvInv, Selection
<1>7. conv \in Seq(Records) /\ active \in Nat \cup {None} /\ others \in Seq(Nat) /\ ops \in Nat
  BY DEF ConvInv, ConvTypes
<1> HIDE DEF p, o, fresh
<1>8. CASE /\ token' = token + 1 /\ conv' = Append(C!Remember(conv), C!Fresh(p, p, None))
           /\ others' = C!Aside /\ active' = Len(conv) + 1
  <2>1. DOMAIN conv' = DOMAIN conv \cup {Len(conv) + 1}
    BY <1>2, <1>8, RememberOf, GrownAppend
  <2>2. op' \in [Channels -> Operations] /\ OpsInv' BY <1>3, <1>4, <2>1, OpMoved
  <2>3. QED BY <1>2, <1>4, <1>5, <1>8, <2>2, NewConversation
<1>9. CASE /\ ~fresh /\ active # None
           /\ conv' \in {conv, [conv EXCEPT ![active].preset = p]}
           /\ UNCHANGED <<others, active, token>>
  <2>1. active \in DOMAIN conv /\ p.engine = conv[active].engine
    BY <1>6, <1>9 DEF ConvInv, Placed
  <2>2. Grown(conv', token') /\ DOMAIN conv' = DOMAIN conv
    BY <1>2, <1>7, <1>9, <2>1, GrownSame, GrownPreset
  <2>3. op' \in [Channels -> Operations] /\ OpsInv' BY <1>3, <1>4, <2>2, OpMoved
  <2>4. queue' \in Seq(Pinned) /\ WorkInv' BY <1>4, <2>2, GrownWork
  <2>5. Placed' /\ PrivateInv' BY <1>9, <2>2, Unmoved
  <2>6. conv'[active].engine = p.engine BY <2>1, <2>2 DEF Grown, Kin
  <2>7. Selection' BY <1>5, <1>9, <2>6 DEF Selection
  <2>8. QED BY <1>4, <1>5, <1>7, <1>9, <2>2, <2>3, <2>4, <2>5, <2>7, ControlStep
<1>10. QED BY <1>8, <1>9 DEF C!SelectPreset, p, fresh

\* switchSession
LEMMA SwitchKeeps ==
  ASSUME ConvInv, NEW c \in Channels, NEW s \in DOMAIN conv, NEW p \in C!Binding(s),
         C!SwitchSession(c, s, p)
  PROVE  ConvInv'
<1>1. /\ conv' = C!Remember(conv) /\ others' = C!RemoveFirst(C!Aside, s) /\ active' = s
      /\ ai' = [ai EXCEPT !.presets = C!Put(ai.presets, p), !.sel = p.id]
      /\ op' = [op EXCEPT ![c] = C!NoOp] /\ UNCHANGED <<run, claimed, queue, token, ops>>
      /\ C!Visible(s)
  BY DEF C!SwitchSession, C!Restored, C!Leave, C!turn
<1>a. conv \in Seq(Records) /\ s \in Nat /\ conv[s] \in Records /\ None \notin DOMAIN conv
      /\ ops \in Nat /\ ai.presets \subseteq Presets
  BY DEF ConvInv, ConvTypes, Selections
<1>2. conv \in Seq(Records) /\ s \in Nat /\ conv[s] \in Records /\ None \notin DOMAIN conv
      /\ ops \in Nat /\ p \in Presets
  BY <1>a DEF C!Binding, C!OfEngine, Records
<1>3. p.engine = conv[s].engine
  BY DEF C!Binding, C!OfEngine, ConvInv, Bound
<1>4. Grown(conv', token') /\ DOMAIN conv' = DOMAIN conv BY <1>1, RememberOf
<1>5. /\ ai' \in Selections /\ C!Known(ai.sel)' /\ C!Known(ai.def)'
      /\ (\A q, r \in ai.presets : q.id = r.id => q = r)' /\ C!PresetOf(ai.sel)' = p
  BY <1>1, <1>2, Chosen
<1>6. Kin(conv[s], conv'[s]) BY <1>4 DEF Grown
<1>7. Selection' BY <1>1, <1>3, <1>5, <1>6 DEF Selection, Kin
<1>8. PrivateInv' BY <1>1, <1>6 DEF PrivateInv, C!Visible, Kin
<1>9. others' \in Seq(Nat) /\ C!IsInjective(others') /\ C!ToSet(others') = DOMAIN conv \ {s}
  BY <1>1, AsideOf, RemoveFirstOf
<1>10. Placed' BY <1>1, <1>2, <1>4, <1>9 DEF Placed, C!Stored
<1>11. op' \in [Channels -> Operations] /\ OpsInv' BY <1>1, <1>4, NoOpIs, OpMoved
<1>12. queue' \in Seq(Pinned) /\ WorkInv' BY <1>1, <1>4, GrownWork
<1>13. QED BY <1>1, <1>2, <1>4, <1>5, <1>7, <1>8, <1>9, <1>10, <1>11, <1>12, ControlStep

\* The default becomes the selection, and none is active.
LEMMA Reset ==
  ASSUME ConvInv, ai' = [ai EXCEPT !.sel = ai.def], active' = None
  PROVE  ai' \in Selections /\ Selection'
<1>1. ai \in Selections BY DEF ConvInv, ConvTypes
<1>2. ai' \in Selections /\ ai'.presets = ai.presets /\ ai'.sel = ai.def /\ ai'.def = ai.def
  BY <1>1 DEF Selections
<1>3. QED BY <1>2 DEF ConvInv, Selection, C!Known

\* archiveSession
LEMMA ArchiveKeeps ==
  ASSUME ConvInv, NEW s \in DOMAIN conv, C!ArchiveSession(s) PROVE ConvInv'
<1>1. UNCHANGED <<run, claimed, queue, token, op>> /\ ops' \in Nat
  BY DEF C!ArchiveSession, C!Spend, C!turn, ConvInv, ConvTypes
<1>2. op \in [Channels -> Operations] BY DEF ConvInv, ConvTypes
<1>3. CASE s = active
  <2>1. /\ conv' = [C!Remember(conv) EXCEPT ![s].archived = TRUE]
        /\ others' = C!Aside /\ active' = None /\ ai' = [ai EXCEPT !.sel = ai.def]
    BY <1>3 DEF C!ArchiveSession
  <2>2. Grown(C!Remember(conv), token) /\ DOMAIN C!Remember(conv) = DOMAIN conv BY RememberOf
  <2>3. C!Remember(conv) \in Seq(Records) BY <2>2 DEF Grown
  <2>5. Grown(conv', token')
    BY <1>1, <2>1, <2>2, GrownFlags
  <2>6. DOMAIN conv' = DOMAIN conv BY <2>1, <2>2, <2>3
  <2>7. ai' \in Selections /\ Selection' BY <2>1, Reset
  <2>8. PrivateInv' BY <2>1 DEF PrivateInv
  <2>9. Placed' /\ others' \in Seq(Nat) BY <2>1, <2>6, AsideOf DEF Placed, C!Stored
  <2>10. queue' \in Seq(Pinned) /\ WorkInv' BY <1>1, <2>5, GrownWork
  <2>11. OpsInv' BY <1>1, <2>5, Unmoved
  <2>12. QED BY <1>1, <1>2, <2>1, <2>5, <2>7, <2>8, <2>9, <2>10, <2>11, ControlStep
<1>4. CASE s # active
  <2>1. conv' = [conv EXCEPT ![s].archived = TRUE] /\ UNCHANGED <<others, active, ai>>
    BY <1>4 DEF C!ArchiveSession
  <2>2. conv \in Seq(Records) BY DEF ConvInv, ConvTypes
  <2>3. DOMAIN conv' = DOMAIN conv BY <2>1, <2>2
  <2>4. Grown(conv', token') BY <1>1, <2>1, <2>3, GrownSame, GrownFlags
  <2>5. queue' \in Seq(Pinned) /\ WorkInv' BY <1>1, <2>4, GrownWork
  <2>6. Selection' /\ Placed' /\ OpsInv' /\ PrivateInv' BY <1>1, <2>1, <2>3, <2>4, Unmoved
  <2>7. QED BY <1>1, <1>2, <2>1, <2>4, <2>5, <2>6, ControlStep DEF ConvInv, ConvTypes
<1>5. QED BY <1>3, <1>4

\* restoreSession
LEMMA RestoreKeeps ==
  ASSUME ConvInv, NEW s \in DOMAIN conv, C!RestoreSession(s) PROVE ConvInv'
<1>1. /\ conv' = [conv EXCEPT ![s].archived = FALSE]
      /\ UNCHANGED <<run, claimed, queue, token, op, others, active, ai>> /\ ops' \in Nat
  BY DEF C!RestoreSession, C!Spend, C!turn, ConvInv, ConvTypes
<1>2. conv \in Seq(Records) BY DEF ConvInv, ConvTypes
<1>3. DOMAIN conv' = DOMAIN conv BY <1>1, <1>2
<1>4. Grown(conv', token') BY <1>1, <1>3, GrownSame, GrownFlags
<1>5. queue' \in Seq(Pinned) /\ WorkInv' BY <1>1, <1>4, GrownWork
<1>6. Selection' /\ Placed' /\ OpsInv' /\ PrivateInv' BY <1>1, <1>3, <1>4, Unmoved
<1>7. QED BY <1>1, <1>4, <1>5, <1>6, ControlStep DEF ConvInv, ConvTypes

\* changeApplicationSession
LEMMA ChangeApplicationKeeps ==
  ASSUME ConvInv, NEW scope \in Scopes, NEW p \in ai.presets \cup {None},
         NEW s \in DOMAIN conv \cup {None}, C!ChangeApplication(scope, p, s)
  PROVE  ConvInv'
<1> DEFINE n == Len(conv) + 1
           next == IF p = None THEN C!PresetOf(ai.def) ELSE p
<1>1. UNCHANGED <<run, claimed, queue, active, ai, op>> /\ ops' \in Nat
  BY DEF C!ChangeApplication, C!Spend, C!turn, ConvInv, ConvTypes
<1>2. /\ conv \in Seq(Records) /\ active \in Nat \cup {None} /\ others \in Seq(Nat)
      /\ ai \in Selections /\ op \in [Channels -> Operations] /\ ai.presets \subseteq Presets
  BY DEF ConvInv, ConvTypes, Selections
<1>3. next \in Presets BY <1>2, PresetKnown DEF ConvInv, Selection
<1>4. ASSUME Grown(conv', token'), Placed', others' \in Seq(Nat) PROVE ConvInv'
  <2>1. queue' \in Seq(Pinned) /\ WorkInv' BY <1>1, <1>4, GrownWork
  <2>2. Selection' /\ OpsInv' /\ PrivateInv' BY <1>1, <1>4, Unmoved
  <2>3. QED BY <1>1, <1>2, <1>4, <2>1, <2>2, ControlStep
<1> HIDE DEF next
<1>5. CASE /\ p # None /\ s # None /\ conv[s].engine = p.engine
           /\ conv' = [conv EXCEPT ![s].preset = p] /\ UNCHANGED <<others, token>>
  <2>1. s \in DOMAIN conv /\ p \in Presets BY <1>2, <1>5
  <2>2. Grown(conv', token') /\ DOMAIN conv' = DOMAIN conv
    BY <1>2, <1>5, <2>1, GrownSame, GrownPreset
  <2>3. Placed' BY <1>1, <1>5, <2>2, Unmoved
  <2>4. QED BY <1>2, <1>4, <1>5, <2>2, <2>3
<1>6. CASE /\ token' = token + 1 /\ others' = Append(others, n)
           /\ conv' = Append(IF s = None THEN conv ELSE [conv EXCEPT ![s].archived = TRUE],
                             C!Fresh(next, next, scope))
  <2> DEFINE cs == IF s = None THEN conv ELSE [conv EXCEPT ![s].archived = TRUE]
  <2>1. s # None => s \in DOMAIN conv OBVIOUS
  <2>2. Grown(cs, token) BY <2>1, GrownSame, GrownFlags
  <2>3. conv' = Append(cs, C!Fresh(next, next, scope)) BY <1>6
  <2> HIDE DEF cs
  <2>4. Grown(conv', token') /\ DOMAIN conv' = DOMAIN conv \cup {n}
    <3>1. /\ Grown(Append(cs, C!Fresh(next, next, scope)), token + 1)
          /\ DOMAIN Append(cs, C!Fresh(next, next, scope)) = DOMAIN conv \cup {n}
      BY <1>3, <2>2, GrownAppend
    <3>2. QED BY <1>6, <2>3, <3>1
  <2>5. /\ others' \in Seq(Nat) /\ C!IsInjective(others')
             /\ C!ToSet(others') = C!ToSet(others) \cup {n}
        /\ n \notin DOMAIN conv /\ active # n
    BY <1>6, PlacedAside
  <2>6. Placed' BY <1>1, <2>4, <2>5 DEF ConvInv, Placed, C!Stored
  <2>7. QED BY <1>4, <2>4, <2>5, <2>6
<1>7. QED BY <1>5, <1>6 DEF C!ChangeApplication, C!Retire, next

\* The presets change, the selected and the default one excepted.
LEMMA PresetsMoved ==
  ASSUME ConvInv, NEW ps \in SUBSET Presets, ai' = [ai EXCEPT !.presets = ps],
         C!PresetOf(ai.sel) \in ps, C!PresetOf(ai.def) \in ps,
         \A p, q \in ps : p.id = q.id => p = q,
         UNCHANGED <<conv, token, run, claimed, queue, others, active, op>>, ops' \in Nat
  PROVE  ConvInv'
<1>1. ai \in Selections BY DEF ConvInv, ConvTypes
<1>2. /\ ai' \in Selections /\ ai'.presets = ps /\ ai'.sel = ai.sel /\ ai'.def = ai.def
  BY <1>1 DEF Selections
<1>3. C!PresetOf(ai.sel).id = ai.sel /\ C!PresetOf(ai.def).id = ai.def
  BY PresetKnown DEF ConvInv, Selection
<1>4. C!Known(ai.sel)' /\ C!Known(ai.def)' BY <1>2, <1>3 DEF C!Known
<1>5. C!PresetOf(ai.sel)' = C!PresetOf(ai.sel)
  <2> DEFINE p == C!PresetOf(ai.sel)
  <2>1. (CHOOSE q \in ps : q.id = p.id) = p BY PickOf
  <2>2. C!PresetOf(ai.sel)' = CHOOSE q \in ps : q.id = ai.sel BY <1>2 DEF C!PresetOf
  <2>3. QED BY <1>3, <2>1, <2>2
<1>6. Selection' BY <1>2, <1>4, <1>5 DEF ConvInv, Selection
<1>7. OpsInv' BY DEF ConvInv, OpsInv
<1>8. QED BY <1>2, <1>6, <1>7, StillStep DEF ConvInv, ConvTypes

LEMMA SelectionKnown ==
  ASSUME ConvInv
  PROVE  /\ ai.presets \subseteq Presets /\ \A p, q \in ai.presets : p.id = q.id => p = q
         /\ C!PresetOf(ai.sel) \in ai.presets /\ C!PresetOf(ai.sel).id = ai.sel
         /\ C!PresetOf(ai.def) \in ai.presets /\ C!PresetOf(ai.def).id = ai.def
BY PresetKnown DEF ConvInv, ConvTypes, Selections, Selection

\* savePreset
LEMMA SavePresetKeeps ==
  ASSUME ConvInv, NEW p \in Savable, C!SavePreset(p) PROVE ConvInv'
<1>1. UNCHANGED <<conv, token, run, claimed, queue, others, active, op>> /\ ops' \in Nat
  BY DEF C!SavePreset, C!Spend, C!turn, ConvInv, ConvTypes
<1>2. ~C!Known(p.id) /\ p \in Presets BY DEF C!SavePreset
<1>3. \E gone \in SUBSET {q \in ai.presets : q.id \notin {ai.sel, ai.def}} :
        ai' = [ai EXCEPT !.presets = C!Put(ai.presets \ gone, p)]
  <2>1. CASE ai' = [ai EXCEPT !.presets = C!Put(ai.presets, p)]
    <3>1. ai.presets \ {} = ai.presets OBVIOUS
    <3>2. QED BY <2>1, <3>1
  <2>2. CASE \E q \in ai.presets : q.id \notin {ai.sel, ai.def}
                                   /\ ai' = [ai EXCEPT !.presets = C!Put(ai.presets \ {q}, p)]
    BY <2>2
  <2>3. QED BY <2>1, <2>2 DEF C!SavePreset
<1>4. PICK gone \in SUBSET {q \in ai.presets : q.id \notin {ai.sel, ai.def}} :
        ai' = [ai EXCEPT !.presets = C!Put(ai.presets \ gone, p)]
  BY <1>3
<1> DEFINE ps == C!Put(ai.presets \ gone, p)
<1>5. \A q \in ai.presets : q.id # p.id BY <1>2 DEF C!Known
<1>6. /\ ps \subseteq Presets /\ C!PresetOf(ai.sel) \in ps /\ C!PresetOf(ai.def) \in ps
      /\ \A q, r \in ps : q.id = r.id => q = r
  BY <1>2, <1>5, SelectionKnown DEF C!Put
<1> HIDE DEF ps
<1>7. ai' = [ai EXCEPT !.presets = ps] BY <1>4 DEF ps
<1>8. QED BY <1>1, <1>6, <1>7, PresetsMoved

\* syncClientPresets
LEMMA SyncPresetsKeeps ==
  ASSUME ConvInv, NEW found \in SUBSET Detected, C!SyncPresets(found) PROVE ConvInv'
<1>1. UNCHANGED <<conv, token, run, claimed, queue, others, active, op>> /\ ops' \in Nat
  BY DEF C!SyncPresets, C!Spend, C!turn, ConvInv, ConvTypes
<1> DEFINE ps == C!Preserved \cup {p \in found : \A q \in C!Preserved : q.id # p.id}
<1>2. ai' = [ai EXCEPT !.presets = ps] BY DEF C!SyncPresets
<1>3. C!PresetOf(ai.sel) \in C!Preserved /\ C!PresetOf(ai.def) \in C!Preserved
  BY SelectionKnown DEF C!Preserved
<1>4. ps \subseteq Presets BY SelectionKnown DEF C!Preserved
<1>5. \A q, r \in ps : q.id = r.id => q = r
  <2>1. \A q, r \in C!Preserved : q.id = r.id => q = r BY SelectionKnown DEF C!Preserved
  <2>2. \A q, r \in found : q.id = r.id => q = r BY ConversationsAssumption
  <2>3. QED BY <2>1, <2>2
<1> HIDE DEF ps
<1>6. QED BY <1>1, <1>2, <1>3, <1>4, <1>5, PresetsMoved DEF ps

\* ezenciel-agents-ai default and fallbacks
LEMMA DefaultKeeps ==
  ASSUME ConvInv, C!DefaultPreset PROVE ConvInv'
<1>1. UNCHANGED <<conv, token, run, claimed, queue, others, active, op>> /\ ops' \in Nat
      /\ ai' = [ai EXCEPT !.def = ai.sel]
  BY DEF C!DefaultPreset, C!Spend, C!turn, ConvInv, ConvTypes
<1>2. ai \in Selections BY DEF ConvInv, ConvTypes
<1>3. ai' \in Selections /\ ai'.presets = ai.presets /\ ai'.sel = ai.sel /\ ai'.def = ai.sel
  BY <1>1, <1>2 DEF Selections
<1>4. Selection' BY <1>1, <1>3 DEF ConvInv, Selection, C!Known, C!PresetOf
<1>5. OpsInv' BY <1>1 DEF ConvInv, OpsInv
<1>6. QED BY <1>1, <1>3, <1>4, <1>5, StillStep DEF ConvInv, ConvTypes

LEMMA FallbacksKeep ==
  ASSUME ConvInv, NEW p \in ai.presets \cup {None}, C!SetFallbacks(p) PROVE ConvInv'
<1>1. UNCHANGED <<conv, token, run, claimed, queue, others, active, op>> /\ ops' \in Nat
      /\ ai' = [ai EXCEPT !.chain = p]
  BY DEF C!SetFallbacks, C!Spend, C!turn, ConvInv, ConvTypes
<1>2. ai \in Selections BY DEF ConvInv, ConvTypes
<1>3. ai' \in Selections /\ ai'.presets = ai.presets /\ ai'.sel = ai.sel /\ ai'.def = ai.def
  BY <1>1, <1>2 DEF Selections
<1>4. Selection' BY <1>1, <1>3 DEF ConvInv, Selection, C!Known, C!PresetOf
<1>5. OpsInv' BY <1>1 DEF ConvInv, OpsInv
<1>6. QED BY <1>1, <1>3, <1>4, <1>5, StillStep DEF ConvInv, ConvTypes

\* Conversations after a step of a turn: only native sessions change.
Turned ==
  /\ conv' \in Seq(Records) /\ DOMAIN conv' = DOMAIN conv
  /\ \A s \in DOMAIN conv :
       /\ conv'[s].engine = conv[s].engine /\ conv'[s].preset = conv[s].preset
       /\ conv'[s].scope = conv[s].scope /\ conv'[s].shared = conv[s].shared

LEMMA TurnStep ==
  ASSUME ConvInv, Turned, UNCHANGED <<others, active, ai, op, ops>>, queue' \in Seq(Pinned),
         \A i \in DOMAIN queue' : \E j \in DOMAIN queue : queue'[i] = queue[j],
         run' \in {C!NoRun} \cup Turns,
         claimed' \subseteq [token : Nat, s : Nat, engine : Engines, ordered : BOOLEAN],
         token' \in Nat, Bound', SlotInv', ClaimInv', RunInv'
  PROVE  ConvInv'
<1>1. ConvTypes' BY DEF ConvInv, ConvTypes, Turned
<1>2. active # None => active \in DOMAIN conv BY DEF ConvInv, Placed
<1>3. Selection' BY <1>2 DEF ConvInv, Selection, C!Known, C!PresetOf, Turned
<1>4. Placed' BY DEF ConvInv, Placed, C!Stored, Turned
<1>5. OpsInv' BY DEF ConvInv, OpsInv, Turned
<1>6. PrivateInv' BY <1>2 DEF ConvInv, PrivateInv, C!Visible, Turned
<1>7. \A j \in DOMAIN queue :
        /\ queue[j].s \in DOMAIN conv' /\ conv'[queue[j].s].engine = queue[j].preset.engine
        /\ queue[j].who = "owner" => Seen(conv'[queue[j].s])
        /\ queue[j].who = "close" => conv'[queue[j].s].scope = None
  BY DEF ConvInv, WorkInv, C!Visible, Seen, Turned
<1>8. \A i \in DOMAIN queue' :
        /\ queue'[i].s \in DOMAIN conv' /\ conv'[queue'[i].s].engine = queue'[i].preset.engine
        /\ queue'[i].who = "owner" => Seen(conv'[queue'[i].s])
        /\ queue'[i].who = "close" => conv'[queue'[i].s].scope = None
  BY <1>7
<1>9. WorkInv' BY <1>8 DEF WorkInv, C!Visible, Seen
<1>10. QED BY <1>1, <1>3, <1>4, <1>5, <1>6, <1>9 DEF ConvInv

\* A conversation has one native session for an engine.
Linkable(c) ==
  \A l, m \in c.linked : l.engine # c.engine /\ (l.engine = m.engine => l = m)

LEMMA NativeOf ==
  ASSUME NEW c, Linkable(c), NEW l \in Slots(c)
  PROVE  C!Native(c, l.engine) = l
<1> DEFINE o == [engine |-> c.engine,
                 token |-> IF c.native # None THEN c.native ELSE c.own, started |-> c.started]
<1>1. CASE l = o BY <1>1 DEF C!Native
<1>2. CASE l \in c.linked
  <2>1. c.engine # l.engine BY <1>2 DEF Linkable
  <2>2. C!Linked(c, l.engine) = {l} BY <1>2 DEF Linkable, C!Linked
  <2>3. QED BY <2>1, <2>2 DEF C!Native
<1>3. QED BY <1>1, <1>2 DEF Slots

LEMMA NativeIs ==
  ASSUME NEW c, NEW e, Linkable(c), c.engine = e \/ C!Linked(c, e) # {}
  PROVE  C!Native(c, e) \in Slots(c) /\ C!Native(c, e).engine = e
<1>1. \E l \in Slots(c) : l.engine = e
  <2>1. CASE c.engine = e
    <3> DEFINE o == [engine |-> c.engine,
                     token |-> IF c.native # None THEN c.native ELSE c.own, started |-> c.started]
    <3>1. o \in Slots(c) BY DEF Slots
    <3>2. o.engine = e BY <2>1
    <3>3. QED BY <3>1, <3>2
  <2>2. CASE C!Linked(c, e) # {}
    <3>1. PICK l \in c.linked : l.engine = e BY <2>2 DEF C!Linked
    <3>2. QED BY <3>1 DEF Slots
  <2>3. QED BY <2>1, <2>2
<1>2. PICK l \in Slots(c) : l.engine = e BY <1>1
<1>3. QED BY <1>2, NativeOf

\* The session of engine e of conversation s becomes one with ID t.
Replaced(s, e, t, st) ==
  /\ Slots(conv'[s]) = {m \in Slots(conv[s]) : m.engine # e}
                       \cup {[engine |-> e, token |-> t, started |-> st]}
  /\ \A z \in DOMAIN conv : z # s => conv'[z] = conv[z]

LEMMA ReplacedSlots ==
  ASSUME ConvInv, NEW s \in DOMAIN conv, NEW e, NEW t, NEW st,
         DOMAIN conv' = DOMAIN conv, Replaced(s, e, t, st),
         \/ t = token + 1 /\ token' = token + 1
         \/ token' = token /\ \E l \in Slots(conv[s]) : l.engine = e /\ l.token = t
  PROVE  /\ SlotInv'
         /\ \A z \in DOMAIN conv : \A l \in Slots(conv'[z]) :
              \/ z = s /\ l = [engine |-> e, token |-> t, started |-> st]
              \/ l \in Slots(conv[z]) /\ l.token # t /\ (z = s => l.engine # e)
<1> DEFINE o == [engine |-> e, token |-> t, started |-> st]
<1>1. token \in Nat BY DEF ConvInv, ConvTypes
<1>2. \A z \in DOMAIN conv : \A l \in Slots(conv[z]) : l.token \in 1 .. token
  BY DEF ConvInv, SlotInv
<1>3. \A z, y \in DOMAIN conv : \A l \in Slots(conv[z]), m \in Slots(conv[y]) :
        l.token = m.token => z = y /\ l = m
  BY DEF ConvInv, SlotInv
<1>4. t \in 1 .. token' /\ token <= token' BY <1>1, <1>2
<1>5. \A z \in DOMAIN conv : \A l \in Slots(conv[z]) : ~(z = s /\ l.engine = e) => l.token # t
  BY <1>1, <1>2, <1>3
<1>6. o.token = t OBVIOUS
<1>7. \A z \in DOMAIN conv : \A l \in Slots(conv'[z]) :
        \/ z = s /\ l = o
        \/ l \in Slots(conv[z]) /\ l.token # t /\ (z = s => l.engine # e)
  BY <1>5 DEF Replaced
<1> HIDE DEF o
<1>8. SlotInv'
  <2> SUFFICES ASSUME NEW z \in DOMAIN conv, NEW y \in DOMAIN conv,
                      NEW l \in Slots(conv'[z]), NEW m \in Slots(conv'[y])
               PROVE  l.token \in 1 .. token' /\ (l.token = m.token => z = y /\ l = m)
    BY DEF SlotInv, Slots
  <2>1. l.token \in 1 .. token' BY <1>1, <1>2, <1>4, <1>6, <1>7
  <2>2. l.token = m.token => z = y /\ l = m BY <1>3, <1>6, <1>7
  <2>3. QED BY <2>1, <2>2
<1>9. QED BY <1>7, <1>8 DEF o

\* setNative
LEMMA SetNativeOf ==
  ASSUME ConvInv, run # C!NoRun, NEW l \in Slots(conv[run.s]), l.engine = run.preset.engine,
         NEW t \in Nat, NEW st \in BOOLEAN, conv' = C!SetNative(t, st)
  PROVE  Turned /\ Bound' /\ Replaced(run.s, run.preset.engine, t, st)
<1> DEFINE s == run.s
           e == run.preset.engine
           n == [engine |-> e, token |-> t, started |-> st]
<1>1. conv \in Seq(Records) /\ run \in Turns BY DEF ConvInv, ConvTypes
<1>2. s \in DOMAIN conv BY DEF ConvInv, RunInv
<1>3. conv[s] \in Records BY <1>1, <1>2
<1>4. Linkable(conv[s]) BY <1>2 DEF ConvInv, Bound, Linkable
<1>5. e \in Engines BY <1>1 DEF Turns, Engines
<1>6. n \in NativeSessions BY <1>5 DEF NativeSessions
<1> HIDE DEF s, e, n
<1>7. CASE conv[s].engine = e
  <2> DEFINE v == [conv[s] EXCEPT !.native = t, !.started = st]
  <2>1. conv' = [conv EXCEPT ![s] = v]
    BY <1>1, <1>2, <1>7 DEF C!SetNative, s, e
  <2>2. /\ v \in Records /\ v.engine = conv[s].engine /\ v.preset = conv[s].preset
        /\ v.scope = conv[s].scope /\ v.shared = conv[s].shared /\ v.linked = conv[s].linked
        /\ v.native = t /\ v.started = st
    BY <1>3 DEF Records
  <2> HIDE DEF v
  <2>3. conv'[s] = v /\ \A z \in DOMAIN conv : z # s => conv'[z] = conv[z]
    BY <1>1, <1>2, <2>1
  <2>4. Turned BY <1>1, <1>2, <2>1, <2>2, <2>3 DEF Turned
  <2>5. Bound' BY <2>2, <2>3, <2>4 DEF ConvInv, Bound, Turned
  <2>6. Slots(v) = {m \in Slots(conv[s]) : m.engine # e} \cup {n}
    BY <1>4, <1>7, <2>2 DEF Slots, Linkable, n
  <2>7. QED BY <2>3, <2>4, <2>5, <2>6 DEF Replaced, s, e, n
<1>8. CASE conv[s].engine # e
  <2> DEFINE k == {m \in conv[s].linked : m.engine # e} \cup {n}
             v == [conv[s] EXCEPT !.linked = k]
  <2>1. conv' = [conv EXCEPT ![s] = v]
    BY <1>1, <1>2, <1>8 DEF C!SetNative, s, e, n
  <2>2. k \subseteq NativeSessions BY <1>3, <1>6 DEF Records
  <2>3. /\ v \in Records /\ v.engine = conv[s].engine /\ v.preset = conv[s].preset
        /\ v.scope = conv[s].scope /\ v.shared = conv[s].shared /\ v.linked = k
        /\ v.native = conv[s].native /\ v.started = conv[s].started /\ v.own = conv[s].own
    BY <1>3, <2>2 DEF Records
  <2>4. \A i, j \in k : i.engine # conv[s].engine /\ (i.engine = j.engine => i = j)
    BY <1>4, <1>8 DEF Linkable, n
  <2> HIDE DEF v
  <2>5. conv'[s] = v /\ \A z \in DOMAIN conv : z # s => conv'[z] = conv[z]
    BY <1>1, <1>2, <2>1
  <2>6. Turned BY <1>1, <1>2, <2>1, <2>3, <2>5 DEF Turned
  <2>7. Bound' BY <2>3, <2>4, <2>5, <2>6 DEF ConvInv, Bound, Turned
  <2>8. Slots(v) = {m \in Slots(conv[s]) : m.engine # e} \cup {n}
    BY <1>8, <2>3 DEF Slots
  <2>9. QED BY <2>5, <2>6, <2>7, <2>8 DEF Replaced, s, e, n
<1>9. QED BY <1>7, <1>8

\* launchSetup: the turn takes the session of its engine, one new to the conversation
\* when it has none.
LEMMA LaunchKeeps ==
  ASSUME ConvInv, run = C!NoRun \/ run.token = 0, NEW q, q.s \in DOMAIN conv,
         q.who \in {"owner", "application", "close"},
         NEW p \in Presets, NEW fallback \in Presets \cup {None}, NEW ordered \in BOOLEAN,
         C!Launch(q, p, fallback, ordered), UNCHANGED claimed
  PROVE  /\ Turned /\ Bound' /\ SlotInv' /\ ClaimInv' /\ RunInv'
         /\ token' \in Nat /\ run' \in Turns
<1> DEFINE s == q.s
           e == p.engine
           new == conv[s].engine # e /\ C!Linked(conv[s], e) = {}
           o == [engine |-> e, token |-> token + 1, started |-> FALSE]
           k == conv[s].linked \cup {o}
           v == [conv[s] EXCEPT !.linked = k]
           n == C!Native(conv'[s], e)
<1>1. conv \in Seq(Records) /\ token \in Nat BY DEF ConvInv, ConvTypes
<1>2. conv[s] \in Records /\ s \in Nat BY <1>1
<1>3. /\ conv' = IF new THEN [conv EXCEPT ![s] = v] ELSE conv
      /\ token' = IF new THEN token + 1 ELSE token
      /\ run' = [s |-> s, who |-> q.who, preset |-> p, chain |-> fallback, ordered |-> ordered,
                 token |-> n.token, resumed |-> n.started,
                 offered |-> \E m \in C!Claims(n.token) : m.ordered]
  BY <1>1 DEF C!Launch
<1>4. Linkable(conv[s]) BY DEF ConvInv, Bound, Linkable
<1>5. o \in NativeSessions BY <1>1 DEF NativeSessions, Engines
<1> HIDE DEF s, e, o
<1>6. \A z \in DOMAIN conv : \A l \in Slots(conv[z]) : l.token \in 1 .. token
  BY DEF ConvInv, SlotInv
<1>7. /\ Turned /\ Bound' /\ SlotInv' /\ token' \in Nat
      /\ \A z \in DOMAIN conv : \A l \in Slots(conv'[z]) :
           l \in Slots(conv[z]) \/ (l.token = token + 1 /\ token' = token + 1)
      /\ conv'[s].engine = e \/ C!Linked(conv'[s], e) # {}
  <2>1. CASE ~new
    <3>1. conv' = conv /\ token' = token BY <1>3, <2>1
    <3>2. Turned BY <1>1, <3>1 DEF Turned
    <3>3. Bound' BY <3>1 DEF ConvInv, Bound
    <3>4. SlotInv' BY <3>1 DEF ConvInv, SlotInv, Slots
    <3>5. conv'[s].engine = e \/ C!Linked(conv'[s], e) # {} BY <2>1, <3>1
    <3>6. \A z \in DOMAIN conv : \A l \in Slots(conv'[z]) : l \in Slots(conv[z]) BY <3>1
    <3>7. QED BY <1>1, <3>1, <3>2, <3>3, <3>4, <3>5, <3>6
  <2>2. CASE new
    <3>1. /\ v \in Records /\ v.engine = conv[s].engine /\ v.preset = conv[s].preset
          /\ v.scope = conv[s].scope /\ v.shared = conv[s].shared /\ v.linked = k
          /\ v.native = conv[s].native /\ v.started = conv[s].started /\ v.own = conv[s].own
      BY <1>2, <1>5 DEF Records
    <3>2. o.engine = e /\ o.token = token + 1 BY DEF o
    <3>3. \A i, j \in k : i.engine # conv[s].engine /\ (i.engine = j.engine => i = j)
      BY <1>4, <2>2, <3>2 DEF Linkable, C!Linked
    <3>4. Slots(v) = Slots(conv[s]) \cup {o} BY <3>1 DEF Slots
    <3>5. \A l \in Slots(conv[s]) : l.engine # e BY <2>2 DEF Slots, C!Linked
    <3>6. conv' = [conv EXCEPT ![s] = v] /\ token' = token + 1 BY <1>3, <2>2
    <3> HIDE DEF v, k, new
    <3>7. /\ conv'[s] = v /\ DOMAIN conv' = DOMAIN conv
          /\ \A z \in DOMAIN conv : z # s => conv'[z] = conv[z]
      BY <1>1, <3>6 DEF s
    <3>8. Turned BY <1>1, <3>1, <3>6, <3>7 DEF Turned, s
    <3>9. Bound' BY <3>1, <3>3, <3>7 DEF ConvInv, Bound
    <3>10. Replaced(s, e, token + 1, FALSE)
      <4>1. Slots(conv'[s]) = {m \in Slots(conv[s]) : m.engine # e} \cup {o}
        BY <3>4, <3>5, <3>7
      <4>2. QED BY <3>7, <4>1 DEF Replaced, o
    <3>11. SlotInv'
      <4>1. s \in DOMAIN conv BY DEF s
      <4>2. QED BY <3>6, <3>7, <3>10, <4>1, ReplacedSlots
    <3>12. C!Linked(conv'[s], e) # {}
      <4>1. o \in conv'[s].linked BY <3>1, <3>7 DEF k
      <4>2. QED BY <3>2, <4>1 DEF C!Linked
    <3>13. \A z \in DOMAIN conv : \A l \in Slots(conv'[z]) :
             l \in Slots(conv[z]) \/ l.token = token + 1
      BY <3>2, <3>4, <3>7
    <3>14. QED BY <1>1, <3>6, <3>8, <3>9, <3>11, <3>12, <3>13
  <2>3. QED BY <2>1, <2>2
<1>8. s \in DOMAIN conv' BY <1>7 DEF Turned, s
<1>9. n \in Slots(conv'[s]) /\ n.engine = e
  <2>1. Linkable(conv'[s]) BY <1>7, <1>8 DEF Bound, Linkable
  <2>2. QED BY <1>7, <2>1, NativeIs
<1>10. conv'[s] \in Records BY <1>7, <1>8 DEF Turned
<1>11. n.token \in Nat /\ n.started \in BOOLEAN
  BY <1>9, <1>10 DEF Slots, Records, NativeSessions
<1> HIDE DEF n, new, v, k
<1>12. run' \in Turns
  <2>1. (\E m \in C!Claims(n.token) : m.ordered) \in BOOLEAN OBVIOUS
  <2>2. QED BY <1>2, <1>3, <1>11, <2>1 DEF Turns, s
<1>13. n.token \in 1 .. token' BY <1>7, <1>8, <1>9 DEF SlotInv
<1>14. run' # C!NoRun BY <1>2, <1>3 DEF C!NoRun, s
\* No session of an ordered attempt is one not known to have started.
<1>15. \A m \in claimed : \A z \in DOMAIN conv : \A l \in Slots(conv'[z]) :
         l.token = m.token => /\ m.s = z /\ m.engine = l.engine
                              /\ m.engine \in Reports => l.started
                              /\ l.started \/ ~m.ordered
  <2> SUFFICES ASSUME NEW m \in claimed, NEW z \in DOMAIN conv, NEW l \in Slots(conv'[z]),
                      l.token = m.token
               PROVE  /\ m.s = z /\ m.engine = l.engine
                      /\ m.engine \in Reports => l.started
                      /\ l.started \/ ~m.ordered
    OBVIOUS
  <2>1. m.token \in 1 .. token BY DEF ConvInv, ClaimInv
  <2>2. l \in Slots(conv[z]) BY <1>1, <1>7, <2>1
  <2>3. /\ m.s = z /\ m.engine = l.engine
        /\ m.engine \in Reports => l.started
        /\ ~l.started /\ m.ordered => run # C!NoRun /\ run.token = m.token
    BY <2>2 DEF ConvInv, ClaimInv
  <2>4. QED BY <1>1, <2>1, <2>3
<1>16. ClaimInv'
  <2>1. \A m \in claimed : m.token \in 1 .. token' BY <1>1, <1>3 DEF ConvInv, ClaimInv
  <2>2. QED BY <1>7, <1>15, <2>1 DEF ClaimInv, Turned, Slots
<1>17. RunInv'
  <2>1. run'.token = n.token /\ run'.s = s /\ run'.preset = p /\ run'.resumed = n.started
        /\ run'.offered = \E m \in C!Claims(n.token) : m.ordered
    BY <1>3
  <2>2. ~n.started => ~\E m \in C!Claims(n.token) : m.ordered
    BY <1>7, <1>8, <1>9, <1>15 DEF C!Claims, Turned
  <2>3. n.token > 0 /\ n.token # 0 BY <1>13
  <2>4. n.engine = p.engine BY <1>9 DEF e
  <2>5. QED BY <1>8, <1>9, <2>1, <2>2, <2>3, <2>4 DEF RunInv
<1>18. QED BY <1>7, <1>12, <1>16, <1>17

LEMMA StartRunKeeps ==
  ASSUME ConvInv, C!StartRun PROVE ConvInv'
<1> DEFINE q == Head(queue)
<1>1. /\ run = C!NoRun /\ queue # <<>> /\ queue' = Tail(queue)
      /\ UNCHANGED <<others, active, ai, op, claimed, ops>>
  BY DEF C!StartRun
<1>2. queue \in Seq(Pinned) BY DEF ConvInv, ConvTypes
<1>3. q = queue[1] /\ 1 \in DOMAIN queue /\ q \in Pinned BY <1>1, <1>2
<1>4. queue' \in Seq(Pinned) /\ \A i \in DOMAIN queue' : i + 1 \in DOMAIN queue
        /\ queue'[i] = queue[i + 1]
  BY <1>1, <1>2
<1>5. claimed \subseteq [token : Nat, s : Nat, engine : Engines, ordered : BOOLEAN]
  BY DEF ConvInv, ConvTypes
<1>6. CASE C!Launch(q, q.preset, q.chain, q.chain # None)
  <2>1. q.s \in DOMAIN conv BY <1>3 DEF ConvInv, WorkInv
  <2>2. /\ q.who \in {"owner", "application", "close"} /\ q.preset \in Presets
        /\ q.chain \in Presets \cup {None} /\ (q.chain # None) \in BOOLEAN
    BY <1>3 DEF Pinned
  <2> HIDE DEF q
  <2>3. /\ Turned /\ Bound' /\ SlotInv' /\ ClaimInv' /\ RunInv'
        /\ token' \in Nat /\ run' \in Turns
    BY <1>1, <1>6, <2>1, <2>2, LaunchKeeps
  <2>4. QED BY <1>1, <1>4, <1>5, <2>3, TurnStep
<1>7. CASE UNCHANGED <<conv, run, token>>
  <2>1. Turned BY <1>7 DEF Turned, ConvInv, ConvTypes
  <2>2. Bound' /\ SlotInv' /\ ClaimInv' /\ RunInv'
    BY <1>1, <1>7 DEF ConvInv, Bound, SlotInv, Slots, ClaimInv, RunInv
  <2>3. QED BY <1>1, <1>4, <1>5, <1>7, <2>1, <2>2, TurnStep DEF ConvInv, ConvTypes
<1>8. QED BY <1>6, <1>7 DEF C!StartRun

LEMMA NextSetupKeeps ==
  ASSUME ConvInv, C!NextSetup PROVE ConvInv'
<1>1. /\ run # C!NoRun /\ run.token = 0 /\ C!Launch(run, run.chain, None, TRUE)
      /\ UNCHANGED <<others, active, ai, op, queue, claimed, ops>>
  BY DEF C!NextSetup
<1>2. run \in Turns BY <1>1 DEF ConvInv, ConvTypes
<1>3. run.s \in DOMAIN conv /\ run.chain # None BY <1>1 DEF ConvInv, RunInv
<1>4. run.who \in {"owner", "application", "close"} /\ run.chain \in Presets
  BY <1>2, <1>3 DEF Turns
<1>5. /\ Turned /\ Bound' /\ SlotInv' /\ ClaimInv' /\ RunInv'
      /\ token' \in Nat /\ run' \in Turns
  BY <1>1, <1>3, <1>4, LaunchKeeps
<1>6. QED BY <1>1, <1>5, TurnStep DEF ConvInv, ConvTypes

\* The turn under way, and what is known of the session it runs in.
LEMMA RunningIn ==
  ASSUME ConvInv, run # C!NoRun, run.token > 0
  PROVE  /\ run \in Turns /\ run.s \in DOMAIN conv /\ run.s \in Nat
         /\ run.token \in 1 .. token
         /\ \E l \in Slots(conv[run.s]) :
              /\ l.token = run.token /\ l.engine = run.preset.engine
              /\ C!Native(conv[run.s], run.preset.engine) = l
         /\ \A z \in DOMAIN conv : \A m \in Slots(conv[z]) : m.token = run.token =>
              z = run.s /\ m.engine = run.preset.engine
<1>1. run \in Turns BY DEF ConvInv, ConvTypes
<1>2. run.s \in DOMAIN conv /\ run.s \in Nat BY <1>1 DEF ConvInv, RunInv, Turns
<1>3. PICK l \in Slots(conv[run.s]) : l.token = run.token /\ l.engine = run.preset.engine
  BY DEF ConvInv, RunInv
<1>4. Linkable(conv[run.s]) BY <1>2 DEF ConvInv, Bound, Linkable
<1>5. C!Native(conv[run.s], run.preset.engine) = l BY <1>3, <1>4, NativeOf
<1>6. run.token \in 1 .. token BY <1>2, <1>3 DEF ConvInv, SlotInv
<1>7. \A z \in DOMAIN conv : \A m \in Slots(conv[z]) : m.token = run.token =>
        z = run.s /\ m.engine = run.preset.engine
  BY <1>2, <1>3 DEF ConvInv, SlotInv
<1>8. QED BY <1>1, <1>2, <1>3, <1>5, <1>6, <1>7

\* What the session of another turn's claim is like.
LEMMA ClaimsOf ==
  ASSUME ConvInv, run # C!NoRun, run.token > 0, NEW m \in claimed, NEW z \in DOMAIN conv,
         NEW l \in Slots(conv[z]), l.token = m.token
  PROVE  /\ m.s = z /\ m.engine = l.engine
         /\ m.engine \in Reports => l.started
         /\ ~l.started /\ m.ordered =>
              run.ordered /\ z = run.s /\ l.engine = run.preset.engine /\ m.token = run.token
<1>1. /\ m.s = z /\ m.engine = l.engine
      /\ m.engine \in Reports => l.started
      /\ ~l.started /\ m.ordered => run.token = m.token /\ run.ordered
  BY DEF ConvInv, ClaimInv
<1>2. \A y \in DOMAIN conv : \A k \in Slots(conv[y]) : k.token = run.token =>
        y = run.s /\ k.engine = run.preset.engine
  BY RunningIn
<1>3. QED BY <1>1, <1>2

\* onSession
LEMMA ReportKeeps ==
  ASSUME ConvInv, C!ReportSession PROVE ConvInv'
<1> DEFINE s == run.s
           e == run.preset.engine
           c == [token |-> token + 1, s |-> s, engine |-> e, ordered |-> run.ordered]
<1>1. /\ run # C!NoRun /\ run.token > 0 /\ token' = token + 1
      /\ conv' = C!SetNative(token + 1, TRUE) /\ claimed' = claimed \cup {c}
      /\ run' = [run EXCEPT !.token = token + 1, !.resumed = TRUE]
      /\ UNCHANGED <<others, active, ai, op, queue, ops>>
  BY DEF C!ReportSession, C!Claim
<1>2. /\ token \in Nat /\ token + 1 \in Nat /\ queue \in Seq(Pinned)
      /\ claimed \subseteq [token : Nat, s : Nat, engine : Engines, ordered : BOOLEAN]
  BY DEF ConvInv, ConvTypes
<1>3. run \in Turns /\ s \in DOMAIN conv /\ s \in Nat BY <1>1, RunningIn
<1>4. PICK l \in Slots(conv[s]) : l.token = run.token /\ l.engine = e BY <1>1, RunningIn
<1>5. Turned /\ Bound' /\ Replaced(s, e, token + 1, TRUE)
  BY <1>1, <1>2, <1>4, SetNativeOf
<1>6. DOMAIN conv' = DOMAIN conv BY <1>5 DEF Turned
<1> DEFINE o == [engine |-> e, token |-> token + 1, started |-> TRUE]
<1>7. /\ SlotInv'
      /\ \A z \in DOMAIN conv : \A k \in Slots(conv'[z]) :
           \/ z = s /\ k = o
           \/ k \in Slots(conv[z]) /\ k.token # token + 1 /\ (z = s => k.engine # e)
  <2> DEFINE t == token + 1
         st == TRUE
  <2>1. t = token + 1 /\ token' = token + 1 BY <1>1
  <2>2. s \in DOMAIN conv /\ Replaced(s, e, t, st) BY <1>3, <1>5
  <2>a. st = TRUE OBVIOUS
  <2> HIDE DEF s, e, t, st
  <2>3. /\ SlotInv'
        /\ \A z \in DOMAIN conv : \A k \in Slots(conv'[z]) :
             \/ z = s /\ k = [engine |-> e, token |-> t, started |-> st]
             \/ k \in Slots(conv[z]) /\ k.token # t /\ (z = s => k.engine # e)
    BY <1>6, <2>1, <2>2, ReplacedSlots
  <2>4. QED BY <2>a, <2>1, <2>3
<1>8. o.token = token + 1 /\ o.engine = e /\ o.started /\ o \in Slots(conv'[s])
  BY <1>5 DEF Replaced
<1>9. c.token = token + 1 /\ c.s = s /\ c.engine = e OBVIOUS
<1>10. c \in [token : Nat, s : Nat, engine : Engines, ordered : BOOLEAN]
  BY <1>2, <1>3 DEF Turns, Engines
<1>11. /\ run' \in Turns /\ run' # C!NoRun /\ run'.s = s /\ run'.preset = run.preset
       /\ run'.token = token + 1 /\ run'.resumed
  <2>1. run' \in Turns
    <3>1. \A t \in Nat : [run EXCEPT !.token = t, !.resumed = TRUE] \in Turns BY <1>3 DEF Turns
    <3>2. QED BY <1>1, <1>2, <3>1
  <2>2. QED BY <1>1, <1>3, <2>1 DEF Turns, C!NoRun
<1> HIDE DEF s, e, c, o
<1>12. ClaimInv'
  <2>1. \A m \in claimed : m.token \in 1 .. token BY DEF ConvInv, ClaimInv
  <2>2. \A m \in claimed' : m.token \in 1 .. token' BY <1>1, <1>2, <1>9, <2>1
  <2>3. ASSUME NEW m \in claimed, NEW z \in DOMAIN conv, NEW k \in Slots(conv'[z]),
               k.token = m.token
        PROVE  /\ m.s = z /\ m.engine = k.engine
               /\ m.engine \in Reports => k.started
               /\ k.started \/ ~m.ordered
    <3>1. k \in Slots(conv[z]) /\ (z = s => k.engine # e) BY <1>2, <1>7, <1>8, <2>1, <2>3
    <3>2. QED BY <1>1, <2>3, <3>1, ClaimsOf DEF s, e
  <2>4. ASSUME NEW z \in DOMAIN conv, NEW k \in Slots(conv'[z]), k.token = c.token
        PROVE  c.s = z /\ c.engine = k.engine /\ k.started
    BY <1>7, <1>8, <1>9, <2>4
  <2>5. \A m \in claimed' : m \in claimed \/ m = c BY <1>1
  <2>6. \A m \in claimed' : \A z \in DOMAIN conv' : \A k \in Slots(conv'[z]) :
          k.token = m.token =>
          /\ m.s = z /\ m.engine = k.engine
          /\ m.engine \in Reports => k.started
          /\ k.started \/ ~m.ordered
    BY <1>6, <2>3, <2>4, <2>5
  <2>7. QED BY <2>2, <2>6 DEF ClaimInv, Slots
<1>13. RunInv' BY <1>2, <1>3, <1>6, <1>8, <1>11 DEF RunInv, e
<1>14. QED BY <1>1, <1>2, <1>5, <1>7, <1>10, <1>11, <1>12, <1>13, TurnStep

\* A client that uses the ID it was given.
LEMMA ClaimKeeps ==
  ASSUME ConvInv, C!ClaimSession PROVE ConvInv'
<1> DEFINE c == [token |-> run.token, s |-> run.s, engine |-> run.preset.engine,
                 ordered |-> run.ordered]
<1>1. /\ run # C!NoRun /\ run.token > 0 /\ run.preset.engine \notin Reports
      /\ claimed' = claimed \cup {c}
      /\ UNCHANGED <<conv, others, active, ai, op, queue, run, token, ops>>
  BY DEF C!ClaimSession, C!Claim
<1>2. /\ run \in Turns /\ run.s \in Nat /\ run.token \in 1 .. token
      /\ \A z \in DOMAIN conv : \A m \in Slots(conv[z]) : m.token = run.token =>
           z = run.s /\ m.engine = run.preset.engine
  BY <1>1, RunningIn
<1>3. token \in Nat /\ claimed \subseteq [token : Nat, s : Nat, engine : Engines,
                                               ordered : BOOLEAN]
  BY DEF ConvInv, ConvTypes
<1>4. c \in [token : Nat, s : Nat, engine : Engines, ordered : BOOLEAN]
  BY <1>2, <1>3 DEF Turns, Engines
<1>5. c.token = run.token /\ c.s = run.s /\ c.engine = run.preset.engine OBVIOUS
<1> HIDE DEF c
<1>6. ClaimInv'
  <2>1. \A m \in claimed' : m \in claimed \/ m = c BY <1>1
  <2>2. \A s \in DOMAIN conv : Slots(conv'[s]) = Slots(conv[s]) /\ conv' = conv BY <1>1
  <2>3. \A z \in DOMAIN conv : \A l \in Slots(conv[z]) : l.token = c.token =>
          /\ c.s = z /\ c.engine = l.engine /\ c.engine \notin Reports
          /\ c.ordered => run.ordered
    BY <1>1, <1>2, <1>5 DEF c
  <2>4. c.token \in 1 .. token BY <1>2, <1>5
  <2>5. QED BY <1>1, <1>5, <2>1, <2>3, <2>4 DEF ConvInv, ClaimInv, Slots
<1>7. Turned /\ Bound' /\ SlotInv' /\ RunInv'
  BY <1>1 DEF ConvInv, ConvTypes, Turned, Bound, SlotInv, Slots, RunInv
<1>8. QED BY <1>1, <1>3, <1>4, <1>6, <1>7, TurnStep DEF ConvInv, ConvTypes

\* What a turn leaves when it ends or hands over to its fallback.
LEMMA Ended ==
  ASSUME ConvInv, run # C!NoRun, run.token > 0,
         run' = C!NoRun \/ (run.chain # None /\ run' = [run EXCEPT !.token = 0]),
         DOMAIN conv' = DOMAIN conv
  PROVE  run' \in {C!NoRun} \cup Turns /\ RunInv'
<1>1. run \in Turns /\ run.s \in DOMAIN conv BY RunningIn
<1>2. CASE run' = C!NoRun BY <1>2 DEF RunInv
<1>3. CASE run.chain # None /\ run' = [run EXCEPT !.token = 0]
  <2>1. run' \in Turns /\ run'.s = run.s /\ run'.chain = run.chain /\ run'.token = 0
    BY <1>1, <1>3 DEF Turns
  <2>2. QED BY <1>1, <1>3, <2>1 DEF RunInv
<1>4. QED BY <1>2, <1>3

\* The turn ends.
LEMMA FinishKeeps ==
  ASSUME ConvInv, NEW worked \in BOOLEAN, C!FinishRun(worked) PROVE ConvInv'
<1> DEFINE s == run.s
           e == run.preset.engine
           settled == C!Native(conv[s], e).started \/ (run.ordered /\ e \in Reports)
<1>1. /\ run # C!NoRun /\ run.token > 0
      /\ run' = C!NoRun \/ (run.chain # None /\ run' = [run EXCEPT !.token = 0])
      /\ UNCHANGED <<others, active, ai, op, queue, claimed, ops>>
  BY DEF C!FinishRun
<1>2. /\ token \in Nat /\ token + 1 \in Nat /\ conv \in Seq(Records) /\ queue \in Seq(Pinned)
      /\ claimed \subseteq [token : Nat, s : Nat, engine : Engines, ordered : BOOLEAN]
  BY DEF ConvInv, ConvTypes
<1>3. run \in Turns /\ s \in DOMAIN conv /\ s \in Nat BY <1>1, RunningIn
<1>4. PICK l \in Slots(conv[s]) : l.token = run.token /\ l.engine = e /\ C!Native(conv[s], e) = l
  BY <1>1, RunningIn
<1>5. \A m \in claimed : m.token \in 1 .. token BY DEF ConvInv, ClaimInv
\* Each way leaves the sessions apart, and no ordered claim on one not started.
<1>6. ASSUME Turned, Bound', SlotInv', token' \in Nat, token <= token',
             \A m \in claimed : \A z \in DOMAIN conv : \A k \in Slots(conv'[z]) :
               k.token = m.token =>
                 /\ m.s = z /\ m.engine = k.engine
                 /\ m.engine \in Reports => k.started
                 /\ k.started \/ ~m.ordered
      PROVE  ConvInv'
  <2>1. DOMAIN conv' = DOMAIN conv BY <1>6 DEF Turned
  <2>2. run' \in {C!NoRun} \cup Turns /\ RunInv' BY <1>1, <2>1, Ended
  <2>3. \A m \in claimed : m.token \in 1 .. token' BY <1>2, <1>5, <1>6
  <2>4. ClaimInv' BY <1>1, <1>6, <2>1, <2>3 DEF ClaimInv, Slots
  <2>5. QED BY <1>1, <1>2, <1>6, <2>2, <2>4, TurnStep
<1>7. CASE settled /\ UNCHANGED <<conv, token>>
  <2>1. Turned /\ Bound' /\ SlotInv'
    BY <1>2, <1>7 DEF ConvInv, Turned, Bound, SlotInv, Slots
  <2>2. ASSUME NEW m \in claimed, NEW z \in DOMAIN conv, NEW k \in Slots(conv[z]),
               k.token = m.token
        PROVE  /\ m.s = z /\ m.engine = k.engine
               /\ m.engine \in Reports => k.started
               /\ k.started \/ ~m.ordered
    <3>1. /\ m.s = z /\ m.engine = k.engine
          /\ m.engine \in Reports => k.started
          /\ ~k.started /\ m.ordered =>
               run.ordered /\ z = s /\ k.engine = e /\ m.token = run.token
      BY <1>1, <2>2, ClaimsOf
    <3>2. m.token = run.token /\ z = s => k = l BY <1>3, <1>4, <2>2 DEF ConvInv, SlotInv
    <3>3. QED BY <1>4, <1>7, <3>1, <3>2
  <2>3. QED BY <1>2, <1>6, <1>7, <2>1, <2>2
\* The session of the turn is replaced, by itself or by one with a new ID.
<1>8. ASSUME NEW t \in Nat, NEW st \in BOOLEAN, NEW f,
             Turned, Bound', Replaced(s, f, t, st),
             \/ (t = token + 1 /\ token' = token + 1)
             \/ (token' = token /\ st /\ \E k \in Slots(conv[s]) : k.engine = f /\ k.token = t),
             f = e \/ ~run.ordered
      PROVE  ConvInv'
  <2> DEFINE o == [engine |-> f, token |-> t, started |-> st]
  <2>1. DOMAIN conv' = DOMAIN conv BY <1>8 DEF Turned
  <2>2. /\ SlotInv'
        /\ \A z \in DOMAIN conv : \A k \in Slots(conv'[z]) :
             \/ z = s /\ k = o
             \/ k \in Slots(conv[z]) /\ k.token # t /\ (z = s => k.engine # f)
    BY <1>3, <1>8, <2>1, ReplacedSlots
  <2>3. o.token = t /\ o.engine = f /\ (o.started <=> st) OBVIOUS
  <2>4. token' \in Nat /\ token <= token' BY <1>2, <1>8
  <2> HIDE DEF o, s, e
  <2>5. ASSUME NEW m \in claimed, NEW z \in DOMAIN conv, NEW k \in Slots(conv'[z]),
               k.token = m.token
        PROVE  /\ m.s = z /\ m.engine = k.engine
               /\ m.engine \in Reports => k.started
               /\ k.started \/ ~m.ordered
    <3>1. CASE z = s /\ k = o
      <4>1. t # token + 1 BY <1>2, <1>5, <2>3, <2>5, <3>1
      <4>2. st /\ \E j \in Slots(conv[s]) : j.engine = f /\ j.token = t BY <1>8, <4>1
      <4>3. PICK j \in Slots(conv[s]) : j.engine = f /\ j.token = t BY <4>2
      <4>4. m.s = s /\ m.engine = j.engine BY <1>1, <1>3, <2>3, <2>5, <3>1, <4>3, ClaimsOf
      <4>5. QED BY <2>3, <3>1, <4>2, <4>3, <4>4
    <3>2. CASE k \in Slots(conv[z]) /\ (z = s => k.engine # f)
      <4>1. /\ m.s = z /\ m.engine = k.engine
            /\ m.engine \in Reports => k.started
            /\ ~k.started /\ m.ordered => run.ordered /\ z = s /\ k.engine = e
        BY <1>1, <2>5, <3>2, ClaimsOf DEF s, e
      <4>2. QED BY <1>8, <3>2, <4>1
    <3>3. QED BY <2>2, <3>1, <3>2
  <2>6. QED BY <1>6, <1>8, <2>2, <2>4, <2>5
<1>9. CASE run.ordered /\ C!Settle(worked)
  <2>1. CASE conv' = C!SetNative(run.token, TRUE) /\ UNCHANGED token
    <3>1. run.token \in Nat BY <1>3 DEF Turns
    <3>2. Turned /\ Bound' /\ Replaced(s, e, run.token, TRUE)
      BY <1>1, <1>4, <2>1, <3>1, SetNativeOf
    <3> HIDE DEF s, e
    <3>3. QED BY <1>4, <1>8, <2>1, <3>1, <3>2
  <2>2. CASE token' = token + 1 /\ conv' = C!SetNative(token + 1, FALSE)
    <3>1. Turned /\ Bound' /\ Replaced(s, e, token + 1, FALSE)
      BY <1>1, <1>2, <1>4, <2>2, SetNativeOf
    <3>2. \A t \in Nat : t = token + 1 /\ token' = token + 1 /\ Replaced(s, e, t, FALSE)
                        => ConvInv'
      BY <1>8, <3>1
    <3> HIDE DEF s, e
    <3>3. QED BY <1>2, <2>2, <3>1, <3>2
  <2>3. QED BY <1>9, <2>1, <2>2 DEF C!Settle
<1>10. CASE ~run.ordered /\ UNCHANGED <<conv, token>>
  <2>1. Turned /\ Bound' /\ SlotInv'
    BY <1>2, <1>10 DEF ConvInv, Turned, Bound, SlotInv, Slots
  <2>2. \A m \in claimed : \A z \in DOMAIN conv : \A k \in Slots(conv[z]) : k.token = m.token =>
          /\ m.s = z /\ m.engine = k.engine
          /\ m.engine \in Reports => k.started
          /\ k.started \/ ~m.ordered
    BY <1>10 DEF ConvInv, ClaimInv
  <2>3. QED BY <1>2, <1>6, <1>10, <2>1, <2>2
<1>11. CASE ~run.ordered /\ conv' = [conv EXCEPT ![s].started = TRUE] /\ UNCHANGED token
  <2> DEFINE c == conv[s]
             t == IF c.native # None THEN c.native ELSE c.own
             v == [c EXCEPT !.started = TRUE]
             o == [engine |-> c.engine, token |-> t, started |-> TRUE]
  <2>1. c \in Records BY <1>2, <1>3
  <2>2. conv' = [conv EXCEPT ![s] = v] BY <1>2, <1>3, <1>11
  <2>3. /\ v \in Records /\ v.engine = c.engine /\ v.preset = c.preset /\ v.scope = c.scope
        /\ v.shared = c.shared /\ v.linked = c.linked /\ v.native = c.native /\ v.own = c.own
        /\ v.started = TRUE
    BY <2>1 DEF Records
  <2>4. t \in Nat BY <2>1 DEF Records
  <2>5. Linkable(c) BY <1>3 DEF ConvInv, Bound, Linkable
  <2>6. Slots(v) = {m \in Slots(c) : m.engine # c.engine} \cup {o}
    BY <2>3, <2>5 DEF Slots, Linkable
  <2>7. \E k \in Slots(c) : k.engine = c.engine /\ k.token = t
    <3> DEFINE k == [engine |-> c.engine, token |-> t, started |-> c.started]
    <3>1. k \in Slots(c) BY DEF Slots
    <3>2. k.engine = c.engine /\ k.token = t OBVIOUS
    <3>3. QED BY <3>1, <3>2
  <2> HIDE DEF v, t
  <2>8. conv'[s] = v /\ \A z \in DOMAIN conv : z # s => conv'[z] = conv[z]
    BY <1>2, <1>3, <2>2
  <2>9. Turned BY <1>2, <1>3, <2>2, <2>3, <2>8 DEF Turned
  <2>10. Bound' BY <2>3, <2>8, <2>9 DEF ConvInv, Bound, Turned
  <2>11. Replaced(s, c.engine, t, TRUE) BY <2>6, <2>8 DEF Replaced
  <2> HIDE DEF s, e, c
  <2>12. QED BY <1>8, <1>11, <2>4, <2>7, <2>9, <2>10, <2>11 DEF c
<1>12. QED BY <1>7, <1>9, <1>10, <1>11 DEF C!FinishRun

LEMMA ConvInitHolds == C!Init => ConvInv
<1> SUFFICES ASSUME C!Init PROVE ConvInv OBVIOUS
<1>1. /\ conv = <<>> /\ others = <<>> /\ active = None /\ op = [c \in Channels |-> C!NoOp]
      /\ ai = [presets |-> {Initial}, sel |-> Initial.id, def |-> Initial.id, chain |-> None]
      /\ queue = <<>> /\ run = C!NoRun /\ claimed = {} /\ token = 0 /\ ops = 0
  BY DEF C!Init
<1>2. ConvTypes BY <1>1, NoOpIs DEF ConvTypes, Selections, Ids
<1>3. Selection BY <1>1 DEF Selection, C!Known
<1>4. DOMAIN conv = {} /\ DOMAIN others = {} /\ DOMAIN queue = {} BY <1>1
<1>5. Placed BY <1>1, <1>4 DEF Placed, C!Stored, C!ToSet, C!IsInjective
<1>6. Bound /\ WorkInv /\ PrivateInv /\ SlotInv /\ ClaimInv /\ RunInv
  BY <1>1, <1>4 DEF Bound, WorkInv, PrivateInv, SlotInv, ClaimInv, RunInv
<1>7. OpsInv BY <1>1, NoOpIs DEF OpsInv
<1>8. QED BY <1>2, <1>3, <1>5, <1>6, <1>7 DEF ConvInv

LEMMA ConvNextHolds == ConvInv /\ [C!Next]_(C!vars) => ConvInv'
<1> SUFFICES ASSUME ConvInv, [C!Next]_(C!vars) PROVE ConvInv' OBVIOUS
<1>1. CASE UNCHANGED C!vars
  BY <1>1 DEF C!vars, ConvInv, ConvTypes, Selection, C!Known, C!PresetOf, Placed, C!Stored,
     Bound, WorkInv,
     C!Visible, OpsInv, PrivateInv, SlotInv, Slots, ClaimInv, RunInv
<1>2. CASE C!Capture BY <1>2, CaptureKeeps
<1>3. CASE \E scope \in Scopes, s \in DOMAIN conv \cup {None}, share \in BOOLEAN,
              r \in Requested \cup {None} : C!CaptureApplication(scope, s, share, r)
  BY <1>3, CaptureApplicationKeeps
<1>4. CASE \E scope \in Scopes, s \in DOMAIN conv \cup {None}, p \in ai.presets \cup {None} :
              C!ChangeApplication(scope, p, s)
  BY <1>4, ChangeApplicationKeeps
<1>5. CASE \E c \in Channels :
             C!Open(c) \/ C!NewRead(c) \/ C!ResetSession(c) \/ C!QueueClose(c)
               \/ C!SelectPreset(c) \/ C!Refuse(c)
  BY <1>5, OpenKeeps, NewReadKeeps, ResetKeeps, QueueCloseKeeps, SelectPresetKeeps, RefuseKeeps
<1>6. CASE \E c \in Channels, p \in ai.presets : C!SelectRead(c, p) BY <1>6, SelectReadKeeps
<1>7. CASE \E c \in Channels, s \in DOMAIN conv : \E p \in C!Binding(s) : C!SwitchSession(c, s, p)
  BY <1>7, SwitchKeeps
<1>8. CASE \E s \in DOMAIN conv : C!ArchiveSession(s) \/ C!RestoreSession(s)
  BY <1>8, ArchiveKeeps, RestoreKeeps
<1>9. CASE \E p \in Savable : C!SavePreset(p) BY <1>9, SavePresetKeeps
<1>10. CASE \E found \in SUBSET Detected : C!SyncPresets(found) BY <1>10, SyncPresetsKeeps
<1>11. CASE C!DefaultPreset BY <1>11, DefaultKeeps
<1>12. CASE \E p \in ai.presets \cup {None} : C!SetFallbacks(p) BY <1>12, FallbacksKeep
<1>13. CASE C!StartRun BY <1>13, StartRunKeeps
<1>14. CASE C!NextSetup BY <1>14, NextSetupKeeps
<1>15. CASE C!ReportSession BY <1>15, ReportKeeps
<1>16. CASE C!ClaimSession BY <1>16, ClaimKeeps
<1>17. CASE \E worked \in BOOLEAN : C!FinishRun(worked) BY <1>17, FinishKeeps
<1>18. QED
  BY <1>1, <1>2, <1>3, <1>4, <1>5, <1>6, <1>7, <1>8, <1>9, <1>10, <1>11, <1>12, <1>13, <1>14,
     <1>15, <1>16, <1>17 DEF C!Next

LEMMA ConvInvHolds == C!Spec => []ConvInv
BY ConvInitHolds, ConvNextHolds, PTL DEF C!Spec

LEMMA ConvInvImplies == ConvInv => C!WorkResolves /\ C!ConversationsKeepApart
<1> SUFFICES ASSUME ConvInv PROVE C!WorkResolves /\ C!ConversationsKeepApart OBVIOUS
<1>1. C!StateIsReadable BY DEF ConvInv, Selection, Placed, Bound, C!StateIsReadable
<1>2. C!AdmittedWorkResolves
  BY DEF ConvInv, WorkInv, Placed, C!AdmittedWorkResolves, C!Resolves
<1>3. C!PrivateStaysPrivate BY DEF ConvInv, PrivateInv, WorkInv, C!PrivateStaysPrivate
<1>4. C!ResumesItsOwn
  <2> SUFFICES ASSUME run # C!NoRun, run.token > 0
               PROVE  /\ run.resumed => \A m \in C!Claims(run.token) :
                           m.s = run.s /\ m.engine = run.preset.engine
                      /\ ~run.resumed => ~run.offered
    BY DEF C!ResumesItsOwn
  <2>1. ~run.resumed => ~run.offered BY DEF ConvInv, RunInv
  <2>2. PICK l \in Slots(conv[run.s]) : l.token = run.token /\ l.engine = run.preset.engine
    BY RunningIn
  <2>3. run.s \in DOMAIN conv BY RunningIn
  <2>4. \A m \in C!Claims(run.token) : m.s = run.s /\ m.engine = run.preset.engine
    BY <2>2, <2>3, ClaimsOf DEF C!Claims
  <2>5. QED BY <2>1, <2>4
<1>5. QED BY <1>1, <1>2, <1>3, <1>4 DEF C!WorkResolves, C!ConversationsKeepApart

\* Every operation of the menus, the applications and the turns leaves a state that
\* can be read back, and the conversation each admitted message was captured with,
\* bound to the engine that was captured (control-state.ts, isState, captureChoice
\* and executionSession).
THEOREM AdmittedWorkIsKept == C!Spec => []WorkResolves
<1>1. ConvInv => WorkResolves BY ConvInvImplies DEF WorkResolves
<1>2. QED BY <1>1, ConvInvHolds, PTL

\* A turn resumes only a native session of its own conversation and engine, offers no
\* ID that an ordered attempt has used, and a private conversation of an application
\* never becomes the owner's (control-state.ts, engineSession and
\* settleEngineSession; application-channel.ts).
THEOREM ConversationsStayApart == C!Spec => []ConversationsKeepApart
<1>1. ConvInv => ConversationsKeepApart BY ConvInvImplies DEF ConversationsKeepApart
<1>2. QED BY <1>1, ConvInvHolds, PTL
=============================================================================
