---------------------------- MODULE ServicesProofs ----------------------------
(***************************************************************************)
(* Theorems about what the relay serves on its own, as MCServices composes *)
(* it: the lock of a schedule's files, delivery, and the event sources.    *)
(*                                                                         *)
(* The lock: mutual exclusion for any number of callers, until a process   *)
(* dies holding it, on the assumption its comment makes: no live holder    *)
(* keeps the lock for 30 seconds.                                          *)
(*                                                                         *)
(* Delivery, for any number of producers, runs and restarts of the relay   *)
(* and any bound on the settled messages it keeps: who is told what        *)
(* depends on three places a message can be in: the outbox, the hand the   *)
(* pump has on it, and the receipts of a hand-over record, which a later   *)
(* relay puts back.  DeliveryInv relates the three to what Telegram was    *)
(* given and to how far the producer is: a message is in none of them      *)
(* until its only admission, and a receipt never differs from what became  *)
(* of the message.                                                         *)
(*                                                                         *)
(* Event sources, for any sources, conversations and restarts: a batch is  *)
(* remembered until each of its groups has had a run, and what has a run   *)
(* is not given another while that run is in memory.  A batch that waits   *)
(* has a group without a run, so fewer of its groups than are kept have    *)
(* been released, and these are the latest of their source: pruning takes  *)
(* acknowledged runs only.  SourceInv says where each run stands by its    *)
(* batch and its number, and that a batch that waits is unfinished.        *)
(***************************************************************************)
EXTENDS MCServices, FiniteSetTheorems, TLAPS

(***************************************************************************)
(* The lock                                                                *)
(***************************************************************************)
\* Nothing looks stale, and whoever is past creation still owns the file.
OwnsFile == \A p \in Callers : pc[p] \in {"holding", "removing"} => file = p
NeverStale == ~old /\ ~orphan /\ \A p \in Callers : pc[p] # "breaking"
LockInv == TypeOK /\ (~died => NeverStale /\ OwnsFile)

\* With no lock file and nobody calling lock(), the invariant holds.
LEMMA LockInvInit == Init => LockInv
BY CallersAssumption DEF Init, LockInv, TypeOK, NeverStale, OwnsFile

\* The inductive step, one case per action.
LEMMA LockInvStep ==
  ASSUME ~Slow, LockInv, [Next]_vars
  PROVE  LockInv'
<1> USE CallersAssumption DEF LockInv, TypeOK, NeverStale, OwnsFile, Goto, RemoveFile
<1>1. ASSUME NEW p \in Callers, Call(p) PROVE LockInv'
  BY <1>1 DEF Call
<1>2. ASSUME NEW p \in Callers, Create(p) PROVE LockInv'
  BY <1>2 DEF Create
<1>3. ASSUME NEW p \in Callers, FindStale(p) PROVE LockInv'
  BY <1>3 DEF FindStale
<1>4. ASSUME NEW p \in Callers, BreakStale(p) PROVE LockInv'
  BY <1>4 DEF BreakStale
<1>5. ASSUME NEW p \in Callers, GiveUp(p) PROVE LockInv'
  BY <1>5 DEF GiveUp
<1>6. ASSUME NEW p \in Callers, ReadToken(p) PROVE LockInv'
  BY <1>6 DEF ReadToken
<1>7. ASSUME NEW p \in Callers, Release(p) PROVE LockInv'
  BY <1>7 DEF Release
<1>8. ASSUME NEW p \in Callers, Crash(p) PROVE LockInv'
  BY <1>8 DEF Crash
<1>9. CASE Age
  BY <1>9 DEF Age
<1>10. CASE UNCHANGED vars
  BY <1>10 DEF vars
<1> QED
  BY <1>1, <1>2, <1>3, <1>4, <1>5, <1>6, <1>7, <1>8, <1>9, <1>10 DEF Next

\* "Definition writes and dispatch commits for one task exclude each other across
\* the relay and CLI processes": true of lock() for every set of callers, as long
\* as no process has died holding the lock.
THEOREM LockExcludes ==
  ASSUME ~Slow
  PROVE  Spec => []ExclusionUntilDeath
<1>1. Init => LockInv
  BY LockInvInit
<1>2. LockInv /\ [Next]_vars => LockInv'
  BY LockInvStep
<1>3. LockInv => ExclusionUntilDeath
  BY DEF LockInv, OwnsFile, Exclusion, ExclusionUntilDeath
<1> QED
  BY <1>1, <1>2, <1>3, PTL DEF Spec

(***************************************************************************)
(* Delivery                                                                *)
(***************************************************************************)
\* A producer whose message has not been admitted yet.
Early == {"idle", "connecting", "connected", "submitted"}

\* A stop, graceful or not, is still to be followed by a start it has been granted.
StopsAreCounted == phase \notin {"up", "booting"} => deliveryStarts < MaxRestarts

\* How often Telegram was given a message in state s.
Agrees(s, m) ==
  /\ s \in {"queued", "failed"} => got[m] = 0
  /\ s = "sent" => got[m] = 1

\* The pump's message is claimed, and given to Telegram when its request arrived.
PumpHolds ==
  pump.at \in Messages \ {None} =>
    /\ outbox[pump.at] = "sending"
    /\ pump.step \in {"claimed", "reached", "lost"}
    /\ got[pump.at] = IF pump.step = "reached" THEN 1 ELSE 0

\* A message not admitted is nowhere; one refused never was.
Unadmitted(m) ==
  client[m] \in Early \cup {"refused"} =>
    /\ outbox[m] = "absent" /\ handOff.state[m] = "absent" /\ got[m] = 0
    /\ client[m] # "refused" => m \notin D!ToSet(made)

\* A receipt of the record is what the outbox has, if it has the message at all.
ReceiptsAgree(m) ==
  handOff.state[m] # "absent" => outbox[m] \in {"absent", handOff.state[m]}

\* What a producer was told is what the outbox or a receipt says, if they say anything.
AnswerStands(m) ==
  /\ client[m] = "delivered" =>
       got[m] = 1 /\ outbox[m] \in {"absent", "sent"} /\ handOff.state[m] \in {"absent", "sent"}
  /\ client[m] = "failed" =>
       got[m] = 0 /\ outbox[m] \in {"absent", "failed"}
         /\ handOff.state[m] \in {"absent", "failed"}

Sound(m) ==
  /\ got[m] <= 1 /\ handOff.state[m] \in {"absent"} \cup D!Settled
  /\ Agrees(outbox[m], m) /\ Agrees(handOff.state[m], m)
  /\ Unadmitted(m) /\ ReceiptsAgree(m) /\ AnswerStands(m)

DeliveryInv == D!TypeOK /\ StopsAreCounted /\ PumpHolds /\ \A m \in Messages : Sound(m)

-------------------------------------------------------------------------------
\* DeliveryInv says what the two properties say of it.
LEMMA InvImpliesProperties == DeliveryInv => D!TypeOK /\ D!SentOnce /\ D!AnswersAreTrue
  BY DEF DeliveryInv, Sound, Unadmitted, AnswerStands, D!SentOnce, D!AnswersAreTrue, Early

\* What the lemmas below are about: the parts of DeliveryInv and the types.
USE DEF StopsAreCounted, PumpHolds, Sound, Agrees, Unadmitted, ReceiptsAgree, AnswerStands,
        Early, D!OutboxState, D!Settled, D!Answers, D!Connected

LEMMA InitInv == D!Init => DeliveryInv
<1> SUFFICES ASSUME D!Init PROVE DeliveryInv OBVIOUS
<1> USE DEF D!Init
<1>1. made = <<>> /\ D!ToSet(made) = {} BY DEF D!ToSet
<1>2. D!TypeOK
  BY <1>1, DeliveryAssumption DEF D!TypeOK, D!NoFile, D!IdlePump, D!IsInjective, D!WorkRuns,
     D!Phases
<1>3. QED BY <1>1, <1>2 DEF D!NoFile, D!IdlePump, DeliveryInv

\* A producer's step; an admitted message was nowhere before.
LEMMA EnqueueOkInv == ASSUME DeliveryInv, NEW m \in Messages, D!EnqueueOk(m) PROVE DeliveryInv'
<1> USE DEF DeliveryInv
<1>1. /\ outbox[m] = "absent" /\ handOff.state[m] = "absent" /\ got[m] = 0
           /\ m \notin D!ToSet(made)
  BY DEF D!EnqueueOk
<1>2. /\ outbox' = [outbox EXCEPT ![m] = "queued"] /\ made' = Append(made, m)
      /\ client' = [client EXCEPT ![m] = "accepted"]
      /\ UNCHANGED <<got, running, phase, handed, handOff, deliveryStarts>>
  BY <1>1 DEF D!EnqueueOk, D!ClientTo, D!relay
<1>3. made' \in Seq(Messages) /\ D!IsInjective(made') /\ D!ToSet(made') = D!ToSet(made) \cup {m}
  <2>1. made \in Seq(Messages) /\ made' \in Seq(Messages) /\ Len(made') = Len(made) + 1
    BY <1>2 DEF D!TypeOK
  <2>2. \A i \in 1..Len(made') : made'[i] = IF i = Len(made) + 1 THEN m ELSE made[i]
    BY <1>2, <2>1
  <2>3. DOMAIN made' = 1..Len(made) + 1 /\ DOMAIN made = 1..Len(made) /\ Len(made) \in Nat
    BY <2>1
  <2>4. D!ToSet(made') = D!ToSet(made) \cup {m} BY <2>2, <2>3 DEF D!ToSet
  <2>5. D!IsInjective(made') BY <1>1, <2>2, <2>3 DEF D!TypeOK, D!IsInjective, D!ToSet
  <2>6. QED BY <2>1, <2>4, <2>5
<1>4. /\ pump' \in [on : BOOLEAN, batch : SUBSET D!ToSet(made'), at : Messages \cup {None},
                    step : {"none", "claimed", "reached", "lost"}]
      /\ pump' = pump \/ pump'.at = None
  <2>1. CASE pump' = pump BY <2>1, <1>3 DEF D!TypeOK
  <2>2. CASE pump' = D!Pumping(outbox')
    <3>1. {n \in Messages : outbox'[n] = "queued"} \subseteq D!ToSet(made')
      BY <1>2, <1>3 DEF D!TypeOK
    <3>2. QED BY <2>2, <3>1 DEF D!Pumping, D!IdlePump
  <2>3. QED BY <2>1, <2>2 DEF D!EnqueueOk, D!Woken
<1>5. D!TypeOK' BY <1>2, <1>3, <1>4 DEF D!TypeOK
<1>6. StopsAreCounted' BY <1>2
<1>7. PumpHolds' BY <1>1, <1>2, <1>4 DEF D!TypeOK
<1>8. ASSUME NEW n \in Messages PROVE Sound(n)'
  <2>1. Sound(n) OBVIOUS
  <2>2. CASE n = m BY <2>1, <2>2, <1>1, <1>2, <1>3 DEF D!TypeOK
  <2>3. CASE n # m BY <2>1, <2>3, <1>2, <1>3 DEF D!TypeOK
  <2>4. QED BY <2>2, <2>3
<1>9. QED BY <1>5, <1>6, <1>7, <1>8

LEMMA ClientStepInv == ASSUME DeliveryInv, NEW m \in Messages, D!ClientStep(m) PROVE DeliveryInv'
<1>1. CASE D!EnqueueOk(m) BY <1>1, EnqueueOkInv
<1>2. CASE ~D!EnqueueOk(m)
  <2>1. /\ \E s \in {"connected", "connecting", "refused", "submitted", "waiting", "unknown",
                     "delivered", "failed"} :
             /\ client' = [client EXCEPT ![m] = s]
             /\ s \in Early \cup {"refused"} => client[m] \in Early
             /\ s = "refused" \/ s \notin Early => client[m] # "refused"
             /\ s = "delivered" => outbox[m] = "sent"
             /\ s = "failed" => outbox[m] = "failed"
        /\ UNCHANGED <<outbox, made, pump, got, running, phase, handed, handOff, deliveryStarts>>
    BY <1>2 DEF D!ClientStep, D!Connect, D!GiveUp, D!Submit, D!EnqueueRefused, D!Wait, D!WakeUp,
       D!Timeout, D!ClientTo,
                D!AnswerOf, D!ledger, D!relay, DeliveryInv, D!TypeOK
  <2>2. D!TypeOK' BY <2>1 DEF DeliveryInv, D!TypeOK
  <2>3. StopsAreCounted' /\ PumpHolds' BY <2>1 DEF DeliveryInv
  <2>4. ASSUME NEW n \in Messages PROVE Sound(n)'
    <3>1. Sound(n) BY DEF DeliveryInv
    <3>2. QED BY <3>1, <2>1 DEF DeliveryInv, D!TypeOK
  <2>5. QED BY <2>2, <2>3, <2>4 DEF DeliveryInv
<1>3. QED BY <1>1, <1>2

\* The pump: what it claims was queued, and only what it holds is given to Telegram.
LEMMA ClaimInv == ASSUME DeliveryInv, D!Claim PROVE DeliveryInv'
<1> USE DEF DeliveryInv
<1>1. UNCHANGED <<made, client, got, running, phase, handed, handOff, deliveryStarts>>
  BY DEF D!Claim, D!relay
<1>2. pump.batch \subseteq D!ToSet(made) /\ D!ToSet(made) \subseteq Messages
  BY DEF D!TypeOK, D!ToSet
<1>3. PICK m \in pump.batch :
        IF D!Queued(m)
          THEN /\ outbox' = [outbox EXCEPT ![m] = "sending"]
               /\ pump' = [pump EXCEPT !.batch = @ \ {m}, !.at = m, !.step = "claimed"]
          ELSE /\ pump' = [pump EXCEPT !.batch = @ \ {m}]
               /\ UNCHANGED outbox
  BY DEF D!Claim
<1>4. m \in Messages BY <1>2
<1> DEFINE Pumps == [on : BOOLEAN, batch : SUBSET D!ToSet(made), at : Messages \cup {None},
                    step : {"none", "claimed", "reached", "lost"}]
<1>a. pump \in Pumps /\ outbox \in [Messages -> D!OutboxState] BY DEF D!TypeOK
<1>5. CASE ~D!Queued(m)
  <2>0. pump' = [pump EXCEPT !.batch = @ \ {m}] BY <1>3, <1>5
  <2>1. pump' \in Pumps /\ pump'.at = pump.at /\ pump'.step = pump.step
    BY ONLY <2>0, <1>a
  <2>2. outbox' = outbox BY <1>3, <1>5
  <2>3. D!TypeOK' BY <2>1, <2>2, <1>1 DEF D!TypeOK
  <2>4. ASSUME NEW n \in Messages PROVE Sound(n)'
    <3>1. Sound(n) OBVIOUS
    <3>2. QED BY <3>1, <2>2, <1>1
  <2>5. QED BY <2>1, <2>2, <2>3, <2>4, <1>1
<1>6. CASE D!Queued(m)
  <2>0. /\ outbox' = [outbox EXCEPT ![m] = "sending"]
        /\ pump' = [pump EXCEPT !.batch = @ \ {m}, !.at = m, !.step = "claimed"]
    BY <1>3, <1>6
  <2>1. pump' \in Pumps /\ pump'.at = m /\ pump'.step = "claimed"
    BY ONLY <2>0, <1>a, <1>4
  <2>2. /\ outbox[m] = "queued" /\ outbox'[m] = "sending"
             /\ outbox' \in [Messages -> D!OutboxState]
        /\ \A n \in Messages \ {m} : outbox'[n] = outbox[n]
    BY ONLY <2>0, <1>a, <1>4, <1>6 DEF D!Queued, D!OutboxState
  <2>3. /\ got[m] = 0 /\ handOff.state[m] = "absent"
        /\ client[m] \notin Early \cup {"refused", "delivered", "failed"}
    <3>1. Sound(m) BY <1>4
    <3>2. QED BY <3>1, <2>2
  <2>4. D!TypeOK' BY <2>1, <2>2, <1>1 DEF D!TypeOK
  <2>5. PumpHolds' BY <2>1, <2>2, <2>3, <1>1
  <2>6. ASSUME NEW n \in Messages PROVE Sound(n)'
    <3>1. Sound(n) OBVIOUS
    <3>2. CASE n = m BY <3>1, <3>2, <2>2, <2>3, <1>1
    <3>3. CASE n # m BY <3>1, <3>3, <2>2, <1>1
    <3>4. QED BY <3>2, <3>3
  <2>7. QED BY <2>4, <2>5, <2>6, <1>1
<1>7. QED BY <1>5, <1>6

LEMMA AttemptInv == ASSUME DeliveryInv, D!Attempt PROVE DeliveryInv'
<1> USE DEF DeliveryInv
<1>1. /\ UNCHANGED <<outbox, made, client, running, phase, handed, handOff, deliveryStarts>>
      /\ pump.at \in Messages \ {None} /\ pump.step = "claimed"
  BY DEF D!Attempt, D!ledger, D!relay, D!TypeOK
<1>2. PICK r \in {"reached", "lost"} :
        /\ pump' = [pump EXCEPT !.step = r]
        /\ got' = IF r = "reached" THEN [got EXCEPT ![pump.at] = @ + 1] ELSE got
  BY DEF D!Attempt
<1>3. /\ pump'.at = pump.at /\ pump'.step = r
      /\ pump' \in [on : BOOLEAN, batch : SUBSET D!ToSet(made), at : Messages \cup {None},
                    step : {"none", "claimed", "reached", "lost"}]
  BY <1>2 DEF D!TypeOK
<1>4. /\ outbox[pump.at] = "sending" /\ got[pump.at] = 0
      /\ got' \in [Messages -> Nat] /\ got'[pump.at] = IF r = "reached" THEN 1 ELSE 0
      /\ \A n \in Messages \ {pump.at} : got'[n] = got[n]
  BY <1>1, <1>2 DEF D!TypeOK
<1> HIDE DEF D!Attempt
<1>5. D!TypeOK' BY <1>1, <1>3, <1>4 DEF D!TypeOK
<1>6. PumpHolds' BY <1>1, <1>3, <1>4
<1>7. ASSUME NEW n \in Messages PROVE Sound(n)'
  <2>1. Sound(n) OBVIOUS
  <2>2. CASE n = pump.at
    <3>1. /\ outbox[n] = "sending" /\ handOff.state[n] = "absent"
          /\ client[n] \notin Early \cup {"refused", "delivered", "failed"}
      BY <1>4, <2>1, <2>2 DEF D!TypeOK
    <3>2. got'[n] <= 1 BY <1>4, <2>2
    <3>3. QED BY <3>1, <3>2, <1>1
  <2>3. CASE n # pump.at BY <2>1, <2>3, <1>1, <1>4
  <2>4. QED BY <2>2, <2>3
<1>8. QED BY <1>1, <1>5, <1>6, <1>7

LEMMA SettleInv == ASSUME DeliveryInv, D!Settle PROVE DeliveryInv'
<1> USE DEF DeliveryInv
<1> DEFINE c == pump.at
<1>0. c # None /\ c \in Messages BY DEF D!Settle, D!TypeOK
<1>1. PICK s \in D!Outcomes(pump.step) : outbox' = D!Pruned([outbox EXCEPT ![c] = s])
  BY DEF D!Settle
<1>2. s \in D!OutboxState BY <1>1 DEF D!Outcomes
<1>3. outbox' \in [Messages -> D!OutboxState] BY <1>1, <1>2 DEF D!Pruned, D!TypeOK
<1>4. \A n \in Messages : outbox'[n] \in {"absent", IF n = c THEN s ELSE outbox[n]}
  BY <1>1 DEF D!Pruned, D!TypeOK
<1>5. /\ pump' = [pump EXCEPT !.at = None, !.step = "none"]
      /\ UNCHANGED <<made, got, running, phase, handed, handOff, deliveryStarts>>
  BY DEF D!Settle, D!relay
<1>6. client' = [client EXCEPT ![c] = IF @ = "waiting" THEN "woken" ELSE @]
  BY DEF D!Settle, D!Notified
<1>7. outbox[c] = "sending" BY <1>0
<1>8. D!TypeOK'
  <2>1. ASSUME NEW n \in Messages, outbox'[n] # "absent" PROVE n \in D!ToSet(made)
    BY <2>1, <1>4, <1>7 DEF D!TypeOK
  <2>2. QED BY <1>3, <1>5, <1>6, <2>1 DEF D!TypeOK
<1>9. PumpHolds' BY <1>5 DEF D!TypeOK
<1>10. ASSUME NEW n \in Messages PROVE Sound(n)'
  <2>0. Sound(n) OBVIOUS
  <2>1. CASE n = c
    <3>1. /\ s \in {"sent", "failed", "unknown"}
          /\ s = "sent" => got[n] = 1
          /\ s = "failed" => got[n] = 0
      BY <1>0, <1>1, <2>1 DEF D!Outcomes
    <3>2. /\ outbox[n] = "sending" /\ handOff.state[n] = "absent"
          /\ client[n] \notin Early \cup {"refused", "delivered", "failed"}
      BY <2>0, <1>7, <2>1 DEF D!TypeOK
    <3>3. outbox'[n] \in {"absent", s} /\ got'[n] = got[n] /\ handOff' = handOff /\ made' = made
      BY <1>4, <1>5, <2>1
    <3>4. client'[n] = client[n] \/ client'[n] = "woken" BY <1>6 DEF D!TypeOK
    <3>5. QED BY <2>0, <3>1, <3>2, <3>3, <3>4
  <2>2. CASE n # c
    BY <2>0, <1>4, <1>5, <1>6, <2>2 DEF D!TypeOK
  <2>3. QED BY <2>1, <2>2
<1>11. QED BY <1>5, <1>8, <1>9, <1>10

\* A pump that starts holds nothing yet.
LEMMA StartsInv ==
  ASSUME DeliveryInv, pump' = pump \/ pump' = D!Pumping(outbox) \/ pump' = D!IdlePump,
         UNCHANGED <<outbox, made, client, got, handOff, deliveryStarts>>,
         running' \subseteq running, handed' = handed, phase' \in D!Phases,
         phase' \notin {"up", "booting"} => deliveryStarts < MaxRestarts
  PROVE  DeliveryInv'
<1> USE DEF DeliveryInv
<1>1. {n \in Messages : outbox[n] = "queued"} \subseteq D!ToSet(made) BY DEF D!TypeOK
<1>2. /\ pump' \in [on : BOOLEAN, batch : SUBSET D!ToSet(made), at : Messages \cup {None},
                    step : {"none", "claimed", "reached", "lost"}]
      /\ pump' = pump \/ pump'.at = None
  <2>1. CASE pump' = pump BY <2>1 DEF D!TypeOK
  <2>2. CASE pump' = D!Pumping(outbox) BY <2>2, <1>1 DEF D!Pumping, D!IdlePump
  <2>3. CASE pump' = D!IdlePump BY <2>3 DEF D!IdlePump
  <2>4. QED BY <2>1, <2>2, <2>3
<1>3. D!TypeOK' /\ PumpHolds' BY <1>2 DEF D!TypeOK
<1>4. ASSUME NEW n \in Messages PROVE Sound(n)'
  <2>1. Sound(n) OBVIOUS
  <2>2. QED BY <2>1
<1>5. QED BY <1>3, <1>4

LEMMA HandOverInv == ASSUME DeliveryInv, D!HandOver PROVE DeliveryInv'
<1> USE DEF DeliveryInv
<1>1. /\ handed' \subseteq running /\ phase' = "handing" /\ deliveryStarts < MaxRestarts
      /\ UNCHANGED <<outbox, made, pump, client, got, running, deliveryStarts>>
  BY DEF D!HandOver, D!ledger
<1>2. handOff' = handOff \/ \E runs \in SUBSET running : handOff' = D!Record(runs)
  BY DEF D!HandOver
<1>3. /\ handOff' \in [runs : SUBSET D!WorkRuns, state : [Messages -> D!OutboxState]]
      /\ \A n \in Messages :
           handOff'.state[n] = handOff.state[n] \/ handOff'.state[n] = "absent"
           \/ (handOff'.state[n] = outbox[n] /\ outbox[n] \in D!Settled)
  BY <1>2 DEF D!Record, D!TypeOK
<1>4. D!TypeOK' BY <1>1, <1>3 DEF D!TypeOK, D!Phases
<1>5. ASSUME NEW n \in Messages PROVE Sound(n)'
  <2>1. Sound(n) OBVIOUS
  <2>2. QED BY <2>1, <1>1, <1>3
<1>6. QED BY <1>1, <1>4, <1>5

\* What a process that ends leaves: the record, and producers whose answer is unknown.
LEMMA ForgetInv ==
  ASSUME DeliveryInv, D!Forget, deliveryStarts < MaxRestarts,
         handOff' = handOff \/ \E runs \in SUBSET D!WorkRuns : handOff' = D!Record(runs),
         \/ client' = client
         \/ client' = [m \in Messages |->
                          IF client[m] \in D!Connected THEN "unknown" ELSE client[m]]
  PROVE  DeliveryInv'
<1> USE DEF DeliveryInv
<1>1. /\ outbox' = [m \in Messages |-> "absent"] /\ pump' = D!IdlePump
      /\ running' = {} /\ handed' = {} /\ phase' = "down"
           /\ UNCHANGED <<made, got, deliveryStarts>>
  BY DEF D!Forget
<1>2. /\ handOff' \in [runs : SUBSET D!WorkRuns, state : [Messages -> D!OutboxState]]
      /\ \A n \in Messages :
           handOff'.state[n] = handOff.state[n] \/ handOff'.state[n] = "absent"
           \/ (handOff'.state[n] = outbox[n] /\ outbox[n] \in D!Settled)
  BY DEF D!Record, D!TypeOK
<1>3. D!TypeOK' BY <1>1, <1>2 DEF D!TypeOK, D!Phases, D!IdlePump
<1>4. PumpHolds' BY <1>1 DEF D!IdlePump
<1>5. ASSUME NEW n \in Messages PROVE Sound(n)'
  <2>1. Sound(n) OBVIOUS
  <2>2. client'[n] = client[n] \/ client'[n] = "unknown" BY DEF D!TypeOK
  <2>3. QED BY <2>1, <2>2, <1>1, <1>2
<1>6. QED BY <1>1, <1>3, <1>4, <1>5

LEMMA AdoptInv == ASSUME DeliveryInv, D!Adopt PROVE DeliveryInv'
<1> USE DEF DeliveryInv
<1>1. /\ outbox' = [m \in Messages |->
                       IF handOff.state[m] = "absent" THEN outbox[m] ELSE handOff.state[m]]
      /\ running' = handOff.runs /\ handOff' = D!NoFile /\ phase' = "up"
      /\ UNCHANGED <<made, pump, client, got, handed, deliveryStarts>>
  BY DEF D!Adopt
<1>2. D!TypeOK' BY <1>1 DEF D!TypeOK, D!NoFile, D!Phases
<1>3. PumpHolds'
  <2>1. ASSUME pump.at \in Messages \ {None} PROVE handOff.state[pump.at] = "absent"
    <3>1. Sound(pump.at) /\ outbox[pump.at] = "sending" /\ got[pump.at] \in {0, 1}
      BY <2>1
    <3>2. handOff.state[pump.at] \in D!OutboxState BY <2>1 DEF D!TypeOK
    <3>3. QED BY <3>1, <3>2
  <2>2. QED BY <1>1, <2>1 DEF D!TypeOK
<1>4. ASSUME NEW n \in Messages PROVE Sound(n)'
  <2>1. Sound(n) OBVIOUS
  <2>2. QED BY <2>1, <1>1 DEF D!TypeOK, D!NoFile
<1>5. QED BY <1>1, <1>2, <1>3, <1>4

\* The relay's step: a record holds what the outbox has, a process that ends forgets
\* the outbox, and the next one puts the receipts back.
LEMMA RelayStepInv == ASSUME DeliveryInv, D!RelayStep PROVE DeliveryInv'
<1>1. CASE D!Tick \/ D!PumpEnd \/ D!CloseServer \/ D!Drain
  BY <1>1, StartsInv DEF D!Tick, D!PumpEnd, D!CloseServer, D!Drain, D!Woken, D!ledger, D!relay,
     D!Phases, DeliveryInv, D!TypeOK
<1>2. CASE D!HandOver BY <1>2, HandOverInv
<1>3. CASE D!Down
  BY <1>3, ForgetInv DEF D!Down, DeliveryInv, D!TypeOK
<1>4. CASE D!Crash
  BY <1>4, ForgetInv DEF D!Crash
<1>5. CASE D!Boot
  <2> USE DEF DeliveryInv
  <2>1. /\ phase = "down" /\ phase' = "booting" /\ deliveryStarts' = deliveryStarts + 1
        /\ UNCHANGED <<outbox, made, pump, client, got, running, handed, handOff>>
    BY <1>5 DEF D!Boot, D!ledger
  <2>2. D!TypeOK' BY <2>1, DeliveryAssumption DEF D!TypeOK, D!Phases
  <2>3. PumpHolds' BY <2>1
  <2>4. ASSUME NEW n \in Messages PROVE Sound(n)'
    <3>1. Sound(n) OBVIOUS
    <3>2. QED BY <3>1, <2>1
  <2>5. QED BY <2>1, <2>2, <2>3, <2>4
<1>6. CASE D!Adopt BY <1>6, AdoptInv
<1>7. QED
  BY ClaimInv, AttemptInv, SettleInv, <1>1, <1>2, <1>3, <1>4, <1>5, <1>6 DEF D!RelayStep

\* Every step of the specification keeps the invariant.
LEMMA NextInv == DeliveryInv /\ [D!Next]_(D!vars) => DeliveryInv'
<1> SUFFICES ASSUME DeliveryInv, [D!Next]_(D!vars) PROVE DeliveryInv'
  OBVIOUS
<1>1. ASSUME NEW m \in Messages, D!ClientStep(m) PROVE DeliveryInv' BY <1>1, ClientStepInv
<1>2. CASE (\E r \in D!WorkRuns : D!RunEnds(r)) \/ UNCHANGED D!vars
  <2>1. pump' = pump /\ UNCHANGED <<outbox, made, client, got, handOff, deliveryStarts>>
        /\ running' \subseteq running /\ handed' = handed /\ phase' = phase
    BY <1>2 DEF D!RunEnds, D!vars, D!ledger, D!relay
  <2>2. QED BY <2>1, StartsInv DEF DeliveryInv, D!TypeOK
<1>3. CASE D!RelayStep BY <1>3, RelayStepInv
<1>4. QED BY <1>1, <1>2, <1>3 DEF D!Next

\* A behaviour of the composition is one of Delivery, whose part stutters while
\* another moves.
LEMMA DeliveryPart == ServicesSpec => D!Spec
<1>1. ServicesInit => D!Init BY DEF ServicesInit
<1>2. [ServicesNext]_<<part, vars, schedule, delivery, sources>> => [D!Next]_(D!vars)
  BY DEF ServicesNext, delivery, D!vars, D!ledger, D!relay
<1>3. QED BY <1>1, <1>2, PTL DEF ServicesSpec, D!Spec

\* Through overlapping wakes of the pump, a stop that drains, a crash, a hand-over and a
\* producer that connects again, Telegram is given a message at most once (the promise
\* of message.ts about retried sends), and a producer told that its message was
\* delivered, failed or refused was told what happened to it, whichever relay answered.
THEOREM MessagesAreSentAsTold == ServicesSpec => []SentAsTold
<1>1. D!Spec => []DeliveryInv BY InitInv, NextInv, PTL DEF D!Spec
<1>2. DeliveryInv => SentAsTold BY InvImpliesProperties DEF SentAsTold
<1>3. QED BY <1>1, <1>2, DeliveryPart, PTL

-------------------------------------------------------------------------------
\* A pump that is off has nothing in hand, what is being sent is in its hand, and a stop
\* that hands runs over has every queued message in the snapshot of its last pump.
PumpAtRest == ~pump.on => pump.at = None /\ pump.batch = {}
SendingIsHeld == \A m \in Messages : outbox[m] = "sending" => pump.at = m
LastPump ==
  phase = "draining" /\ handed # {} =>
    \A m \in Messages : client[m] # "submitted" /\ (outbox[m] = "queued" => m \in pump.batch)
Flushing == PumpAtRest /\ SendingIsHeld /\ LastPump

\* The steps of producers and runs: a pump that is woken finds nothing being sent.
LEMMA FlushingClients ==
  ASSUME D!TypeOK, Flushing, NEW m \in Messages, D!ClientStep(m)
  PROVE  Flushing'
<1> USE DEF Flushing, PumpAtRest, SendingIsHeld, LastPump
<1>1. CASE D!EnqueueOk(m)
  <2>1. /\ client[m] = "submitted" /\ ~(phase = "draining" /\ handed # {})
        /\ UNCHANGED <<phase, handed>>
    BY <1>1 DEF D!EnqueueOk, D!relay
  <2>2. \A n \in Messages : outbox'[n] = "sending" => outbox[n] = "sending"
    BY <1>1 DEF D!EnqueueOk, D!ledger, D!TypeOK
  <2>3. \/ pump' = pump
        \/ ~pump.on /\ pump'.on /\ pump'.at = None
    BY <1>1 DEF D!EnqueueOk, D!Woken, D!Pumping, D!IdlePump
  <2>4. QED BY <2>1, <2>2, <2>3, DeliveryAssumption
<1>2. CASE ~D!EnqueueOk(m)
  <2>1. /\ UNCHANGED <<outbox, pump, phase, handed>>
        /\ \A n \in Messages : client'[n] = "submitted" =>
             client[n] = "submitted" \/ D!Serving
    BY <1>2 DEF D!ClientStep, D!Connect, D!GiveUp, D!Submit, D!EnqueueRefused, D!Wait, D!WakeUp,
       D!Timeout, D!ClientTo, D!AnswerOf, D!ledger, D!relay, D!TypeOK
  <2>2. QED BY <2>1 DEF D!Serving
<1>3. QED BY <1>1, <1>2

\* The pump takes from its snapshot what it claims, and settles what it holds.
LEMMA FlushingPump ==
  ASSUME D!TypeOK, Flushing, D!Tick \/ D!Claim \/ D!Attempt \/ D!Settle \/ D!PumpEnd
  PROVE  Flushing'
<1> USE DEF Flushing, PumpAtRest, SendingIsHeld, LastPump
<1>1. CASE D!Tick
  BY <1>1, DeliveryAssumption DEF D!Tick, D!Woken, D!Pumping, D!IdlePump, D!ledger, D!relay
<1>2. CASE D!Claim
  <2>1. /\ pump.on /\ pump.at = None /\ UNCHANGED <<client, phase, handed>>
        /\ \A n \in Messages : outbox[n] # "sending"
    BY <1>2, DeliveryAssumption DEF D!Claim, D!relay
  <2>2. PICK n \in pump.batch :
          IF outbox[n] = "queued"
            THEN /\ outbox' = [outbox EXCEPT ![n] = "sending"]
                 /\ pump' = [pump EXCEPT !.batch = @ \ {n}, !.at = n, !.step = "claimed"]
            ELSE pump' = [pump EXCEPT !.batch = @ \ {n}] /\ UNCHANGED outbox
    BY <1>2 DEF D!Claim, D!Queued
  <2>3. pump'.on /\ pump'.batch = pump.batch \ {n} BY <2>1, <2>2 DEF D!TypeOK
  <2>4. CASE outbox[n] = "queued"
    <3>1. pump'.at = n BY <2>2, <2>4 DEF D!TypeOK
    <3>2. \A k \in Messages : outbox'[k] = IF k = n THEN "sending" ELSE outbox[k]
      BY <2>2, <2>4 DEF D!TypeOK
    <3>3. QED BY <2>1, <2>3, <3>1, <3>2
  <2>5. CASE outbox[n] # "queued"
    BY <2>1, <2>2, <2>3, <2>5 DEF D!TypeOK
  <2>6. QED BY <2>4, <2>5
<1>3. CASE D!Attempt
  <2>1. /\ pump'.on = pump.on /\ pump'.at = pump.at /\ pump'.batch = pump.batch
        /\ UNCHANGED <<outbox, client, phase, handed>>
    BY <1>3 DEF D!Attempt, D!ledger, D!relay, D!TypeOK
  <2>2. QED BY <2>1
<1>4. CASE D!Settle
  <2>1. /\ pump.at # None /\ pump'.on = pump.on /\ pump'.at = None /\ pump'.batch = pump.batch
        /\ UNCHANGED <<phase, handed>>
    BY <1>4 DEF D!Settle, D!relay, D!TypeOK
  <2>2. PICK s \in D!Settled : outbox' = D!Pruned([outbox EXCEPT ![pump.at] = s])
    BY <1>4 DEF D!Settle, D!Outcomes
  <2>3. \A n \in Messages : /\ outbox'[n] \notin D!Settled \cup {"absent"} => n # pump.at
                            /\ outbox'[n] \in {"queued", "sending"} => outbox'[n] = outbox[n]
    BY <2>2 DEF D!Pruned, D!TypeOK
  <2>4. \A n \in Messages : client'[n] = "submitted" => client[n] = "submitted"
    BY <1>4 DEF D!Settle, D!Notified, D!TypeOK
  <2>5. QED BY <2>1, <2>3, <2>4
<1>5. CASE D!PumpEnd
  BY <1>5 DEF D!PumpEnd, D!IdlePump, D!ledger, D!relay
<1>6. QED BY <1>1, <1>2, <1>3, <1>4, <1>5

\* The relay's life: the last pump starts with every queued message, when nothing is
\* admitted any more.
LEMMA FlushingLife ==
  ASSUME DeliveryInv, Flushing,
         D!HandOver \/ D!CloseServer \/ D!Drain \/ D!Down \/ D!Crash \/ D!Boot \/ D!Adopt
  PROVE  Flushing'
<1> USE DEF Flushing, PumpAtRest, SendingIsHeld, LastPump
<1>1. CASE D!HandOver \/ D!CloseServer \/ D!Boot
  BY <1>1 DEF D!HandOver, D!CloseServer, D!Boot, D!ledger
<1>2. CASE D!Drain
  BY <1>2, DeliveryAssumption DEF D!Drain, D!Admissions, D!Pumping, D!IdlePump, D!ledger
<1>3. CASE D!Down \/ D!Crash
  BY <1>3 DEF D!Down, D!Crash, D!Forget, D!IdlePump
<1>4. CASE D!Adopt
  <2>1. \A m \in Messages : outbox'[m] = "sending" => outbox[m] = "sending"
    BY <1>4 DEF D!Adopt, DeliveryInv, D!TypeOK
  <2>2. QED BY <1>4, <2>1 DEF D!Adopt
<1>5. QED BY <1>1, <1>2, <1>3, <1>4

\* Every step of the specification keeps it.
LEMMA FlushingNext == DeliveryInv /\ Flushing /\ [D!Next]_(D!vars) => Flushing'
<1> SUFFICES ASSUME DeliveryInv, Flushing, [D!Next]_(D!vars) PROVE Flushing'
  OBVIOUS
<1>1. D!TypeOK BY DEF DeliveryInv
<1>2. ASSUME NEW m \in Messages, D!ClientStep(m) PROVE Flushing'
  BY <1>1, <1>2, FlushingClients
<1>3. CASE (\E r \in D!WorkRuns : D!RunEnds(r)) \/ UNCHANGED D!vars
  BY <1>3 DEF D!RunEnds, D!vars, D!ledger, D!relay, Flushing, PumpAtRest, SendingIsHeld, LastPump
<1>4. CASE D!RelayStep BY <1>1, <1>4, FlushingPump, FlushingLife DEF D!RelayStep
<1>5. QED BY <1>2, <1>3, <1>4 DEF D!Next

\* When a relay that hands runs over ends, everything it had accepted from them is settled,
\* and in the record it leaves to the next (docs/docker-runtime.md).
THEOREM HandOversAreComplete == ServicesSpec => HandOverIsComplete
<1>1. D!Init => Flushing
  BY DEF D!Init, D!IdlePump, Flushing, PumpAtRest, SendingIsHeld, LastPump
<1>2. D!Spec => [](DeliveryInv /\ Flushing)
  BY <1>1, InitInv, NextInv, FlushingNext, PTL DEF D!Spec
<1>3. ASSUME DeliveryInv, Flushing, D!Down, NEW m \in Messages, Run[m] \in handed,
             outbox[m] # "absent"
      PROVE  outbox[m] \in D!Settled /\ handOff'.state[m] = outbox[m]
  <2>1. pump.batch = {} /\ pump.at = None /\ phase = "draining"
    BY <1>3 DEF D!Down, Flushing, PumpAtRest
  <2>2. outbox[m] \notin {"queued", "sending"}
    BY <1>3, <2>1, DeliveryAssumption DEF Flushing, SendingIsHeld, LastPump
  <2>3. outbox[m] \in D!Settled BY <1>3, <2>2 DEF DeliveryInv, D!TypeOK
  <2>4. handOff' = D!Record(handed) BY <1>3 DEF D!Down
  <2>5. QED BY <1>3, <2>3, <2>4 DEF D!Record
<1>4. DeliveryInv /\ Flushing =>
       [D!Down => \A m \in Messages :
          Run[m] \in handed /\ outbox[m] # "absent" =>
            outbox[m] \in D!Settled /\ handOff'.state[m] = outbox[m]]_(D!vars)
  BY <1>3
<1>5. QED BY <1>2, <1>4, DeliveryPart, PTL DEF HandOverIsComplete, D!HandOverIsComplete

(***************************************************************************)
(* Event sources: the invariant                                            *)
(***************************************************************************)
RunRecords == [group : SUBSET E!Events, st : {"queued", "running", "ended"}, rel : BOOLEAN,
               no : Nat]
\* A run is of some events of one source.
EventRuns ==
  {r \in RunRecords : /\ r.group # {} /\ (\A e, f \in r.group : e[1] = f[1])
                      /\ r.rel => r.st = "ended"}
Drains == [at : {"create", "advance", "forget"}, feed : Feeds, upto : Nat, all : BOOLEAN]
SourceTypes ==
  /\ captured \in [Feeds -> Nat] /\ (\A s \in Feeds : captured[s] <= MaxCaptures[s])
  /\ acked \in [Feeds -> Nat] /\ pending \in [Feeds -> Nat \cup {None}]
  /\ drain \in {E!Idle} \cup Drains
  /\ eventRuns \subseteq EventRuns
  /\ created \in Nat /\ (\A r \in eventRuns : r.no <= created)
  /\ begun \in [E!Events -> Nat]

\* A batch is of captured events that are not acknowledged.
InReach(s, upto) ==
  /\ upto \in Nat /\ acked[s] <= upto /\ upto <= captured[s] /\ upto <= acked[s] + Batch
Batches == \A s \in Feeds : pending[s] # None => InReach(s, pending[s])
\* The groups of the remembered batch of a source.
Batched(s) == E!Groups(s, acked[s], pending[s])
\* How far the source being drained is with its batch.
Drained ==
  drain # E!Idle =>
    LET s == drain.feed IN
    /\ InReach(s, drain.upto)
    /\ drain.at = "create" => IF pending[s] = None THEN acked[s] < drain.upto
                                                  ELSE pending[s] = drain.upto
    /\ drain.at # "create" => pending[s] = drain.upto
    /\ drain.at = "advance" /\ drain.all => \A g \in Batched(s) : g \subseteq had
    /\ drain.at = "forget" => acked[s] = drain.upto

\* A run's events are acknowledged, or the run is of a group of a remembered batch.
Past(r) == \A e \in r.group : e[2] <= acked[e[1]]
Current(r) == \E s \in Feeds : pending[s] # None /\ r.group \in Batched(s)
RunsPlaced == \A r \in eventRuns : Past(r) \/ Current(r)
RunsApart == \A r, q \in eventRuns : r = q \/ r.group \cap q.group = {}
\* The runs of the remembered batch are the latest of their source.
Aged == \A r, q \in eventRuns : E!Feed(r) = E!Feed(q) /\ Past(q) /\ ~Past(r) => q.no < r.no

\* The groups of a batch all have runs only while it is being acknowledged; until
\* then one has none.
Waiting(s, g) ==
  \A r \in eventRuns : r.group = g =>
    r.st = "queued" /\ drain.at = "advance" /\ drain.feed = s /\ drain.all
Unfinished ==
  \A s \in Feeds : pending[s] # None /\ acked[s] < pending[s] =>
    \E g \in Batched(s) : Waiting(s, g)

AckedHad ==
  /\ \A e \in E!Events : e[2] <= acked[e[1]] => e \in had
  /\ \A r \in eventRuns : r.group \subseteq had
BegunOnce ==
  /\ \A e \in E!Events : begun[e] <= 1
  /\ \A r \in eventRuns : r.st = "queued" => \A e \in r.group : begun[e] = 0
  /\ \A e \in E!Events : begun[e] > 0 /\ e[2] > acked[e[1]] =>
       \E r \in eventRuns : e \in r.group

SourceInv ==
  /\ SourceTypes /\ Batches /\ Drained
  /\ RunsPlaced /\ RunsApart /\ Aged /\ Unfinished /\ AckedHad /\ BegunOnce

\* The groups of a batch are disjoint and hold every event of it.
LEMMA GroupsOf ==
  ASSUME NEW s \in Feeds, NEW lo \in Nat, NEW hi \in Nat, hi <= MaxCaptures[s]
  PROVE  /\ \A g \in E!Groups(s, lo, hi) :
              g # {} /\ g \subseteq E!Events /\ \A e \in g : e[1] = s /\ lo < e[2] /\ e[2] <= hi
         /\ \A g, h \in E!Groups(s, lo, hi) : g = h \/ g \cap h = {}
         /\ \A e \in E!Events : e[1] = s /\ lo < e[2] /\ e[2] <= hi =>
              \E g \in E!Groups(s, lo, hi) : e \in g
         /\ lo < hi => E!Groups(s, lo, hi) # {}
<1> DEFINE GG == E!Groups(s, lo, hi)
           Of(c) == {e \in {s} \X (lo + 1..hi) : Talks[e[2]] = c}
<1>1. /\ MaxCaptures \in [Feeds -> Nat] /\ MaxCaptures[s] \in Nat /\ Len(Talks) \in Nat
      /\ DOMAIN Talks = 1..Len(Talks) /\ MaxCaptures[s] <= Len(Talks)
  BY SourcesAssumption
<1>2. \A g : g \in GG <=> g # {} /\ \E c \in E!Range(Talks) : g = Of(c) BY DEF E!Groups
<1>3. \A e : e \in {s} \X (lo + 1..hi) <=> e \in E!Events /\ e[1] = s /\ lo < e[2] /\ e[2] <= hi
  <2> SUFFICES ASSUME NEW e
               PROVE  e \in {s} \X (lo + 1..hi) <=>
                        e \in E!Events /\ e[1] = s /\ lo < e[2] /\ e[2] <= hi
    OBVIOUS
  <2>1. ASSUME e \in {s} \X (lo + 1..hi) PROVE e \in E!Events /\ e[1] = s /\ lo < e[2] /\ e[2] <= hi
    BY <2>1, <1>1 DEF E!Events
  <2>2. ASSUME e \in E!Events, e[1] = s, lo < e[2], e[2] <= hi PROVE e \in {s} \X (lo + 1..hi)
    BY <2>2, <1>1 DEF E!Events
  <2>3. QED BY <2>1, <2>2
<1>4. \A e \in {s} \X (lo + 1..hi) : Talks[e[2]] \in E!Range(Talks)
  BY <1>1 DEF E!Range
<1>5. ASSUME NEW g \in GG
      PROVE g # {} /\ g \subseteq E!Events /\ \A e \in g : e[1] = s /\ lo < e[2] /\ e[2] <= hi
  BY <1>2, <1>3, <1>5
<1>6. ASSUME NEW g \in GG, NEW h \in GG PROVE g = h \/ g \cap h = {}
  <2>1. PICK c \in E!Range(Talks) : g = Of(c) BY <1>2
  <2>2. PICK d \in E!Range(Talks) : h = Of(d) BY <1>2
  <2>3. QED BY <2>1, <2>2
<1>7. ASSUME NEW e \in E!Events, e[1] = s, lo < e[2], e[2] <= hi PROVE \E g \in GG : e \in g
  <2>1. e \in {s} \X (lo + 1..hi) BY <1>3, <1>7
  <2>2. e \in Of(Talks[e[2]]) BY <2>1
  <2>3. Of(Talks[e[2]]) \in GG BY <1>2, <1>4, <2>1, <2>2
  <2>4. QED BY <2>2, <2>3
<1>8. ASSUME lo < hi PROVE GG # {}
  <2>1. <<s, hi>> \in E!Events BY <1>1, <1>8 DEF E!Events
  <2>2. QED BY <2>1, <1>7, <1>8
<1>9. QED BY <1>5, <1>6, <1>7, <1>8

\* An instance counts as this module does.
LEMMA SameCount == \A X : E!Cardinality(X) = Cardinality(X)
BY DEF E!Cardinality, Cardinality

\* A batch has no more groups than events.
LEMMA GroupsCount ==
  ASSUME NEW s \in Feeds, NEW lo \in Nat, NEW hi \in Nat, lo <= hi, hi <= MaxCaptures[s]
  PROVE  IsFiniteSet(E!Groups(s, lo, hi)) /\ Cardinality(E!Groups(s, lo, hi)) <= hi - lo
<1> DEFINE GG == E!Groups(s, lo, hi)
           f == [g \in GG |-> (CHOOSE e \in g : TRUE)[2]]
<1>1. \A g \in GG : g # {} /\ \A e \in g : e \in {s} \X Nat /\ lo < e[2] /\ e[2] <= hi
  BY GroupsOf DEF E!Events
<1>2. \A g, h \in GG : g = h \/ g \cap h = {} BY GroupsOf
<1>3. \A g \in GG : (CHOOSE e \in g : TRUE) \in g BY <1>1
<1>4. f \in [GG -> lo + 1..hi] BY <1>1, <1>3
<1>5. ASSUME NEW g \in GG, NEW h \in GG, f[g] = f[h] PROVE g = h
  <2>1. (CHOOSE e \in g : TRUE) = (CHOOSE e \in h : TRUE) BY <1>1, <1>3, <1>5
  <2>2. QED BY <2>1, <1>2, <1>3
<1>6. IsInjective(f) BY <1>4, <1>5 DEF IsInjective
<1>7. f \in Injection(GG, lo + 1..hi) BY <1>4, <1>6 DEF Injection
<1>8. IsFiniteSet(lo + 1..hi) /\ Cardinality(lo + 1..hi) = hi - lo
  <2>1. lo + 1 \in Int /\ hi \in Int OBVIOUS
  <2>2. /\ IsFiniteSet(lo + 1..hi)
        /\ Cardinality(lo + 1..hi) = IF lo + 1 > hi THEN 0 ELSE hi - (lo + 1) + 1
    BY <2>1, FS_Interval
  <2>3. QED BY <2>2
<1>9. QED BY <1>7, <1>8, FS_Injection

\* A run's events are of one source.
LEMMA FeedOf ==
  ASSUME NEW r \in EventRuns
  PROVE  E!Feed(r) \in Feeds /\ \A e \in r.group : e[1] = E!Feed(r)
<1>1. r.group # {} /\ (CHOOSE e \in r.group : TRUE) \in r.group /\ r.group \subseteq E!Events
  BY DEF EventRuns, RunRecords
<1>2. QED BY <1>1 DEF EventRuns, E!Feed, E!Events

\* The groups of a remembered batch.
LEMMA BatchOf ==
  ASSUME SourceInv, NEW s \in Feeds, pending[s] # None
  PROVE  /\ acked[s] \in Nat /\ pending[s] \in Nat /\ acked[s] <= pending[s]
         /\ \A g \in Batched(s) :
              /\ g # {} /\ g \subseteq E!Events
              /\ \A e \in g : e[1] = s /\ acked[s] < e[2] /\ e[2] <= pending[s]
         /\ \A g, h \in Batched(s) : g = h \/ g \cap h = {}
         /\ \A e \in E!Events : e[1] = s /\ acked[s] < e[2] /\ e[2] <= pending[s] =>
              \E g \in Batched(s) : e \in g
         /\ acked[s] < pending[s] => Batched(s) # {}
         /\ IsFiniteSet(Batched(s)) /\ Cardinality(Batched(s)) <= Batch
<1>1. /\ acked[s] \in Nat /\ pending[s] \in Nat /\ acked[s] <= pending[s]
      /\ pending[s] <= MaxCaptures[s] /\ pending[s] - acked[s] <= Batch
  BY SourcesAssumption DEF SourceInv, SourceTypes, Batches, InReach
<1>2. /\ IsFiniteSet(Batched(s)) /\ Cardinality(Batched(s)) <= pending[s] - acked[s]
  BY <1>1, GroupsCount DEF Batched
<1>3. Cardinality(Batched(s)) <= Batch
  BY <1>1, <1>2, FS_CardinalityType, SourcesAssumption
<1>4. QED BY <1>1, <1>2, <1>3, GroupsOf DEF Batched

\* Where a run's events are.
LEMMA RunStands ==
  ASSUME SourceInv, NEW r \in eventRuns
  PROVE  /\ r \in EventRuns
         /\ ~Past(r) => /\ pending[E!Feed(r)] # None /\ acked[E!Feed(r)] < pending[E!Feed(r)]
                        /\ r.group \in Batched(E!Feed(r))
<1>1. r \in EventRuns /\ r.group # {} BY DEF SourceInv, SourceTypes, EventRuns
<1>2. ASSUME ~Past(r)
      PROVE  /\ pending[E!Feed(r)] # None /\ acked[E!Feed(r)] < pending[E!Feed(r)]
             /\ r.group \in Batched(E!Feed(r))
  <2>1. PICK s \in Feeds : pending[s] # None /\ r.group \in Batched(s)
    BY <1>2 DEF SourceInv, RunsPlaced, Current
  <2>2. PICK e \in r.group : e[1] = s /\ acked[s] < e[2] /\ e[2] <= pending[s] /\ e \in E!Events
    BY <1>1, <2>1, BatchOf
  <2>3. E!Feed(r) = s BY <1>1, <2>2, FeedOf
  <2>4. acked[s] < pending[s]
    BY <2>1, <2>2, BatchOf, SourcesAssumption DEF E!Events
  <2>5. QED BY <2>1, <2>3, <2>4
<1>3. QED BY <1>1, <1>2

\* A run of a remembered batch is of no acknowledged event.
LEMMA BatchedIsNotPast ==
  ASSUME SourceInv, NEW s \in Feeds, pending[s] # None, NEW r \in EventRuns, r.group \in Batched(s)
  PROVE  ~Past(r) /\ E!Feed(r) = s
<1>1. PICK e \in r.group : e[1] = s /\ acked[s] < e[2] /\ e \in E!Events
  BY BatchOf DEF EventRuns
<1>2. e[2] \in Nat /\ acked[s] \in Nat BY <1>1, BatchOf DEF E!Events
<1>3. QED BY <1>1, <1>2, FeedOf DEF Past

\* A first start of the relay finds no runs and no batch.
LEMMA SourceInit == E!Init => SourceInv
<1> SUFFICES ASSUME E!Init PROVE SourceInv OBVIOUS
<1>1. SourceTypes BY SourcesAssumption DEF E!Init, SourceTypes, EventRuns
<1>2. QED
  BY <1>1, SourcesAssumption
  DEF E!Init, SourceInv, Batches, Drained, RunsPlaced, RunsApart, Aged, Unfinished, AckedHad,
       BegunOnce,
      E!Events

\* A step that changes nothing of batches and runs.
LEMMA SourcesStand ==
  ASSUME SourceInv, UNCHANGED <<acked, pending, drain, eventRuns, created, begun, had>>,
         captured' \in [Feeds -> Nat],
         \A s \in Feeds : captured[s] <= captured'[s] /\ captured'[s] <= MaxCaptures[s]
  PROVE  SourceInv'
<1>1. SourceTypes' BY DEF SourceInv, SourceTypes, EventRuns
<1>2. \A s \in Feeds : \A upto : InReach(s, upto) => InReach(s, upto)'
  BY SourcesAssumption DEF SourceInv, SourceTypes, InReach
<1>3. Batches' BY <1>2 DEF SourceInv, Batches
<1>4. Drained' BY <1>2 DEF SourceInv, SourceTypes, Drained, Drains, Batched, InReach
<1>5. QED
  BY <1>1, <1>3, <1>4
  DEF SourceInv, RunsPlaced, RunsApart, Aged, Unfinished, AckedHad, BegunOnce, Past, Current,
      Waiting, Batched

\* What became of one run: it is not queued any more, its source's history may be
\* pruned, and its executor may have been started for events it was not for before.
OneRunGoesOn(r, q) ==
  /\ q \in EventRuns /\ q.group = r.group /\ q.no = r.no /\ q.st # "queued"
  /\ eventRuns' \subseteq (eventRuns \ {r}) \cup {q}
  /\ \A x \in (eventRuns \ {r}) \cup {q} : Past(x) \/ x \in eventRuns'
  /\ r.st = "queued" => drain = E!Idle
  /\ \/ begun' = begun
     \/ /\ r.st = "queued"
        /\ begun' \in [E!Events -> Nat]
        /\ \A e \in E!Events : begun'[e] = begun[e] \/ (e \in r.group /\ begun'[e] = begun[e] + 1)
  /\ UNCHANGED <<captured, acked, pending, drain, created, had>>

\* A step that takes one run further and may forget acknowledged ones.
LEMMA RunsGoOn ==
  ASSUME SourceInv, NEW r \in eventRuns, NEW q, OneRunGoesOn(r, q)
  PROVE  SourceInv'
<1> DEFINE X == (eventRuns \ {r}) \cup {q}
           Old(x) == IF x = q THEN r ELSE x
<1>1. /\ r \in EventRuns /\ q \in EventRuns /\ q.group = r.group /\ q.no = r.no /\ q.st # "queued"
      /\ eventRuns' \subseteq X /\ X \subseteq EventRuns
       /\ (\A x \in X : Past(x) \/ x \in eventRuns')
      /\ UNCHANGED <<captured, acked, pending, drain, created, had>>
      /\ \A x \in eventRuns : x \in EventRuns
  BY RunStands DEF OneRunGoesOn, SourceInv, SourceTypes
<1>2. \A x \in X : /\ Old(x) \in eventRuns /\ Old(x).group = x.group /\ Old(x).no = x.no
                   /\ x = q \/ (Old(x) = x /\ x # r)
  BY <1>1
<1>3. \A x \in X, y \in X : Old(x) = Old(y) => x = y BY <1>1, <1>2
<1>4. \A x \in X : /\ Past(x)' <=> Past(Old(x))
                   /\ Current(x)' <=> Current(Old(x))
                   /\ E!Feed(x) = E!Feed(Old(x))
  BY <1>1, <1>2 DEF Past, Current, Batched, E!Feed
<1>5. SourceTypes'
  <2>1. begun' \in [E!Events -> Nat] BY DEF OneRunGoesOn, SourceInv, SourceTypes
  <2>2. \A x \in eventRuns' : x.no <= created' BY <1>1, <1>2 DEF SourceInv, SourceTypes
  <2>3. QED BY <1>1, <2>1, <2>2 DEF SourceInv, SourceTypes
<1>6. Batches' /\ Drained'
  BY <1>1 DEF SourceInv, Batches, Drained, InReach, Batched
<1>7. RunsPlaced' BY <1>1, <1>2, <1>4 DEF SourceInv, RunsPlaced
<1>8. RunsApart' BY <1>1, <1>2, <1>3 DEF SourceInv, RunsApart
<1>9. Aged' BY <1>1, <1>2, <1>4 DEF SourceInv, Aged
<1>10. Unfinished'
  <2> SUFFICES ASSUME NEW s \in Feeds, pending[s] # None, acked[s] < pending[s]
               PROVE  \E g \in Batched(s) : Waiting(s, g)'
    BY <1>1 DEF Unfinished, Batched
  <2>1. PICK g \in Batched(s) : Waiting(s, g) BY DEF SourceInv, Unfinished
  <2>2. r.group # g
    BY <2>1 DEF OneRunGoesOn, Waiting, E!Idle
  <2>3. \A x \in eventRuns' : x.group = g => x \in eventRuns BY <1>1, <1>2, <2>2
  <2>4. Waiting(s, g)' BY <1>1, <2>1, <2>3 DEF Waiting
  <2>5. QED BY <2>1, <2>4
<1>11. AckedHad' BY <1>1, <1>2 DEF SourceInv, AckedHad
<1>12. BegunOnce'
  <2>1. \A x \in eventRuns' :
          x.st = "queued" => x \in eventRuns /\ x # r /\ x.group \cap r.group = {}
    BY <1>1, <1>2 DEF SourceInv, RunsApart
  <2>2. \A e \in E!Events : e \in r.group /\ r.st = "queued" => begun[e] = 0
    BY DEF SourceInv, BegunOnce
  <2>3. \A e \in E!Events : begun'[e] # begun[e] =>
          e \in r.group /\ r.st = "queued" /\ begun'[e] = begun[e] + 1
    BY DEF OneRunGoesOn
  <2>4. \A e \in E!Events : begun'[e] <= 1
    BY <2>2, <2>3 DEF SourceInv, BegunOnce
  <2>5. \A x \in eventRuns' : x.st = "queued" => \A e \in x.group : begun'[e] = 0
    <3> SUFFICES ASSUME NEW x \in eventRuns', x.st = "queued", NEW e \in x.group PROVE begun'[e] = 0
      OBVIOUS
    <3>1. e \in E!Events /\ begun[e] = 0 /\ e \notin r.group
      BY <1>1, <2>1 DEF SourceInv, BegunOnce, EventRuns, RunRecords
    <3>2. QED BY <3>1, <2>3
  <2>6. ASSUME NEW e \in E!Events, begun'[e] > 0, e[2] > acked'[e[1]]
        PROVE  \E x \in eventRuns' : e \in x.group
    <3>1. PICK y \in eventRuns : e \in y.group
      <4>1. CASE begun'[e] = begun[e] BY <1>1, <2>6, <4>1 DEF SourceInv, BegunOnce
      <4>2. CASE begun'[e] # begun[e] BY <2>3, <4>2
      <4>3. QED BY <4>1, <4>2
    <3>2. PICK x \in X : e \in x.group BY <1>1, <3>1
    <3>3. ~Past(x)
      <4>1. e[2] \in Nat /\ acked[e[1]] \in Nat BY <1>1 DEF E!Events, SourceInv, SourceTypes
      <4>2. QED BY <1>1, <2>6, <3>2, <4>1 DEF Past
    <3>4. QED BY <1>1, <3>2, <3>3
  <2>7. QED BY <2>4, <2>5, <2>6 DEF BegunOnce
<1>13. QED
  BY <1>5, <1>6, <1>7, <1>8, <1>9, <1>10, <1>11, <1>12 DEF SourceInv

\* A run that starts was queued: none of its events was begun before.
LEMMA Starts == ASSUME SourceInv, NEW r \in eventRuns, E!Start(r) PROVE SourceInv'
<1> DEFINE q == [r EXCEPT !.st = "running"]
<1>1. r \in EventRuns BY RunStands
<1>2. r.st = "queued" /\ r.rel = FALSE BY <1>1 DEF E!Start, E!Startable, EventRuns, RunRecords
<1>3. q \in EventRuns /\ q.group = r.group /\ q.no = r.no /\ q.st = "running"
  BY <1>1, <1>2 DEF EventRuns, RunRecords
<1>4. /\ begun' \in [E!Events -> Nat]
      /\ \A e \in E!Events : begun'[e] = begun[e] \/ (e \in r.group /\ begun'[e] = begun[e] + 1)
  BY DEF E!Start, E!Eligible, SourceInv, SourceTypes
<1>5. OneRunGoesOn(r, q)
  BY <1>2, <1>3, <1>4 DEF OneRunGoesOn, E!Start, E!Startable, E!Becomes, E!files, E!outside
<1>6. QED BY <1>5, RunsGoOn

\* What is pruned when a run is released is acknowledged: a batch that waits has
\* fewer released runs than are kept.
LEMMA PrunedIsPast ==
  ASSUME SourceInv, NEW r \in eventRuns, NEW q \in EventRuns, q.group = r.group, q.no = r.no,
         r.st = "queued" => drain = E!Idle,
         NEW p \in (eventRuns \ {r}) \cup {q}, p.rel,
         ~(Cardinality(E!Younger(p, E!Closed((eventRuns \ {r}) \cup {q}, E!Feed(p)))) < Keep)
  PROVE  Past(p)
<1> DEFINE X == (eventRuns \ {r}) \cup {q}
           s == E!Feed(p)
           Younger == E!Younger(p, E!Closed(X, s))
<1> SUFFICES ASSUME ~Past(p) PROVE FALSE OBVIOUS
<1> DEFINE Old(x) == IF x = q THEN r ELSE x
<1>1. \A x \in X : /\ Old(x) \in eventRuns /\ Old(x).group = x.group /\ Old(x).no = x.no
                   /\ E!Feed(Old(x)) = E!Feed(x) /\ (Past(Old(x)) <=> Past(x)) /\ x \in EventRuns
                   /\ x.no \in Nat
  BY RunStands DEF E!Feed, Past, EventRuns, RunRecords
<1>2. s \in Feeds /\ pending[s] # None /\ acked[s] < pending[s] /\ p.group \in Batched(s)
  BY <1>1, RunStands, FeedOf
<1>3. PICK g \in Batched(s) : Waiting(s, g) BY <1>2 DEF SourceInv, Unfinished
<1>4. \A x \in X : x.rel => x.group # g
  <2> SUFFICES ASSUME NEW x \in X, x.rel, x.group = g PROVE FALSE OBVIOUS
  <2>1. Old(x).st = "queued" /\ drain.at = "advance" BY <1>1, <1>3 DEF Waiting
  <2>2. x.st = "ended" BY <1>1 DEF EventRuns
  <2>3. x = q /\ r.st = "queued" BY <2>1, <2>2
  <2>4. QED BY <2>1, <2>3 DEF E!Idle
<1>0. \A x : x \in Younger <=> x \in X /\ x.rel /\ E!Feed(x) = s /\ x.no > p.no
  BY DEF E!Younger, E!Closed
<1> HIDE DEF Younger
<1>5. \A x \in Younger : x.group \in Batched(s) \ {g, p.group}
  <2> SUFFICES ASSUME NEW x \in Younger PROVE x.group \in Batched(s) \ {g, p.group} OBVIOUS
  <2>1. ~Past(x)
    <3>1. Old(p).no < Old(x).no /\ E!Feed(Old(p)) = E!Feed(Old(x)) BY <1>0, <1>1
    <3>2. QED BY <1>0, <1>1, <3>1 DEF SourceInv, Aged
  <2>2. x.group \in Batched(s) BY <1>0, <1>1, <2>1, RunStands
  <2>3. x.group # p.group
    <3>1. Old(x) # Old(p) BY <1>0, <1>1
    <3>2. x.group \cap p.group = {} BY <1>0, <1>1, <3>1 DEF SourceInv, RunsApart
    <3>3. QED BY <1>0, <1>1, <3>2 DEF EventRuns
  <2>4. QED BY <1>0, <1>4, <2>2, <2>3
<1>6. IsFiniteSet(Batched(s)) /\ Cardinality(Batched(s)) <= Batch BY <1>2, BatchOf
<1>7. /\ IsFiniteSet(Younger)
      /\ Cardinality(Younger) <= Cardinality(Batched(s) \ {g, p.group})
  <2> DEFINE f == [x \in Younger |-> x.group]
  <2>1. f \in [Younger -> Batched(s) \ {g, p.group}] BY <1>5
  <2>2. ASSUME NEW x \in Younger, NEW y \in Younger, f[x] = f[y] PROVE x = y
    <3>1. x.group = y.group /\ x.group # {} BY <1>0, <1>1, <2>2 DEF EventRuns
    <3>2. Old(x) = Old(y) BY <1>0, <1>1, <3>1 DEF SourceInv, RunsApart
    <3>3. QED BY <1>0, <1>1, <3>1, <3>2
  <2>3. f \in Injection(Younger, Batched(s) \ {g, p.group})
    BY <2>1, <2>2 DEF Injection, IsInjective
  <2>4. IsFiniteSet(Batched(s) \ {g, p.group}) BY <1>6, FS_Difference
  <2>5. QED BY <2>3, <2>4, FS_Injection
<1>8. g # p.group BY <1>4
<1>9. Cardinality(Batched(s) \ {g, p.group}) = Cardinality(Batched(s)) - 2
  <2>1. /\ IsFiniteSet(Batched(s) \ {g})
        /\ Cardinality(Batched(s) \ {g}) = Cardinality(Batched(s)) - 1
    BY <1>3, <1>6, FS_RemoveElement
  <2>2. (Batched(s) \ {g}) \ {p.group} = Batched(s) \ {g, p.group} OBVIOUS
  <2>3. p.group \in Batched(s) \ {g} BY <1>2, <1>8
  <2>4. Cardinality((Batched(s) \ {g}) \ {p.group}) = Cardinality(Batched(s) \ {g}) - 1
    BY <2>1, <2>3, FS_RemoveElement
  <2>5. Cardinality(Batched(s) \ {g, p.group}) = Cardinality(Batched(s) \ {g}) - 1
    BY <2>2, <2>4, Zenon
  <2>6. Cardinality(Batched(s)) \in Nat BY <1>6, FS_CardinalityType
  <2>7. QED BY <2>1, <2>5, <2>6
<1>10. ~(Cardinality(Younger) < Keep) BY DEF Younger
<1>11. QED
  <2>1. Cardinality(Batched(s)) \in Nat /\ Cardinality(Batched(s)) - 2 >= Cardinality(Younger)
    BY <1>6, <1>7, <1>9, FS_CardinalityType
  <2>2. Cardinality(Younger) \in Nat BY <1>7, FS_CardinalityType
  <2>3. QED BY <1>6, <1>10, <2>1, <2>2, SourcesAssumption

\* What pruning drops was released, and others as many as are kept were later.
LEMMA KeptRuns ==
  ASSUME NEW X, NEW f
  PROVE  /\ E!Kept(X, f) \subseteq X
         /\ \A p \in X : \/ p \in E!Kept(X, f)
                        \/ /\ p \in E!Closed(X, f)
                           /\ ~(Cardinality(E!Younger(p, E!Closed(X, f))) < Keep)
BY SameCount DEF E!Kept

\* A run that ends is released or kept; so is one there is nothing left of.
LEMMA Releases ==
  ASSUME SourceInv, NEW r \in eventRuns, E!Release(r), r.st = "queued" => drain = E!Idle
  PROVE  SourceInv'
<1>1. r \in EventRuns BY RunStands
<1>2. CASE answers[E!Feed(r)]
  <2> DEFINE q == [r EXCEPT !.st = "ended", !.rel = TRUE]
             X == (eventRuns \ {r}) \cup {q}
             Old == E!Closed(X, E!Feed(r))
  <2>1. q \in EventRuns /\ q.group = r.group /\ q.no = r.no /\ q.st = "ended"
    BY <1>1 DEF EventRuns, RunRecords
  <2>2. /\ eventRuns' \subseteq X
        /\ \A p \in X : p \in eventRuns' \/ (p \in Old /\ ~(Cardinality(E!Younger(p, Old)) < Keep))
    <3>1. eventRuns' = E!Kept(X, E!Feed(r)) BY <1>2 DEF E!Release, E!Becomes
    <3>2. QED BY <3>1, KeptRuns
  <2>3. ASSUME NEW p \in Old, ~(Cardinality(E!Younger(p, Old)) < Keep) PROVE Past(p)
    <3>1. p \in X /\ p.rel /\ E!Feed(p) = E!Feed(r) BY DEF E!Closed
    <3>2. QED BY <2>1, <2>3, <3>1, PrunedIsPast
  <2>4. /\ UNCHANGED <<captured, acked, pending, drain, created, had>> /\ begun' = begun
    BY DEF E!Release, E!files
  <2>5. OneRunGoesOn(r, q) BY <2>1, <2>2, <2>3, <2>4 DEF OneRunGoesOn
  <2>6. QED BY <2>5, RunsGoOn
<1>3. CASE ~answers[E!Feed(r)]
  <2> DEFINE q == [r EXCEPT !.st = "ended"]
  <2>1. q \in EventRuns /\ q.group = r.group /\ q.no = r.no /\ q.st = "ended"
    BY <1>1 DEF EventRuns, RunRecords
  <2>2. OneRunGoesOn(r, q)
    BY <1>3, <2>1 DEF OneRunGoesOn, E!Release, E!Becomes, E!files
  <2>3. QED BY <2>2, RunsGoOn
<1>4. QED BY <1>2, <1>3

\* A batch is one that was remembered, or the next events of the source.
LEMMA Fetches == ASSUME SourceInv, NEW s \in Feeds, E!Fetch(s) PROVE SourceInv'
<1>1. /\ drain = E!Idle /\ UNCHANGED <<acked, pending, eventRuns, created, begun, had, captured>>
  BY DEF E!Fetch, E!files, E!outside, E!ledger, E!history
<1>2. PICK u : /\ u = IF pending[s] # None THEN pending[s]
                      ELSE IF captured[s] - acked[s] > Batch THEN acked[s] + Batch ELSE captured[s]
               /\ u > acked[s] \/ pending[s] # None
               /\ drain' = [at |-> "create", feed |-> s, upto |-> u, all |-> TRUE]
  BY DEF E!Fetch
<1>3. /\ InReach(s, u)
      /\ IF pending[s] = None THEN acked[s] < u ELSE pending[s] = u
  BY <1>2, SourcesAssumption DEF SourceInv, SourceTypes, Batches, InReach
<1>4. SourceTypes' BY <1>1, <1>2, <1>3 DEF SourceInv, SourceTypes, Drains, EventRuns, InReach
<1>5. Drained' BY <1>1, <1>2, <1>3 DEF Drained, InReach
<1>6. Unfinished'
  BY <1>1 DEF SourceInv, Unfinished, Waiting, Batched, E!Idle
<1>7. QED
  BY <1>1, <1>4, <1>5, <1>6
  DEF SourceInv, Batches, InReach, RunsPlaced, RunsApart, Aged, AckedHad, BegunOnce, Past, Current,
      Batched

\* A restart loses the runs and what they began, not the batch.
LEMMA Restarts == ASSUME SourceInv, E!Restart PROVE SourceInv'
<1>1. /\ eventRuns' = {} /\ created' = 0 /\ drain' = E!Idle /\ begun' = [e \in E!Events |-> 0]
      /\ UNCHANGED <<acked, pending, captured, had>>
  BY DEF E!Restart, E!files, E!outside
<1>2. SourceTypes' BY <1>1 DEF SourceInv, SourceTypes
<1>3. Unfinished'
  <2> SUFFICES ASSUME NEW s \in Feeds, pending[s] # None, acked[s] < pending[s]
               PROVE  \E g \in Batched(s) : Waiting(s, g)'
    BY <1>1 DEF Unfinished, Batched
  <2>1. PICK g \in Batched(s) : TRUE BY BatchOf
  <2>2. QED BY <1>1, <2>1 DEF Waiting
<1>4. QED
  BY <1>1, <1>2, <1>3
  DEF SourceInv, Batches, Drained, InReach, RunsPlaced, RunsApart, Aged, AckedHad, BegunOnce

\* A batch is acknowledged when all of its groups have runs, which are then past.
LEMMA Advances == ASSUME SourceInv, E!Advance PROVE SourceInv'
<1> DEFINE s == drain.feed
<1>1. /\ drain \in Drains /\ drain.at = "advance" /\ s \in Feeds
      /\ UNCHANGED <<pending, captured, eventRuns, created, begun, had>>
  BY DEF E!Advance, SourceInv, SourceTypes, Drains, E!Idle, E!outside, E!ledger, E!history
<1>2. /\ InReach(s, drain.upto) /\ pending[s] = drain.upto /\ pending[s] # None
      /\ drain.all => \A g \in Batched(s) : g \subseteq had
  BY <1>1, SourcesAssumption DEF SourceInv, Drained, E!Idle, InReach
<1>3. CASE ~drain.all
  <2>1. drain' = E!Idle /\ acked' = acked BY <1>3 DEF E!Advance, E!MayAdvance
  <2>2. Unfinished' BY <1>1, <1>3, <2>1 DEF SourceInv, Unfinished, Waiting, Batched
  <2>3. SourceTypes' BY <1>1, <2>1 DEF SourceInv, SourceTypes, EventRuns
  <2>4. QED
    BY <1>1, <2>1, <2>2, <2>3
    DEF SourceInv, Batches, Drained, InReach, RunsPlaced, RunsApart, Aged, AckedHad, BegunOnce,
        Past, Current, Batched
<1>4. CASE drain.all
  <2>1. /\ acked' = [acked EXCEPT ![s] = drain.upto] /\ drain' = [drain EXCEPT !.at = "forget"]
    BY <1>4 DEF E!Advance, E!MayAdvance
  <2>2. /\ acked \in [Feeds -> Nat] /\ acked' \in [Feeds -> Nat] /\ acked'[s] = drain.upto
        /\ drain.upto \in Nat /\ (\A z \in Feeds : acked[z] <= acked'[z])
        /\ \A z \in Feeds : z # s => acked'[z] = acked[z]
    BY <1>1, <1>2, <2>1 DEF SourceInv, SourceTypes, InReach
  <2>3. SourceTypes' BY <1>1, <2>1, <2>2 DEF SourceInv, SourceTypes, Drains, EventRuns
  <2>4. Batches'
    <3> SUFFICES ASSUME NEW z \in Feeds, pending[z] # None PROVE InReach(z, pending[z])'
      BY <1>1 DEF Batches
    <3>1. CASE z = s BY <1>1, <1>2, <2>2, <3>1, SourcesAssumption DEF InReach
    <3>2. CASE z # s BY <1>1, <2>2, <3>2 DEF SourceInv, Batches, InReach
    <3>3. QED BY <3>1, <3>2
  <2>5. Drained'
    BY <1>1, <1>2, <2>1, <2>2, SourcesAssumption
     DEF SourceInv, SourceTypes, Drained, Drains, InReach
  <2>6. \A r \in eventRuns : Past(r)' <=> Past(r) \/ E!Feed(r) = s
    <3> SUFFICES ASSUME NEW r \in eventRuns PROVE Past(r)' <=> Past(r) \/ E!Feed(r) = s
      OBVIOUS
    <3>1. /\ E!Feed(r) \in Feeds /\ (\A e \in r.group : e[1] = E!Feed(r) /\ e[2] \in Nat)
      BY RunStands, FeedOf DEF EventRuns, RunRecords, E!Events
    <3>2. CASE E!Feed(r) # s BY <2>2, <3>1, <3>2 DEF Past
    <3>3. CASE E!Feed(r) = s
      <4>1. CASE Past(r) BY <2>2, <3>1, <4>1 DEF Past
      <4>2. CASE ~Past(r)
        <5>1. r.group \in Batched(s) BY <3>3, <4>2, RunStands
        <5>2. \A e \in r.group : e[2] <= pending[s] BY <1>1, <1>2, <5>1, BatchOf
        <5>3. QED BY <1>2, <2>2, <3>1, <3>3, <5>2 DEF Past
      <4>3. QED BY <3>3, <4>1, <4>2
    <3>4. QED BY <3>2, <3>3
  <2>7. RunsPlaced'
    <3> SUFFICES ASSUME NEW r \in eventRuns, ~Past(r), E!Feed(r) # s PROVE Current(r)'
      BY <1>1, <2>6 DEF RunsPlaced
    <3>1. E!Feed(r) \in Feeds /\ pending[E!Feed(r)] # None /\ r.group \in Batched(E!Feed(r))
      BY RunStands, FeedOf
    <3>2. QED BY <1>1, <2>2, <3>1 DEF Current, Batched
  <2>8. Aged' BY <1>1, <2>6 DEF SourceInv, Aged
  <2>9. Unfinished'
    <3> SUFFICES ASSUME NEW z \in Feeds, pending[z] # None, acked'[z] < pending[z]
                 PROVE  \E g \in Batched(z)' : Waiting(z, g)'
      BY <1>1 DEF Unfinished
    <3>1. z # s BY <1>2, <2>2
    <3>2. PICK g \in Batched(z) : Waiting(z, g) BY <2>2, <3>1 DEF SourceInv, Unfinished
    <3>3. g \in Batched(z)' BY <1>1, <2>2, <3>1, <3>2 DEF Batched
    <3>4. Waiting(z, g)' BY <1>1, <3>1, <3>2 DEF Waiting
    <3>5. QED BY <3>3, <3>4
  <2>10. AckedHad'
    <3> SUFFICES ASSUME NEW e \in E!Events, e[2] <= acked'[e[1]] PROVE e \in had
      BY <1>1 DEF SourceInv, AckedHad
    <3>1. CASE e[2] <= acked[e[1]] BY <3>1 DEF SourceInv, AckedHad
    <3>2. CASE ~(e[2] <= acked[e[1]])
      <4>1. e[1] = s /\ acked[s] < e[2] /\ e[2] <= pending[s]
        BY <1>2, <2>2, <3>2 DEF E!Events
      <4>2. PICK g \in Batched(s) : e \in g BY <1>1, <1>2, <4>1, BatchOf
      <4>3. QED BY <1>2, <1>4, <4>2
    <3>3. QED BY <3>1, <3>2
  <2>11. BegunOnce'
    BY <1>1, <2>2 DEF SourceInv, BegunOnce, E!Events
  <2>12. QED
    BY <1>1, <2>3, <2>4, <2>5, <2>7, <2>8, <2>9, <2>10, <2>11 DEF SourceInv, RunsApart
<1>5. QED BY <1>3, <1>4

\* An acknowledged batch is forgotten.
LEMMA Forgets == ASSUME SourceInv, E!Forget PROVE SourceInv'
<1> DEFINE s == drain.feed
<1>1. /\ drain \in Drains /\ drain.at = "forget" /\ s \in Feeds
      /\ pending' = [pending EXCEPT ![s] = None] /\ drain' = E!Idle
      /\ UNCHANGED <<acked, captured, eventRuns, created, begun, had>>
  BY DEF E!Forget, SourceInv, SourceTypes, Drains, E!Idle, E!outside, E!ledger, E!history
<1>2. pending[s] = acked[s] /\ pending[s] # None /\ acked[s] \in Nat
  BY <1>1, SourcesAssumption DEF SourceInv, SourceTypes, Drained, E!Idle
<1>3. \A z \in Feeds : pending'[z] = IF z = s THEN None ELSE pending[z]
  BY <1>1 DEF SourceInv, SourceTypes
<1>4. SourceTypes' BY <1>1 DEF SourceInv, SourceTypes, EventRuns
<1>5. Batches' BY <1>1, <1>3 DEF SourceInv, Batches, InReach
<1>6. RunsPlaced'
  <2> SUFFICES ASSUME NEW r \in eventRuns, ~Past(r) PROVE Current(r)'
    BY <1>1 DEF RunsPlaced, Past
  <2>1. /\ E!Feed(r) \in Feeds /\ pending[E!Feed(r)] # None /\ r.group \in Batched(E!Feed(r))
        /\ acked[E!Feed(r)] < pending[E!Feed(r)]
    BY RunStands, FeedOf
  <2>2. E!Feed(r) # s BY <1>2, <2>1
  <2>3. QED BY <1>1, <1>3, <2>1, <2>2 DEF Current, Batched
<1>7. Unfinished'
  <2> SUFFICES ASSUME NEW z \in Feeds, pending'[z] # None, acked[z] < pending'[z]
               PROVE  \E g \in Batched(z)' : Waiting(z, g)'
    BY <1>1 DEF Unfinished
  <2>1. z # s /\ pending'[z] = pending[z] BY <1>3
  <2>2. PICK g \in Batched(z) : Waiting(z, g) BY <2>1 DEF SourceInv, Unfinished
  <2>3. g \in Batched(z)' BY <1>1, <2>1, <2>2 DEF Batched
  <2>4. Waiting(z, g)' BY <1>1, <2>1, <2>2 DEF Waiting
  <2>5. QED BY <2>3, <2>4
<1>8. QED
  BY <1>1, <1>4, <1>5, <1>6, <1>7
  DEF SourceInv, Drained, RunsApart, Aged, AckedHad, BegunOnce, Past

\* The runs made of some groups are numbered after those there are.
LEMMA Numbered ==
  ASSUME NEW gs, IsFiniteSet(gs), NEW g \in gs, \A h \in gs : \A e \in h : e[2] \in Nat
  PROVE  E!Place(g, gs) \in 1..Cardinality(gs)
<1> DEFINE Front == {h \in gs : \A f \in g : \E e \in h : e[2] <= f[2]}
<1>1. g \in Front OBVIOUS
<1>2. IsFiniteSet(Front) /\ Cardinality(Front) <= Cardinality(gs) BY FS_Subset
<1>3. Cardinality(Front) \in Nat /\ Cardinality(gs) \in Nat BY <1>2, FS_CardinalityType
<1>4. Cardinality(Front) # 0 BY <1>1, <1>2, FS_EmptySet
<1>5. E!Place(g, gs) = Cardinality(Front) BY SameCount DEF E!Place
<1>6. QED BY <1>2, <1>3, <1>4, <1>5

\* Runs are created for the groups of the batch that have none.
LEMMA Creates == ASSUME SourceInv, E!Create PROVE SourceInv'
<1>0. drain \in Drains /\ drain.at = "create" /\ drain # E!Idle
  BY DEF E!Create, SourceInv, SourceTypes, Drains, E!Idle
<1>1. PICK s \in Feeds, u \in Nat : s = drain.feed /\ u = drain.upto BY <1>0 DEF Drains
<1> DEFINE G == E!Groups(s, acked[s], u)
           new == {g \in G : \A r \in eventRuns : r.group # g}
<1>2. PICK gs \in SUBSET new :
        /\ eventRuns' = eventRuns \cup E!NewRuns(gs)
        /\ created' = created + E!Cardinality(gs) /\ had' = had \cup UNION gs
        /\ drain' = [drain EXCEPT !.at = "advance", !.all = gs = new]
        /\ pending' = [pending EXCEPT ![s] = u]
        /\ UNCHANGED <<acked, captured, begun>>
  BY <1>1 DEF E!Create, E!outside
<1>3. /\ InReach(s, u)
      /\ acked[s] \in Nat
      /\ acked[s] <= u /\ u <= MaxCaptures[s]
      /\ IF pending[s] = None THEN acked[s] < u ELSE pending[s] = u
  <2>1. /\ InReach(s, u)
        /\ IF pending[s] = None THEN acked[s] < u ELSE pending[s] = u
    BY <1>0, <1>1 DEF SourceInv, Drained
  <2>2. /\ acked[s] \in Nat /\ captured[s] \in Nat
        /\ captured[s] <= MaxCaptures[s] /\ MaxCaptures[s] \in Nat
    BY SourcesAssumption DEF SourceInv, SourceTypes
  <2>3. QED BY <2>1, <2>2 DEF InReach
<1>4. /\ \A z \in Feeds : pending'[z] = IF z = s THEN u ELSE pending[z]
      /\ u # None
      /\ Batched(s)' = G
      /\ \A z \in Feeds : z # s => Batched(z)' = Batched(z)
  <2>1. \A z \in Feeds : pending'[z] = IF z = s THEN u ELSE pending[z]
    BY <1>2 DEF SourceInv, SourceTypes
  <2>2. QED BY <1>2, <2>1, SourcesAssumption DEF Batched
<1>5. /\ \A g \in G : g # {} /\ g \subseteq E!Events
                      /\ \A e \in g : e[1] = s /\ acked[s] < e[2] /\ e[2] <= u
      /\ \A g, h \in G : g = h \/ g \cap h = {}
      /\ acked[s] < u => G # {}
  BY <1>3, GroupsOf
<1>6. IsFiniteSet(gs)
  <2>1. IsFiniteSet(G) BY <1>3, GroupsCount
  <2>2. QED BY <1>2, <2>1, FS_Subset
<1>7. \A r \in eventRuns : ~Past(r) /\ E!Feed(r) = s => pending[s] = u /\ r.group \in G
  BY <1>3, RunStands, SourcesAssumption DEF Batched
<1> DEFINE N == E!NewRuns(gs)
<1>8. Cardinality(gs) \in Nat /\ created' = created + Cardinality(gs) /\ created \in Nat
  BY <1>2, <1>6, FS_CardinalityType, SameCount DEF SourceInv, SourceTypes
<1>9. \A x \in N : /\ x.group \in gs /\ x.st = "queued" /\ x.rel = FALSE /\ x \in EventRuns
                   /\ x.no \in Nat /\ x.no > created /\ x.no <= created'
  <2> SUFFICES ASSUME NEW g \in gs, NEW x,
                      x = [group |-> g, st |-> "queued", rel |-> FALSE,
                            no |-> created + E!Place(g, gs)]
               PROVE  /\ x.group \in gs /\ x.st = "queued" /\ x.rel = FALSE /\ x \in EventRuns
                      /\ x.no \in Nat /\ x.no > created /\ x.no <= created'
    BY DEF E!NewRuns
  <2>1. \A h \in gs : \A e \in h : e[2] \in Nat BY <1>2, <1>5 DEF E!Events
  <2>2. E!Place(g, gs) \in 1..Cardinality(gs) BY <1>6, <2>1, Numbered
  <2>3. x.no \in Nat /\ x.no > created /\ x.no <= created' BY <1>8, <2>2
  <2>4. g # {} /\ g \subseteq E!Events /\ (\A e, f \in g : e[1] = f[1]) BY <1>2, <1>5
  <2>5. QED BY <2>3, <2>4 DEF EventRuns, RunRecords
<1>10. ASSUME NEW x \in N, NEW y \in N, x.group = y.group PROVE x = y
  <2>1. PICK g \in gs : x = [group |-> g, st |-> "queued", rel |-> FALSE,
                             no |-> created + E!Place(g, gs)]
    BY DEF E!NewRuns
  <2>2. PICK h \in gs : y = [group |-> h, st |-> "queued", rel |-> FALSE,
                             no |-> created + E!Place(h, gs)]
    BY DEF E!NewRuns
  <2>3. g = h BY <1>10, <2>1, <2>2
  <2>4. QED BY <2>1, <2>2, <2>3
<1>11. ASSUME NEW g \in gs PROVE \E x \in N : x.group = g
  <2> DEFINE x == [group |-> g, st |-> "queued", rel |-> FALSE, no |-> created + E!Place(g, gs)]
  <2>1. x \in N BY DEF E!NewRuns
  <2>2. QED BY <2>1
<1> HIDE DEF N
<1>12. eventRuns' = eventRuns \cup N BY <1>2 DEF N
<1>13. \A x \in N : ~Past(x) /\ E!Feed(x) = s /\ x.group \in G
  <2> SUFFICES ASSUME NEW x \in N PROVE ~Past(x) /\ E!Feed(x) = s /\ x.group \in G OBVIOUS
  <2>1. x.group \in G /\ x \in EventRuns BY <1>2, <1>9
  <2>2. PICK e \in x.group : e[1] = s /\ acked[s] < e[2] /\ e \in E!Events BY <1>5, <2>1
  <2>3. e[2] \in Nat BY <2>2 DEF E!Events
  <2>4. QED BY <1>3, <2>1, <2>2, <2>3, FeedOf DEF Past
<1>14. \A x \in N, r \in eventRuns : x.group \cap r.group = {}
  <2> SUFFICES ASSUME NEW x \in N, NEW r \in eventRuns, NEW e \in x.group, e \in r.group PROVE FALSE
    OBVIOUS
  <2>1. e[1] = s /\ acked[s] < e[2] /\ e \in E!Events /\ x.group \in G BY <1>5, <1>13
  <2>2. r \in EventRuns /\ E!Feed(r) = s BY <2>1, RunStands, FeedOf
  <2>3. e[2] \in Nat BY <2>1 DEF E!Events
  <2>4. ~Past(r) BY <1>3, <2>1, <2>3 DEF Past
  <2>5. r.group = x.group BY <1>5, <1>7, <2>1, <2>2, <2>4
  <2>6. QED BY <1>2, <1>9, <2>5
<1>15. \A r : Past(r)' <=> Past(r) BY <1>2 DEF Past
<1>16. SourceTypes'
  <2>1. drain' \in Drains BY <1>0, <1>1, <1>2 DEF Drains
  <2>2. \A r \in eventRuns' : r.no <= created' /\ r \in EventRuns
    BY <1>8, <1>9, <1>12, RunStands DEF SourceInv, SourceTypes, EventRuns, RunRecords
  <2>3. QED BY <1>0, <1>1, <1>2, <1>3, <1>8, <2>1, <2>2 DEF SourceInv, SourceTypes
<1>17. Batches' BY <1>0, <1>1, <1>2, <1>3, <1>4 DEF SourceInv, Batches, InReach
<1>18. Drained'
  <2>1. /\ drain'.feed = s /\ drain'.upto = u /\ drain'.at = "advance" /\ drain'.all = (gs = new)
    BY <1>0, <1>1, <1>2 DEF Drains
  <2>2. ASSUME gs = new, NEW g \in G PROVE g \subseteq had'
    <3>1. CASE g \in gs BY <1>2, <3>1
    <3>2. CASE g \notin gs
      <4>1. PICK r \in eventRuns : r.group = g BY <2>2, <3>2
      <4>2. QED BY <1>2, <4>1 DEF SourceInv, AckedHad
    <3>3. QED BY <3>1, <3>2
  <2>3. drain'.all => gs = new BY <2>1
  <2>4. Batched(drain.feed)' = G BY <1>2, <1>4, <2>1 DEF Batched
  <2>5. InReach(drain.feed, drain.upto)' BY <1>2, <1>3, <2>1 DEF InReach
  <2>6. pending'[drain'.feed] = drain'.upto BY <1>4, <2>1
  <2>7. QED BY <2>1, <2>2, <2>3, <2>4, <2>5, <2>6 DEF Drained
<1>19. RunsPlaced'
  <2> SUFFICES ASSUME NEW r \in eventRuns', ~Past(r) PROVE Current(r)' BY <1>15 DEF RunsPlaced
  <2>1. CASE r \in N BY <1>0, <1>1, <1>2, <1>4, <1>13, <2>1 DEF Current
  <2>2. CASE r \in eventRuns
    <3>1. /\ E!Feed(r) \in Feeds /\ pending[E!Feed(r)] # None /\ r.group \in Batched(E!Feed(r))
      BY <2>2, RunStands, FeedOf
    <3>2. CASE E!Feed(r) = s BY <1>0, <1>1, <1>2, <1>4, <1>7, <2>2, <3>2 DEF Current
    <3>3. CASE E!Feed(r) # s BY <1>4, <3>1, <3>3 DEF Current
    <3>4. QED BY <3>2, <3>3
  <2>3. QED BY <1>12, <2>1, <2>2
<1>20. RunsApart'
  <2>1. \A x, y \in N : x = y \/ x.group \cap y.group = {} BY <1>5, <1>10, <1>13
  <2>2. QED BY <1>12, <1>14, <2>1 DEF SourceInv, RunsApart
<1>21. Aged'
  <2> SUFFICES ASSUME NEW r \in eventRuns', NEW q \in eventRuns',
                      E!Feed(r) = E!Feed(q), Past(q), ~Past(r)
               PROVE  q.no < r.no
    BY <1>15 DEF Aged
  <2>1. q \in eventRuns /\ q.no <= created /\ q.no \in Nat
    BY <1>12, <1>13, RunStands DEF SourceInv, SourceTypes, EventRuns, RunRecords
  <2>2. CASE r \in N BY <1>8, <1>9, <2>1, <2>2
  <2>3. CASE r \in eventRuns BY <2>1, <2>3 DEF SourceInv, Aged
  <2>4. QED BY <1>12, <2>2, <2>3
<1>22. Unfinished'
  <2> SUFFICES ASSUME NEW z \in Feeds, pending'[z] # None, acked[z] < pending'[z]
               PROVE  \E g \in Batched(z)' : Waiting(z, g)'
    BY <1>0, <1>1, <1>2 DEF Unfinished
  <2>1. CASE z # s
    <3>1. PICK g \in Batched(z) : Waiting(z, g) BY <1>4, <2>1 DEF SourceInv, Unfinished
    <3>2. ASSUME NEW r \in eventRuns', r.group = g PROVE FALSE
      <4>1. CASE r \in eventRuns BY <1>0, <1>1, <1>2, <3>1, <3>2, <4>1 DEF Waiting
      <4>2. CASE r \in N
        <5>1. \A e \in g : e[1] = z BY <1>4, <2>1, BatchOf
        <5>2. QED BY <1>5, <1>13, <2>1, <3>2, <4>2, <5>1
      <4>3. QED BY <1>12, <3>2, <4>1, <4>2
    <3>3. QED BY <1>4, <2>1, <3>1, <3>2 DEF Waiting
  <2>2. CASE z = s
    <3>1. /\ drain'.feed = s /\ drain'.at = "advance" /\ drain'.all = (gs = new)
      BY <1>0, <1>1, <1>2 DEF Drains
    <3>2. new # {}
      <4>1. CASE pending[s] = None
        <5>1. PICK g \in G : TRUE BY <1>3, <1>5, <4>1
        <5>2. \A r \in eventRuns : r.group # g
          <6> SUFFICES ASSUME NEW r \in eventRuns, r.group = g PROVE FALSE OBVIOUS
          <6>1. PICK e \in g : e[1] = s /\ acked[s] < e[2] /\ e \in E!Events BY <1>5
          <6>2. e[2] \in Nat BY <6>1 DEF E!Events
          <6>3. ~Past(r) /\ E!Feed(r) = s BY <1>3, <6>1, <6>2, RunStands, FeedOf DEF Past
          <6>4. QED BY <1>3, <1>7, <4>1, <6>3, SourcesAssumption
        <5>3. QED BY <5>2
      <4>2. CASE pending[s] # None
        <5>1. pending[s] = u /\ acked[s] < pending[s] BY <1>3, <1>4, <2>2, <4>2
        <5>2. PICK g \in Batched(s) : Waiting(s, g)
          BY <1>0, <1>1, <1>2, <4>2, <5>1 DEF SourceInv, Unfinished
        <5>3. g \in new BY <1>0, <1>1, <1>2, <5>1, <5>2 DEF Waiting, Batched
        <5>4. QED BY <5>3
      <4>3. QED BY <4>1, <4>2
    <3>3. CASE gs = new
      <4>1. PICK g \in new : TRUE BY <3>2
      <4>2. \A r \in eventRuns' : r.group = g => r.st = "queued" BY <1>9, <1>12, <4>1
      <4>3. drain'.all BY <3>1, <3>3
      <4>4. Waiting(s, g)' BY <3>1, <4>2, <4>3 DEF Waiting
      <4>5. QED BY <1>4, <2>2, <4>1, <4>4
    <3>4. CASE gs # new
      <4>1. PICK g \in new : g \notin gs BY <1>2, <3>4
      <4>2. \A r \in eventRuns' : r.group # g BY <1>9, <1>12, <4>1
      <4>3. QED BY <1>4, <2>2, <4>1, <4>2 DEF Waiting
    <3>5. QED BY <3>3, <3>4
  <2>3. QED BY <2>1, <2>2
<1>23. AckedHad'
  <2>1. \A x \in N : x.group \subseteq had' BY <1>2, <1>9
  <2>2. QED BY <1>0, <1>1, <1>2, <1>12, <2>1 DEF SourceInv, AckedHad
<1>24. BegunOnce'
  <2>1. ASSUME NEW x \in N, NEW e \in x.group PROVE begun[e] = 0
    <3>1. e \in E!Events /\ e[1] = s /\ acked[s] < e[2] BY <1>5, <1>13
    <3>2. ~(\E r \in eventRuns : e \in r.group) BY <1>14, <2>1
    <3>3. begun[e] \in Nat /\ ~(begun[e] > 0) BY <3>1, <3>2 DEF SourceInv, SourceTypes, BegunOnce
    <3>4. QED BY <3>3
  <2>2. QED BY <1>0, <1>1, <1>2, <1>12, <2>1 DEF SourceInv, BegunOnce
<1>25. QED
  BY <1>16, <1>17, <1>18, <1>19, <1>20, <1>21, <1>22, <1>23, <1>24 DEF SourceInv

\* Every step of the sources keeps the invariant.
LEMMA SourcesStep == SourceInv /\ [E!Next]_(E!vars) => SourceInv'
<1> SUFFICES ASSUME SourceInv, [E!Next]_(E!vars) PROVE SourceInv' OBVIOUS
<1>1. captured \in [Feeds -> Nat] /\ (\A s \in Feeds : captured[s] <= MaxCaptures[s])
      /\ \A s \in Feeds : MaxCaptures[s] \in Nat
  BY SourcesAssumption DEF SourceInv, SourceTypes
<1>2. CASE UNCHANGED E!vars
  BY <1>1, <1>2, SourcesStand DEF E!vars, E!files, E!outside, E!ledger, E!history
<1>3. ASSUME NEW s \in Feeds, E!Capture(s) \/ E!Fail(s) \/ E!Recover(s) PROVE SourceInv'
  <2>1. UNCHANGED <<acked, pending, drain, eventRuns, created, begun, had>>
    BY <1>3 DEF E!Capture, E!Fail, E!Recover, E!files, E!ledger, E!history
  <2>2. /\ captured' \in [Feeds -> Nat]
        /\ \A z \in Feeds : captured[z] <= captured'[z] /\ captured'[z] <= MaxCaptures[z]
    BY <1>1, <1>3 DEF E!Capture, E!Fail, E!Recover
  <2>3. QED BY <2>1, <2>2, SourcesStand
<1>4. ASSUME NEW r \in eventRuns, E!Cancel(r) \/ E!End(r) PROVE SourceInv'
  BY <1>4, Releases DEF E!Cancel, E!End, E!Startable
<1>5. ASSUME E!Retry PROVE SourceInv'
  <2>1. PICK r \in eventRuns : drain = E!Idle /\ E!Release(r)
    BY <1>5 DEF E!Retry, E!First
  <2>2. QED BY <2>1, Releases
<1>6. QED
  BY <1>2, <1>3, <1>4, <1>5, Fetches, Creates, Advances, Forgets, Restarts, Starts
  DEF E!Next, E!Draining

\* What the sources do as a part of MCServices is what they do alone.
LEMMA SourcesPart == ServicesSpec => E!Spec
<1>1. ServicesInit => E!Init BY DEF ServicesInit
<1>2. [ServicesNext]_<<part, vars, schedule, delivery, sources>> => [E!Next]_(E!vars)
  BY DEF ServicesNext, sources, E!vars, E!files, E!outside, E!ledger, E!history
<1>3. QED BY <1>1, <1>2, PTL DEF ServicesSpec, E!Spec

\* Every event that is acknowledged had a run, and in one life of the relay no event is
\* run twice, however batches are kept, deferred, released and pruned (event-sources.ts,
\* index.ts drainSources, runs.ts pruneTaskHistory).
THEOREM EventsRunOnce == ServicesSpec => []OneRunEach
<1>1. SourceInv => OneRunEach BY DEF SourceInv, AckedHad, BegunOnce, OneRunEach, E!OneRunEach
<1>2. E!Spec => []SourceInv BY SourceInit, SourcesStep, PTL DEF E!Spec
<1>3. QED BY <1>1, <1>2, SourcesPart, PTL

\* No executor is started for an event its source was told is done, whatever batch a
\* restart finds (index.ts, sourceCheck before a run starts).
THEOREM DoneEventsStayDone == ServicesSpec => DoneStaysDone
<1> DEFINE Kept == \A e \in E!Events : e \in released => begun'[e] <= begun[e]
<1>1. SourceInv /\ [E!Next]_(E!vars) => [Kept]_(E!vars)
  <2> SUFFICES ASSUME SourceInv, E!Next, NEW e \in E!Events, e \in released
               PROVE  begun'[e] <= begun[e]
    OBVIOUS
  <2>1. begun[e] \in Nat BY DEF SourceInv, SourceTypes
  <2>2. CASE begun' = begun BY <2>1, <2>2
  <2>3. CASE E!Restart BY <2>1, <2>3 DEF E!Restart
  <2>4. ASSUME NEW r \in eventRuns, E!Start(r) PROVE begun'[e] <= begun[e]
    BY <2>1, <2>4 DEF E!Start, E!Eligible
  <2>5. QED
    BY <2>2, <2>3, <2>4
    DEF E!Next, E!Draining, E!Create, E!Advance, E!Forget, E!Retry, E!Fetch, E!Capture, E!Fail,
        E!Recover, E!Cancel, E!End, E!Release, E!history
<1>2. E!Spec => [][Kept]_(E!vars)
  <2> HIDE DEF Kept
  <2>1. QED BY <1>1, SourceInit, SourcesStep, PTL DEF E!Spec
<1>3. QED BY <1>2, SourcesPart DEF DoneStaysDone, E!DoneStaysDone
=============================================================================
