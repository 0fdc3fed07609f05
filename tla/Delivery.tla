------------------------------ MODULE Delivery ------------------------------
(***************************************************************************)
(* Messages from running work to their reader: the delivery socket         *)
(* (src/src/delivery-socket.ts and its client), the outbox of the ledger   *)
(* (src/src/runs.ts) and the one pump that sends it (drainOutbox in        *)
(* src/src/index.ts), through a graceful stop that hands running work to   *)
(* the next relay, and through a crash.                                    *)
(*                                                                         *)
(* A message is named by the ID its producer chose, so that asking twice   *)
(* to enqueue it is asking for one message.  Its producer is a process of  *)
(* its own: it enqueues over one connection and waits over another.        *)
(*                                                                         *)
(* A definition commented "Mutant of D" is D with a plausible bug; no      *)
(* action uses it.                                                         *)
(***************************************************************************)
EXTENDS Naturals, FiniteSets, SequencesExt

CONSTANTS
  Messages,     \* message IDs, one producer each
  Run,          \* Run[m]: the run that sends it, None for an owner delivery
  MaxKept,      \* MAX_TERMINAL_OUTBOX
  MaxRestarts,  \* bound: relay restarts
  None

WorkRuns == {Run[m] : m \in Messages} \ {None}

VARIABLES
  outbox,    \* state of each message in the outbox map
  made,      \* the messages created so far, in the order of their createdAt
  pump,      \* outboxWork: its snapshot, the message it is at and how far
  client,    \* each producer
  got,       \* how often Telegram was given the message
  running,   \* runs the ledger has queued or running
  phase,     \* the relay's life, as the socket and the pump see it
  handed,    \* runs of the hand-off under way
  file,      \* run-handoff.json: runs, and what became of their messages
  restarts

ledger == <<outbox, made>>
relay  == <<running, phase, handed, file, restarts>>
vars   == <<ledger, pump, client, got, relay>>

Settled     == {"sent", "failed", "unknown"}
OutboxState == {"absent", "queued", "sending"} \cup Settled
Connected   == {"connected", "submitted", "waiting", "woken"}
Answers     == {"delivered", "failed", "unknown", "refused"}
Phases      == {"booting", "up", "handing", "closing", "draining", "down"}

IdlePump == [on |-> FALSE, batch |-> {}, at |-> None, step |-> "none"]
NoFile   == [runs |-> {}, state |-> [m \in Messages |-> "absent"]]

Serving      == phase \in {"booting", "up", "handing"}
ShuttingDown == phase \in {"handing", "closing", "draining", "down"}
Queued(m)    == outbox[m] = "queued"

Init ==
  /\ outbox = [m \in Messages |-> "absent"] /\ made = <<>>
  /\ pump = IdlePump
  /\ client = [m \in Messages |-> "idle"]
  /\ got = [m \in Messages |-> 0]
  /\ running = WorkRuns
  /\ phase = "up" /\ handed = {} /\ file = NoFile
  /\ restarts = 0

(***************************************************************************)
(* Producers and the socket                                                *)
(***************************************************************************)
ClientTo(m, s) == client' = [client EXCEPT ![m] = s]

\* callDeliverySocket with an enqueue; a refused connection is tried again while
\* an upgrade swap is declared, ...
Connect(m) ==
  /\ client[m] \in {"idle", "connecting"}
  /\ ClientTo(m, IF Serving THEN "connected" ELSE "connecting")
  /\ UNCHANGED <<ledger, pump, got, relay>>

\* ... and given up otherwise.
GiveUp(m) ==
  /\ client[m] = "connecting" /\ ~Serving
  /\ ClientTo(m, "refused")
  /\ UNCHANGED <<ledger, pump, got, relay>>

\* The frame is read: a closing socket does not admit it.
Submit(m) ==
  /\ client[m] = "connected"
  /\ ClientTo(m, IF Serving THEN "submitted" ELSE "refused")
  /\ UNCHANGED <<ledger, pump, got, relay>>

\* drainOutbox: one pump at a time, over the messages queued when it starts.
Pumping(box) == [IdlePump EXCEPT !.on = TRUE, !.batch = {m \in Messages : box[m] = "queued"}]
Woken(box)   == IF pump.on \/ ShuttingDown THEN pump ELSE Pumping(box)

\* The enqueue handler ends: the message is queued unless its ID is known, and the
\* pump woken.
EnqueueOk(m) ==
  /\ client[m] = "submitted"
  /\ Run[m] \in running \cup {None}
  /\ IF outbox[m] = "absent"
       THEN /\ outbox' = [outbox EXCEPT ![m] = "queued"]
            /\ made' = Append(made, m)
       ELSE UNCHANGED ledger
  /\ pump' = Woken(outbox')
  /\ ClientTo(m, "accepted")
  /\ UNCHANGED <<got, relay>>

\* Unknown run, one that may not send any more, or an owner that has changed.
EnqueueRefused(m) ==
  /\ client[m] = "submitted"
  /\ Run[m] \notin running
  /\ ClientTo(m, "refused")
  /\ UNCHANGED <<ledger, pump, got, relay>>

\* waitForDelivery reads the outcome or registers; the loop reads it again when
\* it is woken.
AnswerOf(s) == CASE s = "sent" -> "delivered" [] s \in {"failed", "unknown"} -> s
                 [] OTHER -> "waiting"

\* The wait is a call of its own and is not retried.
Wait(m) ==
  /\ client[m] = "accepted"
  /\ ClientTo(m, IF Serving THEN AnswerOf(outbox[m]) ELSE "unknown")
  /\ UNCHANGED <<ledger, pump, got, relay>>

WakeUp(m) ==
  /\ client[m] = "woken"
  /\ ClientTo(m, AnswerOf(outbox[m]))
  /\ UNCHANGED <<ledger, pump, got, relay>>

Timeout(m) ==
  /\ client[m] = "waiting"
  /\ ClientTo(m, "unknown")
  /\ UNCHANGED <<ledger, pump, got, relay>>

(***************************************************************************)
(* The pump                                                                *)
(***************************************************************************)
\* drainTimer, four times a second.
Tick ==
  /\ phase = "up" /\ ~pump.on
  /\ \E m \in Messages : Queued(m)
  /\ pump' = Woken(outbox)
  /\ UNCHANGED <<ledger, client, got, relay>>

\* m was created before n.
Older(m, n) == \E i, j \in DOMAIN made : i < j /\ made[i] = m /\ made[j] = n

\* claimOutbox of the oldest message left of the snapshot, if it is still queued.
Claim ==
  /\ pump.on /\ pump.at = None
  /\ \E m \in pump.batch :
       /\ \A n \in pump.batch : ~Older(n, m)
       /\ IF Queued(m)
            THEN /\ outbox' = [outbox EXCEPT ![m] = "sending"]
                 /\ pump' = [pump EXCEPT !.batch = @ \ {m}, !.at = m, !.step = "claimed"]
            ELSE /\ pump' = [pump EXCEPT !.batch = @ \ {m}]
                 /\ UNCHANGED outbox
  /\ UNCHANGED <<made, client, got, relay>>

\* The request goes out and reaches Telegram, or it is lost on the way.
Attempt ==
  /\ pump.at # None /\ pump.step = "claimed"
  /\ \/ /\ pump' = [pump EXCEPT !.step = "reached"]
        /\ got' = [got EXCEPT ![pump.at] = @ + 1]
     \/ /\ pump' = [pump EXCEPT !.step = "lost"]
        /\ UNCHANGED got
  /\ UNCHANGED <<ledger, client, relay>>

\* Refused before anything was sent, or by Telegram itself; answered; or an error
\* that leaves the outcome unknown.
Outcomes(step) ==
  CASE step = "claimed" -> {"failed"} [] step = "reached" -> {"sent", "unknown"}
    [] OTHER -> {"unknown"}

\* Mutant of Notified: a waiter is not woken.
NotifiedNobody(m) == client

\* notifyDelivery: its waiter's promise is resolved and forgotten.
Notified(m) == [client EXCEPT ![m] = IF @ = "waiting" THEN "woken" ELSE @]

\* pruneTerminals: the oldest settled messages beyond the cap go, but not one
\* whose waiter is registered.
Pruned(box) ==
  LET settled == {m \in Messages : box[m] \in Settled}
      old     == {m \in settled : /\ Cardinality({n \in settled : Older(m, n)}) >= MaxKept
                                  /\ Notified(pump.at)[m] # "waiting"}
  IN [m \in Messages |-> IF m \in old THEN "absent" ELSE box[m]]

\* markOutboxSent or failOutbox.
Settle ==
  /\ pump.at # None
  /\ \E s \in Outcomes(pump.step) : outbox' = Pruned([outbox EXCEPT ![pump.at] = s])
  /\ client' = Notified(pump.at)
  /\ pump' = [pump EXCEPT !.at = None, !.step = "none"]
  /\ UNCHANGED <<made, got, relay>>

PumpEnd ==
  /\ pump.on /\ pump.at = None /\ pump.batch = {}
  /\ pump' = IdlePump
  /\ UNCHANGED <<ledger, client, got, relay>>

(***************************************************************************)
(* Runs, a graceful stop, a crash and the next relay                       *)
(***************************************************************************)
RunEnds(r) ==
  /\ r \in running \ handed /\ phase # "down"
  /\ running' = running \ {r}
  /\ UNCHANGED <<ledger, pump, client, got, phase, handed, file, restarts>>

\* Mutant of Record: messages not settled yet are recorded too.
RecordUnsettled(runs) ==
  LET receipt(m) == Run[m] \in runs /\ outbox[m] # "absent" IN
  [runs |-> runs, state |-> [m \in Messages |-> IF receipt(m) THEN outbox[m] ELSE "absent"]]

\* saveRunHandoff: the runs, and what became of their settled messages.
Record(runs) ==
  LET receipt(m) == Run[m] \in runs /\ outbox[m] \in Settled IN
  [runs |-> runs, state |-> [m \in Messages |-> IF receipt(m) THEN outbox[m] ELSE "absent"]]

\* stop: host runs still running are handed over; no new pump starts.
HandOver ==
  /\ phase = "up" /\ restarts < MaxRestarts
  /\ \E runs \in SUBSET running :
       /\ handed' = runs
       /\ file' = IF runs = {} THEN file ELSE Record(runs)
  /\ phase' = "handing"
  /\ UNCHANGED <<ledger, pump, client, got, running, restarts>>

\* The socket stops listening.
CloseServer ==
  /\ phase = "handing"
  /\ phase' = "closing"
  /\ UNCHANGED <<ledger, pump, client, got, running, handed, file, restarts>>

Admissions == {m \in Messages : client[m] = "submitted"}

\* When what it admitted is done, a hand-over waits for the pump and sends the
\* rest; a plain stop leaves the queue alone.
Drain ==
  /\ phase = "closing" /\ Admissions = {}
  /\ IF handed = {} THEN UNCHANGED pump
     ELSE /\ ~pump.on
          /\ pump' = Pumping(outbox)
  /\ phase' = "draining"
  /\ UNCHANGED <<ledger, client, got, running, handed, file, restarts>>

Forget ==
  /\ outbox' = [m \in Messages |-> "absent"]
  /\ pump' = IdlePump
  /\ running' = {} /\ handed' = {}
  /\ phase' = "down"
  /\ UNCHANGED <<made, got, restarts>>

\* Mutant of Down: the record is not written again.
DownOnce ==
  /\ phase = "draining" /\ ~pump.on
  /\ \A m \in Messages : client[m] \notin Connected
  /\ Forget
  /\ UNCHANGED <<client, file>>

\* Every connection has ended, the record is written again and the process ends.
Down ==
  /\ phase = "draining" /\ ~pump.on
  /\ \A m \in Messages : client[m] \notin Connected
  /\ file' = IF handed = {} THEN file ELSE Record(handed)
  /\ Forget
  /\ UNCHANGED client

\* The process is killed: open connections are reset.
Crash ==
  /\ phase # "down" /\ restarts < MaxRestarts
  /\ Forget
  /\ client' = [m \in Messages |-> IF client[m] \in Connected THEN "unknown" ELSE client[m]]
  /\ UNCHANGED file

\* The next relay listens ...
Boot ==
  /\ phase = "down"
  /\ phase' = "booting"
  /\ restarts' = restarts + 1
  /\ UNCHANGED <<ledger, pump, client, got, running, handed, file>>

\* ... then takes the record: receipts, which keep their createdAt, then the runs.
Adopt ==
  /\ phase = "booting"
  /\ outbox' = [m \in Messages |-> IF file.state[m] = "absent" THEN outbox[m] ELSE file.state[m]]
  /\ running' = file.runs
  /\ file' = NoFile
  /\ phase' = "up"
  /\ UNCHANGED <<made, pump, client, got, handed, restarts>>

ClientStep(m) ==
  \/ Connect(m) \/ GiveUp(m) \/ Submit(m) \/ EnqueueOk(m) \/ EnqueueRefused(m)
  \/ Wait(m) \/ WakeUp(m) \/ Timeout(m)
RelayStep ==
  \/ Tick \/ Claim \/ Attempt \/ Settle \/ PumpEnd
  \/ HandOver \/ CloseServer \/ Drain \/ Down \/ Crash \/ Boot \/ Adopt

Next == (\E m \in Messages : ClientStep(m)) \/ (\E r \in WorkRuns : RunEnds(r)) \/ RelayStep

Spec == Init /\ [][Next]_vars

(***************************************************************************)
(* Properties                                                              *)
(***************************************************************************)
\* Types; and a message is created once, and before it is in the outbox or a record.
TypeOK ==
  /\ outbox \in [Messages -> OutboxState]
  /\ made \in Seq(Messages) /\ IsInjective(made)
  /\ \A m \in Messages :
       outbox[m] # "absent" \/ file.state[m] # "absent" => m \in ToSet(made)
  /\ pump \in [on : BOOLEAN, batch : SUBSET ToSet(made), at : Messages \cup {None},
              step : {"none", "claimed", "reached", "lost"}]
  /\ client \in [Messages -> {"idle", "connecting", "accepted"} \cup Connected \cup Answers]
  /\ got \in [Messages -> Nat]
  /\ running \subseteq WorkRuns /\ handed \subseteq WorkRuns
  /\ file \in [runs : SUBSET WorkRuns, state : [Messages -> OutboxState]]
  /\ phase \in Phases /\ restarts \in 0..MaxRestarts

\* "Client-generated IDs keep retried sends idempotent without a second delivery"
\* (message.ts): through wakes that overlap a pump, a stop that drains, a crash, a
\* hand-over and a producer that connects again, Telegram gets a message once.
SentOnce == \A m \in Messages : got[m] <= 1

\* What a producer is told is true: delivered was sent; failed, or not accepted,
\* was not ("uncertain sends report unknown instead of success",
\* docs/docker-runtime.md).
AnswersAreTrue ==
  \A m \in Messages :
    /\ client[m] = "delivered" => got[m] = 1
    /\ client[m] \in {"failed", "refused"} => got[m] = 0

\* "Accepted deliveries are drained before listener shutdown completes; settled
\* receipts for handed-off runs move with the handoff" (docs/docker-runtime.md):
\* nothing a handed-over run had accepted is unsettled or left out of the record.
HandOverIsComplete ==
  [][Down => \A m \in Messages :
       Run[m] \in handed /\ outbox[m] # "absent" =>
         outbox[m] \in Settled /\ file'.state[m] = outbox[m]]_vars

\* An outcome somebody waits for, and the pump is to bring it or has brought it.
Unsettled(m) == outbox[m] \in {"queued", "sending"}
Owed(m) == \/ phase = "up" /\ outbox[m] # "absent"
           \/ handed # {} /\ Unsettled(m)

\* The event loop runs what is ready and requests to Telegram end.  A wait must time
\* out only where nothing is owed: no property leans on the timeout of one that is.
Fairness ==
  /\ WF_vars(Tick) /\ WF_vars(Claim) /\ WF_vars(Settle) /\ WF_vars(PumpEnd)
  /\ \A m \in Messages :
       /\ WF_vars(Submit(m) \/ EnqueueOk(m) \/ EnqueueRefused(m)) /\ WF_vars(WakeUp(m))
       /\ WF_vars(Timeout(m) /\ ~Owed(m))
  /\ WF_vars(CloseServer) /\ WF_vars(Drain) /\ WF_vars(Down) /\ WF_vars(Adopt)

FairSpec == Spec /\ Fairness

\* "A receipt wait completes after the relay's delivery pump flushes the accepted
\* items" (delivery-socket.ts): who waits for a message that is still to be sent stops
\* waiting, and not by the timeout, unless a plain stop leaves the queue unsent: no
\* wake-up is lost, and neither pruning nor a hand-over leaves the waiter there.
WaitersLearn == \A m \in Messages : client[m] = "waiting" /\ Unsettled(m) ~> client[m] # "waiting"

\* A graceful stop ends: its socket waits for producers, they for a pump that only the
\* stop still runs, and the three do not wait for one another.
StopEnds == phase = "handing" ~> phase = "down"
=============================================================================
