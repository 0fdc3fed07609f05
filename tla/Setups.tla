-------------------------------- MODULE Setups --------------------------------
(***************************************************************************)
(* The ordered setups of one run and the health of the logins they use:    *)
(* what an attempt's output proves (startupObserver, attemptFailure), the  *)
(* setup tried next (nextSetup, advance), what an outcome teaches          *)
(* (recordSetupOutcome), the wait of a scheduled occurrence whose logins   *)
(* are all exhausted (quotaWait) and the owner's retry (retryQuota).       *)
(*                                                                         *)
(* Whatever the relay does under its start lock is one step, except that a *)
(* launch is told from the choice of its setup; a retry takes that lock    *)
(* too, from Telegram and through the delivery socket.  A time is kept as  *)
(* what is left until it (0: none, or past); of the successes only their   *)
(* order matters.                                                          *)
(***************************************************************************)
EXTENDS Integers, SequencesExt

CONSTANTS
  Timed,       \* scheduled occurrences
  Present,     \* owner-present runs with captured fallbacks
  Chain,       \* run -> the setups saved with it, in order
  Group,       \* run -> how many of its first setups differ in the login alone
  ScopeOf,     \* setup -> the login whose quota it uses
  Slots,       \* scheduledConcurrency
  Rejections,  \* the rejections a provider may report: [cat, reset], the time
               \* left until the reset (0: past, None: not reported)
  MaxFailures, \* quotaFailures stops counting here (4 in the code)
  MaxAttempts, \* bound: executors launched in this life of the relay
  None

AllRuns == Timed \cup Present
Logins(r) == {ScopeOf[p] : p \in Range(Chain[r])}
Scopes == UNION {Logins(r) : r \in AllRuns}

VARIABLES
  health,   \* login -> what is recorded of it
  worked,   \* the logins with a recorded success, the latest first
  run,      \* run -> its record, and how far its watcher is
  lock,     \* the run being launched under the start lock; None
  launched

logins == <<health, worked>>
vars == <<logins, run, lock, launched>>

Unknown == [reset |-> 0, retry |-> 0, fails |-> -1, manual |-> FALSE]
\* round: the attempts of the current round (attemptRound) in their order, but for
\* the setups it skipped; quota: whether every earlier attempt ended at a limit, and
\* earlier: whether there is one.
Fresh == [status |-> "queued", wait |-> FALSE, round |-> <<>>, skipped |-> {},
          earlier |-> FALSE, quota |-> TRUE, cands |-> <<>>, ignore |-> FALSE, probing |-> FALSE,
          began |-> FALSE, phase |-> "idle", stopped |-> FALSE]
\* Runs are in memory; the control state keeps what earlier lives recorded.
Recorded == {Unknown, [Unknown EXCEPT !.reset = 1]}
Init ==
  /\ health \in [Scopes -> Recorded] /\ worked = <<>>
  /\ run = [r \in AllRuns |-> Fresh] /\ lock = None
  /\ launched = 0

(***************************************************************************)
(* What an attempt's output proves                                         *)
(***************************************************************************)
NoRejection == [cat |-> None, reset |-> None]
Silent == [began |-> FALSE, rej |-> NoRejection, terminal |-> "none"]
Denied(o) == o.rej.cat = "access-denied"
Reject(o, v) == IF Denied(o) THEN o ELSE [o EXCEPT !.rej = v]

\* One line of startupObserver.  A rejection typed by the client's own error
\* message keeps the reset and the kind of limit reported before it.
Observe(o, e) ==
  CASE e.kind = "metadata" -> o
    [] e.kind = "work" -> [Reject(o, NoRejection) EXCEPT !.began = TRUE]
    [] e.kind = "limit" -> Reject(o, e.rej)
    [] e.kind = "error" ->
         Reject(o, IF e.rej.cat # "quota" THEN [e.rej EXCEPT !.reset = None]
                   ELSE [cat |-> IF o.rej.cat = "credits-required" THEN o.rej.cat ELSE "quota",
                         reset |-> o.rej.reset])
    [] e.kind = "summary" -> [Reject(o, e.rej) EXCEPT !.began = @ \/ e.began]
    [] e.kind = "success" -> [Reject(o, NoRejection) EXCEPT !.terminal = "completed"]
    [] e.kind = "flagged" -> [o EXCEPT !.terminal = "failed"]
    [] e.kind = "aborted" -> [o EXCEPT !.terminal = "failed"]
    [] e.kind = "capped" -> [Reject(o, NoRejection) EXCEPT !.terminal = "failed"]
Observed(o, es) == Observe(Observe(o, es[1]), es[2])

Quota == {"quota", "quota-after-work-began", "credits-required",
          "credits-required-after-work-began", "same-quota-scope"}
\* attemptFailure: the category of a failed attempt and whether the chain goes on.
AttemptFailure(o) ==
  IF ~o.began
  THEN IF o.rej.cat = None THEN [cat |-> "uncertain", reset |-> None, continues |-> FALSE]
       ELSE [cat |-> o.rej.cat, reset |-> o.rej.reset, continues |-> ~Denied(o)]
  ELSE IF o.rej.cat \in {"quota", "credits-required"}
       THEN [cat |-> IF o.rej.cat = "quota" THEN "quota-after-work-began"
                     ELSE "credits-required-after-work-began",
             reset |-> o.rej.reset, continues |-> TRUE]
       ELSE [cat |-> "after-work-began", reset |-> None, continues |-> FALSE]

(***************************************************************************)
(* The health of logins                                                    *)
(***************************************************************************)
Later(a, b) == IF a > b THEN a ELSE b
Blocked(h) == h.manual \/ h.reset > 0 \/ h.retry > 0

\* Mutant of Succeeded: a success always clears the wait.
SucceededClears(h) == Unknown
\* recordSetupOutcome of a success, and of an exhausted or rejected login.
Succeeded(h) == IF Blocked(h) THEN h ELSE Unknown
Exhausted(h, f) ==
  LET elapsed == f.reset = 0 /\ h.fails = -1
      fails == IF elapsed THEN 0
               ELSE IF h.fails < MaxFailures THEN Later(h.fails, 0) + 1 ELSE MaxFailures
  IN  IF f.cat \in {"credits-required", "credits-required-after-work-began"}
      THEN [h EXCEPT !.manual = TRUE]
      ELSE IF f.reset \notin {0, None} THEN [h EXCEPT !.reset = Later(@, f.reset)]
      ELSE IF Blocked(h) THEN h
      ELSE [h EXCEPT !.fails = fails, !.retry = fails + 1]
Teaches(p, f) ==
  LET s == ScopeOf[p]
      others == SelectSeq(worked, LAMBDA t : t # s)
  IN  /\ worked' = IF f.cat = "completed" THEN <<s>> \o others
                   ELSE IF f.cat \in Quota \cup {"login-unavailable"} THEN others ELSE worked
      /\ health' = IF f.cat = "completed" THEN [health EXCEPT ![s] = Succeeded(@)]
                   ELSE IF f.cat \in Quota THEN [health EXCEPT ![s] = Exhausted(@, f)] ELSE health

\* activeSetup: the setup of the latest attempt that was not skipped.
ActiveSetup(r) == IF run[r].round = <<>> THEN Chain[r][1] ELSE Last(run[r].round).setup
\* Mutant of Availability: recorded health alone.
AvailabilityRecorded(r) == health
\* setupAvailability: a login that a waiting occurrence is probing is not free.
Availability(r) ==
  [s \in Scopes |-> IF \E o \in AllRuns \ {r} :
                          /\ run[o].status = "running" /\ run[o].wait
                          /\ ScopeOf[ActiveSetup(o)] = s
                    THEN [health[s] EXCEPT !.manual = TRUE] ELSE health[s]]

\* quotaWait: every login is blocked.
QuotaWait(r, hh) == \A s \in Logins(r) : Blocked(hh[s])

(***************************************************************************)
(* The setup tried next                                                    *)
(***************************************************************************)
\* setupCandidates: the first group is rotated to the login that last worked.
SetupCandidates(r) ==
  LET login(i) == ScopeOf[Chain[r][i]]
      rank(i) == CHOOSE k \in DOMAIN worked : worked[k] = login(i)
      good == {i \in 1..Group[r] : ~Blocked(health[login(i)]) /\ login(i) \in Range(worked)}
      latest == {i \in good : \A j \in good : rank(i) <= rank(j)}
      best == IF latest = {} THEN 1 ELSE Min(latest)
  IN  SubSeq(Chain[r], best, Group[r]) \o SubSeq(Chain[r], 1, best - 1)
        \o SubSeq(Chain[r], Group[r] + 1, Len(Chain[r]))

\* nextSetup: the first untried setup whose login is neither exhausted in this
\* round nor blocked; the ones before it are recorded as skipped.
Has(q, p) == p \in q.skipped \/ \E i \in DOMAIN q.round : q.round[i].setup = p
Spends(a, s) == a.cat \in Quota \cup {"login-unavailable"} /\ ScopeOf[a.setup] = s
Spent(q, s) == \/ \E p \in q.skipped : ScopeOf[p] = s
               \/ \E i \in DOMAIN q.round : Spends(q.round[i], s)
NextSetup(q, hh) ==
  LET scope(i) == ScopeOf[q.cands[i]]
      untried == {i \in DOMAIN q.cands : ~Has(q, q.cands[i])}
      open == {i \in untried : ~Spent(q, scope(i)) /\ ~Blocked(hh[scope(i)])}
  IN  [setup |-> IF open = {} THEN None ELSE q.cands[Min(open)],
       skipped |-> {q.cands[i] : i \in {j \in untried : open = {} \/ j < Min(open)}}]

\* advance: the run with its next attempt.  Owner-present work that finds every
\* login blocked before its first attempt tries them in order instead.
Advanced(r, q, hh) ==
  LET clear == [s \in Scopes |-> Unknown]
      refused == r \in Present /\ q.round = <<>> /\ q.skipped = {} /\ NextSetup(q, hh).setup = None
      ignore == q.ignore \/ refused
      next == NextSetup(q, IF ignore THEN clear ELSE hh)
  IN  [q EXCEPT !.ignore = ignore, !.skipped = @ \cup next.skipped,
                !.phase = IF next.setup = None THEN "unavailable" ELSE "launching",
                !.round = IF next.setup = None THEN @
                          ELSE Append(@, [setup |-> next.setup, cat |-> "running"])]
Settled(q, cat) == [q EXCEPT !.round[Len(q.round)].cat = cat]

\* The round is over: what a retry asks of its attempts is kept.
Rested(q, status, wait) ==
  [Fresh EXCEPT !.status = status, !.wait = wait,
                !.earlier = q.earlier \/ q.round # <<>> \/ q.skipped # {},
                !.quota = q.quota /\ \A i \in DOMAIN q.round : q.round[i].cat \in Quota]
\* finalize and the failed start, which nothing revives; startFailed after no
\* setup was left, which a quota retry may.
Ended(status) == [Fresh EXCEPT !.status = status]
Unavailable(r, q, hh) ==
  IF r \in Timed /\ QuotaWait(r, hh) THEN Rested(q, "queued", TRUE)
  ELSE Rested(q, "unavailable", FALSE)
\* Advance under the start lock: launch the next setup or end the run.
Moves(r, q, hh) ==
  LET a == Advanced(r, q, hh)
  IN  IF a.phase = "launching" THEN [a EXCEPT !.began = FALSE] ELSE Unavailable(r, a, hh)
Place(r, q) == run' = [run EXCEPT ![r] = q] /\ lock' = IF q.phase = "launching" THEN r ELSE None

(***************************************************************************)
(* The relay                                                               *)
(***************************************************************************)
Running(r) == run[r].status = "running"
\* startJob of a queued run, and the first advance of watchRun.
StartJob(r) ==
  LET waits == r \in Timed /\ QuotaWait(r, Availability(r))
      begun == [run[r] EXCEPT !.status = "running", !.probing = run[r].wait,
                              !.cands = IF r \in Timed THEN SetupCandidates(r) ELSE Chain[r]]
  IN  /\ lock = None /\ run[r].status = "queued"
      /\ IF r \in Timed THEN Cardinality({o \in Timed : run[o].phase # "idle"}) < Slots
         ELSE \A o \in Present : ~Running(o)
      /\ IF waits THEN Place(r, [run[r] EXCEPT !.wait = TRUE])
         ELSE Place(r, Moves(r, begun, Availability(r)))
      /\ UNCHANGED <<logins, launched>>

\* launchSetup: the executor starts; its CLI is missing; it fails otherwise.
Launch(r) ==
  /\ lock = r /\ lock' = None /\ launched < MaxAttempts
  /\ run' = [run EXCEPT ![r].phase = "working"]
  /\ launched' = launched + 1 /\ UNCHANGED logins
LaunchMissing(r) ==
  /\ lock = r
  /\ Place(r, Moves(r, Settled(run[r], "cli-unavailable"), Availability(r)))
  /\ UNCHANGED <<logins, launched>>
LaunchFails(r) ==
  /\ lock = r
  /\ Place(r, Ended("failed"))
  /\ UNCHANGED <<logins, launched>>

\* Structured work is accepted: the run is no probe any more.
Accept(r) ==
  /\ run[r].phase = "working" /\ ~run[r].began
  /\ run' = [run EXCEPT ![r].began = TRUE, ![r].probing = FALSE,
                        ![r].wait = @ /\ ~run[r].probing]
  /\ UNCHANGED <<logins, lock, launched>>

Stop(r) ==
  /\ lock = None /\ run[r].phase # "idle" /\ ~run[r].stopped
  /\ run' = [run EXCEPT ![r].stopped = TRUE]
  /\ UNCHANGED <<logins, lock, launched>>

\* The completion: the last lines and how the executor exits (zero, nonzero, or
\* its transport was interrupted); the outcome is recorded and the run ends or
\* will advance.
Lines ==
  LET E(k, v, b) == [kind |-> k, rej |-> v, began |-> b]
      last == {E(k, NoRejection, FALSE) :
                 k \in {"metadata", "success", "flagged", "aborted", "capped"}}
      quiet == E("metadata", NoRejection, FALSE)
  IN  {<<E(k, v, FALSE), l>> : k \in {"limit", "error"}, v \in Rejections, l \in last}
      \cup {<<E("limit", v, FALSE), E("work", NoRejection, FALSE)>> : v \in Rejections}
      \cup {<<quiet, E("summary", v, b)>> : v \in Rejections \cup {NoRejection}, b \in BOOLEAN}
      \cup {<<quiet, l>> : l \in last}
Outcome(o, exit) ==
  LET failed == exit # "zero" \/ (o.rej.cat # None /\ ~o.began)
                \/ o.rej.cat \in Quota \/ o.terminal = "failed"
      f == AttemptFailure(o)
  IN  IF failed THEN [f EXCEPT !.continues = @ /\ exit # "interrupted"]
      ELSE [cat |-> "completed", reset |-> None, continues |-> FALSE]
Outcomes ==
  [b \in BOOLEAN |-> {Outcome(Observed([Silent EXCEPT !.began = b], ls), exit) :
                        ls \in Lines, exit \in {"zero", "nonzero", "interrupted"}}]
Finish(r) ==
  LET q == run[r]
      Becomes(next) == run' = [run EXCEPT ![r] = next]
  IN  /\ lock = None /\ q.phase = "working" /\ UNCHANGED <<lock, launched>>
      /\ \/ q.stopped /\ UNCHANGED logins /\ Becomes(Ended("cancelled"))
         \/ /\ ~q.stopped
            /\ \E f \in Outcomes[q.began] :
                 /\ Teaches(ActiveSetup(r), f)
                 /\ Becomes(IF f.continues
                            THEN [Settled(q, f.cat) EXCEPT !.phase = "advancing", !.began = FALSE]
                            ELSE Ended(IF f.cat = "completed" THEN f.cat ELSE "failed"))

\* The start lock again: the next setup, unless the run was stopped meanwhile.
Advance(r) ==
  LET q == run[r]
      began == \E i \in DOMAIN q.round : q.round[i].cat \in
                  {"quota-after-work-began", "credits-required-after-work-began"}
      a == Advanced(r, q, Availability(r))
  IN  /\ lock = None /\ q.phase = "advancing"
      /\ CASE q.stopped -> Place(r, Ended("cancelled"))
           [] ~q.stopped /\ r \in Present /\ began /\ a.phase = "unavailable" ->
                Place(r, Ended("failed"))
           [] OTHER -> Place(r, Moves(r, q, Availability(r)))
      /\ UNCHANGED <<logins, launched>>

(***************************************************************************)
(* The owner's retry                                                       *)
(***************************************************************************)
Eligible(r) ==
  \/ run[r].status = "queued" /\ run[r].wait
  \/ run[r].status = "unavailable" /\ run[r].earlier /\ run[r].quota
\* retryQuota holds the start lock throughout and goes through its runs one by one:
\* the logins of a run forget their waits, and it is queued.
Retry(r) ==
  /\ lock = None /\ Eligible(r)
  /\ health' = [s \in Scopes |-> IF s \in Logins(r) THEN Unknown ELSE health[s]]
  /\ run' = [run EXCEPT ![r].status = "queued", ![r].wait = TRUE]
  /\ UNCHANGED <<worked, lock, launched>>

\* Time passes.
Down(n) == Later(n - 1, 0)
Tick ==
  /\ health' = [s \in Scopes |-> [health[s] EXCEPT !.reset = Down(@), !.retry = Down(@)]]
  /\ health' # health /\ UNCHANGED <<worked, run, lock, launched>>

Work(r) == \/ StartJob(r) \/ Launch(r) \/ LaunchMissing(r) \/ LaunchFails(r)
           \/ Accept(r) \/ Stop(r) \/ Advance(r)
Next ==
  \/ \E r \in AllRuns : Work(r) \/ Finish(r)
  \/ \E r \in Timed : Retry(r)
  \/ Tick
Spec == Init /\ [][Next]_vars

(***************************************************************************)
(* Properties                                                              *)
(***************************************************************************)
\* Nothing but the owner's retry makes a login free before the reset its
\* provider reported: a run of that login that began earlier and succeeds later
\* does not (recordSetupOutcome).
ResetSurvives ==
  [][\A s \in Scopes : health[s].reset > 0 =>
       \/ Tick \/ \E r \in Timed : Retry(r)
       \/ health'[s].reset >= health[s].reset]_vars

\* Two waiting occurrences never probe the same login at a time: until one of
\* them is accepted, the other waits (setupAvailability), also when the first
\* moves to its next setup.
OneProbe ==
  \A r, o \in AllRuns :
    r # o /\ Running(r) /\ Running(o) /\ run[r].wait /\ run[o].wait =>
      ScopeOf[ActiveSetup(r)] # ScopeOf[ActiveSetup(o)]

\* In one round each setup is tried at most once, no login is tried again after
\* it reached its limit or refused to log in, and nothing is tried after an
\* attempt of which it is not known that it did nothing or stopped at a limit
\* (an unknown end, a denied access, a failure in the middle of work).
RoundsAreSafe ==
  \A r \in AllRuns :
    LET as == run[r].round
    IN  \A i, j \in DOMAIN as :
          i < j =>
            /\ as[i].setup # as[j].setup
            /\ ~Spends(as[i], ScopeOf[as[j].setup])
            /\ as[i].cat \notin {"uncertain", "access-denied", "after-work-began", "cancelled",
                                 "completed", "running"}

\* No login is tried twice, by two occurrences or by one round.
LoginsAreSpared == OneProbe /\ RoundsAreSafe
===============================================================================
