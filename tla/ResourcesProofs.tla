---------------------------- MODULE ResourcesProofs ----------------------------
(***************************************************************************)
(* Theorems about what work uses, as MCResources composes it: the setups   *)
(* of a run and the health of their logins, for any chains of setups and   *)
(* whatever providers report; the registry of plugins, for any packages,   *)
(* processes and requests, wherever a process dies between two files; and  *)
(* the workspace, for any runs and host workers and any number of plugin   *)
(* commands, from what HostProofs says of the host executor.               *)
(*                                                                         *)
(* Setups: SetupsInv says that every attempt of a round but the latest let *)
(* the run go on (PhaseOf), that whoever holds the start lock launches,    *)
(* and that probes are of different logins, which the next setup keeps as  *)
(* it is chosen among the logins that nobody else probes (PlaceKeeps).     *)
(***************************************************************************)
EXTENDS MCResources, SequenceTheorems, FiniteSetTheorems, TLAPS

(***************************************************************************)
(* Setups: the invariant                                                   *)
(***************************************************************************)
\* The categories after which a run goes on to its next setup.
Continuing == Q!Quota \cup {"login-unavailable", "cli-unavailable", "provider-rejected"}
Attempts == [setup : Choices, cat : Continuing \cup {"running"}]
RunRecords ==
  [status : {"queued", "running", "unavailable", "failed", "cancelled", "completed"},
   wait : BOOLEAN, round : Seq(Attempts), skipped : SUBSET Choices, earlier : BOOLEAN,
   quota : BOOLEAN, cands : Seq(Choices), ignore : BOOLEAN, probing : BOOLEAN, began : BOOLEAN,
   phase : {"idle", "launching", "working", "advancing"}, stopped : BOOLEAN]
Healths == [reset : Nat, retry : Nat, fails : Int, manual : BOOLEAN]
Own(r) == {Chain[r][i] : i \in DOMAIN Chain[r]}

\* One pair of attempts of a round, the first before the second.
ThenTried(a, b) ==
  /\ a.setup # b.setup /\ ~Q!Spends(a, ScopeOf[b.setup])
  /\ a.cat \notin {"uncertain", "access-denied", "after-work-began", "cancelled", "completed",
                   "running"}
SafeRound(rs) == \A i, j \in DOMAIN rs : i < j => ThenTried(rs[i], rs[j])

\* What the round of a run holds: its own setups, and nothing that forbids the next.
RoundOf(r, q) ==
  /\ \A i \in DOMAIN q.round : q.round[i].setup \in Own(r)
  /\ \A i \in DOMAIN q.cands : q.cands[i] \in Own(r)
  /\ SafeRound(q.round)
  /\ q.wait => r \in Timed
  /\ q.ignore => r \in Present

\* Every attempt of it has ended so that the run may go on.
AllContinue(q) == \A i \in DOMAIN q.round : q.round[i].cat \in Continuing

\* The round belongs to a running run, whose latest attempt alone may not have ended.
PhaseOf(q) ==
  /\ q.phase = "idle" => q.round = <<>> /\ q.skipped = {} /\ q.status # "running"
  /\ q.phase # "idle" => q.round # <<>> /\ q.status = "running"
  /\ \A i \in DOMAIN q.round : i < Len(q.round) => q.round[i].cat \in Continuing
  /\ q.phase = "advancing" => AllContinue(q)

SetupsInv ==
  /\ run \in [Q!AllRuns -> RunRecords] /\ health \in [Q!Scopes -> Healths]
  /\ \A r \in Q!AllRuns : RoundOf(r, run[r]) /\ PhaseOf(run[r])
  /\ \A r \in Q!AllRuns : startLock = r => run[r].phase = "launching"
  /\ Q!OneProbe

(***************************************************************************)
(* The setup tried next                                                    *)
(***************************************************************************)
\* Every set of numbers that is not empty has a least one.
LEMMA LeastOf ==
  ASSUME NEW S \in SUBSET Nat, S # {}
  PROVE  Q!Min(S) \in S /\ \A y \in S : Q!Min(S) <= y
<1> DEFINE R == StrictSubsetOrdering(Nat)
           T == {1 .. x : x \in S}
<1>1. T \subseteq FiniteSubsetsOf(Nat) BY FS_Interval DEF FiniteSubsetsOf
<1>2. IsWellFoundedOn(R, FiniteSubsetsOf(Nat)) BY FS_StrictSubsetOrderingWellFounded
<1>3. T # {} OBVIOUS
<1> HIDE DEF R, T
<1>4. PICK I \in T : \A J \in T : ~ (<<J, I>> \in R) BY <1>1, <1>2, <1>3, WFMin
<1>5. PICK x \in S : I = 1 .. x BY DEF T
<1>6. ASSUME NEW y \in S, y < x PROVE FALSE
  <2>1. 1 .. y \in T BY DEF T
  <2>2. x \in 1 .. x /\ x \notin 1 .. y BY <1>6
  <2>3. <<1 .. y, I>> \in R BY <1>5, <1>6, <2>2 DEF R, StrictSubsetOrdering
  <2>4. QED BY <1>4, <2>1, <2>3
<1>7. \A y \in S : x <= y BY <1>6
<1>8. QED BY <1>7 DEF Q!Min

LEMMA RunOf ==
  ASSUME NEW r \in Q!AllRuns
  PROVE  /\ r # None
         /\ Chain[r] \in Seq(Own(r)) /\ Own(r) \subseteq Choices
         /\ Len(Chain[r]) \in Nat \ {0} /\ DOMAIN Chain[r] = 1 .. Len(Chain[r])
         /\ Group[r] \in 1 .. Len(Chain[r])
         /\ \A p \in Own(r) : ScopeOf[p] \in Q!Scopes /\ p # None
<1>1. r \in Timed \cup Present BY DEF Q!AllRuns
<1>2. Chain[r] \in Seq(Choices) /\ Chain[r] # <<>> /\ r # None /\ Group[r] \in 1 .. Len(Chain[r])
  BY <1>1, SetupsAssumption
<1>3. DOMAIN Chain[r] = 1 .. Len(Chain[r]) /\ Len(Chain[r]) \in Nat \ {0}
  BY <1>2
<1>4. Own(r) \subseteq Choices BY <1>2, <1>3 DEF Own
<1>5. Chain[r] \in Seq(Own(r)) BY <1>2, <1>3 DEF Own
<1>6. \A p \in Own(r) : ScopeOf[p] \in Q!Scopes
  BY DEF Own, Q!Scopes, Q!Logins, Q!Range
<1>7. QED BY <1>2, <1>3, <1>4, <1>5, <1>6, SetupsAssumption

\* The setup that is tried next is one of the candidates, new to the round, and its
\* login is neither exhausted in it nor blocked.
LEMMA NextIsOpen ==
  ASSUME NEW q, q.cands \in Seq(Choices), NEW hh
  PROVE  /\ Q!NextSetup(q, hh).skipped \subseteq Choices
         /\ Q!NextSetup(q, hh).setup # None =>
              \E i \in DOMAIN q.cands :
                /\ Q!NextSetup(q, hh).setup = q.cands[i]
                /\ ~Q!Has(q, q.cands[i]) /\ ~Q!Spent(q, ScopeOf[q.cands[i]])
                /\ ~Q!Blocked(hh[ScopeOf[q.cands[i]]])
<1> DEFINE scope(i) == ScopeOf[q.cands[i]]
           untried == {i \in DOMAIN q.cands : ~Q!Has(q, q.cands[i])}
           open == {i \in untried : ~Q!Spent(q, scope(i)) /\ ~Q!Blocked(hh[scope(i)])}
           passed == {j \in untried : open = {} \/ j < Q!Min(open)}
<1>1. Q!NextSetup(q, hh) = [setup |-> IF open = {} THEN None ELSE q.cands[Q!Min(open)],
                            skipped |-> {q.cands[i] : i \in passed}]
  BY DEF Q!NextSetup
<1>2. DOMAIN q.cands \subseteq Nat /\ \A i \in DOMAIN q.cands : q.cands[i] \in Choices OBVIOUS
<1>3. open # {} => Q!Min(open) \in open BY <1>2, LeastOf
<1>4. {q.cands[i] : i \in passed} \subseteq Choices BY <1>2
<1> HIDE DEF open, passed
<1>5. Q!NextSetup(q, hh).setup # None => open # {} BY <1>1
<1>6. open # {} => Q!NextSetup(q, hh).setup = q.cands[Q!Min(open)] BY <1>1
<1>7. Q!NextSetup(q, hh).skipped \subseteq Choices BY <1>1, <1>4
<1>8. QED BY <1>3, <1>5, <1>6, <1>7 DEF open

\* The candidates of an occurrence are its own setups.
LEMMA CandidatesAreOwn ==
  ASSUME NEW r \in Q!AllRuns
  PROVE  Q!SetupCandidates(r) \in Seq(Own(r))
<1> DEFINE login(i) == ScopeOf[Chain[r][i]]
           rank(i) == CHOOSE k \in DOMAIN worked : worked[k] = login(i)
           good == {i \in 1..Group[r] : ~Q!Blocked(health[login(i)]) 
                                    /\ login(i) \in Q!Range(worked)}
           latest == {i \in good : \A j \in good : rank(i) <= rank(j)}
           best == IF latest = {} THEN 1 ELSE Q!Min(latest)
<1>1. Q!SetupCandidates(r) =
        SubSeq(Chain[r], best, Group[r]) \o SubSeq(Chain[r], 1, best - 1)
          \o SubSeq(Chain[r], Group[r] + 1, Len(Chain[r]))
  BY DEF Q!SetupCandidates
<1>2. Group[r] \in 1 .. Len(Chain[r]) /\ Len(Chain[r]) \in Nat BY RunOf
<1>3. latest \subseteq 1 .. Group[r] OBVIOUS
<1> HIDE DEF latest
<1>4. latest # {} => Q!Min(latest) \in latest BY <1>2, <1>3, LeastOf
<1>5. best \in 1 .. Group[r]
  <2>1. CASE latest = {} BY <1>2, <2>1
  <2>2. CASE latest # {}
    <3>1. best = Q!Min(latest) BY <2>2
    <3>2. QED BY <1>3, <1>4, <2>2, <3>1
  <2>3. QED BY <2>1, <2>2
<1> HIDE DEF best
<1>6. \A i \in 1 .. Len(Chain[r]) : Chain[r][i] \in Own(r) BY RunOf
<1>7. SubSeq(Chain[r], best, Group[r]) \in Seq(Own(r))
  BY <1>2, <1>5, <1>6, SubSeqProperties
<1>8. SubSeq(Chain[r], 1, best - 1) \in Seq(Own(r))
  BY <1>2, <1>5, <1>6, SubSeqProperties
<1>9. SubSeq(Chain[r], Group[r] + 1, Len(Chain[r])) \in Seq(Own(r))
  BY <1>2, <1>5, <1>6, SubSeqProperties
<1>10. QED BY <1>1, <1>7, <1>8, <1>9, ConcatProperties

(***************************************************************************)
(* What an attempt's output proves                                         *)
(***************************************************************************)
Rejected == {Q!NoRejection} \cup Rejections
Outputs == [began : BOOLEAN,
            rej : [cat : Categories \cup {None},
                   reset : Nat \cup {None}],
            terminal : {"none", "completed", "failed"}]
OutputLines == [kind : {"metadata", "work", "limit", "error", "summary", "success", "flagged",
                        "aborted", "capped"},
                rej : Rejected, began : BOOLEAN]
Results == [cat : Continuing \cup {"uncertain", "access-denied", "after-work-began", "completed"},
            reset : Nat \cup {None}, continues : BOOLEAN]

LEMMA ObserveTyped ==
  ASSUME NEW o \in Outputs, NEW e \in OutputLines
  PROVE  Q!Observe(o, e) \in Outputs
<1>1. /\ e.rej.cat \in Categories \cup {None}
      /\ e.rej.reset \in Nat \cup {None}
      /\ e.rej = [cat |-> e.rej.cat, reset |-> e.rej.reset]
  BY SetupsAssumption DEF OutputLines, Rejected, Q!NoRejection
<1>2. \A v : v \in [cat : Categories \cup {None},
                    reset : Nat \cup {None}] => Q!Reject(o, v) \in Outputs
  BY DEF Q!Reject, Outputs
<1>3. Q!Reject(o, Q!NoRejection) \in Outputs BY <1>2 DEF Q!NoRejection
<1>4. Q!Reject(o, e.rej) \in Outputs BY <1>1, <1>2
<1>5. Q!Reject(o, IF e.rej.cat # "quota" THEN [e.rej EXCEPT !.reset = None]
                  ELSE [cat |-> IF o.rej.cat = "credits-required" THEN o.rej.cat ELSE "quota",
                        reset |-> o.rej.reset]) \in Outputs
  BY <1>1, <1>2 DEF Outputs
<1>6. \A p \in Outputs, b \in BOOLEAN :
        /\ [p EXCEPT !.began = b] \in Outputs /\ [p EXCEPT !.terminal = "completed"] \in Outputs
        /\ [p EXCEPT !.terminal = "failed"] \in Outputs
        /\ (p.began \/ b) \in BOOLEAN
  BY DEF Outputs
<1>7. e.began \in BOOLEAN /\ e.kind \in {"metadata", "work", "limit", "error", "summary", "success",
                                        "flagged", "aborted", "capped"}
  BY DEF OutputLines
<1> HIDE DEF Outputs
<1>8. [Q!Reject(o, e.rej) EXCEPT !.began = @ \/ e.began] \in Outputs BY <1>4, <1>6, <1>7
<1>9. QED BY <1>3, <1>4, <1>5, <1>6, <1>7, <1>8 DEF Q!Observe

\* An outcome after which the run goes on is one of those that allow it.
LEMMA OutcomeTyped ==
  ASSUME NEW b \in BOOLEAN, NEW f \in Q!Outcomes[b]
  PROVE  /\ f.cat \in Continuing \cup {"uncertain", "access-denied", "after-work-began",
                                       "completed"}
         /\ f.reset \in Nat \cup {None}
         /\ f.continues => f.cat \in Continuing
<1> DEFINE start == [Q!Silent EXCEPT !.began = b]
<1>1. PICK ls \in Q!Lines, exit \in {"zero", "nonzero", "interrupted"} :
        f = Q!Outcome(Q!Observed(start, ls), exit)
  BY DEF Q!Outcomes
<1>2. start \in Outputs BY DEF Q!Silent, Q!NoRejection, Outputs
<1>3. ls[1] \in OutputLines /\ ls[2] \in OutputLines
  <2> DEFINE E(k, v, w) == [kind |-> k, rej |-> v, began |-> w]
             last == {E(k, Q!NoRejection, FALSE) :
                        k \in {"metadata", "success", "flagged", "aborted", "capped"}}
             quiet == E("metadata", Q!NoRejection, FALSE)
  <2>1. \A k \in {"metadata", "work", "limit", "error", "summary", "success", "flagged", "aborted",
                  "capped"}, v \in Rejected, w \in BOOLEAN : E(k, v, w) \in OutputLines
    BY DEF OutputLines
  <2>2. Rejections \subseteq Rejected /\ Q!NoRejection \in Rejected BY DEF Rejected
  <2>3. last \subseteq OutputLines /\ quiet \in OutputLines
        /\ E("work", Q!NoRejection, FALSE) \in OutputLines
    BY <2>1, <2>2
  <2>4. \A v \in Rejections \cup {Q!NoRejection}, w \in BOOLEAN :
          /\ E("limit", v, FALSE) \in OutputLines /\ E("error", v, FALSE) \in OutputLines
          /\ E("summary", v, w) \in OutputLines
    BY <2>1, <2>2
  <2>5. Q!Lines = {<<E(k, v, FALSE), l>> : k \in {"limit", "error"}, v \in Rejections, l \in last}
                  \cup {<<E("limit", v, FALSE), E("work", Q!NoRejection, FALSE)>>  :
                          v \in Rejections}
                  \cup {<<quiet, E("summary", v, w)>> :
                          v \in Rejections \cup {Q!NoRejection}, w \in BOOLEAN}
                  \cup {<<quiet, l>> : l \in last}
    BY DEF Q!Lines
  <2> HIDE DEF E, last, quiet
  <2>6. \E x, y \in OutputLines : ls = <<x, y>>
    <3>1. CASE \E k \in {"limit", "error"}, v \in Rejections, l \in last :
                 ls = <<E(k, v, FALSE), l>>
      BY <2>3, <2>4, <3>1
    <3>2. CASE \E v \in Rejections : ls = <<E("limit", v, FALSE), E("work", Q!NoRejection, FALSE)>>
      BY <2>3, <2>4, <3>2
    <3>3. CASE \E v \in Rejections \cup {Q!NoRejection}, w \in BOOLEAN :
                 ls = <<quiet, E("summary", v, w)>>
      BY <2>3, <2>4, <3>3
    <3>4. CASE \E l \in last : ls = <<quiet, l>>
      BY <2>3, <3>4
    <3>5. QED BY <1>1, <2>5, <3>1, <3>2, <3>3, <3>4 DEF E
  <2>7. QED BY <2>6
<1>4. Q!Observed(start, ls) \in Outputs BY <1>2, <1>3, ObserveTyped DEF Q!Observed
<1> DEFINE o == Q!Observed(start, ls)
           a == Q!AttemptFailure(o)
<1>5. /\ o.rej.cat \in Categories \cup {None}
      /\ o.rej.reset \in Nat \cup {None}
  BY <1>4 DEF Outputs
<1>6. /\ a.cat \in Continuing \cup {"uncertain", "access-denied", "after-work-began"}
      /\ a.reset \in Nat \cup {None} /\ a.continues \in BOOLEAN
      /\ a.continues => a.cat \in Continuing
      /\ a = [cat |-> a.cat, reset |-> a.reset, continues |-> a.continues]
  <2>1. PICK v, t, b1 : o.rej.cat = v /\ o.rej.reset = t /\ o.began = b1 OBVIOUS
  <2> HIDE DEF o
  <2>2. CASE ~b1 /\ v = None
    BY <2>1, <2>2 DEF Q!AttemptFailure
  <2>3. CASE ~b1 /\ v # None
    <3>1. a = [cat |-> v, reset |-> t, continues |-> ~Q!Denied(o)]
      BY <2>1, <2>3 DEF Q!AttemptFailure
    <3>2. v \in Categories /\ t \in Nat \cup {None} BY <1>5, <2>1, <2>3
    <3>3. CASE v = "access-denied"
      <4>1. a = [cat |-> v, reset |-> t, continues |-> FALSE]
        BY <2>1, <3>1, <3>3 DEF Q!Denied
      <4>2. QED BY <3>2, <3>3, <4>1
    <3>4. CASE v # "access-denied"
      <4>1. a = [cat |-> v, reset |-> t, continues |-> TRUE]
        BY <2>1, <3>1, <3>4 DEF Q!Denied
      <4>2. v \in Continuing BY <3>2, <3>4 DEF Categories, Continuing, Q!Quota
      <4>3. QED BY <3>2, <4>1, <4>2
    <3>5. QED BY <3>3, <3>4
  <2>4. CASE b1 /\ v \in {"quota", "credits-required"}
    <3>1. a = [cat |-> IF v = "quota" THEN "quota-after-work-began"
                       ELSE "credits-required-after-work-began", reset |-> t, continues |-> TRUE]
      BY <2>1, <2>4 DEF Q!AttemptFailure
    <3>2. a.cat \in Continuing BY <3>1 DEF Continuing, Q!Quota
    <3>3. QED BY <1>5, <2>1, <3>1, <3>2
  <2>5. CASE b1 /\ v \notin {"quota", "credits-required"}
    BY <2>1, <2>5 DEF Q!AttemptFailure
  <2>6. QED BY <2>2, <2>3, <2>4, <2>5
<1> HIDE DEF o, a
<1>7. \/ f = [a EXCEPT !.continues = a.continues /\ exit # "interrupted"]
      \/ f = [cat |-> "completed", reset |-> None, continues |-> FALSE]
  BY <1>1 DEF Q!Outcome, a, o
<1>8. QED BY <1>6, <1>7

(***************************************************************************)
(* Steps                                                                   *)
(***************************************************************************)
\* A setup that is open may follow a round in which every attempt lets the run go on.
LEMMA RoundGrows ==
  ASSUME NEW q, q.round \in Seq(Attempts), SafeRound(q.round), AllContinue(q),
         NEW p \in Choices, ~Q!Has(q, p), ~Q!Spent(q, ScopeOf[p]),
         NEW rs, rs = Append(q.round, [setup |-> p, cat |-> "running"])
  PROVE  /\ rs \in Seq(Attempts) /\ SafeRound(rs) /\ rs # <<>>
         /\ \A i \in DOMAIN rs : i < Len(rs) => rs[i] = q.round[i] /\ i \in DOMAIN q.round
         /\ rs[Len(rs)] = [setup |-> p, cat |-> "running"]
         /\ Len(rs) \in DOMAIN rs
         /\ \A i \in DOMAIN rs : i < Len(rs) \/ i = Len(rs)
<1> DEFINE n == [setup |-> p, cat |-> "running"]
<1>1. n \in Attempts BY DEF Attempts
<1>2. /\ rs \in Seq(Attempts) /\ Len(rs) = Len(q.round) + 1 /\ rs # <<>>
      /\ DOMAIN rs = 1 .. (Len(q.round) + 1) /\ DOMAIN q.round = 1 .. Len(q.round)
      /\ Len(q.round) \in Nat
      /\ \A i \in 1 .. Len(q.round) : rs[i] = q.round[i]
      /\ rs[Len(q.round) + 1] = n
  BY <1>1
<1>3. \A i \in DOMAIN q.round : ThenTried(q.round[i], n)
  BY DEF ThenTried, Q!Has, Q!Spent, AllContinue, Continuing, Q!Quota, Q!Spends
<1> HIDE DEF n
<1>4. SafeRound(rs)
  <2> SUFFICES ASSUME NEW i \in DOMAIN rs, NEW j \in DOMAIN rs, i < j
               PROVE  ThenTried(rs[i], rs[j])
    BY DEF SafeRound
  <2>1. i \in 1 .. Len(q.round) BY <1>2
  <2>2. CASE j = Len(q.round) + 1 BY <1>2, <1>3, <2>1, <2>2
  <2>3. CASE j \in 1 .. Len(q.round) BY <1>2, <2>1, <2>3 DEF SafeRound
  <2>4. QED BY <1>2, <2>2, <2>3
<1>5. \A i \in DOMAIN rs : i < Len(rs) => rs[i] = q.round[i] /\ i \in DOMAIN q.round
  BY <1>2
<1>6. \A i \in DOMAIN rs : i < Len(rs) \/ i = Len(rs) BY <1>2
<1>7. QED BY <1>2, <1>4, <1>5, <1>6 DEF n

\* What advance does to a running run whose attempts all let it go on: it launches its
\* next setup, or the run rests.
LEMMA AdvanceLeads ==
  ASSUME NEW r \in Q!AllRuns, NEW q, NEW hh,
         q \in RunRecords, RoundOf(r, q), AllContinue(q), q.status = "running",
         NEW m, m = Q!Moves(r, q, hh)
  PROVE  /\ m \in RunRecords /\ RoundOf(r, m) /\ PhaseOf(m)
         /\ m.phase \in {"idle", "launching"}
         /\ m.status = "running" /\ m.wait =>
              /\ Q!Last(m.round).setup \in Own(r)
              /\ ~Q!Blocked(hh[ScopeOf[Q!Last(m.round).setup]])
<1> DEFINE a == Q!Advanced(r, q, hh)
           clear == [s \in Q!Scopes |-> Q!Unknown]
           refused == /\ r \in Present /\ q.round = <<>> /\ q.skipped = {}
                      /\ Q!NextSetup(q, hh).setup = None
           ignore == q.ignore \/ refused
           hi == IF ignore THEN clear ELSE hh
           next == Q!NextSetup(q, hi)
<1>a. Q!Advanced(r, q, hh) = a OBVIOUS
<1>1. a = [q EXCEPT !.ignore = ignore, !.skipped = @ \cup next.skipped,
                    !.phase = IF next.setup = None THEN "unavailable" ELSE "launching",
                    !.round = IF next.setup = None THEN @
                              ELSE Append(@, [setup |-> next.setup, cat |-> "running"])]
  BY DEF Q!Advanced
<1>2. q.cands \in Seq(Choices) /\ q.round \in Seq(Attempts) BY DEF RunRecords
<1>3. /\ next.skipped \subseteq Choices
      /\ next.setup # None =>
           \E i \in DOMAIN q.cands :
             /\ next.setup = q.cands[i] /\ ~Q!Has(q, q.cands[i])
             /\ ~Q!Spent(q, ScopeOf[q.cands[i]]) /\ ~Q!Blocked(hi[ScopeOf[q.cands[i]]])
  BY <1>2, NextIsOpen
<1>4. ignore \in BOOLEAN /\ (ignore => r \in Present) BY DEF RoundOf, RunRecords
<1>5. ignore => ~q.wait BY <1>4, SetupsAssumption DEF RoundOf
<1> HIDE DEF next, ignore, hi, a
<1>6. CASE next.setup = None
  <2>0. a.phase = "unavailable" BY <1>1, <1>6 DEF RunRecords
  <2>1. m = Q!Unavailable(r, a, hh) BY <1>a, <2>0 DEF Q!Moves
  <2>2. /\ a.earlier \in BOOLEAN /\ a.quota \in BOOLEAN
    BY <1>1 DEF RunRecords
  <2>3. \/ r \in Timed /\ m = Q!Rested(a, "queued", TRUE)
        \/ m = Q!Rested(a, "unavailable", FALSE)
    BY <2>1 DEF Q!Unavailable
  <2>4. m \in RunRecords /\ m.round = <<>> /\ m.skipped = {} /\ m.cands = <<>>
        /\ m.phase = "idle" /\ m.status # "running" /\ ~m.ignore /\ (m.wait => r \in Timed)
    <3>1. (a.earlier \/ a.round # <<>> \/ a.skipped # {}) \in BOOLEAN
          /\ (a.quota /\ \A i \in DOMAIN a.round : a.round[i].cat \in Q!Quota) \in BOOLEAN
      BY <2>2
    <3>2. <<>> \in Seq(Attempts) /\ <<>> \in Seq(Choices) /\ {} \in SUBSET Choices OBVIOUS
    <3>3. CASE r \in Timed /\ m = Q!Rested(a, "queued", TRUE)
      BY <3>1, <3>2, <3>3 DEF Q!Rested, Q!Fresh, RunRecords
    <3>4. CASE m = Q!Rested(a, "unavailable", FALSE)
      BY <3>1, <3>2, <3>4 DEF Q!Rested, Q!Fresh, RunRecords
    <3>5. QED BY <2>3, <3>3, <3>4
  <2>5. QED BY <2>4 DEF RoundOf, PhaseOf, SafeRound, AllContinue
<1>7. CASE next.setup # None
  <2>1. PICK i \in DOMAIN q.cands :
          /\ next.setup = q.cands[i] /\ ~Q!Has(q, q.cands[i])
          /\ ~Q!Spent(q, ScopeOf[q.cands[i]]) /\ ~Q!Blocked(hi[ScopeOf[q.cands[i]]])
    BY <1>3, <1>7
  <2>2. next.setup \in Choices /\ next.setup \in Own(r) BY <1>2, <2>1 DEF RoundOf
  <2> DEFINE rs == Append(q.round, [setup |-> next.setup, cat |-> "running"])
  <2>3. /\ rs \in Seq(Attempts) /\ SafeRound(rs) /\ rs # <<>>
        /\ \A k \in DOMAIN rs : k < Len(rs) => rs[k] = q.round[k] /\ k \in DOMAIN q.round
        /\ rs[Len(rs)] = [setup |-> next.setup, cat |-> "running"]
        /\ Len(rs) \in DOMAIN rs
        /\ \A k \in DOMAIN rs : k < Len(rs) \/ k = Len(rs)
    <3>1. SafeRound(q.round) BY DEF RoundOf
    <3>2. ~Q!Has(q, next.setup) /\ ~Q!Spent(q, ScopeOf[next.setup]) BY <2>1
    <3>3. QED BY <1>2, <2>2, <3>1, <3>2, RoundGrows
  <2> HIDE DEF rs
  <2>0. a.phase = "launching" BY <1>1, <1>7 DEF RunRecords
  <2>4. m = [a EXCEPT !.began = FALSE] BY <1>a, <2>0 DEF Q!Moves
  <2>5. m = [q EXCEPT !.ignore = ignore, !.skipped = q.skipped \cup next.skipped,
                      !.phase = "launching", !.round = rs, !.began = FALSE]
    BY <1>1, <1>7, <2>4 DEF rs, RunRecords
  <2>6. /\ m \in RunRecords /\ m.round = rs /\ m.phase = "launching" /\ m.status = "running"
        /\ m.cands = q.cands /\ m.wait = q.wait /\ m.ignore = ignore
    <3>1. /\ m.round = rs /\ m.phase = "launching" /\ m.status = "running"
          /\ m.cands = q.cands /\ m.wait = q.wait /\ m.ignore = ignore
      BY <2>5 DEF RunRecords
    <3>2. q.skipped \cup next.skipped \in SUBSET Choices BY <1>3 DEF RunRecords
    <3>3. rs \in Seq(Attempts) BY <2>3
    <3>4. m \in RunRecords BY <1>4, <2>5, <3>2, <3>3 DEF RunRecords
    <3>5. QED BY <3>1, <3>4
  <2>7. \A k \in DOMAIN rs : rs[k].setup \in Own(r)
    <3>1. \A k \in DOMAIN q.round : q.round[k].setup \in Own(r) BY DEF RoundOf
    <3>3. rs[Len(rs)].setup \in Own(r) BY <2>2, <2>3
    <3>4. QED BY <2>3, <3>1, <3>3
  <2>8. RoundOf(r, m) BY <1>4, <2>3, <2>6, <2>7 DEF RoundOf
  <2>9. PhaseOf(m)
    <3>1. \A k \in DOMAIN rs : k < Len(rs) => rs[k].cat \in Continuing BY <2>3 DEF AllContinue
    <3>2. QED BY <2>3, <2>6, <3>1 DEF PhaseOf
  <2>10. Q!Last(m.round).setup = next.setup
    <3>1. Q!Last(m.round) = rs[Len(rs)] BY <2>6 DEF Q!Last
    <3>2. QED BY <2>3, <3>1
  <2>11. m.wait => ~Q!Blocked(hh[ScopeOf[next.setup]])
    BY <1>5, <2>1, <2>6 DEF hi
  <2>12. QED BY <2>2, <2>6, <2>8, <2>9, <2>10, <2>11
<1>8. QED BY <1>6, <1>7

\* Whoever is placed keeps what is so of every run, if the login of its setup was free.
LEMMA PlaceKeeps ==
  ASSUME SetupsInv, NEW r \in Q!AllRuns, startLock \in {None, r}, UNCHANGED health,
         NEW m \in RunRecords, RoundOf(r, m), PhaseOf(m), Q!Place(r, m),
         m.phase \in {"idle", "launching"},
         m.status = "running" /\ m.wait =>
           /\ Q!Last(m.round).setup \in Own(r)
           /\ ~Q!Blocked(Q!Availability(r)[ScopeOf[Q!Last(m.round).setup]])
  PROVE  SetupsInv'
<1>1. /\ run' = [run EXCEPT ![r] = m] /\ startLock' = IF m.phase = "launching" THEN r ELSE None
      /\ run \in [Q!AllRuns -> RunRecords]
  BY DEF Q!Place, SetupsInv
<1>2. run' \in [Q!AllRuns -> RunRecords] /\ run'[r] = m
      /\ \A o \in Q!AllRuns \ {r} : run'[o] = run[o]
  BY <1>1
<1>3. \A o \in Q!AllRuns : RoundOf(o, run'[o]) /\ PhaseOf(run'[o])
  BY <1>2 DEF SetupsInv
<1>4. \A o \in Q!AllRuns : startLock' = o => run'[o].phase = "launching"
  BY <1>1, <1>2, RunOf
<1>5. Q!OneProbe'
  <2>1. \A o \in Q!AllRuns \ {r} : Q!ActiveSetup(o)' = Q!ActiveSetup(o)
    BY <1>2 DEF Q!ActiveSetup
  <2>2. \A o \in Q!AllRuns \ {r} : Q!Running(o)' = Q!Running(o)
    BY <1>2 DEF Q!Running
  <2>3. ASSUME NEW o \in Q!AllRuns \ {r}, m.status = "running", m.wait, Q!Running(o), run[o].wait
        PROVE  ScopeOf[Q!ActiveSetup(r)'] # ScopeOf[Q!ActiveSetup(o)]
    <3> DEFINE s == ScopeOf[Q!Last(m.round).setup]
    <3>1. m.round # <<>> BY <2>3 DEF PhaseOf
    <3>2. Q!ActiveSetup(r)' = Q!Last(m.round).setup BY <1>2, <3>1 DEF Q!ActiveSetup
    <3>3. s \in Q!Scopes /\ ~Q!Blocked(Q!Availability(r)[s]) BY <2>3, RunOf
    <3> HIDE DEF s
    <3>4. ASSUME ScopeOf[Q!ActiveSetup(o)] = s PROVE FALSE
      <4>1. Q!Availability(r)[s] = [health[s] EXCEPT !.manual = TRUE]
        BY <2>3, <3>3, <3>4 DEF Q!Availability, Q!Running
      <4>2. health[s] \in Healths BY <3>3 DEF SetupsInv
      <4>3. Q!Blocked(Q!Availability(r)[s]) BY <4>1, <4>2 DEF Q!Blocked, Healths
      <4>4. QED BY <3>3, <4>3
    <3>5. QED BY <3>2, <3>4 DEF s
  <2>4. SUFFICES ASSUME NEW o \in Q!AllRuns, NEW x \in Q!AllRuns, o # x,
                        Q!Running(o)', Q!Running(x)', run'[o].wait, run'[x].wait
                 PROVE  ScopeOf[Q!ActiveSetup(o)'] # ScopeOf[Q!ActiveSetup(x)']
    BY DEF Q!OneProbe
  <2>5. CASE o # r /\ x # r
    BY <1>2, <2>1, <2>2, <2>4, <2>5 DEF SetupsInv, Q!OneProbe
  <2>6. CASE o = r BY <1>2, <2>1, <2>2, <2>3, <2>4, <2>6 DEF Q!Running
  <2>7. CASE x = r BY <1>2, <2>1, <2>2, <2>3, <2>4, <2>7 DEF Q!Running
  <2>8. QED BY <2>5, <2>6, <2>7
<1>6. QED BY <1>2, <1>3, <1>4, <1>5 DEF SetupsInv

\* A run that is over, or not begun, has no round.
LEMMA EndedOf ==
  ASSUME NEW r \in Q!AllRuns,
         NEW s \in {"queued", "unavailable", "failed", "cancelled", "completed"}
  PROVE  /\ Q!Ended(s) \in RunRecords /\ RoundOf(r, Q!Ended(s)) /\ PhaseOf(Q!Ended(s))
         /\ Q!Ended(s).phase = "idle" /\ Q!Ended(s).status # "running"
<1>1. <<>> \in Seq(Attempts) /\ <<>> \in Seq(Choices) OBVIOUS
<1>2. Q!Ended(s) \in RunRecords /\ Q!Ended(s).round = <<>> /\ Q!Ended(s).skipped = {}
      /\ Q!Ended(s).cands = <<>> /\ Q!Ended(s).phase = "idle" /\ Q!Ended(s).status = s
      /\ ~Q!Ended(s).wait /\ ~Q!Ended(s).ignore
  BY <1>1 DEF Q!Ended, Q!Fresh, RunRecords
<1>3. QED BY <1>2 DEF RoundOf, PhaseOf, SafeRound, AllContinue

\* The latest attempt gets the category that lets the run go on.
LEMMA SettledOf ==
  ASSUME NEW r \in Q!AllRuns, NEW q \in RunRecords, RoundOf(r, q), PhaseOf(q), q.phase # "idle",
         NEW cat \in Continuing, NEW m, m = Q!Settled(q, cat)
  PROVE  /\ m \in RunRecords /\ RoundOf(r, m) /\ AllContinue(m) /\ m.status = "running"
         /\ m = [q EXCEPT !.round = m.round]
         /\ m.round # <<>> /\ Q!Last(m.round).setup = Q!Last(q.round).setup
<1> DEFINE rs == [q.round EXCEPT ![Len(q.round)].cat = cat]
<1>1. q.round \in Seq(Attempts) /\ q.round # <<>> /\ q.status = "running"
  BY DEF RunRecords, PhaseOf
<1>2. Len(q.round) \in DOMAIN q.round /\ DOMAIN q.round = 1 .. Len(q.round) /\ Len(q.round) \in Nat
  BY <1>1
<1>3. q.round[Len(q.round)] \in Attempts BY <1>1, <1>2
<1>4. [q.round[Len(q.round)] EXCEPT !.cat = cat] \in Attempts BY <1>3 DEF Attempts
<1>5. rs \in Seq(Attempts) /\ Len(rs) = Len(q.round) /\ DOMAIN rs = DOMAIN q.round
  BY <1>1, <1>2, <1>4
<1>6. /\ \A i \in DOMAIN rs : i < Len(q.round) => rs[i] = q.round[i]
      /\ rs[Len(q.round)].cat = cat
      /\ \A i \in DOMAIN rs : rs[i].setup = q.round[i].setup
  BY <1>1, <1>2, <1>3 DEF Attempts
<1>7. m = [q EXCEPT !.round = rs] BY DEF Q!Settled, RunRecords
<1> HIDE DEF rs
<1>8. m \in RunRecords /\ m.round = rs /\ m.status = q.status /\ m.cands = q.cands
      /\ m.wait = q.wait /\ m.ignore = q.ignore
  BY <1>5, <1>7 DEF RunRecords
<1>9. SafeRound(rs)
  <2> SUFFICES ASSUME NEW i \in DOMAIN rs, NEW j \in DOMAIN rs, i < j
               PROVE  ThenTried(rs[i], rs[j])
    BY DEF SafeRound
  <2>1. i < Len(q.round) BY <1>2, <1>5
  <2>2. rs[i] = q.round[i] /\ rs[j].setup = q.round[j].setup BY <1>6, <2>1
  <2>3. ThenTried(q.round[i], q.round[j]) BY <1>5 DEF RoundOf, SafeRound
  <2>4. QED BY <2>2, <2>3 DEF ThenTried
<1>10. AllContinue(m)
  <2>1. \A i \in DOMAIN rs : i < Len(q.round) \/ i = Len(q.round) BY <1>2, <1>5
  <2>2. \A i \in DOMAIN rs : i < Len(q.round) => rs[i].cat \in Continuing
    BY <1>5, <1>6 DEF PhaseOf
  <2>3. QED BY <1>6, <1>8, <2>1, <2>2 DEF AllContinue
<1>11. RoundOf(r, m) BY <1>5, <1>6, <1>8, <1>9 DEF RoundOf
<1>12. rs # <<>> BY <1>2, <1>5
<1>13. Q!Last(rs).setup = Q!Last(q.round).setup BY <1>2, <1>5, <1>6 DEF Q!Last
<1>14. QED BY <1>1, <1>7, <1>8, <1>10, <1>11, <1>12, <1>13

\* Whoever probes after such a step did so before it, with the same setup.
LEMMA ProbesKeep ==
  ASSUME Q!OneProbe,
         \A o \in Q!AllRuns : run'[o].status = "running" /\ run'[o].wait =>
           run[o].status = "running" /\ run[o].wait /\ Q!ActiveSetup(o)' = Q!ActiveSetup(o)
  PROVE  Q!OneProbe'
BY DEF Q!OneProbe, Q!Running

LEMMA HealthTyped ==
  ASSUME NEW h \in Healths, NEW f, f.reset \in Nat \cup {None}
  PROVE  /\ Q!Unknown \in Healths /\ Q!Succeeded(h) \in Healths /\ Q!Exhausted(h, f) \in Healths
         /\ h.reset > 0 => Q!Succeeded(h).reset >= h.reset
         /\ Q!Exhausted(h, f).reset >= h.reset
<1>1. h.reset \in Nat /\ h.retry \in Nat /\ h.fails \in Int /\ h.manual \in BOOLEAN BY DEF Healths
<1>2. Q!Unknown \in Healths /\ Q!Succeeded(h) \in Healths BY DEF Q!Unknown, Q!Succeeded, Healths
<1>3. h.reset > 0 => Q!Succeeded(h).reset >= h.reset BY <1>1 DEF Q!Succeeded, Q!Blocked
<1> DEFINE fails == IF f.reset = 0 /\ h.fails = -1 THEN 0
                    ELSE IF h.fails < MaxFailures THEN Q!Later(h.fails, 0) + 1 ELSE MaxFailures
<1>4. fails \in Nat BY <1>1, SetupsAssumption DEF Q!Later
<1>5. Q!Exhausted(h, f) \in {[h EXCEPT !.manual = TRUE],
                             [h EXCEPT !.reset = Q!Later(h.reset, f.reset)], h,
                             [h EXCEPT !.fails = fails, !.retry = fails + 1]}
  BY <1>1 DEF Q!Exhausted, Healths
<1>6. f.reset \notin {0, None} =>
        Q!Later(h.reset, f.reset) \in Nat /\ Q!Later(h.reset, f.reset) >= h.reset
  BY <1>1 DEF Q!Later
<1> HIDE DEF fails
<1>7. [h EXCEPT !.manual = TRUE] \in Healths /\ [h EXCEPT !.manual = TRUE].reset = h.reset
  BY DEF Healths
<1>8. /\ [h EXCEPT !.fails = fails, !.retry = fails + 1] \in Healths
      /\ [h EXCEPT !.fails = fails, !.retry = fails + 1].reset = h.reset
  <2>1. \A n \in Nat : n + 1 \in Nat /\ n \in Int OBVIOUS
  <2>2. \A n \in Int, k \in Nat : /\ [h EXCEPT !.fails = n, !.retry = k] \in Healths
                               /\ [h EXCEPT !.fails = n, !.retry = k].reset = h.reset
    BY DEF Healths
  <2>3. QED BY <1>4, <2>1, <2>2
<1>9. ASSUME f.reset \notin {0, None}
      PROVE  /\ [h EXCEPT !.reset = Q!Later(h.reset, f.reset)] \in Healths
             /\ [h EXCEPT !.reset = Q!Later(h.reset, f.reset)].reset >= h.reset
  BY <1>6, <1>9 DEF Healths
<1>10. Q!Exhausted(h, f) \in Healths /\ Q!Exhausted(h, f).reset >= h.reset
  <2>1. CASE f.reset \notin {0, None}
    <3>1. h.reset >= h.reset BY <1>1
    <3>2. \A x \in {[h EXCEPT !.manual = TRUE], [h EXCEPT !.reset = Q!Later(h.reset, f.reset)],
                    h, [h EXCEPT !.fails = fails, !.retry = fails + 1]} :
            x \in Healths /\ x.reset >= h.reset
      BY <1>7, <1>8, <1>9, <2>1, <3>1
    <3>3. QED BY <1>5, <3>2
  <2>2. CASE f.reset \in {0, None}
    <3>1. Q!Exhausted(h, f) \in {[h EXCEPT !.manual = TRUE], h,
                                 [h EXCEPT !.fails = fails, !.retry = fails + 1]}
      BY <2>2 DEF Q!Exhausted, fails
    <3>2. h.reset >= h.reset BY <1>1
    <3>3. QED BY <1>7, <1>8, <3>1, <3>2
  <2>3. QED BY <2>1, <2>2
<1>11. QED BY <1>2, <1>3, <1>10

\* What an outcome teaches of a login.
LEMMA Taught ==
  ASSUME health \in [Q!Scopes -> Healths], NEW p, ScopeOf[p] \in Q!Scopes,
         NEW f, f.reset \in Nat \cup {None}, Q!Teaches(p, f)
  PROVE  /\ health' \in [Q!Scopes -> Healths]
         /\ \A s \in Q!Scopes : health[s].reset > 0 => health'[s].reset >= health[s].reset
<1> DEFINE s == ScopeOf[p]
<1>1. health' \in {[health EXCEPT ![s] = Q!Succeeded(health[s])],
                   [health EXCEPT ![s] = Q!Exhausted(health[s], f)], health}
  BY DEF Q!Teaches
<1>2. /\ Q!Succeeded(health[s]) \in Healths /\ Q!Exhausted(health[s], f) \in Healths
      /\ health[s].reset > 0 => Q!Succeeded(health[s]).reset >= health[s].reset
      /\ Q!Exhausted(health[s], f).reset >= health[s].reset
  BY HealthTyped
<1>3. \A t \in Q!Scopes : health[t].reset >= health[t].reset BY DEF Healths
<1> HIDE DEF s
<1>4. QED BY <1>1, <1>2, <1>3

LEMMA Starts ==
  ASSUME SetupsInv, NEW r \in Q!AllRuns, Q!StartJob(r) PROVE SetupsInv'
<1> DEFINE waits == r \in Timed /\ Q!QuotaWait(r, Q!Availability(r))
           begun == [run[r] EXCEPT !.status = "running", !.probing = run[r].wait,
                       !.cands = IF r \in Timed THEN Q!SetupCandidates(r) ELSE Chain[r]]
<1>1. /\ startLock = None /\ run[r].status = "queued" /\ UNCHANGED health
      /\ IF waits THEN Q!Place(r, [run[r] EXCEPT !.wait = TRUE])
         ELSE Q!Place(r, Q!Moves(r, begun, Q!Availability(r)))
  BY DEF Q!StartJob, Q!logins
<1>2. run[r] \in RunRecords /\ RoundOf(r, run[r]) /\ PhaseOf(run[r]) BY DEF SetupsInv
<1>3. run[r].round = <<>> /\ run[r].phase = "idle" BY <1>1, <1>2 DEF PhaseOf, RunRecords
<1>4. CASE waits
  <2> DEFINE m == [run[r] EXCEPT !.wait = TRUE]
  <2>1. m \in RunRecords /\ m.phase = "idle" /\ m.status = "queued" /\ m.round = <<>>
        /\ m.skipped = run[r].skipped /\ m.cands = run[r].cands /\ m.wait
        /\ m.ignore = run[r].ignore
    BY <1>1, <1>2, <1>3 DEF RunRecords
  <2>2. RoundOf(r, m) BY <1>2, <1>3, <1>4, <2>1 DEF RoundOf
  <2>3. PhaseOf(m) BY <1>2, <1>3, <2>1 DEF PhaseOf
  <2>4. QED BY <1>1, <1>4, <2>1, <2>2, <2>3, PlaceKeeps
<1>5. CASE ~waits
  <2> DEFINE m == Q!Moves(r, begun, Q!Availability(r))
  <2>1. (IF r \in Timed THEN Q!SetupCandidates(r) ELSE Chain[r]) \in Seq(Own(r))
    BY RunOf, CandidatesAreOwn
  <2>2. /\ begun \in RunRecords /\ begun.round = <<>> /\ begun.status = "running"
        /\ begun.wait = run[r].wait /\ begun.ignore = run[r].ignore
        /\ begun.cands \in Seq(Own(r))
    <3>1. \A q \in Seq(Own(r)) : q \in Seq(Choices) BY RunOf
    <3>2. QED BY <1>2, <1>3, <2>1, <3>1 DEF RunRecords
  <2>3. RoundOf(r, begun) /\ AllContinue(begun)
    BY <1>2, <2>2 DEF RoundOf, SafeRound, AllContinue
  <2> HIDE DEF begun
  <2>4. /\ m \in RunRecords /\ RoundOf(r, m) /\ PhaseOf(m)
        /\ m.phase \in {"idle", "launching"}
        /\ m.status = "running" /\ m.wait =>
             /\ Q!Last(m.round).setup \in Own(r)
             /\ ~Q!Blocked(Q!Availability(r)[ScopeOf[Q!Last(m.round).setup]])
    BY <2>2, <2>3, AdvanceLeads
  <2> HIDE DEF m
  <2>5. Q!Place(r, m) BY <1>1, <1>5 DEF m
  <2>6. QED BY <1>1, <2>4, <2>5, PlaceKeeps
<1>6. QED BY <1>4, <1>5

\* A run whose attempts all let it go on, under the lock.
LEMMA GoesOn ==
  ASSUME SetupsInv, NEW r \in Q!AllRuns, startLock \in {None, r}, UNCHANGED health,
         NEW q \in RunRecords, RoundOf(r, q), AllContinue(q), q.status = "running",
         Q!Place(r, Q!Moves(r, q, Q!Availability(r)))
  PROVE  SetupsInv'
<1> DEFINE m == Q!Moves(r, q, Q!Availability(r))
<1>1. /\ m \in RunRecords /\ RoundOf(r, m) /\ PhaseOf(m)
      /\ m.phase \in {"idle", "launching"}
      /\ m.status = "running" /\ m.wait =>
           /\ Q!Last(m.round).setup \in Own(r)
           /\ ~Q!Blocked(Q!Availability(r)[ScopeOf[Q!Last(m.round).setup]])
  BY AdvanceLeads
<1> HIDE DEF m
<1>2. Q!Place(r, m) BY DEF m
<1>3. QED BY <1>1, <1>2, PlaceKeeps

\* A run that ends under the lock.
LEMMA EndsPlaced ==
  ASSUME SetupsInv, NEW r \in Q!AllRuns, startLock \in {None, r}, UNCHANGED health,
         NEW s \in {"failed", "cancelled"}, Q!Place(r, Q!Ended(s))
  PROVE  SetupsInv'
BY EndedOf, PlaceKeeps

LEMMA Launches ==
  ASSUME SetupsInv, NEW r \in Q!AllRuns,
         Q!LaunchMissing(r) \/ Q!LaunchFails(r) \/ Q!Advance(r)
  PROVE  SetupsInv'
<1>1. run[r] \in RunRecords /\ RoundOf(r, run[r]) /\ PhaseOf(run[r]) BY DEF SetupsInv
<1>2. CASE Q!LaunchMissing(r)
  <2> DEFINE q == Q!Settled(run[r], "cli-unavailable")
  <2>1. startLock = r /\ UNCHANGED health /\ Q!Place(r, Q!Moves(r, q, Q!Availability(r)))
    BY <1>2 DEF Q!LaunchMissing, Q!logins
  <2>2. run[r].phase = "launching" BY <2>1 DEF SetupsInv
  <2>3. q \in RunRecords /\ RoundOf(r, q) /\ AllContinue(q) /\ q.status = "running"
    BY <1>1, <2>2, SettledOf DEF Continuing
  <2> HIDE DEF q
  <2>4. QED BY <2>1, <2>3, GoesOn
<1>3. CASE Q!LaunchFails(r) BY <1>3, EndsPlaced DEF Q!LaunchFails, Q!logins
<1>4. CASE Q!Advance(r)
  <2>1. /\ startLock = None /\ run[r].phase = "advancing" /\ UNCHANGED health
        /\ \/ \E s \in {"failed", "cancelled"} : Q!Place(r, Q!Ended(s))
           \/ Q!Place(r, Q!Moves(r, run[r], Q!Availability(r)))
    BY <1>4 DEF Q!Advance, Q!logins
  <2>2. CASE \E s \in {"failed", "cancelled"} : Q!Place(r, Q!Ended(s)) BY <2>1, <2>2, EndsPlaced
  <2>3. CASE Q!Place(r, Q!Moves(r, run[r], Q!Availability(r)))
    BY <1>1, <2>1, <2>3, GoesOn DEF PhaseOf
  <2>4. QED BY <2>1, <2>2, <2>3
<1>5. QED BY <1>2, <1>3, <1>4

\* The steps of a launched attempt before it ends.
LEMMA Works ==
  ASSUME SetupsInv, NEW r \in Q!AllRuns, Q!Launch(r) \/ Q!Accept(r) \/ Q!Stop(r)
  PROVE  SetupsInv'
<1>1. run[r] \in RunRecords /\ RoundOf(r, run[r]) /\ PhaseOf(run[r]) BY DEF SetupsInv
<1>2. PICK q \in RunRecords :
        /\ run' = [run EXCEPT ![r] = q] /\ UNCHANGED health
        /\ q.status = run[r].status /\ q.round = run[r].round /\ q.skipped = run[r].skipped
        /\ q.cands = run[r].cands /\ q.ignore = run[r].ignore /\ (q.wait => run[r].wait)
        /\ \/ q.phase = run[r].phase
           \/ run[r].phase = "launching" /\ q.phase = "working"
        /\ \/ startLock' = startLock /\ q.phase = run[r].phase
           \/ startLock' = None
  <2>1. CASE Q!Launch(r)
    <3> DEFINE m == [run[r] EXCEPT !.phase = "working"]
    <3>1. run' = [run EXCEPT ![r] = m] /\ startLock = r /\ startLock' = None /\ UNCHANGED health
      BY <2>1 DEF Q!Launch, Q!logins
    <3>2. run[r].phase = "launching" BY <3>1 DEF SetupsInv
    <3>3. /\ m \in RunRecords /\ m.phase = "working"
          /\ m.status = run[r].status /\ m.round = run[r].round /\ m.skipped = run[r].skipped
          /\ m.cands = run[r].cands /\ m.ignore = run[r].ignore /\ m.wait = run[r].wait
      BY <1>1 DEF RunRecords
    <3> HIDE DEF m
    <3>4. QED BY <3>1, <3>2, <3>3
  <2>2. CASE Q!Accept(r)
    <3> DEFINE m == [run[r] EXCEPT !.began = TRUE, !.probing = FALSE,
                                   !.wait = run[r].wait /\ ~run[r].probing]
    <3>1. run' = [run EXCEPT ![r] = m] /\ UNCHANGED <<health, startLock>>
      BY <2>2 DEF Q!Accept, Q!logins, SetupsInv
    <3>2. (run[r].wait /\ ~run[r].probing) \in BOOLEAN OBVIOUS
    <3>3. /\ m \in RunRecords /\ m.phase = run[r].phase
          /\ m.status = run[r].status /\ m.round = run[r].round /\ m.skipped = run[r].skipped
          /\ m.cands = run[r].cands /\ m.ignore = run[r].ignore /\ (m.wait => run[r].wait)
      BY <1>1, <3>2 DEF RunRecords
    <3> HIDE DEF m
    <3>4. QED BY <3>1, <3>3
  <2>3. CASE Q!Stop(r)
    <3> DEFINE m == [run[r] EXCEPT !.stopped = TRUE]
    <3>1. run' = [run EXCEPT ![r] = m] /\ UNCHANGED <<health, startLock>>
      BY <2>3 DEF Q!Stop, Q!logins
    <3>2. /\ m \in RunRecords /\ m.phase = run[r].phase
          /\ m.status = run[r].status /\ m.round = run[r].round /\ m.skipped = run[r].skipped
          /\ m.cands = run[r].cands /\ m.ignore = run[r].ignore /\ m.wait = run[r].wait
      BY <1>1 DEF RunRecords
    <3> HIDE DEF m
    <3>3. QED BY <3>1, <3>2
  <2>4. QED BY <2>1, <2>2, <2>3
<1>3. run' \in [Q!AllRuns -> RunRecords] /\ run'[r] = q
      /\ \A o \in Q!AllRuns \ {r} : run'[o] = run[o]
  BY <1>2 DEF SetupsInv
<1>4. RoundOf(r, q) BY <1>1, <1>2 DEF RoundOf
<1>5. PhaseOf(q) BY <1>1, <1>2 DEF PhaseOf, AllContinue
<1>6. Q!OneProbe'
  <2>1. \A o \in Q!AllRuns : /\ Q!ActiveSetup(o)' = Q!ActiveSetup(o)
                             /\ run'[o].status = run[o].status /\ (run'[o].wait => run[o].wait)
    BY <1>2, <1>3 DEF Q!ActiveSetup
  <2>2. QED BY <2>1, ProbesKeep DEF SetupsInv
<1>7. \A o \in Q!AllRuns : startLock' = o => run'[o].phase = "launching"
  BY <1>2, <1>3, RunOf DEF SetupsInv
<1>8. QED BY <1>2, <1>3, <1>4, <1>5, <1>6, <1>7 DEF SetupsInv

\* The setup of an attempt under way is one of the run's own.
LEMMA ActiveIsOwn ==
  ASSUME SetupsInv, NEW r \in Q!AllRuns
  PROVE  Q!ActiveSetup(r) \in Own(r) /\ ScopeOf[Q!ActiveSetup(r)] \in Q!Scopes
<1>1. run[r] \in RunRecords /\ RoundOf(r, run[r]) BY DEF SetupsInv
<1>2. CASE run[r].round = <<>>
  <2>1. 1 \in DOMAIN Chain[r] BY RunOf
  <2>2. Chain[r][1] \in Own(r) BY <2>1 DEF Own
  <2>3. QED BY <1>2, <2>2, RunOf DEF Q!ActiveSetup
<1>3. CASE run[r].round # <<>>
  <2>1. run[r].round \in Seq(Attempts) BY <1>1 DEF RunRecords
  <2>2. Len(run[r].round) \in DOMAIN run[r].round BY <1>3, <2>1
  <2>3. Q!Last(run[r].round).setup \in Own(r) BY <1>1, <2>2 DEF RoundOf, Q!Last
  <2>4. QED BY <1>3, <2>3, RunOf DEF Q!ActiveSetup
<1>4. Q!ActiveSetup(r) \in Own(r) BY <1>2, <1>3
<1>5. \A p \in Own(r) : ScopeOf[p] \in Q!Scopes BY RunOf
<1>6. QED BY <1>4, <1>5

\* What a completion does: the round rests or its latest attempt lets the run go on.
LEMMA Finishes ==
  ASSUME SetupsInv, NEW r \in Q!AllRuns, Q!Finish(r)
  PROVE  /\ SetupsInv'
         /\ \A s \in Q!Scopes : health[s].reset > 0 => health'[s].reset >= health[s].reset
<1>1. run[r] \in RunRecords /\ RoundOf(r, run[r]) /\ PhaseOf(run[r]) BY DEF SetupsInv
<1>2. startLock = None /\ startLock' = None /\ run[r].phase = "working"
  BY DEF Q!Finish
<1>3. /\ health' \in [Q!Scopes -> Healths]
      /\ \A s \in Q!Scopes : health[s].reset > 0 => health'[s].reset >= health[s].reset
      /\ \/ \E s \in {"failed", "cancelled", "completed"} : run' = [run EXCEPT ![r] = Q!Ended(s)]
         \/ \E cat \in Continuing :
              run' = [run EXCEPT ![r] = [Q!Settled(run[r], cat) EXCEPT !.phase = "advancing",
                                                                      !.began = FALSE]]
  <2>1. CASE run[r].stopped /\ UNCHANGED health /\ run' = [run EXCEPT ![r] = Q!Ended("cancelled")]
    <3>1. \A s \in Q!Scopes : health[s].reset >= health[s].reset BY DEF SetupsInv, Healths
    <3>2. QED BY <2>1, <3>1 DEF SetupsInv
  <2>2. ASSUME NEW f \in Q!Outcomes[run[r].began], Q!Teaches(Q!ActiveSetup(r), f),
               run' = [run EXCEPT ![r] =
                         IF f.continues
                         THEN [Q!Settled(run[r], f.cat) EXCEPT !.phase = "advancing",
                                                               !.began = FALSE]
                         ELSE Q!Ended(IF f.cat = "completed" THEN f.cat ELSE "failed")]
        PROVE  /\ health' \in [Q!Scopes -> Healths]
               /\ \A s \in Q!Scopes : health[s].reset > 0 => health'[s].reset >= health[s].reset
               /\ \/ \E s \in {"failed", "cancelled", "completed"} :
                       run' = [run EXCEPT ![r] = Q!Ended(s)]
                  \/ \E cat \in Continuing :
                       run' = [run EXCEPT ![r] =
                                 [Q!Settled(run[r], cat) EXCEPT !.phase = "advancing",
                                                                !.began = FALSE]]
    <3>1. run[r].began \in BOOLEAN BY <1>1 DEF RunRecords
    <3>2. /\ f.reset \in Nat \cup {None}
          /\ f.continues => f.cat \in Continuing
      BY <3>1, OutcomeTyped
    <3>3. /\ health' \in [Q!Scopes -> Healths]
          /\ \A s \in Q!Scopes : health[s].reset > 0 => health'[s].reset >= health[s].reset
      BY <2>2, <3>2, ActiveIsOwn, Taught DEF SetupsInv
    <3>4. QED BY <2>2, <3>2, <3>3
  <2>3. QED BY <2>1, <2>2 DEF Q!Finish, Q!logins
<1>4. ASSUME NEW q \in RunRecords, RoundOf(r, q), PhaseOf(q), q.phase # "launching",
             run' = [run EXCEPT ![r] = q],
             q.status = "running" /\ q.wait => run[r].wait /\ run[r].status = "running"
               /\ q.round # <<>> /\ Q!Last(q.round).setup = Q!Last(run[r].round).setup
      PROVE  SetupsInv'
  <2>1. run' \in [Q!AllRuns -> RunRecords] /\ run'[r] = q
        /\ \A o \in Q!AllRuns \ {r} : run'[o] = run[o]
    BY <1>4 DEF SetupsInv
  <2>2. run[r].round # <<>> BY <1>1, <1>2 DEF PhaseOf
  <2>3. Q!OneProbe'
    <3>1. \A o \in Q!AllRuns \ {r} : Q!ActiveSetup(o)' = Q!ActiveSetup(o)
      BY <2>1 DEF Q!ActiveSetup
    <3>2. q.status = "running" /\ q.wait => Q!ActiveSetup(r)' = Q!ActiveSetup(r)
      BY <1>4, <2>1, <2>2 DEF Q!ActiveSetup
    <3>3. QED BY <1>4, <2>1, <3>1, <3>2, ProbesKeep DEF SetupsInv
  <2>4. \A o \in Q!AllRuns : startLock' = o => run'[o].phase = "launching" BY <1>2, RunOf
  <2>5. QED BY <1>3, <1>4, <2>1, <2>3, <2>4 DEF SetupsInv
<1>5. CASE \E s \in {"failed", "cancelled", "completed"} : run' = [run EXCEPT ![r] = Q!Ended(s)]
  BY <1>4, <1>3, <1>5, EndedOf
<1>6. ASSUME NEW cat \in Continuing,
             run' = [run EXCEPT ![r] = [Q!Settled(run[r], cat) EXCEPT !.phase = "advancing",
                                                                      !.began = FALSE]]
      PROVE  SetupsInv'
  <2> DEFINE m == Q!Settled(run[r], cat)
             q == [m EXCEPT !.phase = "advancing", !.began = FALSE]
  <2>1. /\ m \in RunRecords /\ RoundOf(r, m) /\ AllContinue(m) /\ m.status = "running"
        /\ m = [run[r] EXCEPT !.round = m.round]
        /\ m.round # <<>> /\ Q!Last(m.round).setup = Q!Last(run[r].round).setup
    BY <1>1, <1>2, SettledOf
  <2>2. m.wait = run[r].wait BY <1>1, <2>1 DEF RunRecords
  <2> HIDE DEF m
  <2>3. /\ q \in RunRecords /\ q.phase = "advancing" /\ q.round = m.round /\ q.status = "running"
        /\ q.skipped = m.skipped /\ q.cands = m.cands /\ q.wait = m.wait /\ q.ignore = m.ignore
    BY <2>1 DEF RunRecords
  <2>4. RoundOf(r, q) BY <2>1, <2>3 DEF RoundOf
  <2>5. PhaseOf(q) BY <2>1, <2>3 DEF PhaseOf, AllContinue
  <2>6. run[r].status = "running" BY <1>1, <1>2 DEF PhaseOf
  <2>7. run' = [run EXCEPT ![r] = q] BY <1>6 DEF m
  <2> HIDE DEF q
  <2>8. QED BY <1>4, <2>1, <2>2, <2>3, <2>4, <2>5, <2>6, <2>7
<1>7. QED BY <1>3, <1>5, <1>6

LEMMA Retries ==
  ASSUME SetupsInv, NEW t \in Timed, Q!Retry(t) PROVE SetupsInv'
<1> DEFINE m == [run[t] EXCEPT !.status = "queued", !.wait = TRUE]
<1>1. /\ t \in Q!AllRuns /\ run[t].status \in {"queued", "unavailable"}
      /\ run' = [run EXCEPT ![t] = m] /\ startLock' = startLock
      /\ health' = [s \in Q!Scopes |-> IF s \in Q!Logins(t) THEN Q!Unknown ELSE health[s]]
  BY DEF Q!Retry, Q!Eligible, Q!AllRuns
<1>2. run[t] \in RunRecords /\ RoundOf(t, run[t]) /\ PhaseOf(run[t])
      /\ (startLock = t => run[t].phase = "launching")
  BY <1>1 DEF SetupsInv
<1>3. /\ m \in RunRecords /\ m.status = "queued" /\ m.phase = run[t].phase
      /\ m.round = run[t].round /\ m.skipped = run[t].skipped /\ m.cands = run[t].cands
      /\ m.ignore = run[t].ignore
  BY <1>2 DEF RunRecords
<1> HIDE DEF m
<1>4. run[t].phase = "idle" BY <1>1, <1>2 DEF PhaseOf
<1>5. RoundOf(t, m) BY <1>1, <1>2, <1>3 DEF RoundOf
<1>6. PhaseOf(m) BY <1>2, <1>3, <1>4 DEF PhaseOf, AllContinue
<1>7. health' \in [Q!Scopes -> Healths]
  <2>1. Q!Unknown \in Healths BY DEF Q!Unknown, Healths
  <2>2. QED BY <1>1, <2>1 DEF SetupsInv
<1>8. ASSUME NEW r \in Q!AllRuns
      PROVE  /\ run'[r] \in RunRecords /\ RoundOf(r, run'[r]) /\ PhaseOf(run'[r])
             /\ startLock' = r => run'[r].phase = "launching"
             /\ run'[r].status = "running" /\ run'[r].wait =>
                  run[r].status = "running" /\ run[r].wait /\ Q!ActiveSetup(r)' = Q!ActiveSetup(r)
  <2>1. run[r] \in RunRecords /\ RoundOf(r, run[r]) /\ PhaseOf(run[r])
        /\ (startLock = r => run[r].phase = "launching")
    BY DEF SetupsInv
  <2>2. CASE r # t
    <3>1. run'[r] = run[r] BY <1>1, <2>2 DEF SetupsInv
    <3>2. Q!ActiveSetup(r)' = Q!ActiveSetup(r) BY <3>1 DEF Q!ActiveSetup
    <3>3. QED BY <1>1, <2>1, <3>1, <3>2
  <2>3. CASE r = t
    <3>1. run'[r] = m BY <1>1, <2>3 DEF SetupsInv
    <3>2. QED BY <1>1, <1>2, <1>3, <1>5, <1>6, <2>3, <3>1
  <2>4. QED BY <2>2, <2>3
<1>9. run' \in [Q!AllRuns -> RunRecords] BY <1>1, <1>3 DEF SetupsInv
<1>10. Q!OneProbe' BY <1>8, ProbesKeep DEF SetupsInv
<1>11. QED BY <1>7, <1>8, <1>9, <1>10 DEF SetupsInv

LEMMA Ticks ==
  ASSUME SetupsInv, Q!Tick PROVE SetupsInv'
<1>1. UNCHANGED <<run, startLock>> BY DEF Q!Tick
<1>2. health' \in [Q!Scopes -> Healths]
  <2>1. \A n \in Nat : Q!Down(n) \in Nat BY DEF Q!Down, Q!Later
  <2>2. \A h \in Healths :
          [h EXCEPT !.reset = Q!Down(h.reset), !.retry = Q!Down(h.retry)] \in Healths
    BY <2>1 DEF Healths
  <2>3. health' = [s \in Q!Scopes |-> [health[s] EXCEPT !.reset = Q!Down(health[s].reset),
                                                        !.retry = Q!Down(health[s].retry)]]
    BY DEF Q!Tick
  <2>4. QED BY <2>2, <2>3 DEF SetupsInv
<1>3. Q!OneProbe' BY <1>1 DEF SetupsInv, Q!OneProbe, Q!Running, Q!ActiveSetup
<1>4. QED BY <1>1, <1>2, <1>3 DEF SetupsInv

LEMMA SetupsInit ==
  ASSUME Q!Init PROVE SetupsInv
<1>1. /\ run = [r \in Q!AllRuns |-> Q!Fresh] /\ startLock = None
      /\ health \in [Q!Scopes -> Q!Recorded]
  BY DEF Q!Init
<1>2. Q!Fresh = Q!Ended("queued") BY DEF Q!Fresh, Q!Ended
<1>3. \A r \in Q!AllRuns : /\ run[r] \in RunRecords /\ RoundOf(r, run[r]) /\ PhaseOf(run[r])
                          /\ run[r].status # "running"
  BY <1>1, <1>2, EndedOf
<1>4. Q!Recorded \subseteq Healths
  <2>1. Q!Unknown \in Healths BY DEF Q!Unknown, Healths
  <2>2. \A h \in Healths : [h EXCEPT !.reset = 1] \in Healths BY DEF Healths
  <2>3. QED BY <2>1, <2>2 DEF Q!Recorded
<1>5. Q!OneProbe BY <1>3 DEF Q!OneProbe, Q!Running
<1>6. QED BY <1>1, <1>3, <1>4, <1>5, RunOf DEF SetupsInv

LEMMA SetupsStep ==
  ASSUME SetupsInv, [Q!Next]_(Q!vars) PROVE SetupsInv'
<1>1. ASSUME NEW r \in Q!AllRuns, Q!Work(r) \/ Q!Finish(r) PROVE SetupsInv'
  BY <1>1, Starts, Launches, Works, Finishes DEF Q!Work
<1>2. CASE UNCHANGED Q!vars
  BY <1>2 DEF Q!vars, Q!logins, SetupsInv, Q!OneProbe, Q!Running, Q!ActiveSetup
<1>3. QED BY <1>1, <1>2, Retries, Ticks DEF Q!Next

\* A behaviour of the composition is one of Setups, whose part stutters while another
\* moves.
LEMMA SetupsPart == ResourcesSpec => Q!Spec
<1>1. ResourcesInit => Q!Init BY DEF ResourcesInit
<1>2. [ResourcesNext]_<<part, vars, setups, hosts>> => [Q!Next]_(Q!vars)
  BY DEF ResourcesNext, setups, Q!vars, Q!logins
<1>3. QED BY <1>1, <1>2, PTL DEF ResourcesSpec, Q!Spec

LEMMA SetupsInvHolds == Q!Spec => []SetupsInv
BY SetupsInit, SetupsStep, PTL DEF Q!Spec

\* No two waiting occurrences probe the same login, and in one round no setup is tried
\* twice, no login again after its limit or a refused login, and nothing after an end
\* that forbids it (setup-fallback.ts, nextSetup and attemptFailure; index.ts,
\* setupAvailability and advance).
THEOREM LoginsStaySpared == ResourcesSpec => []LoginsAreSpared
<1>1. SetupsInv => Q!OneProbe BY DEF SetupsInv
<1>2. SetupsInv => Q!RoundsAreSafe
  <2> SUFFICES ASSUME SetupsInv, NEW r \in Q!AllRuns PROVE SafeRound(run[r].round)
    BY DEF Q!RoundsAreSafe, SafeRound, ThenTried
  <2>1. QED BY DEF SetupsInv, RoundOf
<1>3. SetupsInv => LoginsAreSpared BY <1>1, <1>2 DEF LoginsAreSpared, Q!LoginsAreSpared
<1>4. QED BY <1>3, SetupsPart, SetupsInvHolds, PTL

\* Only time and the owner's retry make a login free before the reset its provider
\* reported: no outcome of a run shortens it (control-state.ts, recordSetupOutcome).
THEOREM ResetsAreKept == ResourcesSpec => ResetSurvives
<1> DEFINE Kept == \A s \in Q!Scopes : health[s].reset > 0 =>
                     \/ Q!Tick \/ \E r \in Timed : Q!Retry(r)
                     \/ health'[s].reset >= health[s].reset
<1>1. SetupsInv /\ [Q!Next]_(Q!vars) => [Kept]_(Q!vars)
  <2> SUFFICES ASSUME SetupsInv, Q!Next PROVE Kept OBVIOUS
  <2>1. CASE Q!Tick \/ \E r \in Timed : Q!Retry(r) BY <2>1
  <2>2. ASSUME NEW r \in Q!AllRuns, Q!Finish(r) PROVE Kept BY <2>2, Finishes
  <2>3. ASSUME NEW r \in Q!AllRuns, Q!Work(r) PROVE Kept
    <3>1. health' = health
      BY <2>3 DEF Q!Work, Q!StartJob, Q!Launch, Q!LaunchMissing, Q!LaunchFails, Q!Accept, Q!Stop,
        Q!Advance, Q!logins
    <3>2. QED BY <3>1 DEF SetupsInv, Healths
  <2>4. QED BY <2>1, <2>2, <2>3 DEF Q!Next
<1>2. Q!Spec => [][Kept]_(Q!vars)
  <2> HIDE DEF Kept
  <2>1. QED BY <1>1, SetupsInvHolds, PTL DEF Q!Spec
<1>3. Q!Spec => Q!ResetSurvives BY <1>2 DEF Q!ResetSurvives
<1>4. QED BY <1>3, SetupsPart DEF ResetSurvives

(***************************************************************************)
(* The registry: the invariant                                             *)
(***************************************************************************)
Places == {"idle", "asked", "locked", "staged", "secret", "described", "built", "bound", "fresh",
           "down", "dead"}
Requests == [kind : {None, "install", "pin"} \cup OnInstalled, id : Ids \cup {None}, at : Places,
             release : Releases \cup {None}, folder : Folders \cup {None}, bound : SUBSET Folders]
Types ==
  /\ checkout \in [Ids -> Releases] /\ granted \in [Ids -> SUBSET Folders]
  /\ catalog \in [Ids -> Releases] /\ folders \in [Ids -> SUBSET Folders]
  /\ records \in [Ids -> Releases \cup {None}] /\ commands \in [Aliases -> Ids \cup {None}]
  /\ packages \in [Releases -> Releases \cup {None}]
  /\ images \in [Releases -> Releases \cup {None}]
  /\ secrets \in [Ids -> [Secrets -> Nat]]
  /\ compose = [p \in Ids |-> compose[p]] /\ up = [p \in Ids |-> up[p]]
  /\ proc \in [Procs -> Requests]
  /\ requests \in Nat

\* The lock is held until the request is over, and by a dead process until its owner
\* removes it.
LockInv == \A w \in Procs : proc[w].at \notin {"idle", "asked"} => lock = w

\* A request is about a plugin and a release.
AskedInv == \A w \in Procs : proc[w].at # "idle" =>
              proc[w].id \in Ids /\ proc[w].release \in Releases /\ requests > 0

\* What an installation has done so far, of a plugin that is not installed.
Installing(w, p, r) ==
  /\ proc[w].at \in {"staged", "secret", "described", "built"} =>
       records[p] = None /\ packages[r] = r /\ \A a \in Package[r].aliases : commands[a] = None
  /\ proc[w].at \in {"secret", "described", "built"} =>
       \A s \in Package[r].secrets : secrets[p][s] # 0
  /\ proc[w].at \in {"described", "built"} => compose[p] # None
  /\ proc[w].at = "built" => images[r] = r
\* What a request about an installed plugin has done so far.
Serving(w, p, r) ==
  /\ proc[w].at \in {"bound", "fresh", "down"} => records[p] = r
  /\ proc[w].at = "fresh" => compose[p] = Generated(p, r, folders[p])
  /\ proc[w].at = "down" => up[p] = None
WorkInv == \A w \in Procs : /\ Installing(w, proc[w].id, proc[w].release)
                            /\ Serving(w, proc[w].id, proc[w].release)

\* A directory never holds another release than its own.
PackageInv == \A r \in Releases : packages[r] \in {None, r}

RegistryInv == /\ Types /\ LockInv /\ AskedInv /\ WorkInv /\ PackageInv
               /\ AliasesAreOwned /\ InstalledIsReviewed /\ RunsAsBound

USE NoneAssumption

(***************************************************************************)
(* Steps                                                                   *)
(***************************************************************************)
\* What is generated for a plugin is a description.
LEMMA GeneratedIsSome ==
  ASSUME NEW p \in Ids, NEW r \in Releases, NEW fs \in SUBSET Folders, Types
  PROVE  Generated(p, r, fs) # None
<1>1. \A s \in Package[r].secrets : s \in Secrets
  BY DEF Secrets
<1>2. [s \in Package[r].secrets |-> secrets[p][s]] \in [Package[r].secrets -> Nat]
  BY <1>1 DEF Types
<1>3. Generated(p, r, fs) \in Descriptions(r)
  BY <1>2 DEF Generated, Descriptions
<1> QED
  BY <1>3


\* A step of one request: who holds the lock works alone.
LEMMA OneRequest ==
  ASSUME RegistryInv, NEW w \in Procs, NEW q \in Requests, proc' = [proc EXCEPT ![w] = q],
         requests' \in Nat, requests' >= requests,
         q.at # "idle" => q.id \in Ids /\ q.release \in Releases /\ requests' > 0,
         q.at \in {"idle", "asked"} \/ lock' = w,
         \/ UNCHANGED lock
         \/ lock = None
         \/ proc[w].at \notin {"idle", "asked"}
  PROVE  /\ proc' \in [Procs -> Requests] /\ LockInv' /\ AskedInv'
         /\ lock = w \/ lock' = w =>
              \A v \in Procs : v # w => proc'[v].at \in {"idle", "asked"}
<1> USE DEF RegistryInv, Types, LockInv, AskedInv
<1>1. proc' \in [Procs -> Requests] /\ proc'[w] = q /\ \A v \in Procs : v # w => proc'[v] = proc[v]
  OBVIOUS
<1>2. ASSUME NEW v \in Procs, v # w, proc[v].at \notin {"idle", "asked"}
      PROVE  lock' = v /\ lock = v
  BY <1>2
<1>3. LockInv'
  BY <1>1, <1>2
<1>4. AskedInv'
  BY <1>1
<1> QED
  BY <1>1, <1>2, <1>3, <1>4

\* The files, the registry and what runs stay as they are.
FilesKept == UNCHANGED <<checkout, granted, folders, records, commands, packages, images, secrets,
                         compose, up>>

\* A request that leaves them so: it takes or keeps the lock, or is over.
LEMMA Quiet ==
  ASSUME RegistryInv, NEW w \in Procs, NEW q \in Requests, proc' = [proc EXCEPT ![w] = q],
         requests' \in Nat, requests' >= requests,
         q.at # "idle" => q.id \in Ids /\ q.release \in Releases /\ requests' > 0,
         q.at \in {"idle", "asked"} \/ (q.at \in {"locked", "dead"} /\ lock' = w),
         \/ UNCHANGED lock
         \/ lock = None
         \/ proc[w].at \notin {"idle", "asked"},
         catalog' \in [Ids -> Releases], FilesKept
  PROVE  RegistryInv'
<1>1. proc' \in [Procs -> Requests] /\ LockInv' /\ AskedInv'
  BY OneRequest
<1>2. Types'
  BY <1>1 DEF RegistryInv, Types, FilesKept
<1>3. WorkInv'
  <2>1. \A v \in Procs : v # w => proc'[v] = proc[v]
    BY DEF RegistryInv, Types
  <2>2. proc'[w].at \in {"idle", "asked", "locked", "dead"}
    BY DEF RegistryInv, Types
  <2>3. ASSUME NEW v \in Procs
        PROVE  /\ Installing(v, proc[v].id, proc[v].release)'
               /\ Serving(v, proc[v].id, proc[v].release)'
    <3>1. CASE v = w
      BY <2>2, <3>1 DEF Installing, Serving
    <3>2. CASE v # w
      BY <2>1, <3>2 DEF RegistryInv, WorkInv, Installing, Serving, Generated, FilesKept
    <3> QED
      BY <3>1, <3>2
  <2> QED
    BY <2>3 DEF WorkInv
<1>4. PackageInv' /\ AliasesAreOwned' /\ InstalledIsReviewed' /\ RunsAsBound'
  BY DEF RegistryInv, PackageInv, AliasesAreOwned, InstalledIsReviewed, RunsAsBound, Generated,
         FilesKept
<1> QED
  BY <1>1, <1>2, <1>3, <1>4 DEF RegistryInv

\* A request is made, and waits for the lock.
LEMMA AskingStep ==
  ASSUME RegistryInv, NEW w \in Procs,
         \/ \E p \in Ids : \/ AskInstall(w, p) \/ AskPin(w, p)
                           \/ \E k \in OnInstalled, f \in Folders \cup {None} :
                                AskInstalled(w, k, p, f)
         \/ Busy(w)
  PROVE  RegistryInv'
<1>1. ASSUME NEW req \in Requests, Asks(w, req), req.id \in Ids, req.release \in Releases
      PROVE  RegistryInv'
  <2> DEFINE q == [req EXCEPT !.at = "asked"]
  <2>1. q \in Requests /\ q.at \in {"idle", "asked"} /\ q.id \in Ids /\ q.release \in Releases
    BY <1>1 DEF Requests, Places
  <2>2. /\ requests' \in Nat /\ requests' >= requests /\ requests' > 0
        /\ proc' = [proc EXCEPT ![w] = q]
        /\ FilesKept /\ UNCHANGED lock /\ catalog' \in [Ids -> Releases]
    BY <1>1 DEF Asks, RegistryInv, Types, FilesKept, owners, config, registry, files
  <2> HIDE DEF q
  <2> QED
    BY <2>1, <2>2, Quiet
<1>2. ASSUME NEW p \in Ids, AskInstall(w, p) PROVE RegistryInv'
  <2> DEFINE req == [Idle EXCEPT !.kind = "install", !.id = p, !.release = checkout[p],
                                 !.bound = folders[p]]
  <2>1. req \in Requests /\ req.id \in Ids /\ req.release \in Releases
    BY DEF RegistryInv, Types, Requests, Places, Idle
  <2> QED
    BY <1>1, <1>2, <2>1 DEF AskInstall
<1>3. ASSUME NEW p \in Ids, AskPin(w, p) PROVE RegistryInv'
  <2> DEFINE req == [Idle EXCEPT !.kind = "pin", !.id = p, !.release = checkout[p]]
  <2>1. req \in Requests /\ req.id \in Ids /\ req.release \in Releases
    BY DEF RegistryInv, Types, Requests, Places, Idle
  <2> QED
    BY <1>1, <1>3, <2>1 DEF AskPin
<1>4. ASSUME NEW p \in Ids, NEW k \in OnInstalled, NEW f \in Folders \cup {None},
             AskInstalled(w, k, p, f) PROVE RegistryInv'
  <2> DEFINE req == [Idle EXCEPT !.kind = k, !.id = p, !.release = records[p], !.folder = f]
  <2>1. req \in Requests /\ req.id \in Ids /\ req.release \in Releases
    BY <1>4 DEF AskInstalled, RegistryInv, Types, Requests, Places, Idle
  <2> QED
    BY <1>1, <1>4, <2>1 DEF AskInstalled
<1>5. CASE Busy(w)
  <2>1. Idle \in Requests /\ Idle.at = "idle"
    BY DEF Idle, Requests, Places
  <2>2. /\ FilesKept /\ UNCHANGED lock /\ catalog' \in [Ids -> Releases]
        /\ requests' \in Nat /\ requests' >= requests /\ proc' = [proc EXCEPT ![w] = Idle]
    BY <1>5 DEF Busy, RegistryInv, Types, FilesKept, owners, config, registry, files, bounds
  <2> QED
    BY <2>1, <2>2, Quiet
<1> QED
  BY <1>2, <1>3, <1>4, <1>5

\* What the manager works on changes around it.
LEMMA EditStep ==
  ASSUME RegistryInv, NEW p \in Ids, Edit(p)
  PROVE  RegistryInv'
<1>1. checkout' \in [Ids -> Releases] /\ granted' \in [Ids -> SUBSET Folders]
  <2>1. CASE \E r \in Of(p) : checkout' = [checkout EXCEPT ![p] = r] /\ UNCHANGED granted
    BY <2>1 DEF Of, RegistryInv, Types
  <2>2. ASSUME NEW f \in Folders, UNCHANGED checkout,
               granted' = [granted EXCEPT ![p] = IF f \in @ THEN @ \ {f} ELSE @ \cup {f}]
        PROVE  checkout' \in [Ids -> Releases] /\ granted' \in [Ids -> SUBSET Folders]
    BY <2>2 DEF RegistryInv, Types
  <2> QED
    BY <2>1, <2>2 DEF Edit
<1>2. Types'
  BY <1>1 DEF Edit, RegistryInv, Types, config, registry, files
<1> QED
  BY <1>2 DEF Edit, RegistryInv, LockInv, AskedInv, WorkInv, Installing, Serving, PackageInv,
    AliasesAreOwned, InstalledIsReviewed, RunsAsBound, Generated, config, registry, files

\* A request takes the lock, or gives it up with the files as they are.
LEMMA LockStep ==
  ASSUME RegistryInv, NEW w \in Procs,
         Lock(w) \/ Pin(w) \/ Declined(w) \/ Stale(w) \/ Fails(w) \/ Dies(w) \/ Inspected(w)
  PROVE  RegistryInv'
<1> USE DEF FilesKept, owners, config, registry, files, bounds
<1>1. /\ Idle \in Requests /\ Idle.at = "idle" /\ requests \in Nat
      /\ catalog \in [Ids -> Releases] /\ proc[w] \in Requests
      /\ proc[w].at # "idle" => proc[w].id \in Ids /\ proc[w].release \in Releases /\ requests > 0
      /\ proc[w].at \notin {"idle", "asked"} => lock = w
  BY DEF RegistryInv, Types, AskedInv, LockInv, Idle, Requests, Places
<1>2. ASSUME NEW st \in {"locked", "dead"}, Goes(w, st), proc[w].at # "idle", lock' = w,
             lock = None \/ lock = w, FilesKept, UNCHANGED <<catalog, requests>>
      PROVE  RegistryInv'
  <2> DEFINE q == [proc[w] EXCEPT !.at = st]
  <2>1. q \in Requests /\ q.at = st /\ q.id = proc[w].id /\ q.release = proc[w].release
    BY <1>1, <1>2 DEF Requests, Places
  <2>2. proc' = [proc EXCEPT ![w] = q]
    BY <1>2 DEF Goes, RegistryInv, Types
  <2>3. /\ q \in Requests /\ q.at \in {"locked", "dead"} /\ q.at # "idle"
        /\ q.id \in Ids /\ q.release \in Releases /\ requests' > 0
        /\ requests' \in Nat /\ requests' >= requests /\ catalog' \in [Ids -> Releases]
        /\ UNCHANGED lock \/ lock = None
    BY <1>1, <1>2, <2>1
  <2> HIDE DEF q, FilesKept
  <2> QED
    BY <1>2, <2>2, <2>3, Quiet
<1>3. ASSUME Ends(w), proc[w].at \notin {"idle", "asked"}, catalog' \in [Ids -> Releases],
             FilesKept, UNCHANGED requests
      PROVE  RegistryInv'
  <2>1. /\ proc' = [proc EXCEPT ![w] = Idle]
        /\ requests' \in Nat /\ requests' >= requests
    BY <1>1, <1>3 DEF Ends
  <2> HIDE DEF FilesKept
  <2> QED
    BY <1>1, <1>3, <2>1, Quiet
<1>4. CASE Lock(w)
  BY <1>2, <1>4 DEF Lock
<1>5. CASE Pin(w)
  BY <1>1, <1>3, <1>5 DEF Pin, At
<1>6. CASE Declined(w) \/ Stale(w) \/ Fails(w) \/ Inspected(w)
  BY <1>1, <1>3, <1>6 DEF Declined, Stale, Fails, Inspected, At
<1>7. CASE Dies(w)
  BY <1>1, <1>2, <1>7 DEF Dies
<1> QED
  BY <1>4, <1>5, <1>6, <1>7

\* What holds of a request that has the lock.
LEMMA Holder ==
  ASSUME RegistryInv, NEW w \in Procs, proc[w].at \notin {"idle", "asked"}
  PROVE  /\ lock = w /\ proc[w].id \in Ids /\ proc[w].release \in Releases /\ requests > 0
         /\ Installing(w, proc[w].id, proc[w].release) /\ Serving(w, proc[w].id, proc[w].release)
  BY DEF RegistryInv, LockInv, AskedInv, WorkInv

\* It goes on to its next file ...
LEMMA HolderGoes ==
  ASSUME RegistryInv, NEW w \in Procs, proc[w].at \notin {"idle", "asked"},
         NEW st \in Places \ {"idle", "asked"}, Goes(w, st), UNCHANGED <<lock, requests>>,
         NEW p, NEW r, p = proc[w].id, r = proc[w].release,
         st \in {"staged", "secret", "described", "built"} =>
           /\ records'[p] = None /\ packages'[r] = r
           /\ \A a \in Package[r].aliases : commands'[a] = None,
         st \in {"secret", "described", "built"} =>
           \A s \in Package[r].secrets : secrets'[p][s] # 0,
         st \in {"described", "built"} => compose'[p] # None,
         st = "built" => images'[r] = r,
         st \in {"bound", "fresh", "down"} => records'[p] = r,
         st = "fresh" => compose'[p] = Generated(p, r, folders[p])',
         st = "down" => up'[p] = None
  PROVE  proc' \in [Procs -> Requests] /\ LockInv' /\ AskedInv' /\ WorkInv'
<1> DEFINE q == [proc[w] EXCEPT !.at = st]
<1>1. /\ q \in Requests /\ q.at = st /\ q.id = proc[w].id /\ q.release = proc[w].release
      /\ proc' = [proc EXCEPT ![w] = q] /\ proc'[w] = q
      /\ requests' \in Nat /\ requests' >= requests
  <2>1. proc[w] \in Requests /\ requests \in Nat
    BY DEF RegistryInv, Types
  <2>2. q \in Requests /\ q.at = st /\ q.id = proc[w].id /\ q.release = proc[w].release
    BY <2>1 DEF Requests
  <2>3. proc' = [proc EXCEPT ![w] = q] /\ proc'[w] = q
    BY DEF RegistryInv, Types, Goes
  <2> QED
    BY <2>1, <2>2, <2>3
<1>2. lock' = w /\ q.id \in Ids /\ q.release \in Releases /\ requests' > 0
  BY <1>1, Holder
<1> HIDE DEF q
<1>3. /\ proc' \in [Procs -> Requests] /\ LockInv' /\ AskedInv'
      /\ \A v \in Procs : v # w => proc'[v].at \in {"idle", "asked"}
  BY <1>1, <1>2, OneRequest
<1>4. ASSUME NEW v \in Procs
      PROVE  /\ Installing(v, proc[v].id, proc[v].release)'
             /\ Serving(v, proc[v].id, proc[v].release)'
  <2>1. CASE v = w
    BY <1>1, <2>1 DEF Installing, Serving, Generated
  <2>2. CASE v # w
    BY <1>3, <2>2 DEF Installing, Serving
  <2> QED
    BY <2>1, <2>2
<1> QED
  BY <1>3, <1>4 DEF WorkInv

\* ... or is over.
LEMMA HolderEnds ==
  ASSUME RegistryInv, NEW w \in Procs, proc[w].at \notin {"idle", "asked"},
         Ends(w), UNCHANGED requests
  PROVE  proc' \in [Procs -> Requests] /\ LockInv' /\ AskedInv' /\ WorkInv'
<1>1. Idle \in Requests /\ Idle.at = "idle" /\ requests' \in Nat /\ requests' >= requests
  BY DEF Idle, Requests, Places, RegistryInv, Types
<1>2. /\ proc' = [proc EXCEPT ![w] = Idle] /\ lock = w
      /\ proc'[w] = Idle
  BY Holder DEF Ends, RegistryInv, Types
<1>3. /\ proc' \in [Procs -> Requests] /\ LockInv' /\ AskedInv'
      /\ \A v \in Procs : v # w => proc'[v].at \in {"idle", "asked"}
  BY <1>1, <1>2, OneRequest
<1>4. \A v \in Procs : proc'[v].at \in {"idle", "asked"}
  BY <1>1, <1>2, <1>3
<1> QED
  BY <1>3, <1>4 DEF WorkInv, Installing, Serving

\* An installation writes one file after the other.
LEMMA InstallStep ==
  ASSUME RegistryInv, NEW w \in Procs,
         Stage(w) \/ Secret(w) \/ Describe(w) \/ Build(w) \/ Register(w)
  PROVE  RegistryInv'
<1> DEFINE p == proc[w].id
           r == proc[w].release
           Steps == proc' \in [Procs -> Requests] /\ LockInv' /\ AskedInv' /\ WorkInv'
<1> USE DEF owners, config, registry, files, bounds, At
<1>1. CASE Stage(w)
  <2>1. /\ lock = w /\ p \in Ids /\ r \in Releases
        /\ records[p] = None /\ \A a \in Package[r].aliases : commands[a] = None
    BY <1>1, Holder DEF Stage, Collides, Declared
  <2>2. /\ packages' = [packages EXCEPT ![r] = r] /\ Goes(w, "staged")
        /\ UNCHANGED <<owners, config, registry, images, secrets, compose, up, lock, bounds>>
    BY <1>1, <2>1 DEF Stage, Copied, RegistryInv, Types, PackageInv
  <2>3. packages' \in [Releases -> Releases \cup {None}] /\ \A s \in Releases :
          packages'[s] \in {None, s} /\ (packages[s] = s => packages'[s] = s)
    BY <2>1, <2>2 DEF RegistryInv, Types, PackageInv
  <2>4. Steps
    BY <1>1, <2>1, <2>2, <2>3, HolderGoes DEF Stage, Places
  <2>5. Types' /\ PackageInv'
    BY <2>2, <2>3, <2>4 DEF RegistryInv, Types, PackageInv
  <2>6. AliasesAreOwned' /\ InstalledIsReviewed' /\ RunsAsBound'
    BY <2>2, <2>3 DEF RegistryInv, AliasesAreOwned, InstalledIsReviewed, RunsAsBound, Generated
  <2> QED
    BY <2>4, <2>5, <2>6 DEF RegistryInv
<1>2. CASE Secret(w)
  <2>1. lock = w /\ p \in Ids /\ r \in Releases /\ requests > 0 /\ Installing(w, p, r)
    BY <1>2, Holder DEF Secret
  <2>2. /\ secrets' \in [Ids -> [Secrets -> Nat]]
        /\ \A s \in Package[r].secrets : secrets'[p][s] # 0
        /\ \A i \in Ids, s \in Secrets : secrets[i][s] # 0 => secrets'[i][s] # 0
        /\ \A i \in Ids : i # p => secrets'[i] = secrets[i]
    <3> DEFINE new == [s \in Secrets |-> IF s \in Package[r].secrets /\ Drawn(w, s)
                                         THEN requests ELSE secrets[p][s]]
    <3>1. secrets' = [secrets EXCEPT ![p] = new] /\ new \in [Secrets -> Nat]
      BY <1>2, <2>1 DEF Secret, RegistryInv, Types
    <3>2. /\ \A s \in Package[r].secrets : s \in Secrets /\ new[s] # 0
          /\ \A s \in Secrets : secrets[p][s] # 0 => new[s] # 0
      BY <2>1 DEF Secrets, Drawn
    <3> HIDE DEF new
    <3> QED
      BY <2>1, <3>1, <3>2 DEF RegistryInv, Types
  <2>3. /\ proc[w].at = "staged" /\ Goes(w, "secret")
        /\ UNCHANGED <<owners, config, registry, packages, images, compose, up, lock, bounds>>
    BY <1>2 DEF Secret
  <2>4. Steps
    BY <2>1, <2>2, <2>3, HolderGoes DEF Installing, Places
  <2>5. Types' /\ PackageInv'
    BY <2>2, <2>3, <2>4 DEF RegistryInv, Types, PackageInv
  <2>6. AliasesAreOwned' /\ InstalledIsReviewed'
    BY <2>2, <2>3 DEF RegistryInv, AliasesAreOwned, InstalledIsReviewed, Secrets
  <2>7. RunsAsBound'
    <3>1. records[p] = None
      BY <2>1, <2>3 DEF Installing
    <3>2. up[p] = None
      BY <2>1, <3>1 DEF RegistryInv, RunsAsBound
    <3> QED
      BY <2>2, <2>3, <3>2 DEF RegistryInv, RunsAsBound, Generated
  <2> QED
    BY <2>4, <2>5, <2>6, <2>7 DEF RegistryInv
<1>3. CASE Describe(w)
  <2>1. /\ lock = w /\ p \in Ids /\ r \in Releases /\ Installing(w, p, r)
        /\ proc[w].at = "secret" /\ proc[w].bound \in SUBSET Folders
    BY <1>3, Holder DEF Describe, RegistryInv, Types, Requests
  <2>2. /\ compose' = [i \in Ids |-> compose'[i]]
        /\ \A i \in Ids : compose[i] # None => compose'[i] # None
        /\ UNCHANGED <<owners, config, registry, packages, images, secrets, up, bounds>>
        /\ \/ Goes(w, "described") /\ UNCHANGED lock /\ compose'[p] # None
           \/ Ends(w)
    <3>1. Generated(p, r, proc[w].bound) # None
      BY <2>1, GeneratedIsSome DEF RegistryInv
    <3>2. CASE /\ compose' = [compose EXCEPT ![p] = Generated(p, r, proc[w].bound)]
               /\ Goes(w, "described") /\ UNCHANGED lock
      BY <1>3, <2>1, <3>1, <3>2 DEF Describe, RegistryInv, Types
    <3>3. CASE Ends(w) /\ UNCHANGED compose
      BY <1>3, <3>3 DEF Describe, RegistryInv, Types
    <3> QED
      BY <1>3, <3>2, <3>3 DEF Describe
  <2>3. Steps
    BY <2>1, <2>2, HolderGoes, HolderEnds DEF Installing, Places
  <2>4. Types' /\ PackageInv'
    BY <2>2, <2>3 DEF RegistryInv, Types, PackageInv
  <2>5. AliasesAreOwned' /\ InstalledIsReviewed' /\ RunsAsBound'
    BY <2>2 DEF RegistryInv, AliasesAreOwned, InstalledIsReviewed, RunsAsBound, Generated
  <2> QED
    BY <2>3, <2>4, <2>5 DEF RegistryInv
<1>4. CASE Build(w)
  <2>1. lock = w /\ p \in Ids /\ r \in Releases /\ Installing(w, p, r) /\ proc[w].at = "described"
    BY <1>4, Holder DEF Build
  <2>2. /\ images' = [images EXCEPT ![r] = r] /\ Goes(w, "built")
        /\ UNCHANGED <<owners, config, registry, packages, secrets, compose, up, lock, bounds>>
    BY <1>4, <2>1 DEF Build, Installing
  <2>3. /\ images' \in [Releases -> Releases \cup {None}] /\ images'[r] = r
        /\ \A s \in Releases : images[s] = s => images'[s] = s
    BY <2>1, <2>2 DEF RegistryInv, Types
  <2>4. Steps
    BY <2>1, <2>2, <2>3, HolderGoes DEF Installing, Places
  <2>5. Types' /\ PackageInv'
    BY <2>2, <2>3, <2>4 DEF RegistryInv, Types, PackageInv
  <2>6. AliasesAreOwned' /\ InstalledIsReviewed' /\ RunsAsBound'
    BY <2>2, <2>3 DEF RegistryInv, AliasesAreOwned, InstalledIsReviewed, RunsAsBound, Generated
  <2> QED
    BY <2>4, <2>5, <2>6 DEF RegistryInv
<1>5. CASE Register(w)
  <2>1. lock = w /\ p \in Ids /\ r \in Releases /\ Installing(w, p, r) /\ proc[w].at = "built"
    BY <1>5, Holder DEF Register
  <2>2. /\ records' = [records EXCEPT ![p] = r]
        /\ commands' = [a \in Aliases |-> IF a \in Package[r].aliases THEN p ELSE commands[a]]
        /\ Ends(w) /\ UNCHANGED <<owners, config, files, up, bounds>>
    BY <1>5 DEF Register, Declared
  <2>3. Steps
    BY <2>1, <2>2, HolderEnds
  <2>4. Types' /\ PackageInv'
    BY <2>1, <2>2, <2>3 DEF RegistryInv, Types, PackageInv
  <2>5. AliasesAreOwned'
    BY <2>1, <2>2 DEF RegistryInv, Types, AliasesAreOwned, Installing
  <2>6. InstalledIsReviewed'
    BY <2>1, <2>2 DEF RegistryInv, Types, InstalledIsReviewed, Installing
  <2>7. RunsAsBound'
    BY <2>1, <2>2 DEF RegistryInv, Types, RunsAsBound, Installing, Generated
  <2> QED
    BY <2>3, <2>4, <2>5, <2>6, <2>7 DEF RegistryInv
<1> QED
  BY <1>1, <1>2, <1>3, <1>4, <1>5

\* A request about an installed plugin writes its bindings, compose.json and the
\* registry, and calls Docker.
LEMMA ServiceStep ==
  ASSUME RegistryInv, NEW w \in Procs, Bind(w) \/ Refresh(w) \/ Docker(w) \/ Forget(w)
  PROVE  RegistryInv'
<1> DEFINE p == proc[w].id
           r == proc[w].release
           Steps == proc' \in [Procs -> Requests] /\ LockInv' /\ AskedInv' /\ WorkInv'
<1> USE DEF owners, config, registry, files, bounds, At
<1>0. proc[w].at \in {"locked", "bound", "fresh", "down"}
  BY DEF Bind, Refresh, Docker, Forget
<1>1. /\ lock = w /\ p \in Ids /\ r \in Releases /\ Serving(w, p, r)
  BY <1>0, Holder
<1>2. CASE Bind(w)
  <2>1. /\ folders' = [folders EXCEPT ![p] = Wanted(w)] /\ Goes(w, "bound")
        /\ records[p] = r /\ up[p] = None
        /\ UNCHANGED <<owners, catalog, registry, files, up, lock, bounds>>
    BY <1>2 DEF Bind, Changed, Running
  <2>2. folders' \in [Ids -> SUBSET Folders] /\ \A i \in Ids : i # p => folders'[i] = folders[i]
    <3>1. proc[w].kind \in Bindings /\ proc[w].folder \in Folders \cup {None}
      BY <1>2 DEF Bind, RegistryInv, Types, Requests
    <3>2. Wanted(w) \in SUBSET Folders
      BY <1>1, <1>2 DEF Bind, Permitted, RegistryInv, Types
    <3> QED
      BY <1>1, <2>1, <3>2 DEF RegistryInv, Types
  <2>3. Steps
    BY <1>0, <1>1, <2>1, HolderGoes DEF Places
  <2>4. Types' /\ PackageInv' /\ AliasesAreOwned' /\ InstalledIsReviewed'
    BY <2>1, <2>2, <2>3 DEF RegistryInv, Types, PackageInv, AliasesAreOwned, InstalledIsReviewed
  <2>5. RunsAsBound'
    BY <2>1, <2>2 DEF RegistryInv, RunsAsBound, Generated
  <2> QED
    BY <2>3, <2>4, <2>5 DEF RegistryInv
<1>3. CASE Refresh(w)
  <2>1. /\ records[p] = r
        /\ compose' = [compose EXCEPT ![p] = Generated(p, r, folders[p])]
        /\ UNCHANGED <<owners, config, registry, packages, images, secrets, up, bounds>>
        /\ (Goes(w, "fresh") /\ UNCHANGED lock) \/ Ends(w)
    BY <1>1, <1>3 DEF Refresh, Refreshed, Changed, Serving
  <2>2. /\ compose' = [i \in Ids |-> compose'[i]] /\ compose'[p] = Generated(p, r, folders[p])
        /\ \A i \in Ids : compose[i] # None => compose'[i] # None
    <3>1. Generated(p, r, folders[p]) # None
      BY <1>1, GeneratedIsSome DEF RegistryInv, Types
    <3> QED
      BY <1>1, <2>1, <3>1 DEF RegistryInv, Types
  <2>3. ASSUME NEW i, NEW s, i = p, s = r PROVE compose'[i] = Generated(i, s, folders[i])'
    BY <2>1, <2>2, <2>3 DEF Generated
  <2>4. Steps
    BY <1>0, <1>1, <2>1, <2>3, HolderGoes, HolderEnds DEF Places
  <2>5. Types' /\ PackageInv' /\ AliasesAreOwned' /\ InstalledIsReviewed' /\ RunsAsBound'
    BY <2>1, <2>2, <2>4 DEF RegistryInv, Types, PackageInv, AliasesAreOwned, InstalledIsReviewed,
      RunsAsBound, Generated
  <2> QED
    BY <2>4, <2>5 DEF RegistryInv
<1>4. CASE Docker(w)
  <2>1. /\ compose[p] = Generated(p, r, folders[p]) /\ records[p] = r
        /\ up' = [up EXCEPT ![p] = IF proc[w].kind = "start" THEN compose[p] ELSE None]
        /\ UNCHANGED <<owners, config, registry, files, bounds>>
        /\ \/ Goes(w, "down") /\ UNCHANGED lock /\ proc[w].kind = "uninstall"
           \/ Ends(w)
    BY <1>1, <1>4 DEF Docker, Serving
  <2>2. /\ up' = [i \in Ids |-> up'[i]] /\ \A i \in Ids : i # p => up'[i] = up[i]
        /\ up'[p] \in {None, Generated(p, r, folders[p])}
        /\ proc[w].kind = "uninstall" => up'[p] = None
    BY <1>1, <2>1 DEF RegistryInv, Types
  <2>3. Steps
    BY <1>0, <1>1, <2>1, <2>2, HolderGoes, HolderEnds DEF Places
  <2>4. Types' /\ PackageInv' /\ AliasesAreOwned' /\ InstalledIsReviewed'
    BY <2>1, <2>2, <2>3 DEF RegistryInv, Types, PackageInv, AliasesAreOwned, InstalledIsReviewed
  <2>5. RunsAsBound'
    <3> SUFFICES ASSUME NEW i \in Ids, (up[i] # None)'
                 PROVE  (records[i] # None /\ up[i] = Generated(i, records[i], folders[i]))'
      BY DEF RunsAsBound
    <3>1. CASE i = p
      BY <1>1, <2>1, <2>2, <3>1, NoneAssumption DEF Generated
    <3>2. CASE i # p
      BY <2>1, <2>2, <3>2 DEF RegistryInv, RunsAsBound, Generated
    <3> QED
      BY <3>1, <3>2
  <2> QED
    BY <2>3, <2>4, <2>5 DEF RegistryInv
<1>5. CASE Forget(w)
  <2>1. /\ records[p] = r /\ up[p] = None
        /\ records' = [records EXCEPT ![p] = None]
        /\ commands' = [a \in Aliases |-> IF commands[a] = p THEN None ELSE commands[a]]
        /\ Ends(w) /\ UNCHANGED <<owners, config, files, up, bounds>>
    BY <1>1, <1>5 DEF Forget, Forgotten, Serving
  <2>2. Steps
    BY <1>0, <2>1, HolderEnds
  <2>3. Types' /\ PackageInv'
    BY <2>1, <2>2 DEF RegistryInv, Types, PackageInv
  <2>4. AliasesAreOwned'
    BY <1>1, <2>1 DEF RegistryInv, Types, AliasesAreOwned
  <2>5. InstalledIsReviewed' /\ RunsAsBound'
    BY <1>1, <2>1 DEF RegistryInv, Types, InstalledIsReviewed, RunsAsBound, Generated
  <2> QED
    BY <2>2, <2>3, <2>4, <2>5 DEF RegistryInv
<1> QED
  BY <1>2, <1>3, <1>4, <1>5

\* Every step keeps the invariant.
LEMMA RegistryInvStep ==
  ASSUME RegistryInv, [Next]_vars
  PROVE  RegistryInv'
<1>1. CASE UNCHANGED vars
  BY <1>1 DEF vars, owners, config, registry, files, bounds, RegistryInv, Types, LockInv, AskedInv,
    WorkInv, Installing, Serving, PackageInv, AliasesAreOwned, InstalledIsReviewed, RunsAsBound,
    Generated
<1> QED
  BY <1>1, AskingStep, EditStep, LockStep, InstallStep, ServiceStep DEF Next

\* The inductive invariant.
THEOREM RegistryInvHolds == Spec => []RegistryInv
<1>1. Init => RegistryInv
  BY PinnedAssumption DEF Init, RegistryInv, Types, LockInv, AskedInv, WorkInv, Installing,
    Serving, PackageInv, AliasesAreOwned, InstalledIsReviewed, RunsAsBound, Idle, Places, Requests
<1> QED
  BY <1>1, RegistryInvStep, PTL DEF Spec

(***************************************************************************)
(* What it says                                                            *)
(***************************************************************************)
\* A secret that was drawn is never drawn again.
LEMMA SecretStep ==
  ASSUME RegistryInv, [Next]_vars, NEW p \in Ids, NEW s \in Secrets, secrets[p][s] # 0
  PROVE  secrets'[p][s] = secrets[p][s]
<1>1. ASSUME NEW w \in Procs, Secret(w) PROVE secrets'[p][s] = secrets[p][s]
  BY <1>1 DEF Secret, Drawn, RegistryInv, Types
<1>2. CASE UNCHANGED secrets
  BY <1>2
<1> QED
  BY <1>1, <1>2 DEF Next, vars, files, AskInstall, AskPin, AskInstalled, Asks, Lock, Busy, Pin,
    Declined, Stage, Describe, Build, Register, Stale, Bind, Refresh, Docker, Forget, Fails, Dies,
    Inspected, Edit

\* Wherever installations, requests and their processes end: every alias of the registry
\* calls the installed plugin that declares it; what is installed is what was reviewed,
\* with its images, compose.json and secrets; what runs is the installed release over the
\* folders bound now; and no secret is lost or drawn twice.
THEOREM RegistryStaysSound == Spec => RegistryIsSound
<1>1. RegistryInv => AliasesAreOwned /\ InstalledIsReviewed /\ RunsAsBound
  BY DEF RegistryInv
<1>2. ASSUME RegistryInv, [Next]_vars
      PROVE  [\A p \in Ids, s \in Secrets :
                secrets[p][s] # 0 => secrets'[p][s] = secrets[p][s]]_vars
  BY <1>2, SecretStep
<1> QED
  BY <1>1, <1>2, RegistryInvHolds, PTL DEF Spec, RegistryIsSound, SecretsPersist

(***************************************************************************)
(* The workspace                                                           *)
(***************************************************************************)
HP == INSTANCE HostProofs WITH
        MaxCrashes <- 0, MaxHandoffs <- 0, Retires <- FALSE, Attempts <- 1,
        proc <- process, lock <- workerLock, job <- lane, crashes <- workerCrashes,
        commands <- pluginCommands, tried <- attempted

\* A behaviour of the composition is one of HostExecutor, whose part stutters while
\* another moves.
LEMMA WritersPart == ResourcesSpec => W!Spec
<1>1. ResourcesInit => W!Init BY DEF ResourcesInit
<1>2. [ResourcesNext]_<<part, vars, setups, hosts>> => [W!Next]_(W!vars)
  BY DEF ResourcesNext, hosts, W!vars, W!fs, W!host, W!watch, W!writers
<1>3. QED BY <1>1, <1>2, PTL DEF ResourcesSpec, W!Spec

\* W and HP are two names of one specification, each of whose actions is the same.
LEMMA SameSteps == W!Next => HP!Next
<1>1. \A r \in Runs : (W!Submit(r) <=> HP!Submit(r)) /\ (W!Stop(r) <=> HP!Stop(r))
                     /\ (W!HandOver(r) <=> HP!HandOver(r)) /\ (W!CliEnds(r) <=> HP!CliEnds(r))
  BY DEF W!Submit, W!Stop, W!HandOver, W!CliEnds, W!File, W!fs, W!host, W!watch, W!writers,
    HP!Submit, HP!Stop, HP!HandOver, HP!CliEnds, HP!File, HP!fs, HP!host, HP!watch, HP!writers
<1>2. \A r \in Runs : W!Observer(r) <=> HP!Observer(r)
  <2>1. \A r \in Runs : W!Beats(r) <=> HP!Beats(r)
    BY DEF W!Beats, W!Alive, HP!Beats, HP!Alive
  <2>2. \A r \in Runs : (W!See(r) <=> HP!See(r)) /\ (W!Offline(r) <=> HP!Offline(r))
    BY <2>1 DEF W!See, W!Offline, W!File, W!host, W!writers, HP!See, HP!Offline, HP!File,
      HP!host, HP!writers
  <2>3. \A r \in Runs : W!Attach(r) <=> HP!Attach(r)
    <3> TAKE r \in Runs
    <3>1. W!NextCheck(check[r]) = HP!NextCheck(check[r]) BY DEF W!NextCheck, HP!NextCheck
    <3>2. \A k : W!Exists(r, k) = HP!Exists(r, k) BY Zenon DEF W!Exists, HP!Exists
    <3>3. \A S : W!Cardinality(S) = HP!Cardinality(S) BY DEF W!Cardinality, HP!Cardinality
    <3>4. QED BY <3>1, <3>2, <3>3 DEF W!Attach, HP!Attach, W!fs, W!host, W!writers, HP!fs,
                                    HP!host, HP!writers
  <2>4. QED BY <2>2, <2>3 DEF W!Observer, HP!Observer
<1>3. \A w \in Workers : (W!Boot(w) <=> HP!Boot(w)) /\ (W!Ready(w) <=> HP!Ready(w))
                        /\ (W!StaleLease(w) <=> HP!StaleLease(w)) /\ (W!Crash(w) <=> HP!Crash(w))
  BY DEF W!Boot, W!Ready, W!StaleLease, W!Crash, W!Alive, W!Orphaned, W!Looping, W!Claiming, W!Lanes,
    W!fs, W!host, W!watch, W!writers, HP!Boot, HP!Ready, HP!StaleLease, HP!Crash, HP!Alive,
    HP!Orphaned, HP!Looping, HP!Claiming, HP!Lanes, HP!fs, HP!host, HP!watch, HP!writers
<1>4. \A w \in Workers : (W!Retire(w) <=> HP!Retire(w)) /\ (W!Retired(w) <=> HP!Retired(w))
  BY DEF W!Retire, W!Retired, W!Lanes, W!Alive, W!Looping, W!Claiming, W!fs, W!host, W!watch, W!writers,
    HP!Retire, HP!Retired, HP!Lanes, HP!Alive, HP!Looping, HP!Claiming, HP!fs, HP!host, HP!watch,
    HP!writers
<1>5. \A w \in Workers, r \in Runs :
       (W!Step(w, r) <=> HP!Step(w, r)) /\ (W!Refuse(w, r) <=> HP!Refuse(w, r))
  BY DEF W!Step, W!Refuse, W!Recover, W!Forget, W!Recovered, W!Reserve, W!Name, W!Open,
    W!Claim, W!Launch, W!Record, W!PollCancel, W!Observe, W!Tell, W!Unclaim, W!Finish,
    W!LastLane, W!Cancelled, W!Leased, W!Looping, W!Claiming, W!Lanes, W!Alive,
    W!Orphaned, W!Job, W!File, W!NoProc, W!Exists, W!fs, W!host, W!watch, W!writers,
    HP!Step, HP!Refuse, HP!Recover, HP!Forget, HP!Recovered, HP!Reserve, HP!Name,
    HP!Open, HP!Claim, HP!Launch, HP!Record, HP!PollCancel, HP!Observe, HP!Tell,
    HP!Unclaim, HP!Finish, HP!LastLane, HP!Cancelled, HP!Leased, HP!Looping,
    HP!Claiming, HP!Lanes, HP!Alive, HP!Orphaned, HP!Job, HP!File, HP!NoProc, HP!Exists,
    HP!fs, HP!host, HP!watch, HP!writers
<1>6. (W!PluginLease <=> HP!PluginLease) /\ (W!PluginCheck <=> HP!PluginCheck)
     /\ (W!PluginEnd <=> HP!PluginEnd)
  BY DEF W!PluginLease, W!PluginCheck, W!PluginEnd, W!Alive, W!Lanes, W!fs, W!host, W!watch,
    W!writers, HP!PluginLease, HP!PluginCheck, HP!PluginEnd, HP!Alive, HP!Lanes, HP!fs,
    HP!host, HP!watch, HP!writers
<1>7. QED BY <1>1, <1>2, <1>3, <1>4, <1>5, <1>6 DEF W!Next, HP!Next

LEMMA SameSpec == W!Spec => HP!Spec
<1>1. W!Init => HP!Init BY DEF W!Init, HP!Init, W!NoFiles, HP!NoFiles, W!NoProc, HP!NoProc
<1>2. [W!Next]_(W!vars) => [HP!Next]_(HP!vars)
  BY SameSteps DEF W!vars, W!fs, W!host, W!watch, W!writers, HP!vars, HP!fs, HP!host,
    HP!watch, HP!writers
<1>3. QED BY <1>1, <1>2, PTL DEF W!Spec, HP!Spec

\* No worker dies here.
LEMMA NobodyDies == W!Spec => [](workerCrashes = 0)
<1>1. W!Init => workerCrashes = 0 BY DEF W!Init
<1>2. workerCrashes = 0 /\ [W!Next]_(W!vars) => (workerCrashes = 0)'
  <2> SUFFICES ASSUME workerCrashes = 0, [W!Next]_(W!vars) PROVE workerCrashes' = 0
    OBVIOUS
  <2>1. ASSUME NEW r \in Runs, W!Submit(r) \/ W!Observer(r) \/ W!Stop(r) \/ W!HandOver(r)
                              \/ W!CliEnds(r)
       PROVE  workerCrashes' = 0
    BY <2>1 DEF W!Submit, W!Observer, W!See, W!Offline, W!Attach, W!Stop, W!HandOver,
      W!CliEnds, W!File
  <2>2. ASSUME NEW w \in Workers, W!Boot(w) \/ W!Ready(w) \/ W!StaleLease(w) \/ W!Retire(w)
                                 \/ W!Retired(w) \/ W!Crash(w)
       PROVE  workerCrashes' = 0
    BY <2>2 DEF W!Boot, W!Ready, W!StaleLease, W!Retire, W!Retired, W!Crash
  <2>3. ASSUME NEW w \in Workers, NEW r \in Runs, W!Step(w, r) \/ W!Refuse(w, r)
       PROVE  workerCrashes' = 0
    BY <2>3 DEF W!Step, W!Refuse, W!Recover, W!Forget, W!Recovered, W!Reserve, W!Name, W!Open, W!Claim, W!Launch, W!Record,
      W!PollCancel, W!Observe, W!Tell, W!Unclaim, W!Finish
  <2>4. CASE W!PluginLease \/ W!PluginCheck \/ W!PluginEnd
    BY <2>4 DEF W!PluginLease, W!PluginCheck, W!PluginEnd
  <2>5. QED BY <2>1, <2>2, <2>3, <2>4 DEF W!Next, W!vars
<1>3. QED BY <1>1, <1>2, PTL DEF W!Spec

\* No plugin command writes to the workspace beside a run's CLI, not even one that is
\* signalled and dying, while no worker dies and none is retired: the lease
\* (workspace-lease.mjs, host-executor.ts) is the worker's from its first run to its last.
THEOREM OneWriterAtATime == ResourcesSpec => []OneWriter
<1>1. HP!Spec => [](workerCrashes = 0 => HP!OneWriter)
  BY HolderAssumption, HP!WorkspaceHasOneWriter DEF HP!NamesDistinct
<1>2. HP!OneWriter => OneWriter BY DEF HP!OneWriter, OneWriter, W!OneWriter
<1>3. QED BY <1>1, <1>2, WritersPart, SameSpec, NobodyDies, PTL
===============================================================================
