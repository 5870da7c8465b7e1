---------------------------- MODULE RoutesProofs ----------------------------
(***************************************************************************)
(* Proofs about Routes, for every set of routes, lifetime, backoff and     *)
(* bound.                                                                  *)
(*                                                                         *)
(*   Typed     the types                                                   *)
(*   Proved    no launch without a probe of the route that still counts,   *)
(*             from BackedInv: whichever way a proof was kept, overwritten *)
(*             or handed on, a probe stands behind it                      *)
(*   Eligible  no proof is lost without a cause, from KeepsInv: a          *)
(*             calibration that nobody has overtaken carries every proof   *)
(*             in the file that counts and that it did not probe           *)
(***************************************************************************)
EXTENDS Routes, TLAPS

USE DEF Subject

(* Types.                                                                   *)

\* The longest delay bounds the others.
LEMMA BackoffBounded ==
    /\ Len(Backoff) \in Nat \ {0}
    /\ \A n \in 1..Len(Backoff) : Backoff[n] \in Nat /\ Backoff[n] <= Backoff[Len(Backoff)]
BY RoutesAssumption

\* A circuit after a failure.
LEMMA FailedTyped == \A c \in Circuit : Failed(c) \in Circuit
<1> SUFFICES ASSUME NEW c \in Circuit PROVE Failed(c) \in Circuit
  OBVIOUS
<1> DEFINE n == IF c.failures < Len(Backoff) THEN c.failures + 1 ELSE c.failures
<1>1. n \in 1..Len(Backoff)
  BY BackoffBounded DEF Circuit
<1>2. Backoff[n] \in 0..Backoff[Len(Backoff)] /\ c.wait \in 0..Backoff[Len(Backoff)]
  BY <1>1, BackoffBounded DEF Circuit
<1>3. Failed(c) = [failures |-> n, wait |-> IF c.wait > Backoff[n] THEN c.wait ELSE Backoff[n]]
  BY DEF Failed
<1> HIDE DEF n
<1> QED BY <1>1, <1>2, <1>3 DEF Circuit

\* No circuit is one.
LEMMA NoCircuitTyped == NoCircuit \in Circuit
BY BackoffBounded DEF NoCircuit, Circuit

\* What the recording of failures and of successes leaves.
LEMMA RecordTyped ==
    ASSUME TypeOK, NEW kind \in {"calibration", "provider"}, NEW R,
           RecordFailure(kind, R) \/ RecordSuccess(kind, R)
    PROVE  circuit' \in [{"calibration", "provider"} -> [Route -> Circuit]]
BY FailedTyped, NoCircuitTyped DEF TypeOK, RecordFailure, RecordSuccess

\* A proof that got older.
LEMMA OlderTyped ==
    \A proof \in Proof :
        /\ Older(proof) \in Proof /\ Older(proof).subject = proof.subject
        /\ Older(proof).left = IF proof.left > 0 THEN proof.left - 1 ELSE 0
<1> SUFFICES ASSUME NEW proof \in Proof
             PROVE  /\ Older(proof) \in Proof /\ Older(proof).subject = proof.subject
                    /\ Older(proof).left = IF proof.left > 0 THEN proof.left - 1 ELSE 0
  OBVIOUS
<1>1. TTL \in Nat /\ proof.left \in 0..TTL /\ proof.subject \in Nat
  BY RoutesAssumption DEF Proof
<1>2. Older(proof) = [left |-> IF proof.left > 0 THEN proof.left - 1 ELSE 0, subject |-> proof.subject]
  BY DEF Older, Less, Proof
<1> QED BY <1>1, <1>2 DEF Proof

\* No proof is one.
LEMMA NoProofTyped == NoProof \in Proof /\ NoProofs \in [Route -> Proof]
BY RoutesAssumption DEF NoProof, NoProofs, Proof

\* What a probe that passed in time gives.
LEMMA NewTyped ==
    \A spent \in 0..Slow, s \in Nat :
        [left |-> TTL - spent, subject |-> s] \in Proof /\ TTL - spent > 0
BY RoutesAssumption DEF Proof

\* No call and no job.
LEMMA NoneTyped == NoCall \in Call /\ NoJob \in Job
<1>1. 0 \in 0..Slow
  BY RoutesAssumption
<1> QED BY <1>1, NoProofTyped DEF NoCall, NoJob, Call, Job

LEMMA InitTyped == Init => TypeOK
<1> SUFFICES ASSUME Init PROVE TypeOK
  OBVIOUS
<1>1. Wanted \subseteq Route
  BY RoutesAssumption
<1>2. subject \in [Route -> Nat] /\ \A r \in Route : subject[r] <= MaxDrift[r]
  BY RoutesAssumption DEF Init
<1>3. circuit \in [{"calibration", "provider"} -> [Route -> Circuit]]
  BY NoCircuitTyped DEF Init
<1>4. calls \in [Caller -> Call] /\ jobs \in [Wanted -> Job]
  BY NoneTyped DEF Init
<1>5. probed \in [Wanted -> Proof] /\ file \in [Route -> Proof] /\ routes \in [Route -> Proof]
  BY NoProofTyped DEF Init
<1> QED BY <1>2, <1>3, <1>4, <1>5 DEF Init, TypeOK

\* The call a caller goes on with.
LEMMA BeginTyped == TypeOK /\ Begin => TypeOK'
<1> SUFFICES ASSUME TypeOK, Begin PROVE TypeOK'
  OBVIOUS
<1>1. \A r \in Route : Kept(r) \in Proof
  BY NoProofTyped DEF TypeOK, Kept
<1>2. routes' \in [Route -> Proof] /\ usable' \in SUBSET Route /\ open' \in SUBSET Route
  BY <1>1 DEF Begin
<1>3. calls' \in [Caller -> Call]
  <2> DEFINE due == {r \in Route : Due(r)}
  <2>1. due \in SUBSET Route
    OBVIOUS
  <2> HIDE DEF due
  <2>2. [NoCall EXCEPT !.at = "plan"] \in Call
    BY NoneTyped DEF Call
  <2>3. [NoCall EXCEPT !.at = "probe", !.todo = due, !.have = usable', !.got = routes'] \in Call
    BY NoneTyped, <2>1, <1>2 DEF Call
  <2>4. calls' = [calls EXCEPT !["controller"] =
           IF due = {} THEN [NoCall EXCEPT !.at = "plan"]
           ELSE [NoCall EXCEPT !.at = "probe", !.todo = due, !.have = usable', !.got = routes']]
    BY DEF Begin, due
  <2> QED BY <2>2, <2>3, <2>4 DEF TypeOK
<1> QED BY <1>2, <1>3 DEF Begin, TypeOK

\* A new call in the place of one.
LEMMA CallTyped ==
    ASSUME TypeOK, NEW p \in Caller, NEW c \in Call, calls' = [calls EXCEPT ![p] = c]
    PROVE  calls' \in [Caller -> Call]
BY DEF TypeOK

LEMMA ProbesTyped ==
    ASSUME TypeOK, NEW p \in Caller, NEW call \in Call, NEW P, Probes(p, call, P)
    PROVE  TypeOK'
<1> DEFINE new == [left |-> TTL - call.spent, subject |-> 0]
           got == [r \in Route |-> IF r \in P THEN [new EXCEPT !.subject = subject[r]]
                                   ELSE IF r \in call.todo THEN NoProof ELSE call.got[r]]
<1>1. \A r \in Route : [new EXCEPT !.subject = subject[r]] \in Proof
  <2> TAKE r \in Route
  <2>1. subject[r] \in Nat /\ call.spent \in 0..Slow
    BY DEF TypeOK, Call
  <2>2. [new EXCEPT !.subject = subject[r]] = [left |-> TTL - call.spent, subject |-> subject[r]]
    OBVIOUS
  <2> QED BY <2>1, <2>2, NewTyped
<1>2. got \in [Route -> Proof]
  BY <1>1, NoProofTyped DEF Call
<1>3. calls' \in [Caller -> Call]
  <2> DEFINE c == [call EXCEPT !.at = "probed", !.todo = {},
                               !.have = (@ \cup P) \ (call.todo \ P),
                               !.failed = call.todo \ P, !.got = got]
  <2>1. P \subseteq Route
    BY DEF Probes, Call
  <2>2. calls' = [calls EXCEPT ![p] = c]
    BY DEF Probes
  <2> HIDE DEF got, new
  <2>3. c \in Call
    BY <1>2, <2>1 DEF Call
  <2> HIDE DEF c
  <2> QED BY <2>2, <2>3, CallTyped
<1>4. probed' \in [Wanted -> Proof]
  <2>1. Wanted \subseteq Route
    BY RoutesAssumption
  <2>2. probed' = [r \in Wanted |->
           IF r \in P /\ (Current(probed[r], r) => probed[r].left < new.left)
           THEN [new EXCEPT !.subject = subject[r]] ELSE probed[r]]
    BY DEF Probes
  <2> HIDE DEF new
  <2> QED BY <1>1, <2>1, <2>2 DEF TypeOK
<1> QED BY <1>3, <1>4 DEF Probes, cycle, TypeOK

LEMMA WriteTyped == \A p \in Caller : TypeOK /\ Write(p) => TypeOK'
<1> SUFFICES ASSUME NEW p \in Caller, TypeOK, Write(p) PROVE TypeOK'
  OBVIOUS
<1>1. file' \in [Route -> Proof]
  BY DEF Write, TypeOK, Call
<1>2. calls' \in [Caller -> Call]
  <2>1. \A q \in Caller : /\ [calls[q] EXCEPT !.at = "written"] \in Call
                          /\ [calls[q] EXCEPT !.stale = @ \/ calls[q].at \in {"probe", "probed"}] \in Call
    BY DEF TypeOK, Call
  <2> QED BY <2>1, NoneTyped DEF Write
<1> QED BY <1>1, <1>2 DEF Write, cycle, TypeOK

LEMMA ProceedTyped == TypeOK /\ Proceed => calls' \in [Caller -> Call]
<1> SUFFICES ASSUME TypeOK, Proceed PROVE calls' \in [Caller -> Call]
  OBVIOUS
<1>1. calls["controller"].spent \in 0..Slow /\ "controller" \in Caller
  BY DEF TypeOK, Caller, Call
<1>2. [NoCall EXCEPT !.at = "plan", !.spent = calls["controller"].spent] \in Call
  BY <1>1, NoneTyped DEF Call
<1> QED BY <1>1, <1>2, CallTyped DEF Proceed

LEMMA RefuseTyped == TypeOK /\ Refuse => TypeOK'
<1> SUFFICES ASSUME TypeOK, Refuse PROVE TypeOK'
  OBVIOUS
<1>1. PICK R : RecordFailure("calibration", R)
  BY DEF Refuse
<1>2. circuit' \in [{"calibration", "provider"} -> [Route -> Circuit]]
  BY <1>1, RecordTyped
<1>3. calls' \in [Caller -> Call]
  BY ProceedTyped DEF Refuse
<1> QED BY <1>2, <1>3 DEF Refuse, cycle, TypeOK

LEMMA RecordResultTyped == TypeOK /\ RecordResult => TypeOK'
<1> SUFFICES ASSUME TypeOK, RecordResult PROVE TypeOK'
  OBVIOUS
<1>1. circuit' \in [{"calibration", "provider"} -> [Route -> Circuit]]
  BY FailedTyped, NoCircuitTyped DEF TypeOK, RecordResult
<1>2. calls' \in [Caller -> Call]
  BY ProceedTyped DEF RecordResult
<1>3. routes' \in [Route -> Proof] /\ usable' \subseteq Route
  BY DEF RecordResult, TypeOK, Caller, Call
<1> QED BY <1>1, <1>2, <1>3 DEF RecordResult, TypeOK

LEMMA PlanTyped == TypeOK /\ Plan => TypeOK'
<1> SUFFICES ASSUME TypeOK, Plan PROVE TypeOK'
  OBVIOUS
<1>1. usable' \subseteq Route
  BY DEF Plan, TypeOK
<1>2. jobs' \in [Wanted -> Job]
  <2>1. PICK S : jobs' = [r \in Wanted |->
            IF r \in S THEN [NoJob EXCEPT !.at = "planned", !.proof = routes[r]] ELSE NoJob]
    BY DEF Plan
  <2>2. \A r \in Wanted : [NoJob EXCEPT !.at = "planned", !.proof = routes[r]] \in Job
    BY NoneTyped, RoutesAssumption DEF TypeOK, Job
  <2> QED BY <2>1, <2>2, NoneTyped
<1>3. calls' \in [Caller -> Call]
  <2>1. [NoCall EXCEPT !.at = "dispatch"] \in Call
    BY NoneTyped DEF Call
  <2> QED BY <2>1, CallTyped DEF Plan, Caller
<1> QED BY <1>1, <1>2, <1>3, NoProofTyped DEF Plan, TypeOK

LEMMA JobTyped ==
    \A r \in Wanted : TypeOK /\ (Check(r) \/ Assert(r) \/ Launch(r) \/ GiveUp(r)) => TypeOK'
<1> SUFFICES ASSUME NEW r \in Wanted, TypeOK, Check(r) \/ Assert(r) \/ Launch(r) \/ GiveUp(r)
             PROVE  TypeOK'
  OBVIOUS
<1>1. r \in Route /\ jobs[r] \in Job
  BY RoutesAssumption DEF TypeOK
<1>2. jobs' \in [Wanted -> Job]
  <2>1. \A at \in {"permitted", "asserted"} : [jobs[r] EXCEPT !.at = at] \in Job
    BY <1>1 DEF Job
  <2>2. [jobs[r] EXCEPT !.at = "permitted", !.permit = subject[r]] \in Job
    BY <1>1 DEF Job, TypeOK
  <2>3. \E j \in Job : jobs' = [jobs EXCEPT ![r] = j]
    <3>1. CASE Check(r) BY <3>1, <2>2, NoneTyped, <1>1 DEF Check, TypeOK
    <3>2. CASE Assert(r) BY <3>2, <2>1, <1>1 DEF Assert, Goto, TypeOK
    <3>3. CASE Launch(r) BY <3>3, NoneTyped DEF Launch
    <3>4. CASE GiveUp(r) BY <3>4, NoneTyped DEF GiveUp
    <3> QED BY <3>1, <3>2, <3>3, <3>4
  <2> QED BY <2>3 DEF TypeOK
<1>3. circuit' \in [{"calibration", "provider"} -> [Route -> Circuit]]
  <2>1. CASE circuit' = circuit BY <2>1 DEF TypeOK
  <2>2. CASE \E kind \in {"calibration", "provider"} :
               RecordFailure(kind, {r}) \/ RecordSuccess(kind, {r})
    BY <2>2, RecordTyped
  <2> QED BY <2>1, <2>2 DEF Check, Assert, Launch, GiveUp
<1> QED BY <1>2, <1>3 DEF Check, Assert, Launch, GiveUp, cycle, TypeOK

LEMMA EndCycleTyped == TypeOK /\ EndCycle => TypeOK'
<1> SUFFICES ASSUME TypeOK, EndCycle PROVE TypeOK'
  OBVIOUS
<1>1. calls' \in [Caller -> Call]
  BY NoneTyped, CallTyped DEF EndCycle, Caller
<1> QED BY <1>1 DEF EndCycle, TypeOK

LEMMA DriftTyped == \A r \in Route : TypeOK /\ Drift(r) => TypeOK'
<1> SUFFICES ASSUME NEW r \in Route, TypeOK, Drift(r) PROVE TypeOK'
  OBVIOUS
<1>1. subject' \in [Route -> Nat] /\ \A q \in Route : subject'[q] <= MaxDrift[q]
  <2>1. MaxDrift[r] \in Nat /\ subject[r] \in Nat /\ subject[r] < MaxDrift[r]
    BY RoutesAssumption DEF Drift, TypeOK
  <2>2. subject[r] + 1 \in Nat /\ subject[r] + 1 <= MaxDrift[r]
    BY <2>1
  <2>3. subject' = [subject EXCEPT ![r] = subject[r] + 1]
    BY DEF Drift
  <2> QED BY <2>2, <2>3 DEF TypeOK
<1>2. circuit' \in [{"calibration", "provider"} -> [Route -> Circuit]]
  BY NoCircuitTyped DEF Drift, TypeOK
<1> QED BY <1>1, <1>2 DEF Drift, cycle, TypeOK

LEMMA CrashTyped == \A p \in Caller : TypeOK /\ Crash(p) => TypeOK'
<1> SUFFICES ASSUME NEW p \in Caller, TypeOK, Crash(p) PROVE TypeOK'
  OBVIOUS
<1>1. calls' \in [Caller -> Call]
  BY NoneTyped, CallTyped DEF Crash
<1>2. routes' \in [Route -> Proof] /\ usable' \subseteq Route /\ open' \subseteq Route
      /\ jobs' \in [Wanted -> Job]
  BY NoneTyped, NoProofTyped DEF Crash, cycle, TypeOK
<1> QED BY <1>1, <1>2 DEF Crash, TypeOK

\* What a tick leaves of a table of proofs.
LEMMA AllOlderTyped ==
    \A S : \A f \in [S -> Proof] :
        AllOlder(f) \in [S -> Proof] /\ \A r \in S : AllOlder(f)[r] = Older(f[r])
BY OlderTyped DEF AllOlder

LEMMA TickTyped == TypeOK /\ Tick => TypeOK'
<1> SUFFICES ASSUME TypeOK, Tick PROVE TypeOK'
  OBVIOUS
<1>1. file' \in [Route -> Proof] /\ routes' \in [Route -> Proof] /\ probed' \in [Wanted -> Proof]
  BY AllOlderTyped DEF TypeOK, Tick
<1>2. circuit' \in [{"calibration", "provider"} -> [Route -> Circuit]]
  <2>1. \A c \in Circuit : [c EXCEPT !.wait = Less(@)] \in Circuit
    <3> TAKE c \in Circuit
    <3>1. Less(c.wait) \in 0..Backoff[Len(Backoff)]
      BY BackoffBounded DEF Circuit, Less
    <3> QED BY <3>1 DEF Circuit
  <2> QED BY <2>1 DEF TypeOK, Tick
<1>3. calls' \in [Caller -> Call]
  <2> SUFFICES ASSUME NEW p \in Caller
               PROVE  [calls[p] EXCEPT
                         !.spent = IF Calibrating(p) THEN @ + 1 ELSE @, !.got = AllOlder(@)] \in Call
    BY DEF Tick
  <2>1. calls[p] \in Call
    BY DEF TypeOK
  <2>2. (IF Calibrating(p) THEN calls[p].spent + 1 ELSE calls[p].spent) \in 0..Slow
    <3>1. calls[p].spent \in 0..Slow /\ Slow \in Nat
      BY <2>1, RoutesAssumption DEF Call
    <3>2. CASE Calibrating(p)
      <4>1. calls[p].spent < Slow
        BY <3>2 DEF Tick
      <4> QED BY <3>1, <3>2, <4>1
    <3>3. CASE ~Calibrating(p)
      BY <3>1, <3>3
    <3> QED BY <3>2, <3>3
  <2>3. AllOlder(calls[p].got) \in [Route -> Proof]
    BY <2>1, AllOlderTyped DEF Call
  <2> QED BY <2>1, <2>2, <2>3 DEF Call
<1>4. jobs' \in [Wanted -> Job]
  <2>1. \A r \in Wanted : [jobs[r] EXCEPT !.proof = Older(@)] \in Job
    BY OlderTyped DEF TypeOK, Job
  <2> QED BY <2>1 DEF Tick
<1> QED BY <1>1, <1>2, <1>3, <1>4 DEF Tick, TypeOK

\* Every step keeps the types.
LEMMA NextTyped == TypeOK /\ [Next]_vars => TypeOK'
<1> SUFFICES ASSUME TypeOK, [Next]_vars PROVE TypeOK'
  OBVIOUS
<1>1. CASE Controller
  <2>1. ASSUME NEW P, Probe(P) PROVE TypeOK'
    BY <2>1, ProbesTyped DEF Probe, Caller, TypeOK
  <2> QED BY <1>1, <2>1, BeginTyped, RefuseTyped, WriteTyped, RecordResultTyped, PlanTyped,
             EndCycleTyped, JobTyped DEF Controller, Caller
<1>2. CASE Operator
  <2>1. ASSUME NEW P, Command(P) PROVE TypeOK'
    <3>1. [NoCall EXCEPT !.todo = Route] \in Call
      BY NoneTyped DEF Call
    <3> QED BY <2>1, <3>1, ProbesTyped DEF Command, Caller
  <2> QED BY <1>2, <2>1, WriteTyped DEF Operator, Caller
<1>3. CASE \E r \in Route : Drift(r)
  BY <1>3, DriftTyped
<1>4. CASE \E p \in Caller : Crash(p)
  BY <1>4, CrashTyped
<1>5. CASE Tick
  BY <1>5, TickTyped
<1>6. CASE Settle
  BY <1>6 DEF Settle, cycle, TypeOK
<1>7. CASE UNCHANGED vars
  BY <1>7 DEF vars, cycle, TypeOK
<1> QED BY <1>1, <1>2, <1>3, <1>4, <1>5, <1>6, <1>7 DEF Next

\* The variables stay in their types.
THEOREM Typed == Spec => []TypeOK
BY InitTyped, NextTyped, PTL DEF Spec

-----------------------------------------------------------------------------
(* Every proof that is around and counts is backed by a probe.              *)

\* A proof is not of a subject to come, and if it counts then so does the best
\* probe of the route, for at least as long.
Backed(proof, r) ==
    /\ proof.subject <= subject[r]
    /\ r \in Wanted /\ Current(proof, r) =>
           Current(probed[r], r) /\ proof.left <= probed[r].left

BestBacked == \A r \in Wanted : probed[r].subject <= subject[r]
FileBacked == \A r \in Route : Backed(file[r], r)
RoutesBacked == \A r \in Route : Backed(routes[r], r)
CallsBacked == \A p \in Caller, r \in Route : Backed(calls[p].got[r], r)

\* What was checked before the launch was checked of the permitted subject.
JobsBacked == \A r \in Wanted :
    /\ Backed(jobs[r].proof, r)
    /\ jobs[r].permit <= subject[r]
    /\ jobs[r].at = "asserted" /\ subject[r] = jobs[r].permit => probed[r].subject = subject[r]

BackedInv == BestBacked /\ FileBacked /\ RoutesBacked /\ CallsBacked /\ JobsBacked

\* A step that neither probes nor changes files leaves every proof as it is.
LEMMA QuietBacked ==
    ASSUME TypeOK, UNCHANGED <<subject, probed>>
    PROVE  \A r \in Route :
               /\ \A proof : Backed(proof, r)' <=> Backed(proof, r)
               /\ Backed(NoProof, r)
BY DEF Backed, Current, NoProof, TypeOK

\* Jobs whose proofs are backed after such a step, and which are not asserted
\* by it.
LEMMA NewJobsBacked ==
    ASSUME TypeOK, TypeOK', JobsBacked, UNCHANGED <<subject, probed>>,
           \A r \in Wanted :
               \/ jobs'[r] = jobs[r]
               \/ /\ Backed(jobs'[r].proof, r)
                  /\ jobs'[r].at # "asserted"
                  /\ jobs'[r].permit \in {0, subject[r]}
    PROVE  JobsBacked'
<1> SUFFICES ASSUME NEW r \in Wanted
             PROVE  /\ Backed(jobs'[r].proof, r)
                    /\ jobs'[r].permit <= subject[r]
                    /\ jobs'[r].at = "asserted" /\ subject[r] = jobs'[r].permit =>
                           probed[r].subject = subject[r]
  BY QuietBacked, RoutesAssumption DEF JobsBacked
<1>1. r \in Route /\ subject[r] \in Nat
  BY RoutesAssumption DEF TypeOK
<1> QED BY <1>1 DEF JobsBacked

LEMMA BeginBacked == TypeOK /\ TypeOK' /\ BackedInv /\ Begin => BackedInv'
<1> SUFFICES ASSUME TypeOK, TypeOK', BackedInv, Begin PROVE BackedInv'
  OBVIOUS
<1> USE DEF BackedInv
<1>1. UNCHANGED <<subject, probed>> /\ UNCHANGED <<file, jobs>>
  BY DEF Begin
<1>2. \A r \in Route : Backed(routes'[r], r)
  BY QuietBacked, <1>1 DEF Begin, Kept, FileBacked
<1>3. \A r \in Route : Backed(calls'["controller"].got[r], r)
  <2>1. calls'["controller"].got \in {NoProofs, routes'}
    BY DEF Begin, NoCall, TypeOK, Caller
  <2> QED BY <2>1, <1>1, <1>2, QuietBacked DEF NoProofs
<1>4. CallsBacked'
  <2>1. calls'["command"] = calls["command"]
    BY DEF Begin, TypeOK, Caller
  <2> QED BY <2>1, <1>1, <1>3, QuietBacked DEF CallsBacked, Caller
<1>5. RoutesBacked' /\ FileBacked'
  BY <1>1, <1>2, QuietBacked DEF RoutesBacked, FileBacked
<1>6. BestBacked'
  BY <1>1 DEF BestBacked
<1>7. JobsBacked'
  BY <1>1, NewJobsBacked
<1> QED BY <1>4, <1>5, <1>6, <1>7

\* The end of a call, whatever follows, leaves no proof in it.
LEMMA EndedCall ==
    ASSUME TypeOK, NEW p \in Caller, NEW c, c.got = NoProofs,
           calls' = [calls EXCEPT ![p] = c],
           UNCHANGED <<subject, probed>>, CallsBacked
    PROVE  CallsBacked'
<1>1. \A q \in Caller : calls'[q].got = IF q = p THEN NoProofs ELSE calls[q].got
  BY DEF TypeOK
<1> QED BY <1>1, QuietBacked DEF CallsBacked, NoProofs

LEMMA ProceedBacked ==
    ASSUME TypeOK, Proceed, UNCHANGED <<subject, probed>>, CallsBacked
    PROVE  CallsBacked'
<1> DEFINE c == [NoCall EXCEPT !.at = "plan", !.spent = calls["controller"].spent]
<1>1. c.got = NoProofs
  BY DEF NoCall
<1>2. calls' = [calls EXCEPT !["controller"] = c] /\ "controller" \in Caller
  BY DEF Proceed, Caller
<1> HIDE DEF c
<1> QED BY <1>1, <1>2, EndedCall

LEMMA RefuseBacked == TypeOK /\ TypeOK' /\ BackedInv /\ Refuse => BackedInv'
<1> SUFFICES ASSUME TypeOK, TypeOK', BackedInv, Refuse PROVE BackedInv'
  OBVIOUS
<1> USE DEF BackedInv
<1>1. UNCHANGED <<subject, probed>> /\ UNCHANGED <<file, jobs, routes>>
  BY DEF Refuse, cycle
<1>2. CallsBacked'
  BY <1>1, ProceedBacked DEF Refuse
<1>3. RoutesBacked' /\ FileBacked' /\ BestBacked'
  BY <1>1, QuietBacked DEF RoutesBacked, FileBacked, BestBacked
<1>4. JobsBacked'
  BY <1>1, NewJobsBacked
<1> QED BY <1>2, <1>3, <1>4

LEMMA WriteBacked == \A p \in Caller : TypeOK /\ TypeOK' /\ BackedInv /\ Write(p) => BackedInv'
<1> SUFFICES ASSUME NEW p \in Caller, TypeOK, TypeOK', BackedInv, Write(p) PROVE BackedInv'
  OBVIOUS
<1> USE DEF BackedInv
<1>1. UNCHANGED <<subject, probed>> /\ UNCHANGED <<jobs, routes>>
  BY DEF Write, cycle
<1>2. FileBacked'
  BY <1>1, QuietBacked DEF Write, CallsBacked, FileBacked
<1>3. CallsBacked'
  <2>1. \A q \in Caller : calls'[q].got \in {calls[q].got, NoProofs}
    BY DEF Write, TypeOK, NoCall, Call
  <2> QED BY <1>1, <2>1, QuietBacked DEF CallsBacked, NoProofs
<1>4. RoutesBacked' /\ BestBacked'
  BY <1>1, QuietBacked DEF RoutesBacked, BestBacked
<1>5. JobsBacked'
  BY <1>1, NewJobsBacked
<1> QED BY <1>2, <1>3, <1>4, <1>5

LEMMA RecordResultBacked == TypeOK /\ TypeOK' /\ BackedInv /\ RecordResult => BackedInv'
<1> SUFFICES ASSUME TypeOK, TypeOK', BackedInv, RecordResult PROVE BackedInv'
  OBVIOUS
<1> USE DEF BackedInv
<1>1. UNCHANGED <<subject, probed>> /\ UNCHANGED <<file, jobs>>
  BY DEF RecordResult
<1>2. CallsBacked'
  BY <1>1, ProceedBacked DEF RecordResult
<1>3. RoutesBacked'
  BY <1>1, QuietBacked DEF RecordResult, CallsBacked, RoutesBacked, Caller
<1>4. FileBacked' /\ BestBacked'
  BY <1>1, QuietBacked DEF FileBacked, BestBacked
<1>5. JobsBacked'
  BY <1>1, NewJobsBacked
<1> QED BY <1>2, <1>3, <1>4, <1>5

LEMMA PlanBacked == TypeOK /\ TypeOK' /\ BackedInv /\ Plan => BackedInv'
<1> SUFFICES ASSUME TypeOK, TypeOK', BackedInv, Plan PROVE BackedInv'
  OBVIOUS
<1> USE DEF BackedInv
<1>1. UNCHANGED <<subject, probed>> /\ UNCHANGED file
  BY DEF Plan
<1>2. CallsBacked'
  <2>1. [NoCall EXCEPT !.at = "dispatch"].got = NoProofs
    BY DEF NoCall
  <2> QED BY <1>1, <2>1, EndedCall DEF Plan, Caller
<1>3. RoutesBacked' /\ FileBacked' /\ BestBacked'
  BY <1>1, QuietBacked DEF Plan, RoutesBacked, NoProofs, FileBacked, BestBacked
<1>4. JobsBacked'
  <2>1. PICK S : jobs' = [r \in Wanted |->
            IF r \in S THEN [NoJob EXCEPT !.at = "planned", !.proof = routes[r]] ELSE NoJob]
    BY DEF Plan
  <2>2. ASSUME NEW r \in Wanted
        PROVE  Backed(jobs'[r].proof, r) /\ jobs'[r].at # "asserted" /\ jobs'[r].permit = 0
    <3>1. r \in Route
      BY RoutesAssumption
    <3>2. jobs'[r].proof \in {routes[r], NoProof} /\ jobs'[r].at # "asserted" /\ jobs'[r].permit = 0
      BY <2>1 DEF NoJob
    <3> QED BY <1>1, <3>1, <3>2, QuietBacked DEF RoutesBacked
  <2> QED BY <1>1, <2>2, NewJobsBacked
<1> QED BY <1>2, <1>3, <1>4

\* Steps of a job.
LEMMA JobBacked ==
    \A r \in Wanted : TypeOK /\ TypeOK' /\ BackedInv
        /\ (Check(r) \/ Assert(r) \/ Launch(r) \/ GiveUp(r)) => BackedInv'
<1> SUFFICES ASSUME NEW r \in Wanted, TypeOK, TypeOK', BackedInv,
                    Check(r) \/ Assert(r) \/ Launch(r) \/ GiveUp(r)
             PROVE  BackedInv'
  OBVIOUS
<1> USE DEF BackedInv
<1>1. UNCHANGED <<subject, probed>> /\ UNCHANGED <<file, calls, routes>>
  BY DEF Check, Assert, Launch, GiveUp, cycle
<1>2. CallsBacked' /\ RoutesBacked' /\ FileBacked' /\ BestBacked'
  BY <1>1, QuietBacked DEF CallsBacked, RoutesBacked, FileBacked, BestBacked
<1>3. r \in Route /\ jobs[r] \in Job /\ Backed(NoProof, r) /\ Backed(jobs[r].proof, r)
  BY <1>1, QuietBacked, RoutesAssumption DEF TypeOK, JobsBacked
<1>4. CASE Assert(r)
  <2>1. jobs'[r] = [jobs[r] EXCEPT !.at = "asserted"]
        /\ \A q \in Wanted \ {r} : jobs'[q] = jobs[q]
    BY <1>4 DEF Assert, Goto, TypeOK
  <2>2. probed[r].subject = subject[r]
    BY <1>3, <1>4 DEF Assert, Backed, Current
  <2>3. jobs'[r].proof = jobs[r].proof /\ jobs'[r].permit = jobs[r].permit
    BY <1>3, <2>1 DEF Job
  <2>4. JobsBacked'
    <3> SUFFICES ASSUME NEW q \in Wanted
                 PROVE  /\ Backed(jobs'[q].proof, q)
                        /\ jobs'[q].permit <= subject[q]
                        /\ jobs'[q].at = "asserted" /\ subject[q] = jobs'[q].permit =>
                               probed[q].subject = subject[q]
      BY <1>1, QuietBacked, RoutesAssumption DEF JobsBacked
    <3> QED BY <2>1, <2>2, <2>3 DEF JobsBacked
  <2> QED BY <1>2, <2>4
<1>5. CASE ~Assert(r)
  <2>1. \/ jobs' = [jobs EXCEPT ![r] = NoJob]
        \/ jobs' = [jobs EXCEPT ![r] = [jobs[r] EXCEPT !.at = "permitted", !.permit = subject[r]]]
    BY <1>5 DEF Check, Launch, GiveUp, TypeOK
  <2>2. \A q \in Wanted \ {r} : jobs'[q] = jobs[q]
    BY <2>1 DEF TypeOK
  <2>3. /\ jobs'[r].proof \in {jobs[r].proof, NoProof}
        /\ jobs'[r].at # "asserted"
        /\ jobs'[r].permit \in {0, subject[r]}
    <3>1. CASE jobs' = [jobs EXCEPT ![r] = NoJob]
      BY <3>1 DEF TypeOK, NoJob
    <3>2. CASE jobs' = [jobs EXCEPT ![r] = [jobs[r] EXCEPT !.at = "permitted", !.permit = subject[r]]]
      BY <1>3, <3>2 DEF TypeOK, Job
    <3> QED BY <2>1, <3>1, <3>2
  <2>4. JobsBacked'
    BY <1>1, <1>3, <2>2, <2>3, NewJobsBacked
  <2> QED BY <1>2, <2>4
<1> QED BY <1>4, <1>5

LEMMA EndCycleBacked == TypeOK /\ TypeOK' /\ BackedInv /\ EndCycle => BackedInv'
<1> SUFFICES ASSUME TypeOK, TypeOK', BackedInv, EndCycle PROVE BackedInv'
  OBVIOUS
<1> USE DEF BackedInv
<1>1. UNCHANGED <<subject, probed>> /\ UNCHANGED <<file, routes, jobs>>
  BY DEF EndCycle
<1>2. CallsBacked'
  <2>1. NoCall.got = NoProofs
    BY DEF NoCall
  <2> QED BY <1>1, <2>1, EndedCall DEF EndCycle, Caller
<1>3. RoutesBacked' /\ FileBacked' /\ BestBacked'
  BY <1>1, QuietBacked DEF RoutesBacked, FileBacked, BestBacked
<1>4. JobsBacked'
  BY <1>1, NewJobsBacked
<1> QED BY <1>2, <1>3, <1>4

LEMMA CrashBacked == \A p \in Caller : TypeOK /\ TypeOK' /\ BackedInv /\ Crash(p) => BackedInv'
<1> SUFFICES ASSUME NEW p \in Caller, TypeOK, TypeOK', BackedInv, Crash(p) PROVE BackedInv'
  OBVIOUS
<1> USE DEF BackedInv
<1>1. UNCHANGED <<subject, probed>> /\ UNCHANGED file
  BY DEF Crash
<1>2. CallsBacked'
  BY <1>1, EndedCall DEF Crash, NoCall
<1>3. FileBacked' /\ BestBacked'
  BY <1>1, QuietBacked DEF FileBacked, BestBacked
<1>4. RoutesBacked'
  <2>1. routes' \in {routes, NoProofs}
    BY DEF Crash, cycle
  <2> QED BY <1>1, <2>1, QuietBacked DEF RoutesBacked, NoProofs
<1>5. JobsBacked'
  <2>1. jobs' = jobs \/ jobs' = [r \in Wanted |-> NoJob]
    BY DEF Crash
  <2>2. \A r \in Wanted : Backed(NoProof, r)
    BY <1>1, QuietBacked, RoutesAssumption
  <2> QED BY <1>1, <2>1, <2>2, NewJobsBacked DEF NoJob
<1> QED BY <1>2, <1>3, <1>4, <1>5

\* Probes replace the best proof by one that counts for longer only.
LEMMA ProbesBacked ==
    ASSUME TypeOK, TypeOK', BackedInv, NEW p \in Caller, NEW call \in Call, NEW P,
           \A r \in Route : Backed(call.got[r], r),
           Probes(p, call, P)
    PROVE  BackedInv'
<1> DEFINE fresh(r) == [left |-> TTL - call.spent, subject |-> subject[r]]
<1> USE DEF BackedInv
<1>1. UNCHANGED subject /\ UNCHANGED <<file, jobs, routes>>
  BY DEF Probes, cycle
<1>2. \A r \in Route : /\ fresh(r) \in Proof /\ fresh(r).left > 0 /\ fresh(r).left = TTL - call.spent
                       /\ fresh(r).subject = subject[r] /\ subject[r] \in Nat
  BY NewTyped DEF TypeOK, Call
<1>3. \A r \in Wanted : probed'[r] =
          IF r \in P /\ (Current(probed[r], r) => probed[r].left < fresh(r).left)
          THEN fresh(r) ELSE probed[r]
  <2>1. \A r \in Wanted : [[left |-> TTL - call.spent, subject |-> 0] EXCEPT !.subject = subject[r]] = fresh(r)
    OBVIOUS
  <2> QED BY <2>1 DEF Probes
<1> HIDE DEF fresh
<1>4. \A r \in Route, proof \in Proof : Backed(proof, r) => Backed(proof, r)'
  <2> SUFFICES ASSUME NEW r \in Route, NEW proof \in Proof, Backed(proof, r), r \in Wanted,
                      Current(proof, r)
               PROVE  Current(probed'[r], r) /\ proof.left <= probed'[r].left
    BY <1>1 DEF Backed, Current
  <2>1. Current(probed[r], r) /\ proof.left <= probed[r].left
    BY DEF Backed
  <2>2. proof.left \in Nat /\ probed[r].left \in Nat /\ fresh(r).left \in Nat
    BY <1>2, RoutesAssumption DEF TypeOK, Proof
  <2>3. CASE probed'[r] = probed[r]
    BY <2>1, <2>3
  <2>4. CASE probed'[r] = fresh(r) /\ probed[r].left < fresh(r).left
    BY <1>2, <2>1, <2>2, <2>4 DEF Current
  <2> QED BY <1>3, <2>1, <2>3, <2>4
<1>5. \A r \in P, proof \in Proof : r \in Route /\ proof = fresh(r) => Backed(proof, r)'
  <2> SUFFICES ASSUME NEW r \in P, r \in Route, r \in Wanted
               PROVE  Current(probed'[r], r) /\ fresh(r).left <= probed'[r].left
    BY <1>1, <1>2 DEF Backed, Current
  <2>1. probed[r].left \in Nat /\ fresh(r).left \in Nat
    BY <1>2, RoutesAssumption DEF TypeOK, Proof
  <2> QED BY <1>2, <1>3, <2>1 DEF Current
<1>6. \A r \in Route : Backed(NoProof, r)'
  BY <1>1, <1>2 DEF Backed, Current, NoProof
<1>7. CallsBacked'
  <2> SUFFICES ASSUME NEW q \in Caller, NEW r \in Route
               PROVE  Backed(calls[q].got[r], r)'
    BY DEF CallsBacked
  <2>1. CASE q # p
    <3>1. calls'[q] = calls[q] /\ calls[q].got[r] \in Proof
      <4>1. \E c : calls' = [calls EXCEPT ![p] = c]
        BY DEF Probes
      <4> QED BY <2>1, <4>1 DEF TypeOK, Call
    <3>2. Backed(calls[q].got[r], r)
      BY DEF CallsBacked
    <3> QED BY <1>1, <1>4, <3>1, <3>2 DEF Backed, Current
  <2>2. CASE q = p
    <3>1. calls'[p].got[r] \in {fresh(r), NoProof, call.got[r]}
          /\ (calls'[p].got[r] = fresh(r) \/ calls'[p].got[r] \in {NoProof, call.got[r]})
          /\ (r \notin P => calls'[p].got[r] \in {NoProof, call.got[r]})
      BY DEF Probes, TypeOK, Call, fresh
    <3>2. call.got[r] \in Proof /\ Backed(call.got[r], r)'
      BY <1>4 DEF Call
    <3>3. fresh(r) \in Proof
      BY <1>2
    <3>4. CASE r \in P /\ calls'[p].got[r] = fresh(r)
      BY <1>1, <1>5, <2>2, <3>3, <3>4 DEF Backed, Current
    <3>5. CASE calls'[p].got[r] \in {NoProof, call.got[r]}
      BY <1>1, <1>6, <2>2, <3>2, <3>5 DEF Backed, Current
    <3> QED BY <3>1, <3>4, <3>5
  <2> QED BY <2>1, <2>2
<1>8. FileBacked' /\ RoutesBacked'
  <2>1. \A r \in Route : file[r] \in Proof /\ routes[r] \in Proof
    BY DEF TypeOK
  <2> QED BY <1>1, <1>4, <2>1 DEF FileBacked, RoutesBacked, Backed, Current
<1>9. BestBacked'
  BY <1>1, <1>2, <1>3, RoutesAssumption DEF BestBacked
<1>10. JobsBacked'
  <2> SUFFICES ASSUME NEW r \in Wanted
               PROVE  /\ Backed(jobs[r].proof, r)'
                      /\ jobs[r].permit <= subject[r]
                      /\ jobs[r].at = "asserted" /\ subject[r] = jobs[r].permit =>
                             probed'[r].subject = subject[r]
    BY <1>1 DEF JobsBacked, Backed, Current
  <2>1. r \in Route /\ jobs[r].proof \in Proof /\ Backed(jobs[r].proof, r)
    BY RoutesAssumption DEF TypeOK, Job, JobsBacked
  <2>2. Backed(jobs[r].proof, r)'
    BY <1>1, <1>4, <2>1 DEF Backed, Current
  <2> QED BY <1>2, <1>3, <2>1, <2>2 DEF JobsBacked
<1> QED BY <1>7, <1>8, <1>9, <1>10

\* No proof of a route whose files change counts any more.
LEMMA DriftBacked == \A d \in Route : TypeOK /\ TypeOK' /\ BackedInv /\ Drift(d) => BackedInv'
<1> SUFFICES ASSUME NEW d \in Route, TypeOK, TypeOK', BackedInv, Drift(d) PROVE BackedInv'
  OBVIOUS
<1> USE DEF BackedInv
<1>1. UNCHANGED <<probed, file, jobs, routes, calls>>
  BY DEF Drift, cycle
<1>2. \A r \in Route : /\ subject[r] \in Nat /\ subject'[r] \in Nat
                       /\ subject'[r] = IF r = d THEN subject[r] + 1 ELSE subject[r]
  BY DEF Drift, TypeOK
<1>3. \A r \in Route, proof \in Proof : Backed(proof, r) => Backed(proof, r)'
  <2> TAKE r \in Route, proof \in Proof
  <2>1. proof.subject \in Nat
    BY DEF Proof
  <2> QED BY <1>1, <1>2, <2>1 DEF Backed, Current
<1>4. FileBacked' /\ RoutesBacked' /\ CallsBacked'
  <2>1. \A r \in Route : /\ file[r] \in Proof /\ routes[r] \in Proof
                         /\ \A q \in Caller : calls[q].got[r] \in Proof
    BY DEF TypeOK, Call
  <2>2. \A r \in Route : Backed(file[r], r)' /\ Backed(routes[r], r)'
    BY <1>1, <1>3, <2>1 DEF FileBacked, RoutesBacked, Backed, Current
  <2>3. \A r \in Route, q \in Caller : Backed(calls[q].got[r], r)'
    BY <1>1, <1>3, <2>1 DEF CallsBacked, Backed, Current
  <2> QED BY <2>2, <2>3 DEF FileBacked, RoutesBacked, CallsBacked
<1>5. BestBacked'
  <2> SUFFICES ASSUME NEW r \in Wanted PROVE probed[r].subject <= subject'[r]
    BY <1>1 DEF BestBacked
  <2>1. probed[r].subject \in Nat /\ probed[r].subject <= subject[r] /\ r \in Route
    BY RoutesAssumption DEF BestBacked, TypeOK, Proof
  <2> QED BY <1>2, <2>1
<1>6. JobsBacked'
  <2> SUFFICES ASSUME NEW r \in Wanted
               PROVE  /\ Backed(jobs[r].proof, r)'
                      /\ jobs[r].permit <= subject'[r]
                      /\ jobs[r].at = "asserted" /\ subject'[r] = jobs[r].permit =>
                             probed[r].subject = subject'[r]
    BY <1>1 DEF JobsBacked, Backed, Current
  <2>1. r \in Route /\ jobs[r].proof \in Proof /\ jobs[r].permit \in Nat
    BY RoutesAssumption DEF TypeOK, Job
  <2>2. Backed(jobs[r].proof, r) /\ jobs[r].permit <= subject[r]
        /\ (jobs[r].at = "asserted" /\ subject[r] = jobs[r].permit => probed[r].subject = subject[r])
    BY DEF JobsBacked
  <2>3. Backed(jobs[r].proof, r)'
    BY <1>1, <1>3, <2>1, <2>2 DEF Backed, Current
  <2> QED BY <1>2, <2>1, <2>2, <2>3
<1> QED BY <1>4, <1>5, <1>6

\* All proofs get older together.
LEMMA TickBacked == TypeOK /\ TypeOK' /\ BackedInv /\ Tick => BackedInv'
<1> SUFFICES ASSUME TypeOK, TypeOK', BackedInv, Tick PROVE BackedInv'
  OBVIOUS
<1> USE DEF BackedInv
<1>1. UNCHANGED subject
  BY DEF Tick
<1>2. /\ \A r \in Wanted : probed'[r] = Older(probed[r])
      /\ \A r \in Route : file'[r] = Older(file[r]) /\ routes'[r] = Older(routes[r])
  <2>1. probed' = AllOlder(probed) /\ file' = AllOlder(file) /\ routes' = AllOlder(routes)
    BY DEF Tick
  <2>2. probed \in [Wanted -> Proof] /\ file \in [Route -> Proof] /\ routes \in [Route -> Proof]
    BY DEF TypeOK
  <2> QED BY <2>1, <2>2, AllOlderTyped
<1>3. \A r \in Route, proof \in Proof : Backed(proof, r) => Backed(Older(proof), r)'
  <2> SUFFICES ASSUME NEW r \in Route, NEW proof \in Proof, Backed(proof, r)
               PROVE  Backed(Older(proof), r)'
    OBVIOUS
  <2>1. proof.left \in Nat /\ Older(proof).subject = proof.subject
        /\ Older(proof).left = IF proof.left > 0 THEN proof.left - 1 ELSE 0
    BY OlderTyped, RoutesAssumption DEF Proof
  <2>2. r \in Wanted => /\ probed[r].left \in Nat /\ probed'[r].subject = probed[r].subject
                        /\ probed'[r].left = IF probed[r].left > 0 THEN probed[r].left - 1 ELSE 0
    BY <1>2, OlderTyped, RoutesAssumption DEF TypeOK, Proof
  <2> QED BY <1>1, <2>1, <2>2 DEF Backed, Current
<1>4. FileBacked' /\ RoutesBacked'
  <2>1. \A r \in Route : file[r] \in Proof /\ routes[r] \in Proof
    BY DEF TypeOK
  <2> QED BY <1>1, <1>2, <1>3, <2>1 DEF FileBacked, RoutesBacked, Backed, Current
<1>5. CallsBacked'
  <2> SUFFICES ASSUME NEW p \in Caller, NEW r \in Route PROVE Backed(calls[p].got[r], r)'
    BY DEF CallsBacked
  <2>1. calls[p].got[r] \in Proof /\ calls[p].got \in [Route -> Proof]
    BY DEF TypeOK, Call
  <2>2. calls'[p].got[r] = Older(calls[p].got[r])
    <3>1. calls'[p].got = AllOlder(calls[p].got)
      BY DEF Tick, TypeOK, Call
    <3> QED BY <2>1, <3>1, AllOlderTyped
  <2> QED BY <1>1, <1>3, <2>1, <2>2 DEF CallsBacked, Backed, Current
<1>6. BestBacked'
  <2>1. \A r \in Wanted : probed'[r].subject = probed[r].subject
    BY <1>2, OlderTyped DEF TypeOK
  <2> QED BY <1>1, <2>1 DEF BestBacked
<1>7. JobsBacked'
  <2> SUFFICES ASSUME NEW r \in Wanted
               PROVE  /\ Backed(jobs[r].proof, r)'
                      /\ jobs'[r].permit <= subject[r]
                      /\ jobs'[r].at = "asserted" /\ subject[r] = jobs'[r].permit =>
                             probed'[r].subject = subject[r]
    BY <1>1 DEF JobsBacked
  <2>1. r \in Route /\ jobs[r].proof \in Proof /\ jobs[r] \in Job
    BY RoutesAssumption DEF TypeOK, Job
  <2>2. jobs'[r] = [jobs[r] EXCEPT !.proof = Older(@)]
    BY DEF Tick
  <2>3. jobs'[r].proof = Older(jobs[r].proof) /\ jobs'[r].permit = jobs[r].permit /\ jobs'[r].at = jobs[r].at
    BY <2>1, <2>2 DEF Job
  <2>4. Backed(jobs[r].proof, r)'
    BY <1>1, <1>3, <2>1, <2>3 DEF JobsBacked, Backed, Current
  <2>5. probed'[r].subject = probed[r].subject
    BY <1>2, OlderTyped DEF TypeOK
  <2> QED BY <2>3, <2>4, <2>5 DEF JobsBacked
<1> QED BY <1>4, <1>5, <1>6, <1>7

LEMMA InitBacked == Init => BackedInv
<1> SUFFICES ASSUME Init PROVE BackedInv
  OBVIOUS
<1>1. Wanted \subseteq Route
  BY RoutesAssumption
<1>2. \A r \in Route : Backed(NoProof, r)
  <2> TAKE r \in Route
  <2>1. NoProof.left = 0 /\ NoProof.subject = 0 /\ subject[r] = 0
    BY DEF Init, NoProof
  <2>2. NoProof.subject <= subject[r] /\ ~Current(NoProof, r)
    BY <2>1 DEF Current
  <2> QED BY <2>2 DEF Backed
<1>3. FileBacked /\ RoutesBacked
  BY <1>2 DEF Init, NoProofs, FileBacked, RoutesBacked
<1>4. CallsBacked
  BY <1>2 DEF Init, NoCall, NoProofs, CallsBacked
<1>5. BestBacked /\ JobsBacked
  BY <1>1, <1>2 DEF Init, BestBacked, JobsBacked, NoJob, NoProof
<1> QED BY <1>3, <1>4, <1>5 DEF BackedInv

LEMMA NextBacked == TypeOK /\ BackedInv /\ [Next]_vars => BackedInv'
<1> SUFFICES ASSUME TypeOK, BackedInv, [Next]_vars PROVE BackedInv'
  OBVIOUS
<1>1. TypeOK'
  BY NextTyped
<1>2. CASE Controller
  <2>1. ASSUME NEW P, Probe(P) PROVE BackedInv'
    <3>1. calls["controller"] \in Call /\ \A r \in Route : Backed(calls["controller"].got[r], r)
      BY DEF TypeOK, Caller, BackedInv, CallsBacked
    <3> QED BY <1>1, <2>1, <3>1, ProbesBacked DEF Probe, Caller
  <2> QED BY <1>1, <1>2, <2>1, BeginBacked, RefuseBacked, WriteBacked, RecordResultBacked,
             PlanBacked, EndCycleBacked, JobBacked DEF Controller, Caller
<1>3. CASE Operator
  <2>1. ASSUME NEW P, Command(P) PROVE BackedInv'
    <3> DEFINE c == [NoCall EXCEPT !.todo = Route]
    <3>1. c \in Call
      BY NoneTyped DEF Call
    <3>2. \A r \in Route : Backed(c.got[r], r)
      BY DEF NoCall, NoProofs, NoProof, Backed, Current, TypeOK
    <3>3. Probes("command", c, P)
      BY <2>1 DEF Command
    <3> HIDE DEF c
    <3> QED BY <1>1, <3>1, <3>2, <3>3, ProbesBacked DEF Caller
  <2> QED BY <1>1, <1>3, <2>1, WriteBacked DEF Operator, Caller
<1>4. CASE \E r \in Route : Drift(r)
  BY <1>1, <1>4, DriftBacked
<1>5. CASE \E p \in Caller : Crash(p)
  BY <1>1, <1>5, CrashBacked
<1>6. CASE Tick
  BY <1>1, <1>6, TickBacked
<1>7. CASE Settle \/ UNCHANGED vars
  <2>1. UNCHANGED <<subject, probed, file, routes, calls, jobs>>
    BY <1>7 DEF Settle, cycle, vars
  <2> QED BY <2>1 DEF BackedInv, BestBacked, FileBacked, RoutesBacked, CallsBacked, JobsBacked,
                      Backed, Current
<1> QED BY <1>2, <1>3, <1>4, <1>5, <1>6, <1>7 DEF Next

\* No launch without a probe of the route that still counts.
THEOREM Proved == Spec => LaunchProved
<1>1. TypeOK /\ BackedInv /\ [Next]_vars =>
          [\A r \in Wanted :
              /\ jobs[r].at # "asserted" /\ jobs'[r].at = "asserted" => Current(probed[r], r)
              /\ Launch(r) => probed[r].subject = subject[r]]_vars
  <2> SUFFICES ASSUME TypeOK, BackedInv, [Next]_vars, NEW r \in Wanted
               PROVE  /\ jobs[r].at # "asserted" /\ jobs'[r].at = "asserted" => Current(probed[r], r)
                      /\ Launch(r) => probed[r].subject = subject[r]
    OBVIOUS
  <2>1. r \in Route
    BY RoutesAssumption
  <2>2. Launch(r) => probed[r].subject = subject[r]
    BY DEF Launch, BackedInv, JobsBacked
  <2>3. ASSUME jobs[r].at # "asserted", jobs'[r].at = "asserted" PROVE Assert(r)
    <3>1. \A q \in Wanted : Check(q) \/ Assert(q) \/ Launch(q) \/ GiveUp(q) => Assert(r)
      <4> SUFFICES ASSUME NEW q \in Wanted, Check(q) \/ Assert(q) \/ Launch(q) \/ GiveUp(q)
                   PROVE  Assert(r)
        OBVIOUS
      <4>1. \E j : jobs' = [jobs EXCEPT ![q] = j]
        BY DEF Check, Assert, Goto, Launch, GiveUp, TypeOK
      <4>2. q = r
        BY <2>3, <4>1 DEF TypeOK
      <4>3. ~Check(r) /\ ~Launch(r) /\ ~GiveUp(r)
        BY <2>3 DEF Check, Launch, GiveUp, TypeOK, NoJob, Job
      <4> QED BY <4>2, <4>3
    <3>2. CASE Plan
      <4>1. PICK S : jobs' = [s \in Wanted |->
                IF s \in S THEN [NoJob EXCEPT !.at = "planned", !.proof = routes[s]] ELSE NoJob]
        BY <3>2 DEF Plan
      <4>2. jobs'[r].at \in {"planned", "none"}
        BY <4>1 DEF NoJob
      <4> QED BY <2>3, <4>2
    <3>3. CASE Tick
      BY <2>3, <3>3 DEF Tick, TypeOK, Job
    <3>4. CASE \E p \in Caller : Crash(p)
      <4>1. jobs' = jobs \/ jobs' = [s \in Wanted |-> NoJob]
        BY <3>4 DEF Crash
      <4> QED BY <2>3, <4>1 DEF NoJob
    <3>5. UNCHANGED jobs => FALSE
      BY <2>3
    <3>6. CASE Controller
      BY <3>1, <3>2, <3>5, <3>6 DEF Controller, Begin, Refuse, Write, RecordResult, EndCycle,
         Probe, Probes
    <3>7. CASE Operator
      BY <3>5, <3>7 DEF Operator, Write, Command, Probes
    <3>8. CASE (\E s \in Route : Drift(s)) \/ Settle \/ UNCHANGED vars
      BY <3>5, <3>8 DEF Drift, Settle, vars
    <3> QED BY <3>3, <3>4, <3>6, <3>7, <3>8 DEF Next
  <2>4. Assert(r) => Current(probed[r], r)
    BY <2>1 DEF Assert, BackedInv, JobsBacked, Backed
  <2> QED BY <2>2, <2>3, <2>4
<1>2. Init => TypeOK /\ BackedInv
  BY InitTyped, InitBacked
<1>3. TypeOK /\ BackedInv /\ [Next]_vars => TypeOK' /\ BackedInv'
  BY NextTyped, NextBacked
<1> QED BY <1>1, <1>2, <1>3, PTL DEF Spec, LaunchProved

-----------------------------------------------------------------------------
(* A calibration keeps the proofs it did not probe.                         *)

\* What a call will write, unless somebody writes before it: every proof in the
\* file that counts and is not probed, for at least as long.
Keeps(p) == \A r \in Route :
    Current(file[r], r) /\ r \notin calls[p].failed \cup calls[p].todo =>
        Current(calls[p].got[r], r) /\ file[r].left <= calls[p].got[r].left

\* Before the probes only routes without a proof are to be probed.
Before(p) ==
    /\ p = "controller"
    /\ calls[p].failed = {}
    /\ \A r \in calls[p].todo : ~Current(file[r], r)

KeepsInv == \A p \in Caller :
    calls[p].at \in {"probe", "probed"} /\ ~calls[p].stale =>
        Keeps(p) /\ (calls[p].at = "probe" => Before(p))

SpentInv == \A p \in Caller : calls[p].at = "probed" => calls[p].todo = {}

\* A step that leaves the files and the calls that are calibrating keeps both.
LEMMA QuietKept ==
    ASSUME KeepsInv, SpentInv, UNCHANGED <<subject, file>>,
           \A p \in Caller : calls'[p] = calls[p] \/ calls'[p].at \notin {"probe", "probed"}
    PROVE  KeepsInv' /\ SpentInv'
BY DEF KeepsInv, SpentInv, Keeps, Before, Current

LEMMA BeginKept == TypeOK /\ KeepsInv /\ SpentInv /\ Begin => KeepsInv' /\ SpentInv'
<1> SUFFICES ASSUME TypeOK, KeepsInv, SpentInv, Begin PROVE KeepsInv' /\ SpentInv'
  OBVIOUS
<1> DEFINE due == {r \in Route : Due(r)}
           c == [NoCall EXCEPT !.at = "probe", !.todo = due, !.have = usable', !.got = routes']
<1>1. UNCHANGED <<subject, file>> /\ routes' = [r \in Route |-> Kept(r)]
  BY DEF Begin
<1>2. calls' = [calls EXCEPT !["controller"] = [NoCall EXCEPT !.at = "plan"]]
      \/ calls' = [calls EXCEPT !["controller"] = c]
  BY DEF Begin
<1>3. CASE calls' = [calls EXCEPT !["controller"] = [NoCall EXCEPT !.at = "plan"]]
  <2>1. calls'["controller"].at \notin {"probe", "probed"} /\ calls'["command"] = calls["command"]
    BY <1>3 DEF TypeOK, Caller, NoCall
  <2> QED BY <1>1, <2>1, QuietKept DEF Caller
<1>4. CASE calls' = [calls EXCEPT !["controller"] = c]
  <2>1. calls'["controller"] = c /\ calls'["command"] = calls["command"]
    BY <1>4 DEF TypeOK, Caller
  <2>2. c.at = "probe" /\ c.failed = {} /\ c.todo = due /\ c.got = routes'
    BY DEF NoCall
  <2>3. \A r \in due : ~Current(file[r], r)
    BY DEF Due
  <2>4. \A r \in Route : Current(file[r], r) => Current(routes'[r], r) /\ file[r].left <= routes'[r].left
    BY <1>1, RoutesAssumption DEF Kept, TypeOK, Proof
  <2> HIDE DEF c, due
  <2>5. Keeps("controller")' /\ Before("controller")'
    BY <1>1, <2>1, <2>2, <2>3, <2>4 DEF Keeps, Before, Current
  <2>6. calls["command"].at \in {"probe", "probed"} /\ ~calls["command"].stale =>
            Keeps("command")' /\ (calls["command"].at = "probe" => Before("command")')
    BY <1>1, <2>1 DEF KeepsInv, Keeps, Before, Current, Caller
  <2>7. KeepsInv'
    BY <2>1, <2>5, <2>6 DEF KeepsInv, Caller
  <2>8. SpentInv'
    BY <2>1, <2>2 DEF SpentInv, Caller
  <2> QED BY <2>7, <2>8
<1> QED BY <1>2, <1>3, <1>4

\* The probes: of a call of the controller, or of the command, which has
\* everything to probe.
LEMMA ProbesKept ==
    ASSUME TypeOK, KeepsInv, SpentInv, NEW p \in Caller, NEW call \in Call, NEW P,
           Probes(p, call, P),
           ~call.stale =>
               \A r \in Route \ call.todo : r \notin call.failed /\ (Current(file[r], r) =>
                   Current(call.got[r], r) /\ file[r].left <= call.got[r].left),
           ~call.stale => call.spent = 0 \/ \A r \in call.todo : ~Current(file[r], r)
    PROVE  KeepsInv' /\ SpentInv'
<1> DEFINE fresh(r) == [left |-> TTL - call.spent, subject |-> subject[r]]
<1>1. UNCHANGED <<subject, file>> /\ P \subseteq call.todo /\ call.todo \subseteq Route
  BY DEF Probes, Call
<1>2. \A q \in Caller \ {p} : calls'[q] = calls[q]
  <2>1. \E c : calls' = [calls EXCEPT ![p] = c]
    BY DEF Probes
  <2> QED BY <2>1 DEF TypeOK
<1>3. /\ calls'[p].at = "probed" /\ calls'[p].todo = {} /\ calls'[p].stale = call.stale
      /\ calls'[p].failed = call.todo \ P
      /\ \A r \in Route \ call.todo : calls'[p].got[r] = call.got[r]
      /\ \A r \in P : calls'[p].got[r] = fresh(r)
  BY <1>1 DEF Probes, TypeOK, Call
<1>4. \A r \in Route : /\ fresh(r).left > 0 /\ fresh(r).left = TTL - call.spent
                       /\ fresh(r).subject = subject[r]
  BY NewTyped DEF TypeOK, Call
<1> HIDE DEF fresh
<1>5. ~call.stale => Keeps(p)'
  <2> SUFFICES ASSUME ~call.stale, NEW r \in Route, Current(file[r], r), r \notin call.todo \ P
               PROVE  Current(calls'[p].got[r], r) /\ file[r].left <= calls'[p].got[r].left
    BY <1>1, <1>3 DEF Keeps, Current
  <2>1. CASE r \notin call.todo
    BY <1>3, <2>1
  <2>2. CASE r \in P
    <3>1. call.spent = 0
      BY <1>1, <2>2
    <3>2. file[r].left <= TTL /\ TTL \in Nat
      BY RoutesAssumption DEF TypeOK, Proof
    <3> QED BY <1>3, <1>4, <2>2, <3>1, <3>2 DEF Current
  <2> QED BY <2>1, <2>2
<1>6. \A q \in Caller \ {p} : calls[q].at \in {"probe", "probed"} /\ ~calls[q].stale =>
          Keeps(q)' /\ (calls[q].at = "probe" => Before(q)')
  BY <1>1, <1>2 DEF KeepsInv, Keeps, Before, Current
<1>7. KeepsInv'
  BY <1>2, <1>3, <1>5, <1>6 DEF KeepsInv
<1>8. SpentInv'
  BY <1>2, <1>3 DEF SpentInv
<1> QED BY <1>7, <1>8

\* Whoever writes makes the other call stale.
LEMMA WriteKept == \A p \in Caller : TypeOK /\ KeepsInv /\ SpentInv /\ Write(p) => KeepsInv' /\ SpentInv'
<1> SUFFICES ASSUME NEW p \in Caller, TypeOK, KeepsInv, SpentInv, Write(p) PROVE KeepsInv' /\ SpentInv'
  OBVIOUS
<1>1. calls'[p].at \notin {"probe", "probed"}
  BY DEF Write, TypeOK, NoCall, Call
<1>2. \A q \in Caller \ {p} : /\ calls'[q].at = calls[q].at /\ calls'[q].todo = calls[q].todo
                              /\ calls[q].at \in {"probe", "probed"} => calls'[q].stale
  BY DEF Write, TypeOK, Call
<1> QED BY <1>1, <1>2 DEF KeepsInv, SpentInv

LEMMA DriftKept ==
    \A d \in Route : TypeOK /\ TypeOK' /\ BackedInv /\ KeepsInv /\ SpentInv /\ Drift(d) => KeepsInv' /\ SpentInv'
<1> SUFFICES ASSUME NEW d \in Route, TypeOK, BackedInv, KeepsInv, SpentInv, Drift(d)
             PROVE  KeepsInv' /\ SpentInv'
  OBVIOUS
<1>1. UNCHANGED <<file, calls>>
  BY DEF Drift
<1>2. \A r \in Route : subject'[r] = IF r = d THEN subject[r] + 1 ELSE subject[r]
  BY DEF Drift, TypeOK
<1>3. file[d].subject <= subject[d] /\ file[d].subject \in Nat /\ subject[d] \in Nat
  BY DEF BackedInv, FileBacked, Backed, TypeOK, Proof
<1>4. \A r \in Route : Current(file[r], r)' => r # d /\ Current(file[r], r)
  BY <1>1, <1>2, <1>3 DEF Current
<1>5. \A p \in Caller : Keeps(p) => Keeps(p)'
  BY <1>1, <1>2, <1>4 DEF Keeps, Current
<1>6. \A p \in Caller : Before(p) => Before(p)'
  <2>1. \A p \in Caller : calls[p].todo \subseteq Route
    BY DEF TypeOK, Call
  <2> QED BY <1>1, <1>4, <2>1 DEF Before
<1> QED BY <1>1, <1>5, <1>6 DEF KeepsInv, SpentInv

LEMMA TickKept == TypeOK /\ KeepsInv /\ SpentInv /\ Tick => KeepsInv' /\ SpentInv'
<1> SUFFICES ASSUME TypeOK, KeepsInv, SpentInv, Tick PROVE KeepsInv' /\ SpentInv'
  OBVIOUS
<1>1. UNCHANGED subject
  BY DEF Tick
<1>2. \A p \in Caller :
          /\ calls'[p].at = calls[p].at /\ calls'[p].todo = calls[p].todo
          /\ calls'[p].failed = calls[p].failed /\ calls'[p].stale = calls[p].stale
          /\ calls'[p].got = AllOlder(calls[p].got)
          /\ calls[p].got \in [Route -> Proof]
  BY DEF Tick, TypeOK, Call
<1>3. /\ \A r \in Route : file'[r] = Older(file[r]) /\ file[r] \in Proof
      /\ \A p \in Caller, r \in Route : calls'[p].got[r] = Older(calls[p].got[r])
                                        /\ calls[p].got[r] \in Proof
  <2>1. file' = AllOlder(file) /\ file \in [Route -> Proof]
    BY DEF Tick, TypeOK
  <2> QED BY <1>2, <2>1, AllOlderTyped
<1>4. \A proof \in Proof, r \in Route : Current(Older(proof), r) => Current(proof, r)
  BY OlderTyped, RoutesAssumption DEF Current, Proof
<1>5. \A f, g \in Proof, r \in Route :
          Current(f, r) /\ Current(g, r) /\ f.left <= g.left /\ Current(Older(f), r) =>
              Current(Older(g), r) /\ Older(f).left <= Older(g).left
  <2> SUFFICES ASSUME NEW f \in Proof, NEW g \in Proof, NEW r \in Route,
                      Current(f, r), Current(g, r), f.left <= g.left, Current(Older(f), r)
               PROVE  Current(Older(g), r) /\ Older(f).left <= Older(g).left
    OBVIOUS
  <2>1. f.left \in Nat /\ g.left \in Nat
    BY RoutesAssumption DEF Proof
  <2>2. f.left > 0 /\ g.left > 0 /\ Older(f).left = f.left - 1 /\ Older(g).left = g.left - 1
        /\ Older(g).subject = g.subject
    BY OlderTyped DEF Current
  <2> QED BY <2>1, <2>2 DEF Current
<1>6. \A p \in Caller : Keeps(p) => Keeps(p)'
  <2> SUFFICES ASSUME NEW p \in Caller, Keeps(p), NEW r \in Route, Current(file'[r], r),
                      r \notin calls[p].failed \cup calls[p].todo
               PROVE  Current(calls'[p].got[r], r) /\ file'[r].left <= calls'[p].got[r].left
    BY <1>1, <1>2 DEF Keeps, Current
  <2> QED BY <1>3, <1>4, <1>5 DEF Keeps
<1>7. \A p \in Caller : Before(p) => Before(p)'
  <2> SUFFICES ASSUME NEW p \in Caller, Before(p), NEW r \in calls[p].todo
               PROVE  ~Current(file'[r], r)
    BY <1>1, <1>2 DEF Before, Current
  <2>1. r \in Route
    BY DEF TypeOK, Call
  <2> QED BY <1>3, <1>4, <2>1 DEF Before
<1> QED BY <1>2, <1>6, <1>7 DEF KeepsInv, SpentInv

LEMMA NextKept == TypeOK /\ BackedInv /\ KeepsInv /\ SpentInv /\ [Next]_vars => KeepsInv' /\ SpentInv'
<1> SUFFICES ASSUME TypeOK, BackedInv, KeepsInv, SpentInv, [Next]_vars PROVE KeepsInv' /\ SpentInv'
  OBVIOUS
<1>1. TypeOK'
  BY NextTyped
<1>2. ASSUME NEW P, Probe(P) PROVE KeepsInv' /\ SpentInv'
  <2> DEFINE c == calls["controller"]
  <2>1. c \in Call /\ Probes("controller", c, P) /\ c.at = "probe"
    BY <1>2 DEF Probe, TypeOK, Caller
  <2>2. ~c.stale => Keeps("controller") /\ Before("controller")
    BY <2>1 DEF KeepsInv, Caller
  <2>3. ~c.stale =>
            \A r \in Route \ c.todo : r \notin c.failed /\ (Current(file[r], r) =>
                Current(c.got[r], r) /\ file[r].left <= c.got[r].left)
    BY <2>2 DEF Keeps, Before
  <2>4. ~c.stale => \A r \in c.todo : ~Current(file[r], r)
    BY <2>2 DEF Before
  <2> HIDE DEF c
  <2> QED BY <2>1, <2>3, <2>4, ProbesKept DEF Caller
<1>3. ASSUME NEW P, Command(P) PROVE KeepsInv' /\ SpentInv'
  <2> DEFINE c == [NoCall EXCEPT !.todo = Route]
  <2>1. c \in Call
    BY NoneTyped DEF Call
  <2>2. Probes("command", c, P) /\ c.todo = Route /\ c.spent = 0
    BY <1>3 DEF Command, NoCall
  <2> HIDE DEF c
  <2> QED BY <2>1, <2>2, ProbesKept DEF Caller
<1>4. ASSUME NEW p \in Caller, NEW c, c.at \notin {"probe", "probed"},
             calls' = [calls EXCEPT ![p] = c], UNCHANGED <<subject, file>>
      PROVE  KeepsInv' /\ SpentInv'
  <2>1. \A q \in Caller : calls'[q] = calls[q] \/ calls'[q].at \notin {"probe", "probed"}
    BY <1>4 DEF TypeOK
  <2> QED BY <1>4, <2>1, QuietKept
<1>5. Proceed /\ UNCHANGED <<subject, file>> => KeepsInv' /\ SpentInv'
  <2>1. [NoCall EXCEPT !.at = "plan", !.spent = calls["controller"].spent].at \notin {"probe", "probed"}
    BY DEF NoCall
  <2> QED BY <1>4, <2>1 DEF Proceed, Caller
<1>6. Plan => KeepsInv' /\ SpentInv'
  <2>1. [NoCall EXCEPT !.at = "dispatch"].at \notin {"probe", "probed"}
    BY DEF NoCall
  <2> QED BY <1>4, <2>1 DEF Plan, Caller
<1>7. NoCall.at \notin {"probe", "probed"}
  BY DEF NoCall
<1>8. UNCHANGED <<subject, file, calls>> => KeepsInv' /\ SpentInv'
  BY QuietKept
<1>9. CASE Controller
  <2>1. Refuse \/ RecordResult => KeepsInv' /\ SpentInv'
    BY <1>5 DEF Refuse, RecordResult
  <2>2. EndCycle => KeepsInv' /\ SpentInv'
    BY <1>4, <1>7 DEF EndCycle, Caller
  <2>3. (\E r \in Wanted : Check(r) \/ Assert(r) \/ Launch(r) \/ GiveUp(r)) => KeepsInv' /\ SpentInv'
    BY <1>8 DEF Check, Assert, Launch, GiveUp
  <2> QED BY <1>2, <1>6, <1>9, <2>1, <2>2, <2>3, BeginKept, WriteKept DEF Controller, Caller
<1>10. CASE Operator
  BY <1>3, <1>10, WriteKept DEF Operator, Caller
<1>11. CASE \E r \in Route : Drift(r)
  BY <1>1, <1>11, DriftKept
<1>12. CASE \E p \in Caller : Crash(p)
  BY <1>4, <1>7, <1>12 DEF Crash
<1>13. CASE Tick
  BY <1>13, TickKept
<1>14. CASE Settle \/ UNCHANGED vars
  BY <1>8, <1>14 DEF Settle, vars
<1> QED BY <1>9, <1>10, <1>11, <1>12, <1>13, <1>14 DEF Next

\* No proof that counts is lost without a cause.
THEOREM Eligible == Spec => OthersEligible
<1>1. TypeOK /\ KeepsInv /\ SpentInv /\ [Next]_vars =>
          [\A p \in Caller, r \in Route :
              Write(p) /\ Current(file[r], r) /\ ~Current(file'[r], r) =>
                  calls[p].stale \/ r \in calls[p].failed]_vars
  <2> SUFFICES ASSUME TypeOK, KeepsInv, SpentInv, NEW p \in Caller, NEW r \in Route,
                      Write(p), Current(file[r], r), ~calls[p].stale, r \notin calls[p].failed
               PROVE  Current(file'[r], r)
    OBVIOUS
  <2>1. calls[p].at = "probed" /\ calls[p].todo = {} /\ Keeps(p)
    BY DEF Write, KeepsInv, SpentInv
  <2> QED BY <2>1 DEF Write, Keeps
<1>2. Init => TypeOK /\ BackedInv /\ KeepsInv /\ SpentInv
  <2>1. Init => KeepsInv /\ SpentInv
    BY DEF Init, NoCall, KeepsInv, SpentInv
  <2> QED BY <2>1, InitTyped, InitBacked
<1>3. TypeOK /\ BackedInv /\ KeepsInv /\ SpentInv /\ [Next]_vars =>
          TypeOK' /\ BackedInv' /\ KeepsInv' /\ SpentInv'
  BY NextTyped, NextBacked, NextKept
<1> QED BY <1>1, <1>2, <1>3, PTL DEF Spec, OthersEligible
=============================================================================
