------------------------------- MODULE Routes -------------------------------
(***************************************************************************)
(* Which routes a provider may be launched on.                             *)
(*                                                                         *)
(* The calibration file holds, per route, a proof of its billing class     *)
(* that expires and is bound to the files it was made from.  The           *)
(* controller reads it at the start of a cycle, probes the routes without  *)
(* a current proof unless they are backing off, and writes the file again  *)
(* with the proofs it found current (calibration.py, FleetController.      *)
(* _routes).  The command `calibrate` of an operator does the same for all *)
(* routes, without reading the file, without a lock and without a backoff. *)
(* A planned order is dispatched later, in a thread: the proof is checked  *)
(* again before the claims, before the launch, and its subject at the      *)
(* launch itself.  Provider failures open a circuit (health.py).           *)
(*                                                                         *)
(* Time is relative: what is left of a proof's lifetime and of a backoff.  *)
(* A circuit is folded from journal rows of one route and one subject; a   *)
(* fingerprint with its ctime never returns, so a drift forgets them.      *)
(*                                                                         *)
(* The probes of one calibration are one step: each is about a route of    *)
(* its own.  So are a launch and the provider's answer.                    *)
(*                                                                         *)
(* Bounds: TTL and Backoff in ticks, MaxDrift on the changes of a route's  *)
(* files.  Slow bounds the time from the start of a cycle to its plan and  *)
(* that of the command: what they run has timeouts below the shortest TTL. *)
(***************************************************************************)
EXTENDS Naturals, Sequences

CONSTANTS Route,      \* configured and enabled
          Sound,      \* routes whose probe passes for good once the world settles
          TTL,        \* lifetime of a proof
          Backoff,    \* delay after the first, second, ... failure in a row
          Wanted,     \* routes that the queued orders list
          Metered,    \* routes whose usage must be observed
          Slow,
          MaxDrift    \* per route

ASSUME RoutesAssumption ==
    /\ {Sound, Wanted, Metered} \subseteq SUBSET Route
    /\ TTL \in Nat \ {0}
    /\ Slow \in 0..(TTL - 1)
    /\ MaxDrift \in [Route -> Nat]
    /\ Backoff \in Seq(Nat \ {0}) /\ Backoff # <<>>
    /\ \A m, n \in DOMAIN Backoff : m <= n => Backoff[m] <= Backoff[n]

VARIABLES
    settled,   \* no more crash or native refusal; for sound routes, no drift and no failing probe
    subject,   \* per route: the fingerprint of its proof subject files
    file,      \* the calibration file: per route, its proof
    circuit,   \* per kind and route: the circuit of the current subject
    calls,     \* the calibrations in progress: the controller's cycle, the command
    routes,    \* per route: the proof the cycle goes by
    usable,    \* the routes the cycle may use, since its plan those it used
    open,      \* the routes whose provider circuit was open when the cycle began
    jobs,      \* per wanted route: the assignment in dispatch
    probed     \* history: per wanted route, the best probe that passed

cycle == <<routes, usable, open>>
vars == <<settled, subject, file, circuit, calls, cycle, jobs, probed>>

\* The fingerprint of a route's execution and proof files: how often they changed.
Subject == Nat
Proof == [left : 0..TTL, subject : Subject]
NoProof == [left |-> 0, subject |-> 0]
NoProofs == [r \in Route |-> NoProof]

Circuit == [failures : 0..Len(Backoff), wait : 0..Backoff[Len(Backoff)]]
NoCircuit == [failures |-> 0, wait |-> 0]

\* spent: the time since it began; todo: routes to probe; have: routes with a
\* proof to write, in got; failed: routes whose probe failed; stale: somebody
\* wrote the file since.
Caller == {"controller", "command"}
Call == [at : {"idle", "probe", "probed", "written", "plan", "dispatch"},
         spent : 0..Slow, todo : SUBSET Route, have : SUBSET Route,
         got : [Route -> Proof], failed : SUBSET Route, stale : BOOLEAN]
NoCall == [at |-> "idle", spent |-> 0, todo |-> {}, have |-> {}, got |-> NoProofs,
           failed |-> {}, stale |-> FALSE]

\* permit: the subject bound into the attempt's permit.
Job == [at : {"none", "planned", "permitted", "asserted"}, proof : Proof, permit : Subject]
NoJob == [at |-> "none", proof |-> NoProof, permit |-> 0]

TypeOK ==
    /\ settled \in BOOLEAN
    /\ subject \in [Route -> Subject] /\ \A r \in Route : subject[r] <= MaxDrift[r]
    /\ file \in [Route -> Proof]
    /\ circuit \in [{"calibration", "provider"} -> [Route -> Circuit]]
    /\ calls \in [Caller -> Call]
    /\ routes \in [Route -> Proof]
    /\ usable \subseteq Route /\ open \subseteq Route
    /\ jobs \in [Wanted -> Job]
    /\ probed \in [Wanted -> Proof]

Init ==
    /\ settled = FALSE
    /\ subject = [r \in Route |-> 0]
    /\ file = NoProofs
    /\ circuit = [k \in {"calibration", "provider"} |-> [r \in Route |-> NoCircuit]]
    /\ calls = [p \in Caller |-> NoCall]
    /\ routes = NoProofs
    /\ usable = {} /\ open = {}
    /\ jobs = [r \in Wanted |-> NoJob]
    /\ probed = [r \in Wanted |-> NoProof]

-----------------------------------------------------------------------------
(* Proofs and circuits.                                                     *)

\* require_current_route_proof: not expired, and of the files as they are.
Current(proof, r) == proof.left > 0 /\ proof.subject = subject[r]

\* BUG: a failure opens the circuit until a success, which never comes.
IsOpenForever(kind, r) == circuit[kind][r].failures > 0

IsOpen(kind, r) == circuit[kind][r].wait > 0

\* circuit_state: every failure since the last success prolongs the backoff.
Failed(c) ==
    LET n == IF c.failures < Len(Backoff) THEN c.failures + 1 ELSE c.failures
    IN [failures |-> n, wait |-> IF c.wait > Backoff[n] THEN c.wait ELSE Backoff[n]]

\* record_failure and record_success, for the routes of R.
RecordFailure(kind, R) ==
    circuit' = [circuit EXCEPT ![kind] = [r \in Route |-> IF r \in R THEN Failed(@[r]) ELSE @[r]]]

RecordSuccess(kind, R) ==
    circuit' = [circuit EXCEPT ![kind] = [r \in Route |-> IF r \in R THEN NoCircuit ELSE @[r]]]

-----------------------------------------------------------------------------
(* The calibration of a cycle, or of the operator's command.                *)

\* _calibration_due_routes
Due(r) == ~Current(file[r], r) /\ ~IsOpen("calibration", r)

\* BUG: a proof that is kept is prolonged by the lifetime of the new record.
KeptLonger(r) == IF Current(file[r], r) THEN [file[r] EXCEPT !.left = @ + TTL] ELSE NoProof

\* apply_calibration: a route without a current proof is disabled.
Kept(r) == IF Current(file[r], r) THEN file[r] ELSE NoProof

\* BUG: the proofs of the other routes are not kept.
BeginAlone ==
    LET due == {r \in Route : Due(r)} IN
    /\ calls["controller"].at = "idle"
    /\ routes' = [r \in Route |-> Kept(r)]
    /\ usable' = {r \in Route : Current(file[r], r)}
    /\ open' = {r \in Route : IsOpen("provider", r)}
    /\ calls' = [calls EXCEPT !["controller"] =
           IF due = {} THEN [NoCall EXCEPT !.at = "plan"]
           ELSE [NoCall EXCEPT !.at = "probe", !.todo = due]]
    /\ UNCHANGED <<settled, subject, file, circuit, jobs, probed>>

\* _routes: the time of the observation holds for the whole cycle.
Begin ==
    LET due == {r \in Route : Due(r)} IN
    /\ calls["controller"].at = "idle"
    /\ routes' = [r \in Route |-> Kept(r)]
    /\ usable' = {r \in Route : Current(file[r], r)}
    /\ open' = {r \in Route : IsOpen("provider", r)}
    /\ calls' = [calls EXCEPT !["controller"] =
           IF due = {} THEN [NoCall EXCEPT !.at = "plan"]
           ELSE [NoCall EXCEPT !.at = "probe", !.todo = due, !.have = usable', !.got = routes']]
    /\ UNCHANGED <<settled, subject, file, circuit, jobs, probed>>

\* A probe may fail in many ways, one of them that the files change meanwhile.
MayFail(r) == ~(settled /\ r \in Sound)

\* _probe_route for every route of todo: those of P pass.  A proof counts from
\* the time the calibration began, a failure takes the old one away.
Probes(p, call, P) ==
    LET new == [left |-> TTL - call.spent, subject |-> 0] IN
    /\ P \subseteq call.todo
    /\ \A r \in call.todo \ P : MayFail(r)
    /\ calls' = [calls EXCEPT ![p] = [call EXCEPT
           !.at = "probed", !.todo = {},
           !.have = (@ \cup P) \ (call.todo \ P),
           !.failed = call.todo \ P,
           !.got = [r \in Route |-> IF r \in P THEN [new EXCEPT !.subject = subject[r]]
                                    ELSE IF r \in call.todo THEN NoProof ELSE @[r]]]]
    /\ probed' = [r \in Wanted |->
           IF r \in P /\ (Current(probed[r], r) => probed[r].left < new.left)
           THEN [new EXCEPT !.subject = subject[r]] ELSE probed[r]]
    /\ UNCHANGED <<settled, subject, file, circuit, cycle, jobs>>

Probe(P) ==
    /\ calls["controller"].at = "probe"
    /\ Probes("controller", calls["controller"], P)

\* The command calibrate: every route, nothing kept.  Without any proof it ends
\* as if it had never begun.
Command(P) ==
    /\ calls["command"].at = "idle"
    /\ P # {}
    /\ Probes("command", [NoCall EXCEPT !.todo = Route], P)

\* The record replaces the one before, whoever wrote that.
Write(p) ==
    /\ calls[p].at = "probed"
    /\ calls[p].have # {}
    /\ file' = calls[p].got
    /\ calls' = [q \in Caller |->
           IF q # p THEN [calls[q] EXCEPT !.stale = @ \/ calls[q].at \in {"probe", "probed"}]
           ELSE IF p = "command" THEN NoCall ELSE [calls[q] EXCEPT !.at = "written"]]
    /\ UNCHANGED <<settled, subject, circuit, cycle, jobs, probed>>

Proceed ==
    calls' = [calls EXCEPT !["controller"] =
                 [NoCall EXCEPT !.at = "plan", !.spent = calls["controller"].spent]]

\* calibrate refuses without any proof, or when the native law does not
\* calibrate, and nothing is written.  _record_calibration_refusal: when only
\* the law failed, all routes that were due back off, or none if the record has
\* refusals of other routes.
Refuse ==
    LET call == calls["controller"]
        passed == call.have \ usable IN
    /\ call.at = "probed"
    /\ call.have = {} \/ ~settled
    /\ Proceed
    /\ \E R \in IF call.failed # {} THEN {call.failed} ELSE {passed, {}} :
           RecordFailure("calibration", R)
    /\ UNCHANGED <<settled, subject, file, cycle, jobs, probed>>

\* _record_calibration_result; then the routes are those of the new record.
RecordResult ==
    LET call == calls["controller"]
        passed == call.have \ usable IN
    /\ call.at = "written"
    /\ Proceed
    /\ circuit' = [circuit EXCEPT !["calibration"] = [r \in Route |->
           IF r \in call.failed THEN Failed(@[r]) ELSE IF r \in passed THEN NoCircuit ELSE @[r]]]
    /\ routes' = call.got
    /\ usable' = call.have
    /\ UNCHANGED <<settled, subject, file, open, jobs, probed>>

-----------------------------------------------------------------------------
(* Planning and dispatch.                                                   *)

\* refresh_routes: the adapter fails, or what it reports is stale, of another
\* route or of a forbidden kind.  Where usage is required, the route is out.
Unmeasured(r) == r \in Metered /\ MayFail(r)

\* apply_circuits, route_verdict, build_plan: a route in backoff is not used, nor
\* one whose files changed.  At most one assignment per route.
Plan ==
    /\ calls["controller"].at = "plan"
    /\ \E U \in SUBSET {r \in Route : Unmeasured(r)} :
           usable' = {r \in usable \ (open \cup U) : routes[r].subject = subject[r]}
    /\ \E S \in SUBSET (usable' \cap Wanted) :
           jobs' = [r \in Wanted |-> IF r \in S THEN [NoJob EXCEPT !.at = "planned", !.proof = routes[r]]
                                    ELSE NoJob]
    /\ calls' = [calls EXCEPT !["controller"] = [NoCall EXCEPT !.at = "dispatch"]]
    /\ routes' = NoProofs
    /\ open' = {}
    /\ UNCHANGED <<settled, subject, file, circuit, probed>>

Goto(r, from, to) == jobs[r].at = from /\ jobs' = [jobs EXCEPT ![r].at = to]

\* dispatch: the proof is checked with the time of now; a failure counts as one
\* of calibration.  The permit binds the execution subject, and with it the
\* route's.
Check(r) ==
    /\ jobs[r].at = "planned"
    /\ \/ /\ Current(jobs[r].proof, r)
          /\ jobs' = [jobs EXCEPT ![r].at = "permitted", ![r].permit = subject[r]]
          /\ UNCHANGED circuit
       \/ /\ ~Current(jobs[r].proof, r)
          /\ jobs' = [jobs EXCEPT ![r] = NoJob]
          /\ RecordFailure("calibration", {r})
    /\ UNCHANGED <<settled, subject, file, calls, cycle, probed>>

\* execute: assert_order_route
Assert(r) ==
    /\ Current(jobs[r].proof, r)
    /\ Goto(r, "permitted", "asserted")
    /\ UNCHANGED <<settled, subject, file, circuit, calls, cycle, probed>>

\* In the process guard the execution subject must be the permitted one; the
\* provider answers, or fails (RuntimeRefusal).
Launch(r) ==
    /\ jobs[r].at = "asserted"
    /\ subject[r] = jobs[r].permit
    /\ jobs' = [jobs EXCEPT ![r] = NoJob]
    /\ RecordSuccess("provider", {r}) \/ RecordFailure("provider", {r})
    /\ UNCHANGED <<settled, subject, file, calls, cycle, probed>>

\* Any check that fails before the launch ends the attempt.
GiveUp(r) ==
    /\ jobs[r].at \in {"permitted", "asserted"}
    /\ jobs' = [jobs EXCEPT ![r] = NoJob]
    /\ UNCHANGED <<settled, subject, file, circuit, calls, cycle, probed>>

EndCycle ==
    /\ calls["controller"].at = "dispatch"
    /\ \A r \in Wanted : jobs[r].at = "none"
    /\ calls' = [calls EXCEPT !["controller"] = NoCall]
    /\ usable' = {}
    /\ UNCHANGED <<settled, subject, file, circuit, routes, open, jobs, probed>>

Controller ==
    \/ Begin \/ Refuse \/ Write("controller") \/ RecordResult \/ Plan \/ EndCycle
    \/ \E P \in SUBSET Route : Probe(P)
    \/ \E r \in Wanted : Check(r) \/ Assert(r) \/ Launch(r) \/ GiveUp(r)

Operator == Write("command") \/ \E P \in SUBSET Route : Command(P)

-----------------------------------------------------------------------------
(* The world.                                                               *)

\* A proof file changes: new fingerprint, no rows of it in the journal.
Drift(r) ==
    /\ MayFail(r)
    /\ subject[r] < MaxDrift[r]
    /\ subject' = [subject EXCEPT ![r] = @ + 1]
    /\ circuit' = [k \in DOMAIN circuit |-> [circuit[k] EXCEPT ![r] = NoCircuit]]
    /\ UNCHANGED <<settled, file, calls, cycle, jobs, probed>>

\* The controller dies in the middle of a cycle; the command ends without
\* writing (a failing law or no proof), or dies.
Crash(p) ==
    /\ p = "controller" => ~settled
    /\ calls[p].at # "idle"
    /\ calls' = [calls EXCEPT ![p] = NoCall]
    /\ IF p = "command" THEN UNCHANGED <<cycle, jobs>>
       ELSE /\ routes' = NoProofs
            /\ usable' = {} /\ open' = {}
            /\ jobs' = [r \in Wanted |-> NoJob]
    /\ UNCHANGED <<settled, subject, file, circuit, probed>>

Less(n) == IF n > 0 THEN n - 1 ELSE 0
Older(proof) == [proof EXCEPT !.left = Less(@)]
AllOlder(proofs) == [r \in DOMAIN proofs |-> Older(proofs[r])]

\* Time passes, but a calibration takes no longer than Slow.
Calibrating(p) == calls[p].at \notin {"idle", "dispatch"}

Tick ==
    /\ \A p \in Caller : Calibrating(p) => calls[p].spent < Slow
    /\ file' = AllOlder(file)
    /\ routes' = AllOlder(routes)
    /\ probed' = AllOlder(probed)
    /\ circuit' = [k \in DOMAIN circuit |-> [r \in Route |->
                       [circuit[k][r] EXCEPT !.wait = Less(@)]]]
    /\ calls' = [p \in Caller |-> [calls[p] EXCEPT
           !.spent = IF Calibrating(p) THEN @ + 1 ELSE @,
           !.got = AllOlder(@)]]
    /\ jobs' = [r \in Wanted |-> [jobs[r] EXCEPT !.proof = Older(@)]]
    /\ UNCHANGED <<settled, subject, usable, open>>

Settle ==
    /\ ~settled
    /\ settled' = TRUE
    /\ UNCHANGED <<subject, file, circuit, calls, cycle, jobs, probed>>

Next ==
    \/ Controller \/ Operator
    \/ \E r \in Route : Drift(r)
    \/ \E p \in Caller : Crash(p)
    \/ Tick \/ Settle

Spec == Init /\ [][Next]_vars

\* The service runs its cycles, a command that was begun ends, and time passes.
FairSpec ==
    /\ Spec
    /\ WF_vars(Controller)
    /\ WF_vars(Write("command") \/ Crash("command"))
    /\ SF_vars(Tick)

-----------------------------------------------------------------------------
(* Properties.                                                              *)

\* A provider is launched only on a route whose billing was probed within the
\* lifetime of a proof and whose files are still those that were probed,
\* however proofs were kept, overwritten and handed on since.
LaunchProved ==
    [][\A r \in Wanted :
        /\ jobs[r].at # "asserted" /\ jobs'[r].at = "asserted" => Current(probed[r], r)
        /\ Launch(r) => probed[r].subject = subject[r]]_vars

\* A current proof is lost only with a probe of its own route that failed, or
\* because controller and command overwrite each other's record.
OthersEligible ==
    [][\A p \in Caller, r \in Route :
        Write(p) /\ Current(file[r], r) /\ ~Current(file'[r], r) =>
            calls[p].stale \/ r \in calls[p].failed]_vars

\* A sound route is offered to the planner again and again, whatever fails on
\* other routes, once the world has settled.
AvailableAgain == \A r \in Sound :
    []<>(settled => calls["controller"].at = "dispatch" /\ r \in usable)
=============================================================================
