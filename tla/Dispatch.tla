------------------------------ MODULE Dispatch ------------------------------
(***************************************************************************)
(* The life of attempts in the fleet controller: run_once under the        *)
(* controller lease, dispatch in one thread per assignment, the native     *)
(* law's two decisions, claims, control permits, the journal as the only   *)
(* durable record, reconciliation after a crash, recipients' ACKs and      *)
(* reviewers' outcomes.                                                    *)
(*                                                                         *)
(* The journal is a sequence of events.  Appends are atomic and the law    *)
(* decides in the same transaction as the append it admits.  The control   *)
(* is the atomic gate that LocalControl implements, the claims are the     *)
(* leases that ClaimStore implements; the native law and the repository's  *)
(* claim command are external.                                             *)
(*                                                                         *)
(* Bounds: MaxAcks, MaxCrashes, MaxUnproved (assignments refused for the   *)
(* proof of their route), MaxAged (attempts that outlast the claim TTL),   *)
(* Modes (the control modes of a run) and the law's own MaxAttempts.       *)
(***************************************************************************)
EXTENDS Naturals, Sequences, FiniteSets

CONSTANTS Controller, Order, Reviewer,
          Task,           \* the task of each order: a function on Order
          Conflicts,      \* pairs of orders whose claims overlap
          MaxAttempts,    \* external: attempts the native law allows per task
          MaxAcks, MaxCrashes, MaxUnproved, MaxAged,
          Modes,          \* the modes operators and time bring about, from "disabled"
          ReleaseFails    \* may the repository's release command hang or fail?

ASSUME DispatchAssumption ==
    /\ Conflicts \subseteq Order \X Order
    /\ {MaxAttempts, MaxAcks, MaxCrashes, MaxUnproved, MaxAged} \subseteq Nat
    /\ "enabled" \in Modes
    /\ Modes \subseteq {"enabled", "expired", "draining", "disabled"}
    /\ ReleaseFails \in BOOLEAN

VARIABLES
    journal,    \* the events, oldest first
    aged,       \* attempts started longer than claim_ttl_seconds ago
    lease,      \* who holds the controller lease: a set of at most one
    cycle,      \* per controller: where run_once is
    orphans,    \* per controller: attempts reconciliation is about to cancel
    worker,     \* per controller and order: the thread in dispatch
    claims,     \* <<kind, order>>: the live claim rows
    control,    \* the local control
    review,     \* per reviewer: attempts it found ready and is about to judge
    crashes,
    cut,        \* history: attempts whose permit a disable invalidated
    abandoned   \* history: orders whose claims a crash or failed release left

cycleVars == <<lease, cycle, orphans>>
history == <<crashes, cut, abandoned>>
vars == <<journal, aged, cycleVars, worker, claims, control, review, history>>

Attempt == Order \X (1..MaxAttempts)
Kinds   == {"semantic", "paths", "repository"}
Verdict == {"admitted", "rejected", "reverted"}
Running == {"started", "launching", "executed"}

Event == [kind : Running \cup Verdict \cup
                 {"ready", "refused", "retryable", "cancelled", "held", "ack"},
          order : Order,
          index : 0..MaxAttempts + 1,   \* 0: the event names no attempt
          ack : 0..MaxAcks]         \* the ACK a start uses, or the number of an ACK

Phase == {"none", "assigned", "begun", "held", "reserved", "claimed", "permitted", "pathed",
          "prepared", "running", "executed", "witnessed", "ready", "unwinding", "failed",
          "cleanup"}

Thread == [at : Phase,
           index : 0..MaxAttempts + 1,   \* the attempt index it computed
           permit : BOOLEAN,             \* has it a permit that still holds?
           retry : BOOLEAN,              \* was it a RuntimeRefusal that ended it?
           acquired : SUBSET Kinds]      \* the claims it must release

NoThread == [at |-> "none", index |-> 0, permit |-> FALSE, retry |-> FALSE, acquired |-> {}]

TypeOK ==
    /\ \A i \in DOMAIN journal : journal[i] \in Event
    /\ aged \subseteq Attempt
    /\ lease \subseteq Controller
    /\ cycle \in [Controller -> {"idle", "reconcile", "dispatch"}]
    /\ orphans \in [Controller -> SUBSET Attempt]
    /\ worker \in [Controller -> [Order -> Thread]]
    /\ claims \subseteq Kinds \X Order
    /\ control \in Modes \cup {"disabled"}
    /\ review \in [Reviewer -> SUBSET Attempt]
    /\ crashes \in 0..MaxCrashes
    /\ cut \subseteq Attempt
    /\ abandoned \subseteq Order

Init ==
    /\ journal = <<>>
    /\ aged = {}
    /\ lease = {}
    /\ cycle = [c \in Controller |-> "idle"]
    /\ orphans = [c \in Controller |-> {}]
    /\ worker = [c \in Controller |-> [o \in Order |-> NoThread]]
    /\ claims = {}
    /\ control = "disabled"
    /\ review = [r \in Reviewer |-> {}]
    /\ crashes = 0
    /\ cut = {}
    /\ abandoned = {}

-----------------------------------------------------------------------------
(* Reading the journal.                                                     *)

Last(S) == CHOOSE i \in S : \A j \in S : j <= i

Names(i, a) == journal[i].order = a[1] /\ journal[i].index = a[2]

Recorded(a, kinds) == \E i \in DOMAIN journal : Names(i, a) /\ journal[i].kind \in kinds

\* The kind of the last event that names the attempt.
StatusOf(a) ==
    LET named == {i \in DOMAIN journal : Names(i, a)}
    IN  IF named = {} THEN "none" ELSE journal[Last(named)].kind

Write(kind, o, index, ack) ==
    journal' = Append(journal, [kind |-> kind, order |-> o, index |-> index, ack |-> ack])

\* BUG: all events of the order are counted.
AttemptIndexOfEvents(o) == Cardinality({i \in DOMAIN journal : journal[i].order = o})

\* BUG: only attempts that were launched are counted.
AttemptIndexOfLaunches(o) ==
    Cardinality({i \in DOMAIN journal : journal[i].kind = "launching" /\ journal[i].order = o})

\* _attempt_index: how often the order was started.
AttemptIndex(o) ==
    Cardinality({i \in DOMAIN journal : journal[i].kind = "started" /\ journal[i].order = o})

Acks == {i \in DOMAIN journal : journal[i].kind = "ack"}

\* _active_order_ids: the order's last state event holds it, except a refusal
\* that another route may retry, and what a later ACK has released.
HoldsOrder(o) ==
    LET S == {i \in DOMAIN journal : journal[i].order = o /\
                journal[i].kind \notin {"launching", "executed", "ack"}}
        last == Last(S)
        freed == /\ journal[last].kind \in {"held", "refused", "cancelled", "rejected"}
                 /\ \E i \in Acks : i > last /\ journal[i].order = o
    IN  S # {} /\ journal[last].kind # "retryable" /\ ~freed

\* BUG: reconciliation does not look whether the attempt has ended.
ExpiredAttemptsAll == aged

\* BUG: an attempt that was launched is not taken for an orphan.
ExpiredAttemptsUnlaunched == {a \in aged : StatusOf(a) = "started"}

\* reconcile_expired_attempts: the order's last attempt event is an old start.
ExpiredAttempts ==
    {a \in aged :
        LET S == {i \in DOMAIN journal : journal[i].order = a[1] /\
                    journal[i].kind \in {"started", "ready", "refused", "retryable", "cancelled"}}
        IN  S # {} /\ journal[Last(S)].kind = "started" /\ Names(Last(S), a)}

-----------------------------------------------------------------------------
(* The native law (external), over the rows evidence_environment projects.  *)

TaskAttempts(t) == {a \in Attempt : Task[a[1]] = t /\ Recorded(a, {"started"})}

TaskAcks(t) == {i \in Acks : Task[journal[i].order] = t}

\* The latest ACK of the task decides; each reserves one attempt.  A running
\* or ready attempt holds the task, and the number of attempts is limited.
LawReserves(o) ==
    LET A == TaskAcks(Task[o]) IN
        /\ A # {}
        /\ journal[Last(A)].order = o
        /\ \A i \in DOMAIN journal :
               journal[i].kind = "started" => journal[i].ack # journal[Last(A)].ack
        /\ Cardinality(TaskAttempts(Task[o])) < MaxAttempts
        /\ \A a \in TaskAttempts(Task[o]) : StatusOf(a) \notin Running \cup {"ready"}

\* A reservation is launched once.
LawLaunches(a) == StatusOf(a) = "started"

-----------------------------------------------------------------------------
(* The cycle: run_once under the controller lease.                          *)

\* BUG: the lease is taken although another controller has it.
TakeLeaseAnyway(c) ==
    /\ cycle[c] = "idle"
    /\ lease' = {c}
    /\ cycle' = [cycle EXCEPT ![c] = "reconcile"]
    /\ orphans' = [orphans EXCEPT ![c] = ExpiredAttempts]
    /\ UNCHANGED <<journal, aged, worker, claims, control, review, history>>

\* The lease is not waited for: a controller that does not get it gives up.
\* Reconciliation reads the journal.
TakeLease(c) ==
    /\ cycle[c] = "idle"
    /\ lease = {}
    /\ lease' = {c}
    /\ cycle' = [cycle EXCEPT ![c] = "reconcile"]
    /\ orphans' = [orphans EXCEPT ![c] = ExpiredAttempts]
    /\ UNCHANGED <<journal, aged, worker, claims, control, review, history>>

\* One attempt.cancelled per attempt found, without looking again.
Cancel(c, a) ==
    /\ a \in orphans[c]
    /\ Write("cancelled", a[1], a[2], 0)
    /\ orphans' = [orphans EXCEPT ![c] = @ \ {a}]
    /\ UNCHANGED <<aged, lease, cycle, worker, claims, control, review, history>>

\* BUG: the plan relies on the claims to separate conflicting orders.
PlanConflicting(c, S) ==
    /\ cycle[c] = "reconcile"
    /\ orphans[c] = {}
    /\ \A o \in S : ~HoldsOrder(o)
    /\ S # {} => control = "enabled"
    /\ cycle' = [cycle EXCEPT ![c] = "dispatch"]
    /\ worker' = [worker EXCEPT ![c] =
          [o \in Order |-> IF o \in S THEN [NoThread EXCEPT !.at = "assigned"] ELSE NoThread]]
    /\ UNCHANGED <<journal, aged, lease, orphans, claims, control, review, history>>

\* plan and dispatch_plan: some orders that are not held and do not conflict
\* with each other, if the control permits.
Plan(c, S) ==
    /\ cycle[c] = "reconcile"
    /\ orphans[c] = {}
    /\ \A o \in S : ~HoldsOrder(o) /\ \A p \in S : <<o, p>> \notin Conflicts
    /\ S # {} => control = "enabled"
    /\ cycle' = [cycle EXCEPT ![c] = "dispatch"]
    /\ worker' = [worker EXCEPT ![c] =
          [o \in Order |-> IF o \in S THEN [NoThread EXCEPT !.at = "assigned"] ELSE NoThread]]
    /\ UNCHANGED <<journal, aged, lease, orphans, claims, control, review, history>>

\* All threads have returned; the lease is released.
EndCycle(c) ==
    /\ cycle[c] = "dispatch"
    /\ \A o \in Order : worker[c][o].at = "none"
    /\ cycle' = [cycle EXCEPT ![c] = "idle"]
    /\ lease' = lease \ {c}
    /\ UNCHANGED <<journal, aged, orphans, worker, claims, control, review, history>>

\* The process dies with all its threads; claims stay until they expire.
Crash(c) ==
    /\ cycle[c] # "idle"
    /\ crashes < MaxCrashes
    /\ crashes' = crashes + 1
    /\ lease' = lease \ {c}
    /\ cycle' = [cycle EXCEPT ![c] = "idle"]
    /\ orphans' = [orphans EXCEPT ![c] = {}]
    /\ worker' = [worker EXCEPT ![c] = [o \in Order |-> NoThread]]
    /\ abandoned' = abandoned \cup {o \in Order : worker[c][o].acquired # {}}
    /\ UNCHANGED <<journal, aged, claims, control, review, cut>>

-----------------------------------------------------------------------------
(* One thread of dispatch.                                                  *)

Mine(c, o) == <<o, worker[c][o].index>>

Step(c, o, from, to) ==
    /\ worker[c][o].at \in from
    /\ worker' = [worker EXCEPT ![c][o].at = to]

\* The environment of a step of a thread.
Frame == UNCHANGED <<aged, cycleVars, control, review, crashes, cut>>

\* The control no longer permits, or a check before the attempt raises.
Skip(c, o) ==
    /\ Step(c, o, {"assigned"}, "none")
    /\ UNCHANGED <<journal, claims, abandoned>> /\ Frame

\* The route's calibration proof is no longer current: nothing was attempted.
CalibrationRefused(c, o) ==
    /\ Step(c, o, {"assigned"}, "none")
    /\ control = "enabled"
    /\ Cardinality({i \in DOMAIN journal :
           journal[i].kind = "retryable" /\ journal[i].index = 0}) < MaxUnproved
    /\ Write("retryable", o, 0, 0)
    /\ UNCHANGED <<claims, abandoned>> /\ Frame

\* The attempt gets its identity, from the number of starts so far.
Begin(c, o) ==
    /\ worker[c][o].at = "assigned"
    /\ control = "enabled"
    /\ worker' = [worker EXCEPT ![c][o].at = "begun", ![c][o].index = AttemptIndex(o) + 1]
    /\ UNCHANGED <<journal, claims, abandoned>> /\ Frame

\* Inside the claim guard and one journal transaction: the law decides and
\* attempt.started is appended.  The guard stays closed until the permit.
Reserve(c, o) ==
    /\ Step(c, o, {"begun"}, "reserved")
    /\ control = "enabled"
    /\ LawReserves(o)
    /\ Write("started", o, worker[c][o].index, journal[Last(TaskAcks(Task[o]))].ack)
    /\ UNCHANGED <<claims, abandoned>> /\ Frame

\* The law refuses, for these or for other reasons; the hold is journaled
\* after guard and transaction are over.
ReserveRefused(c, o) ==
    /\ Step(c, o, {"begun"}, "held")
    /\ control = "enabled"
    /\ UNCHANGED <<journal, claims, abandoned>> /\ Frame

Hold(c, o) ==
    /\ worker[c][o].at = "held"
    /\ worker' = [worker EXCEPT ![c][o] = NoThread]
    /\ Write("held", o, 0, 0)
    /\ UNCHANGED <<claims, abandoned>> /\ Frame

\* ControlRefusal before the start: dispatch returns None, nothing is journaled.
StartRefused(c, o) ==
    /\ worker[c][o].at = "begun"
    /\ control # "enabled"
    /\ worker' = [worker EXCEPT ![c][o] = NoThread]
    /\ UNCHANGED <<journal, claims, abandoned>> /\ Frame

\* A claim conflicts with the live rows of another holder; a holder's own
\* rows, left by a crash, do not stand in its way.
Blocked(kind, o) == \E p \in Order \ {o} : <<kind, p>> \in claims /\ <<o, p>> \in Conflicts

Acquire(c, o, kind, from, to) ==
    /\ worker[c][o].at = from
    /\ ~Blocked(kind, o)
    /\ claims' = claims \cup {<<kind, o>>}
    /\ worker' = [worker EXCEPT ![c][o].at = to, ![c][o].acquired = @ \cup {kind}]
    /\ UNCHANGED <<journal, abandoned>> /\ Frame

AcquireSemantic(c, o) == Acquire(c, o, "semantic", "reserved", "claimed")

\* The permit is issued if the enable lease did not run out inside the guard.
IssuePermit(c, o) ==
    /\ worker[c][o].at = "claimed"
    /\ control = "enabled"
    /\ worker' = [worker EXCEPT ![c][o].at = "permitted", ![c][o].permit = TRUE]
    /\ UNCHANGED <<journal, claims, abandoned>> /\ Frame

\* Every later boundary authenticates the permit.
AcquirePaths(c, o) == worker[c][o].permit /\ Acquire(c, o, "paths", "permitted", "pathed")

\* The repository's claims, then the worktree and the prompt.
Prepare(c, o) == worker[c][o].permit /\ Acquire(c, o, "repository", "pathed", "prepared")

\* Runtime.execute: in the process guard and one journal transaction the law
\* decides, attempt.launching is appended and the provider started.
Launch(c, o) ==
    /\ Step(c, o, {"prepared"}, "running")
    /\ worker[c][o].permit
    /\ LawLaunches(Mine(c, o))
    /\ Write("launching", o, worker[c][o].index, 0)
    /\ UNCHANGED <<claims, abandoned>> /\ Frame

\* The provider answered.
Executed(c, o) ==
    /\ Step(c, o, {"running"}, "executed")
    /\ Write("executed", o, worker[c][o].index, 0)
    /\ UNCHANGED <<claims, abandoned>> /\ Frame

\* renew_claims, then the witnesses: a claim that expired cannot be renewed.
Witness(c, o) ==
    /\ Step(c, o, {"executed"}, "witnessed")
    /\ worker[c][o].permit
    /\ {<<"semantic", o>>, <<"paths", o>>} \subseteq claims
    /\ ~Blocked("repository", o)
    /\ claims' = claims \cup {<<"repository", o>>}
    /\ UNCHANGED <<journal, abandoned>> /\ Frame

\* BUG: readiness is journaled without a last look at the permit.
ReadyUnguarded(c, o) ==
    /\ Step(c, o, {"witnessed"}, "ready")
    /\ Write("ready", o, worker[c][o].index, 0)
    /\ UNCHANGED <<claims, abandoned>> /\ Frame

\* Commit, publication and finally attempt.ready, in a guard of its own.
Ready(c, o) ==
    /\ Step(c, o, {"witnessed"}, "ready")
    /\ worker[c][o].permit
    /\ Write("ready", o, worker[c][o].index, 0)
    /\ UNCHANGED <<claims, abandoned>> /\ Frame

\* An exception anywhere before the repository claims are held, or after; even
\* before the start (an unreadable proof, a damaged control), if it is no refusal.
Fail(c, o) ==
    /\ \/ Step(c, o, {"begun", "reserved", "claimed", "permitted", "pathed"}, "failed")
       \/ Step(c, o, {"prepared", "running", "executed", "witnessed"}, "unwinding")
    /\ UNCHANGED <<journal, claims, abandoned>> /\ Frame

\* In the process guard the route's arguments prove unusable, or the provider timed
\* out or its answer was refused: another route may retry.
RuntimeRefusal(c, o) ==
    /\ \/ worker[c][o].at = "prepared" /\ worker[c][o].permit
       \/ worker[c][o].at = "running"
    /\ worker' = [worker EXCEPT ![c][o].at = "unwinding", ![c][o].retry = TRUE]
    /\ UNCHANGED <<journal, claims, abandoned>> /\ Frame

\* BUG: the except branch runs after success, too.
ReleaseRepositoryRaising(c, o) ==
    /\ worker[c][o].at \in {"ready", "unwinding"}
    /\ claims' = claims \ {<<"repository", o>>}
    /\ worker' = [worker EXCEPT ![c][o].acquired = @ \ {"repository"},
                                ![c][o].at = "failed"]
    /\ UNCHANGED <<journal, abandoned>> /\ Frame

\* RepositoryClaimTransaction.__exit__, on success and on an exception.
ReleaseRepository(c, o) ==
    /\ worker[c][o].at \in {"ready", "unwinding"}
    /\ claims' = claims \ {<<"repository", o>>}
    /\ worker' = [worker EXCEPT ![c][o].acquired = @ \ {"repository"},
                                ![c][o].at = IF @ = "ready" THEN "cleanup" ELSE "failed"]
    /\ UNCHANGED <<journal, abandoned>> /\ Frame

\* The release command times out or cannot be run: __exit__ raises, whatever
\* dispatch was about to return or raise before.
ReleaseRaises(c, o) ==
    /\ ReleaseFails
    /\ worker[c][o].at \in {"ready", "unwinding"}
    /\ worker' = [worker EXCEPT ![c][o].acquired = @ \ {"repository"},
                                ![c][o].retry = FALSE,
                                ![c][o].at = "failed"]
    /\ abandoned' = abandoned \cup {o}
    /\ UNCHANGED <<journal, claims>> /\ Frame

\* The except branch.
Refuse(c, o) ==
    /\ Step(c, o, {"failed"}, "cleanup")
    /\ Write(IF worker[c][o].retry THEN "retryable" ELSE "refused", o, worker[c][o].index, 0)
    /\ UNCHANGED <<claims, abandoned>> /\ Frame

\* BUG: the path claims are forgotten.
CleanupSemanticOnly(c, o) ==
    /\ worker[c][o].at = "cleanup"
    /\ claims' = claims \ {<<"semantic", o>>}
    /\ worker' = [worker EXCEPT ![c][o] = NoThread]
    /\ UNCHANGED <<journal, abandoned>> /\ Frame

\* The finally branch, which needs no permit; then dispatch returns.
Cleanup(c, o) ==
    /\ worker[c][o].at = "cleanup"
    /\ claims' = claims \ {<<k, o>> : k \in worker[c][o].acquired}
    /\ worker' = [worker EXCEPT ![c][o] = NoThread]
    /\ UNCHANGED <<journal, abandoned>> /\ Frame

Dispatch(c, o) ==
    \/ Skip(c, o) \/ CalibrationRefused(c, o) \/ Begin(c, o)
    \/ Reserve(c, o) \/ ReserveRefused(c, o) \/ Hold(c, o) \/ StartRefused(c, o)
    \/ AcquireSemantic(c, o) \/ IssuePermit(c, o) \/ AcquirePaths(c, o) \/ Prepare(c, o)
    \/ Launch(c, o) \/ Executed(c, o) \/ Witness(c, o) \/ Ready(c, o)
    \/ Fail(c, o) \/ RuntimeRefusal(c, o)
    \/ ReleaseRepository(c, o) \/ ReleaseRaises(c, o) \/ Refuse(c, o) \/ Cleanup(c, o)

-----------------------------------------------------------------------------
(* People and time.                                                         *)

\* acknowledge: a recipient accepts an order.
Acknowledge(o) ==
    /\ Cardinality(Acks) < MaxAcks
    /\ Write("ack", o, 0, Cardinality(Acks) + 1)
    /\ UNCHANGED <<aged, cycleVars, worker, claims, control, review, history>>

\* The operator's commands wait for the claim guard (see LocalControl).
GuardFree ==
    \A c \in Controller, o \in Order : worker[c][o].at \notin {"reserved", "claimed"}

Enable ==
    /\ GuardFree
    /\ control # "draining"
    /\ control' = "enabled"
    /\ UNCHANGED <<journal, aged, cycleVars, worker, claims, review, history>>

Drain ==
    /\ "draining" \in Modes
    /\ GuardFree
    /\ control' = "draining"
    /\ UNCHANGED <<journal, aged, cycleVars, worker, claims, review, history>>

Disable ==
    /\ "disabled" \in Modes
    /\ GuardFree
    /\ control' = "disabled"
    /\ worker' = [c \in Controller |-> [o \in Order |-> [worker[c][o] EXCEPT !.permit = FALSE]]]
    /\ cut' = cut \cup {a \in Attempt : ~Recorded(a, {"ready"}) /\
                  \E c \in Controller, o \in Order : worker[c][o].permit /\ a = Mine(c, o)}
    /\ UNCHANGED <<journal, aged, cycleVars, claims, review, crashes, abandoned>>

\* The enable lease runs out; no lock is needed for that.
LeaseExpires ==
    /\ "expired" \in Modes
    /\ control = "enabled"
    /\ control' = "expired"
    /\ UNCHANGED <<journal, aged, cycleVars, worker, claims, review, history>>

\* claim_ttl_seconds have passed since the attempt started.  The age of a
\* settled attempt is read by nobody.
Age(a) ==
    /\ StatusOf(a) \in Running
    /\ a \notin aged
    /\ Cardinality(aged) < MaxAged
    /\ aged' = aged \cup {a}
    /\ UNCHANGED <<journal, cycleVars, worker, claims, control, review, history>>

\* The claims of an order are not renewed in time.  They were made after the
\* start, for the same claim_ttl_seconds.
ClaimsExpire(o) ==
    /\ \E k \in Kinds : <<k, o>> \in claims
    /\ \A a \in Attempt : a[1] = o /\ StatusOf(a) \in Running => a \in aged
    /\ claims' = claims \ (Kinds \X {o})
    /\ UNCHANGED <<journal, aged, cycleVars, worker, control, review, history>>

\* BUG: an earlier verdict is not looked for.
ExamineAgain(r, a) ==
    /\ review[r] = {}
    /\ Recorded(a, {"ready"})
    /\ review' = [review EXCEPT ![r] = {a}]
    /\ UNCHANGED <<journal, aged, cycleVars, worker, claims, control, history>>

\* record_outcome reads the journal and checks ...
Examine(r, a) ==
    /\ review[r] = {}
    /\ Recorded(a, {"ready"})
    /\ ~Recorded(a, Verdict)
    /\ review' = [review EXCEPT ![r] = {a}]
    /\ UNCHANGED <<journal, aged, cycleVars, worker, claims, control, history>>

\* ... and appends the verdict, in another transaction.
Judge(r, v) ==
    /\ \E a \in review[r] : Write(v, a[1], a[2], 0)
    /\ review' = [review EXCEPT ![r] = {}]
    /\ UNCHANGED <<aged, cycleVars, worker, claims, control, history>>

Cycle(c) ==
    \/ TakeLease(c)
    \/ \E a \in Attempt : Cancel(c, a)
    \/ \E S \in SUBSET Order : Plan(c, S)
    \/ EndCycle(c)

People ==
    \/ \E o \in Order : Acknowledge(o)
    \/ Enable \/ Drain \/ Disable
    \/ \E r \in Reviewer : (\E a \in Attempt : Examine(r, a)) \/ \E v \in Verdict : Judge(r, v)

Time ==
    \/ LeaseExpires
    \/ \E a \in Attempt : Age(a)
    \/ \E o \in Order : ClaimsExpire(o)

Next ==
    \/ \E c \in Controller : Cycle(c) \/ Crash(c) \/ \E o \in Order : Dispatch(c, o)
    \/ People
    \/ Time

Spec == Init /\ [][Next]_vars

\* The service restarts its controllers and every thread goes on (all external
\* commands have timeouts); time passes.  People need not do anything.
FairSpec ==
    /\ Spec
    /\ \A c \in Controller : WF_vars(Cycle(c)) /\ \A o \in Order : WF_vars(Dispatch(c, o))
    /\ \A a \in Attempt : WF_vars(Age(a))

-----------------------------------------------------------------------------
(* Properties.                                                              *)

Starts == {i \in DOMAIN journal : journal[i].kind = "started"}

Working == {"prepared", "running", "executed", "witnessed"}

\* An ACK reserves one attempt, and no two starts are the same attempt,
\* whatever the threads, the crashes and the order of the ACKs.
OneStartPerAck ==
    \A i, j \in Starts : i # j =>
        /\ journal[i].ack # journal[j].ack
        /\ <<journal[i].order, journal[i].index>> # <<journal[j].order, journal[j].index>>

\* Reconciliation cancels orphans only: the attempt of a live thread is never
\* cancelled, however long it runs.  This rests on the controller lease.
CancelsOnlyOrphans ==
    \A c \in Controller, o \in Order :
        worker[c][o].at \notin {"none", "assigned", "begun", "held"} =>
            ~Recorded(Mine(c, o), {"cancelled"})

\* Two attempts whose claims overlap never work at the same time, even after
\* the claims of one have run out.
ConflictsApart ==
    \A c, d \in Controller, o, p \in Order :
        {worker[c][o].at, worker[d][p].at} \subseteq Working => <<o, p>> \notin Conflicts

\* Once the operator disabled the control, no attempt it caught before
\* readiness becomes ready, even if the control is enabled again.
DisabledNeverReady == \A a \in cut : ~Recorded(a, {"ready"})

\* No path through dispatch forgets a claim: a live row belongs to a thread
\* that will release it, or was left by a crash or a release that failed.
NoLeak ==
    \A k \in Kinds, o \in Order : <<k, o>> \in claims =>
        \/ \E c \in Controller : k \in worker[c][o].acquired
        \/ o \in abandoned

\* A ready attempt waits for review: until a verdict is recorded, no attempt
\* of the same task is started after it.
ReadyHoldsTask ==
    \A i, j \in DOMAIN journal :
        LET a == <<journal[i].order, journal[i].index>> IN
        /\ i < j
        /\ journal[i].kind = "ready"
        /\ journal[j].kind = "started"
        /\ Task[journal[i].order] = Task[journal[j].order]
        => \E k \in i..j : Names(k, a) /\ journal[k].kind \in Verdict

\* An attempt gets at most one terminal outcome.
OneOutcome ==
    \A i, j \in DOMAIN journal :
        /\ i # j
        /\ journal[i].kind \in Verdict
        /\ journal[j].kind \in Verdict
        => <<journal[i].order, journal[i].index>> # <<journal[j].order, journal[j].index>>

\* An attempt that a crash left running is cancelled in the end, so that the
\* task can be taken up again; and an attempt with a thread ends by itself.
AttemptsSettle ==
    \A a \in Attempt : StatusOf(a) \in Running ~> StatusOf(a) \notin Running

\* The journal implements the ledger of attempts.  An attempt that failed before
\* it was started leaves its identity to the next one.
TaskOf(a) == Task[a[1]]
LedgerStatus(a) ==
    LET last == StatusOf(a) IN
    IF last \notin {"refused", "retryable"} THEN last
    ELSE IF Recorded(a, {"started"}) THEN "refused" ELSE "none"

Ledger == INSTANCE AttemptLedger WITH status <- [a \in Attempt |-> LedgerStatus(a)]
ImplementsLedger == Ledger!LedgerSpec
=============================================================================
