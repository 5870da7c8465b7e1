----------------------------- MODULE ClaimStore -----------------------------
(***************************************************************************)
(* SemanticClaimStore (fleet_control/claims.py): a JSON file of claim rows *)
(* guarded by a lock file.  A call reads the clock, waits for the lock,    *)
(* reads the file, computes and replaces the file atomically, and returns. *)
(* Processes die at any point: the kernel drops their lock and the file    *)
(* keeps its last complete contents.                                       *)
(*                                                                         *)
(* A holder is an (owner, task_id) pair.  The controller derives both from *)
(* route, order and task, so the retry of an attempt after a crash calls   *)
(* the store under the SAME holder and finds its predecessor's rows.       *)
(***************************************************************************)
EXTENDS Naturals, Targets

CONSTANTS Holder,          \* (owner, task_id) pairs, each driven by one process
          Target,          \* sequences of parts
          Batches,         \* for each holder, the sets of targets it may claim
          TTL,             \* ttl_seconds of acquire and renew
          MaxClock,        \* bound on the clock
          ClockStepsBack   \* may the wall clock be set back?

ASSUME ClaimStoreAssumption ==
    /\ Batches \in [Holder -> SUBSET ((SUBSET Target) \ {{}})]
    /\ TTL \in Nat \ {0}
    /\ MaxClock \in Nat
    /\ ClockStepsBack \in BOOLEAN

VARIABLES rows,      \* contents of semantic-claims.json
          lock,      \* who has semantic-claims.lock: a set of at most one holder
          call,      \* the call each process has in progress: a set of at most one
          snapshot,  \* the rows a process read under the lock
          held,      \* the Claims the last successful acquire or renew returned
          clock      \* time.time()

vars == <<rows, lock, call, snapshot, held, clock>>

Op   == {"list", "acquire", "renew", "release"}
Row  == [holder : Holder, target : Target, acquired : Nat, expires : Nat]
Call == [op : Op, targets : SUBSET Target, now : Nat]

TypeOK ==
    /\ rows \in SUBSET Row
    /\ lock \in SUBSET Holder
    /\ call \in [Holder -> SUBSET Call]
    /\ snapshot \in [Holder -> SUBSET Row]
    /\ held \in [Holder -> SUBSET Row]
    /\ clock \in Nat

Init ==
    /\ rows = {}
    /\ lock = {}
    /\ call = [h \in Holder |-> {}]
    /\ snapshot = [h \in Holder |-> {}]
    /\ held = [h \in Holder |-> {}]
    /\ clock = 0

-----------------------------------------------------------------------------
(* What an operation computes from the rows it read.                        *)

\* BUG: leases are purged a second early.
LiveEager(rs, now) == {r \in rs : r.expires > now + 1}

Live(rs, now) == {r \in rs : r.expires > now}

\* _validate: a store with a lease that ends before it starts is refused.
Valid(rs) == \A r \in rs : r.expires > r.acquired

\* BUG: only an ancestor of a claimed target conflicts, a descendant does not.
ConflictsAncestorOnly(h, T, rs) ==
    \E r \in rs : r.holder # h /\ \E t \in T : IsPrefix(r.target, t)

Conflicts(h, T, rs) ==
    \E r \in rs : r.holder # h /\ \E t \in T : Overlap(t, r.target)

\* BUG: the lease is backdated by its length.
CreatedBackdated(h, c) ==
    {[holder |-> h, target |-> t, acquired |-> c.now - TTL, expires |-> c.now] : t \in c.targets}

Created(h, c) ==
    {[holder |-> h, target |-> t, acquired |-> c.now, expires |-> c.now + TTL] : t \in c.targets}

\* BUG: only the renewed rows are written back.
RenewedAlone(h, c, rs) ==
    {[r EXCEPT !.expires = c.now + TTL] : r \in {q \in Live(rs, c.now) : q.holder = h}}

Renewed(h, c, rs) ==
    {IF r.holder = h THEN [r EXCEPT !.expires = c.now + TTL] ELSE r : r \in Live(rs, c.now)}

Own(h, rs) == {r \in rs : r.holder = h}

-----------------------------------------------------------------------------
(* The steps of a call.                                                     *)

\* The call is made and reads the clock (before it waits for the lock).  An
\* attempt acquires once, and may renew until it releases.
Begin(h, op, T) ==
    /\ call[h] = {}
    /\ call' = [call EXCEPT ![h] = {[op |-> op, targets |-> T, now |-> clock]}]
    /\ UNCHANGED <<rows, lock, snapshot, held, clock>>

BeginAcquire(h) == held[h] = {} /\ \E T \in Batches[h] : Begin(h, "acquire", T)

BeginOther(h) == \E op \in Op \ {"acquire"} : Begin(h, op, {})

\* BUG: LOCK_SH instead of LOCK_EX.
TakeLockShared(h) ==
    /\ call[h] # {}
    /\ h \notin lock
    /\ lock' = lock \cup {h}
    /\ snapshot' = [snapshot EXCEPT ![h] = rows]
    /\ UNCHANGED <<rows, call, held, clock>>

\* flock(LOCK_EX) succeeds and the file is read.
TakeLock(h) ==
    /\ call[h] # {}
    /\ lock = {}
    /\ lock' = {h}
    /\ snapshot' = [snapshot EXCEPT ![h] = rows]
    /\ UNCHANGED <<rows, call, held, clock>>

\* The call returns, by value or by exception, and the lock is dropped.
Return(h) ==
    /\ lock = {h}
    /\ lock' = {}
    /\ call' = [call EXCEPT ![h] = {}]
    /\ snapshot' = [snapshot EXCEPT ![h] = {}]
    /\ UNCHANGED clock

List(h) ==
    /\ Return(h)
    /\ \E c \in call[h] :
        /\ c.op = "list"
        /\ rows' = Live(snapshot[h], c.now)
        /\ UNCHANGED held

\* BUG: acquire returns whatever rows the holder has, its predecessor's too.
AcquireReturningAll(h) ==
    /\ Return(h)
    /\ \E c \in call[h] : LET live == Live(snapshot[h], c.now) IN
        /\ c.op = "acquire"
        /\ ~Conflicts(h, c.targets, live)
        /\ rows' = live \cup Created(h, c)
        /\ held' = [held EXCEPT ![h] = Own(h, rows')]

Acquire(h) ==
    /\ Return(h)
    /\ \E c \in call[h] : LET live == Live(snapshot[h], c.now) IN
        /\ c.op = "acquire"
        /\ ~Conflicts(h, c.targets, live)
        /\ rows' = live \cup Created(h, c)
        /\ held' = [held EXCEPT ![h] = Created(h, c)]

\* ClaimConflict: nothing is written, not even the purge of expired rows.
AcquireRefused(h) ==
    /\ Return(h)
    /\ \E c \in call[h] :
        /\ c.op = "acquire"
        /\ Conflicts(h, c.targets, Live(snapshot[h], c.now))
    /\ UNCHANGED <<rows, held>>

Renew(h) ==
    /\ Return(h)
    /\ \E c \in call[h] : LET updated == Renewed(h, c, snapshot[h]) IN
        /\ c.op = "renew"
        /\ Own(h, updated) # {}
        /\ Valid(updated)
        /\ rows' = updated
        /\ held' = [held EXCEPT ![h] = Own(h, updated)]

\* No row of the holder is live, or the clock was set back before the row was
\* acquired and the renewed rows are not valid.  The attempt fails.
RenewRefused(h) ==
    /\ Return(h)
    /\ \E c \in call[h] : LET updated == Renewed(h, c, snapshot[h]) IN
        /\ c.op = "renew"
        /\ Own(h, updated) = {} \/ ~Valid(updated)
    /\ held' = [held EXCEPT ![h] = {}]
    /\ UNCHANGED rows

\* Expired rows of other holders stay in the file.
Release(h) ==
    /\ Return(h)
    /\ \E c \in call[h] : c.op = "release"
    /\ rows' = {r \in snapshot[h] : r.holder # h}
    /\ held' = [held EXCEPT ![h] = {}]

\* BUG: the lock is a file that outlives its process.
CrashKeepingLock(h) ==
    /\ call[h] # {} \/ held[h] # {}
    /\ call' = [call EXCEPT ![h] = {}]
    /\ snapshot' = [snapshot EXCEPT ![h] = {}]
    /\ held' = [held EXCEPT ![h] = {}]
    /\ UNCHANGED <<rows, lock, clock>>

\* The process dies; what it had written stays.
Crash(h) ==
    /\ call[h] # {} \/ held[h] # {}
    /\ call' = [call EXCEPT ![h] = {}]
    /\ snapshot' = [snapshot EXCEPT ![h] = {}]
    /\ held' = [held EXCEPT ![h] = {}]
    /\ lock' = lock \ {h}
    /\ UNCHANGED <<rows, clock>>

\* Time passes, or somebody sets the clock.
ClockMoves ==
    /\ clock' \in 0..MaxClock \ {clock}
    /\ clock' > clock \/ ClockStepsBack
    /\ UNCHANGED <<rows, lock, call, snapshot, held>>

Finish(h) ==
    \/ List(h)
    \/ Acquire(h)
    \/ AcquireRefused(h)
    \/ Renew(h)
    \/ RenewRefused(h)
    \/ Release(h)

Next ==
    \/ \E h \in Holder :
        \/ BeginAcquire(h)
        \/ BeginOther(h)
        \/ TakeLock(h)
        \/ Finish(h)
        \/ Crash(h)
    \/ ClockMoves

Spec == Init /\ [][Next]_vars

\* A process waiting for the lock gets it if it is free again and again, and
\* one inside the critical section goes on; nobody has to start a call.
FairSpec == Spec /\ \A h \in Holder : SF_vars(TakeLock(h)) /\ WF_vars(Finish(h))

-----------------------------------------------------------------------------
(* Properties.                                                              *)

\* One process at a time is inside the critical section, and what it read is
\* still what the file says: no call overwrites another call's rows.
LockProtects == \A h \in lock : lock = {h} /\ snapshot[h] = rows

\* No two holders have conflicting rows in the file, live or expired, however
\* the clock moves: acquire purges and checks the file it replaces.
RowsExclusive ==
    \A r, s \in rows : r.holder # s.holder => ~Overlap(r.target, s.target)

\* A lease that the store handed out and that has not expired is still in the
\* file: neither a purge with an old clock reading, nor another holder's call,
\* nor a crash takes it away before its deadline (clock never set back).
UnexpiredKept ==
    \A h \in Holder : \A l \in held[h] : l.expires > clock => l \in rows

\* A renewal that succeeds covers the whole batch: an attempt that lost one of
\* its targets is never told that it is still the holder (controller.py relies
\* on this before each witness).
RenewCoversBatch ==
    [][\A h \in Holder : Renew(h) =>
           {l.target : l \in held[h]} \subseteq {l.target : l \in held'[h]}]_vars

\* Every call returns, whoever dies while holding the lock.
CallsReturn == \A h \in Holder : call[h] # {} ~> call[h] = {}

\* The store implements atomic exclusive leases (clock never set back).
Abstract == INSTANCE ExclusiveLease WITH granted <- rows, now <- clock
ImplementsLease == Abstract!LeaseSpec
=============================================================================
