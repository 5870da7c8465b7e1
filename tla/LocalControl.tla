---------------------------- MODULE LocalControl ----------------------------
(***************************************************************************)
(* LocalControl (fleet_control/control.py): the operator's dispatch fence. *)
(*                                                                         *)
(* Three files: the lock file, which also holds the ANCHOR (generation and *)
(* digest of the state), a key made once with the lock file, and the       *)
(* STATE.  Operators change the state under an exclusive flock: write a    *)
(* new state file, rename it over the old one, then rewrite the anchor.    *)
(* Workers pass protected boundaries under a shared flock, after verifying *)
(* that anchor and state agree; the lock is held for the whole protected   *)
(* operation.  Operators and workers die at any step.                      *)
(* The control directory is taken to exist.                                *)
(*                                                                         *)
(* Bounds: MaxGeneration on committed states, MaxClock on the clock,       *)
(* Boundaries on the guards each worker tries to pass.                     *)
(***************************************************************************)
EXTENDS Naturals

CONSTANTS Operator, Worker,
          TTL,             \* ttl_seconds of enable and refresh
          Skew,            \* MAX_CLOCK_SKEW_SECONDS
          MaxGeneration, MaxClock, Boundaries,
          ClockStepsBack   \* may the wall clock be set back?

ASSUME LocalControlAssumption ==
    /\ TTL \in Nat \ {0}
    /\ Skew \in Nat
    /\ MaxGeneration \in Nat
    /\ MaxClock \in Nat
    /\ Boundaries \in Nat
    /\ ClockStepsBack \in BOOLEAN

VARIABLES
    lockFile,   \* "absent", "empty" (created or truncated) or "anchored"
    anchor,     \* the generation the anchor authenticates
    stateFile,  \* the state record, NoState while there is none
    writer,     \* the operator with LOCK_EX: a set of at most one
    pc,         \* operators: "idle", "opened", "decided", "renamed"
    request,    \* what an operator in progress was asked to do
    next,       \* the state it is about to write
    guard,      \* workers: the boundary it is inside, "none" outside
    permit,     \* the AttemptPermit of a worker: a set of at most one
    left,       \* boundaries a worker may still try
    clock,
    revoked     \* history: epochs ended by a committed disable

files == <<lockFile, anchor, stateFile>>
operatorVars == <<writer, pc, request, next>>
workerVars == <<guard, permit, left>>
vars == <<files, operatorVars, workerVars, clock, revoked>>

Operation == {"enable", "refresh", "drain", "disable"}
Mode      == {"enabled", "draining", "disabled"}

\* An epoch is 32 random bytes; here the generation that drew it.  0 is None.
State == [mode : Mode \cup {"none"}, generation : Nat, updated : Nat, expires : Nat,
          enable_epoch : Nat, drain_epoch : Nat]

NoState == [mode |-> "none", generation |-> 0, updated |-> 0, expires |-> 0,
            enable_epoch |-> 0, drain_epoch |-> 0]

\* expected: the generations a compare-and-swap accepts, {} for any.
Request   == [op : Operation, expected : SUBSET Nat, now : Nat, newLock : BOOLEAN]
NoRequest == [op |-> "disable", expected |-> {}, now |-> 0, newLock |-> FALSE]

Permit == [epoch : Nat, generation : Nat]

TypeOK ==
    /\ lockFile \in {"absent", "empty", "anchored"}
    /\ anchor \in Nat
    /\ stateFile \in State
    /\ writer \in SUBSET Operator
    /\ pc \in [Operator -> {"idle", "opened", "decided", "renamed"}]
    /\ request \in [Operator -> Request]
    /\ next \in [Operator -> State]
    /\ guard \in [Worker -> {"none", "claim", "maintenance", "owned"}]
    /\ permit \in [Worker -> SUBSET Permit]
    /\ left \in [Worker -> Nat]
    /\ clock \in Nat
    /\ revoked \in SUBSET Nat

Init ==
    /\ lockFile = "absent" /\ anchor = 0 /\ stateFile = NoState
    /\ writer = {}
    /\ pc = [o \in Operator |-> "idle"]
    /\ request = [o \in Operator |-> NoRequest]
    /\ next = [o \in Operator |-> NoState]
    /\ guard = [w \in Worker |-> "none"]
    /\ permit = [w \in Worker |-> {}]
    /\ left = [w \in Worker |-> Boundaries]
    /\ clock = 0
    /\ revoked = {}

-----------------------------------------------------------------------------
(* Reading the files.                                                       *)

\* _load_verified: state and key match the anchor in the lock file.
Verified == lockFile = "anchored" /\ stateFile.generation = anchor

\* The clock was set back before the last mutation.
RolledBack(now) == stateFile.updated > now + Skew

\* The epoch whose permits the state accepts, 0 for none.
Accepted(st) == IF st.mode = "enabled" THEN st.enable_epoch ELSE st.drain_epoch

\* _authorize without a token: an enabled control with an unexpired lease.
FreshAllowed ==
    /\ Verified
    /\ ~RolledBack(clock)
    /\ stateFile.mode = "enabled"
    /\ clock < stateFile.expires

\* BUG: the epoch of the permit is not compared.
OwnedAllowedAnyEpoch(p) ==
    /\ Verified
    /\ ~RolledBack(clock)
    /\ stateFile.mode # "disabled"
    /\ Accepted(stateFile) # 0
    /\ p.generation <= stateFile.generation

\* _authorize with a token: the lease may have expired, the epoch must match.
OwnedAllowed(p) ==
    /\ Verified
    /\ ~RolledBack(clock)
    /\ stateFile.mode # "disabled"
    /\ Accepted(stateFile) # 0
    /\ p.epoch = Accepted(stateFile)
    /\ p.generation <= stateFile.generation

-----------------------------------------------------------------------------
(* Operators: _mutate.                                                      *)

\* The clock is read and the lock file opened, created if it is absent, before
\* flock is asked for.  Two first mutations may race: one of them creates.
Open(o, op, E) ==
    /\ pc[o] = "idle"
    /\ stateFile.generation < MaxGeneration
    /\ pc' = [pc EXCEPT ![o] = "opened"]
    /\ request' = [request EXCEPT ![o] =
          [op |-> op, expected |-> E, now |-> clock, newLock |-> lockFile = "absent"]]
    /\ lockFile' = IF lockFile = "absent" THEN "empty" ELSE lockFile
    /\ UNCHANGED <<anchor, stateFile, writer, next, workerVars, clock, revoked>>

\* BUG: operators do not wait for guards (the guards' flock is not held).
CanLockPastGuards == writer = {}

\* BUG: operators do not exclude each other.
CanLockPastWriters == \A w \in Worker : guard[w] = "none"

\* LOCK_EX: no shared and no exclusive holder.
CanLock == writer = {} /\ \A w \in Worker : guard[w] = "none"

\* The refusals of _mutate, each raised after the lock file was created.
Refused(r) ==
    \/ r.expected # {} /\ stateFile.generation \notin r.expected
    \/ r.op = "enable" /\ (RolledBack(r.now) \/ stateFile.mode \in {"enabled", "draining"})
    \/ r.op = "refresh" /\ (RolledBack(r.now) \/ stateFile.mode # "enabled")

\* BUG: -1 stands for "no deadline".
SuccessorSentinel(r) ==
    [NoState EXCEPT !.generation = stateFile.generation + 1, !.updated = r.now,
                    !.mode = "draining", !.expires = 0 - 1]

\* BUG: a drain looks only at the enable epoch; a second drain forgets it.
SuccessorDrainOnce(r) ==
    LET base == [NoState EXCEPT !.generation = stateFile.generation + 1, !.updated = r.now]
    IN  CASE r.op = "enable"  -> [base EXCEPT !.mode = "enabled", !.expires = r.now + TTL,
                                              !.enable_epoch = base.generation]
          [] r.op = "refresh" -> [base EXCEPT !.mode = "enabled", !.expires = r.now + TTL,
                                              !.enable_epoch = stateFile.enable_epoch]
          [] r.op = "drain"   -> [base EXCEPT !.mode = "draining",
                                              !.drain_epoch = stateFile.enable_epoch]
          [] r.op = "disable" -> [base EXCEPT !.mode = "disabled"]

\* BUG: every enable draws the same epoch.
SuccessorSameEpoch(r) ==
    LET base == [NoState EXCEPT !.generation = stateFile.generation + 1, !.updated = r.now]
    IN  CASE r.op \in {"enable", "refresh"} ->
               [base EXCEPT !.mode = "enabled", !.expires = r.now + TTL, !.enable_epoch = 1]
          [] r.op = "drain"   -> [base EXCEPT !.mode = "draining",
                                              !.drain_epoch = Accepted(stateFile)]
          [] r.op = "disable" -> [base EXCEPT !.mode = "disabled"]

\* The successor state of an accepted request.
Successor(r) ==
    LET g == stateFile.generation + 1 IN
    [mode         |-> CASE r.op \in {"enable", "refresh"} -> "enabled"
                        [] r.op = "drain" -> "draining"
                        [] OTHER -> "disabled",
     generation   |-> g,
     updated      |-> r.now,
     expires      |-> IF r.op \in {"enable", "refresh"} THEN r.now + TTL ELSE 0,
     enable_epoch |-> CASE r.op = "enable" -> g
                        [] r.op = "refresh" -> stateFile.enable_epoch
                        [] OTHER -> 0,
     drain_epoch  |-> IF r.op = "drain" THEN Accepted(stateFile) ELSE 0]

\* BUG: a truncated lock file is taken for a new one.
LockRepairing(o) ==
    /\ pc[o] = "opened"
    /\ CanLock
    /\ lockFile = "empty" \/ Verified
    /\ ~Refused(request[o])
    /\ writer' = {o}
    /\ pc' = [pc EXCEPT ![o] = "decided"]
    /\ next' = [next EXCEPT ![o] = Successor(request[o])]
    /\ UNCHANGED <<files, request, workerVars, clock, revoked>>

\* flock succeeds; a new lock gets its key, an old one must verify.
Lock(o) ==
    /\ pc[o] = "opened"
    /\ CanLock
    /\ request[o].newLock \/ Verified
    /\ ~Refused(request[o])
    /\ writer' = {o}
    /\ pc' = [pc EXCEPT ![o] = "decided"]
    /\ next' = [next EXCEPT ![o] = Successor(request[o])]
    /\ UNCHANGED <<files, request, workerVars, clock, revoked>>

\* ControlIntegrityError or ControlRefusal: the files stay as they are.
Reject(o) ==
    /\ pc[o] = "opened"
    /\ CanLock
    /\ (~request[o].newLock /\ ~Verified) \/ Refused(request[o])
    /\ pc' = [pc EXCEPT ![o] = "idle"]
    /\ request' = [request EXCEPT ![o] = NoRequest]
    /\ UNCHANGED <<files, writer, next, workerVars, clock, revoked>>

\* _write_state, first half: the new state file replaces the old one.
Rename(o) ==
    /\ pc[o] = "decided"
    /\ stateFile' = next[o]
    /\ pc' = [pc EXCEPT ![o] = "renamed"]
    /\ UNCHANGED <<lockFile, anchor, writer, request, next, workerVars, clock, revoked>>

\* BUG: the lock is never dropped.
IdleKeepingLock(o) ==
    /\ pc' = [pc EXCEPT ![o] = "idle"]
    /\ request' = [request EXCEPT ![o] = NoRequest]
    /\ next' = [next EXCEPT ![o] = NoState]
    /\ writer' = writer

Idle(o) ==
    /\ pc' = [pc EXCEPT ![o] = "idle"]
    /\ request' = [request EXCEPT ![o] = NoRequest]
    /\ next' = [next EXCEPT ![o] = NoState]
    /\ writer' = writer \ {o}

\* Second half: the anchor in the lock file is rewritten and the lock dropped.
Anchor(o) ==
    /\ pc[o] = "renamed"
    /\ lockFile' = "anchored"
    /\ anchor' = next[o].generation
    /\ revoked' = IF next[o].mode = "disabled" THEN 1..next[o].generation ELSE revoked
    /\ Idle(o)
    /\ UNCHANGED <<stateFile, workerVars, clock>>

\* The operator's process dies, or a write fails.  Dying inside the rewrite of
\* the anchor leaves the lock file truncated.
Die(o) ==
    /\ pc[o] # "idle"
    /\ Idle(o)
    /\ lockFile' = IF pc[o] = "renamed" THEN "empty" ELSE lockFile
    /\ UNCHANGED <<anchor, stateFile, workerVars, clock, revoked>>

\* Dying between the rename and the rewrite leaves the old anchor.
DieUnanchored(o) ==
    /\ pc[o] = "renamed"
    /\ Idle(o)
    /\ UNCHANGED <<files, workerVars, clock, revoked>>

-----------------------------------------------------------------------------
(* Workers: _Transition and _ClaimGuard.                                    *)

\* LOCK_SH: no exclusive holder.  A guard never creates the lock file.
Try(w) ==
    /\ guard[w] = "none"
    /\ left[w] > 0
    /\ writer = {}

\* A boundary without a permit: new claims, or maintenance of the checkout.
EnterFresh(w, boundary) ==
    /\ Try(w)
    /\ permit[w] = {}
    /\ FreshAllowed
    /\ guard' = [guard EXCEPT ![w] = boundary]
    /\ UNCHANGED <<files, operatorVars, permit, left, clock, revoked>>

RefuseFresh(w) ==
    /\ Try(w)
    /\ permit[w] = {}
    /\ ~FreshAllowed
    /\ left' = [left EXCEPT ![w] = @ - 1]
    /\ UNCHANGED <<files, operatorVars, guard, permit, clock, revoked>>

\* issue_attempt_permit, inside the claim guard, reads the clock again: the
\* lease may have run out, or the clock been set back, since the guard's entry.
Issue(w) ==
    /\ guard[w] = "claim"
    /\ permit[w] = {}
    /\ ~RolledBack(clock)
    /\ clock < stateFile.expires
    /\ permit' = [permit EXCEPT ![w] =
          {[epoch |-> stateFile.enable_epoch, generation |-> stateFile.generation]}]
    /\ UNCHANGED <<files, operatorVars, guard, left, clock, revoked>>

\* A boundary of an owned attempt: claims, worktree, process, finalization.
EnterOwned(w) ==
    /\ Try(w)
    /\ \E p \in permit[w] : OwnedAllowed(p)
    /\ guard' = [guard EXCEPT ![w] = "owned"]
    /\ UNCHANGED <<files, operatorVars, permit, left, clock, revoked>>

\* ControlRefusal ends the attempt.
RefuseOwned(w) ==
    /\ Try(w)
    /\ \E p \in permit[w] : ~OwnedAllowed(p)
    /\ permit' = [permit EXCEPT ![w] = {}]
    /\ left' = [left EXCEPT ![w] = @ - 1]
    /\ UNCHANGED <<files, operatorVars, guard, clock, revoked>>

\* The protected operation is over, or failed; or the issue was refused.
Leave(w) ==
    /\ guard[w] # "none"
    /\ guard' = [guard EXCEPT ![w] = "none"]
    /\ left' = [left EXCEPT ![w] = @ - 1]
    /\ UNCHANGED <<files, operatorVars, permit, clock, revoked>>

\* The attempt finishes, or its process dies and the kernel drops the lock.
End(w) ==
    /\ guard[w] # "none" \/ permit[w] # {}
    /\ guard' = [guard EXCEPT ![w] = "none"]
    /\ permit' = [permit EXCEPT ![w] = {}]
    /\ left' = [left EXCEPT ![w] = IF @ > 0 THEN @ - 1 ELSE 0]
    /\ UNCHANGED <<files, operatorVars, clock, revoked>>

Tick ==
    /\ clock < MaxClock
    /\ clock' = clock + 1
    /\ UNCHANGED <<files, operatorVars, workerVars, revoked>>

SetBack ==
    /\ ClockStepsBack
    /\ clock > 0
    /\ clock' = clock - 1
    /\ UNCHANGED <<files, operatorVars, workerVars, revoked>>

Proceed(o) == Lock(o) \/ Reject(o) \/ Rename(o) \/ Anchor(o)

\* An operator passes no expected generation, or one it saw in some status.
Start(o) ==
    \E op \in Operation, E \in {{}} \cup {{g} : g \in 1..stateFile.generation} : Open(o, op, E)

OperatorStep(o) == Start(o) \/ Proceed(o) \/ Die(o) \/ DieUnanchored(o)

WorkerStep(w) ==
    \/ EnterFresh(w, "claim") \/ EnterFresh(w, "maintenance")
    \/ RefuseFresh(w) \/ Issue(w)
    \/ EnterOwned(w) \/ RefuseOwned(w)
    \/ Leave(w) \/ End(w)

Next ==
    \/ \E o \in Operator : OperatorStep(o)
    \/ \E w \in Worker : WorkerStep(w)
    \/ Tick
    \/ SetBack

Spec == Init /\ [][Next]_vars

\* An operator inside its critical section goes on; one that waits gets the
\* lock if it is free again and again (commands are typed by people, so the
\* stream of competitors dries up); a protected operation ends.
FairSpec ==
    /\ Spec
    /\ \A o \in Operator : SF_vars(Lock(o) \/ Reject(o)) /\ WF_vars(Rename(o) \/ Anchor(o))
    /\ \A w \in Worker : WF_vars(Leave(w))

-----------------------------------------------------------------------------
(* Properties.                                                              *)

\* Whoever is inside a protected operation is there under the control state
\* that is in the files right now: a disable, drain or refresh is never half
\* done around it, and a permit of an ended epoch protects nothing.
GuardUnderCurrentState ==
    \A w \in Worker :
        /\ guard[w] # "none" => Verified
        /\ guard[w] \in {"claim", "maintenance"} => stateFile.mode = "enabled"
        /\ guard[w] = "owned" => \E p \in permit[w] : p.epoch = Accepted(stateFile)

\* An epoch that is over never comes back: no sequence of enable, refresh,
\* drain and disable makes an old permit valid again.
EndedForever ==
    [][\A e \in 1..stateFile.generation : Accepted(stateFile) # e => Accepted(stateFile') # e]_vars

\* Permits are refused only for cause: drain (even repeated), refresh and
\* lease expiry leave an owned attempt its permit; only a disable, a damaged
\* control or a clock set back takes it away.
RefusedForCause ==
    [][\A w \in Worker : RefuseOwned(w) =>
           \/ \A p \in permit[w] : p.epoch \in revoked
           \/ ~Verified
           \/ RolledBack(clock)]_vars

\* Two operators that act on the same generation cannot both succeed: a state
\* is only ever replaced by its direct successor.
NoLostUpdate ==
    [][\A o \in Operator : Rename(o) =>
           /\ next[o].generation = stateFile.generation + 1
           /\ request[o].expected # {} => request[o].expected = {stateFile.generation}]_vars

\* A control that was left half written, or whose first mutation failed, never
\* repairs itself and never lets anybody in.
Damaged ==
    /\ lockFile # "absent"
    /\ ~Verified
    /\ writer = {}
    /\ \A o \in Operator : ~request[o].newLock

DamagedForever == [][Damaged => Damaged' /\ \A w \in Worker : guard'[w] = "none"]_vars

\* Every mutation returns: guards are finite, and the kernel frees the lock of
\* a dead process.
MutationsReturn == \A o \in Operator : pc[o] # "idle" ~> pc[o] = "idle"

\* The files and locks implement the atomic gate.  The gate turns when the
\* state file is renamed; the exclusive lock hides it until the anchor follows.
GateMode ==
    IF Damaged THEN "jammed"
    ELSE CASE stateFile.mode = "enabled"  -> "open"
           [] stateFile.mode = "draining" -> "draining"
           [] OTHER -> "closed"

Gate == INSTANCE AdmissionGate WITH
    mode   <- GateMode,
    epoch  <- IF Damaged THEN 0 ELSE Accepted(stateFile),
    last   <- stateFile.generation,
    inside <- {w \in Worker : guard[w] # "none"},
    owned  <- [w \in Worker |-> IF permit[w] = {} THEN 0 ELSE (CHOOSE p \in permit[w] : TRUE).epoch]
ImplementsGate == Gate!GateSpec
=============================================================================
