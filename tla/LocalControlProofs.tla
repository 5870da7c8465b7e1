------------------------- MODULE LocalControlProofs -------------------------
(***************************************************************************)
(* Proofs about LocalControl, for every set of operators and workers, all  *)
(* bounds, and a clock that may be set back at will.                       *)
(*                                                                         *)
(*   Typed         the types, with the count of boundaries                 *)
(*   Exclusion     the protocol of the lock                                *)
(*   CurrentState  who is inside a boundary is there under the state that  *)
(*                 is in the files: from Exclusion                         *)
(*   Shut          a damaged control stays damaged and keeps all out       *)
(*   NoneLost      a state is replaced by its direct successor only        *)
(*   EpochsEnd     an epoch that is over never comes back                  *)
(*   Permits       what became of the epoch of every permit: it is         *)
(*                 accepted, or a disable ended it                         *)
(*   Refusals      permits are refused for cause only: from Permits        *)
(*   Gated         the files and locks implement AdmissionGate: from all   *)
(*                 of these                                                *)
(***************************************************************************)
EXTENDS LocalControl, TLAPS

(* Types.                                                                   *)

\* A worker inside a boundary has not yet used it up.
Counted == \A w \in Worker : guard[w] # "none" => left[w] > 0

\* The successor of a well-typed state is a state of the next generation.  An
\* accepted request keeps the epoch, ends it, or starts a new one.
LEMMA SuccessorState ==
    ASSUME stateFile \in State, NEW r \in Request, ~Refused(r)
    PROVE  /\ Successor(r) \in State
           /\ Successor(r).generation = stateFile.generation + 1
           /\ Accepted(Successor(r)) \in {0, Accepted(stateFile), stateFile.generation + 1}
<1>1. /\ stateFile.generation \in Nat /\ stateFile.enable_epoch \in Nat
      /\ stateFile.drain_epoch \in Nat /\ r.now \in Nat /\ TTL \in Nat /\ r.op \in Operation
  BY LocalControlAssumption DEF State, Request
<1>2. Accepted(stateFile) \in Nat
  BY <1>1 DEF Accepted
<1>3. Successor(r) \in State /\ Successor(r).generation = stateFile.generation + 1
  BY <1>1, <1>2 DEF Successor, State, Mode
<1>4. r.op = "refresh" => stateFile.mode = "enabled"
  BY DEF Refused
<1>5. Accepted(Successor(r)) \in {0, Accepted(stateFile), stateFile.generation + 1}
  BY <1>1, <1>4 DEF Successor, Accepted, Operation
<1> QED BY <1>3, <1>5

\* The initial state is well typed.
LEMMA InitTyped == Init => TypeOK /\ Counted
BY LocalControlAssumption DEF Init, TypeOK, Counted, State, NoState, Request, NoRequest, Operation, Mode

\* Every step keeps the types.
LEMMA NextTyped == TypeOK /\ Counted /\ [Next]_vars => TypeOK' /\ Counted'
<1> SUFFICES ASSUME TypeOK, Counted, [Next]_vars PROVE TypeOK' /\ Counted'
  OBVIOUS
<1> USE LocalControlAssumption
<1>1. NoState \in State /\ NoRequest \in Request
  BY DEF NoState, State, NoRequest, Request, Operation
<1>2. ASSUME NEW o \in Operator, Start(o) PROVE TypeOK' /\ Counted'
  <2>1. PICK op \in Operation, E \in {{}} \cup {{g} : g \in 1..stateFile.generation} : Open(o, op, E)
    BY <1>2 DEF Start
  <2>2. stateFile.generation \in Nat
    BY DEF TypeOK, State
  <2>3. E \in SUBSET Nat
    BY <2>2
  <2>4. [op |-> op, expected |-> E, now |-> clock, newLock |-> lockFile = "absent"] \in Request
    BY <2>3 DEF Request, TypeOK
  <2> QED BY <2>1, <2>4 DEF TypeOK, Counted, Open, workerVars
<1>3. ASSUME NEW o \in Operator, Lock(o) PROVE TypeOK' /\ Counted'
  <2>1. Successor(request[o]) \in State
    BY <1>3, SuccessorState DEF TypeOK, Lock
  <2> QED BY <1>3, <2>1 DEF TypeOK, Counted, Lock, files, workerVars
<1>4. ASSUME NEW o \in Operator, Reject(o) PROVE TypeOK' /\ Counted'
  BY <1>1, <1>4 DEF TypeOK, Counted, Reject, files, workerVars
<1>5. ASSUME NEW o \in Operator, Rename(o) PROVE TypeOK' /\ Counted'
  BY <1>5 DEF TypeOK, Counted, Rename, workerVars
<1>6. ASSUME NEW o \in Operator, Anchor(o) PROVE TypeOK' /\ Counted'
  <2>1. next[o].generation \in Nat
    BY DEF TypeOK, State
  <2> QED BY <1>1, <1>6, <2>1 DEF TypeOK, Counted, Anchor, Idle, workerVars
<1>7. ASSUME NEW o \in Operator, Die(o) PROVE TypeOK' /\ Counted'
  BY <1>1, <1>7 DEF TypeOK, Counted, Die, Idle, workerVars
<1>8. ASSUME NEW o \in Operator, DieUnanchored(o) PROVE TypeOK' /\ Counted'
  BY <1>1, <1>8 DEF TypeOK, Counted, DieUnanchored, Idle, files, workerVars
<1>9. ASSUME NEW w \in Worker, WorkerStep(w) PROVE TypeOK' /\ Counted'
  <2>1. CASE EnterFresh(w, "claim") \/ EnterFresh(w, "maintenance") \/ EnterOwned(w)
    BY <2>1 DEF TypeOK, Counted, EnterFresh, EnterOwned, Try, files, operatorVars
  <2>2. CASE RefuseFresh(w) \/ RefuseOwned(w)
    <3>1. guard' = guard /\ guard[w] = "none" /\ left[w] - 1 \in Nat
      BY <2>2 DEF TypeOK, RefuseFresh, RefuseOwned, Try
    <3>2. left' = [left EXCEPT ![w] = left[w] - 1]
      BY <2>2 DEF RefuseFresh, RefuseOwned
    <3>3. left' \in [Worker -> Nat] /\ Counted'
      BY <3>1, <3>2 DEF TypeOK, Counted
    <3> QED BY <2>2, <3>1, <3>3 DEF TypeOK, RefuseFresh, RefuseOwned, files, operatorVars
  <2>3. CASE Issue(w)
    <3>1. [epoch |-> stateFile.enable_epoch, generation |-> stateFile.generation] \in Permit
      BY DEF TypeOK, State, Permit
    <3> QED BY <2>3, <3>1 DEF TypeOK, Counted, Issue, files, operatorVars
  <2>4. CASE Leave(w)
    BY <2>4 DEF TypeOK, Counted, Leave, files, operatorVars
  <2>5. CASE End(w)
    BY <2>5 DEF TypeOK, Counted, End, files, operatorVars
  <2> QED BY <1>9, <2>1, <2>2, <2>3, <2>4, <2>5 DEF WorkerStep
<1>10. CASE Tick
  BY <1>10 DEF TypeOK, Counted, Tick, files, operatorVars, workerVars
<1>11. CASE SetBack
  BY <1>11 DEF TypeOK, Counted, SetBack, files, operatorVars, workerVars
<1>12. CASE UNCHANGED vars
  BY <1>12 DEF TypeOK, Counted, vars, files, operatorVars, workerVars
<1> QED BY <1>2, <1>3, <1>4, <1>5, <1>6, <1>7, <1>8, <1>9, <1>10, <1>11, <1>12
        DEF Next, OperatorStep, Proceed

\* TypeOK holds in every reachable state.
THEOREM Typed == Spec => [](TypeOK /\ Counted)
BY InitTyped, NextTyped, PTL DEF Spec

-----------------------------------------------------------------------------
(* The lock.                                                                *)

\* Only the operator that has the lock is past its decision, and nobody is
\* inside a boundary while the lock is exclusive.
ExclusionInv ==
    /\ \A o \in Operator : pc[o] \in {"decided", "renamed"} => writer = {o}
    /\ writer # {} => \A w \in Worker : guard[w] = "none"

\* Every step keeps to the protocol of the lock.
LEMMA NextExclusive == TypeOK /\ ExclusionInv /\ [Next]_vars => ExclusionInv'
<1> SUFFICES ASSUME TypeOK, ExclusionInv, [Next]_vars PROVE ExclusionInv'
  OBVIOUS
<1>1. ASSUME NEW o \in Operator, Start(o) PROVE ExclusionInv'
  BY <1>1 DEF TypeOK, ExclusionInv, Start, Open, workerVars
<1>2. ASSUME NEW o \in Operator, Lock(o) PROVE ExclusionInv'
  BY <1>2 DEF TypeOK, ExclusionInv, Lock, CanLock, workerVars
<1>3. ASSUME NEW o \in Operator, Reject(o) PROVE ExclusionInv'
  BY <1>3 DEF TypeOK, ExclusionInv, Reject, workerVars
<1>4. ASSUME NEW o \in Operator, Rename(o) PROVE ExclusionInv'
  BY <1>4 DEF TypeOK, ExclusionInv, Rename, workerVars
<1>5. ASSUME NEW o \in Operator, Idle(o), UNCHANGED workerVars PROVE ExclusionInv'
  BY <1>5 DEF TypeOK, ExclusionInv, Idle, workerVars
<1>6. ASSUME NEW o \in Operator, Anchor(o) \/ Die(o) \/ DieUnanchored(o) PROVE ExclusionInv'
  BY <1>5, <1>6 DEF Anchor, Die, DieUnanchored
<1>7. ASSUME NEW w \in Worker, WorkerStep(w) PROVE ExclusionInv'
  <2>1. writer' = writer /\ pc' = pc
    BY <1>7 DEF WorkerStep, EnterFresh, RefuseFresh, Issue, EnterOwned, RefuseOwned, Leave, End,
                operatorVars
  <2>2. writer # {} => \A v \in Worker : guard'[v] = "none"
    BY <1>7 DEF TypeOK, ExclusionInv, WorkerStep, EnterFresh, RefuseFresh, Issue, EnterOwned,
                RefuseOwned, Leave, End, Try
  <2> QED BY <2>1, <2>2 DEF ExclusionInv
<1>8. CASE Tick \/ SetBack \/ UNCHANGED vars
  BY <1>8 DEF ExclusionInv, Tick, SetBack, vars, operatorVars, workerVars
<1> QED BY <1>1, <1>2, <1>3, <1>4, <1>6, <1>7, <1>8 DEF Next, OperatorStep, Proceed

\* The protocol of the lock: an operator past its decision excludes every other
\* operator past its decision and every worker inside a boundary.
THEOREM Exclusion == Spec => []ExclusionInv
<1>1. Init => ExclusionInv
  BY DEF Init, ExclusionInv
<1> QED BY <1>1, NextExclusive, Typed, PTL DEF Spec

-----------------------------------------------------------------------------
(* The state under which boundaries are passed.                             *)

\* The files change only while the lock is exclusive, or before there was any
\* anchor, and then nobody is inside; and nobody enters but under the files.
LEMMA NextCurrent ==
    TypeOK /\ ExclusionInv /\ GuardUnderCurrentState /\ [Next]_vars => GuardUnderCurrentState'
<1> SUFFICES ASSUME TypeOK, ExclusionInv, GuardUnderCurrentState, [Next]_vars
             PROVE  GuardUnderCurrentState'
  OBVIOUS
<1>1. ASSUME UNCHANGED <<anchor, stateFile, guard, permit>>,
             lockFile' = lockFile \/ lockFile # "anchored"
      PROVE  GuardUnderCurrentState'
  BY <1>1 DEF GuardUnderCurrentState, Verified, Accepted
<1>2. ASSUME \A w \in Worker : guard'[w] = "none" PROVE GuardUnderCurrentState'
  BY <1>2 DEF GuardUnderCurrentState
<1>3. ASSUME NEW o \in Operator, Start(o) \/ Lock(o) \/ Reject(o) PROVE GuardUnderCurrentState'
  BY <1>1, <1>3 DEF Start, Open, Lock, Reject, files, workerVars
<1>4. ASSUME NEW o \in Operator, Rename(o) \/ Anchor(o) \/ DieUnanchored(o)
      PROVE  GuardUnderCurrentState'
  BY <1>2, <1>4 DEF ExclusionInv, Rename, Anchor, DieUnanchored, workerVars
<1>5. ASSUME NEW o \in Operator, Die(o) PROVE GuardUnderCurrentState'
  BY <1>1, <1>2, <1>5 DEF ExclusionInv, Die, workerVars
<1>6. ASSUME NEW w \in Worker, WorkerStep(w) PROVE GuardUnderCurrentState'
  <2>1. UNCHANGED files
    BY <1>6 DEF WorkerStep, EnterFresh, RefuseFresh, Issue, EnterOwned, RefuseOwned, Leave, End
  <2>2. \A v \in Worker \ {w} : guard'[v] = guard[v] /\ permit'[v] = permit[v]
    BY <1>6 DEF TypeOK, WorkerStep, EnterFresh, RefuseFresh, Issue, EnterOwned, RefuseOwned, Leave,
                End
  <2>3. \/ guard'[w] = "none"
        \/ guard'[w] = guard[w] /\ guard[w] \in {"claim", "maintenance"}
        \/ guard'[w] \in {"claim", "maintenance"} /\ FreshAllowed
        \/ guard'[w] = "owned" /\ permit'[w] = permit[w] /\ \E p \in permit[w] : OwnedAllowed(p)
    BY <1>6 DEF TypeOK, WorkerStep, EnterFresh, RefuseFresh, Issue, EnterOwned, RefuseOwned, Leave,
                End, Try
  <2> QED BY <2>1, <2>2, <2>3
          DEF GuardUnderCurrentState, Verified, Accepted, FreshAllowed, OwnedAllowed, files
<1>7. CASE Tick \/ SetBack \/ UNCHANGED vars
  BY <1>1, <1>7 DEF Tick, SetBack, vars, files, workerVars
<1> QED BY <1>3, <1>4, <1>5, <1>6, <1>7 DEF Next, OperatorStep, Proceed

\* Whoever is inside a protected operation is there under the control state
\* that is in the files, whatever the clock does and whoever dies.
THEOREM CurrentState == Spec => []GuardUnderCurrentState
<1>1. Init => GuardUnderCurrentState
  BY DEF Init, GuardUnderCurrentState
<1> QED BY <1>1, NextCurrent, Typed, Exclusion, PTL DEF Spec

-----------------------------------------------------------------------------
(* A damaged control.                                                       *)

\* No operator past its decision, none with a new lock: nobody is left to
\* write an anchor, and without one no guard and no operator gets further.
LEMMA DamageStays ==
    ASSUME TypeOK, ExclusionInv, GuardUnderCurrentState, Next, Damaged
    PROVE  Damaged' /\ \A w \in Worker : guard'[w] = "none"
<1>1. /\ \A w \in Worker : guard[w] = "none"
      /\ \A o \in Operator : pc[o] \in {"idle", "opened"}
  BY DEF TypeOK, ExclusionInv, GuardUnderCurrentState, Damaged
<1>2. ASSUME NEW o \in Operator, Start(o) PROVE Damaged' /\ guard' = guard
  <2>1. PICK op \in Operation, E \in {{}} \cup {{g} : g \in 1..stateFile.generation} :
            Open(o, op, E)
    BY <1>2 DEF Start
  <2>2. lockFile # "absent"
    BY DEF Damaged
  <2>3. /\ \A p \in Operator \ {o} : request'[p] = request[p]
        /\ ~request'[o].newLock
    BY <2>1, <2>2 DEF TypeOK, Open
  <2>4. UNCHANGED <<files, writer, guard>>
    BY <2>1, <2>2 DEF Open, files, workerVars
  <2> QED BY <2>3, <2>4 DEF Damaged, Verified, files
<1>3. ASSUME NEW o \in Operator, Reject(o) PROVE Damaged' /\ guard' = guard
  BY <1>3 DEF TypeOK, Reject, Damaged, Verified, NoRequest, files, workerVars
<1>4. ASSUME NEW o \in Operator, Die(o) PROVE Damaged' /\ guard' = guard
  BY <1>1, <1>4 DEF TypeOK, Die, Idle, Damaged, Verified, NoRequest, workerVars
<1>5. ASSUME NEW o \in Operator
      PROVE  ~Lock(o) /\ ~Rename(o) /\ ~Anchor(o) /\ ~DieUnanchored(o)
  BY <1>1 DEF Damaged, Lock, Rename, Anchor, DieUnanchored
<1>6. ASSUME NEW w \in Worker, WorkerStep(w)
      PROVE  Damaged' /\ \A v \in Worker : guard'[v] = "none"
  <2>1. ~FreshAllowed /\ \A p : ~OwnedAllowed(p)
    BY DEF Damaged, FreshAllowed, OwnedAllowed
  <2>2. UNCHANGED <<files, operatorVars>> /\ \A v \in Worker : guard'[v] = "none"
    BY <1>1, <1>6, <2>1 DEF TypeOK, WorkerStep, EnterFresh, RefuseFresh, Issue, EnterOwned,
                            RefuseOwned, Leave, End
  <2> QED BY <2>2 DEF Damaged, Verified, files, operatorVars
<1>7. CASE Tick \/ SetBack
  BY <1>1, <1>7 DEF Tick, SetBack, Damaged, Verified, files, operatorVars, workerVars
<1> QED BY <1>1, <1>2, <1>3, <1>4, <1>5, <1>6, <1>7 DEF Next, OperatorStep, Proceed

\* A control that was left half written lets nobody in and stays so.
THEOREM Shut == Spec => DamagedForever
<1>1. TypeOK /\ ExclusionInv /\ GuardUnderCurrentState /\ [Next]_vars =>
          [Damaged => Damaged' /\ \A w \in Worker : guard'[w] = "none"]_vars
  BY DamageStays
<1> QED BY <1>1, Typed, Exclusion, CurrentState, PTL DEF Spec, DamagedForever

-----------------------------------------------------------------------------
(* Generations and epochs.                                                  *)

\* What an operator decided still fits the state in the file when it writes,
\* and a compare-and-swap names one generation.
DecidedInv ==
    /\ \A o \in Operator : pc[o] = "decided" =>
          /\ next[o].generation = stateFile.generation + 1
          /\ Accepted(next[o]) \in {0, Accepted(stateFile), stateFile.generation + 1}
          /\ request[o].expected # {} => stateFile.generation \in request[o].expected
    /\ \A o \in Operator : \A g, h \in request[o].expected : g = h

\* Every step keeps decisions in line with the state file: it changes only by
\* the step of the one operator that has decided.
LEMMA NextDecided == TypeOK /\ ExclusionInv /\ DecidedInv /\ [Next]_vars => DecidedInv'
<1> SUFFICES ASSUME TypeOK, ExclusionInv, DecidedInv, [Next]_vars PROVE DecidedInv'
  OBVIOUS
<1>1. ASSUME NEW o \in Operator, Start(o) PROVE DecidedInv'
  <2>1. PICK op \in Operation, E \in {{}} \cup {{g} : g \in 1..stateFile.generation} : Open(o, op, E)
    BY <1>1 DEF Start
  <2>2. \A g, h \in E : g = h
    OBVIOUS
  <2>3. /\ \A p \in Operator \ {o} : pc'[p] = pc[p] /\ request'[p] = request[p]
        /\ pc'[o] = "opened" /\ request'[o].expected = E
        /\ UNCHANGED <<stateFile, next>>
    BY <2>1 DEF TypeOK, Open
  <2> QED BY <2>2, <2>3 DEF DecidedInv, Accepted
<1>2. ASSUME NEW o \in Operator, Lock(o) PROVE DecidedInv'
  <2>1. /\ Successor(request[o]).generation = stateFile.generation + 1
        /\ Accepted(Successor(request[o])) \in {0, Accepted(stateFile), stateFile.generation + 1}
    BY <1>2, SuccessorState DEF TypeOK, Lock
  <2>2. request[o].expected # {} => stateFile.generation \in request[o].expected
    BY <1>2 DEF Lock, Refused
  <2>3. /\ \A p \in Operator \ {o} : pc'[p] = pc[p] /\ next'[p] = next[p]
        /\ next'[o] = Successor(request[o])
        /\ UNCHANGED <<stateFile, request>>
    BY <1>2 DEF TypeOK, Lock, files
  <2> QED BY <2>1, <2>2, <2>3 DEF DecidedInv, Accepted
<1>3. ASSUME NEW o \in Operator, Rename(o) PROVE DecidedInv'
  <2>1. \A p \in Operator : pc'[p] # "decided"
    BY <1>3 DEF TypeOK, ExclusionInv, Rename
  <2> QED BY <1>3, <2>1 DEF DecidedInv, Rename
<1>4. ASSUME NEW o \in Operator, Reject(o) \/ Anchor(o) \/ Die(o) \/ DieUnanchored(o)
      PROVE  DecidedInv'
  <2>1. /\ \A p \in Operator \ {o} :
               pc'[p] = pc[p] /\ next'[p] = next[p] /\ request'[p] = request[p]
        /\ pc'[o] = "idle" /\ request'[o].expected = {}
        /\ UNCHANGED stateFile
    BY <1>4 DEF TypeOK, Reject, Anchor, Die, DieUnanchored, Idle, NoRequest, files
  <2> QED BY <2>1 DEF DecidedInv, Accepted
<1>5. ASSUME UNCHANGED <<files, operatorVars>> PROVE DecidedInv'
  BY <1>5 DEF DecidedInv, Accepted, files, operatorVars
<1>6. ASSUME NEW w \in Worker, WorkerStep(w) PROVE DecidedInv'
  BY <1>5, <1>6 DEF WorkerStep, EnterFresh, RefuseFresh, Issue, EnterOwned, RefuseOwned, Leave, End
<1>7. CASE Tick \/ SetBack \/ UNCHANGED vars
  BY <1>5, <1>7 DEF Tick, SetBack, vars
<1> QED BY <1>1, <1>2, <1>3, <1>4, <1>6, <1>7 DEF Next, OperatorStep, Proceed

\* The state file changes only when an operator renames its decision.
LEMMA StateChange ==
    ASSUME [Next]_vars, ~(\E o \in Operator : Rename(o))
    PROVE  stateFile' = stateFile
BY DEF Next, OperatorStep, Proceed, Start, Open, Lock, Reject, Anchor, Die, DieUnanchored, WorkerStep,
       EnterFresh, RefuseFresh, Issue, EnterOwned, RefuseOwned, Leave, End, Tick, SetBack, vars, files

\* DecidedInv holds in every reachable state.
THEOREM Decided == Spec => []DecidedInv
<1>1. Init => DecidedInv
  BY DEF Init, DecidedInv, NoRequest
<1> QED BY <1>1, NextDecided, Typed, Exclusion, PTL DEF Spec

\* Two operators that act on the same generation cannot both succeed.
THEOREM NoneLost == Spec => NoLostUpdate
<1>1. TypeOK /\ DecidedInv =>
          [\A o \in Operator : Rename(o) =>
               /\ next[o].generation = stateFile.generation + 1
               /\ request[o].expected # {} => request[o].expected = {stateFile.generation}]_vars
  BY DEF DecidedInv, Rename
<1> QED BY <1>1, Typed, Decided, PTL DEF NoLostUpdate

\* An epoch that is over never comes back: a renamed state has the epoch of its
\* predecessor, none, or that of a generation that did not exist before.
THEOREM EpochsEnd == Spec => EndedForever
<1>1. TypeOK /\ DecidedInv /\ [Next]_vars =>
          [\A e \in 1..stateFile.generation :
               Accepted(stateFile) # e => Accepted(stateFile') # e]_vars
  <2> SUFFICES ASSUME TypeOK, DecidedInv, [Next]_vars, NEW e \in 1..stateFile.generation,
                      Accepted(stateFile) # e
               PROVE  Accepted(stateFile') # e
    OBVIOUS
  <2>1. ASSUME NEW o \in Operator, Rename(o) PROVE Accepted(stateFile') # e
    <3>1. Accepted(next[o]) \in {0, Accepted(stateFile), stateFile.generation + 1}
      BY <2>1 DEF DecidedInv, Rename
    <3>2. stateFile.generation \in Nat
      BY DEF TypeOK, State
    <3> QED BY <2>1, <3>1, <3>2 DEF Rename
  <2>2. CASE stateFile' = stateFile
    BY <2>2
  <2> QED BY <2>1, <2>2, StateChange
<1> QED BY <1>1, Typed, Decided, PTL DEF Spec, EndedForever

-----------------------------------------------------------------------------
(* First mutations.                                                         *)

\* One operator at most has made the lock file; until it writes the anchor
\* nobody else decides anything and nobody has a permit.
NewLockInv ==
    /\ \A o \in Operator : request[o].newLock =>
          /\ lockFile = "empty"
          /\ \A p \in Operator \ {o} : pc[p] \in {"idle", "opened"} /\ ~request[p].newLock
          /\ \A w \in Worker : permit[w] = {}
    /\ lockFile = "absent" =>
          /\ \A o \in Operator : pc[o] = "idle" /\ ~request[o].newLock
          /\ \A w \in Worker : permit[w] = {}
    /\ \A o \in Operator : pc[o] = "decided" => Verified \/ request[o].newLock

\* Every step keeps the first mutation alone.
LEMMA NextNewLock ==
    TypeOK /\ ExclusionInv /\ GuardUnderCurrentState /\ NewLockInv /\ [Next]_vars => NewLockInv'
<1> SUFFICES ASSUME TypeOK, ExclusionInv, GuardUnderCurrentState, NewLockInv, [Next]_vars
             PROVE  NewLockInv'
  OBVIOUS
<1>1. ASSUME NEW o \in Operator, Start(o) PROVE NewLockInv'
  <2>1. PICK op \in Operation, E \in {{}} \cup {{g} : g \in 1..stateFile.generation} : Open(o, op, E)
    BY <1>1 DEF Start
  <2>2. /\ \A p \in Operator \ {o} : pc'[p] = pc[p] /\ request'[p] = request[p]
        /\ pc'[o] = "opened" /\ (request'[o].newLock <=> lockFile = "absent")
        /\ lockFile' = IF lockFile = "absent" THEN "empty" ELSE lockFile
        /\ UNCHANGED <<anchor, stateFile, permit>>
        /\ pc[o] = "idle"
    BY <2>1 DEF TypeOK, Open, workerVars
  <2> QED BY <2>2 DEF NewLockInv, Verified
<1>2. ASSUME NEW o \in Operator, Lock(o) PROVE NewLockInv'
  <2>1. /\ \A p \in Operator \ {o} : pc'[p] = pc[p]
        /\ pc[o] = "opened" /\ pc'[o] = "decided"
        /\ request[o].newLock \/ Verified
        /\ UNCHANGED <<files, request, permit>>
    BY <1>2 DEF TypeOK, Lock, workerVars
  <2>2. Verified => lockFile = "anchored"
    BY DEF Verified
  <2> QED BY <2>1, <2>2 DEF NewLockInv, Verified, files
<1>3. ASSUME NEW o \in Operator, Rename(o) PROVE NewLockInv'
  <2>1. \A p \in Operator : pc'[p] # "decided" /\ (p # o => pc'[p] = pc[p])
    BY <1>3 DEF TypeOK, ExclusionInv, Rename
  <2> QED BY <1>3, <2>1 DEF NewLockInv, Rename, workerVars
<1>4. ASSUME NEW o \in Operator, Anchor(o) PROVE NewLockInv'
  <2>1. /\ \A p \in Operator \ {o} : pc'[p] = pc[p] /\ request'[p] = request[p]
        /\ pc'[o] = "idle" /\ ~request'[o].newLock /\ lockFile' = "anchored"
    BY <1>4 DEF TypeOK, Anchor, Idle, NoRequest
  <2>2. \A p \in Operator : pc'[p] # "decided" /\ ~request'[p].newLock
    <3>1. pc[o] = "renamed"
      BY <1>4 DEF Anchor
    <3>2. ASSUME NEW p \in Operator \ {o} PROVE pc[p] # "decided" /\ ~request[p].newLock
      <4>1. pc[p] # "decided"
        BY <3>1 DEF ExclusionInv
      <4>2. o \in Operator \ {p}
        OBVIOUS
      <4> QED BY <3>1, <4>1, <4>2 DEF NewLockInv
    <3> QED BY <2>1, <3>2
  <2> QED BY <2>1, <2>2 DEF NewLockInv
<1>5. ASSUME NEW o \in Operator, Reject(o) \/ Die(o) \/ DieUnanchored(o) PROVE NewLockInv'
  <2>1. /\ \A p \in Operator \ {o} : pc'[p] = pc[p] /\ request'[p] = request[p]
        /\ pc'[o] = "idle" /\ ~request'[o].newLock
        /\ UNCHANGED <<anchor, stateFile, permit>>
        /\ lockFile' = lockFile \/ (lockFile' = "empty" /\ pc[o] = "renamed")
    BY <1>5 DEF TypeOK, Reject, Die, DieUnanchored, Idle, NoRequest, files, workerVars
  <2>2. pc[o] = "renamed" => \A p \in Operator \ {o} : pc[p] # "decided"
    BY DEF ExclusionInv
  <2> QED BY <2>1, <2>2 DEF NewLockInv, Verified
<1>6. ASSUME NEW w \in Worker, WorkerStep(w) PROVE NewLockInv'
  <2>1. UNCHANGED <<files, operatorVars>>
    BY <1>6 DEF WorkerStep, EnterFresh, RefuseFresh, Issue, EnterOwned, RefuseOwned, Leave, End
  <2>2. \A v \in Worker : permit'[v] \subseteq permit[v] \/ Verified
    BY <1>6 DEF TypeOK, GuardUnderCurrentState, WorkerStep, EnterFresh, RefuseFresh, Issue,
                EnterOwned, RefuseOwned, Leave, End
  <2>3. Verified => lockFile = "anchored"
    BY DEF Verified
  <2> QED BY <2>1, <2>2, <2>3 DEF NewLockInv, Verified, files, operatorVars
<1>7. CASE Tick \/ SetBack \/ UNCHANGED vars
  BY <1>7 DEF Tick, SetBack, vars, files, operatorVars, workerVars, NewLockInv, Verified
<1> QED BY <1>1, <1>2, <1>3, <1>4, <1>5, <1>6, <1>7 DEF Next, OperatorStep, Proceed

-----------------------------------------------------------------------------
(* Turns: how the mode and the epoch of the state file change.              *)

\* st may follow the state in the file.
Turns(st) ==
    \/ st.mode = "disabled" /\ Accepted(st) = 0
    \/ st.mode = "draining" /\ Accepted(st) = Accepted(stateFile)
    \/ st.mode = "enabled" /\ stateFile.mode = "enabled" /\ Accepted(st) = Accepted(stateFile)
    \/ /\ st.mode = "enabled" /\ stateFile.mode \in {"none", "disabled"}
       /\ Accepted(st) = stateFile.generation + 1

TurnInv ==
    /\ stateFile.mode = "enabled" => Accepted(stateFile) # 0
    /\ Accepted(stateFile) \in 0..stateFile.generation
    /\ \A o \in Operator : pc[o] = "decided" => Turns(next[o])
    /\ \A o \in Operator : pc[o] = "renamed" => next[o] = stateFile

\* Whatever is not refused is one of the four turns.
LEMMA SuccessorTurns ==
    ASSUME stateFile \in State, NEW r \in Request, ~Refused(r)
    PROVE  Turns(Successor(r))
<1>1. r.op \in Operation /\ stateFile.mode \in Mode \cup {"none"}
  BY DEF State, Request
<1>2. CASE r.op = "enable"
  <2>1. stateFile.mode \in {"none", "disabled"}
    BY <1>1, <1>2 DEF Refused, Mode
  <2> QED BY <1>2, <2>1 DEF Successor, Accepted, Turns
<1>3. CASE r.op = "refresh"
  <2>1. stateFile.mode = "enabled"
    BY <1>3 DEF Refused
  <2> QED BY <1>3, <2>1 DEF Successor, Accepted, Turns
<1>4. CASE r.op = "drain"
  BY <1>4 DEF Successor, Accepted, Turns
<1>5. CASE r.op = "disable"
  BY <1>5 DEF Successor, Accepted, Turns
<1> QED BY <1>1, <1>2, <1>3, <1>4, <1>5 DEF Operation

\* Every step keeps decisions and written states in line with the state file.
LEMMA NextTurns ==
    TypeOK /\ ExclusionInv /\ DecidedInv /\ TurnInv /\ [Next]_vars => TurnInv'
<1> SUFFICES ASSUME TypeOK, ExclusionInv, DecidedInv, TurnInv, [Next]_vars PROVE TurnInv'
  OBVIOUS
<1>1. ASSUME stateFile' = stateFile,
             \A o \in Operator : \/ pc'[o] \notin {"decided", "renamed"}
                                 \/ pc'[o] = pc[o] /\ next'[o] = next[o]
                                 \/ pc'[o] = "decided" /\ Turns(next'[o])
      PROVE  TurnInv'
  BY <1>1 DEF TurnInv, Turns, Accepted
<1>2. ASSUME NEW o \in Operator, Start(o) PROVE TurnInv'
  BY <1>1, <1>2 DEF TypeOK, Start, Open
<1>3. ASSUME NEW o \in Operator, Lock(o) PROVE TurnInv'
  <2>1. Turns(Successor(request[o]))
    BY <1>3, SuccessorTurns DEF TypeOK, Lock
  <2>2. /\ \A p \in Operator \ {o} : pc'[p] = pc[p] /\ next'[p] = next[p]
        /\ pc'[o] = "decided" /\ next'[o] = Successor(request[o])
        /\ stateFile' = stateFile
    BY <1>3 DEF TypeOK, Lock, files
  <2> QED BY <1>1, <2>1, <2>2
<1>4. ASSUME NEW o \in Operator, Rename(o) PROVE TurnInv'
  <2>1. /\ stateFile' = next[o] /\ next' = next
        /\ \A p \in Operator : pc'[p] # "decided" /\ (pc'[p] = "renamed" => p = o)
    BY <1>4 DEF TypeOK, ExclusionInv, Rename
  <2>2. next[o].generation = stateFile.generation + 1 /\ Turns(next[o])
    BY <1>4 DEF DecidedInv, TurnInv, Rename
  <2>3. stateFile.generation \in Nat
    BY DEF TypeOK, State
  <2>4. /\ next[o].mode = "enabled" => Accepted(next[o]) # 0
        /\ Accepted(next[o]) \in 0..next[o].generation
    BY <2>2, <2>3 DEF TurnInv, Turns
  <2> QED BY <2>1, <2>4 DEF TurnInv, Accepted
<1>5. ASSUME NEW o \in Operator, Reject(o) \/ Anchor(o) \/ Die(o) \/ DieUnanchored(o)
      PROVE  TurnInv'
  <2>1. /\ \A p \in Operator \ {o} : pc'[p] = pc[p] /\ next'[p] = next[p]
        /\ pc'[o] = "idle" /\ stateFile' = stateFile
    BY <1>5 DEF TypeOK, Reject, Anchor, Die, DieUnanchored, Idle, files
  <2> QED BY <1>1, <2>1
<1>6. ASSUME UNCHANGED <<files, operatorVars>> PROVE TurnInv'
  BY <1>1, <1>6 DEF files, operatorVars
<1>7. ASSUME NEW w \in Worker, WorkerStep(w) PROVE TurnInv'
  BY <1>6, <1>7 DEF WorkerStep, EnterFresh, RefuseFresh, Issue, EnterOwned, RefuseOwned, Leave, End
<1>8. CASE Tick \/ SetBack \/ UNCHANGED vars
  BY <1>6, <1>8 DEF Tick, SetBack, vars
<1> QED BY <1>2, <1>3, <1>4, <1>5, <1>7, <1>8 DEF Next, OperatorStep, Proceed

-----------------------------------------------------------------------------
(* Permits.                                                                 *)

\* What became of the epoch of a permit: it was ended by a disable, it is the
\* one accepted, or the disable that ends it has not reached the anchor.
Standing(p) ==
    \/ p.epoch \in revoked
    \/ stateFile.mode \in {"enabled", "draining"} /\ p.epoch = Accepted(stateFile)
    \/ ~Verified /\ \A o \in Operator : pc[o] = "renamed" => next[o].mode = "disabled"

PermitInv ==
    /\ revoked \subseteq 1..stateFile.generation
    /\ \A w \in Worker : \A p, q \in permit[w] : p = q
    /\ \A w \in Worker : \A p \in permit[w] :
          p.epoch \in 1..p.generation /\ p.generation <= stateFile.generation /\ Standing(p)

\* A step that writes no state, ends no epoch and turns no decision into a
\* written state leaves the permits as they stand.
LEMMA PermitsRest ==
    ASSUME PermitInv, UNCHANGED <<stateFile, revoked>>, Verified' => Verified,
           \A w \in Worker : permit'[w] \subseteq permit[w],
           \A o \in Operator : pc'[o] = "renamed" => pc[o] = "renamed" /\ next'[o] = next[o]
    PROVE  PermitInv'
BY DEF PermitInv, Standing, Accepted

\* The rename of a state: only a disable ends the epoch of a permit, and its
\* anchor is still to be written.
LEMMA RenamePermits ==
    ASSUME TypeOK, ExclusionInv, DecidedInv, NewLockInv, TurnInv, PermitInv,
           NEW o \in Operator, Rename(o)
    PROVE  PermitInv'
<1>1. /\ stateFile' = next[o] /\ UNCHANGED <<lockFile, anchor, next, permit, revoked>>
      /\ \A p \in Operator : pc'[p] = "renamed" => p = o
  BY DEF TypeOK, ExclusionInv, Rename, workerVars
<1>2. stateFile'.generation = stateFile.generation + 1 /\ Turns(next[o])
  BY <1>1 DEF DecidedInv, TurnInv, Rename
<1>3. stateFile.generation \in Nat
  BY DEF TypeOK, State
<1>4. ASSUME NEW w \in Worker, NEW p \in permit[w]
      PROVE  Standing(p)'
  <2>1. Verified
    BY DEF NewLockInv, Rename
  <2>2. ~Verified'
    BY <1>1, <1>2, <1>3, <2>1 DEF Verified
  <2>3. \/ p.epoch \in revoked
        \/ stateFile.mode \in {"enabled", "draining"} /\ p.epoch = Accepted(stateFile)
    BY <2>1 DEF PermitInv, Standing
  <2>4. CASE p.epoch \in revoked
    BY <1>1, <2>4 DEF Standing
  <2>5. CASE next[o].mode = "disabled"
    BY <1>1, <2>2, <2>5 DEF Standing
  <2>6. CASE /\ stateFile.mode \in {"enabled", "draining"} /\ p.epoch = Accepted(stateFile)
             /\ next[o].mode # "disabled"
    <3>1. next[o].mode \in {"enabled", "draining"} /\ Accepted(next[o]) = Accepted(stateFile)
      BY <1>2, <2>6 DEF Turns
    <3> QED BY <1>1, <2>6, <3>1 DEF Standing, Accepted
  <2> QED BY <2>3, <2>4, <2>5, <2>6
<1>5. \A w \in Worker : \A p \in permit[w] : p.generation \in Nat
  BY DEF TypeOK, Permit
<1>6. revoked' \subseteq 1..stateFile'.generation
  BY <1>1, <1>2, <1>3 DEF PermitInv
<1> QED BY <1>1, <1>2, <1>3, <1>4, <1>5, <1>6 DEF PermitInv

\* The anchor of a disable ends every epoch there was.
LEMMA AnchorPermits ==
    ASSUME TypeOK, TurnInv, PermitInv, NEW o \in Operator, Anchor(o)
    PROVE  PermitInv'
<1>1. /\ UNCHANGED <<stateFile, permit>>
      /\ next[o] = stateFile /\ pc[o] = "renamed"
      /\ revoked' = IF next[o].mode = "disabled" THEN 1..next[o].generation ELSE revoked
  BY DEF TurnInv, Anchor, workerVars
<1>2. stateFile.generation \in Nat
  BY DEF TypeOK, State
<1>3. revoked \subseteq revoked' /\ revoked' \subseteq 1..stateFile.generation
  BY <1>1 DEF PermitInv
<1>4. ASSUME NEW w \in Worker, NEW p \in permit[w]
      PROVE  Standing(p)'
  <2>1. CASE p.epoch \in revoked
    BY <1>3, <2>1 DEF Standing
  <2>2. CASE stateFile.mode \in {"enabled", "draining"} /\ p.epoch = Accepted(stateFile)
    BY <1>1, <2>2 DEF Standing, Accepted
  <2>3. CASE next[o].mode = "disabled"
    <3>1. p.epoch \in 1..p.generation /\ p.generation <= stateFile.generation /\ p.generation \in Nat
      BY DEF PermitInv, TypeOK, Permit
    <3>2. p.epoch \in revoked'
      BY <1>1, <1>2, <2>3, <3>1
    <3> QED BY <3>2 DEF Standing
  <2> QED BY <1>1, <2>1, <2>2, <2>3 DEF PermitInv, Standing
<1> QED BY <1>1, <1>3, <1>4 DEF PermitInv

\* Every step keeps the standing of the permits.
LEMMA NextPermits ==
    TypeOK /\ ExclusionInv /\ GuardUnderCurrentState /\ DecidedInv /\ NewLockInv /\ TurnInv
        /\ PermitInv /\ [Next]_vars => PermitInv'
<1> SUFFICES ASSUME TypeOK, ExclusionInv, GuardUnderCurrentState, DecidedInv, NewLockInv, TurnInv,
                    PermitInv, [Next]_vars
             PROVE  PermitInv'
  OBVIOUS
<1>1. ASSUME NEW o \in Operator, Start(o) \/ Lock(o) \/ Reject(o) \/ Die(o) \/ DieUnanchored(o)
      PROVE  PermitInv'
  <2>1. /\ UNCHANGED <<anchor, stateFile, revoked, permit>>
        /\ lockFile' = "anchored" => lockFile = "anchored"
    BY <1>1 DEF Start, Open, Lock, Reject, Die, DieUnanchored, files, workerVars
  <2>2. \A p \in Operator : pc'[p] = "renamed" => pc[p] = "renamed" /\ next'[p] = next[p]
    BY <1>1 DEF TypeOK, Start, Open, Lock, Reject, Die, DieUnanchored, Idle
  <2>3. Verified' => Verified
    BY <2>1 DEF Verified
  <2> QED BY <2>1, <2>2, <2>3, PermitsRest
<1>2. ASSUME NEW w \in Worker, WorkerStep(w) PROVE PermitInv'
  <2>1. UNCHANGED <<files, operatorVars, revoked>>
    BY <1>2 DEF WorkerStep, EnterFresh, RefuseFresh, Issue, EnterOwned, RefuseOwned, Leave, End
  <2>2. CASE ~Issue(w)
    <3>1. \A v \in Worker : permit'[v] \subseteq permit[v]
      BY <1>2, <2>2 DEF TypeOK, WorkerStep, EnterFresh, RefuseFresh, EnterOwned, RefuseOwned, Leave, End
    <3> QED BY <2>1, <3>1, PermitsRest DEF Verified, files, operatorVars
  <2>3. CASE Issue(w)
    <3> DEFINE p == [epoch |-> stateFile.enable_epoch, generation |-> stateFile.generation]
    <3>1. permit' = [permit EXCEPT ![w] = {p}]
      BY <2>3 DEF Issue
    <3>2. stateFile.mode = "enabled"
      BY <2>3 DEF GuardUnderCurrentState, Issue
    <3>3. stateFile.generation \in Nat /\ Accepted(stateFile) \in 1..stateFile.generation
      BY <3>2 DEF TypeOK, State, TurnInv
    <3>4. p.epoch = Accepted(stateFile) /\ p.generation = stateFile.generation
      BY <3>2 DEF Accepted
    <3>5. p.epoch \in 1..p.generation /\ p.generation <= stateFile.generation /\ Standing(p)
      BY <3>2, <3>3, <3>4 DEF Standing
    <3>6. \A v \in Worker : \A q \in permit'[v] : (v = w /\ q = p) \/ (v # w /\ q \in permit[v])
      BY <3>1 DEF TypeOK
    <3>7. \A q : Standing(q) => Standing(q)'
      BY <2>1 DEF Standing, Verified, Accepted, files, operatorVars
    <3> HIDE DEF p
    <3>8. \A v \in Worker : \A q \in permit'[v] :
              q.epoch \in 1..q.generation /\ q.generation <= stateFile.generation /\ Standing(q)
      BY <3>5, <3>6 DEF PermitInv
    <3>9. \A v \in Worker : \A q, r \in permit'[v] : q = r
      BY <3>6 DEF PermitInv
    <3> QED BY <2>1, <3>7, <3>8, <3>9 DEF PermitInv, files
  <2> QED BY <2>2, <2>3
<1>3. CASE Tick \/ SetBack \/ UNCHANGED vars
  BY <1>3, PermitsRest DEF Tick, SetBack, vars, files, operatorVars, workerVars, Verified
<1> QED BY <1>1, <1>2, <1>3, RenamePermits, AnchorPermits DEF Next, OperatorStep, Proceed

\* The invariant of permits holds in every reachable state.
THEOREM Permits == Spec => [](NewLockInv /\ TurnInv /\ PermitInv)
<1>1. Init => NewLockInv /\ TurnInv /\ PermitInv
  BY DEF Init, NewLockInv, TurnInv, PermitInv, NoRequest, NoState, Accepted
<1> QED BY <1>1, NextNewLock, NextTurns, NextPermits, Typed, Exclusion, CurrentState, Decided, PTL
        DEF Spec

\* A refused permit of an intact control, under a clock that was not set back,
\* is of an epoch that a disable ended: drains, refreshes and expired leases
\* never take it away.
THEOREM Refusals == Spec => RefusedForCause
<1>1. TypeOK /\ PermitInv =>
          [\A w \in Worker : RefuseOwned(w) =>
               \/ \A p \in permit[w] : p.epoch \in revoked
               \/ ~Verified
               \/ RolledBack(clock)]_vars
  <2> SUFFICES ASSUME TypeOK, PermitInv, NEW w \in Worker, RefuseOwned(w), Verified,
                      ~RolledBack(clock), NEW q \in permit[w]
               PROVE  q.epoch \in revoked
    OBVIOUS
  <2>1. ~OwnedAllowed(q)
    BY DEF RefuseOwned, PermitInv
  <2>2. q.epoch \in 1..q.generation /\ q.generation <= stateFile.generation /\ Standing(q)
    BY DEF PermitInv
  <2>3. q.epoch # 0
    BY <2>2
  <2> QED BY <2>1, <2>2, <2>3 DEF OwnedAllowed, Standing
<1> QED BY <1>1, Typed, Permits, PTL DEF RefusedForCause

-----------------------------------------------------------------------------
(* The files and locks implement the atomic gate.                           *)

\* What the gate's variables stand for.
EpochShown == IF Damaged THEN 0 ELSE Accepted(stateFile)
Inside     == {w \in Worker : guard[w] # "none"}
EpochOf(P) == IF P = {} THEN 0 ELSE (CHOOSE p \in P : TRUE).epoch
Owned      == [w \in Worker |-> EpochOf(permit[w])]
Shown      == <<GateMode, EpochShown, stateFile.generation, Inside, Owned>>

\* A worker with one permit owns the epoch of that permit.
LEMMA EpochOfOne == \A p : EpochOf({p}) = p.epoch
<1> SUFFICES ASSUME NEW p PROVE EpochOf({p}) = p.epoch
  OBVIOUS
<1>1. (CHOOSE q \in {p} : TRUE) = p
  OBVIOUS
<1> QED BY <1>1 DEF EpochOf

\* Nobody is inside when nobody was and no guard changed.
LEMMA InsideIs ==
    /\ (\A w \in Worker : guard[w] = "none") => Inside = {}
    /\ UNCHANGED guard => UNCHANGED Inside
    /\ UNCHANGED permit => UNCHANGED Owned
<1>1. UNCHANGED permit =>
          [w \in Worker |-> EpochOf(permit[w])]' = [w \in Worker |-> EpochOf(permit[w])]
  OBVIOUS
<1> QED BY <1>1 DEF Inside, Owned

\* The rename of a state file is a turn of the gate, while nobody is inside.
LEMMA RenameTurns ==
    ASSUME TypeOK, ExclusionInv, DecidedInv, TurnInv, NEW o \in Operator, Rename(o)
    PROVE  Gate!GNext
<1>1. /\ stateFile' = next[o] /\ UNCHANGED <<guard, permit, writer>>
      /\ writer = {o}
  BY DEF ExclusionInv, Rename, workerVars
<1>2. ~Damaged /\ ~Damaged' /\ \A w \in Worker : guard[w] = "none"
  BY <1>1 DEF ExclusionInv, Damaged
<1>3. /\ next[o].generation = stateFile.generation + 1 /\ Turns(next[o])
      /\ stateFile.generation \in Nat
      /\ stateFile.mode \in {"none", "enabled", "draining", "disabled"}
  BY DEF TypeOK, State, Mode, DecidedInv, TurnInv, Rename
<1>4. /\ Inside = {} /\ UNCHANGED <<Inside, Owned>>
      /\ GateMode # "jammed"
      /\ stateFile'.generation \in Nat /\ stateFile'.generation >= stateFile.generation
  BY <1>1, <1>2, <1>3, InsideIs DEF GateMode
<1>5. /\ EpochShown = Accepted(stateFile) /\ EpochShown' = Accepted(next[o])
      /\ GateMode' = CASE next[o].mode = "enabled"  -> "open"
                       [] next[o].mode = "draining" -> "draining"
                       [] OTHER -> "closed"
      /\ stateFile.mode = "enabled" => GateMode = "open"
      /\ stateFile.mode \in {"none", "disabled"} => GateMode = "closed"
  BY <1>1, <1>2 DEF EpochShown, GateMode, Accepted
<1>6. CASE next[o].mode = "disabled" /\ Accepted(next[o]) = 0
  <2>1. Gate!Close
    BY <1>4, <1>5, <1>6 DEF Gate!Close, Gate!Turn, EpochShown, Inside, Owned, EpochOf
  <2> QED BY <2>1 DEF Gate!GNext
<1>7. CASE next[o].mode = "draining" /\ Accepted(next[o]) = Accepted(stateFile)
  <2>1. Gate!Drain
    BY <1>4, <1>5, <1>7 DEF Gate!Drain, Gate!Turn, EpochShown, Inside, Owned, EpochOf
  <2> QED BY <2>1 DEF Gate!GNext
<1>8. CASE /\ next[o].mode = "enabled" /\ stateFile.mode = "enabled"
           /\ Accepted(next[o]) = Accepted(stateFile)
  <2>1. Gate!Refresh
    BY <1>4, <1>5, <1>8 DEF Gate!Refresh, Gate!Turn, EpochShown, Inside, Owned, EpochOf
  <2> QED BY <2>1 DEF Gate!GNext
<1>9. CASE /\ next[o].mode = "enabled" /\ stateFile.mode \in {"none", "disabled"}
           /\ Accepted(next[o]) = stateFile.generation + 1
  <2>1. EpochShown' > stateFile.generation /\ EpochShown' <= stateFile'.generation
    BY <1>1, <1>3, <1>5, <1>9
  <2>2. Gate!Open
    BY <1>4, <1>5, <1>9, <2>1 DEF Gate!Open, Gate!Turn, EpochShown, Inside, Owned, EpochOf
  <2> QED BY <2>2 DEF Gate!GNext
<1> QED BY <1>3, <1>6, <1>7, <1>8, <1>9 DEF Turns

\* Any other step that no worker takes is none of the gate, or damages the
\* control, and then nobody is inside: no step both damages it and lets in.
LEMMA OthersJam ==
    ASSUME TypeOK, ExclusionInv, GuardUnderCurrentState, GuardUnderCurrentState',
           Next, UNCHANGED <<stateFile, guard, permit>>
    PROVE  [Gate!GNext]_Shown
<1>1. UNCHANGED <<stateFile.generation, Inside, Owned>>
  BY InsideIs
<1>2. CASE Damaged' <=> Damaged
  <2>1. UNCHANGED <<GateMode, EpochShown>>
    BY <1>2 DEF GateMode, EpochShown, Accepted
  <2> QED BY <1>1, <2>1 DEF Shown
<1>3. CASE Damaged' /\ ~Damaged
  <2>1. \A w \in Worker : guard[w] = "none"
    BY <1>3 DEF GuardUnderCurrentState, Damaged
  <2>2. Inside = {} /\ GateMode # "jammed" /\ GateMode' = "jammed" /\ EpochShown' = 0
    BY <1>3, <2>1, InsideIs DEF GateMode, EpochShown
  <2>3. stateFile.generation \in Nat
    BY DEF TypeOK, State
  <2>4. Gate!Jam
    BY <1>1, <2>2, <2>3 DEF Gate!Jam, Gate!Turn, EpochShown, Inside, Owned, EpochOf
  <2> QED BY <2>4 DEF Gate!GNext
<1> QED BY <1>2, <1>3, DamageStays

\* A step of a worker is a step of the same worker at the gate, or none.
LEMMA WorkerPasses ==
    ASSUME TypeOK, GuardUnderCurrentState, PermitInv, NEW w \in Worker, WorkerStep(w)
    PROVE  [Gate!GNext]_Shown
<1>1. UNCHANGED <<files, operatorVars>>
  BY DEF WorkerStep, EnterFresh, RefuseFresh, Issue, EnterOwned, RefuseOwned, Leave, End
<1>2. UNCHANGED <<GateMode, EpochShown, stateFile.generation>>
  BY <1>1 DEF GateMode, EpochShown, Damaged, Verified, Accepted, files, operatorVars
<1>3. Verified => ~Damaged
  BY DEF Damaged
<1>4. ASSUME NEW g \in {"claim", "maintenance", "owned"}, guard' = [guard EXCEPT ![w] = g]
      PROVE  Inside' = Inside \cup {w}
  BY <1>4 DEF TypeOK, Inside
<1>5. ASSUME guard' = [guard EXCEPT ![w] = "none"] PROVE Inside' = Inside \ {w}
  BY <1>5 DEF TypeOK, Inside
<1>6. ASSUME NEW P \in SUBSET Permit, permit' = [permit EXCEPT ![w] = P]
      PROVE  Owned' = [Owned EXCEPT ![w] = EpochOf(P)]
  <2>1. \A v \in Worker : permit'[v] = IF v = w THEN P ELSE permit[v]
    BY <1>6 DEF TypeOK
  <2>2. Owned' = [v \in Worker |-> EpochOf(permit'[v])]
    BY DEF Owned, EpochOf
  <2>3. Owned' = [v \in Worker |-> IF v = w THEN EpochOf(P) ELSE EpochOf(permit[v])]
    BY <2>1, <2>2
  <2> QED BY <2>3 DEF Owned
<1>7. CASE EnterFresh(w, "claim") \/ EnterFresh(w, "maintenance")
  <2>1. GateMode = "open"
    BY <1>3, <1>7 DEF EnterFresh, FreshAllowed, GateMode
  <2>2. Inside' = Inside \cup {w} /\ UNCHANGED Owned
    BY <1>4, <1>7, InsideIs DEF EnterFresh
  <2>3. Gate!Admit(w)
    BY <1>2, <2>1, <2>2 DEF Gate!Admit, EpochShown, Inside, Owned, EpochOf
  <2> QED BY <2>3 DEF Gate!GNext
<1>8. CASE RefuseFresh(w)
  <2>1. UNCHANGED <<Inside, Owned>>
    BY <1>8, InsideIs DEF RefuseFresh
  <2> QED BY <1>2, <2>1 DEF Shown
<1>9. CASE Issue(w)
  <2> DEFINE p == [epoch |-> stateFile.enable_epoch, generation |-> stateFile.generation]
  <2>1. permit' = [permit EXCEPT ![w] = {p}] /\ UNCHANGED guard /\ guard[w] = "claim"
    BY <1>9 DEF Issue
  <2>2. {p} \in SUBSET Permit /\ EpochOf({p}) = p.epoch
    <3>1. p \in Permit
      BY DEF TypeOK, State, Permit
    <3> HIDE DEF p
    <3> QED BY <3>1, EpochOfOne
  <2>3. Verified /\ stateFile.mode = "enabled"
    BY <2>1 DEF GuardUnderCurrentState
  <2>4. GateMode = "open" /\ EpochShown = p.epoch
    BY <1>3, <2>3 DEF GateMode, EpochShown, Accepted
  <2>5. w \in Inside /\ UNCHANGED Inside
    BY <2>1, InsideIs DEF Inside
  <2>6. Owned' = [Owned EXCEPT ![w] = EpochShown]
    BY <1>6, <2>1, <2>2, <2>4
  <2>7. Gate!Grant(w)
    BY <1>2, <2>4, <2>5, <2>6 DEF Gate!Grant, EpochShown, Inside, Owned, EpochOf
  <2> QED BY <2>7 DEF Gate!GNext
<1>10. CASE EnterOwned(w)
  <2>1. PICK p \in permit[w] : OwnedAllowed(p)
    BY <1>10 DEF EnterOwned
  <2>2. (CHOOSE q \in permit[w] : TRUE) = p
    BY DEF PermitInv
  <2>3. Owned[w] = p.epoch
    BY <2>2 DEF Owned, EpochOf
  <2>4. EpochShown = p.epoch /\ p.epoch # 0
    BY <1>3, <2>1 DEF OwnedAllowed, EpochShown
  <2>5. Inside' = Inside \cup {w} /\ UNCHANGED Owned
    BY <1>4, <1>10, InsideIs DEF EnterOwned
  <2>6. Gate!Pass(w)
    BY <1>2, <2>3, <2>4, <2>5 DEF Gate!Pass, EpochShown, Inside, Owned, EpochOf
  <2> QED BY <2>6 DEF Gate!GNext
<1>11. CASE RefuseOwned(w) \/ End(w) \/ Leave(w)
  <2>1. Inside' = Inside \ {w}
    <3>1. CASE RefuseOwned(w)
      BY <3>1, InsideIs DEF RefuseOwned, Try, Inside
    <3>2. CASE End(w) \/ Leave(w)
      BY <1>5, <3>2 DEF End, Leave
    <3> QED BY <1>11, <3>1, <3>2
  <2>2. UNCHANGED Owned \/ Owned' = [Owned EXCEPT ![w] = 0]
    <3>1. CASE Leave(w)
      BY <3>1, InsideIs DEF Leave
    <3>2. CASE RefuseOwned(w) \/ End(w)
      BY <1>6, <3>2 DEF RefuseOwned, End, EpochOf
    <3> QED BY <1>11, <3>1, <3>2
  <2>3. Gate!Leave(w)
    BY <1>2, <2>1, <2>2 DEF Gate!Leave, EpochShown, Inside, Owned, EpochOf
  <2> QED BY <2>3 DEF Gate!GNext
<1> QED BY <1>7, <1>8, <1>9, <1>10, <1>11 DEF WorkerStep

\* The three files, the locks, the half-done writes and the deaths cannot be
\* told from a gate that operators turn and workers pass atomically.
THEOREM Gated == Spec => ImplementsGate
<1>1. Init => Gate!GInit
  <2> SUFFICES ASSUME Init PROVE Gate!GInit
    OBVIOUS
  <2>1. ~Damaged
    BY DEF Init, Damaged
  <2>2. stateFile = NoState /\ \A w \in Worker : guard[w] = "none" /\ permit[w] = {}
    BY DEF Init
  <2> QED BY <2>1, <2>2 DEF Gate!GInit, GateMode, Accepted, NoState
<1>2. TypeOK /\ ExclusionInv /\ GuardUnderCurrentState /\ GuardUnderCurrentState' /\ DecidedInv
          /\ TurnInv /\ PermitInv /\ [Next]_vars => [Gate!GNext]_Shown
  <2> SUFFICES ASSUME TypeOK, ExclusionInv, GuardUnderCurrentState, GuardUnderCurrentState',
                      DecidedInv, TurnInv, PermitInv, [Next]_vars
               PROVE  [Gate!GNext]_Shown
    OBVIOUS
  <2>1. ASSUME NEW o \in Operator, Rename(o) PROVE Gate!GNext
    BY <2>1, RenameTurns
  <2>2. ASSUME NEW o \in Operator, OperatorStep(o), ~Rename(o)
        PROVE  UNCHANGED <<stateFile, guard, permit>>
    BY <2>2 DEF OperatorStep, Start, Open, Proceed, Lock, Reject, Anchor, Die, DieUnanchored,
                files, workerVars
  <2>3. Tick \/ SetBack => UNCHANGED <<stateFile, guard, permit>>
    BY DEF Tick, SetBack, files, workerVars
  <2>4. CASE UNCHANGED vars
    BY <2>4 DEF vars, files, operatorVars, workerVars, Shown, GateMode, EpochShown, Inside, Owned,
                Damaged, Verified, Accepted
  <2>5. CASE Next
    BY <2>1, <2>2, <2>3, <2>5, OthersJam, WorkerPasses DEF Next
  <2> QED BY <2>4, <2>5
<1> QED BY <1>1, <1>2, Typed, Exclusion, CurrentState, Decided, Permits, PTL
        DEF Spec, ImplementsGate, Gate!GateSpec, Gate!gateVars, Shown, EpochShown, Inside, Owned,
            EpochOf
=============================================================================
