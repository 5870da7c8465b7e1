-------------------------- MODULE ClaimStoreProofs --------------------------
(***************************************************************************)
(* Proofs about ClaimStore, for every set of holders, targets and batches, *)
(* every TTL and every bound on the clock.                                 *)
(*                                                                         *)
(*   Typed       the types, from the definitions of the steps              *)
(*   Protected   whoever has the lock has read what the file says          *)
(*   Exclusive   conflicting rows never coexist: from Typed and Protected  *)
(*   OneOwner    so every name is under the rows of one holder at most     *)
(*   Kept        unexpired leases stay, if the clock is never set back     *)
(*   Covered     a renewal covers the whole batch, on the same condition   *)
(*   Leases      the store implements ExclusiveLease, on the same          *)
(*               condition: from Protected and the invariant of Kept       *)
(***************************************************************************)
EXTENDS ClaimStore, TLAPS

(* The operators on rows.                                                   *)

\* Overlap looks at both directions, so it is symmetric.
LEMMA OverlapSymmetric == \A s, t : Overlap(s, t) <=> Overlap(t, s)
BY DEF Overlap

\* What acquire adds are rows of the caller, on its targets, for the TTL.
LEMMA CreatedRows ==
    ASSUME NEW h \in Holder, NEW c \in Call
    PROVE  /\ Created(h, c) \subseteq Row
           /\ \A r \in Created(h, c) : r.holder = h /\ r.target \in c.targets
BY ClaimStoreAssumption DEF Created, Row, Call

\* What renew writes are live rows, the caller's with a new deadline and the
\* others as they were.
LEMMA RenewedRows ==
    ASSUME NEW h \in Holder, NEW c \in Call, NEW rs \in SUBSET Row
    PROVE  /\ Renewed(h, c, rs) \subseteq Row
           /\ \A r \in Renewed(h, c, rs) :
                  \E q \in rs : q.holder = r.holder /\ q.target = r.target
           /\ \A q \in Live(rs, c.now) : q.holder # h => q \in Renewed(h, c, rs)
BY ClaimStoreAssumption DEF Renewed, Live, Row, Call

-----------------------------------------------------------------------------
(* Types.                                                                   *)

\* The initial state is well typed.
LEMMA InitTyped == Init => TypeOK
BY DEF Init, TypeOK

\* Every step keeps the types.
LEMMA NextTyped == TypeOK /\ [Next]_vars => TypeOK'
<1> SUFFICES ASSUME TypeOK, [Next]_vars PROVE TypeOK'
  OBVIOUS
<1> USE ClaimStoreAssumption
<1>1. ASSUME NEW h \in Holder, BeginAcquire(h) PROVE TypeOK'
  <2>1. PICK T \in Batches[h] : Begin(h, "acquire", T)
    BY <1>1 DEF BeginAcquire
  <2>2. [op |-> "acquire", targets |-> T, now |-> clock] \in Call
    BY DEF TypeOK, Call, Op
  <2> QED BY <2>1, <2>2 DEF TypeOK, Begin
<1>2. ASSUME NEW h \in Holder, BeginOther(h) PROVE TypeOK'
  <2>1. PICK op \in Op : Begin(h, op, {})
    BY <1>2 DEF BeginOther
  <2>2. [op |-> op, targets |-> {}, now |-> clock] \in Call
    BY DEF TypeOK, Call
  <2> QED BY <2>1, <2>2 DEF TypeOK, Begin
<1>3. ASSUME NEW h \in Holder, TakeLock(h) PROVE TypeOK'
  BY <1>3 DEF TypeOK, TakeLock
<1>4. ASSUME NEW h \in Holder, Finish(h) PROVE TypeOK'
  <2>1. /\ lock' \in SUBSET Holder
        /\ call' \in [Holder -> SUBSET Call]
        /\ snapshot' \in [Holder -> SUBSET Row]
        /\ clock' \in Nat
    BY <1>4 DEF TypeOK, Finish, List, Acquire, AcquireRefused, Renew, RenewRefused, Release, Return
  <2>2. snapshot[h] \in SUBSET Row /\ call[h] \in SUBSET Call
    BY DEF TypeOK
  <2>3. CASE List(h)
    BY <2>1, <2>2, <2>3 DEF TypeOK, List, Live
  <2>4. CASE Acquire(h)
    BY <2>1, <2>2, <2>4, CreatedRows DEF TypeOK, Acquire, Live
  <2>5. CASE AcquireRefused(h)
    BY <2>1, <2>5 DEF TypeOK, AcquireRefused
  <2>6. CASE Renew(h)
    <3>1. PICK c \in call[h] : LET updated == Renewed(h, c, snapshot[h]) IN
            rows' = updated /\ held' = [held EXCEPT ![h] = Own(h, updated)]
      BY <2>6 DEF Renew
    <3>2. Renewed(h, c, snapshot[h]) \subseteq Row
      BY <2>2, RenewedRows
    <3> QED BY <2>1, <3>1, <3>2 DEF TypeOK, Own
  <2>7. CASE RenewRefused(h)
    BY <2>1, <2>7 DEF TypeOK, RenewRefused
  <2>8. CASE Release(h)
    BY <2>1, <2>2, <2>8 DEF TypeOK, Release
  <2> QED BY <1>4, <2>3, <2>4, <2>5, <2>6, <2>7, <2>8 DEF Finish
<1>5. ASSUME NEW h \in Holder, Crash(h) PROVE TypeOK'
  BY <1>5 DEF TypeOK, Crash
<1>6. CASE ClockMoves
  BY <1>6 DEF TypeOK, ClockMoves
<1>7. CASE UNCHANGED vars
  BY <1>7 DEF TypeOK, vars
<1> QED BY <1>1, <1>2, <1>3, <1>4, <1>5, <1>6, <1>7 DEF Next

\* TypeOK holds in every reachable state.
THEOREM Typed == Spec => []TypeOK
BY InitTyped, NextTyped, PTL DEF Spec

-----------------------------------------------------------------------------
(* The lock.                                                                *)

\* Only a call that holds the lock changes the rows, and it gives up the lock
\* in the same step; so what a process read is what the file says for as long
\* as the process is in the critical section.
LEMMA NextProtects == TypeOK /\ LockProtects /\ [Next]_vars => LockProtects'
<1> SUFFICES ASSUME TypeOK, LockProtects, [Next]_vars PROVE LockProtects'
  OBVIOUS
<1>1. ASSUME NEW h \in Holder, BeginAcquire(h) PROVE LockProtects'
  BY <1>1 DEF LockProtects, BeginAcquire, Begin
<1>2. ASSUME NEW h \in Holder, BeginOther(h) PROVE LockProtects'
  BY <1>2 DEF LockProtects, BeginOther, Begin
<1>3. ASSUME NEW h \in Holder, TakeLock(h) PROVE LockProtects'
  BY <1>3 DEF TypeOK, LockProtects, TakeLock
<1>4. ASSUME NEW h \in Holder, Finish(h) PROVE LockProtects'
  <2>1. lock' = {}
    BY <1>4 DEF Finish, List, Acquire, AcquireRefused, Renew, RenewRefused, Release, Return
  <2> QED BY <2>1 DEF LockProtects
<1>5. ASSUME NEW h \in Holder, Crash(h) PROVE LockProtects'
  BY <1>5 DEF TypeOK, LockProtects, Crash
<1>6. CASE ClockMoves
  BY <1>6 DEF LockProtects, ClockMoves
<1>7. CASE UNCHANGED vars
  BY <1>7 DEF LockProtects, vars
<1> QED BY <1>1, <1>2, <1>3, <1>4, <1>5, <1>6, <1>7 DEF Next

\* The flock protocol: mutual exclusion, and no update is lost.
THEOREM Protected == Spec => []LockProtects
<1>1. Init => LockProtects
  BY DEF Init, LockProtects
<1> QED BY <1>1, NextProtects, Typed, PTL DEF Spec

\* So every step leaves the rows alone or replaces them by what one call
\* computes from the rows themselves.
LEMMA RowsChange ==
    ASSUME TypeOK, LockProtects, Next
    PROVE  \/ rows' = rows
           \/ \E h \in Holder : \E c \in call[h] :
                  \/ rows' = Live(rows, c.now)
                  \/ /\ ~Conflicts(h, c.targets, Live(rows, c.now))
                     /\ rows' = Live(rows, c.now) \cup Created(h, c)
                  \/ rows' = Renewed(h, c, rows)
                  \/ rows' = {r \in rows : r.holder # h}
<1>1. ASSUME NEW h \in Holder, lock = {h} PROVE snapshot[h] = rows
  BY <1>1 DEF LockProtects
<1>2. ASSUME NEW h \in Holder, BeginAcquire(h) \/ BeginOther(h) \/ TakeLock(h) \/ Crash(h)
      PROVE  rows' = rows
  BY <1>2 DEF BeginAcquire, BeginOther, Begin, TakeLock, Crash
<1>3. ASSUME ClockMoves PROVE rows' = rows
  BY <1>3 DEF ClockMoves
<1>4. ASSUME NEW h \in Holder, AcquireRefused(h) \/ RenewRefused(h) PROVE rows' = rows
  BY <1>4 DEF AcquireRefused, RenewRefused
<1>5. ASSUME NEW h \in Holder, List(h)
      PROVE  \E c \in call[h] : rows' = Live(rows, c.now)
  BY <1>1, <1>5 DEF List, Return
<1>6. ASSUME NEW h \in Holder, Acquire(h)
      PROVE  \E c \in call[h] : /\ ~Conflicts(h, c.targets, Live(rows, c.now))
                               /\ rows' = Live(rows, c.now) \cup Created(h, c)
  BY <1>1, <1>6 DEF Acquire, Return
<1>7. ASSUME NEW h \in Holder, Renew(h)
      PROVE  \E c \in call[h] : rows' = Renewed(h, c, rows)
  BY <1>1, <1>7 DEF Renew, Return
<1>8. ASSUME NEW h \in Holder, Release(h)
      PROVE  \E c \in call[h] : rows' = {r \in rows : r.holder # h}
  BY <1>1, <1>8 DEF Release, Return
<1> QED BY <1>2, <1>3, <1>4, <1>5, <1>6, <1>7, <1>8 DEF Next, Finish

-----------------------------------------------------------------------------
(* Exclusion.                                                               *)

\* Fewer rows, or renewed ones, are exclusive if the old ones are; a new row
\* was compared with the live rows of every other holder.  The clock has no
\* part in this.
LEMMA NextExclusive ==
    TypeOK /\ LockProtects /\ RowsExclusive /\ [Next]_vars => RowsExclusive'
<1> SUFFICES ASSUME TypeOK, LockProtects, RowsExclusive, Next PROVE RowsExclusive'
  BY DEF vars, RowsExclusive
<1>1. CASE rows' = rows
  BY <1>1 DEF RowsExclusive
<1>2. ASSUME NEW h \in Holder, NEW c \in call[h] PROVE
        /\ rows' = Live(rows, c.now) => RowsExclusive'
        /\ rows' = {r \in rows : r.holder # h} => RowsExclusive'
  BY DEF RowsExclusive, Live
<1>3. ASSUME NEW h \in Holder, NEW c \in call[h],
             ~Conflicts(h, c.targets, Live(rows, c.now)),
             rows' = Live(rows, c.now) \cup Created(h, c)
      PROVE  RowsExclusive'
  <2>1. c \in Call
    BY DEF TypeOK
  <2>2. \A r \in Created(h, c) : r.holder = h /\ r.target \in c.targets
    BY <2>1, CreatedRows
  <2>3. \A r \in Live(rows, c.now), t \in c.targets : r.holder # h => ~Overlap(t, r.target)
    BY <1>3 DEF Conflicts
  <2>4. SUFFICES ASSUME NEW r \in rows', NEW s \in rows', r.holder # s.holder
                 PROVE  ~Overlap(r.target, s.target)
    BY DEF RowsExclusive
  <2>5. CASE r \in Created(h, c)
    BY <1>3, <2>2, <2>3, <2>4, <2>5
  <2>6. CASE s \in Created(h, c)
    BY <1>3, <2>2, <2>3, <2>4, <2>6, OverlapSymmetric
  <2>7. CASE r \in Live(rows, c.now) /\ s \in Live(rows, c.now)
    BY <2>4, <2>7 DEF RowsExclusive, Live
  <2> QED BY <1>3, <2>4, <2>5, <2>6, <2>7
<1>4. ASSUME NEW h \in Holder, NEW c \in call[h], rows' = Renewed(h, c, rows)
      PROVE  RowsExclusive'
  <2>1. \A r \in rows' : \E q \in rows : q.holder = r.holder /\ q.target = r.target
    BY <1>4, RenewedRows DEF TypeOK
  <2> QED BY <2>1 DEF RowsExclusive
<1> QED BY <1>1, <1>2, <1>3, <1>4, RowsChange

\* No two holders ever have conflicting rows in the file, even if the clock
\* is set back at will.
THEOREM Exclusive == Spec => []RowsExclusive
<1>1. Init => RowsExclusive
  BY DEF Init, RowsExclusive
<1> QED BY <1>1, NextExclusive, Typed, Protected, PTL DEF Spec

-----------------------------------------------------------------------------
(* What exclusion is for: names have one owner.                             *)

\* Two ancestors of one name conflict, since one of them is an ancestor of the
\* other.
LEMMA AncestorsOverlap ==
    ASSUME NEW Part, NEW s \in Seq(Part), NEW t \in Seq(Part), NEW x \in Seq(Part),
           IsPrefix(s, x), IsPrefix(t, x)
    PROVE  Overlap(s, t)
<1>1. ASSUME NEW u \in Seq(Part), IsPrefix(u, x)
      PROVE  Len(u) <= Len(x) /\ \A i \in 1..Len(u) : u[i] = x[i]
  <2>1. Len(u) \in Nat /\ Len(x) \in Nat /\ Len(u) <= Len(x)
    BY <1>1 DEF IsPrefix
  <2>2. SubSeq(u, 1, Len(u)) = SubSeq(x, 1, Len(u))
    BY <1>1 DEF IsPrefix
  <2>3. ASSUME NEW i \in 1..Len(u)
        PROVE  SubSeq(u, 1, Len(u))[i] = u[i] /\ SubSeq(x, 1, Len(u))[i] = x[i]
    BY <2>1
  <2> QED BY <2>1, <2>2, <2>3
<1>2. ASSUME NEW u \in Seq(Part), NEW v \in Seq(Part), Len(u) <= Len(v),
             \A i \in 1..Len(u) : u[i] = v[i]
      PROVE  IsPrefix(u, v)
  <2>1. Len(u) \in Nat /\ Len(v) \in Nat
    OBVIOUS
  <2>2. SubSeq(u, 1, Len(u)) = [i \in 1..Len(u) |-> u[i]]
    BY <2>1
  <2>3. SubSeq(v, 1, Len(u)) = [i \in 1..Len(u) |-> v[i]]
    BY <1>2, <2>1
  <2>4. [i \in 1..Len(u) |-> u[i]] = [i \in 1..Len(u) |-> v[i]]
    BY <1>2
  <2> QED BY <1>2, <2>2, <2>3, <2>4 DEF IsPrefix
<1>3. Len(s) \in Nat /\ Len(t) \in Nat
  OBVIOUS
<1>4. CASE Len(s) <= Len(t)
  BY <1>1, <1>2, <1>3, <1>4 DEF Overlap
<1>5. CASE Len(t) <= Len(s)
  BY <1>1, <1>2, <1>3, <1>5 DEF Overlap
<1> QED BY <1>3, <1>4, <1>5

\* Every name is under the rows of at most one holder: who has claimed a
\* directory owns all that is in it, however deep, and nobody else has claimed
\* a part of it.
THEOREM OneOwner ==
    ASSUME NEW Part, Target \subseteq Seq(Part)
    PROVE  Spec => [](\A x \in Seq(Part) : \A r, s \in rows :
                         IsPrefix(r.target, x) /\ IsPrefix(s.target, x) => r.holder = s.holder)
<1>1. TypeOK /\ RowsExclusive =>
          \A x \in Seq(Part) : \A r, s \in rows :
              IsPrefix(r.target, x) /\ IsPrefix(s.target, x) => r.holder = s.holder
  BY AncestorsOverlap DEF TypeOK, Row, RowsExclusive
<1> QED BY <1>1, Typed, Exclusive, PTL

-----------------------------------------------------------------------------
(* Leases that are kept.  UnexpiredKept is not inductive by itself: a purge *)
(* spares an unexpired lease because the call read the clock earlier, and a *)
(* release or a renewal because the lease names another holder.             *)

\* What calls remember of the clock and attempts of their leases.
KeptInv ==
    /\ \A h \in Holder : \A c \in call[h] : c.now <= clock
    /\ \A h \in Holder : \A l \in held[h] : l.holder = h
    /\ UnexpiredKept

\* The step of Kept in which a call finishes.
LEMMA FinishKeeps ==
    ASSUME TypeOK, LockProtects, KeptInv, NEW h \in Holder, Finish(h)
    PROVE  KeptInv'
<1>1. snapshot[h] = rows /\ clock' = clock /\ call' = [call EXCEPT ![h] = {}]
  BY DEF Finish, List, Acquire, AcquireRefused, Renew, RenewRefused, Release, Return, LockProtects
<1>2. \A k \in Holder : \A c \in call'[k] : c.now <= clock'
  BY <1>1 DEF TypeOK, KeptInv
<1>3. \A c \in call[h] : c \in Call /\ c.now \in Nat /\ c.now <= clock
  BY DEF TypeOK, KeptInv, Call
<1>4. ASSUME NEW c \in call[h], NEW k \in Holder, NEW l \in held[k], l.expires > clock
      PROVE  l \in Live(rows, c.now) /\ l.holder = k
  <2>1. l \in rows /\ l.expires \in Nat /\ clock \in Nat /\ l.holder = k
    BY <1>4 DEF TypeOK, KeptInv, UnexpiredKept, Row
  <2>2. l.expires > c.now
    BY <1>3, <1>4, <2>1
  <2> QED BY <2>1, <2>2 DEF Live
<1>5. CASE List(h)
  BY <1>1, <1>2, <1>4, <1>5 DEF List, KeptInv, UnexpiredKept
<1>6. CASE Acquire(h)
  <2>1. PICK c \in call[h] : /\ rows' = Live(rows, c.now) \cup Created(h, c)
                             /\ held' = [held EXCEPT ![h] = Created(h, c)]
    BY <1>1, <1>6 DEF Acquire
  <2>2. \A r \in Created(h, c) : r.holder = h
    BY <1>3, CreatedRows
  <2>3. \A k \in Holder : held'[k] = IF k = h THEN Created(h, c) ELSE held[k]
    BY <2>1 DEF TypeOK
  <2>4. \A k \in Holder : \A l \in held'[k] : l.holder = k
    BY <2>2, <2>3 DEF KeptInv
  <2> QED BY <1>1, <1>2, <1>4, <2>1, <2>3, <2>4 DEF KeptInv, UnexpiredKept
<1>7. CASE AcquireRefused(h)
  BY <1>1, <1>2, <1>7 DEF AcquireRefused, KeptInv, UnexpiredKept
<1>8. CASE Renew(h)
  <2>1. PICK c \in call[h] : /\ rows' = Renewed(h, c, rows)
                             /\ held' = [held EXCEPT ![h] = Own(h, Renewed(h, c, rows))]
    BY <1>1, <1>8 DEF Renew
  <2>2. \A q \in Live(rows, c.now) : q.holder # h => q \in rows'
    BY <1>3, <2>1, RenewedRows DEF TypeOK
  <2>3. \A k \in Holder : held'[k] = IF k = h THEN Own(h, rows') ELSE held[k]
    BY <2>1 DEF TypeOK
  <2>4. \A k \in Holder : \A l \in held'[k] : l.holder = k
    BY <2>3 DEF KeptInv, Own
  <2> QED BY <1>1, <1>2, <1>4, <2>2, <2>3, <2>4 DEF KeptInv, UnexpiredKept, Own
<1>9. CASE RenewRefused(h)
  BY <1>1, <1>2, <1>9 DEF RenewRefused, TypeOK, KeptInv, UnexpiredKept
<1>10. CASE Release(h)
  <2>1. rows' = {r \in rows : r.holder # h} /\ held' = [held EXCEPT ![h] = {}]
    BY <1>1, <1>10 DEF Release
  <2>2. \A k \in Holder : held'[k] = IF k = h THEN {} ELSE held[k]
    BY <2>1 DEF TypeOK
  <2> QED BY <1>1, <1>2, <2>1, <2>2 DEF KeptInv, UnexpiredKept
<1> QED BY <1>5, <1>6, <1>7, <1>8, <1>9, <1>10 DEF Finish

\* Every step keeps the leases, as long as no step sets the clock back.
LEMMA NextKeeps ==
    ASSUME ~ClockStepsBack
    PROVE  TypeOK /\ LockProtects /\ KeptInv /\ [Next]_vars => KeptInv'
<1> SUFFICES ASSUME TypeOK, LockProtects, KeptInv, [Next]_vars PROVE KeptInv'
  OBVIOUS
<1>1. ASSUME NEW h \in Holder, NEW op \in Op, NEW T, Begin(h, op, T) PROVE KeptInv'
  <2>1. \A k \in Holder : call'[k] = IF k = h THEN {[op |-> op, targets |-> T, now |-> clock]}
                                               ELSE call[k]
    BY <1>1 DEF TypeOK, Begin
  <2>2. clock \in Nat
    BY DEF TypeOK
  <2> QED BY <1>1, <2>1, <2>2 DEF KeptInv, UnexpiredKept, Begin
<1>2. ASSUME NEW h \in Holder, BeginAcquire(h) \/ BeginOther(h) PROVE KeptInv'
  BY <1>1, <1>2 DEF BeginAcquire, BeginOther, Op
<1>3. ASSUME NEW h \in Holder, TakeLock(h) PROVE KeptInv'
  BY <1>3 DEF KeptInv, UnexpiredKept, TakeLock
<1>4. ASSUME NEW h \in Holder, Finish(h) PROVE KeptInv'
  BY <1>4, FinishKeeps
<1>5. ASSUME NEW h \in Holder, Crash(h) PROVE KeptInv'
  BY <1>5 DEF TypeOK, KeptInv, UnexpiredKept, Crash
<1>6. CASE ClockMoves
  <2>1. clock \in Nat /\ clock' \in Nat /\ clock' > clock
    BY <1>6, ClaimStoreAssumption DEF TypeOK, ClockMoves
  <2>2. \A h \in Holder : \A c \in call[h] : c.now \in Nat
    BY DEF TypeOK, Call
  <2>3. \A h \in Holder : \A l \in held[h] : l.expires \in Nat
    BY DEF TypeOK, Row
  <2> QED BY <1>6, <2>1, <2>2, <2>3 DEF KeptInv, UnexpiredKept, ClockMoves
<1>7. CASE UNCHANGED vars
  BY <1>7 DEF KeptInv, UnexpiredKept, vars
<1> QED BY <1>2, <1>3, <1>4, <1>5, <1>6, <1>7 DEF Next, ClockMoves

\* While the clock is never set back, a lease handed out stays in the file
\* until its deadline, whatever other holders call and whoever dies.
THEOREM Kept == ~ClockStepsBack => (Spec => []UnexpiredKept)
<1> SUFFICES ASSUME ~ClockStepsBack PROVE Spec => []UnexpiredKept
  OBVIOUS
<1>1. Init => KeptInv
  BY DEF Init, KeptInv, UnexpiredKept
<1>2. TypeOK /\ LockProtects /\ KeptInv /\ [Next]_vars => KeptInv'
  BY NextKeeps
<1>3. KeptInv => UnexpiredKept
  BY DEF KeptInv
<1> QED BY <1>1, <1>2, <1>3, Typed, Protected, PTL DEF Spec

-----------------------------------------------------------------------------
(* Renewals.  The rows of a batch have one deadline, and a predecessor's    *)
(* rows under the same name have no later one: so a purge that takes a row  *)
(* of the batch takes all the holder has, and the renewal is refused.       *)

BatchInv ==
    /\ \A h \in Holder : \A c \in call[h] : c.now <= clock
    /\ \A r \in rows : r.expires <= clock + TTL /\ \A c \in call[r.holder] : r.expires <= c.now + TTL
    /\ \A h \in Holder : \A l \in held[h] :
          /\ l.holder = h
          /\ \A r \in Own(h, rows) : r.expires <= l.expires
          /\ l \in rows \/ Own(h, rows) = {}

\* What a purge and another holder's call leave of a batch: all of it, or
\* nothing the holder has.
LEMMA PurgeTakesAll ==
    ASSUME TypeOK, BatchInv, NEW h \in Holder, NEW now \in Nat, NEW l \in held[h]
    PROVE  l \in Live(rows, now) \/ Own(h, Live(rows, now)) = {}
<1>1. l.expires \in Nat /\ \A r \in rows : r.expires \in Nat
  BY DEF TypeOK, Row
<1>2. CASE l \in rows /\ l.expires > now
  BY <1>2 DEF Live
<1>3. CASE l.expires <= now
  <2>1. \A r \in Own(h, rows) : r.expires <= now
    BY <1>1, <1>3 DEF BatchInv, Own
  <2> QED BY <1>1, <2>1 DEF Own, Live
<1>4. CASE Own(h, rows) = {}
  BY <1>4 DEF Own, Live
<1> QED BY <1>1, <1>2, <1>3, <1>4 DEF BatchInv

\* The step in which a call finishes.
LEMMA FinishBatch ==
    ASSUME TypeOK, LockProtects, BatchInv, NEW h \in Holder, Finish(h)
    PROVE  BatchInv'
<1>1. snapshot[h] = rows /\ clock' = clock /\ call' = [call EXCEPT ![h] = {}]
  BY DEF Finish, List, Acquire, AcquireRefused, Renew, RenewRefused, Release, Return, LockProtects
<1>2. \A k \in Holder : call'[k] = IF k = h THEN {} ELSE call[k]
  BY <1>1 DEF TypeOK
<1>3. clock \in Nat /\ TTL \in Nat /\ \A r \in rows : r.expires \in Nat /\ r.holder \in Holder
  BY ClaimStoreAssumption DEF TypeOK, Row
<1>4. \A c \in call[h] : c \in Call /\ c.now \in Nat /\ c.now <= clock
  BY DEF TypeOK, BatchInv, Call
<1>5. ASSUME \A r \in rows' : \/ r \in rows
                              \/ r.holder = h /\ r.expires <= clock + TTL
      PROVE  /\ \A k \in Holder : \A c \in call'[k] : c.now <= clock'
             /\ \A r \in rows' : /\ r.expires <= clock' + TTL
                                 /\ \A c \in call'[r.holder] : r.expires <= c.now + TTL
  BY <1>1, <1>2, <1>3, <1>5 DEF BatchInv
<1>6. ASSUME NEW now \in Nat, rows' = Live(rows, now) \/ rows' = rows, held' = held
      PROVE  BatchInv'
  <2>1. rows' \subseteq rows
    BY <1>6 DEF Live
  <2>2. ASSUME NEW k \in Holder, NEW l \in held[k]
        PROVE  /\ \A r \in Own(k, rows') : r.expires <= l.expires
               /\ l \in rows' \/ Own(k, rows') = {}
    BY <1>6, <2>1, PurgeTakesAll DEF BatchInv, Own
  <2> QED BY <1>5, <1>6, <2>1, <2>2 DEF BatchInv, Own
<1>7. CASE List(h)
  BY <1>1, <1>4, <1>6, <1>7 DEF List
<1>8. CASE Acquire(h)
  <2>1. PICK c \in call[h] : /\ rows' = Live(rows, c.now) \cup Created(h, c)
                             /\ held' = [held EXCEPT ![h] = Created(h, c)]
    BY <1>1, <1>8 DEF Acquire
  <2>2. \A k \in Holder : held'[k] = IF k = h THEN Created(h, c) ELSE held[k]
    BY <2>1 DEF TypeOK
  <2>3. \A r \in Created(h, c) : r.holder = h /\ r.expires = c.now + TTL
    BY DEF Created
  <2>4. Live(rows, c.now) \subseteq rows
    BY DEF Live
  <2>5. ASSUME NEW l \in Created(h, c)
        PROVE  (\A r \in Own(h, rows') : r.expires <= l.expires) /\ l \in rows'
    BY <1>3, <1>4, <2>1, <2>3, <2>4 DEF BatchInv, Own
  <2>6. ASSUME NEW k \in Holder \ {h}, NEW l \in held[k]
        PROVE  /\ \A r \in Own(k, rows') : r.expires <= l.expires
               /\ l \in rows' \/ Own(k, rows') = {}
    <3>1. Own(k, rows') = Own(k, Live(rows, c.now))
      BY <2>1, <2>3 DEF Own
    <3>2. l \in Live(rows, c.now) \/ Own(k, Live(rows, c.now)) = {}
      BY <1>4, PurgeTakesAll
    <3> QED BY <2>1, <2>4, <3>1, <3>2 DEF BatchInv, Own
  <2>7. \A r \in rows' : r \in rows \/ (r.holder = h /\ r.expires <= clock + TTL)
    BY <1>3, <1>4, <2>1, <2>3, <2>4
  <2> QED BY <1>5, <2>2, <2>3, <2>5, <2>6, <2>7 DEF BatchInv
<1>9. CASE AcquireRefused(h)
  BY <1>1, <1>4, <1>6, <1>9 DEF AcquireRefused
<1>10. CASE Renew(h)
  <2>1. PICK c \in call[h] : /\ rows' = Renewed(h, c, rows)
                             /\ held' = [held EXCEPT ![h] = Own(h, Renewed(h, c, rows))]
    BY <1>1, <1>10 DEF Renew
  <2>2. \A k \in Holder : held'[k] = IF k = h THEN Own(h, rows') ELSE held[k]
    BY <2>1 DEF TypeOK
  <2>3. \A r \in rows' : /\ r.holder = h => r.expires = c.now + TTL
                         /\ r.holder # h => r \in Live(rows, c.now)
    BY <2>1 DEF Renewed, Live, TypeOK, Row
  <2>4. Live(rows, c.now) \subseteq rows /\ \A r \in Live(rows, c.now) : r.holder # h => r \in rows'
    BY <2>1 DEF Renewed, Live
  <2>5. ASSUME NEW k \in Holder \ {h}, NEW l \in held[k]
        PROVE  /\ \A r \in Own(k, rows') : r.expires <= l.expires
               /\ l \in rows' \/ Own(k, rows') = {}
    <3>1. Own(k, rows') = Own(k, Live(rows, c.now))
      BY <2>3, <2>4 DEF Own
    <3>2. l \in Live(rows, c.now) \/ Own(k, Live(rows, c.now)) = {}
      BY <1>4, PurgeTakesAll
    <3>3. l \in Live(rows, c.now) => l \in rows'
      BY <2>4 DEF BatchInv
    <3>4. \A r \in Own(k, rows') : r \in Own(k, rows)
      BY <2>4, <3>1 DEF Own
    <3> QED BY <3>1, <3>2, <3>3, <3>4 DEF BatchInv
  <2>6. \A l \in Own(h, rows') : /\ l.holder = h
                                 /\ (\A r \in Own(h, rows') : r.expires <= l.expires) /\ l \in rows'
    BY <1>3, <1>4, <2>3 DEF Own
  <2>7. \A r \in rows' : r \in rows \/ (r.holder = h /\ r.expires <= clock + TTL)
    BY <1>3, <1>4, <2>3, <2>4
  <2> QED BY <1>5, <2>2, <2>5, <2>6, <2>7 DEF BatchInv
<1>11. CASE RenewRefused(h)
  <2>1. rows' = rows /\ \A k \in Holder : held'[k] = IF k = h THEN {} ELSE held[k]
    BY <1>11 DEF RenewRefused, TypeOK
  <2> QED BY <1>5, <2>1 DEF BatchInv
<1>12. CASE Release(h)
  <2>1. rows' = {r \in rows : r.holder # h} /\ held' = [held EXCEPT ![h] = {}]
    BY <1>1, <1>12 DEF Release
  <2>2. \A k \in Holder : held'[k] = IF k = h THEN {} ELSE held[k]
    BY <2>1 DEF TypeOK
  <2>3. \A k \in Holder \ {h} : Own(k, rows') = Own(k, rows)
    BY <2>1 DEF Own
  <2> QED BY <1>5, <2>1, <2>2, <2>3 DEF BatchInv
<1> QED BY <1>7, <1>8, <1>9, <1>10, <1>11, <1>12 DEF Finish

\* Every step keeps the batches whole, as long as no step sets the clock back.
LEMMA NextBatch ==
    ASSUME ~ClockStepsBack
    PROVE  TypeOK /\ LockProtects /\ BatchInv /\ [Next]_vars => BatchInv'
<1> SUFFICES ASSUME TypeOK, LockProtects, BatchInv, [Next]_vars PROVE BatchInv'
  OBVIOUS
<1>1. clock \in Nat /\ TTL \in Nat /\ \A r \in rows : r.expires \in Nat /\ r.holder \in Holder
  BY ClaimStoreAssumption DEF TypeOK, Row
<1>2. ASSUME NEW h \in Holder, BeginAcquire(h) \/ BeginOther(h) PROVE BatchInv'
  <2>1. PICK op, T : Begin(h, op, T)
    BY <1>2 DEF BeginAcquire, BeginOther
  <2>2. \A k \in Holder : call'[k] = IF k = h THEN {[op |-> op, targets |-> T, now |-> clock]}
                                               ELSE call[k]
    BY <2>1 DEF TypeOK, Begin
  <2>3. \A k \in Holder : \A c \in call'[k] : c \in call[k] \/ c.now = clock
    BY <2>2
  <2> QED BY <1>1, <2>1, <2>3 DEF BatchInv, Begin, Own
<1>3. ASSUME NEW h \in Holder, TakeLock(h) PROVE BatchInv'
  BY <1>3 DEF BatchInv, TakeLock, Own
<1>4. ASSUME NEW h \in Holder, Finish(h) PROVE BatchInv'
  BY <1>4, FinishBatch
<1>5. ASSUME NEW h \in Holder, Crash(h) PROVE BatchInv'
  <2>1. \A k \in Holder : call'[k] \subseteq call[k] /\ held'[k] \subseteq held[k]
    BY <1>5 DEF TypeOK, Crash
  <2> QED BY <1>1, <1>5, <2>1 DEF BatchInv, Crash, Own
<1>6. CASE ClockMoves
  <2>1. clock' \in Nat /\ clock' > clock
    BY <1>1, <1>6, ClaimStoreAssumption DEF ClockMoves
  <2>2. \A h \in Holder : \A c \in call[h] : c.now \in Nat
    BY DEF TypeOK, Call
  <2>3. /\ \A h \in Holder : \A c \in call[h] : c.now <= clock'
        /\ \A r \in rows : r.expires <= clock' + TTL
    BY <1>1, <2>1, <2>2 DEF BatchInv
  <2> QED BY <1>6, <2>3 DEF BatchInv, ClockMoves, Own
<1>7. CASE UNCHANGED vars
  BY <1>7 DEF BatchInv, vars, Own
<1> QED BY <1>2, <1>3, <1>4, <1>5, <1>6, <1>7 DEF Next

\* A renewal that succeeds found a row of its holder, so it found the batch.
LEMMA RenewWhole ==
    ASSUME TypeOK, LockProtects, BatchInv, NEW h \in Holder, Renew(h)
    PROVE  {l.target : l \in held[h]} \subseteq {l.target : l \in held'[h]}
<1>1. snapshot[h] = rows
  BY DEF Renew, Return, LockProtects
<1>2. PICK c \in call[h] : /\ Own(h, Renewed(h, c, rows)) # {}
                           /\ held' = [held EXCEPT ![h] = Own(h, Renewed(h, c, rows))]
  BY <1>1 DEF Renew
<1>3. c.now \in Nat
  BY DEF TypeOK, Call
<1>4. held'[h] = Own(h, Renewed(h, c, rows))
  BY <1>2 DEF TypeOK
<1>5. PICK q \in Live(rows, c.now) : q.holder = h
  <2>1. PICK r \in Renewed(h, c, rows) : r.holder = h
    BY <1>2 DEF Own
  <2> QED BY <2>1 DEF Renewed, Live, TypeOK, Row
<1>6. ASSUME NEW l \in held[h] PROVE \E m \in held'[h] : m.target = l.target
  <2>1. l \in Live(rows, c.now)
    BY <1>3, <1>5, PurgeTakesAll DEF Own
  <2>2. l \in Row /\ l.holder = h
    BY DEF TypeOK, BatchInv
  <2>3. [l EXCEPT !.expires = c.now + TTL] \in held'[h]
    BY <1>4, <2>1, <2>2 DEF Renewed, Own, Row
  <2> QED BY <2>2, <2>3 DEF Row
<1> QED BY <1>6

\* While the clock is never set back, a renewal that succeeds covers every
\* target the attempt was given, though a clock reading can be older than the
\* rows it purges and the rows of a dead predecessor bear the same name.
THEOREM Covered == ~ClockStepsBack => (Spec => RenewCoversBatch)
<1> SUFFICES ASSUME ~ClockStepsBack PROVE Spec => RenewCoversBatch
  OBVIOUS
<1>1. Init => BatchInv
  BY DEF Init, BatchInv
<1>2. TypeOK /\ LockProtects /\ BatchInv /\ [Next]_vars => BatchInv'
  BY NextBatch
<1>3. TypeOK /\ LockProtects /\ BatchInv /\ [Next]_vars =>
        [\A h \in Holder : Renew(h) =>
           {l.target : l \in held[h]} \subseteq {l.target : l \in held'[h]}]_vars
  BY RenewWhole
<1> QED BY <1>1, <1>2, <1>3, Typed, Protected, PTL DEF Spec, RenewCoversBatch

-----------------------------------------------------------------------------
(* The store implements atomic leases.  A call takes effect when it         *)
(* finishes: what it read is then what the file says (LockProtects), and    *)
(* what it purges had expired when it read the clock (KeptInv).             *)

\* What a call purges are expired leases, which ExclusiveLease may forget.
LEMMA PurgesExpired ==
    ASSUME TypeOK, KeptInv, NEW h \in Holder, NEW c \in call[h]
    PROVE  /\ c.now \in 0..clock /\ c.targets \in SUBSET Target
           /\ \E E \in SUBSET Abstract!Expired : Live(rows, c.now) = rows \ E
<1>1. c \in Call /\ clock \in Nat /\ c.now <= clock
  BY DEF TypeOK, KeptInv
<1>2. c.now \in 0..clock /\ c.targets \in SUBSET Target
  BY <1>1 DEF Call
<1>3. \A r \in rows : r.expires \in Nat
  BY DEF TypeOK, Row
<1>4. {r \in rows : ~(r.expires > c.now)} \in SUBSET Abstract!Expired
  BY <1>1, <1>2, <1>3 DEF Abstract!Expired
<1>5. Live(rows, c.now) = rows \ {r \in rows : ~(r.expires > c.now)}
  BY DEF Live
<1> QED BY <1>2, <1>4, <1>5

\* The comparison of targets is the same on both levels.
LEMMA SameOverlap == \A s, t : Abstract!Overlap(s, t) <=> Overlap(s, t)
BY DEF Abstract!Overlap, Overlap, Abstract!IsPrefix, IsPrefix

\* Every change of the rows under a steady clock is one of the atomic
\* operations.
LEMMA RowsAtomic ==
    ASSUME TypeOK, LockProtects, KeptInv, Next, clock' = clock
    PROVE  [Abstract!LNext]_<<rows, clock>>
<1>1. CASE rows' = rows
  BY <1>1
<1>2. ASSUME NEW h \in Holder, NEW c \in call[h], rows' = Live(rows, c.now)
      PROVE  Abstract!Forget
  BY <1>2, PurgesExpired DEF Abstract!Forget
<1>3. ASSUME NEW h \in Holder, NEW c \in call[h],
             ~Conflicts(h, c.targets, Live(rows, c.now)),
             rows' = Live(rows, c.now) \cup Created(h, c)
      PROVE  c.targets \in SUBSET Target /\ Abstract!Grant(h, c.targets)
  <2>1. PICK E \in SUBSET Abstract!Expired : Live(rows, c.now) = rows \ E
    BY PurgesExpired
  <2>2. \A l \in rows \ E : l.holder # h => \A t \in c.targets : ~Abstract!Overlap(t, l.target)
    BY <1>3, <2>1, SameOverlap DEF Conflicts
  <2>3. rows' = (rows \ E) \cup
            {[holder |-> h, target |-> t, acquired |-> c.now, expires |-> c.now + TTL] :
                t \in c.targets}
    BY <1>3, <2>1 DEF Created
  <2>4. c.now \in 0..clock /\ c.targets \in SUBSET Target
    BY PurgesExpired
  <2> QED BY <2>2, <2>3, <2>4 DEF Abstract!Grant
<1>4. ASSUME NEW h \in Holder, NEW c \in call[h], rows' = Renewed(h, c, rows)
      PROVE  Abstract!Extend(h)
  <2>1. PICK E \in SUBSET Abstract!Expired : Live(rows, c.now) = rows \ E
    BY PurgesExpired
  <2>2. rows' = {IF l.holder = h THEN [l EXCEPT !.expires = c.now + TTL] ELSE l : l \in rows \ E}
    BY <1>4, <2>1 DEF Renewed
  <2>3. c.now \in 0..clock
    BY PurgesExpired
  <2> QED BY <2>2, <2>3 DEF Abstract!Extend
<1>5. ASSUME NEW h \in Holder, rows' = {r \in rows : r.holder # h} PROVE Abstract!GiveUp(h)
  BY <1>5 DEF Abstract!GiveUp
<1> QED BY <1>1, <1>2, <1>3, <1>4, <1>5, RowsChange DEF Abstract!LNext

\* While the clock is never set back, the lock file, the purges and the crashes
\* cannot be told from a store whose operations are atomic: a lease leaves it
\* only because its holder gave it up or because it had expired.
THEOREM Leases == ~ClockStepsBack => (Spec => ImplementsLease)
<1> SUFFICES ASSUME ~ClockStepsBack PROVE Spec => ImplementsLease
  OBVIOUS
<1>1. Init => KeptInv /\ Abstract!LInit
  BY DEF Init, KeptInv, UnexpiredKept, Abstract!LInit
<1>2. TypeOK /\ LockProtects /\ KeptInv /\ [Next]_vars => KeptInv'
  BY NextKeeps
<1>3. TypeOK /\ LockProtects /\ KeptInv /\ [Next]_vars => [Abstract!LNext]_<<rows, clock>>
  <2> SUFFICES ASSUME TypeOK, LockProtects, KeptInv, Next
               PROVE  [Abstract!LNext]_<<rows, clock>>
    BY DEF vars
  <2>1. CASE ClockMoves
    BY <2>1 DEF ClockMoves, Abstract!LNext, Abstract!Pass
  <2>2. CASE clock' = clock
    BY <2>2, RowsAtomic
  <2>3. clock' = clock \/ ClockMoves
    BY DEF Next, BeginAcquire, BeginOther, Begin, TakeLock, Finish, List, Acquire, AcquireRefused,
           Renew, RenewRefused, Release, Return, Crash
  <2> QED BY <2>1, <2>2, <2>3
<1> QED BY <1>1, <1>2, <1>3, Typed, Protected, PTL DEF Spec, ImplementsLease, Abstract!LeaseSpec
=============================================================================
