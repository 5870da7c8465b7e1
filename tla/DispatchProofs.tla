--------------------------- MODULE DispatchProofs ---------------------------
(***************************************************************************)
(* Proofs about Dispatch, for every set of controllers, orders, tasks,     *)
(* conflicts and reviewers and all bounds.                                 *)
(*                                                                         *)
(*   Apart       conflicting attempts never work at once: one plan and one *)
(*               cycle at a time                                           *)
(*   OneStart    one start per ACK and per attempt: starts are numbered    *)
(*   Typed       the types, with the bounds of the numbers                 *)
(*   Orphans     reconciliation cancels orphans only                       *)
(*   Fenced      what a disable caught is never ready                      *)
(*   Leak        no claim is forgotten                                     *)
(*   OneJudge    one outcome per attempt, with one reviewer                *)
(*   ReadyHolds  a ready attempt holds its task, if releases do not fail   *)
(*   Ledgered    the journal implements AttemptLedger, with both           *)
(*                                                                         *)
(* All rest on TypeInv; on LeaseInv, the exclusion by the controller       *)
(* lease, and NumberInv, the numbering of attempts (StartInv is the three  *)
(* of them); the last two on StatusInv, which says where a thread is by    *)
(* what the journal says of its attempt.                                   *)
(***************************************************************************)
EXTENDS Dispatch, FiniteSetTheorems, TLAPS

(* Types.  TypeInv is TypeOK but for the bounds of the attempt indexes.     *)

EventKind == Running \cup Verdict \cup
                {"ready", "refused", "retryable", "cancelled", "held", "ack"}

Row == [kind : EventKind, order : Order, index : Nat, ack : 0..MaxAcks]

ThreadRow == [at : Phase, index : Nat, permit : BOOLEAN, retry : BOOLEAN, acquired : SUBSET Kinds]

TypeInv ==
    /\ journal \in Seq(Row)
    /\ aged \subseteq Attempt
    /\ lease \subseteq Controller
    /\ cycle \in [Controller -> {"idle", "reconcile", "dispatch"}]
    /\ orphans \in [Controller -> SUBSET Attempt]
    /\ worker \in [Controller -> [Order -> ThreadRow]]
    /\ claims \subseteq Kinds \X Order
    /\ control \in Modes \cup {"disabled"}
    /\ review \in [Reviewer -> SUBSET Attempt]
    /\ crashes \in 0..MaxCrashes
    /\ cut \subseteq Attempt
    /\ abandoned \subseteq Order

-----------------------------------------------------------------------------
(* Reading the journal.                                                     *)

\* The journal after an event was appended.
LEMMA Written ==
    ASSUME journal \in Seq(Row), NEW kind \in EventKind, NEW o \in Order, NEW index \in Nat,
           NEW ack \in 0..MaxAcks, Write(kind, o, index, ack)
    PROVE  /\ journal' \in Seq(Row)
           /\ Len(journal) \in Nat
           /\ DOMAIN journal = 1..Len(journal)
           /\ DOMAIN journal' = 1..(Len(journal) + 1)
           /\ \A i \in 1..Len(journal) : journal'[i] = journal[i]
           /\ journal'[Len(journal) + 1] = [kind |-> kind, order |-> o, index |-> index, ack |-> ack]
<1> DEFINE e == [kind |-> kind, order |-> o, index |-> index, ack |-> ack]
<1>1. e \in Row
  BY DEF Row
<1>2. journal' = Append(journal, e)
  BY DEF Write
<1> HIDE DEF e
<1>3. journal' \in Seq(Row) /\ Len(journal') = Len(journal) + 1
      /\ (\A i \in 1..Len(journal) : journal'[i] = journal[i]) /\ journal'[Len(journal) + 1] = e
  BY <1>1, <1>2
<1>4. DOMAIN journal = 1..Len(journal) /\ DOMAIN journal' = 1..Len(journal') /\ Len(journal) \in Nat
  BY <1>3
<1> QED BY <1>3, <1>4 DEF e

\* A set of numbers up to n has a greatest one: the one after which fewest come.
LEMMA LastIs ==
    ASSUME NEW n \in Nat, NEW S \in SUBSET (1..n), S # {}
    PROVE  Last(S) \in S /\ \A j \in S : j <= Last(S)
<1> DEFINE Later(i) == {j \in S : j > i}
           F == {Later(i) : i \in S}
           R == StrictSubsetOrdering(1..n)
<1>1. IsFiniteSet(1..n)
  BY FS_Interval
<1>2. F \subseteq SUBSET (1..n) /\ F # {}
  OBVIOUS
<1>3. IsWellFoundedOn(R, SUBSET (1..n))
  BY <1>1, FS_StrictSubsetOrderingWellFounded, FS_FiniteSubsetsOfFinite
<1>4. PICK T \in F : \A U \in F : <<U, T>> \notin R
  <2> HIDE DEF F, R
  <2> QED BY <1>2, <1>3, WFMin
<1>5. PICK l \in S : T = Later(l)
  OBVIOUS
<1>6. \A j \in S : j <= l
  <2> SUFFICES ASSUME NEW j \in S, ~(j <= l) PROVE FALSE
    OBVIOUS
  <2>1. j \in Nat /\ l \in Nat /\ l < j
    OBVIOUS
  <2>2. Later(j) \subseteq T
    <3> SUFFICES ASSUME NEW k \in S, k > j PROVE k > l
      BY <1>5
    <3>1. k \in Nat
      OBVIOUS
    <3> QED BY <2>1, <3>1
  <2>3. j \in T /\ j \notin Later(j)
    BY <1>5, <2>1
  <2>4. Later(j) # T
    BY <2>3
  <2>5. Later(j) \in SUBSET (1..n) /\ T \in SUBSET (1..n) /\ Later(j) \in F
    BY <1>2, <1>5
  <2>6. \A U, V \in SUBSET (1..n) : U \subseteq V /\ U # V => <<U, V>> \in R
    BY DEF StrictSubsetOrdering
  <2> HIDE DEF Later, F, R
  <2> QED BY <1>4, <2>2, <2>4, <2>5, <2>6
<1> HIDE DEF F, R
<1> QED BY <1>6 DEF Last

\* The last of some events is one of them.
LEMMA LastEvent ==
    ASSUME journal \in Seq(Row), NEW S \in SUBSET DOMAIN journal, S # {}
    PROVE  Last(S) \in S /\ \A j \in S : j <= Last(S)
<1>1. DOMAIN journal = 1..Len(journal) /\ Len(journal) \in Nat
  OBVIOUS
<1> QED BY <1>1, LastIs

\* What is recorded of an attempt after an event was appended.
LEMMA RecordedAfter ==
    ASSUME journal \in Seq(Row), NEW kind \in EventKind, NEW o \in Order, NEW index \in Nat,
           NEW ack \in 0..MaxAcks, Write(kind, o, index, ack), NEW a, NEW K
    PROVE  Recorded(a, K)' <=> \/ Recorded(a, K)
                               \/ a[1] = o /\ a[2] = index /\ kind \in K
<1> DEFINE n == Len(journal) + 1
<1>1. /\ n \in Nat
      /\ DOMAIN journal = 1..Len(journal) /\ Len(journal) \in Nat
      /\ DOMAIN journal' = 1..n
      /\ \A i \in 1..Len(journal) : journal'[i] = journal[i]
      /\ journal'[n].kind = kind /\ journal'[n].order = o /\ journal'[n].index = index
  <2>1. journal'[n] = [kind |-> kind, order |-> o, index |-> index, ack |-> ack]
    BY Written
  <2> QED BY <2>1, Written
<1>2. DOMAIN journal' = DOMAIN journal \cup {n}
  BY <1>1
<1> HIDE DEF n
<1>3. ASSUME Recorded(a, K)
      PROVE  Recorded(a, K)'
  <2>1. PICK i \in DOMAIN journal : Names(i, a) /\ journal[i].kind \in K
    BY <1>3 DEF Recorded
  <2> QED BY <1>1, <1>2, <2>1 DEF Recorded, Names
<1>4. ASSUME a[1] = o, a[2] = index, kind \in K
      PROVE  Recorded(a, K)'
  <2>1. n \in DOMAIN journal' /\ journal'[n].order = a[1] /\ journal'[n].index = a[2] /\ journal'[n].kind \in K
    BY <1>1, <1>2, <1>4
  <2> QED BY <2>1 DEF Recorded, Names
<1>5. ASSUME Recorded(a, K)'
      PROVE  Recorded(a, K) \/ (a[1] = o /\ a[2] = index /\ kind \in K)
  <2>1. PICK i \in DOMAIN journal' :
            journal'[i].order = a[1] /\ journal'[i].index = a[2] /\ journal'[i].kind \in K
    BY <1>5 DEF Recorded, Names
  <2>2. CASE i = n
    BY <1>1, <2>1, <2>2
  <2>3. CASE i \in DOMAIN journal
    BY <1>1, <2>1, <2>3 DEF Recorded, Names
  <2> QED BY <1>2, <2>2, <2>3
<1> QED BY <1>3, <1>4, <1>5

\* What the last event of an attempt is after an event was appended.
LEMMA StatusAfter ==
    ASSUME journal \in Seq(Row), NEW kind \in EventKind, NEW o \in Order, NEW index \in Nat,
           NEW ack \in 0..MaxAcks, Write(kind, o, index, ack), NEW a
    PROVE  StatusOf(a)' = IF a[1] = o /\ a[2] = index THEN kind ELSE StatusOf(a)
<1> DEFINE n == Len(journal) + 1
           S == {i \in DOMAIN journal : journal[i].order = a[1] /\ journal[i].index = a[2]}
           T == {i \in DOMAIN journal' : journal'[i].order = a[1] /\ journal'[i].index = a[2]}
<1>1. /\ n \in Nat
      /\ DOMAIN journal = 1..Len(journal)
      /\ DOMAIN journal' = 1..n
      /\ \A i \in 1..Len(journal) : journal'[i] = journal[i] /\ i # n
      /\ journal'[n].kind = kind /\ journal'[n].order = o /\ journal'[n].index = index
  <2>1. journal'[n] = [kind |-> kind, order |-> o, index |-> index, ack |-> ack]
    BY Written
  <2>2. \A i \in 1..Len(journal) : i # n
    BY Written
  <2> QED BY <2>1, <2>2, Written
<1>2. StatusOf(a) = IF S = {} THEN "none" ELSE journal[Last(S)].kind
  BY DEF StatusOf, Names
<1>3. StatusOf(a)' = IF T = {} THEN "none" ELSE journal'[Last(T)].kind
  BY DEF StatusOf, Names
<1>4. CASE a[1] = o /\ a[2] = index
  <2>1. n \in T /\ T \subseteq 1..n
    BY <1>1, <1>4
  <2>2. Last(T) \in T /\ n <= Last(T)
    <3> HIDE DEF n, T
    <3> QED BY <1>1, <2>1, LastIs
  <2>3. Last(T) = n
    <3>1. Last(T) \in 1..n
      BY <2>1, <2>2
    <3> HIDE DEF n, T
    <3> QED BY <1>1, <2>2, <3>1
  <2> HIDE DEF n, T
  <2> QED BY <1>1, <1>3, <1>4, <2>1, <2>3
<1>5. CASE ~(a[1] = o /\ a[2] = index)
  <2>1. T = S
    BY <1>1, <1>5
  <2>2. CASE S = {}
    BY <1>2, <1>3, <1>5, <2>1, <2>2
  <2>3. CASE S # {}
    <3>1. Last(S) \in 1..Len(journal)
      <4>1. S \subseteq DOMAIN journal
        OBVIOUS
      <4> HIDE DEF S
      <4> QED BY <1>1, <4>1, <2>3, LastEvent
    <3> HIDE DEF S, T
    <3> QED BY <1>1, <1>2, <1>3, <1>5, <2>1, <2>3, <3>1
  <2> QED BY <2>2, <2>3
<1> QED BY <1>4, <1>5

\* Starts are counted.
LEMMA Counted ==
    ASSUME journal \in Seq(Row), NEW o
    PROVE  AttemptIndex(o) \in Nat
<1>1. IsFiniteSet(DOMAIN journal)
  BY FS_Interval
<1>2. {i \in DOMAIN journal : journal[i].kind = "started" /\ journal[i].order = o} \in SUBSET DOMAIN journal
  OBVIOUS
<1> QED BY <1>1, <1>2, FS_Subset, FS_CardinalityType DEF AttemptIndex

\* The number of starts after an event was appended.
LEMMA CountAfter ==
    ASSUME journal \in Seq(Row), NEW kind \in EventKind, NEW o \in Order, NEW index \in Nat,
           NEW ack \in 0..MaxAcks, Write(kind, o, index, ack), NEW p
    PROVE  AttemptIndex(p)' = IF kind = "started" /\ p = o THEN AttemptIndex(p) + 1 ELSE AttemptIndex(p)
<1> DEFINE n == Len(journal) + 1
           S == {i \in DOMAIN journal : journal[i].kind = "started" /\ journal[i].order = p}
           T == {i \in DOMAIN journal' : journal'[i].kind = "started" /\ journal'[i].order = p}
<1>1. /\ n \in Nat
      /\ DOMAIN journal = 1..Len(journal)
      /\ DOMAIN journal' = 1..n
      /\ \A i \in 1..Len(journal) : journal'[i] = journal[i] /\ i # n
      /\ journal'[n].kind = kind /\ journal'[n].order = o
  <2>1. journal'[n] = [kind |-> kind, order |-> o, index |-> index, ack |-> ack]
    BY Written
  <2>2. \A i \in 1..Len(journal) : i # n
    BY Written
  <2> QED BY <2>1, <2>2, Written
<1>2. T = IF kind = "started" /\ p = o THEN S \cup {n} ELSE S
  BY <1>1
<1>3. n \notin S
  BY <1>1
<1>4. IsFiniteSet(S)
  <2>1. IsFiniteSet(DOMAIN journal)
    BY <1>1, FS_Interval
  <2>2. S \in SUBSET DOMAIN journal
    OBVIOUS
  <2> HIDE DEF S
  <2> QED BY <2>1, <2>2, FS_Subset
<1>5. AttemptIndex(p) = Cardinality(S) /\ AttemptIndex(p)' = Cardinality(T)
  BY DEF AttemptIndex
<1> HIDE DEF S, T, n
<1> QED BY <1>2, <1>3, <1>4, <1>5, FS_AddElement

-----------------------------------------------------------------------------
(* Steps of threads.                                                        *)

\* What a step of a thread leaves alone.
Elsewhere(c, o) ==
    /\ worker' \in [Controller -> [Order -> ThreadRow]]
    /\ \A d \in Controller, p \in Order : d # c \/ p # o => worker'[d][p] = worker[d][p]
    /\ UNCHANGED <<aged, lease, cycle, orphans, control, review, crashes, cut>>

\* A thread that steps to another place.
LEMMA Stepped ==
    ASSUME TypeInv, NEW c \in Controller, NEW o \in Order,
           NEW from \in SUBSET Phase, NEW to \in Phase, Step(c, o, from, to)
    PROVE  /\ worker[c][o] \in ThreadRow
           /\ worker[c][o].at \in from
           /\ worker' = [worker EXCEPT ![c][o] = [worker[c][o] EXCEPT !.at = to]]
           /\ [worker[c][o] EXCEPT !.at = to] \in ThreadRow
           /\ worker'[c][o] = [worker[c][o] EXCEPT !.at = to]
<1>1. worker \in [Controller -> [Order -> ThreadRow]] /\ worker[c][o] \in ThreadRow
  BY DEF TypeInv
<1> DEFINE t == [worker[c][o] EXCEPT !.at = to]
<1>2. t \in ThreadRow
  BY <1>1 DEF ThreadRow
<1>3. worker[c][o].at \in from /\ worker' = [worker EXCEPT ![c][o] = t]
  BY DEF Step
<1>4. worker'[c][o] = t
  <2> HIDE DEF t
  <2> QED BY <1>1, <1>3
<1> QED BY <1>1, <1>2, <1>3, <1>4

\* A thread changes, the others do not.
LEMMA Moved ==
    ASSUME TypeInv, NEW c \in Controller, NEW o \in Order, NEW t \in ThreadRow,
           worker' = [worker EXCEPT ![c][o] = t], Frame
    PROVE  worker'[c][o] = t /\ Elsewhere(c, o)
<1>1. worker \in [Controller -> [Order -> ThreadRow]]
  BY DEF TypeInv
<1>2. worker' \in [Controller -> [Order -> ThreadRow]]
  BY <1>1
<1>3. \A d \in Controller, p \in Order : d # c \/ p # o => worker'[d][p] = worker[d][p]
  BY <1>1
<1>4. worker'[c][o] = t
  BY <1>1
<1>5. UNCHANGED <<aged, lease, cycle, orphans, control, review, crashes, cut>>
  BY DEF Frame, cycleVars
<1> QED BY <1>2, <1>3, <1>4, <1>5 DEF Elsewhere

\* A thread has begun where it takes a step; only that thread changes.
LEMMA ThreadStep ==
    ASSUME TypeInv, NEW c \in Controller, NEW o \in Order, Dispatch(c, o)
    PROVE  worker[c][o].at # "none" /\ Elsewhere(c, o)
<1> DEFINE Goal == worker[c][o].at # "none" /\ Elsewhere(c, o)
<1>1. /\ worker \in [Controller -> [Order -> ThreadRow]]
      /\ worker[c][o] \in ThreadRow
      /\ NoThread \in ThreadRow
  BY DEF TypeInv, NoThread, ThreadRow, Phase
<1>2. ASSUME NEW from \in SUBSET (Phase \ {"none"}), NEW to \in Phase, Step(c, o, from, to), Frame
      PROVE  Goal
  <2> DEFINE t == [worker[c][o] EXCEPT !.at = to]
  <2>1. from \in SUBSET Phase /\ "none" \notin from
    OBVIOUS
  <2>2. t \in ThreadRow /\ worker' = [worker EXCEPT ![c][o] = t] /\ worker[c][o].at \in from
    BY <1>2, <2>1, Stepped
  <2> QED BY <1>2, <2>1, <2>2, Moved
<1>3. ASSUME NEW t \in ThreadRow, worker' = [worker EXCEPT ![c][o] = t], Frame, worker[c][o].at # "none"
      PROVE  Goal
  BY <1>3, Moved
<1> HIDE DEF Goal
<1>4. Dispatch(c, o) => Goal
  <2>1. CASE Skip(c, o)
    <3>1. Step(c, o, {"assigned"}, "none") /\ Frame
      BY <2>1 DEF Skip
    <3> QED BY <3>1, <1>2 DEF Phase
  <2>2. CASE CalibrationRefused(c, o)
    <3>1. Step(c, o, {"assigned"}, "none") /\ Frame
      BY <2>2 DEF CalibrationRefused
    <3> QED BY <3>1, <1>2 DEF Phase
  <2>3. CASE Reserve(c, o)
    <3>1. Step(c, o, {"begun"}, "reserved") /\ Frame
      BY <2>3 DEF Reserve
    <3> QED BY <3>1, <1>2 DEF Phase
  <2>4. CASE ReserveRefused(c, o)
    <3>1. Step(c, o, {"begun"}, "held") /\ Frame
      BY <2>4 DEF ReserveRefused
    <3> QED BY <3>1, <1>2 DEF Phase
  <2>5. CASE Launch(c, o)
    <3>1. Step(c, o, {"prepared"}, "running") /\ Frame
      BY <2>5 DEF Launch
    <3> QED BY <3>1, <1>2 DEF Phase
  <2>6. CASE Executed(c, o)
    <3>1. Step(c, o, {"running"}, "executed") /\ Frame
      BY <2>6 DEF Executed
    <3> QED BY <3>1, <1>2 DEF Phase
  <2>7. CASE Witness(c, o)
    <3>1. Step(c, o, {"executed"}, "witnessed") /\ Frame
      BY <2>7 DEF Witness
    <3> QED BY <3>1, <1>2 DEF Phase
  <2>8. CASE Ready(c, o)
    <3>1. Step(c, o, {"witnessed"}, "ready") /\ Frame
      BY <2>8 DEF Ready
    <3> QED BY <3>1, <1>2 DEF Phase
  <2>9. CASE Refuse(c, o)
    <3>1. Step(c, o, {"failed"}, "cleanup") /\ Frame
      BY <2>9 DEF Refuse
    <3> QED BY <3>1, <1>2 DEF Phase
  <2>10. CASE Begin(c, o)
    <3> DEFINE t == [worker[c][o] EXCEPT !.at = "begun", !.index = AttemptIndex(o) + 1]
    <3>1. t \in ThreadRow
      <4>1. AttemptIndex(o) + 1 \in Nat
        BY Counted DEF TypeInv
      <4> QED BY <1>1, <4>1 DEF ThreadRow, Phase
    <3>2. worker' = [worker EXCEPT ![c][o] = t] /\ Frame /\ worker[c][o].at # "none"
      BY <2>10, <1>1 DEF Begin
    <3> QED BY <3>1, <3>2, <1>3
  <2>11. CASE Hold(c, o)
    <3> DEFINE t == NoThread
    <3>1. t \in ThreadRow
      BY <1>1 DEF TypeInv, ThreadRow, Phase, Kinds
    <3>2. worker' = [worker EXCEPT ![c][o] = t] /\ Frame /\ worker[c][o].at # "none"
      BY <2>11, <1>1 DEF Hold
    <3> QED BY <3>1, <3>2, <1>3
  <2>12. CASE StartRefused(c, o)
    <3> DEFINE t == NoThread
    <3>1. t \in ThreadRow
      BY <1>1 DEF TypeInv, ThreadRow, Phase, Kinds
    <3>2. worker' = [worker EXCEPT ![c][o] = t] /\ Frame /\ worker[c][o].at # "none"
      BY <2>12, <1>1 DEF StartRefused
    <3> QED BY <3>1, <3>2, <1>3
  <2>13. CASE Cleanup(c, o)
    <3> DEFINE t == NoThread
    <3>1. t \in ThreadRow
      BY <1>1 DEF TypeInv, ThreadRow, Phase, Kinds
    <3>2. worker' = [worker EXCEPT ![c][o] = t] /\ Frame /\ worker[c][o].at # "none"
      BY <2>13, <1>1 DEF Cleanup
    <3> QED BY <3>1, <3>2, <1>3
  <2>14. CASE IssuePermit(c, o)
    <3> DEFINE t == [worker[c][o] EXCEPT !.at = "permitted", !.permit = TRUE]
    <3>1. t \in ThreadRow
      BY <1>1 DEF TypeInv, ThreadRow, Phase, Kinds
    <3>2. worker' = [worker EXCEPT ![c][o] = t] /\ Frame /\ worker[c][o].at # "none"
      BY <2>14, <1>1 DEF IssuePermit
    <3> QED BY <3>1, <3>2, <1>3
  <2>15. CASE RuntimeRefusal(c, o)
    <3> DEFINE t == [worker[c][o] EXCEPT !.at = "unwinding", !.retry = TRUE]
    <3>1. t \in ThreadRow
      BY <1>1 DEF TypeInv, ThreadRow, Phase, Kinds
    <3>2. worker' = [worker EXCEPT ![c][o] = t] /\ Frame /\ worker[c][o].at # "none"
      BY <2>15, <1>1 DEF RuntimeRefusal
    <3> QED BY <3>1, <3>2, <1>3
  <2>16. CASE AcquireSemantic(c, o)
    <3> DEFINE t == [worker[c][o] EXCEPT !.at = "claimed", !.acquired = @ \cup {"semantic"}]
    <3>1. t \in ThreadRow
      BY <1>1 DEF TypeInv, ThreadRow, Phase, Kinds
    <3>2. worker' = [worker EXCEPT ![c][o] = t] /\ Frame /\ worker[c][o].at # "none"
      BY <2>16, <1>1 DEF AcquireSemantic, Acquire
    <3> QED BY <3>1, <3>2, <1>3
  <2>17. CASE AcquirePaths(c, o)
    <3> DEFINE t == [worker[c][o] EXCEPT !.at = "pathed", !.acquired = @ \cup {"paths"}]
    <3>1. t \in ThreadRow
      BY <1>1 DEF TypeInv, ThreadRow, Phase, Kinds
    <3>2. worker' = [worker EXCEPT ![c][o] = t] /\ Frame /\ worker[c][o].at # "none"
      BY <2>17, <1>1 DEF AcquirePaths, Acquire
    <3> QED BY <3>1, <3>2, <1>3
  <2>18. CASE Prepare(c, o)
    <3> DEFINE t == [worker[c][o] EXCEPT !.at = "prepared", !.acquired = @ \cup {"repository"}]
    <3>1. t \in ThreadRow
      BY <1>1 DEF TypeInv, ThreadRow, Phase, Kinds
    <3>2. worker' = [worker EXCEPT ![c][o] = t] /\ Frame /\ worker[c][o].at # "none"
      BY <2>18, <1>1 DEF Prepare, Acquire
    <3> QED BY <3>1, <3>2, <1>3
  <2>19. CASE ReleaseRepository(c, o)
    <3> DEFINE t == [worker[c][o] EXCEPT !.acquired = @ \ {"repository"}, !.at = IF @ = "ready" THEN "cleanup" ELSE "failed"]
    <3>1. t \in ThreadRow
      BY <1>1 DEF TypeInv, ThreadRow, Phase, Kinds
    <3>2. worker' = [worker EXCEPT ![c][o] = t] /\ Frame /\ worker[c][o].at # "none"
      BY <2>19, <1>1 DEF ReleaseRepository
    <3> QED BY <3>1, <3>2, <1>3
  <2>20. CASE ReleaseRaises(c, o)
    <3> DEFINE t == [worker[c][o] EXCEPT !.acquired = @ \ {"repository"}, !.retry = FALSE, !.at = "failed"]
    <3>1. t \in ThreadRow
      BY <1>1 DEF TypeInv, ThreadRow, Phase, Kinds
    <3>2. worker' = [worker EXCEPT ![c][o] = t] /\ Frame /\ worker[c][o].at # "none"
      BY <2>20, <1>1 DEF ReleaseRaises
    <3> QED BY <3>1, <3>2, <1>3
  <2>21. CASE Fail(c, o)
    <3>1. Frame /\ (\/ Step(c, o, {"begun", "reserved", "claimed", "permitted", "pathed"}, "failed")
                   \/ Step(c, o, {"prepared", "running", "executed", "witnessed"}, "unwinding"))
      BY <2>21 DEF Fail
    <3> QED BY <3>1, <1>2 DEF Phase
  <2> QED BY <2>1, <2>2, <2>3, <2>4, <2>5, <2>6, <2>7, <2>8, <2>9, <2>10, <2>11, <2>12, <2>13,
             <2>14, <2>15, <2>16, <2>17, <2>18, <2>19, <2>20, <2>21 DEF Dispatch
<1> QED BY <1>4 DEF Goal

\* From its start on a thread has an attempt, until it has failed or succeeded.
Attempting == {"reserved", "claimed", "permitted", "pathed", "prepared", "running", "executed",
               "witnessed", "ready", "unwinding"}

\* The ways of a thread; what it keeps of the attempt's index and permit.
Move(c, o) ==
    LET t == worker[c][o]
        u == worker'[c][o]
        Kept == u.index = t.index /\ u.permit = t.permit
    IN  \/ t.at = "assigned" /\ u.at = "none" /\ Kept
        \/ t.at = "assigned" /\ u.at = "begun" /\ u.index = AttemptIndex(o) + 1 /\ u.permit = t.permit
        \/ t.at = "begun" /\ u.at = "reserved" /\ Kept /\ Reserve(c, o)
        \/ t.at = "begun" /\ u.at \in {"held", "failed"} /\ Kept
        \/ t.at \in {"begun", "held", "cleanup"} /\ u = NoThread
        \/ t.at = "reserved" /\ u.at = "claimed" /\ Kept
        \/ t.at = "claimed" /\ u.at = "permitted" /\ u.index = t.index
        \/ /\ t.at \in Attempting \ {"reserved", "claimed"}
           /\ u.at \in Attempting \ {"reserved", "claimed", "permitted"}
           /\ Kept
        \/ t.at \in Attempting /\ u.at \in {"failed", "cleanup"} /\ Kept
        \/ t.at = "failed" /\ u.at = "cleanup" /\ Kept

\* Every step of a thread is one of these.
LEMMA ThreadMoves ==
    ASSUME TypeInv, NEW c \in Controller, NEW o \in Order, Dispatch(c, o)
    PROVE  Move(c, o)
<1>1. worker \in [Controller -> [Order -> ThreadRow]] /\ worker[c][o] \in ThreadRow
  BY DEF TypeInv
<1>2. ASSUME NEW from \in SUBSET Phase, NEW to \in Phase, Step(c, o, from, to)
      PROVE  /\ worker[c][o].at \in from
             /\ worker'[c][o].at = to
             /\ worker'[c][o].index = worker[c][o].index
             /\ worker'[c][o].permit = worker[c][o].permit
  <2>1. worker[c][o].at \in from /\ worker'[c][o] = [worker[c][o] EXCEPT !.at = to]
    BY <1>2, Stepped
  <2> QED BY <1>1, <2>1 DEF ThreadRow
<1>3. CASE Skip(c, o)
  <2>1. Step(c, o, {"assigned"}, "none")
    BY <1>3 DEF Skip
  <2> QED BY <1>3, <2>1, <1>2 DEF Move, Phase, Attempting
<1>4. CASE CalibrationRefused(c, o)
  <2>1. Step(c, o, {"assigned"}, "none")
    BY <1>4 DEF CalibrationRefused
  <2> QED BY <1>4, <2>1, <1>2 DEF Move, Phase, Attempting
<1>5. CASE Reserve(c, o)
  <2>1. Step(c, o, {"begun"}, "reserved")
    BY <1>5 DEF Reserve
  <2> QED BY <1>5, <2>1, <1>2 DEF Move, Phase, Attempting
<1>6. CASE ReserveRefused(c, o)
  <2>1. Step(c, o, {"begun"}, "held")
    BY <1>6 DEF ReserveRefused
  <2> QED BY <1>6, <2>1, <1>2 DEF Move, Phase, Attempting
<1>7. CASE Launch(c, o)
  <2>1. Step(c, o, {"prepared"}, "running")
    BY <1>7 DEF Launch
  <2> QED BY <1>7, <2>1, <1>2 DEF Move, Phase, Attempting
<1>8. CASE Executed(c, o)
  <2>1. Step(c, o, {"running"}, "executed")
    BY <1>8 DEF Executed
  <2> QED BY <1>8, <2>1, <1>2 DEF Move, Phase, Attempting
<1>9. CASE Witness(c, o)
  <2>1. Step(c, o, {"executed"}, "witnessed")
    BY <1>9 DEF Witness
  <2> QED BY <1>9, <2>1, <1>2 DEF Move, Phase, Attempting
<1>10. CASE Ready(c, o)
  <2>1. Step(c, o, {"witnessed"}, "ready")
    BY <1>10 DEF Ready
  <2> QED BY <1>10, <2>1, <1>2 DEF Move, Phase, Attempting
<1>11. CASE Refuse(c, o)
  <2>1. Step(c, o, {"failed"}, "cleanup")
    BY <1>11 DEF Refuse
  <2> QED BY <1>11, <2>1, <1>2 DEF Move, Phase, Attempting
<1>12. CASE Begin(c, o)
  BY <1>12, <1>1 DEF Begin, Move, Attempting, ThreadRow
<1>13. CASE Hold(c, o)
  BY <1>13, <1>1 DEF Hold, Move, Attempting, ThreadRow
<1>14. CASE StartRefused(c, o)
  BY <1>14, <1>1 DEF StartRefused, Move, Attempting, ThreadRow
<1>15. CASE Cleanup(c, o)
  BY <1>15, <1>1 DEF Cleanup, Move, Attempting, ThreadRow
<1>16. CASE IssuePermit(c, o)
  BY <1>16, <1>1 DEF IssuePermit, Move, Attempting, ThreadRow
<1>17. CASE RuntimeRefusal(c, o)
  BY <1>17, <1>1 DEF RuntimeRefusal, Move, Attempting, ThreadRow
<1>18. CASE AcquireSemantic(c, o)
  BY <1>18, <1>1 DEF AcquireSemantic, Acquire, Move, Attempting, ThreadRow
<1>19. CASE AcquirePaths(c, o)
  BY <1>19, <1>1 DEF AcquirePaths, Acquire, Move, Attempting, ThreadRow
<1>20. CASE Prepare(c, o)
  BY <1>20, <1>1 DEF Prepare, Acquire, Move, Attempting, ThreadRow
<1>21. CASE ReleaseRepository(c, o)
  BY <1>21, <1>1 DEF ReleaseRepository, Move, Attempting, ThreadRow
<1>22. CASE ReleaseRaises(c, o)
  BY <1>22, <1>1 DEF ReleaseRaises, Move, Attempting, ThreadRow
<1>23. CASE Fail(c, o)
  <2>1. \/ Step(c, o, {"begun", "reserved", "claimed", "permitted", "pathed"}, "failed")
        \/ Step(c, o, {"prepared", "running", "executed", "witnessed"}, "unwinding")
    BY <1>23 DEF Fail
  <2> QED BY <2>1, <1>2 DEF Move, Phase, Attempting
<1> QED BY <1>3, <1>4, <1>5, <1>6, <1>7, <1>8, <1>9, <1>10, <1>11, <1>12, <1>13, <1>14, <1>15,
           <1>16, <1>17, <1>18, <1>19, <1>20, <1>21, <1>22, <1>23 DEF Dispatch

\* What a step of a thread appends to the journal.
LEMMA ThreadWrites ==
    ASSUME TypeInv, NEW c \in Controller, NEW o \in Order, Dispatch(c, o)
    PROVE  \/ journal' = journal
           \/ \E kind \in EventKind, index \in {0, worker[c][o].index}, ack \in 0..MaxAcks :
                 /\ Write(kind, o, index, ack)
                 /\ kind \notin Verdict \cup {"cancelled", "ack"}
                 /\ index = 0 => kind \in {"held", "retryable"} \/ index = worker[c][o].index
                 /\ kind = "started" => Reserve(c, o) /\ index = worker[c][o].index
                 /\ kind = "launching" => Launch(c, o) /\ index = worker[c][o].index
                 /\ kind = "executed" => Executed(c, o) /\ index = worker[c][o].index
                 /\ kind = "ready" => Ready(c, o) /\ index = worker[c][o].index
<1> DEFINE n == worker[c][o].index
<1>1. 0 \in 0..MaxAcks
  BY DispatchAssumption
<1>2. CASE CalibrationRefused(c, o)
  BY <1>1, <1>2 DEF CalibrationRefused, EventKind, Verdict
<1>3. CASE Reserve(c, o)
  <2> DEFINE A == TaskAcks(Task[o])
             ack == journal[Last(A)].ack
  <2>1. A \in SUBSET DOMAIN journal /\ A # {} /\ journal \in Seq(Row)
    BY <1>3 DEF Reserve, LawReserves, TaskAcks, Acks, TypeInv
  <2>2. Last(A) \in DOMAIN journal
    <3> HIDE DEF A
    <3> QED BY <2>1, LastEvent
  <2>3. ack \in 0..MaxAcks
    <3>1. \A i \in DOMAIN journal : journal[i] \in Row
      BY <2>1
    <3> HIDE DEF A
    <3> QED BY <2>2, <3>1 DEF Row
  <2>4. Write("started", o, n, ack)
    BY <1>3 DEF Reserve
  <2> HIDE DEF A, ack
  <2> QED BY <1>3, <2>3, <2>4 DEF EventKind, Running, Verdict
<1>4. CASE Hold(c, o)
  BY <1>1, <1>4 DEF Hold, EventKind, Verdict
<1>5. CASE Launch(c, o)
  BY <1>1, <1>5 DEF Launch, EventKind, Running, Verdict
<1>6. CASE Executed(c, o)
  BY <1>1, <1>6 DEF Executed, EventKind, Running, Verdict
<1>7. CASE Ready(c, o)
  BY <1>1, <1>7 DEF Ready, EventKind, Verdict
<1>8. CASE Refuse(c, o)
  <2> DEFINE kind == IF worker[c][o].retry THEN "retryable" ELSE "refused"
  <2>1. Write(kind, o, n, 0) /\ kind \in {"retryable", "refused"}
    BY <1>8 DEF Refuse
  <2> HIDE DEF kind
  <2> QED BY <1>1, <2>1 DEF EventKind, Verdict
<1>9. CASE \/ Skip(c, o) \/ Begin(c, o) \/ ReserveRefused(c, o) \/ StartRefused(c, o)
           \/ AcquireSemantic(c, o) \/ IssuePermit(c, o) \/ AcquirePaths(c, o) \/ Prepare(c, o)
           \/ Witness(c, o) \/ Fail(c, o) \/ RuntimeRefusal(c, o)
           \/ ReleaseRepository(c, o) \/ ReleaseRaises(c, o) \/ Cleanup(c, o)
  BY <1>9 DEF Skip, Begin, ReserveRefused, StartRefused, AcquireSemantic, IssuePermit,
       AcquirePaths, Prepare, Acquire, Witness, Fail, RuntimeRefusal, ReleaseRepository,
       ReleaseRaises, Cleanup
<1> QED BY <1>2, <1>3, <1>4, <1>5, <1>6, <1>7, <1>8, <1>9 DEF Dispatch

\* Threads touch their own claims only.
LEMMA ThreadClaims ==
    ASSUME TypeInv, NEW c \in Controller, NEW o \in Order, Dispatch(c, o)
    PROVE  /\ claims' \subseteq Kinds \X Order
           /\ abandoned' \subseteq abandoned \cup {o} /\ abandoned \subseteq abandoned'
<1>1. claims \subseteq Kinds \X Order
  BY DEF TypeInv
<1>2. CASE \/ Skip(c, o) \/ CalibrationRefused(c, o) \/ Begin(c, o)
           \/ Reserve(c, o) \/ ReserveRefused(c, o) \/ Hold(c, o) \/ StartRefused(c, o)
           \/ IssuePermit(c, o) \/ Launch(c, o) \/ Executed(c, o) \/ Ready(c, o)
           \/ Fail(c, o) \/ RuntimeRefusal(c, o) \/ ReleaseRaises(c, o) \/ Refuse(c, o)
  BY <1>1, <1>2 DEF Skip, CalibrationRefused, Begin, Reserve, ReserveRefused, Hold, StartRefused,
       IssuePermit, Launch, Executed, Ready, Fail, RuntimeRefusal, ReleaseRaises, Refuse
<1>3. CASE AcquireSemantic(c, o) \/ AcquirePaths(c, o) \/ Prepare(c, o) \/ Witness(c, o)
  BY <1>1, <1>3 DEF AcquireSemantic, AcquirePaths, Prepare, Acquire, Witness, Kinds
<1>4. CASE ReleaseRepository(c, o) \/ Cleanup(c, o)
  BY <1>1, <1>4 DEF ReleaseRepository, Cleanup
<1> QED BY <1>2, <1>3, <1>4 DEF Dispatch

\* A disable takes the permits and leaves the threads where they are.
LEMMA Disabled ==
    ASSUME TypeInv, Disable, NEW c \in Controller, NEW o \in Order
    PROVE  /\ worker'[c][o] = [worker[c][o] EXCEPT !.permit = FALSE]
           /\ worker'[c][o].at = worker[c][o].at
           /\ worker'[c][o].index = worker[c][o].index
           /\ worker'[c][o].acquired = worker[c][o].acquired
           /\ worker'[c][o].permit = FALSE
<1>1. worker'[c][o] = [worker[c][o] EXCEPT !.permit = FALSE]
  BY DEF Disable
<1>2. worker[c][o] \in ThreadRow
  BY DEF TypeInv
<1> QED BY <1>1, <1>2 DEF ThreadRow

\* The types are kept.
LEMMA TypeStep == TypeInv /\ [Next]_vars => TypeInv'
<1> SUFFICES ASSUME TypeInv, [Next]_vars PROVE TypeInv'
  OBVIOUS
<1>1. /\ journal \in Seq(Row)
      /\ NoThread \in ThreadRow /\ [NoThread EXCEPT !.at = "assigned"] \in ThreadRow
      /\ 0 \in 0..MaxAcks
  <2>1. NoThread \in ThreadRow /\ [NoThread EXCEPT !.at = "assigned"] \in ThreadRow
    BY DEF NoThread, ThreadRow, Phase
  <2>2. 0 \in 0..MaxAcks
    BY DispatchAssumption
  <2> QED BY <2>1, <2>2 DEF TypeInv
<1>2. ASSUME NEW c \in Controller, NEW o \in Order, Dispatch(c, o)
      PROVE  TypeInv'
  <2>1. Elsewhere(c, o) /\ claims' \subseteq Kinds \X Order /\ abandoned' \subseteq Order
    BY <1>2, ThreadStep, ThreadClaims DEF TypeInv
  <2>2. journal' \in Seq(Row)
    <3>1. {0, worker[c][o].index} \subseteq Nat
      BY DEF TypeInv, ThreadRow
    <3>2. CASE journal' = journal
      BY <1>1, <3>2
    <3>3. ASSUME NEW kind \in EventKind, NEW index \in {0, worker[c][o].index},
                 NEW ack \in 0..MaxAcks, Write(kind, o, index, ack)
          PROVE  journal' \in Seq(Row)
      BY <1>1, <3>1, <3>3, Written
    <3> QED BY <1>2, <3>2, <3>3, ThreadWrites
  <2> QED BY <2>1, <2>2 DEF TypeInv, Elsewhere
<1>3. ASSUME NEW c \in Controller, TakeLease(c)
      PROVE  TypeInv'
  <2>1. ExpiredAttempts \subseteq aged
    BY DEF ExpiredAttempts
  <2> QED BY <1>3, <2>1 DEF TypeInv, TakeLease, history
<1>4. ASSUME NEW c \in Controller, NEW a \in Attempt, Cancel(c, a)
      PROVE  TypeInv'
  <2>1. a[1] \in Order /\ a[2] \in Nat
    BY DispatchAssumption DEF Attempt
  <2>2. journal' \in Seq(Row)
    BY <1>1, <1>4, <2>1, Written DEF Cancel, EventKind
  <2> QED BY <1>4, <2>2 DEF TypeInv, Cancel, history
<1>5. ASSUME NEW c \in Controller, NEW S \in SUBSET Order, Plan(c, S)
      PROVE  TypeInv'
  <2>1. [o \in Order |-> IF o \in S THEN [NoThread EXCEPT !.at = "assigned"] ELSE NoThread]
            \in [Order -> ThreadRow]
    BY <1>1
  <2> QED BY <1>5, <2>1 DEF TypeInv, Plan, history
<1>6. ASSUME NEW c \in Controller, EndCycle(c)
      PROVE  TypeInv'
  BY <1>6 DEF TypeInv, EndCycle, history
<1>7. ASSUME NEW c \in Controller, Crash(c)
      PROVE  TypeInv'
  <2>1. [o \in Order |-> NoThread] \in [Order -> ThreadRow]
    BY <1>1
  <2>2. crashes' \in 0..MaxCrashes
    BY <1>7, DispatchAssumption DEF TypeInv, Crash
  <2> QED BY <1>7, <2>1, <2>2 DEF TypeInv, Crash
<1>8. ASSUME NEW o \in Order, Acknowledge(o)
      PROVE  TypeInv'
  <2>1. Cardinality(Acks) \in Nat
    <3>1. IsFiniteSet(DOMAIN journal) /\ Acks \in SUBSET DOMAIN journal
      <4>1. DOMAIN journal = 1..Len(journal) /\ Len(journal) \in Nat
        BY <1>1
      <4> QED BY <4>1, FS_Interval DEF Acks
    <3> QED BY <3>1, FS_Subset, FS_CardinalityType
  <2>2. Cardinality(Acks) + 1 \in 0..MaxAcks
    BY <1>8, <2>1, DispatchAssumption DEF Acknowledge
  <2>3. journal' \in Seq(Row)
    BY <1>1, <1>8, <2>2, Written DEF Acknowledge, EventKind
  <2> QED BY <1>8, <2>3 DEF TypeInv, Acknowledge, history, cycleVars
<1>9. CASE Enable \/ Drain \/ LeaseExpires
  BY <1>9, DispatchAssumption DEF TypeInv, Enable, Drain, LeaseExpires, history, cycleVars
<1>10. CASE Disable
  <2>1. \A t \in ThreadRow : [t EXCEPT !.permit = FALSE] \in ThreadRow
    BY DEF ThreadRow
  <2>2. worker' \in [Controller -> [Order -> ThreadRow]]
    BY <1>10, <2>1 DEF TypeInv, Disable
  <2> QED BY <1>10, <2>2 DEF TypeInv, Disable, cycleVars
<1>11. ASSUME NEW r \in Reviewer, NEW a \in Attempt, Examine(r, a)
       PROVE  TypeInv'
  BY <1>11 DEF TypeInv, Examine, history, cycleVars
<1>12. ASSUME NEW r \in Reviewer, NEW v \in Verdict, Judge(r, v)
       PROVE  TypeInv'
  <2>1. PICK a \in review[r] : Write(v, a[1], a[2], 0)
    BY <1>12 DEF Judge
  <2>2. a[1] \in Order /\ a[2] \in Nat /\ v \in EventKind
    BY <2>1, DispatchAssumption DEF Attempt, TypeInv, EventKind
  <2>3. journal' \in Seq(Row)
    BY <1>1, <2>1, <2>2, Written
  <2> QED BY <1>12, <2>3 DEF TypeInv, Judge, history, cycleVars
<1>13. ASSUME NEW a \in Attempt, Age(a)
       PROVE  TypeInv'
  BY <1>13 DEF TypeInv, Age, history, cycleVars
<1>14. ASSUME NEW o \in Order, ClaimsExpire(o)
       PROVE  TypeInv'
  BY <1>14 DEF TypeInv, ClaimsExpire, history, cycleVars
<1>15. CASE UNCHANGED vars
  BY <1>15 DEF TypeInv, vars, history, cycleVars
<1> QED BY <1>2, <1>3, <1>4, <1>5, <1>6, <1>7, <1>8, <1>9, <1>10, <1>11, <1>12, <1>13, <1>14,
           <1>15 DEF Next, Cycle, People, Time

\* The types hold throughout.
LEMMA TypesHold == Spec => []TypeInv
<1>1. Init => TypeInv
  BY DispatchAssumption DEF Init, TypeInv, NoThread, ThreadRow, Phase
<1> QED BY <1>1, TypeStep, PTL DEF Spec

-----------------------------------------------------------------------------
(* The controller lease.                                                    *)

\* Who is in a cycle has the lease; threads and orphans are of a cycle.
LeaseInv ==
    /\ \A c \in Controller : cycle[c] # "idle" => lease = {c}
    /\ \A c \in Controller : orphans[c] # {} => cycle[c] = "reconcile"
    /\ \A c \in Controller, o \in Order : worker[c][o].at # "none" => cycle[c] = "dispatch"

\* A cycle begins with the lease and takes its threads and orphans along at its end.
LEMMA LeaseStep == TypeInv /\ LeaseInv /\ [Next]_vars => LeaseInv'
<1> SUFFICES ASSUME TypeInv, LeaseInv, [Next]_vars PROVE LeaseInv'
  OBVIOUS
<1>1. ASSUME NEW c \in Controller, NEW o \in Order, Dispatch(c, o)
      PROVE  LeaseInv'
  <2>1. worker[c][o].at # "none" /\ Elsewhere(c, o)
    BY <1>1, ThreadStep
  <2> QED BY <2>1 DEF LeaseInv, Elsewhere
<1>2. ASSUME NEW c \in Controller, TakeLease(c)
      PROVE  LeaseInv'
  BY <1>2 DEF LeaseInv, TypeInv, TakeLease
<1>3. ASSUME NEW c \in Controller, NEW a \in Attempt, Cancel(c, a)
      PROVE  LeaseInv'
  BY <1>3 DEF LeaseInv, TypeInv, Cancel
<1>4. ASSUME NEW c \in Controller, NEW S \in SUBSET Order, Plan(c, S)
      PROVE  LeaseInv'
  BY <1>4 DEF LeaseInv, TypeInv, Plan
<1>5. ASSUME NEW c \in Controller, EndCycle(c)
      PROVE  LeaseInv'
  BY <1>5 DEF LeaseInv, TypeInv, EndCycle
<1>6. ASSUME NEW c \in Controller, Crash(c)
      PROVE  LeaseInv'
  BY <1>6 DEF LeaseInv, TypeInv, Crash, NoThread
<1>7. CASE Disable
  <2>1. UNCHANGED <<lease, cycle, orphans>>
    BY <1>7 DEF Disable, cycleVars
  <2>2. \A c \in Controller, o \in Order : worker'[c][o].at = worker[c][o].at
    BY <1>7, Disabled
  <2> QED BY <2>1, <2>2 DEF LeaseInv
<1>8. CASE UNCHANGED <<lease, cycle, orphans, worker>>
  BY <1>8 DEF LeaseInv
<1>9. \/ \E c \in Controller, o \in Order : Dispatch(c, o)
      \/ \E c \in Controller : TakeLease(c) \/ EndCycle(c) \/ Crash(c)
      \/ \E c \in Controller, a \in Attempt : Cancel(c, a)
      \/ \E c \in Controller, S \in SUBSET Order : Plan(c, S)
      \/ Disable
      \/ UNCHANGED <<lease, cycle, orphans, worker>>
  BY DEF Next, Cycle, People, Time, Acknowledge, Enable, Drain, Examine, Judge, LeaseExpires,
         Age, ClaimsExpire, vars, cycleVars
<1> QED BY <1>1, <1>2, <1>3, <1>4, <1>5, <1>6, <1>7, <1>8, <1>9

\* All threads are of one controller.
LEMMA OneCycle ==
    ASSUME LeaseInv, NEW c \in Controller, NEW o \in Order, worker[c][o].at # "none",
           NEW d \in Controller, NEW p \in Order, worker[d][p].at # "none"
    PROVE  d = c
<1>1. lease = {c} /\ lease = {d}
  BY DEF LeaseInv
<1> QED BY <1>1

\* Nobody dispatches while somebody reconciles.
LEMMA NoThreads ==
    ASSUME LeaseInv, NEW c \in Controller, cycle[c] = "reconcile"
    PROVE  \A d \in Controller, o \in Order : worker[d][o].at = "none"
<1> SUFFICES ASSUME NEW d \in Controller, NEW o \in Order, worker[d][o].at # "none" PROVE FALSE
  OBVIOUS
<1>1. cycle[d] = "dispatch" /\ lease = {c} /\ lease = {d}
  BY DEF LeaseInv
<1> QED BY <1>1

-----------------------------------------------------------------------------
(* Conflicting attempts.                                                    *)

\* What is planned together does not conflict.
PlanInv ==
    \A c \in Controller, o, p \in Order :
        worker[c][o].at # "none" /\ worker[c][p].at # "none" => <<o, p>> \notin Conflicts

ApartInv == TypeInv /\ LeaseInv /\ PlanInv

\* Only a plan starts threads, and a plan has no conflicts in it.
LEMMA PlanStep == ApartInv /\ [Next]_vars => PlanInv'
<1> SUFFICES ASSUME ApartInv, [Next]_vars PROVE PlanInv'
  OBVIOUS
<1> USE DEF ApartInv
<1>1. ASSUME NEW c \in Controller, NEW o \in Order, Dispatch(c, o)
      PROVE  PlanInv'
  <2>1. worker[c][o].at # "none" /\ Elsewhere(c, o)
    BY <1>1, ThreadStep
  <2>2. \A d \in Controller, p \in Order : worker'[d][p].at # "none" => worker[d][p].at # "none"
    BY <2>1 DEF Elsewhere
  <2> QED BY <2>2 DEF PlanInv
<1>2. ASSUME NEW c \in Controller, NEW S \in SUBSET Order, Plan(c, S)
      PROVE  PlanInv'
  <2>1. \A d \in Controller, p \in Order :
            worker'[d][p].at # "none" => \/ d = c /\ p \in S
                                         \/ d # c /\ worker[d][p].at # "none"
    BY <1>2 DEF Plan, TypeInv, NoThread
  <2>2. \A o, p \in S : <<o, p>> \notin Conflicts
    BY <1>2 DEF Plan
  <2> QED BY <2>1, <2>2 DEF PlanInv
<1>3. ASSUME NEW c \in Controller, Crash(c)
      PROVE  PlanInv'
  <2>1. \A d \in Controller, p \in Order : worker'[d][p].at # "none" => worker[d][p].at # "none"
    BY <1>3 DEF Crash, TypeInv, NoThread
  <2> QED BY <2>1 DEF PlanInv
<1>4. CASE Disable
  <2>1. \A d \in Controller, p \in Order : worker'[d][p].at = worker[d][p].at
    BY <1>4, Disabled
  <2> QED BY <2>1 DEF PlanInv
<1>5. CASE UNCHANGED worker
  BY <1>5 DEF PlanInv
<1>6. \/ \E c \in Controller, o \in Order : Dispatch(c, o)
      \/ \E c \in Controller, S \in SUBSET Order : Plan(c, S)
      \/ \E c \in Controller : Crash(c)
      \/ Disable
      \/ UNCHANGED worker
  BY DEF Next, Cycle, TakeLease, Cancel, EndCycle, People, Time, Acknowledge, Enable, Drain,
         Examine, Judge, LeaseExpires, Age, ClaimsExpire, vars
<1> QED BY <1>1, <1>2, <1>3, <1>4, <1>5, <1>6

\* Two attempts whose claims overlap never work at the same time: the plan
\* does not put them together, and there is one cycle at a time.
THEOREM Apart == Spec => []ConflictsApart
<1>1. Init => ApartInv
  BY DispatchAssumption DEF Init, ApartInv, TypeInv, LeaseInv, PlanInv, NoThread, ThreadRow, Phase
<1>2. ApartInv /\ [Next]_vars => ApartInv'
  BY TypeStep, LeaseStep, PlanStep DEF ApartInv
<1>3. ApartInv => ConflictsApart
  <2> SUFFICES ASSUME ApartInv, NEW c \in Controller, NEW d \in Controller,
                      NEW o \in Order, NEW p \in Order,
                      {worker[c][o].at, worker[d][p].at} \subseteq Working
               PROVE  <<o, p>> \notin Conflicts
    BY DEF ConflictsApart
  <2>1. worker[c][o].at # "none" /\ worker[d][p].at # "none"
    BY DEF Working
  <2>2. d = c
    BY <2>1, OneCycle DEF ApartInv
  <2> QED BY <2>1, <2>2 DEF ApartInv, PlanInv
<1> QED BY <1>1, <1>2, <1>3, PTL DEF Spec

-----------------------------------------------------------------------------
(* All steps, by what they do to the journal, the threads and the cycles.   *)

Quiet == UNCHANGED <<journal, orphans, worker, review, cut, abandoned>> /\ claims' \subseteq claims

\* Every step is one of these.
LEMMA NextIs ==
    ASSUME [Next]_vars
    PROVE  \/ \E c \in Controller, o \in Order : Dispatch(c, o)
           \/ \E c \in Controller, a \in Attempt : Cancel(c, a)
           \/ \E c \in Controller, S \in SUBSET Order : Plan(c, S)
           \/ \E c \in Controller : TakeLease(c) \/ Crash(c)
           \/ \E o \in Order : Acknowledge(o)
           \/ Disable
           \/ \E r \in Reviewer, a \in Attempt : Examine(r, a)
           \/ \E r \in Reviewer, v \in Verdict : Judge(r, v)
           \/ Quiet
<1>1. CASE Enable \/ Drain \/ LeaseExpires
  BY <1>1 DEF Enable, Drain, LeaseExpires, Quiet, history, cycleVars
<1>2. CASE \E c \in Controller : EndCycle(c)
  BY <1>2 DEF EndCycle, Quiet, history
<1>3. CASE \E a \in Attempt : Age(a)
  BY <1>3 DEF Age, Quiet, history, cycleVars
<1>4. CASE \E o \in Order : ClaimsExpire(o)
  BY <1>4 DEF ClaimsExpire, Quiet, history, cycleVars
<1>5. CASE UNCHANGED vars
  BY <1>5 DEF vars, Quiet, history, cycleVars
<1> QED BY <1>1, <1>2, <1>3, <1>4, <1>5 DEF Next, Cycle, People, Time

\* Who else writes, and what.
LEMMA OtherWrites ==
    ASSUME TypeInv
    PROVE  /\ \A c \in Controller, a \in Attempt :
                 Cancel(c, a) => /\ a \in orphans[c] /\ a[1] \in Order /\ a[2] \in Nat \ {0}
                                 /\ Write("cancelled", a[1], a[2], 0)
           /\ \A o \in Order :
                 Acknowledge(o) => \E ack \in 0..MaxAcks : Write("ack", o, 0, ack)
           /\ \A r \in Reviewer, v \in Verdict :
                 Judge(r, v) => \E a \in review[r] : /\ a[1] \in Order /\ a[2] \in Nat \ {0}
                                                     /\ Write(v, a[1], a[2], 0)
<1>1. \A a \in Attempt : a[1] \in Order /\ a[2] \in Nat \ {0}
  BY DispatchAssumption DEF Attempt
<1>2. ASSUME NEW o \in Order, Acknowledge(o)
      PROVE  \E ack \in 0..MaxAcks : Write("ack", o, 0, ack)
  <2>1. Cardinality(Acks) \in Nat
    <3>1. DOMAIN journal = 1..Len(journal) /\ Len(journal) \in Nat
      BY DEF TypeInv
    <3>2. IsFiniteSet(DOMAIN journal) /\ Acks \in SUBSET DOMAIN journal
      BY <3>1, FS_Interval DEF Acks
    <3> QED BY <3>2, FS_Subset, FS_CardinalityType
  <2>2. Cardinality(Acks) + 1 \in 0..MaxAcks
    BY <1>2, <2>1, DispatchAssumption DEF Acknowledge
  <2> QED BY <1>2, <2>2 DEF Acknowledge
<1>3. ASSUME NEW r \in Reviewer, NEW v \in Verdict, Judge(r, v)
      PROVE  \E a \in review[r] : /\ a[1] \in Order /\ a[2] \in Nat \ {0}
                                  /\ Write(v, a[1], a[2], 0)
  <2>1. PICK a \in review[r] : Write(v, a[1], a[2], 0)
    BY <1>3 DEF Judge
  <2>2. a \in Attempt
    BY DEF TypeInv
  <2> QED BY <1>1, <2>1, <2>2
<1> QED BY <1>1, <1>2, <1>3 DEF Cancel

-----------------------------------------------------------------------------
(* Attempts are numbered.                                                   *)

\* What a step of a thread does to the number of starts.
LEMMA ThreadCounts ==
    ASSUME TypeInv, NEW c \in Controller, NEW o \in Order, Dispatch(c, o), NEW p \in Order
    PROVE  /\ Reserve(c, o) /\ p = o => AttemptIndex(p)' = AttemptIndex(p) + 1
           /\ ~Reserve(c, o) \/ p # o => AttemptIndex(p)' = AttemptIndex(p)
<1>1. journal \in Seq(Row) /\ worker[c][o].index \in Nat
  BY DEF TypeInv, ThreadRow
<1>2. CASE journal' = journal
  <2>1. ~Reserve(c, o)
    BY <1>1, <1>2 DEF Reserve, Write
  <2> QED BY <1>2, <2>1 DEF AttemptIndex
<1>3. ASSUME NEW kind \in EventKind, NEW index \in {0, worker[c][o].index}, NEW ack \in 0..MaxAcks,
             Write(kind, o, index, ack), kind = "started" => Reserve(c, o)
      PROVE  /\ Reserve(c, o) /\ p = o => AttemptIndex(p)' = AttemptIndex(p) + 1
             /\ ~Reserve(c, o) \/ p # o => AttemptIndex(p)' = AttemptIndex(p)
  <2>1. AttemptIndex(p)' = IF kind = "started" /\ p = o THEN AttemptIndex(p) + 1 ELSE AttemptIndex(p)
    BY <1>1, <1>3, CountAfter
  <2>2. Reserve(c, o) => kind = "started"
    BY <1>1, <1>3 DEF Reserve, Write
  <2> QED BY <1>3, <2>1, <2>2
<1> QED BY <1>2, <1>3, ThreadWrites

\* What a step of a thread records as started.
LEMMA ThreadStarts ==
    ASSUME TypeInv, NEW c \in Controller, NEW o \in Order, Dispatch(c, o),
           NEW p \in Order, NEW k \in Nat
    PROVE  Recorded(<<p, k>>, {"started"})' <=>
               \/ Recorded(<<p, k>>, {"started"})
               \/ Reserve(c, o) /\ p = o /\ k = worker[c][o].index
<1>1. journal \in Seq(Row) /\ worker[c][o].index \in Nat
  BY DEF TypeInv, ThreadRow
<1>2. CASE journal' = journal
  <2>1. ~Reserve(c, o)
    BY <1>1, <1>2 DEF Reserve, Write
  <2> QED BY <1>2, <2>1 DEF Recorded, Names
<1>3. ASSUME NEW kind \in EventKind, NEW index \in {0, worker[c][o].index}, NEW ack \in 0..MaxAcks,
             Write(kind, o, index, ack),
             kind = "started" => Reserve(c, o) /\ index = worker[c][o].index
      PROVE  Recorded(<<p, k>>, {"started"})' <=>
                 \/ Recorded(<<p, k>>, {"started"})
                 \/ Reserve(c, o) /\ p = o /\ k = worker[c][o].index
  <2>1. Recorded(<<p, k>>, {"started"})' <=>
            \/ Recorded(<<p, k>>, {"started"})
            \/ <<p, k>>[1] = o /\ <<p, k>>[2] = index /\ kind \in {"started"}
    BY <1>1, <1>3, RecordedAfter
  <2>2. Reserve(c, o) => kind = "started"
    BY <1>1, <1>3 DEF Reserve, Write
  <2> QED BY <1>3, <2>1, <2>2
<1> QED BY <1>2, <1>3, ThreadWrites

\* Nobody but a thread starts an attempt.
LEMMA OthersStartNone ==
    ASSUME TypeInv, [Next]_vars, ~\E c \in Controller, o \in Order : Dispatch(c, o)
    PROVE  /\ \A p \in Order : AttemptIndex(p)' = AttemptIndex(p)
           /\ \A p \in Order, k \in Nat :
                 Recorded(<<p, k>>, {"started"})' <=> Recorded(<<p, k>>, {"started"})
<1> DEFINE Goal == /\ \A p \in Order : AttemptIndex(p)' = AttemptIndex(p)
                   /\ \A p \in Order, k \in Nat :
                         Recorded(<<p, k>>, {"started"})' <=> Recorded(<<p, k>>, {"started"})
<1>1. journal \in Seq(Row) /\ 0 \in 0..MaxAcks /\ Verdict \subseteq EventKind
  BY DispatchAssumption DEF TypeInv, EventKind
<1>2. ASSUME NEW kind \in EventKind \ {"started"}, NEW o \in Order, NEW index \in Nat,
             NEW ack \in 0..MaxAcks, Write(kind, o, index, ack)
      PROVE  Goal
  <2>1. ASSUME NEW p \in Order PROVE AttemptIndex(p)' = AttemptIndex(p)
    BY <1>1, <1>2, CountAfter
  <2>2. ASSUME NEW p \in Order, NEW k \in Nat
        PROVE  Recorded(<<p, k>>, {"started"})' <=> Recorded(<<p, k>>, {"started"})
    BY <1>1, <1>2, RecordedAfter
  <2> QED BY <2>1, <2>2
<1>3. ASSUME journal' = journal PROVE Goal
  BY <1>3 DEF AttemptIndex, Recorded, Names
<1> HIDE DEF Goal
<1>4. ASSUME NEW c \in Controller, NEW a \in Attempt, Cancel(c, a) PROVE Goal
  BY <1>1, <1>2, <1>4, OtherWrites DEF EventKind
<1>5. ASSUME NEW o \in Order, Acknowledge(o) PROVE Goal
  BY <1>2, <1>5, OtherWrites DEF EventKind
<1>6. ASSUME NEW r \in Reviewer, NEW v \in Verdict, Judge(r, v) PROVE Goal
  BY <1>1, <1>2, <1>6, OtherWrites DEF Verdict
<1>7. ASSUME NEW c \in Controller, NEW S \in SUBSET Order, Plan(c, S) \/ TakeLease(c) \/ Crash(c)
      PROVE  Goal
  BY <1>3, <1>7 DEF Plan, TakeLease, Crash
<1>8. ASSUME NEW r \in Reviewer, NEW a \in Attempt, Examine(r, a) PROVE Goal
  BY <1>3, <1>8 DEF Examine
<1>9. ASSUME Disable \/ Quiet PROVE Goal
  BY <1>3, <1>9 DEF Disable, Quiet
<1>10. Goal
  BY <1>4, <1>5, <1>6, <1>7, <1>8, <1>9, NextIs
<1> QED BY <1>10 DEF Goal

\* How a thread's index and permit go with its place.
ThreadNumbered(c, o) ==
    LET t == worker[c][o] IN
    /\ t.at \in {"none", "assigned"} => t.index = 0
    /\ t.at \in {"begun", "held"} => t.index = AttemptIndex(o) + 1
    /\ t.at \in Attempting => t.index = AttemptIndex(o)
    /\ t.at \in {"failed", "cleanup"} =>
          \/ t.index = AttemptIndex(o)
          \/ t.index = AttemptIndex(o) + 1 /\ ~t.permit
    /\ t.at \in {"none", "assigned", "begun", "held", "reserved", "claimed"} => ~t.permit

\* An order's attempts are numbered from 1, and those are the ones that were
\* started; a thread has the last number, or the next one before it starts.
NumberInv ==
    /\ \A o \in Order, k \in Nat : Recorded(<<o, k>>, {"started"}) <=> k \in 1..AttemptIndex(o)
    /\ \A o \in Order : AttemptIndex(o) <= MaxAttempts
    /\ \A c \in Controller, o \in Order : ThreadNumbered(c, o)

\* As many attempts are recorded as the journal can hold.
LEMMA FinitelyManyAttempts ==
    ASSUME TypeInv, NEW t
    PROVE  IsFiniteSet(TaskAttempts(t))
<1> DEFINE A == TaskAttempts(t)
           S == {i \in DOMAIN journal : <<journal[i].order, journal[i].index>> \in A}
           f == [i \in S |-> <<journal[i].order, journal[i].index>>]
<1>1. IsFiniteSet(S)
  <2>1. DOMAIN journal = 1..Len(journal) /\ Len(journal) \in Nat
    BY DEF TypeInv
  <2>2. IsFiniteSet(DOMAIN journal) /\ S \in SUBSET DOMAIN journal
    BY <2>1, FS_Interval
  <2> HIDE DEF S
  <2> QED BY <2>2, FS_Subset
<1>2. ASSUME NEW a \in A PROVE \E i \in S : f[i] = a
  <2>1. PICK o \in Order, n \in 1..MaxAttempts : a = <<o, n>>
    BY DEF TaskAttempts, Attempt
  <2>2. PICK i \in DOMAIN journal : journal[i].order = o /\ journal[i].index = n
    BY <2>1 DEF TaskAttempts, Recorded, Names
  <2>3. <<journal[i].order, journal[i].index>> = a
    BY <2>1, <2>2
  <2>4. i \in S
    BY <2>3
  <2> HIDE DEF A, S
  <2> QED BY <2>3, <2>4
<1>3. f \in [S -> A]
  OBVIOUS
<1>4. f \in Surjection(S, A)
  <2> HIDE DEF A, S, f
  <2> QED BY <1>2, <1>3 DEF Surjection
<1> HIDE DEF A, S, f
<1>5. IsFiniteSet(A)
  BY <1>1, <1>4, FS_Surjection
<1> QED BY <1>5 DEF A

\* The law admits no attempt beyond the number it allows.
LEMMA LawLimits ==
    ASSUME TypeInv, NumberInv, NEW o \in Order, LawReserves(o)
    PROVE  AttemptIndex(o) + 1 <= MaxAttempts
<1> DEFINE n == AttemptIndex(o)
           A == TaskAttempts(Task[o])
           S == {o} \X (1..n)
<1>1. n \in Nat /\ n <= MaxAttempts /\ MaxAttempts \in Nat
  BY Counted, DispatchAssumption DEF TypeInv, NumberInv
<1>2. S \subseteq A
  <2> SUFFICES ASSUME NEW k \in 1..n PROVE <<o, k>> \in A
    OBVIOUS
  <2>1. k \in 1..MaxAttempts /\ k \in Nat
    BY <1>1
  <2>2. Recorded(<<o, k>>, {"started"})
    BY <2>1 DEF NumberInv
  <2> QED BY <2>1, <2>2 DEF TaskAttempts, Attempt
<1>3. IsFiniteSet(S) /\ Cardinality(S) = n
  <2>1. IsFiniteSet({o}) /\ Cardinality({o}) = 1 /\ IsFiniteSet(1..n) /\ Cardinality(1..n) = n
    <3> HIDE DEF n
    <3>1. 1 \in Int /\ n \in Int /\ ~(1 > n) => n - 1 + 1 = n
      BY <1>1
    <3>2. IsFiniteSet(1..n) /\ Cardinality(1..n) = n
      BY <1>1, FS_Interval
    <3> QED BY <3>2, FS_Singleton
  <2>2. IsFiniteSet(S) /\ Cardinality(S) = 1 * n
    <3> HIDE DEF n
    <3>1. IsFiniteSet({o} \X (1..n)) /\ Cardinality({o} \X (1..n)) = Cardinality({o}) * Cardinality(1..n)
      BY <2>1, FS_Product
    <3> QED BY <2>1, <3>1
  <2> QED BY <1>1, <2>2
<1>4. IsFiniteSet(A) /\ Cardinality(A) < MaxAttempts
  BY FinitelyManyAttempts DEF LawReserves
<1>5. n <= Cardinality(A) /\ Cardinality(A) \in Nat
  <2> HIDE DEF n, A, S
  <2> QED BY <1>2, <1>3, <1>4, FS_Subset, FS_CardinalityType
<1> HIDE DEF n, A, S
<1>6. n + 1 <= MaxAttempts
  BY <1>1, <1>4, <1>5
<1> QED BY <1>6 DEF n

\* A start takes the next number, which the law admits only in its limits.
LEMMA NumberStep == TypeInv /\ LeaseInv /\ NumberInv /\ [Next]_vars => NumberInv'
<1> SUFFICES ASSUME TypeInv, LeaseInv, NumberInv, [Next]_vars PROVE NumberInv'
  OBVIOUS
<1>1. \A o \in Order : AttemptIndex(o) \in Nat
  BY Counted DEF TypeInv
<1>2. ASSUME NEW c \in Controller, NEW o \in Order, Dispatch(c, o)
      PROVE  NumberInv'
  <2>1. Elsewhere(c, o) /\ worker[c][o].at # "none" /\ Move(c, o) /\ ThreadNumbered(c, o)
    BY <1>2, ThreadStep, ThreadMoves DEF NumberInv
  <2>2. Reserve(c, o) => worker[c][o].index = AttemptIndex(o) + 1 /\ worker'[c][o].at = "reserved"
    <3> SUFFICES ASSUME Reserve(c, o)
                 PROVE  worker[c][o].index = AttemptIndex(o) + 1 /\ worker'[c][o].at = "reserved"
      OBVIOUS
    <3>1. Step(c, o, {"begun"}, "reserved")
      BY DEF Reserve
    <3>2. worker[c][o].at = "begun" /\ worker'[c][o].at = "reserved"
      BY <3>1 DEF Step, TypeInv, ThreadRow
    <3> QED BY <2>1, <3>2 DEF ThreadNumbered
  <2>3. ASSUME NEW p \in Order, NEW k \in Nat
        PROVE  Recorded(<<p, k>>, {"started"})' <=> k \in 1..AttemptIndex(p)'
    <3>1. Recorded(<<p, k>>, {"started"}) <=> k \in 1..AttemptIndex(p)
      BY DEF NumberInv
    <3>2. Recorded(<<p, k>>, {"started"})' <=>
              \/ Recorded(<<p, k>>, {"started"})
              \/ Reserve(c, o) /\ p = o /\ k = worker[c][o].index
      BY <1>2, ThreadStarts
    <3>3. CASE Reserve(c, o) /\ p = o
      <4>1. AttemptIndex(p)' = AttemptIndex(p) + 1
        BY <1>2, <3>3, ThreadCounts
      <4> QED BY <1>1, <2>2, <3>1, <3>2, <3>3, <4>1
    <3>4. CASE ~Reserve(c, o) \/ p # o
      <4>1. AttemptIndex(p)' = AttemptIndex(p)
        BY <1>2, <3>4, ThreadCounts
      <4> QED BY <3>1, <3>2, <3>4, <4>1
    <3> QED BY <3>3, <3>4
  <2>4. ASSUME NEW p \in Order
        PROVE  AttemptIndex(p)' <= MaxAttempts
    <3>1. CASE Reserve(c, o) /\ p = o
      <4>1. AttemptIndex(o) + 1 <= MaxAttempts
        BY <3>1, LawLimits DEF Reserve
      <4> QED BY <1>2, <3>1, <4>1, ThreadCounts
    <3>2. CASE ~Reserve(c, o) \/ p # o
      BY <1>2, <3>2, ThreadCounts DEF NumberInv
    <3> QED BY <3>1, <3>2
  <2>5. ASSUME NEW d \in Controller, NEW p \in Order, d # c \/ p # o
        PROVE  ThreadNumbered(d, p)'
    <3>1. worker'[d][p] = worker[d][p]
      BY <2>1, <2>5 DEF Elsewhere
    <3>2. ThreadNumbered(d, p)
      BY DEF NumberInv
    <3>3. CASE p = o
      <4>1. worker[d][p].at = "none"
        BY <2>1, <2>5, <3>3, OneCycle
      <4> QED BY <3>1, <3>2, <4>1 DEF ThreadNumbered, Attempting
    <3>4. CASE p # o
      <4>1. AttemptIndex(p)' = AttemptIndex(p)
        BY <1>2, <3>4, ThreadCounts
      <4> QED BY <3>1, <3>2, <4>1 DEF ThreadNumbered
    <3> QED BY <3>3, <3>4
  <2>6. ThreadNumbered(c, o)'
    <3>1. CASE Reserve(c, o)
      <4>1. AttemptIndex(o)' = AttemptIndex(o) + 1
        BY <1>2, <3>1, ThreadCounts
      <4>2. /\ worker[c][o].at = "begun"
            /\ worker'[c][o].index = worker[c][o].index
            /\ worker'[c][o].permit = worker[c][o].permit
        BY <2>1, <2>2, <3>1 DEF Move, Attempting, NoThread
      <4> QED BY <2>1, <2>2, <3>1, <4>1, <4>2 DEF ThreadNumbered, Attempting
    <3>2. CASE ~Reserve(c, o)
      <4>1. AttemptIndex(o)' = AttemptIndex(o)
        BY <1>2, <3>2, ThreadCounts
      <4>2. NoThread.at = "none" /\ NoThread.index = 0 /\ ~NoThread.permit
        BY DEF NoThread
      <4>3. CASE worker'[c][o] = NoThread
        BY <4>2, <4>3 DEF ThreadNumbered, Attempting
      <4>4. CASE worker'[c][o] # NoThread
        <5> DEFINE t == worker[c][o]
                   u == worker'[c][o]
        <5>1. \/ t.at = "assigned" /\ u.at = "none" /\ u.index = t.index /\ u.permit = t.permit
              \/ t.at = "assigned" /\ u.at = "begun" /\ u.index = AttemptIndex(o) + 1 /\ u.permit = t.permit
              \/ t.at = "begun" /\ u.at \in {"held", "failed"} /\ u.index = t.index /\ u.permit = t.permit
              \/ t.at = "reserved" /\ u.at = "claimed" /\ u.index = t.index /\ u.permit = t.permit
              \/ /\ t.at \in Attempting /\ u.index = t.index
                 /\ u.at \in Attempting \ {"reserved", "claimed"}
              \/ /\ t.at \in Attempting \cup {"failed"} /\ u.at \in {"failed", "cleanup"}
                 /\ u.index = t.index /\ u.permit = t.permit
          BY <2>1, <3>2, <4>4 DEF Move, Attempting
        <5> HIDE DEF u
        <5>2. ThreadNumbered(c, o)' <=>
                /\ u.at \in {"none", "assigned"} => u.index = 0
                /\ u.at \in {"begun", "held"} => u.index = AttemptIndex(o) + 1
                /\ u.at \in Attempting => u.index = AttemptIndex(o)
                /\ u.at \in {"failed", "cleanup"} =>
                      \/ u.index = AttemptIndex(o)
                      \/ u.index = AttemptIndex(o) + 1 /\ ~u.permit
                /\ u.at \in {"none", "assigned", "begun", "held", "reserved", "claimed"} => ~u.permit
          BY <4>1 DEF ThreadNumbered, u
        <5> QED BY <2>1, <5>1, <5>2 DEF ThreadNumbered, Attempting
      <4> QED BY <4>3, <4>4
    <3> QED BY <3>1, <3>2
  <2> QED BY <2>3, <2>4, <2>5, <2>6 DEF NumberInv
<1>3. ASSUME ~\E c \in Controller, o \in Order : Dispatch(c, o)
      PROVE  NumberInv'
  <2>1. /\ \A p \in Order : AttemptIndex(p)' = AttemptIndex(p)
        /\ \A p \in Order, k \in Nat :
              Recorded(<<p, k>>, {"started"})' <=> Recorded(<<p, k>>, {"started"})
    BY <1>3, OthersStartNone
  <2>2. ASSUME NEW c \in Controller, NEW o \in Order
        PROVE  ThreadNumbered(c, o)'
    <3>1. ThreadNumbered(c, o) /\ AttemptIndex(o)' = AttemptIndex(o)
      BY <2>1 DEF NumberInv
    <3>2. CASE worker'[c][o] = worker[c][o]
      BY <3>1, <3>2 DEF ThreadNumbered
    <3>3. CASE worker'[c][o] = NoThread \/ worker'[c][o] = [NoThread EXCEPT !.at = "assigned"]
      BY <3>3 DEF ThreadNumbered, NoThread, Attempting
    <3>4. CASE Disable
      BY <3>1, <3>4, Disabled DEF ThreadNumbered
    <3>5. \/ worker'[c][o] = worker[c][o]
          \/ worker'[c][o] = NoThread \/ worker'[c][o] = [NoThread EXCEPT !.at = "assigned"]
          \/ Disable
      <4>1. ASSUME NEW d \in Controller, NEW S \in SUBSET Order, Plan(d, S)
            PROVE  \/ worker'[c][o] = worker[c][o]
                   \/ worker'[c][o] = NoThread \/ worker'[c][o] = [NoThread EXCEPT !.at = "assigned"]
        BY <4>1 DEF Plan, TypeInv
      <4>2. ASSUME NEW d \in Controller, Crash(d)
            PROVE  worker'[c][o] = worker[c][o] \/ worker'[c][o] = NoThread
        BY <4>2 DEF Crash, TypeInv
      <4>3. CASE UNCHANGED worker
        BY <4>3
      <4>4. \/ \E d \in Controller, S \in SUBSET Order : Plan(d, S)
            \/ \E d \in Controller : Crash(d)
            \/ Disable
            \/ UNCHANGED worker
        BY <1>3, NextIs DEF Cancel, TakeLease, Acknowledge, Examine, Judge, Quiet
      <4> QED BY <4>1, <4>2, <4>3, <4>4
    <3> QED BY <3>2, <3>3, <3>4, <3>5
  <2> QED BY <2>1, <2>2 DEF NumberInv
<1> QED BY <1>2, <1>3

-----------------------------------------------------------------------------
(* One start per ACK and per attempt.                                       *)

StartInv == TypeInv /\ LeaseInv /\ NumberInv

\* Types, lease and numbers hold throughout.
LEMMA StartInvHolds == Spec => []StartInv
<1>1. Init => StartInv
  <2> SUFFICES ASSUME Init PROVE StartInv
    OBVIOUS
  <2>1. TypeInv /\ LeaseInv
    BY DispatchAssumption DEF Init, TypeInv, LeaseInv, NoThread, ThreadRow, Phase
  <2>2. ASSUME NEW o \in Order PROVE AttemptIndex(o) = 0
    BY FS_EmptySet DEF Init, AttemptIndex
  <2>3. ASSUME NEW o \in Order, NEW k \in Nat PROVE ~Recorded(<<o, k>>, {"started"})
    BY DEF Init, Recorded
  <2>4. ASSUME NEW c \in Controller, NEW o \in Order PROVE ThreadNumbered(c, o)
    BY DEF Init, ThreadNumbered, NoThread, Attempting
  <2> QED BY <2>1, <2>2, <2>3, <2>4, DispatchAssumption DEF StartInv, NumberInv
<1>2. StartInv /\ [Next]_vars => StartInv'
  BY TypeStep, LeaseStep, NumberStep DEF StartInv
<1> QED BY <1>1, <1>2, PTL DEF Spec

\* A start is one of the order's numbered attempts.
LEMMA StartNumbered ==
    ASSUME StartInv, NEW i \in Starts
    PROVE  journal[i].order \in Order /\ journal[i].index \in 1..AttemptIndex(journal[i].order)
<1>1. i \in DOMAIN journal /\ journal[i] \in Row /\ journal[i].kind = "started"
  BY DEF Starts, StartInv, TypeInv
<1> DEFINE o == journal[i].order
           k == journal[i].index
<1>2. o \in Order /\ k \in Nat
  BY <1>1 DEF Row
<1>3. Recorded(<<o, k>>, {"started"})
  BY <1>1 DEF Recorded, Names
<1> HIDE DEF o, k
<1>4. k \in 1..AttemptIndex(o)
  BY <1>2, <1>3 DEF StartInv, NumberInv
<1> QED BY <1>2, <1>4 DEF o, k

\* What a thread appends when the law reserves: an ACK that no start has used.
LEMMA ReserveWrites ==
    ASSUME StartInv, NEW c \in Controller, NEW o \in Order, Reserve(c, o)
    PROVE  /\ worker[c][o].at = "begun" /\ worker[c][o].index = AttemptIndex(o) + 1
           /\ AttemptIndex(o) \in Nat
           /\ \E ack \in 0..MaxAcks : /\ Write("started", o, worker[c][o].index, ack)
                                      /\ \A i \in Starts : journal[i].ack # ack
<1> DEFINE A == TaskAcks(Task[o])
           ack == journal[Last(A)].ack
<1>1. journal \in Seq(Row) /\ A \in SUBSET DOMAIN journal /\ A # {}
  BY DEF StartInv, TypeInv, Reserve, LawReserves, TaskAcks, Acks
<1>2. Last(A) \in DOMAIN journal
  <2> HIDE DEF A
  <2> QED BY <1>1, LastEvent
<1>3. ack \in 0..MaxAcks
  <2>1. \A i \in DOMAIN journal : journal[i] \in Row
    BY <1>1
  <2> HIDE DEF A
  <2> QED BY <1>2, <2>1 DEF Row
<1>4. \A i \in Starts : journal[i].ack # ack
  BY DEF Reserve, LawReserves, Starts
<1>5. Write("started", o, worker[c][o].index, ack)
  BY DEF Reserve
<1>6. worker[c][o].at = "begun"
  BY DEF Reserve, Step
<1>7. worker[c][o].index = AttemptIndex(o) + 1 /\ AttemptIndex(o) \in Nat
  BY <1>1, <1>6, Counted DEF StartInv, NumberInv, ThreadNumbered
<1> HIDE DEF ack
<1> QED BY <1>3, <1>4, <1>5, <1>6, <1>7

\* Starts are appended by Reserve only, and nothing is ever taken out.
LEMMA StartsAfter ==
    ASSUME TypeInv, [Next]_vars,
           ~\E c \in Controller, o \in Order : Dispatch(c, o) /\ Reserve(c, o)
    PROVE  Starts' = Starts /\ \A i \in Starts : journal'[i] = journal[i]
<1> DEFINE Goal == Starts' = Starts /\ \A i \in Starts : journal'[i] = journal[i]
<1>1. journal \in Seq(Row) /\ 0 \in 0..MaxAcks /\ Verdict \subseteq EventKind
  BY DispatchAssumption DEF TypeInv, EventKind
<1>2. ASSUME NEW kind \in EventKind \ {"started"}, NEW o \in Order, NEW index \in Nat,
             NEW ack \in 0..MaxAcks, Write(kind, o, index, ack)
      PROVE  Goal
  <2> DEFINE n == Len(journal) + 1
  <2>1. /\ DOMAIN journal = 1..Len(journal) /\ DOMAIN journal' = 1..n
        /\ \A i \in 1..Len(journal) : journal'[i] = journal[i]
        /\ 1..n = (1..Len(journal)) \cup {n}
    <3>1. /\ Len(journal) \in Nat /\ DOMAIN journal = 1..Len(journal) /\ DOMAIN journal' = 1..n
          /\ \A i \in 1..Len(journal) : journal'[i] = journal[i]
      BY <1>1, <1>2, Written
    <3> QED BY <3>1
  <2>2. journal'[n].kind # "started"
    <3>1. journal'[n] = [kind |-> kind, order |-> o, index |-> index, ack |-> ack]
      BY <1>1, <1>2, Written
    <3> QED BY <3>1
  <2> HIDE DEF n
  <2> QED BY <2>1, <2>2 DEF Starts
<1>3. ASSUME journal' = journal PROVE Goal
  BY <1>3 DEF Starts
<1> HIDE DEF Goal
<1>4. ASSUME NEW c \in Controller, NEW o \in Order, Dispatch(c, o) PROVE Goal
  <2>1. {0, worker[c][o].index} \subseteq Nat
    BY DEF TypeInv, ThreadRow
  <2> QED BY <1>2, <1>3, <1>4, <2>1, ThreadWrites
<1>5. ASSUME NEW c \in Controller, NEW a \in Attempt, Cancel(c, a) PROVE Goal
  BY <1>1, <1>2, <1>5, OtherWrites DEF EventKind
<1>6. ASSUME NEW o \in Order, Acknowledge(o) PROVE Goal
  BY <1>2, <1>6, OtherWrites DEF EventKind
<1>7. ASSUME NEW r \in Reviewer, NEW v \in Verdict, Judge(r, v) PROVE Goal
  BY <1>1, <1>2, <1>7, OtherWrites DEF Verdict
<1>8. ASSUME NEW c \in Controller, NEW S \in SUBSET Order, Plan(c, S) \/ TakeLease(c) \/ Crash(c)
      PROVE  Goal
  BY <1>3, <1>8 DEF Plan, TakeLease, Crash
<1>9. ASSUME NEW r \in Reviewer, NEW a \in Attempt, Examine(r, a) PROVE Goal
  BY <1>3, <1>9 DEF Examine
<1>10. ASSUME Disable \/ Quiet PROVE Goal
  BY <1>3, <1>10 DEF Disable, Quiet
<1>11. Goal
  BY <1>4, <1>5, <1>6, <1>7, <1>8, <1>9, <1>10, NextIs
<1> QED BY <1>11 DEF Goal

\* An ACK starts one attempt, and no attempt is started twice, whatever the
\* threads, the crashes and the order of the ACKs.
THEOREM OneStart == Spec => []OneStartPerAck
<1>1. Init => OneStartPerAck
  BY DEF Init, OneStartPerAck, Starts
<1>2. StartInv /\ OneStartPerAck /\ [Next]_vars => OneStartPerAck'
  <2> SUFFICES ASSUME StartInv, OneStartPerAck, [Next]_vars PROVE OneStartPerAck'
    OBVIOUS
  <2>1. TypeInv
    BY DEF StartInv
  <2>2. ASSUME NEW c \in Controller, NEW o \in Order, Reserve(c, o)
        PROVE  OneStartPerAck'
    <3> DEFINE n == Len(journal) + 1
               k == AttemptIndex(o) + 1
    <3>1. PICK ack \in 0..MaxAcks : /\ Write("started", o, k, ack)
                                    /\ \A i \in Starts : journal[i].ack # ack
      BY <2>2, ReserveWrites
    <3>2. k \in Nat /\ AttemptIndex(o) \in Nat /\ "started" \in EventKind /\ journal \in Seq(Row)
      BY <2>1, Counted DEF EventKind, Running, TypeInv
    <3>3. /\ DOMAIN journal = 1..Len(journal) /\ DOMAIN journal' = 1..n
          /\ \A i \in 1..Len(journal) : journal'[i] = journal[i]
          /\ 1..n = (1..Len(journal)) \cup {n}
          /\ journal'[n] = [kind |-> "started", order |-> o, index |-> k, ack |-> ack]
      BY <3>1, <3>2, Written
    <3>4. journal'[n].order = o /\ journal'[n].index = k /\ journal'[n].ack = ack
      BY <3>3
    <3>5. \A i \in Starts' : i = n \/ (i \in Starts /\ journal'[i] = journal[i])
      BY <3>3 DEF Starts
    <3>6. ASSUME NEW i \in Starts
          PROVE  journal[i].ack # ack /\ <<journal[i].order, journal[i].index>> # <<o, k>>
      <4>1. journal[i].index \in 1..AttemptIndex(journal[i].order)
        BY StartNumbered
      <4>2. journal[i].order = o => journal[i].index # k
        BY <3>2, <4>1
      <4> QED BY <3>1, <4>2
    <3> HIDE DEF n, k
    <3> QED BY <3>4, <3>5, <3>6 DEF OneStartPerAck
  <2>3. CASE ~\E c \in Controller, o \in Order : Dispatch(c, o) /\ Reserve(c, o)
    <3>1. Starts' = Starts /\ \A i \in Starts : journal'[i] = journal[i]
      BY <2>1, <2>3, StartsAfter
    <3> QED BY <3>1 DEF OneStartPerAck
  <2> QED BY <2>2, <2>3
<1> QED BY <1>1, <1>2, StartInvHolds, PTL DEF Spec

-----------------------------------------------------------------------------
(* Types with the bounds of the indexes.                                    *)

\* Where an event comes from.
Source(kind, o, index) ==
    \/ /\ kind \notin Verdict \cup {"cancelled", "ack"}
       /\ \E c \in Controller : /\ Dispatch(c, o)
                                /\ index \in {0, worker[c][o].index}
                                /\ kind = "ready" => Ready(c, o) /\ index = worker[c][o].index
    \/ /\ kind = "cancelled"
       /\ \E c \in Controller, a \in Attempt : Cancel(c, a) /\ a[1] = o /\ a[2] = index
    \/ kind = "ack" /\ index = 0
    \/ /\ kind \in Verdict
       /\ \E r \in Reviewer : Judge(r, kind) /\ \E a \in review[r] : a[1] = o /\ a[2] = index

\* Every step appends at most one event.
LEMMA Writes ==
    ASSUME TypeInv, [Next]_vars
    PROVE  \/ journal' = journal
           \/ \E kind \in EventKind, o \in Order, index \in Nat, ack \in 0..MaxAcks :
                 Write(kind, o, index, ack) /\ Source(kind, o, index)
<1> DEFINE Goal == \/ journal' = journal
                   \/ \E kind \in EventKind, o \in Order, index \in Nat, ack \in 0..MaxAcks :
                         Write(kind, o, index, ack) /\ Source(kind, o, index)
<1>1. 0 \in 0..MaxAcks /\ 0 \in Nat
  BY DispatchAssumption
<1>2. \A a \in Attempt : a[1] \in Order /\ a[2] \in 1..MaxAttempts /\ a[2] \in Nat
  BY DispatchAssumption DEF Attempt
<1>3. ASSUME NEW c \in Controller, NEW o \in Order, Dispatch(c, o) PROVE Goal
  <2>1. {0, worker[c][o].index} \subseteq Nat
    BY DEF TypeInv, ThreadRow
  <2>2. ASSUME journal' = journal PROVE Goal
    BY <2>2
  <2>3. ASSUME NEW kind \in EventKind, NEW index \in {0, worker[c][o].index}, NEW ack \in 0..MaxAcks,
               Write(kind, o, index, ack), kind \notin Verdict \cup {"cancelled", "ack"},
               kind = "ready" => Ready(c, o) /\ index = worker[c][o].index
        PROVE  Goal
    <3>1. Source(kind, o, index)
      BY <1>3, <2>3 DEF Source
    <3> QED BY <2>1, <2>3, <3>1
  <2> HIDE DEF Goal
  <2> QED BY <1>3, <2>2, <2>3, ThreadWrites
<1>4. ASSUME NEW c \in Controller, NEW a \in Attempt, Cancel(c, a) PROVE Goal
  <2>1. Write("cancelled", a[1], a[2], 0) /\ "cancelled" \in EventKind
    BY <1>4 DEF Cancel, EventKind
  <2>2. Source("cancelled", a[1], a[2])
    BY <1>4 DEF Source
  <2> QED BY <1>1, <1>2, <2>1, <2>2
<1>5. ASSUME NEW o \in Order, Acknowledge(o) PROVE Goal
  <2>1. "ack" \in EventKind /\ Source("ack", o, 0)
    BY DEF EventKind, Source
  <2> QED BY <1>1, <1>5, <2>1, OtherWrites
<1>6. ASSUME NEW r \in Reviewer, NEW v \in Verdict, Judge(r, v) PROVE Goal
  <2>1. PICK a \in review[r] : Write(v, a[1], a[2], 0)
    BY <1>6 DEF Judge
  <2>2. a \in Attempt /\ v \in EventKind
    BY DEF TypeInv, EventKind
  <2>3. Source(v, a[1], a[2])
    BY <1>6 DEF Source
  <2> QED BY <1>1, <1>2, <2>1, <2>2, <2>3
<1>7. ASSUME NEW c \in Controller, NEW S \in SUBSET Order, Plan(c, S) \/ TakeLease(c) \/ Crash(c)
      PROVE  Goal
  BY <1>7 DEF Plan, TakeLease, Crash
<1>8. ASSUME NEW r \in Reviewer, NEW a \in Attempt, Examine(r, a) PROVE Goal
  BY <1>8 DEF Examine
<1>9. ASSUME Disable \/ Quiet PROVE Goal
  BY <1>9 DEF Disable, Quiet
<1> HIDE DEF Goal
<1>10. Goal
  BY <1>3, <1>4, <1>5, <1>6, <1>7, <1>8, <1>9, NextIs
<1> QED BY <1>10 DEF Goal

\* No row has a number beyond the next one that the law would refuse.
BoundInv == \A i \in DOMAIN journal : journal[i].index \in 0..(MaxAttempts + 1)

\* A thread's index is at most one beyond what the law allows.
LEMMA ThreadBound ==
    ASSUME StartInv, NEW c \in Controller, NEW o \in Order
    PROVE  worker[c][o].index \in 0..(MaxAttempts + 1)
<1>1. worker[c][o].at \in Phase
  BY DEF StartInv, TypeInv, ThreadRow
<1>2. AttemptIndex(o) \in Nat /\ AttemptIndex(o) <= MaxAttempts /\ MaxAttempts \in Nat
  BY Counted, DispatchAssumption DEF StartInv, TypeInv, NumberInv
<1>3. \/ worker[c][o].index = 0
      \/ worker[c][o].index = AttemptIndex(o)
      \/ worker[c][o].index = AttemptIndex(o) + 1
  BY <1>1 DEF StartInv, NumberInv, ThreadNumbered, Phase, Attempting
<1> QED BY <1>2, <1>3

\* Type correctness.  Attempt indexes stay in their bounds because the law
\* counts the attempts of a task and starts are numbered without gaps.
THEOREM Typed == Spec => []TypeOK
<1>1. Init => BoundInv
  BY DEF Init, BoundInv
<1>2. StartInv /\ BoundInv /\ [Next]_vars => BoundInv'
  <2> SUFFICES ASSUME StartInv, BoundInv, [Next]_vars PROVE BoundInv'
    OBVIOUS
  <2>1. TypeInv /\ journal \in Seq(Row) /\ MaxAttempts \in Nat
    BY DispatchAssumption DEF StartInv, TypeInv
  <2>2. CASE journal' = journal
    BY <2>2 DEF BoundInv
  <2>3. ASSUME NEW kind \in EventKind, NEW o \in Order, NEW index \in Nat, NEW ack \in 0..MaxAcks,
               Write(kind, o, index, ack), index \in 0..(MaxAttempts + 1)
        PROVE  BoundInv'
    <3> DEFINE n == Len(journal) + 1
    <3>1. /\ Len(journal) \in Nat
          /\ DOMAIN journal = 1..Len(journal) /\ DOMAIN journal' = 1..n
          /\ \A i \in 1..Len(journal) : journal'[i] = journal[i]
          /\ journal'[n] = [kind |-> kind, order |-> o, index |-> index, ack |-> ack]
      BY <2>1, <2>3, Written
    <3>2. 1..n = (1..Len(journal)) \cup {n}
      BY <3>1
    <3>3. journal'[n].index = index
      BY <3>1
    <3> HIDE DEF n
    <3> QED BY <2>3, <3>1, <3>2, <3>3 DEF BoundInv
  <2>4. ASSUME NEW kind \in EventKind, NEW o \in Order, NEW index \in Nat, Source(kind, o, index)
        PROVE  index \in 0..(MaxAttempts + 1)
    <3>1. ASSUME NEW a \in Attempt, a[2] = index PROVE index \in 0..(MaxAttempts + 1)
      BY <2>1, <3>1 DEF Attempt
    <3>2. CASE \E c \in Controller : index = worker[c][o].index
      BY <3>2, ThreadBound
    <3>3. CASE index = 0
      BY <2>1, <3>3
    <3>4. \A r \in Reviewer : review[r] \subseteq Attempt
      BY DEF StartInv, TypeInv
    <3> QED BY <2>4, <3>1, <3>2, <3>3, <3>4 DEF Source
  <2> QED BY <2>1, <2>2, <2>3, <2>4, Writes
<1>3. StartInv /\ BoundInv => TypeOK
  <2> SUFFICES ASSUME StartInv, BoundInv PROVE TypeOK
    OBVIOUS
  <2>1. ASSUME NEW i \in DOMAIN journal PROVE journal[i] \in Event
    <3>1. journal[i] \in Row /\ journal[i].index \in 0..(MaxAttempts + 1)
      BY DEF StartInv, TypeInv, BoundInv
    <3> QED BY <3>1 DEF Row, Event, EventKind
  <2>2. ASSUME NEW c \in Controller, NEW o \in Order PROVE worker[c][o] \in Thread
    <3>1. worker[c][o] \in ThreadRow /\ worker[c][o].index \in 0..(MaxAttempts + 1)
      BY ThreadBound DEF StartInv, TypeInv
    <3> QED BY <3>1 DEF ThreadRow, Thread
  <2>3. worker \in [Controller -> [Order -> Thread]]
    BY <2>2 DEF StartInv, TypeInv
  <2> QED BY <2>1, <2>3 DEF StartInv, TypeInv, TypeOK
<1> QED BY <1>1, <1>2, <1>3, StartInvHolds, PTL DEF Spec

-----------------------------------------------------------------------------
(* Who records what.                                                        *)

\* What is recorded stays recorded, and who adds a cancellation, a readiness
\* or a verdict.
LEMMA RecordedStep ==
    ASSUME TypeInv, [Next]_vars, NEW o \in Order, NEW k \in Nat \ {0}
    PROVE  /\ \A K : Recorded(<<o, k>>, K) => Recorded(<<o, k>>, K)'
           /\ Recorded(<<o, k>>, {"cancelled"})' =>
                 \/ Recorded(<<o, k>>, {"cancelled"})
                 \/ \E c \in Controller, a \in Attempt : Cancel(c, a)
           /\ Recorded(<<o, k>>, {"ready"})' =>
                 \/ Recorded(<<o, k>>, {"ready"})
                 \/ \E c \in Controller : Ready(c, o) /\ worker[c][o].index = k
           /\ Recorded(<<o, k>>, Verdict)' =>
                 \/ Recorded(<<o, k>>, Verdict)
                 \/ \E r \in Reviewer, v \in Verdict :
                       Judge(r, v) /\ \E a \in review[r] : a[1] = o /\ a[2] = k
<1> DEFINE Goal == /\ \A K : Recorded(<<o, k>>, K) => Recorded(<<o, k>>, K)'
                   /\ Recorded(<<o, k>>, {"cancelled"})' =>
                         \/ Recorded(<<o, k>>, {"cancelled"})
                         \/ \E c \in Controller, a \in Attempt : Cancel(c, a)
                   /\ Recorded(<<o, k>>, {"ready"})' =>
                         \/ Recorded(<<o, k>>, {"ready"})
                         \/ \E c \in Controller : Ready(c, o) /\ worker[c][o].index = k
                   /\ Recorded(<<o, k>>, Verdict)' =>
                         \/ Recorded(<<o, k>>, Verdict)
                         \/ \E r \in Reviewer, v \in Verdict :
                               Judge(r, v) /\ \E a \in review[r] : a[1] = o /\ a[2] = k
<1>1. ASSUME journal' = journal PROVE Goal
  BY <1>1 DEF Recorded, Names
<1>2. ASSUME NEW kind \in EventKind, NEW p \in Order, NEW index \in Nat, NEW ack \in 0..MaxAcks,
             Write(kind, p, index, ack), Source(kind, p, index)
      PROVE  Goal
  <2>1. journal \in Seq(Row)
    BY DEF TypeInv
  <2>2. ASSUME NEW K
        PROVE  Recorded(<<o, k>>, K)' <=> \/ Recorded(<<o, k>>, K)
                                          \/ (o = p /\ k = index /\ kind \in K)
    BY <1>2, <2>1, RecordedAfter
  <2>3. ASSUME o = p, k = index, kind = "cancelled"
        PROVE  \E c \in Controller, a \in Attempt : Cancel(c, a)
    BY <1>2, <2>3 DEF Source, Verdict
  <2>4. ASSUME o = p, k = index, kind = "ready"
        PROVE  \E c \in Controller : Ready(c, o) /\ worker[c][o].index = k
    BY <1>2, <2>4 DEF Source, Verdict
  <2>5. ASSUME o = p, k = index, kind \in Verdict
        PROVE  \E r \in Reviewer, v \in Verdict :
                   Judge(r, v) /\ \E a \in review[r] : a[1] = o /\ a[2] = k
    BY <1>2, <2>5 DEF Source, Verdict
  <2> QED BY <2>2, <2>3, <2>4, <2>5
<1> HIDE DEF Goal
<1>3. Goal
  BY <1>1, <1>2, Writes
<1> QED BY <1>3 DEF Goal

\* Where a thread was before.
LEMMA FromWhere ==
    ASSUME TypeInv, [Next]_vars, NEW c \in Controller, NEW o \in Order
    PROVE  \/ worker'[c][o] = worker[c][o]
           \/ Dispatch(c, o)
           \/ worker'[c][o] = NoThread
           \/ worker'[c][o] = [NoThread EXCEPT !.at = "assigned"]
           \/ Disable
<1>1. ASSUME NEW d \in Controller, NEW p \in Order, Dispatch(d, p)
      PROVE  worker'[c][o] = worker[c][o] \/ Dispatch(c, o)
  BY <1>1, ThreadStep DEF Elsewhere
<1>2. ASSUME NEW d \in Controller, NEW S \in SUBSET Order, Plan(d, S)
      PROVE  \/ worker'[c][o] = worker[c][o]
             \/ worker'[c][o] = NoThread
             \/ worker'[c][o] = [NoThread EXCEPT !.at = "assigned"]
  BY <1>2 DEF Plan, TypeInv
<1>3. ASSUME NEW d \in Controller, Crash(d)
      PROVE  worker'[c][o] = worker[c][o] \/ worker'[c][o] = NoThread
  BY <1>3 DEF Crash, TypeInv
<1>4. \/ \E d \in Controller, p \in Order : Dispatch(d, p)
      \/ \E d \in Controller, S \in SUBSET Order : Plan(d, S)
      \/ \E d \in Controller : Crash(d)
      \/ Disable
      \/ UNCHANGED worker
  BY NextIs DEF Cancel, TakeLease, Acknowledge, Examine, Judge, Quiet
<1> QED BY <1>1, <1>2, <1>3, <1>4

\* Where a thread is that has passed the start of its attempt.
Past == Attempting \cup {"failed", "cleanup"}

\* How a thread gets past the start of its attempt: with the next number.
LEMMA PastFrom ==
    ASSUME StartInv, [Next]_vars, NEW c \in Controller, NEW o \in Order, worker'[c][o].at \in Past
    PROVE  /\ worker'[c][o].index = worker[c][o].index
           /\ \/ worker[c][o].at \in Past
              \/ worker[c][o].at = "begun" /\ worker[c][o].index = AttemptIndex(o) + 1
<1>1. TypeInv /\ ThreadNumbered(c, o)
  BY DEF StartInv, NumberInv
<1>2. NoThread.at = "none" /\ [NoThread EXCEPT !.at = "assigned"].at = "assigned"
  BY DEF NoThread
<1>3. CASE worker'[c][o] = worker[c][o]
  BY <1>3
<1>4. CASE Disable
  BY <1>1, <1>4, Disabled
<1>5. CASE Dispatch(c, o)
  BY <1>1, <1>2, <1>5, ThreadMoves DEF Move, Past, Attempting, ThreadNumbered
<1> QED BY <1>1, <1>2, <1>3, <1>4, <1>5, FromWhere DEF Past, Attempting

\* Such a thread has an attempt.
PastInv == \A c \in Controller, o \in Order : worker[c][o].at \in Past => worker[c][o].index # 0

\* Numbers begin with 1.
LEMMA PastHolds == Spec => []PastInv
<1>1. Init => PastInv
  <2> SUFFICES ASSUME Init PROVE PastInv
    OBVIOUS
  <2> QED BY DEF Init, PastInv, NoThread, Past, Attempting
<1>2. StartInv /\ PastInv /\ [Next]_vars => PastInv'
  <2> SUFFICES ASSUME StartInv, PastInv, [Next]_vars, NEW c \in Controller, NEW o \in Order,
                      worker'[c][o].at \in Past
               PROVE  worker'[c][o].index # 0
    BY DEF PastInv
  <2>1. AttemptIndex(o) \in Nat
    BY Counted DEF StartInv, TypeInv
  <2> QED BY <2>1, PastFrom DEF PastInv
<1> QED BY <1>1, <1>2, StartInvHolds, PTL DEF Spec

\* The number of starts does not fall.
LEMMA CountGrows ==
    ASSUME TypeInv, [Next]_vars, NEW o \in Order
    PROVE  AttemptIndex(o) \in Nat /\ AttemptIndex(o)' \in {AttemptIndex(o), AttemptIndex(o) + 1}
<1>1. AttemptIndex(o) \in Nat
  BY Counted DEF TypeInv
<1>2. ASSUME NEW c \in Controller, NEW p \in Order, Dispatch(c, p)
      PROVE  AttemptIndex(o)' \in {AttemptIndex(o), AttemptIndex(o) + 1}
  BY <1>2, ThreadCounts
<1>3. ASSUME ~\E c \in Controller, p \in Order : Dispatch(c, p)
      PROVE  AttemptIndex(o)' \in {AttemptIndex(o), AttemptIndex(o) + 1}
  BY <1>3, OthersStartNone
<1> QED BY <1>1, <1>2, <1>3

-----------------------------------------------------------------------------
(* Only orphans are cancelled.                                              *)

\* What is or will be cancelled was started; and the attempt of a thread is
\* not cancelled.
CancelInv ==
    /\ \A o \in Order, k \in Nat \ {0} :
          Recorded(<<o, k>>, {"cancelled"}) => k <= AttemptIndex(o)
    /\ \A c \in Controller, o \in Order, k \in Nat \ {0} :
          /\ worker[c][o].at \in Past
          /\ worker[c][o].index = k
          => ~Recorded(<<o, k>>, {"cancelled"})
    /\ \A c \in Controller, o \in Order, k \in Nat \ {0} :
          <<o, k>> \in orphans[c] => k <= AttemptIndex(o)

\* What reconciliation finds was started.
LEMMA OrphansStarted ==
    ASSUME StartInv, NEW o \in Order, NEW k \in Nat \ {0}, <<o, k>> \in ExpiredAttempts
    PROVE  k <= AttemptIndex(o)
<1> DEFINE a == <<o, k>>
           S == {i \in DOMAIN journal : journal[i].order = a[1] /\
                    journal[i].kind \in {"started", "ready", "refused", "retryable", "cancelled"}}
<1>1. S # {} /\ journal[Last(S)].kind = "started" /\ Names(Last(S), a)
  BY DEF ExpiredAttempts
<1>2. Last(S) \in DOMAIN journal
  <2>1. S \in SUBSET DOMAIN journal /\ journal \in Seq(Row)
    BY DEF StartInv, TypeInv
  <2> HIDE DEF S
  <2>2. Last(S) \in S
    BY <1>1, <2>1, LastEvent
  <2> QED BY <2>1, <2>2
<1> HIDE DEF S
<1>3. Recorded(a, {"started"})
  BY <1>1, <1>2 DEF Recorded
<1> QED BY <1>3 DEF StartInv, NumberInv

\* Reconciliation finds nothing that a thread works on, for no thread is there
\* while the lease is with a cycle that reconciles.
LEMMA CancelStep == StartInv /\ CancelInv /\ [Next]_vars => CancelInv'
<1> SUFFICES ASSUME StartInv, CancelInv, [Next]_vars PROVE CancelInv'
  OBVIOUS
<1>1. TypeInv /\ LeaseInv
  BY DEF StartInv
<1>2. \A o \in Order : AttemptIndex(o) \in Nat /\ AttemptIndex(o)' \in {AttemptIndex(o), AttemptIndex(o) + 1}
  BY <1>1, CountGrows
<1>3. ASSUME NEW c \in Controller, NEW o \in Order, NEW k \in Nat \ {0}, <<o, k>> \in orphans'[c]
      PROVE  k <= AttemptIndex(o)
  <2>1. CASE <<o, k>> \in orphans[c]
    BY <2>1 DEF CancelInv
  <2>2. CASE <<o, k>> \notin orphans[c]
    <3>1. <<o, k>> \in ExpiredAttempts
      <4>1. ASSUME NEW d \in Controller, TakeLease(d) PROVE <<o, k>> \in ExpiredAttempts
        BY <1>1, <1>3, <2>2, <4>1 DEF TakeLease, TypeInv
      <4>2. ASSUME NEW d \in Controller, Crash(d) PROVE FALSE
        BY <1>1, <1>3, <2>2, <4>2 DEF Crash, TypeInv
      <4>3. ASSUME NEW d \in Controller, NEW a \in Attempt, Cancel(d, a) PROVE FALSE
        BY <1>1, <1>3, <2>2, <4>3 DEF Cancel, TypeInv
      <4>4. ASSUME NEW d \in Controller, NEW p \in Order, Dispatch(d, p) PROVE FALSE
        BY <1>1, <1>3, <2>2, <4>4, ThreadStep DEF Elsewhere
      <4>5. CASE UNCHANGED orphans
        BY <1>3, <2>2, <4>5
      <4> QED BY <4>1, <4>2, <4>3, <4>4, <4>5, NextIs
            DEF Plan, Acknowledge, Disable, Examine, Judge, Quiet, cycleVars
    <3> QED BY <3>1, OrphansStarted
  <2> QED BY <2>1, <2>2
<1>4. ASSUME NEW c \in Controller, NEW a \in Attempt, Cancel(c, a)
      PROVE  /\ \A o \in Order, k \in Nat \ {0} :
                   Recorded(<<o, k>>, {"cancelled"})' => k <= AttemptIndex(o)
             /\ \A d \in Controller, o \in Order : worker'[d][o].at = "none"
  <2>1. a \in orphans[c] /\ worker' = worker /\ Write("cancelled", a[1], a[2], 0)
    BY <1>4 DEF Cancel
  <2>2. a[1] \in Order /\ a[2] \in Nat \ {0} /\ a = <<a[1], a[2]>> /\ "cancelled" \in EventKind
        /\ 0 \in 0..MaxAcks /\ journal \in Seq(Row)
    BY <1>1, DispatchAssumption DEF Attempt, EventKind, TypeInv
  <2>3. ASSUME NEW o \in Order, NEW k \in Nat \ {0}, Recorded(<<o, k>>, {"cancelled"})'
        PROVE  k <= AttemptIndex(o)
    <3>1. Recorded(<<o, k>>, {"cancelled"}) \/ (o = a[1] /\ k = a[2])
      BY <2>1, <2>2, <2>3, RecordedAfter
    <3>2. a[2] <= AttemptIndex(a[1])
      BY <2>1, <2>2 DEF CancelInv
    <3> QED BY <3>1, <3>2 DEF CancelInv
  <2>4. cycle[c] = "reconcile"
    BY <1>1, <2>1 DEF LeaseInv
  <2> QED BY <1>1, <2>1, <2>3, <2>4, NoThreads
<1>5. ASSUME NEW o \in Order, NEW k \in Nat \ {0}, Recorded(<<o, k>>, {"cancelled"})'
      PROVE  k <= AttemptIndex(o)
  <2>1. \/ Recorded(<<o, k>>, {"cancelled"})
        \/ \E c \in Controller, a \in Attempt : Cancel(c, a)
    BY <1>1, <1>5, RecordedStep
  <2> QED BY <1>4, <1>5, <2>1 DEF CancelInv
<1>6. ASSUME NEW c \in Controller, NEW o \in Order, NEW k \in Nat \ {0},
             worker'[c][o].at \in Past, worker'[c][o].index = k,
             Recorded(<<o, k>>, {"cancelled"})'
      PROVE  FALSE
  <2>1. CASE \E d \in Controller, a \in Attempt : Cancel(d, a)
    BY <1>4, <1>6, <2>1 DEF Past, Attempting
  <2>2. CASE Recorded(<<o, k>>, {"cancelled"})
    <3>1. k <= AttemptIndex(o)
      BY <2>2 DEF CancelInv
    <3>2. k # AttemptIndex(o) + 1
      BY <1>2, <3>1
    <3> QED BY <1>6, <2>2, <3>2, PastFrom DEF CancelInv
  <2> QED BY <1>1, <1>6, <2>1, <2>2, RecordedStep
<1>7. \A o \in Order, k \in Nat \ {0} : k <= AttemptIndex(o) => k <= AttemptIndex(o)'
  <2> SUFFICES ASSUME NEW o \in Order, NEW k \in Nat \ {0}, k <= AttemptIndex(o)
               PROVE  k <= AttemptIndex(o)'
    OBVIOUS
  <2> QED BY <1>2
<1> QED BY <1>3, <1>5, <1>6, <1>7 DEF CancelInv

\* Reconciliation cancels orphans only: the attempt of a live thread is never
\* cancelled, however long it runs.
THEOREM Orphans == Spec => []CancelsOnlyOrphans
<1>1. Init => CancelInv
  BY DEF Init, CancelInv, Recorded, NoThread, Past, Attempting
<1>2. StartInv /\ CancelInv /\ [Next]_vars => CancelInv'
  BY CancelStep
<1>3. StartInv /\ PastInv /\ CancelInv => CancelsOnlyOrphans
  <2> SUFFICES ASSUME StartInv, PastInv, CancelInv, NEW c \in Controller, NEW o \in Order,
                      worker[c][o].at \notin {"none", "assigned", "begun", "held"},
                      Recorded(Mine(c, o), {"cancelled"})
               PROVE  FALSE
    BY DEF CancelsOnlyOrphans
  <2>1. worker[c][o].at \in Past
    BY DEF StartInv, TypeInv, ThreadRow, Phase, Past, Attempting
  <2>2. worker[c][o].index \in Nat \ {0}
    BY <2>1 DEF StartInv, TypeInv, ThreadRow, PastInv
  <2> QED BY <2>1, <2>2 DEF CancelInv, Mine
<1> QED BY <1>1, <1>2, <1>3, StartInvHolds, PastHolds, PTL DEF Spec

-----------------------------------------------------------------------------
(* What a disable has cut off.                                              *)

\* A thread that has a permit, or will get one inside its guard, works on an
\* attempt that no disable has caught; one that was caught is not ready.
CutInv ==
    /\ \A o \in Order, k \in Nat \ {0} :
          <<o, k>> \in cut => k <= AttemptIndex(o) /\ ~Recorded(<<o, k>>, {"ready"})
    /\ \A c \in Controller, o \in Order, k \in Nat \ {0} :
          /\ worker[c][o].at \in {"reserved", "claimed"} \/ worker[c][o].permit
          /\ worker[c][o].index = k
          => <<o, k>> \notin cut

\* A permit is for the order's last attempt.
LEMMA PermitNumbered ==
    ASSUME StartInv, NEW c \in Controller, NEW o \in Order, worker[c][o].permit
    PROVE  worker[c][o].index = AttemptIndex(o)
<1>1. worker[c][o] \in ThreadRow /\ ThreadNumbered(c, o)
  BY DEF StartInv, TypeInv, NumberInv
<1> QED BY <1>1 DEF ThreadRow, Phase, ThreadNumbered, Attempting

\* Only a disable cuts attempts off.
LEMMA CutKept ==
    ASSUME TypeInv, [Next]_vars, ~Disable
    PROVE  cut' = cut
<1>1. \A c \in Controller, o \in Order : Dispatch(c, o) => cut' = cut
  BY ThreadStep DEF Elsewhere
<1> QED BY <1>1, NextIs
     DEF Cancel, Plan, TakeLease, Crash, Acknowledge, Examine, Judge, Quiet, history

\* What a thread had that has a permit, or will get one, after a step.
LEMMA PermitFrom ==
    ASSUME StartInv, [Next]_vars, NEW c \in Controller, NEW o \in Order,
           worker'[c][o].at \in {"reserved", "claimed"} \/ worker'[c][o].permit
    PROVE  /\ ~Disable
           /\ worker'[c][o].index = worker[c][o].index
           /\ \/ worker[c][o].at \in {"reserved", "claimed"} \/ worker[c][o].permit
              \/ worker[c][o].index = AttemptIndex(o) + 1
<1>1. TypeInv /\ ThreadNumbered(c, o)
  BY DEF StartInv, NumberInv
<1>2. /\ NoThread.at = "none" /\ NoThread.permit = FALSE
      /\ [NoThread EXCEPT !.at = "assigned"].at = "assigned"
      /\ [NoThread EXCEPT !.at = "assigned"].permit = FALSE
  BY DEF NoThread
<1>3. ~Disable
  <2> SUFFICES ASSUME Disable PROVE FALSE
    OBVIOUS
  <2>1. worker[c][o].at \notin {"reserved", "claimed"}
    BY DEF Disable, GuardFree
  <2> QED BY <1>1, <2>1, Disabled
<1>4. CASE worker'[c][o] = worker[c][o]
  BY <1>3, <1>4
<1>5. CASE Dispatch(c, o)
  BY <1>1, <1>2, <1>3, <1>5, ThreadMoves DEF Move, Attempting, ThreadNumbered
<1> QED BY <1>1, <1>2, <1>3, <1>4, <1>5, FromWhere

\* A disable takes all permits, and a new permit is for a new attempt.
LEMMA CutStep == StartInv /\ CutInv /\ [Next]_vars => CutInv'
<1> SUFFICES ASSUME StartInv, CutInv, [Next]_vars PROVE CutInv'
  OBVIOUS
<1>1. TypeInv
  BY DEF StartInv
<1>2. ASSUME NEW o \in Order, NEW k \in Nat \ {0}, <<o, k>> \in cut'
      PROVE  k <= AttemptIndex(o)' /\ ~Recorded(<<o, k>>, {"ready"})'
  <2>1. AttemptIndex(o) \in Nat /\ AttemptIndex(o)' \in {AttemptIndex(o), AttemptIndex(o) + 1}
    BY <1>1, CountGrows
  <2>2. CASE <<o, k>> \in cut
    <3>1. k <= AttemptIndex(o) /\ ~Recorded(<<o, k>>, {"ready"})
      BY <2>2 DEF CutInv
    <3>2. ~\E c \in Controller : Ready(c, o) /\ worker[c][o].index = k
      BY <2>2 DEF CutInv, Ready
    <3> QED BY <1>1, <2>1, <3>1, <3>2, RecordedStep
  <2>3. CASE <<o, k>> \notin cut
    <3>1. Disable
      BY <1>1, <1>2, <2>3, CutKept
    <3>2. /\ ~Recorded(<<o, k>>, {"ready"})
          /\ \E c \in Controller, p \in Order : worker[c][p].permit /\ <<o, k>> = Mine(c, p)
      BY <1>2, <2>3, <3>1 DEF Disable
    <3>3. PICK c \in Controller : worker[c][o].permit /\ k = worker[c][o].index
      BY <3>2 DEF Mine
    <3>4. k = AttemptIndex(o)
      BY <3>3, PermitNumbered
    <3>5. Recorded(<<o, k>>, {"ready"})' <=> Recorded(<<o, k>>, {"ready"})
      BY <3>1 DEF Disable, Recorded, Names
    <3> QED BY <2>1, <3>2, <3>4, <3>5
  <2> QED BY <2>2, <2>3
<1>3. ASSUME NEW c \in Controller, NEW o \in Order, NEW k \in Nat \ {0},
             worker'[c][o].at \in {"reserved", "claimed"} \/ worker'[c][o].permit,
             worker'[c][o].index = k
      PROVE  <<o, k>> \notin cut'
  <2>1. cut' = cut /\ worker[c][o].index = k
    BY <1>1, <1>3, CutKept, PermitFrom
  <2>2. AttemptIndex(o) \in Nat
    BY <1>1, CountGrows
  <2>3. CASE worker[c][o].at \in {"reserved", "claimed"} \/ worker[c][o].permit
    BY <2>1, <2>3 DEF CutInv
  <2>4. CASE worker[c][o].index = AttemptIndex(o) + 1
    <3>1. <<o, k>> \in cut => k <= AttemptIndex(o)
      BY DEF CutInv
    <3> QED BY <2>1, <2>2, <2>4, <3>1
  <2> QED BY <1>3, <2>3, <2>4, PermitFrom
<1> QED BY <1>2, <1>3 DEF CutInv

\* Once the operator disabled the control, no attempt it caught before
\* readiness becomes ready, even if the control is enabled again: its permit
\* is gone, and a later permit is for a later attempt.
THEOREM Fenced == Spec => []DisabledNeverReady
<1>1. Init => CutInv
  <2> SUFFICES ASSUME Init PROVE CutInv
    OBVIOUS
  <2> QED BY DEF Init, CutInv, NoThread
<1>2. TypeInv /\ CutInv => DisabledNeverReady
  <2> SUFFICES ASSUME TypeInv, CutInv, NEW a \in cut PROVE ~Recorded(a, {"ready"})
    BY DEF DisabledNeverReady
  <2>1. a[1] \in Order /\ a[2] \in Nat \ {0} /\ a = <<a[1], a[2]>>
    BY DEF TypeInv, Attempt
  <2> QED BY <2>1 DEF CutInv
<1> QED BY <1>1, <1>2, TypesHold, StartInvHolds, CutStep, PTL DEF Spec

-----------------------------------------------------------------------------
(* Claims are released.                                                     *)

\* Where a thread has claims, and where it has the repository's.
Holds(c, o) ==
    LET t == worker[c][o] IN
    /\ t.at \in {"none", "assigned", "begun", "held"} => t.acquired = {}
    /\ t.at \in {"prepared", "running", "executed"} => "repository" \in t.acquired

\* A row of the order is the thread's, or was left, or was there before.
Accounted(c, o) ==
    \A k \in Kinds : <<k, o>> \in claims' =>
        \/ k \in worker'[c][o].acquired
        \/ o \in abandoned'
        \/ <<k, o>> \in claims /\ k \notin worker[c][o].acquired

\* What a step of a thread does to claims and to what it knows of them.
LEMMA ThreadHolds ==
    ASSUME TypeInv, NEW c \in Controller, NEW o \in Order, Dispatch(c, o), Holds(c, o)
    PROVE  /\ Holds(c, o)'
           /\ Accounted(c, o)
           /\ \A k \in Kinds, p \in Order \ {o} : <<k, p>> \in claims' => <<k, p>> \in claims
<1> DEFINE Goal == /\ Holds(c, o)'
                   /\ Accounted(c, o)
                   /\ \A k \in Kinds, p \in Order \ {o} : <<k, p>> \in claims' => <<k, p>> \in claims
<1>1. worker \in [Controller -> [Order -> ThreadRow]] /\ worker[c][o] \in ThreadRow
  BY DEF TypeInv
<1>2. ASSUME claims' = claims \/ claims' = claims \cup {<<"repository", o>>},
             claims' = claims \/ worker[c][o].at = "executed",
             worker'[c][o].acquired = worker[c][o].acquired,
             worker'[c][o].at \in {"none", "assigned", "begun", "held"} =>
                 worker[c][o].at \in {"none", "assigned", "begun", "held"},
             worker'[c][o].at \in {"prepared", "running", "executed"} =>
                 worker[c][o].at \in {"prepared", "running", "executed"}
      PROVE  Goal
  BY <1>2 DEF Holds, Accounted
<1>3. ASSUME NEW from \in SUBSET Phase, NEW to \in Phase, Step(c, o, from, to)
      PROVE  /\ worker[c][o].at \in from
             /\ worker'[c][o].at = to
             /\ worker'[c][o].acquired = worker[c][o].acquired
  <2>1. worker[c][o].at \in from /\ worker'[c][o] = [worker[c][o] EXCEPT !.at = to]
    BY <1>3, Stepped
  <2> QED BY <1>1, <2>1 DEF ThreadRow
<1>4. ASSUME NEW kind \in Kinds, NEW from \in Phase, NEW to \in Phase \ {"none", "assigned", "begun", "held"},
             Acquire(c, o, kind, from, to),
             to \in {"prepared", "running", "executed"} => kind = "repository"
      PROVE  Goal
  <2>1. /\ worker'[c][o].at = to
        /\ worker'[c][o].acquired = worker[c][o].acquired \cup {kind}
        /\ claims' = claims \cup {<<kind, o>>}
    BY <1>1, <1>4 DEF Acquire, ThreadRow
  <2> QED BY <1>4, <2>1 DEF Holds, Accounted
<1>5. ASSUME worker'[c][o] = NoThread,
             \/ claims' = claims /\ worker[c][o].acquired = {}
             \/ claims' = claims \ {<<k, o>> : k \in worker[c][o].acquired}
      PROVE  Goal
  BY <1>5 DEF Holds, Accounted, NoThread
<1>6. CASE Skip(c, o)
  <2>1. Step(c, o, {"assigned"}, "none") /\ claims' = claims
    BY <1>6 DEF Skip
  <2> QED BY <2>1, <1>2, <1>3 DEF Phase
<1>7. CASE CalibrationRefused(c, o)
  <2>1. Step(c, o, {"assigned"}, "none") /\ claims' = claims
    BY <1>7 DEF CalibrationRefused
  <2> QED BY <2>1, <1>2, <1>3 DEF Phase
<1>8. CASE Reserve(c, o)
  <2>1. Step(c, o, {"begun"}, "reserved") /\ claims' = claims
    BY <1>8 DEF Reserve
  <2> QED BY <2>1, <1>2, <1>3 DEF Phase
<1>9. CASE ReserveRefused(c, o)
  <2>1. Step(c, o, {"begun"}, "held") /\ claims' = claims
    BY <1>9 DEF ReserveRefused
  <2> QED BY <2>1, <1>2, <1>3 DEF Phase
<1>10. CASE Launch(c, o)
  <2>1. Step(c, o, {"prepared"}, "running") /\ claims' = claims
    BY <1>10 DEF Launch
  <2> QED BY <2>1, <1>2, <1>3 DEF Phase
<1>11. CASE Executed(c, o)
  <2>1. Step(c, o, {"running"}, "executed") /\ claims' = claims
    BY <1>11 DEF Executed
  <2> QED BY <2>1, <1>2, <1>3 DEF Phase
<1>12. CASE Witness(c, o)
  <2>1. Step(c, o, {"executed"}, "witnessed") /\ claims' = claims \cup {<<"repository", o>>}
    BY <1>12 DEF Witness
  <2> QED BY <2>1, <1>2, <1>3 DEF Phase
<1>13. CASE Ready(c, o)
  <2>1. Step(c, o, {"witnessed"}, "ready") /\ claims' = claims
    BY <1>13 DEF Ready
  <2> QED BY <2>1, <1>2, <1>3 DEF Phase
<1>14. CASE Refuse(c, o)
  <2>1. Step(c, o, {"failed"}, "cleanup") /\ claims' = claims
    BY <1>14 DEF Refuse
  <2> QED BY <2>1, <1>2, <1>3 DEF Phase
<1>15. CASE Fail(c, o)
  <2>1. /\ \/ Step(c, o, {"begun", "reserved", "claimed", "permitted", "pathed"}, "failed")
           \/ Step(c, o, {"prepared", "running", "executed", "witnessed"}, "unwinding")
        /\ claims' = claims
    BY <1>15 DEF Fail
  <2> QED BY <2>1, <1>2, <1>3 DEF Phase
<1>16. CASE Begin(c, o) \/ IssuePermit(c, o) \/ RuntimeRefusal(c, o)
  <2>1. /\ claims' = claims
        /\ worker'[c][o].acquired = worker[c][o].acquired
        /\ \/ worker[c][o].at = "assigned" /\ worker'[c][o].at = "begun"
           \/ worker'[c][o].at \in {"permitted", "unwinding"}
    BY <1>1, <1>16 DEF Begin, IssuePermit, RuntimeRefusal, ThreadRow
  <2> QED BY <2>1, <1>2
<1>17. CASE Hold(c, o) \/ StartRefused(c, o)
  <2>1. /\ claims' = claims /\ worker'[c][o] = NoThread
        /\ worker[c][o].at \in {"held", "begun"}
    BY <1>1, <1>17 DEF Hold, StartRefused
  <2> QED BY <2>1, <1>5 DEF Holds
<1>18. CASE Cleanup(c, o)
  <2>1. worker'[c][o] = NoThread /\ claims' = claims \ {<<k, o>> : k \in worker[c][o].acquired}
    BY <1>1, <1>18 DEF Cleanup
  <2> QED BY <2>1, <1>5
<1>19. CASE AcquireSemantic(c, o)
  BY <1>4, <1>19 DEF AcquireSemantic, Kinds, Phase
<1>20. CASE AcquirePaths(c, o)
  BY <1>4, <1>20 DEF AcquirePaths, Kinds, Phase
<1>21. CASE Prepare(c, o)
  BY <1>4, <1>21 DEF Prepare, Kinds, Phase
<1>22. CASE ReleaseRepository(c, o)
  <2>1. /\ claims' = claims \ {<<"repository", o>>}
        /\ worker'[c][o].at \in {"cleanup", "failed"}
        /\ worker'[c][o].acquired = worker[c][o].acquired \ {"repository"}
    BY <1>1, <1>22 DEF ReleaseRepository, ThreadRow
  <2> QED BY <2>1 DEF Holds, Accounted
<1>23. CASE ReleaseRaises(c, o)
  <2>1. /\ claims' = claims /\ o \in abandoned'
        /\ worker'[c][o].at = "failed"
    BY <1>1, <1>23 DEF ReleaseRaises, ThreadRow
  <2> QED BY <2>1 DEF Holds, Accounted
<1> QED BY <1>6, <1>7, <1>8, <1>9, <1>10, <1>11, <1>12, <1>13, <1>14, <1>15, <1>16, <1>17, <1>18,
           <1>19, <1>20, <1>21, <1>22, <1>23 DEF Dispatch

\* Threads know what they hold, and every live row is known or was left.
LeakInv ==
    /\ \A c \in Controller, o \in Order : Holds(c, o)
    /\ NoLeak

\* A thread that goes away holds nothing, unless it crashes.
LEMMA LeakStep == TypeInv /\ LeaseInv /\ LeakInv /\ [Next]_vars => LeakInv'
<1> SUFFICES ASSUME TypeInv, LeaseInv, LeakInv, [Next]_vars PROVE LeakInv'
  OBVIOUS
<1>1. ASSUME NEW c \in Controller, NEW o \in Order, Dispatch(c, o)
      PROVE  LeakInv'
  <2>1. /\ Holds(c, o)'
        /\ Accounted(c, o)
        /\ \A k \in Kinds, p \in Order \ {o} : <<k, p>> \in claims' => <<k, p>> \in claims
    BY <1>1, ThreadHolds DEF LeakInv
  <2>2. \A d \in Controller, p \in Order : d # c \/ p # o => worker'[d][p] = worker[d][p]
    BY <1>1, ThreadStep DEF Elsewhere
  <2>3. abandoned \subseteq abandoned'
    BY <1>1, ThreadClaims
  <2>4. ASSUME NEW d \in Controller, NEW p \in Order
        PROVE  Holds(d, p)'
    BY <2>1, <2>2, <2>4 DEF LeakInv, Holds
  <2>5. ASSUME NEW k \in Kinds, NEW p \in Order, <<k, p>> \in claims'
        PROVE  (\E d \in Controller : k \in worker'[d][p].acquired) \/ p \in abandoned'
    BY <2>1, <2>2, <2>3, <2>5 DEF LeakInv, NoLeak, Accounted
  <2> QED BY <2>4, <2>5 DEF LeakInv, NoLeak
<1>2. ASSUME NEW c \in Controller, NEW S \in SUBSET Order, Plan(c, S)
      PROVE  LeakInv'
  <2>1. \A d \in Controller, o \in Order : worker[d][o].acquired = {}
    BY <1>2, NoThreads DEF Plan, LeakInv, Holds
  <2>2. ASSUME NEW d \in Controller, NEW o \in Order
        PROVE  worker'[d][o].acquired = {} /\ worker'[d][o].at \in {"none", "assigned"}
    <3>1. worker[d][o].at = "none"
      BY <1>2, NoThreads DEF Plan
    <3> QED BY <1>2, <2>1, <3>1 DEF Plan, TypeInv, NoThread
  <2>3. claims' = claims /\ abandoned' = abandoned
    BY <1>2 DEF Plan, history
  <2> QED BY <2>1, <2>2, <2>3 DEF LeakInv, NoLeak, Holds
<1>3. ASSUME NEW c \in Controller, Crash(c)
      PROVE  LeakInv'
  <2>1. ASSUME NEW o \in Order
        PROVE  worker'[c][o] = NoThread /\ \A d \in Controller \ {c} : worker'[d][o] = worker[d][o]
    BY <1>3 DEF Crash, TypeInv
  <2>2. claims' = claims /\ abandoned' = abandoned \cup {o \in Order : worker[c][o].acquired # {}}
    BY <1>3 DEF Crash
  <2> QED BY <2>1, <2>2 DEF LeakInv, NoLeak, Holds, NoThread
<1>4. CASE Disable
  <2>1. \A d \in Controller, p \in Order : /\ worker'[d][p].at = worker[d][p].at
                                           /\ worker'[d][p].acquired = worker[d][p].acquired
    BY <1>4, Disabled
  <2>2. claims' = claims /\ abandoned' = abandoned
    BY <1>4 DEF Disable
  <2> QED BY <2>1, <2>2 DEF LeakInv, NoLeak, Holds
<1>5. CASE UNCHANGED <<worker, abandoned>> /\ claims' \subseteq claims
  BY <1>5 DEF LeakInv, NoLeak, Holds
<1>6. \/ \E c \in Controller, o \in Order : Dispatch(c, o)
      \/ \E c \in Controller, S \in SUBSET Order : Plan(c, S)
      \/ \E c \in Controller : Crash(c)
      \/ Disable
      \/ UNCHANGED <<worker, abandoned>> /\ claims' \subseteq claims
  BY NextIs DEF Cancel, TakeLease, Acknowledge, Examine, Judge, Quiet, history
<1> QED BY <1>1, <1>2, <1>3, <1>4, <1>5, <1>6

\* No path through dispatch forgets a claim: a live row belongs to a thread
\* that will release it, or was left by a crash or a release that failed.
THEOREM Leak == Spec => []NoLeak
<1>1. Init => LeakInv
  <2> SUFFICES ASSUME Init PROVE LeakInv
    OBVIOUS
  <2> QED BY DEF Init, LeakInv, NoLeak, Holds, NoThread
<1>2. LeakInv => NoLeak
  BY DEF LeakInv
<1> QED BY <1>1, <1>2, TypesHold, StartInvHolds, LeakStep, PTL DEF Spec, StartInv

-----------------------------------------------------------------------------
(* One outcome of an attempt.                                               *)

\* What a reviewer is about to judge has no verdict.
JudgeInv ==
    /\ \A r \in Reviewer, o \in Order, k \in Nat \ {0} :
          <<o, k>> \in review[r] => ~Recorded(<<o, k>>, Verdict)
    /\ OneOutcome

\* How an attempt comes to be judged.
LEMMA ReviewFrom ==
    ASSUME TypeInv, [Next]_vars, NEW r \in Reviewer, NEW a \in review'[r]
    PROVE  /\ \A v \in Verdict : ~Judge(r, v)
           /\ a \in review[r] \/ (Recorded(a, {"ready"}) /\ ~Recorded(a, Verdict))
<1>1. \A v \in Verdict : ~Judge(r, v)
  BY DEF Judge, TypeInv
<1>2. CASE review' = review
  BY <1>1, <1>2
<1>3. CASE \E s \in Reviewer, b \in Attempt : Examine(s, b)
  BY <1>1, <1>3 DEF Examine, TypeInv
<1>4. CASE \E s \in Reviewer, v \in Verdict : Judge(s, v)
  BY <1>1, <1>4 DEF Judge, TypeInv
<1>5. \A c \in Controller, o \in Order : Dispatch(c, o) => review' = review
  BY ThreadStep DEF Elsewhere
<1> QED BY <1>2, <1>3, <1>4, <1>5, NextIs
     DEF Cancel, Plan, TakeLease, Crash, Acknowledge, Disable, Quiet

\* A single reviewer's check is still right when it judges.
LEMMA JudgeStep ==
    ASSUME \A r, s \in Reviewer : r = s
    PROVE  TypeInv /\ JudgeInv /\ [Next]_vars => JudgeInv'
<1> SUFFICES ASSUME TypeInv, JudgeInv, [Next]_vars PROVE JudgeInv'
  OBVIOUS
<1>1. OneOutcome'
  <2>1. CASE journal' = journal
    BY <2>1 DEF JudgeInv, OneOutcome
  <2>2. ASSUME NEW kind \in EventKind, NEW o \in Order, NEW index \in Nat, NEW ack \in 0..MaxAcks,
               Write(kind, o, index, ack), Source(kind, o, index)
        PROVE  OneOutcome'
    <3> DEFINE n == Len(journal)
    <3>1. /\ n \in Nat /\ DOMAIN journal = 1..n /\ DOMAIN journal' = 1..(n + 1)
          /\ \A i \in 1..n : journal'[i] = journal[i]
          /\ journal'[n + 1] = [kind |-> kind, order |-> o, index |-> index, ack |-> ack]
      BY <2>2, Written DEF TypeInv
    <3>2. ASSUME NEW i \in 1..n, journal[i].kind \in Verdict, kind \in Verdict
          PROVE  <<journal[i].order, journal[i].index>> # <<o, index>>
      <4>1. PICK r \in Reviewer : \E a \in review[r] : a[1] = o /\ a[2] = index
        BY <2>2, <3>2 DEF Source, Verdict
      <4>2. PICK a \in review[r] : a[1] = o /\ a[2] = index /\ a \in Attempt
        BY <4>1 DEF TypeInv
      <4>3. a = <<o, index>> /\ index \in Nat \ {0}
        BY <4>2 DEF Attempt
      <4>4. ~Recorded(<<o, index>>, Verdict)
        BY <4>2, <4>3 DEF JudgeInv
      <4> QED BY <3>1, <3>2, <4>4 DEF Recorded, Names
    <3>3. journal'[n + 1].kind = kind /\ journal'[n + 1].order = o /\ journal'[n + 1].index = index
      BY <3>1
    <3> SUFFICES ASSUME NEW i \in 1..(n + 1), NEW j \in 1..(n + 1), i # j,
                        journal'[i].kind \in Verdict, journal'[j].kind \in Verdict
                 PROVE  <<journal'[i].order, journal'[i].index>> # <<journal'[j].order, journal'[j].index>>
      BY <3>1 DEF OneOutcome
    <3>4. CASE i \in 1..n /\ j \in 1..n
      BY <3>1, <3>4 DEF JudgeInv, OneOutcome
    <3>5. CASE i \in 1..n /\ j = n + 1
      BY <3>1, <3>2, <3>3, <3>5
    <3>6. CASE i = n + 1 /\ j \in 1..n
      BY <3>1, <3>2, <3>3, <3>6
    <3> HIDE DEF n
    <3> QED BY <3>1, <3>4, <3>5, <3>6
  <2> QED BY <2>1, <2>2, Writes
<1>2. ASSUME NEW r \in Reviewer, NEW o \in Order, NEW k \in Nat \ {0}, <<o, k>> \in review'[r]
      PROVE  ~Recorded(<<o, k>>, Verdict)'
  <2>1. ~\E s \in Reviewer, v \in Verdict : Judge(s, v)
    BY <1>2, ReviewFrom
  <2>2. ~Recorded(<<o, k>>, Verdict)
    BY <1>2, ReviewFrom DEF JudgeInv
  <2> QED BY <2>1, <2>2, RecordedStep
<1> QED BY <1>1, <1>2 DEF JudgeInv

\* With one reviewer an attempt gets at most one terminal outcome.  Two of
\* them can both find that there is none yet: see DispatchReview.
THEOREM OneJudge ==
    ASSUME \A r, s \in Reviewer : r = s
    PROVE  Spec => []OneOutcome
<1>1. Init => JudgeInv
  <2> SUFFICES ASSUME Init PROVE JudgeInv
    OBVIOUS
  <2> QED BY DEF Init, JudgeInv, OneOutcome
<1>2. TypeInv /\ JudgeInv /\ [Next]_vars => JudgeInv'
  BY JudgeStep
<1>3. JudgeInv => OneOutcome
  BY DEF JudgeInv
<1> QED BY <1>1, <1>2, <1>3, TypesHold, PTL DEF Spec

-----------------------------------------------------------------------------
(* The way of a thread with what it appends, if releases do not fail.       *)

BeforeLaunch == {"reserved", "claimed", "permitted", "pathed", "prepared"}

Path(c, o) ==
    LET at == worker[c][o].at
        to == worker'[c][o].at
        k  == worker[c][o].index
    IN  \/ /\ to \in {"none", "begun", "held"}
           /\ journal' = journal \/ \E kind \in {"held", "retryable"} : Write(kind, o, 0, 0)
        \/ /\ worker'[c][o].index = k
           /\ journal' = journal
           /\ \/ at = "begun" /\ to = "failed"
              \/ {at, to} \subseteq BeforeLaunch
              \/ at = "executed" /\ to = "witnessed"
              \/ at \in Attempting \ {"ready"} /\ to \in {"unwinding", "failed"}
              \/ at = "ready" /\ to = "cleanup"
        \/ /\ worker'[c][o].index = k
           /\ \/ at = "begun" /\ to = "reserved" /\ Reserve(c, o)
              \/ at = "prepared" /\ to = "running" /\ Write("launching", o, k, 0)
              \/ at = "running" /\ to = "executed" /\ Write("executed", o, k, 0)
              \/ at = "witnessed" /\ to = "ready" /\ Write("ready", o, k, 0)
              \/ /\ at = "failed" /\ to = "cleanup"
                 /\ \E kind \in {"refused", "retryable"} : Write(kind, o, k, 0)

\* Every step of a thread is one of these.
LEMMA ThreadPath ==
    ASSUME TypeInv, ~ReleaseFails, NEW c \in Controller, NEW o \in Order, Dispatch(c, o)
    PROVE  Path(c, o)
<1>1. worker \in [Controller -> [Order -> ThreadRow]] /\ worker[c][o] \in ThreadRow
  BY DEF TypeInv
<1>2. ASSUME NEW from \in SUBSET Phase, NEW to \in Phase, Step(c, o, from, to)
      PROVE  /\ worker[c][o].at \in from
             /\ worker'[c][o].at = to
             /\ worker'[c][o].index = worker[c][o].index
  <2>1. worker[c][o].at \in from /\ worker'[c][o] = [worker[c][o] EXCEPT !.at = to]
    BY <1>2, Stepped
  <2> QED BY <1>1, <2>1 DEF ThreadRow
<1>3. CASE Skip(c, o)
  <2>1. Step(c, o, {"assigned"}, "none") /\ journal' = journal
    BY <1>3 DEF Skip
  <2> QED BY <1>3, <2>1, <1>2 DEF Path, Phase
<1>4. CASE CalibrationRefused(c, o)
  <2>1. Step(c, o, {"assigned"}, "none") /\ Write("retryable", o, 0, 0)
    BY <1>4 DEF CalibrationRefused
  <2> QED BY <1>4, <2>1, <1>2 DEF Path, Phase
<1>5. CASE Reserve(c, o)
  <2>1. Step(c, o, {"begun"}, "reserved")
    BY <1>5 DEF Reserve
  <2> QED BY <1>5, <2>1, <1>2 DEF Path, Phase
<1>6. CASE ReserveRefused(c, o)
  <2>1. Step(c, o, {"begun"}, "held") /\ journal' = journal
    BY <1>6 DEF ReserveRefused
  <2> QED BY <1>6, <2>1, <1>2 DEF Path, Phase
<1>7. CASE Launch(c, o)
  <2>1. Step(c, o, {"prepared"}, "running") /\ Write("launching", o, worker[c][o].index, 0)
    BY <1>7 DEF Launch
  <2> QED BY <1>7, <2>1, <1>2 DEF Path, Phase
<1>8. CASE Executed(c, o)
  <2>1. Step(c, o, {"running"}, "executed") /\ Write("executed", o, worker[c][o].index, 0)
    BY <1>8 DEF Executed
  <2> QED BY <1>8, <2>1, <1>2 DEF Path, Phase
<1>9. CASE Witness(c, o)
  <2>1. Step(c, o, {"executed"}, "witnessed") /\ journal' = journal
    BY <1>9 DEF Witness
  <2> QED BY <1>9, <2>1, <1>2 DEF Path, Phase
<1>10. CASE Ready(c, o)
  <2>1. Step(c, o, {"witnessed"}, "ready") /\ Write("ready", o, worker[c][o].index, 0)
    BY <1>10 DEF Ready
  <2> QED BY <1>10, <2>1, <1>2 DEF Path, Phase
<1>11. CASE Refuse(c, o)
  <2>1. /\ Step(c, o, {"failed"}, "cleanup")
        /\ \E kind \in {"refused", "retryable"} : Write(kind, o, worker[c][o].index, 0)
    BY <1>11 DEF Refuse
  <2> QED BY <2>1, <1>2 DEF Path, Phase
<1>12. CASE Fail(c, o)
  <2>1. /\ \/ Step(c, o, {"begun", "reserved", "claimed", "permitted", "pathed"}, "failed")
           \/ Step(c, o, {"prepared", "running", "executed", "witnessed"}, "unwinding")
        /\ journal' = journal
    BY <1>12 DEF Fail
  <2> QED BY <2>1, <1>2 DEF Path, Phase, Attempting
<1>13. CASE Begin(c, o)
  BY <1>13, <1>1 DEF Begin, Path, ThreadRow
<1>14. CASE Hold(c, o)
  BY <1>14, <1>1 DEF Hold, Path, ThreadRow, NoThread
<1>15. CASE StartRefused(c, o)
  BY <1>15, <1>1 DEF StartRefused, Path, ThreadRow, NoThread
<1>16. CASE Cleanup(c, o)
  BY <1>16, <1>1 DEF Cleanup, Path, ThreadRow, NoThread
<1>17. CASE IssuePermit(c, o)
  BY <1>17, <1>1 DEF IssuePermit, Path, ThreadRow, BeforeLaunch
<1>18. CASE RuntimeRefusal(c, o)
  BY <1>18, <1>1 DEF RuntimeRefusal, Path, ThreadRow, Attempting
<1>19. CASE AcquireSemantic(c, o)
  BY <1>19, <1>1 DEF AcquireSemantic, Acquire, Path, ThreadRow, BeforeLaunch
<1>20. CASE AcquirePaths(c, o)
  BY <1>20, <1>1 DEF AcquirePaths, Acquire, Path, ThreadRow, BeforeLaunch
<1>21. CASE Prepare(c, o)
  BY <1>21, <1>1 DEF Prepare, Acquire, Path, ThreadRow, BeforeLaunch
<1>22. CASE ReleaseRepository(c, o)
  BY <1>22, <1>1 DEF ReleaseRepository, Path, ThreadRow, Attempting
<1> QED BY <1>3, <1>4, <1>5, <1>6, <1>7, <1>8, <1>9, <1>10, <1>11, <1>12, <1>13, <1>14, <1>15,
           <1>16, <1>17, <1>18, <1>19, <1>20, <1>21, <1>22 DEF Dispatch, ReleaseRaises

-----------------------------------------------------------------------------
(* The life of an attempt, as the journal tells it.                         *)

\* The status is the kind of the attempt's last event.
LEMMA StatusIs ==
    ASSUME journal \in Seq(Row), NEW a
    PROVE  \/ /\ StatusOf(a) = "none"
              /\ \A i \in DOMAIN journal : ~Names(i, a)
           \/ \E i \in DOMAIN journal :
                 /\ Names(i, a) /\ journal[i].kind = StatusOf(a)
                 /\ \A j \in DOMAIN journal : Names(j, a) => j <= i
<1> DEFINE named == {i \in DOMAIN journal : Names(i, a)}
<1>1. StatusOf(a) = IF named = {} THEN "none" ELSE journal[Last(named)].kind
  BY DEF StatusOf
<1>2. CASE named = {}
  BY <1>1, <1>2
<1>3. CASE named # {}
  <2>1. named \in SUBSET DOMAIN journal /\ \A i \in named : Names(i, a)
    OBVIOUS
  <2>2. \A i \in DOMAIN journal : Names(i, a) => i \in named
    OBVIOUS
  <2>3. Last(named) \in named /\ \A j \in named : j <= Last(named)
    <3> HIDE DEF named
    <3> QED BY <1>3, <2>1, LastEvent
  <2> QED BY <1>1, <1>3, <2>1, <2>2, <2>3
<1> QED BY <1>2, <1>3

\* Events that name an attempt are events of an attempt; one that is under way
\* or ended was started; it is judged after it was ready, and ready after it
\* was started.
JournalInv ==
    /\ \A o \in Order, k \in Nat \ {0} :
          LET a == <<o, k>>
              s == StatusOf(a)
          IN  /\ ~Recorded(a, {"held", "ack"})
              /\ s \notin {"none", "refused", "retryable"} => k <= AttemptIndex(o)
              /\ Recorded(a, {"ready"}) => s \in {"ready"} \cup Verdict
              /\ s \in Verdict => Recorded(a, {"ready"})
    /\ \A i, j \in DOMAIN journal :
          /\ journal[i].kind = "started"
          /\ journal[j].kind = "ready"
          /\ journal[i].order = journal[j].order
          /\ journal[i].index = journal[j].index
          => i < j
    /\ \A i \in DOMAIN journal : journal[i].kind = "ready" => journal[i].index # 0

\* What may be recorded of an attempt next.
MayEnter(o, k, kind) ==
    LET a == <<o, k>>
        s == StatusOf(a)
    IN  \/ kind = "started" /\ k = AttemptIndex(o) + 1 /\ LawReserves(o)
        \/ kind = "launching" /\ s = "started"
        \/ kind = "executed" /\ s = "launching"
        \/ kind = "ready" /\ s = "executed"
        \/ kind \in {"refused", "retryable"} /\ (s \in Running \/ k = AttemptIndex(o) + 1)
        \/ kind = "cancelled" /\ s \in Running
        \/ kind \in Verdict /\ s \in {"ready"} \cup Verdict /\ Recorded(a, {"ready"})

\* Such an event keeps the journal in order.
LEMMA Entered ==
    ASSUME TypeInv, JournalInv,
           NEW o \in Order, NEW k \in Nat \ {0}, NEW kind \in EventKind, NEW ack \in 0..MaxAcks,
           Write(kind, o, k, ack), MayEnter(o, k, kind)
    PROVE  JournalInv'
<1> DEFINE n == Len(journal)
<1>1. /\ n \in Nat /\ DOMAIN journal = 1..n /\ DOMAIN journal' = 1..(n + 1)
      /\ \A i \in 1..n : journal'[i] = journal[i]
      /\ journal'[n + 1] = [kind |-> kind, order |-> o, index |-> k, ack |-> ack]
  BY Written DEF TypeInv
<1>2. ASSUME NEW p \in Order, NEW m \in Nat \ {0}
      PROVE  /\ StatusOf(<<p, m>>)' = IF p = o /\ m = k THEN kind ELSE StatusOf(<<p, m>>)
             /\ \A K : Recorded(<<p, m>>, K)' <=> Recorded(<<p, m>>, K) \/ (p = o /\ m = k /\ kind \in K)
             /\ AttemptIndex(p) \in Nat
             /\ AttemptIndex(p)' = IF kind = "started" /\ p = o THEN AttemptIndex(p) + 1 ELSE AttemptIndex(p)
  <2>1. journal \in Seq(Row) /\ <<p, m>>[1] = p /\ <<p, m>>[2] = m
    BY DEF TypeInv
  <2>2. StatusOf(<<p, m>>)' = IF p = o /\ m = k THEN kind ELSE StatusOf(<<p, m>>)
    BY <2>1, StatusAfter
  <2>3. \A K : Recorded(<<p, m>>, K)' <=> Recorded(<<p, m>>, K) \/ (p = o /\ m = k /\ kind \in K)
    BY <2>1, RecordedAfter
  <2> QED BY <2>1, <2>2, <2>3, Counted, CountAfter
<1>3. ASSUME NEW p \in Order, NEW m \in Nat \ {0}
      PROVE  /\ ~Recorded(<<p, m>>, {"held", "ack"})'
             /\ StatusOf(<<p, m>>)' \notin {"none", "refused", "retryable"} => m <= AttemptIndex(p)'
             /\ Recorded(<<p, m>>, {"ready"})' => StatusOf(<<p, m>>)' \in {"ready"} \cup Verdict
             /\ StatusOf(<<p, m>>)' \in Verdict => Recorded(<<p, m>>, {"ready"})'
  <2>1. /\ ~Recorded(<<p, m>>, {"held", "ack"})
        /\ StatusOf(<<p, m>>) \notin {"none", "refused", "retryable"} => m <= AttemptIndex(p)
        /\ Recorded(<<p, m>>, {"ready"}) => StatusOf(<<p, m>>) \in {"ready"} \cup Verdict
        /\ StatusOf(<<p, m>>) \in Verdict => Recorded(<<p, m>>, {"ready"})
    BY DEF JournalInv
  <2>2. CASE p = o /\ m = k
    BY <1>2, <2>1, <2>2 DEF MayEnter, Running, Verdict
  <2>3. CASE ~(p = o /\ m = k)
    BY <1>2, <2>1, <2>3
  <2> QED BY <2>2, <2>3
<1>4. ASSUME NEW i \in 1..(n + 1), NEW j \in 1..(n + 1),
             journal'[i].kind = "started", journal'[j].kind = "ready",
             journal'[i].order = journal'[j].order, journal'[i].index = journal'[j].index
      PROVE  i < j
  <2>1. journal'[n + 1].kind = kind /\ journal'[n + 1].order = o /\ journal'[n + 1].index = k
    BY <1>1
  <2>2. CASE i \in 1..n /\ j \in 1..n
    BY <1>1, <1>4, <2>2 DEF JournalInv
  <2>3. CASE i = n + 1 /\ j \in 1..n
    <3>1. Recorded(<<o, k>>, {"ready"}) /\ kind = "started"
      BY <1>1, <1>4, <2>1, <2>3 DEF Recorded, Names
    <3>2. k <= AttemptIndex(o) /\ k = AttemptIndex(o) + 1 /\ AttemptIndex(o) \in Nat
      BY <1>2, <3>1 DEF JournalInv, MayEnter, Verdict
    <3> QED BY <3>2
  <2>4. CASE i = n + 1 /\ j = n + 1
    BY <1>4, <2>1, <2>4
  <2>5. CASE i \in 1..n /\ j = n + 1
    BY <1>1, <2>5
  <2> QED BY <1>1, <2>2, <2>3, <2>4, <2>5
<1>5. \A i \in 1..(n + 1) : journal'[i].kind = "ready" => journal'[i].index # 0
  <2>1. journal'[n + 1].index = k
    BY <1>1
  <2> QED BY <1>1, <2>1 DEF JournalInv
<1> QED BY <1>1, <1>3, <1>4, <1>5 DEF JournalInv

\* So does one that names no attempt.
LEMMA EnteredOther ==
    ASSUME TypeInv, JournalInv, NEW o \in Order, NEW kind \in {"held", "retryable", "ack"},
           NEW ack \in 0..MaxAcks, Write(kind, o, 0, ack)
    PROVE  /\ JournalInv'
           /\ \A p \in Order, m \in Nat \ {0} : /\ StatusOf(<<p, m>>)' = StatusOf(<<p, m>>)
                                                /\ AttemptIndex(p)' = AttemptIndex(p)
<1> DEFINE n == Len(journal)
<1>1. kind \in EventKind /\ journal \in Seq(Row)
  BY DEF EventKind, TypeInv
<1>2. /\ n \in Nat /\ DOMAIN journal = 1..n /\ DOMAIN journal' = 1..(n + 1)
      /\ \A i \in 1..n : journal'[i] = journal[i]
      /\ journal'[n + 1] = [kind |-> kind, order |-> o, index |-> 0, ack |-> ack]
  BY <1>1, Written
<1>3. ASSUME NEW p \in Order, NEW m \in Nat \ {0}
      PROVE  /\ StatusOf(<<p, m>>)' = StatusOf(<<p, m>>)
             /\ \A K : Recorded(<<p, m>>, K)' <=> Recorded(<<p, m>>, K)
             /\ AttemptIndex(p)' = AttemptIndex(p)
  <2>1. <<p, m>>[2] # 0
    OBVIOUS
  <2> QED BY <1>1, <2>1, StatusAfter, RecordedAfter, CountAfter
<1>4. ASSUME NEW i \in 1..(n + 1), NEW j \in 1..(n + 1),
             journal'[i].kind = "started", journal'[j].kind = "ready",
             journal'[i].order = journal'[j].order, journal'[i].index = journal'[j].index
      PROVE  i < j
  <2>1. journal'[n + 1].kind = kind
    BY <1>2
  <2>2. i \in 1..n /\ j \in 1..n
    BY <1>2, <1>4, <2>1
  <2> QED BY <1>2, <1>4, <2>2 DEF JournalInv
<1>5. \A i \in 1..(n + 1) : journal'[i].kind = "ready" => journal'[i].index # 0
  <2>1. journal'[n + 1].kind = kind
    BY <1>2
  <2> QED BY <1>2, <2>1 DEF JournalInv
<1> QED BY <1>2, <1>3, <1>4, <1>5 DEF JournalInv

-----------------------------------------------------------------------------
(* Threads, reconciliation and reviewers agree with the journal.            *)

\* What the journal says of the attempt of a thread, by the thread's place.
Follows(at, status) ==
    /\ at \in BeforeLaunch => status = "started"
    /\ at = "running" => status = "launching"
    /\ at \in {"executed", "witnessed"} => status = "executed"
    /\ at = "ready" => status \in {"ready"} \cup Verdict
    /\ at \in {"unwinding", "failed"} => status \in Running

WorkInv ==
    /\ \A c \in Controller, o \in Order, k \in Nat \ {0} :
          worker[c][o].index = k /\ k <= AttemptIndex(o) => Follows(worker[c][o].at, StatusOf(<<o, k>>))
    /\ \A c \in Controller, o \in Order, k \in Nat \ {0} :
          <<o, k>> \in orphans[c] => StatusOf(<<o, k>>) \in Running
    /\ \A r \in Reviewer, o \in Order, k \in Nat \ {0} :
          <<o, k>> \in review[r] => Recorded(<<o, k>>, {"ready"})

StatusInv == StartInv /\ PastInv /\ JournalInv /\ WorkInv

\* Nothing is recorded of an attempt out of order.
LEMMA Enters ==
    ASSUME StatusInv, ~ReleaseFails, [Next]_vars
    PROVE  \/ journal' = journal
           \/ \E o \in Order, kind \in {"held", "retryable", "ack"}, ack \in 0..MaxAcks :
                 Write(kind, o, 0, ack)
           \/ \E o \in Order, k \in Nat \ {0}, kind \in EventKind, ack \in 0..MaxAcks :
                 Write(kind, o, k, ack) /\ MayEnter(o, k, kind)
<1> DEFINE Goal ==
           \/ journal' = journal
           \/ \E o \in Order, kind \in {"held", "retryable", "ack"}, ack \in 0..MaxAcks :
                 Write(kind, o, 0, ack)
           \/ \E o \in Order, k \in Nat \ {0}, kind \in EventKind, ack \in 0..MaxAcks :
                 Write(kind, o, k, ack) /\ MayEnter(o, k, kind)
<1>1. TypeInv /\ 0 \in 0..MaxAcks
  BY DispatchAssumption DEF StatusInv, StartInv
<1>2. ASSUME NEW c \in Controller, NEW o \in Order, Dispatch(c, o)
      PROVE  Goal
  <2> DEFINE k == worker[c][o].index
  <2>1. Path(c, o)
    BY <1>1, <1>2, ThreadPath
  <2>2. k \in Nat /\ AttemptIndex(o) \in Nat /\ ThreadNumbered(c, o)
    BY <1>1, Counted DEF TypeInv, ThreadRow, StatusInv, StartInv, NumberInv
  <2>3. ASSUME worker[c][o].at \in Past
        PROVE  /\ k \in Nat \ {0}
               /\ k <= AttemptIndex(o) => Follows(worker[c][o].at, StatusOf(<<o, k>>))
               /\ k <= AttemptIndex(o) \/ k = AttemptIndex(o) + 1
    BY <2>2, <2>3 DEF ThreadNumbered, StatusInv, PastInv, WorkInv, Past
  <2>4. CASE Reserve(c, o)
    <3>1. /\ worker[c][o].at = "begun" /\ k = AttemptIndex(o) + 1
          /\ \E ack \in 0..MaxAcks : Write("started", o, k, ack)
      BY <2>4, ReserveWrites DEF StatusInv
    <3>2. MayEnter(o, k, "started")
      BY <2>4, <3>1 DEF Reserve, MayEnter
    <3>3. k \in Nat \ {0} /\ "started" \in EventKind
      BY <2>2, <3>1 DEF EventKind, Running
    <3> HIDE DEF k
    <3> QED BY <3>1, <3>2, <3>3
  <2>5. CASE worker[c][o].at = "prepared" /\ Write("launching", o, k, 0)
    <3>1. k \in Nat \ {0} /\ MayEnter(o, k, "launching") /\ "launching" \in EventKind
      BY <2>2, <2>3, <2>5
         DEF Past, Attempting, ThreadNumbered, Follows, BeforeLaunch, MayEnter, EventKind, Running
    <3> HIDE DEF k
    <3> QED BY <1>1, <2>5, <3>1
  <2>6. CASE worker[c][o].at = "running" /\ Write("executed", o, k, 0)
    <3>1. k \in Nat \ {0} /\ MayEnter(o, k, "executed") /\ "executed" \in EventKind
      BY <2>2, <2>3, <2>6
         DEF Past, Attempting, ThreadNumbered, Follows, MayEnter, EventKind, Running
    <3> HIDE DEF k
    <3> QED BY <1>1, <2>6, <3>1
  <2>7. CASE worker[c][o].at = "witnessed" /\ Write("ready", o, k, 0)
    <3>1. k \in Nat \ {0} /\ MayEnter(o, k, "ready") /\ "ready" \in EventKind
      BY <2>2, <2>3, <2>7
         DEF Past, Attempting, ThreadNumbered, Follows, MayEnter, EventKind, Running
    <3> HIDE DEF k
    <3> QED BY <1>1, <2>7, <3>1
  <2>8. CASE /\ worker[c][o].at = "failed"
             /\ \E kind \in {"refused", "retryable"} : Write(kind, o, k, 0)
    <3>1. k \in Nat \ {0} /\ \A kind \in {"refused", "retryable"} : MayEnter(o, k, kind) /\ kind \in EventKind
      BY <2>2, <2>3, <2>8 DEF Past, Follows, MayEnter, EventKind
    <3> HIDE DEF k
    <3> QED BY <1>1, <2>8, <3>1
  <2>9. CASE \E kind \in {"held", "retryable"} : Write(kind, o, 0, 0)
    BY <1>1, <2>9
  <2> HIDE DEF Goal
  <2>10. journal' = journal => Goal
    BY DEF Goal
  <2> QED BY <2>1, <2>4, <2>5, <2>6, <2>7, <2>8, <2>9, <2>10 DEF Path
<1>3. ASSUME NEW c \in Controller, NEW a \in Attempt, Cancel(c, a)
      PROVE  Goal
  <2>1. /\ a \in orphans[c] /\ a[1] \in Order /\ a[2] \in Nat \ {0} /\ a = <<a[1], a[2]>>
        /\ Write("cancelled", a[1], a[2], 0)
    BY <1>1, <1>3, OtherWrites DEF Attempt
  <2>2. StatusOf(<<a[1], a[2]>>) \in Running
    BY <2>1 DEF StatusInv, WorkInv
  <2>3. MayEnter(a[1], a[2], "cancelled") /\ "cancelled" \in EventKind
    BY <2>2 DEF MayEnter, EventKind
  <2> QED BY <1>1, <2>1, <2>3
<1>4. ASSUME NEW r \in Reviewer, NEW v \in Verdict, Judge(r, v)
      PROVE  Goal
  <2>1. PICK a \in review[r] : a[1] \in Order /\ a[2] \in Nat \ {0} /\ Write(v, a[1], a[2], 0)
    BY <1>1, <1>4, OtherWrites
  <2>2. a = <<a[1], a[2]>>
    BY <1>1, <2>1 DEF TypeInv, Attempt
  <2>3. Recorded(<<a[1], a[2]>>, {"ready"})
    BY <2>1, <2>2 DEF StatusInv, WorkInv
  <2>4. MayEnter(a[1], a[2], v) /\ v \in EventKind
    BY <2>1, <2>3 DEF StatusInv, JournalInv, MayEnter, EventKind
  <2> QED BY <1>1, <2>1, <2>4
<1>5. ASSUME NEW o \in Order, Acknowledge(o)
      PROVE  Goal
  BY <1>1, <1>5, OtherWrites
<1>6. CASE journal' = journal
  BY <1>6
<1> QED BY <1>2, <1>3, <1>4, <1>5, <1>6, NextIs
     DEF Plan, TakeLease, Crash, Disable, Examine, Quiet

\* Reconciliation finds attempts that are under way as far as the journal says.
LEMMA OrphansRunning ==
    ASSUME TypeInv, JournalInv, NEW o \in Order, NEW k \in Nat \ {0}, <<o, k>> \in ExpiredAttempts
    PROVE  StatusOf(<<o, k>>) \in Running
<1> DEFINE a == <<o, k>>
           S == {i \in DOMAIN journal : journal[i].order = a[1] /\
                    journal[i].kind \in {"started", "ready", "refused", "retryable", "cancelled"}}
<1>1. S # {} /\ journal[Last(S)].kind = "started" /\ Names(Last(S), a)
  BY DEF ExpiredAttempts
<1>2. S \in SUBSET DOMAIN journal /\ \A i \in DOMAIN journal :
          /\ Names(i, a)
          /\ journal[i].kind \in {"started", "ready", "refused", "retryable", "cancelled"}
          => i \in S
  BY DEF Names
<1>3. Last(S) \in S /\ \A j \in S : j <= Last(S)
  <2> HIDE DEF S
  <2> QED BY <1>1, <1>2, LastEvent DEF TypeInv
<1> HIDE DEF S
<1>4. DOMAIN journal \subseteq Nat /\ \A i \in DOMAIN journal : journal[i].kind \in EventKind
  <2>1. journal \in Seq(Row)
    BY DEF TypeInv
  <2>2. DOMAIN journal = 1..Len(journal) /\ Len(journal) \in Nat /\ \A i \in DOMAIN journal : journal[i] \in Row
    BY <2>1
  <2> QED BY <2>2 DEF Row
<1>5. PICK i \in DOMAIN journal :
          /\ Names(i, a) /\ journal[i].kind = StatusOf(a)
          /\ \A j \in DOMAIN journal : Names(j, a) => j <= i
  BY <1>1, <1>2, <1>3, StatusIs DEF TypeInv
<1>6. Last(S) <= i
  BY <1>1, <1>2, <1>3, <1>5
<1>7. CASE journal[i].kind \in {"started", "ready", "refused", "retryable", "cancelled"}
  <2>1. i = Last(S)
    BY <1>2, <1>3, <1>4, <1>5, <1>6, <1>7
  <2> QED BY <1>1, <1>5, <2>1 DEF Running
<1>8. CASE journal[i].kind \in {"held", "ack"}
  BY <1>5, <1>8 DEF JournalInv, Recorded
<1>9. CASE journal[i].kind \in Verdict
  <2>1. PICK j \in DOMAIN journal : Names(j, a) /\ journal[j].kind = "ready"
    BY <1>5, <1>9 DEF JournalInv, Recorded
  <2>2. j \in S /\ Last(S) \in DOMAIN journal
    BY <1>2, <1>3, <2>1
  <2>3. Last(S) < j
    BY <1>1, <2>1, <2>2 DEF JournalInv, Names
  <2> QED BY <1>3, <1>4, <2>2, <2>3
<1>10. CASE journal[i].kind \in Running
  BY <1>5, <1>10
<1> QED BY <1>4, <1>7, <1>8, <1>9, <1>10 DEF EventKind

\* Whose step changes the status of an attempt.
LEMMA StatusStep ==
    ASSUME TypeInv, [Next]_vars, NEW o \in Order, NEW k \in Nat \ {0}
    PROVE  \/ StatusOf(<<o, k>>)' = StatusOf(<<o, k>>)
           \/ \E c \in Controller : Dispatch(c, o)
           \/ \E c \in Controller : Cancel(c, <<o, k>>)
           \/ \E r \in Reviewer, v \in Verdict :
                 Judge(r, v) /\ <<o, k>> \in review[r] /\ StatusOf(<<o, k>>)' = v
<1>1. CASE journal' = journal
  BY <1>1 DEF StatusOf, Names
<1>2. ASSUME NEW kind \in EventKind, NEW p \in Order, NEW m \in Nat, NEW ack \in 0..MaxAcks,
             Write(kind, p, m, ack), Source(kind, p, m), p = o, m = k
      PROVE  \/ \E c \in Controller : Dispatch(c, o)
             \/ \E c \in Controller : Cancel(c, <<o, k>>)
             \/ \E r \in Reviewer, v \in Verdict :
                   Judge(r, v) /\ <<o, k>> \in review[r] /\ StatusOf(<<o, k>>)' = v
  <2>1. CASE \E c \in Controller, a \in Attempt : Cancel(c, a) /\ a[1] = o /\ a[2] = k
    BY <2>1 DEF Attempt
  <2>2. CASE kind \in Verdict /\ \E r \in Reviewer : Judge(r, kind) /\ \E a \in review[r] : a[1] = o /\ a[2] = k
    <3>1. StatusOf(<<o, k>>)' = kind
      <4>1. journal \in Seq(Row) /\ <<o, k>>[1] = o /\ <<o, k>>[2] = k
        BY DEF TypeInv
      <4> QED BY <1>2, <4>1, StatusAfter
    <3>2. \A r \in Reviewer : \A a \in review[r] : a = <<a[1], a[2]>>
      BY DEF TypeInv, Attempt
    <3> QED BY <2>2, <3>1, <3>2
  <2> QED BY <1>2, <2>1, <2>2 DEF Source
<1>3. ASSUME NEW kind \in EventKind, NEW p \in Order, NEW m \in Nat, NEW ack \in 0..MaxAcks,
             Write(kind, p, m, ack), ~(p = o /\ m = k)
      PROVE  StatusOf(<<o, k>>)' = StatusOf(<<o, k>>)
  <2>1. journal \in Seq(Row) /\ <<o, k>>[1] = o /\ <<o, k>>[2] = k
    BY DEF TypeInv
  <2> QED BY <1>3, <2>1, StatusAfter
<1> QED BY <1>1, <1>2, <1>3, Writes

\* A thread that has taken a step is where the journal says.
LEMMA StepFollows ==
    ASSUME StatusInv, ~ReleaseFails, NEW c \in Controller, NEW o \in Order, Dispatch(c, o),
           NEW k \in Nat \ {0}, worker'[c][o].index = k, k <= AttemptIndex(o)'
    PROVE  Follows(worker'[c][o].at, StatusOf(<<o, k>>)')
<1> DEFINE at == worker[c][o].at
           to == worker'[c][o].at
           s  == StatusOf(<<o, k>>)
<1>1. TypeInv /\ Path(c, o) /\ AttemptIndex(o) \in Nat /\ ThreadNumbered(c, o)
  BY ThreadPath, Counted DEF StatusInv, StartInv, TypeInv, NumberInv
<1>2. worker[c][o].index = k /\ k <= AttemptIndex(o) => Follows(at, s)
  BY DEF StatusInv, WorkInv
<1>3. journal \in Seq(Row) /\ <<o, k>>[1] = o /\ <<o, k>>[2] = k /\ 0 \in 0..MaxAcks
  BY <1>1, DispatchAssumption DEF TypeInv
<1>4. CASE to \in {"none", "begun", "held", "cleanup", "assigned"}
  BY <1>4 DEF Follows, BeforeLaunch
<1>5. CASE /\ worker[c][o].index = k
           /\ journal' = journal
           /\ \/ at = "begun" /\ to = "failed"
              \/ {at, to} \subseteq BeforeLaunch
              \/ at = "executed" /\ to = "witnessed"
              \/ at \in Attempting \ {"ready"} /\ to \in {"unwinding", "failed"}
  <2>1. s' = s /\ AttemptIndex(o)' = AttemptIndex(o)
    BY <1>5 DEF StatusOf, Names, AttemptIndex
  <2>2. Follows(at, s) /\ at # "begun"
    BY <1>1, <1>2, <1>5, <2>1 DEF ThreadNumbered
  <2> QED BY <1>5, <2>1, <2>2 DEF Follows, Attempting, BeforeLaunch, Running
<1>6. ASSUME NEW kind \in EventKind, NEW ack \in 0..MaxAcks, Write(kind, o, k, ack)
      PROVE  s' = kind
  BY <1>3, <1>6, StatusAfter
<1>7. CASE Reserve(c, o) /\ to = "reserved" /\ worker[c][o].index = k
  <2>1. \E ack \in 0..MaxAcks : Write("started", o, k, ack)
    BY <1>7, ReserveWrites DEF StatusInv
  <2>2. s' = "started"
    BY <1>6, <2>1 DEF EventKind, Running
  <2> QED BY <1>7, <2>2 DEF Follows, BeforeLaunch
<1>8. CASE to = "running" /\ Write("launching", o, k, 0)
  BY <1>3, <1>6, <1>8 DEF EventKind, Running, Follows, BeforeLaunch
<1>9. CASE to = "executed" /\ Write("executed", o, k, 0)
  BY <1>3, <1>6, <1>9 DEF EventKind, Running, Follows, BeforeLaunch
<1>10. CASE to = "ready" /\ Write("ready", o, k, 0)
  BY <1>3, <1>6, <1>10 DEF EventKind, Running, Follows, BeforeLaunch
<1> HIDE DEF at, to, s
<1> QED BY <1>1, <1>4, <1>5, <1>7, <1>8, <1>9, <1>10 DEF Path, at, to

\* A thread that has not taken a step is still where the journal says: nobody
\* but a reviewer writes of its attempt, and only when it is ready.
LEMMA RestFollows ==
    ASSUME StatusInv, [Next]_vars, NEW c \in Controller, NEW o \in Order, ~Dispatch(c, o),
           NEW k \in Nat \ {0}, k <= AttemptIndex(o)',
           worker'[c][o].at = worker[c][o].at, worker[c][o].index = k
    PROVE  Follows(worker[c][o].at, StatusOf(<<o, k>>)')
<1> DEFINE at == worker[c][o].at
           s  == StatusOf(<<o, k>>)
<1>1. TypeInv /\ LeaseInv
  BY DEF StatusInv, StartInv
<1>2. CASE at = "none"
  BY <1>2 DEF Follows, BeforeLaunch
<1>3. CASE at # "none"
  <2>1. ~\E d \in Controller : Dispatch(d, o)
    <3> SUFFICES ASSUME NEW d \in Controller, Dispatch(d, o) PROVE FALSE
      OBVIOUS
    <3>1. worker[d][o].at # "none"
      BY <1>1, ThreadStep
    <3> QED BY <1>1, <1>3, <3>1, OneCycle
  <2>2. AttemptIndex(o)' = AttemptIndex(o)
    <3>1. CASE \E d \in Controller, p \in Order : Dispatch(d, p)
      BY <1>1, <2>1, <3>1, ThreadCounts
    <3> QED BY <1>1, <3>1, OthersStartNone
  <2>3. Follows(at, s)
    BY <2>2 DEF StatusInv, WorkInv
  <2>4. ~\E d \in Controller : Cancel(d, <<o, k>>)
    BY <1>1, <1>3, NoThreads DEF Cancel, LeaseInv
  <2>5. ASSUME NEW r \in Reviewer, NEW v \in Verdict,
               <<o, k>> \in review[r], StatusOf(<<o, k>>)' = v
        PROVE  Follows(at, StatusOf(<<o, k>>)')
    <3>1. s \in {"ready"} \cup Verdict
      BY <2>5 DEF StatusInv, WorkInv, JournalInv
    <3> QED BY <2>3, <2>5, <3>1 DEF Follows, Running, Verdict
  <2> HIDE DEF at, s
  <2> QED BY <1>1, <2>1, <2>3, <2>4, <2>5, StatusStep DEF at, s
<1> QED BY <1>2, <1>3

\* Threads, orphans and reviews stay in agreement with the journal.
LEMMA WorkStep == StatusInv /\ ~ReleaseFails /\ [Next]_vars => WorkInv'
<1> SUFFICES ASSUME StatusInv, ~ReleaseFails, [Next]_vars PROVE WorkInv'
  OBVIOUS
<1>1. TypeInv /\ LeaseInv /\ StartInv
  BY DEF StatusInv, StartInv
<1>2. ASSUME NEW c \in Controller, NEW o \in Order, NEW k \in Nat \ {0},
             worker'[c][o].index = k, k <= AttemptIndex(o)'
      PROVE  Follows(worker'[c][o].at, StatusOf(<<o, k>>)')
  <2>1. NoThread.at = "none" /\ [NoThread EXCEPT !.at = "assigned"].at = "assigned"
    BY DEF NoThread
  <2>2. CASE worker'[c][o].at \in {"none", "assigned"}
    BY <2>2 DEF Follows, BeforeLaunch
  <2>3. CASE Dispatch(c, o)
    BY <1>2, <2>3, StepFollows
  <2>4. CASE ~Dispatch(c, o) /\ worker'[c][o].at = worker[c][o].at /\ worker'[c][o].index = worker[c][o].index
    BY <1>2, <2>4, RestFollows
  <2>5. CASE Disable
    <3>1. worker'[c][o].at = worker[c][o].at /\ worker'[c][o].index = worker[c][o].index
      BY <1>1, <2>5, Disabled
    <3> QED BY <2>3, <2>4, <3>1
  <2> QED BY <1>1, <2>1, <2>2, <2>3, <2>4, <2>5, FromWhere
<1>3. ASSUME NEW c \in Controller, NEW o \in Order, NEW k \in Nat \ {0}, <<o, k>> \in orphans'[c]
      PROVE  StatusOf(<<o, k>>)' \in Running
  <2>1. CASE TakeLease(c)
    <3>1. journal' = journal /\ <<o, k>> \in ExpiredAttempts
      BY <1>1, <1>3, <2>1 DEF TakeLease, TypeInv
    <3>2. StatusOf(<<o, k>>) \in Running
      BY <1>1, <3>1, OrphansRunning DEF StatusInv
    <3> QED BY <3>1, <3>2 DEF StatusOf, Names
  <2>2. CASE <<o, k>> \in orphans[c]
    <3>1. StatusOf(<<o, k>>) \in Running /\ cycle[c] = "reconcile" /\ lease = {c}
      BY <1>1, <2>2 DEF StatusInv, WorkInv, LeaseInv
    <3>2. ~\E d \in Controller : Dispatch(d, o)
      BY <1>1, <3>1, NoThreads, ThreadStep
    <3>3. ~\E d \in Controller : Cancel(d, <<o, k>>)
      <4> SUFFICES ASSUME NEW d \in Controller, Cancel(d, <<o, k>>) PROVE FALSE
        OBVIOUS
      <4>1. cycle[d] = "reconcile" /\ lease = {d}
        BY <1>1 DEF Cancel, LeaseInv
      <4>2. d = c
        BY <3>1, <4>1
      <4> QED BY <1>1, <1>3, <4>2 DEF Cancel, TypeInv
    <3>4. ~\E r \in Reviewer, v \in Verdict :
              Judge(r, v) /\ <<o, k>> \in review[r] /\ StatusOf(<<o, k>>)' = v
      BY <3>1 DEF StatusInv, WorkInv, JournalInv, Running, Verdict
    <3> QED BY <1>1, <3>1, <3>2, <3>3, <3>4, StatusStep
  <2>3. <<o, k>> \in orphans[c] \/ TakeLease(c)
    <3>1. \A d \in Controller, p \in Order : Dispatch(d, p) => orphans' = orphans
      BY <1>1, ThreadStep DEF Elsewhere
    <3> QED BY <1>1, <1>3, <3>1, NextIs
         DEF TakeLease, Cancel, Plan, Crash, Acknowledge, Disable, Examine, Judge, Quiet, TypeInv, cycleVars
  <2> QED BY <2>1, <2>2, <2>3
<1>4. ASSUME NEW r \in Reviewer, NEW o \in Order, NEW k \in Nat \ {0}, <<o, k>> \in review'[r]
      PROVE  Recorded(<<o, k>>, {"ready"})'
  <2>1. Recorded(<<o, k>>, {"ready"})
    BY <1>1, <1>4, ReviewFrom DEF StatusInv, WorkInv
  <2> QED BY <1>1, <2>1, RecordedStep
<1> QED BY <1>2, <1>3, <1>4 DEF WorkInv

\* The journal stays in order.
LEMMA JournalStep == StatusInv /\ ~ReleaseFails /\ [Next]_vars => JournalInv'
<1> SUFFICES ASSUME StatusInv, ~ReleaseFails, [Next]_vars PROVE JournalInv'
  OBVIOUS
<1>1. TypeInv /\ JournalInv
  BY DEF StatusInv, StartInv
<1>2. CASE journal' = journal
  <2>1. \A o \in Order, k \in Nat : StatusOf(<<o, k>>)' = StatusOf(<<o, k>>)
    BY <1>2 DEF StatusOf, Names
  <2>2. \A o \in Order, k \in Nat : \A K : Recorded(<<o, k>>, K)' <=> Recorded(<<o, k>>, K)
    BY <1>2 DEF Recorded, Names
  <2>3. \A o \in Order : AttemptIndex(o)' = AttemptIndex(o)
    BY <1>2 DEF AttemptIndex
  <2> QED BY <1>1, <1>2, <2>1, <2>2, <2>3 DEF JournalInv
<1> QED BY <1>1, <1>2, Enters, Entered, EnteredOther

\* Threads and journal agree throughout, if releases do not fail.
LEMMA StatusHolds ==
    ASSUME ~ReleaseFails
    PROVE  Spec => []StatusInv
<1>1. Init => JournalInv /\ WorkInv
  <2> SUFFICES ASSUME Init PROVE JournalInv /\ WorkInv
    OBVIOUS
  <2>1. DOMAIN journal = {}
    BY DEF Init
  <2>2. \A a : StatusOf(a) = "none"
    BY <2>1 DEF StatusOf
  <2>3. \A a, K : ~Recorded(a, K)
    BY <2>1 DEF Recorded
  <2>4. JournalInv
    BY <2>1, <2>2, <2>3 DEF JournalInv, Verdict
  <2>5. WorkInv
    BY DEF Init, WorkInv, NoThread, Follows, BeforeLaunch
  <2> QED BY <2>4, <2>5
<1>2. StartInv /\ PastInv /\ JournalInv /\ WorkInv /\ [Next]_vars => JournalInv' /\ WorkInv'
  BY JournalStep, WorkStep DEF StatusInv
<1> QED BY <1>1, <1>2, StartInvHolds, PastHolds, PTL DEF Spec, StatusInv

-----------------------------------------------------------------------------
(* A ready attempt holds its task.                                          *)

\* If the law reserves, what was ready of the task has been judged since.
LEMMA ReadyJudged ==
    ASSUME StatusInv, NEW o \in Order, LawReserves(o),
           NEW i \in DOMAIN journal, journal[i].kind = "ready", Task[journal[i].order] = Task[o]
    PROVE  \E k \in DOMAIN journal :
              /\ i <= k
              /\ Names(k, <<journal[i].order, journal[i].index>>)
              /\ journal[k].kind \in Verdict
<1> DEFINE p == journal[i].order
           m == journal[i].index
<1>1. TypeInv /\ NumberInv /\ JournalInv
  BY DEF StatusInv, StartInv
<1>2. journal \in Seq(Row) /\ p \in Order /\ m \in Nat \ {0}
  <2>1. journal \in Seq(Row)
    BY <1>1 DEF TypeInv
  <2>2. journal[i] \in Row
    BY <2>1
  <2>3. m # 0
    BY <1>1 DEF JournalInv
  <2> QED BY <2>1, <2>2, <2>3 DEF Row
<1>3. Recorded(<<p, m>>, {"ready"})
  BY DEF Recorded, Names
<1> HIDE DEF p, m
<1>4. StatusOf(<<p, m>>) \in {"ready"} \cup Verdict /\ m <= AttemptIndex(p)
  BY <1>1, <1>2, <1>3 DEF JournalInv, Verdict
<1>5. <<p, m>> \in TaskAttempts(Task[o])
  <2>1. AttemptIndex(p) \in Nat /\ AttemptIndex(p) <= MaxAttempts /\ MaxAttempts \in Nat
    BY <1>1, <1>2, Counted, DispatchAssumption DEF NumberInv
  <2>2. <<p, m>> \in Attempt
    BY <1>2, <1>4, <2>1 DEF Attempt
  <2>3. Recorded(<<p, m>>, {"started"})
    BY <1>1, <1>2, <1>4, <2>1 DEF NumberInv
  <2> QED BY <2>2, <2>3 DEF TaskAttempts, p
<1>6. StatusOf(<<p, m>>) \in Verdict
  BY <1>4, <1>5 DEF LawReserves
<1>7. Names(i, <<p, m>>)
  BY DEF Names, p, m
<1>8. PICK k \in DOMAIN journal :
          /\ Names(k, <<p, m>>) /\ journal[k].kind = StatusOf(<<p, m>>)
          /\ \A j \in DOMAIN journal : Names(j, <<p, m>>) => j <= k
  BY <1>2, <1>7, StatusIs
<1> QED BY <1>6, <1>7, <1>8 DEF p, m

\* A start comes after the verdict on what was ready.
LEMMA HoldStep == StatusInv /\ ReadyHoldsTask /\ ~ReleaseFails /\ [Next]_vars => ReadyHoldsTask'
<1> SUFFICES ASSUME StatusInv, ReadyHoldsTask, ~ReleaseFails, [Next]_vars PROVE ReadyHoldsTask'
  OBVIOUS
<1>1. TypeInv
  BY DEF StatusInv, StartInv
<1>2. CASE journal' = journal
  BY <1>2 DEF ReadyHoldsTask, Names
<1>3. ASSUME NEW kind \in EventKind, NEW o \in Order, NEW index \in Nat, NEW ack \in 0..MaxAcks,
             Write(kind, o, index, ack), kind = "started" => LawReserves(o)
      PROVE  ReadyHoldsTask'
  <2> DEFINE n == Len(journal)
  <2>1. /\ n \in Nat /\ DOMAIN journal = 1..n /\ DOMAIN journal' = 1..(n + 1)
        /\ \A i \in 1..n : journal'[i] = journal[i]
        /\ journal'[n + 1] = [kind |-> kind, order |-> o, index |-> index, ack |-> ack]
    BY <1>1, <1>3, Written DEF TypeInv
  <2>2. journal'[n + 1].kind = kind /\ journal'[n + 1].order = o
    BY <2>1
  <2> SUFFICES ASSUME NEW i \in 1..(n + 1), NEW j \in 1..(n + 1), i < j,
                      journal'[i].kind = "ready", journal'[j].kind = "started",
                      Task[journal'[i].order] = Task[journal'[j].order]
               PROVE  \E k \in i..j : /\ journal'[k].order = journal'[i].order
                                      /\ journal'[k].index = journal'[i].index
                                      /\ journal'[k].kind \in Verdict
    BY <2>1 DEF ReadyHoldsTask, Names
  <2>3. i \in 1..n /\ journal'[i] = journal[i]
    BY <2>1
  <2>4. CASE j \in 1..n
    <3>1. PICK k \in i..j : /\ journal[k].order = journal[i].order
                            /\ journal[k].index = journal[i].index
                            /\ journal[k].kind \in Verdict
      BY <2>1, <2>3, <2>4 DEF ReadyHoldsTask, Names
    <3> QED BY <2>1, <2>3, <2>4, <3>1
  <2>5. CASE j = n + 1
    <3>1. PICK k \in 1..n : /\ i <= k
                            /\ journal[k].order = journal[i].order
                            /\ journal[k].index = journal[i].index
                            /\ journal[k].kind \in Verdict
      BY <1>3, <2>1, <2>2, <2>3, <2>5, ReadyJudged DEF Names
    <3> QED BY <2>1, <2>3, <2>5, <3>1
  <2> QED BY <2>1, <2>4, <2>5
<1>4. \A kind \in {"held", "retryable", "ack"} : kind \in EventKind /\ kind # "started"
  BY DEF EventKind
<1>5. \A o \in Order, k \in Nat, kind \in EventKind :
          MayEnter(o, k, kind) /\ kind = "started" => LawReserves(o)
  BY DEF MayEnter, Verdict
<1> QED BY <1>2, <1>3, <1>4, <1>5, Enters

\* A ready attempt waits for review: until a verdict is recorded, no attempt
\* of the same task is started after it, if the repository's release command
\* does not fail.  (If it fails, see DispatchRelease.)
THEOREM ReadyHolds ==
    ASSUME ~ReleaseFails
    PROVE  Spec => []ReadyHoldsTask
<1>1. Init => ReadyHoldsTask
  BY DEF Init, ReadyHoldsTask
<1>2. StatusInv /\ ReadyHoldsTask /\ [Next]_vars => ReadyHoldsTask'
  BY HoldStep
<1> QED BY <1>1, <1>2, StatusHolds, PTL DEF Spec

-----------------------------------------------------------------------------
(* The journal implements the ledger of attempts.                           *)

\* The ledger that the journal stands for.
Mapped == [a \in Attempt |-> LedgerStatus(a)]

\* A step of one attempt in the ledger.
LEMMA LedgerMove ==
    ASSUME NEW a \in Attempt, NEW to \in Ledger!After[LedgerStatus(a)],
           LedgerStatus(a)' = to, to # LedgerStatus(a), to = "started" => Ledger!TaskFree(a),
           \A b \in Attempt \ {a} : LedgerStatus(b)' = LedgerStatus(b)
    PROVE  Ledger!DNext
<1>1. Mapped = [b \in Attempt |-> LedgerStatus(b)] /\ Mapped' = [b \in Attempt |-> LedgerStatus(b)']
  BY DEF Mapped
<1>2. Mapped' = [Mapped EXCEPT ![a] = to]
  <2>1. \A b \in Attempt : LedgerStatus(b)' = IF b = a THEN to ELSE LedgerStatus(b)
    OBVIOUS
  <2>2. [b \in Attempt |-> LedgerStatus(b)'] = [b \in Attempt |-> IF b = a THEN to ELSE LedgerStatus(b)]
    BY <2>1
  <2> QED BY <1>1, <2>2
<1>3. Mapped'[a] # Mapped[a] /\ Mapped[a] = LedgerStatus(a)
  BY <1>2 DEF Mapped
<1> QED BY <1>2, <1>3 DEF Ledger!DNext, Mapped

\* A step that changes no attempt's stage is none of the ledger.
LEMMA LedgerRests ==
    ASSUME \A b \in Attempt : LedgerStatus(b)' = LedgerStatus(b)
    PROVE  UNCHANGED Mapped
<1>1. [b \in Attempt |-> LedgerStatus(b)'] = [b \in Attempt |-> LedgerStatus(b)]
  OBVIOUS
<1> QED BY <1>1 DEF Mapped

\* The ledger's stages, as the journal's kinds.
LEMMA Stages ==
    /\ "started" \in Ledger!After["none"]
    /\ {"launching", "refused", "cancelled"} \subseteq Ledger!After["started"]
    /\ {"executed", "refused", "cancelled"} \subseteq Ledger!After["launching"]
    /\ {"ready", "refused", "cancelled"} \subseteq Ledger!After["executed"]
    /\ Verdict \subseteq Ledger!After["ready"]
  BY DEF Ledger!After, Ledger!Holding, Ledger!Open, Ledger!Verdict, Verdict

\* A start is admitted when the ledger has no attempt of the task that runs
\* or waits for review.
LEMMA TaskIsFree ==
    ASSUME StatusInv, NEW a \in Attempt, LawReserves(a[1])
    PROVE  Ledger!TaskFree(a)
<1> SUFFICES ASSUME NEW b \in Attempt, Task[b[1]] = Task[a[1]],
                    LedgerStatus(b) \in Running \cup {"ready"}
             PROVE  FALSE
  BY DEF Ledger!TaskFree, Ledger!Holding, Ledger!Open, TaskOf, Running
<1>1. TypeInv /\ NumberInv /\ JournalInv
  BY DEF StatusInv, StartInv
<1>2. StatusOf(b) \in Running \cup {"ready"}
  BY DEF LedgerStatus, Running
<1>3. b[1] \in Order /\ b[2] \in Nat \ {0} /\ b = <<b[1], b[2]>>
  BY DEF Attempt
<1>4. b[2] <= AttemptIndex(b[1]) /\ AttemptIndex(b[1]) \in Nat
  BY <1>1, <1>2, <1>3, Counted DEF TypeInv, JournalInv, Running
<1>5. Recorded(b, {"started"})
  BY <1>1, <1>3, <1>4 DEF NumberInv
<1> QED BY <1>2, <1>5 DEF LawReserves, TaskAttempts

\* With one reviewer a verdict is the first one.
LEMMA VerdictFirst ==
    ASSUME TypeInv, JudgeInv, [Next]_vars,
           NEW o \in Order, NEW k \in Nat \ {0}, NEW v \in Verdict, NEW ack \in 0..MaxAcks,
           Write(v, o, k, ack)
    PROVE  StatusOf(<<o, k>>) \notin Verdict
<1> DEFINE n == Len(journal)
<1>1. journal \in Seq(Row) /\ v \in EventKind
  BY DEF TypeInv, EventKind
<1>2. /\ n \in Nat /\ DOMAIN journal = 1..n /\ DOMAIN journal' = 1..(n + 1)
      /\ journal'[n + 1] = [kind |-> v, order |-> o, index |-> k, ack |-> ack]
  BY <1>1, Written
<1>3. PICK kind \in EventKind, p \in Order, m \in Nat, more \in 0..MaxAcks :
          Write(kind, p, m, more) /\ Source(kind, p, m)
  <2>1. n + 1 \in DOMAIN journal' /\ n + 1 \notin DOMAIN journal
    BY <1>2
  <2> QED BY <2>1, Writes
<1>4. journal'[n + 1] = [kind |-> kind, order |-> p, index |-> m, ack |-> more]
  BY <1>1, <1>3, Written
<1>5. kind = v /\ p = o /\ m = k
  BY <1>2, <1>4
<1>6. PICK r \in Reviewer : \E a \in review[r] : a[1] = o /\ a[2] = k
  BY <1>3, <1>5 DEF Source, Verdict
<1>7. <<o, k>> \in review[r]
  <2>1. PICK a \in review[r] : a[1] = o /\ a[2] = k /\ a \in Attempt
    BY <1>6 DEF TypeInv
  <2> QED BY <2>1 DEF Attempt
<1>8. ~Recorded(<<o, k>>, Verdict)
  BY <1>7 DEF JudgeInv
<1> QED BY <1>1, <1>8, StatusIs DEF Recorded, Verdict

\* An event of an attempt is a step of it in the ledger, or none.
LEMMA LedgerEntered ==
    ASSUME StatusInv, JudgeInv, [Next]_vars,
           NEW o \in Order, NEW k \in Nat \ {0}, NEW kind \in EventKind, NEW ack \in 0..MaxAcks,
           Write(kind, o, k, ack), MayEnter(o, k, kind)
    PROVE  [Ledger!DNext]_Mapped
<1> DEFINE a == <<o, k>>
           s == StatusOf(a)
<1>1. TypeInv /\ NumberInv /\ JournalInv /\ journal \in Seq(Row)
  BY DEF StatusInv, StartInv, TypeInv
<1>2. ASSUME NEW b \in Attempt \ {a}
      PROVE  LedgerStatus(b)' = LedgerStatus(b)
  <2>1. ~(b[1] = o /\ b[2] = k)
    BY DEF Attempt
  <2>2. StatusOf(b)' = StatusOf(b)
    BY <1>1, <2>1, StatusAfter
  <2>3. Recorded(b, {"started"})' <=> Recorded(b, {"started"})
    BY <1>1, <2>1, RecordedAfter
  <2> QED BY <2>2, <2>3 DEF LedgerStatus
<1>3. s' = kind /\ (Recorded(a, {"started"})' <=> Recorded(a, {"started"}) \/ kind = "started")
  <2>1. a[1] = o /\ a[2] = k
    OBVIOUS
  <2>2. Recorded(a, {"started"})' <=> Recorded(a, {"started"}) \/ kind \in {"started"}
    BY <1>1, <2>1, RecordedAfter
  <2> QED BY <1>1, <2>1, <2>2, StatusAfter
<1>4. /\ AttemptIndex(o) \in Nat
      /\ Recorded(a, {"started"}) <=> k <= AttemptIndex(o)
      /\ s \notin {"none", "refused", "retryable"} => k <= AttemptIndex(o)
  <2>1. Recorded(a, {"started"}) <=> k \in 1..AttemptIndex(o)
    BY <1>1 DEF NumberInv
  <2> QED BY <1>1, <2>1, Counted DEF JournalInv
<1>5. CASE a \notin Attempt
  BY <1>2, <1>5, LedgerRests
<1>6. CASE a \in Attempt
  <2>1. CASE kind = "started"
    <3>1. k = AttemptIndex(o) + 1 /\ LawReserves(a[1])
      BY <2>1 DEF MayEnter, Verdict
    <3>2. LedgerStatus(a) = "none" /\ LedgerStatus(a)' = "started"
      BY <1>3, <1>4, <2>1, <3>1 DEF LedgerStatus
    <3>3. Ledger!TaskFree(a)
      BY <1>6, <3>1, TaskIsFree
    <3> QED BY <1>2, <1>6, <3>2, <3>3, Stages, LedgerMove
  <2>2. CASE kind \in {"launching", "executed", "ready", "cancelled"}
    <3>1. /\ s \in Running
          /\ kind = "launching" => s = "started"
          /\ kind = "executed" => s = "launching"
          /\ kind = "ready" => s = "executed"
      BY <2>2 DEF MayEnter, Running, Verdict
    <3>2. LedgerStatus(a) = s /\ LedgerStatus(a)' = kind
      BY <1>3, <2>2, <3>1 DEF LedgerStatus, Running
    <3>3. kind \in Ledger!After[LedgerStatus(a)] /\ kind # LedgerStatus(a) /\ kind # "started"
      BY <2>2, <3>1, <3>2, Stages DEF Running
    <3> QED BY <1>2, <1>6, <3>2, <3>3, LedgerMove
  <2>3. CASE kind \in Verdict
    <3>1. s = "ready"
      <4>1. s \in {"ready"} \cup Verdict
        BY <2>3 DEF MayEnter, Verdict
      <4> QED BY <1>1, <2>3, <4>1, VerdictFirst
    <3>2. LedgerStatus(a) = "ready" /\ LedgerStatus(a)' = kind
      BY <1>3, <2>3, <3>1 DEF LedgerStatus, Verdict
    <3>3. kind \in Ledger!After[LedgerStatus(a)] /\ kind # LedgerStatus(a) /\ kind # "started"
      BY <2>3, <3>2, Stages DEF Verdict
    <3> QED BY <1>2, <1>6, <3>2, <3>3, LedgerMove
  <2>4. CASE kind \in {"refused", "retryable"} /\ s \in Running
    <3>1. LedgerStatus(a) = s /\ LedgerStatus(a)' = "refused"
      BY <1>3, <1>4, <2>4 DEF LedgerStatus, Running
    <3>2. "refused" \in Ledger!After[LedgerStatus(a)] /\ "refused" # LedgerStatus(a)
      BY <2>4, <3>1, Stages DEF Running
    <3> QED BY <1>2, <1>6, <3>1, <3>2, LedgerMove
  <2>5. CASE kind \in {"refused", "retryable"} /\ k = AttemptIndex(o) + 1
    <3>1. LedgerStatus(a) = "none" /\ LedgerStatus(a)' = "none"
      BY <1>3, <1>4, <2>5 DEF LedgerStatus
    <3> QED BY <1>2, <3>1, LedgerRests
  <2> QED BY <2>1, <2>2, <2>3, <2>4, <2>5 DEF MayEnter
<1> QED BY <1>5, <1>6

\* Every step is a step of the ledger, or none.
LEMMA LedgerStep ==
    ASSUME StatusInv, JudgeInv, ~ReleaseFails, [Next]_vars
    PROVE  [Ledger!DNext]_Mapped
<1>1. TypeInv /\ JournalInv
  BY DEF StatusInv, StartInv
<1>2. CASE journal' = journal
  <2>1. \A a \in Attempt : LedgerStatus(a)' = LedgerStatus(a)
    BY <1>2 DEF LedgerStatus, StatusOf, Recorded, Names
  <2> QED BY <2>1, LedgerRests
<1>3. ASSUME NEW o \in Order, NEW kind \in {"held", "retryable", "ack"}, NEW ack \in 0..MaxAcks,
             Write(kind, o, 0, ack)
      PROVE  [Ledger!DNext]_Mapped
  <2>1. ASSUME NEW a \in Attempt
        PROVE  LedgerStatus(a)' = LedgerStatus(a)
    <3>1. journal \in Seq(Row) /\ kind \in EventKind /\ a[2] # 0
      BY <1>1 DEF TypeInv, EventKind, Attempt
    <3>2. StatusOf(a)' = StatusOf(a)
      BY <1>3, <3>1, StatusAfter
    <3>3. Recorded(a, {"started"})' <=> Recorded(a, {"started"})
      BY <1>3, <3>1, RecordedAfter
    <3> QED BY <3>2, <3>3 DEF LedgerStatus
  <2> QED BY <2>1, LedgerRests
<1> QED BY <1>2, <1>3, Enters, LedgerEntered

\* The journal implements the ledger: each attempt goes through its life once
\* and in order, and a task has at most one that runs or waits for review, if
\* releases do not fail and there is one reviewer.
THEOREM Ledgered ==
    ASSUME ~ReleaseFails, \A r, s \in Reviewer : r = s
    PROVE  Spec => ImplementsLedger
<1>1. Init => Ledger!DInit
  <2> SUFFICES ASSUME Init PROVE \A a \in Attempt : LedgerStatus(a) = "none"
    BY DEF Ledger!DInit
  <2> QED BY DEF Init, LedgerStatus, StatusOf
<1>2. Init => JudgeInv
  <2> SUFFICES ASSUME Init PROVE JudgeInv
    OBVIOUS
  <2> QED BY DEF Init, JudgeInv, OneOutcome
<1>3. StatusInv /\ JudgeInv /\ [Next]_vars => JudgeInv'
  BY JudgeStep DEF StatusInv, StartInv
<1>4. StatusInv /\ JudgeInv /\ [Next]_vars => [Ledger!DNext]_Mapped
  BY LedgerStep
<1> QED BY <1>1, <1>2, <1>3, <1>4, StatusHolds, PTL DEF Spec, ImplementsLedger,
           Ledger!LedgerSpec, Mapped
=============================================================================
