----------------------------- MODULE MCDispatch -----------------------------
EXTENDS Dispatch, TLC

CONSTANTS o1, o2

MCOrder == {o1, o2}

\* Two orders for the same task: a task taken up under another name.
OneTask == [o \in MCOrder |-> "task"]

\* Orders of different tasks, whose claims overlap.
TwoTasks == (o1 :> "task1") @@ (o2 :> "task2")
Overlapping == {<<o1, o2>>, <<o2, o1>>}

Symmetry == Permutations(Controller) \cup Permutations(MCOrder) \cup Permutations(Reviewer)

\* What decides the behaviour and the properties when no two orders share a task: each
\* order's own events, and everything else but the histories cut and abandoned.
EventsOf(o) == LET Its(e) == e.order = o IN SelectSeq(journal, Its)
ByOrder == <<[o \in Order |-> EventsOf(o)], aged, cycleVars, worker, claims, control, review, crashes>>
=============================================================================
