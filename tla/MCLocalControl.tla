--------------------------- MODULE MCLocalControl ---------------------------
EXTENDS LocalControl

CONSTANTS o1, o2, w1

\* Two operators race for every decision; workers only share the lock with each
\* other, so one stands for all of them.
MCOperator == {o1, o2}
MCWorker == {w1}
=============================================================================
