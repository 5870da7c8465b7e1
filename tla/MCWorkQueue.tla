---------------------------- MODULE MCWorkQueue ----------------------------
EXTENDS WorkQueue, TLC

CONSTANTS e1, e2, d1, d2

\* Two editions of one order.
MCOrder == {e1, e2}
OneFile == [o \in MCOrder |-> "q"]

\* The watched paths of the second edition change and change back.
Trees == (e1 :> <<0, 0, 0>>) @@ (e2 :> <<0, 1, 0>>)
MCTree == [o \in MCOrder |-> [b \in Base |-> Trees[o][b + 1]]]

ChildOf == (d1 :> {e1}) @@ (d2 :> {e2})

\* The parent is accepted before the remote moves.
EarlyAck == [b \in Base |-> IF b = 0 THEN 1 ELSE 0]
=============================================================================
