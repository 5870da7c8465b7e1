---------------------------- MODULE MCInventory ----------------------------
EXTENDS Inventory, TLC

CONSTANTS c1, c2, o1, o2, x1

MCOrder == {o1, o2}
OfTheFirst == [o \in Order |-> c1]
OneTask == [o \in Order |-> "task"]

\* A provider that is recognised and one that is not, and a stray process.
Mixed == (o1 :> "worker") @@ (o2 :> "unseen") @@ (x1 :> "stray")

\* Only c1 has orders to plan, so nothing asks what has run since c2 observed.
Asked == <<world, cycle, since[c1], tainted>>
=============================================================================
