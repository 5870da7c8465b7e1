------------------------------ MODULE MCRoutes ------------------------------
EXTENDS Routes

CONSTANTS r1, r2

MCRoute == {r1, r2}
OneDrift == [r \in MCRoute |-> IF r = r1 THEN 1 ELSE 0]
OneTick == <<1>>
=============================================================================
