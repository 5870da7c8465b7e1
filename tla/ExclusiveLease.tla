--------------------------- MODULE ExclusiveLease ---------------------------
(***************************************************************************)
(* What a claim store promises: leases on targets, granted to holders,     *)
(* each with a deadline.  Every operation is atomic.  A lease leaves the   *)
(* store only because its own holder gave it up or because it expired.     *)
(***************************************************************************)
EXTENDS Naturals, Targets

CONSTANTS Holder, Target, TTL

VARIABLES granted,   \* the set of leases
          now        \* wall-clock time

Lease == [holder : Holder, target : Target, acquired : Nat, expires : Nat]

Expired == {l \in granted : l.expires <= now}

LInit == granted = {} /\ now = 0

\* Time passes.
Pass == now' > now /\ UNCHANGED granted

\* h gets leases on all of T, beside whatever it has; some expired leases may
\* be forgotten.  What remains of the other holders does not conflict with T.
Grant(h, T) ==
    \E E \in SUBSET Expired, at \in 0..now :
        /\ \A l \in granted \ E : l.holder # h => \A t \in T : ~Overlap(t, l.target)
        /\ granted' = (granted \ E) \cup
               {[holder |-> h, target |-> t, acquired |-> at, expires |-> at + TTL] : t \in T}
        /\ UNCHANGED now

\* h moves the deadline of all leases it still has.
Extend(h) ==
    \E E \in SUBSET Expired, at \in 0..now :
        /\ granted' = {IF l.holder = h THEN [l EXCEPT !.expires = at + TTL] ELSE l :
                           l \in granted \ E}
        /\ UNCHANGED now

\* h gives up all its leases.
GiveUp(h) == granted' = {l \in granted : l.holder # h} /\ UNCHANGED now

\* Expired leases are forgotten.
Forget == \E E \in SUBSET Expired : granted' = granted \ E /\ UNCHANGED now

LNext ==
    \/ Pass
    \/ Forget
    \/ \E h \in Holder : Extend(h) \/ GiveUp(h) \/ \E T \in SUBSET Target : Grant(h, T)

LeaseSpec == LInit /\ [][LNext]_<<granted, now>>
==============================================================================
