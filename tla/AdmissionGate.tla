---------------------------- MODULE AdmissionGate ----------------------------
(***************************************************************************)
(* What the local control promises to the operator and to the attempts: a  *)
(* gate that is changed and passed atomically.  While anybody is inside a  *)
(* protected operation the gate does not move; who owns a permit of the    *)
(* current epoch may pass, in an open or a draining gate; nobody else may. *)
(***************************************************************************)
EXTENDS Naturals

CONSTANT Worker

VARIABLES mode,     \* "open", "draining", "closed", or "jammed" for ever
          epoch,    \* the epoch whose permits are accepted, 0 for none
          last,     \* the last epoch there was
          inside,   \* the workers in a protected operation
          owned     \* the epoch of each worker's permit, 0 for none

gateVars == <<mode, epoch, last, inside, owned>>

GInit ==
    /\ mode = "closed"
    /\ epoch = 0
    /\ last = 0
    /\ inside = {}
    /\ owned = [w \in Worker |-> 0]

\* The operator turns the gate while nobody is inside.
Turn(m) ==
    /\ mode # "jammed"
    /\ inside = {}
    /\ mode' = m
    /\ last' \in Nat /\ last' >= last
    /\ UNCHANGED <<inside, owned>>

\* Only a closed gate is opened, and with an epoch there never was before.
Open == mode = "closed" /\ Turn("open") /\ epoch' > last /\ epoch' <= last'

\* A new lease for the same epoch.
Refresh == mode = "open" /\ Turn("open") /\ UNCHANGED epoch

Drain == Turn("draining") /\ UNCHANGED epoch
Close == Turn("closed") /\ epoch' = 0

\* An interrupted turn leaves the gate shut for good.
Jam == Turn("jammed") /\ epoch' = 0

\* A worker without a permit enters an open gate, and may be given a permit.
Admit(w) ==
    /\ mode = "open"
    /\ inside' = inside \cup {w}
    /\ UNCHANGED <<mode, epoch, last, owned>>

Grant(w) ==
    /\ mode = "open"
    /\ w \in inside
    /\ owned' = [owned EXCEPT ![w] = epoch]
    /\ UNCHANGED <<mode, epoch, last, inside>>

\* A worker with a permit of the current epoch enters.
Pass(w) ==
    /\ owned[w] # 0
    /\ owned[w] = epoch
    /\ inside' = inside \cup {w}
    /\ UNCHANGED <<mode, epoch, last, owned>>

Leave(w) ==
    /\ inside' = inside \ {w}
    /\ \/ UNCHANGED owned
       \/ owned' = [owned EXCEPT ![w] = 0]
    /\ UNCHANGED <<mode, epoch, last>>

GNext ==
    \/ Open \/ Refresh \/ Drain \/ Close \/ Jam
    \/ \E w \in Worker : Admit(w) \/ Grant(w) \/ Pass(w) \/ Leave(w)

GateSpec == GInit /\ [][GNext]_gateVars
==============================================================================
