----------------------------- MODULE WorkQueue -----------------------------
(***************************************************************************)
(* The directory of work orders, and who writes into it.                   *)
(*                                                                         *)
(* The command `delegate` journals a child of an accepted parent and then  *)
(* publishes its order file, all under the journal's lock; an interrupted  *)
(* publication is recovered from the journaled row (coordination.py).  The *)
(* controller fast-forwards the repository to its remote and rebinds the   *)
(* orders that follow it to the new head (refresh_remote_base), without    *)
(* that lock.  An operator writes and removes order files with any editor  *)
(* and moves the head with any git.  Everybody may die at any step.        *)
(*                                                                         *)
(* Commits are numbered: the remote branch is never rewritten, and what    *)
(* does not descend from the head is refused like any other failure.  The  *)
(* file of an order is named after its id, which different editions of an  *)
(* order share.                                                            *)
(*                                                                         *)
(* Bounds: MaxHead on the commits after the first, MaxAcks on the ACKs of  *)
(* the parent at each base, MaxRows on the journaled delegations,          *)
(* MaxDeaths on the deaths of delegating commands.                         *)
(***************************************************************************)
EXTENDS Naturals, Sequences

CONSTANTS Order,       \* editions of orders
          PathOf,      \* the file of each
          Follow,      \* editions with follow_remote_main
          Tree,        \* per edition: its watched paths as of each commit
          Delegator,   \* operators who delegate and recover
          Child,       \* the children each of them delegates
          None,
          EditsWhileListing,   \* operators edit between the two readings of the orders
          MaxHead, MaxAcks, MaxRows, MaxDeaths

Base == 0..MaxHead
Path == {PathOf[o] : o \in Order}

ASSUME WorkQueueAssumption ==
    /\ EditsWhileListing \in BOOLEAN
    /\ {MaxHead, MaxRows, MaxDeaths} \subseteq Nat
    /\ MaxAcks \in [Base -> Nat]
    /\ DOMAIN PathOf = Order
    /\ Follow \subseteq Order
    /\ Child \in [Delegator -> SUBSET Order]
    /\ DOMAIN Tree = Order /\ \A o \in Order : DOMAIN Tree[o] = Base

VARIABLES
    remote,    \* the head of the remote branch
    head,      \* the head of the repository
    files,     \* per path: the order file
    acks,      \* per base: the ACKs of the parent bound to it
    rows,      \* the journal: assignment.delegated
    queued,    \* the journal: the rows with an assignment.queued
    calls,     \* per delegator: what it is doing
    refresh,   \* what the controller's refresh is doing
    deaths

git == <<remote, head>>
journal == <<acks, rows, queued>>
vars == <<git, files, journal, calls, refresh, deaths>>

\* The bytes are canonical or written with an indent.  A child's declaration
\* names the parent as of the base it was written for: its origin.  by is
\* history: who made the file, whoever rebound it.
File == [order : Order, base : Base, origin : Base, form : {"canonical", "indented"},
         by : {"delegation", "hand"}]

Row == [order : Order, base : Base, ack : Nat]

Call == [at : {"idle", "checked", "journaled", "absent", "published"},
         order : Order \cup {None}, base : Base, row : 0..MaxRows]
NoCall == [at |-> "idle", order |-> None, base |-> 0, row |-> 0]

\* orders: the files as they were loaded, later the one about to be replaced;
\* found: those to rebind, as they were read once more.
Refresh == [at : {"idle", "fetched", "loaded", "listed", "moved"},
            old : Base, new : Base,
            orders : [Path -> File \cup {None}], found : [Path -> File \cup {None}]]
NoFiles == [p \in Path |-> None]
NoRefresh == [at |-> "idle", old |-> 0, new |-> 0, orders |-> NoFiles, found |-> NoFiles]

TypeOK ==
    /\ remote \in Base /\ head \in 0..remote
    /\ files \in [Path -> File \cup {None}]
    /\ acks \in [Base -> Nat] /\ \A b \in Base : acks[b] <= MaxAcks[b]
    /\ rows \in Seq(Row) /\ Len(rows) <= MaxRows
    /\ queued \subseteq DOMAIN rows
    /\ calls \in [Delegator -> Call]
    /\ refresh \in Refresh
    /\ deaths \in 0..MaxDeaths

Init ==
    /\ remote = 0 /\ head = 0
    /\ files = NoFiles
    /\ acks = [b \in Base |-> 0]
    /\ rows = <<>> /\ queued = {}
    /\ calls = [d \in Delegator |-> NoCall]
    /\ refresh = NoRefresh
    /\ deaths = 0

-----------------------------------------------------------------------------
(* delegate and recover_delegation.                                         *)

\* The journal's lock is held from the first row to the last.
Unlocked == \A d \in Delegator : calls[d].at \in {"idle", "checked"}

Goto(d, from, to) == calls[d].at = from /\ calls' = [calls EXCEPT ![d].at = to]

\* require_exact_subject, of parent and child, before the lock.  (Where the
\* bound leaves no ACK, the command can only be refused.)
Check(d, o) ==
    /\ calls[d].at = "idle"
    /\ MaxAcks[head] > 0
    /\ calls' = [calls EXCEPT ![d] = [NoCall EXCEPT !.at = "checked", !.order = o, !.base = head]]
    /\ UNCHANGED <<git, files, journal, refresh, deaths>>

\* The last delegation of this very child.
Prior(i, o, b) ==
    LET same(j) == rows[j].order = o /\ rows[j].base = b
    IN same(i) /\ \A j \in (i + 1)..Len(rows) : ~same(j)

\* BUG: the child is published first and journaled when that is done.
EnterUnjournaled(d) ==
    /\ Unlocked
    /\ acks[calls[d].base] > 0
    /\ Goto(d, "checked", "journaled")
    /\ UNCHANGED <<git, files, journal, refresh, deaths>>

\* The parent must have been accepted; unless the child was delegated under the
\* latest ACK, it is now.
Enter(d) ==
    LET call == calls[d]
        ack == acks[call.base]
        known == {i \in DOMAIN rows : Prior(i, call.order, call.base) /\ rows[i].ack = ack} IN
    /\ call.at = "checked"
    /\ Unlocked
    /\ ack > 0
    /\ \E i \in IF known # {} THEN known ELSE {Len(rows) + 1} :
           calls' = [calls EXCEPT ![d].at = "journaled", ![d].row = i]
    /\ IF known # {} THEN UNCHANGED rows
       ELSE /\ Len(rows) < MaxRows
            /\ rows' = Append(rows, [order |-> call.order, base |-> call.base, ack |-> ack])
    /\ UNCHANGED <<git, files, acks, queued, refresh, deaths>>

\* recover_delegation of a journaled event, whatever the head is now.
Recover(d, i) ==
    /\ calls[d].at = "idle"
    /\ Unlocked
    /\ i \in DOMAIN rows
    /\ calls' = [calls EXCEPT ![d] = [at |-> "journaled", order |-> rows[i].order,
                                      base |-> rows[i].base, row |-> i]]
    /\ UNCHANGED <<git, files, journal, refresh, deaths>>

\* The canonical bytes of a child.
Content(o, b) == [order |-> o, base |-> b, origin |-> b, form |-> "canonical", by |-> "delegation"]

\* BUG: an existing file is refused, even with these bytes.
LookRefusing(d) ==
    /\ Goto(d, "journaled", "absent")
    /\ files[PathOf[calls[d].order]] = None
    /\ UNCHANGED <<git, files, journal, refresh, deaths>>

\* _publish_queue: is there a file?  Then it must have these bytes.
Look(d) ==
    LET call == calls[d]
        file == files[PathOf[call.order]] IN
    /\ \/ Goto(d, "journaled", "absent") /\ file = None
       \/ Goto(d, "journaled", "published") /\ file = Content(call.order, call.base)
    /\ UNCHANGED <<git, files, journal, refresh, deaths>>

\* BUG: the temporary file is renamed, not linked.
LinkReplacing(d) ==
    LET call == calls[d] IN
    /\ Goto(d, "absent", "published")
    /\ files' = [files EXCEPT ![PathOf[call.order]] = Content(call.order, call.base)]
    /\ UNCHANGED <<git, journal, refresh, deaths>>

\* os.link fails on a file that was made meanwhile; then it must have these bytes.
Link(d) ==
    LET call == calls[d]
        path == PathOf[call.order] IN
    /\ Goto(d, "absent", "published")
    /\ files[path] \in {None, Content(call.order, call.base)}
    /\ files' = [files EXCEPT ![path] = Content(call.order, call.base)]
    /\ UNCHANGED <<git, journal, refresh, deaths>>

\* assignment.queued, once per delegation.
Queue(d) ==
    /\ calls[d].at = "published"
    /\ queued' = queued \cup {calls[d].row}
    /\ calls' = [calls EXCEPT ![d] = NoCall]
    /\ UNCHANGED <<git, files, acks, rows, refresh, deaths>>

\* The refusals: no ACK or a child that is not one of the parent, or, in the
\* lock, other bytes in the way.
Refuse(d) ==
    LET call == calls[d] IN
    /\ \/ call.at = "checked"
       \/ /\ call.at \in {"journaled", "absent"}
          /\ files[PathOf[call.order]] \notin {None, Content(call.order, call.base)}
    /\ calls' = [calls EXCEPT ![d] = NoCall]
    /\ UNCHANGED <<git, files, journal, refresh, deaths>>

\* The command dies; what it did stays.
Die(d) ==
    /\ deaths < MaxDeaths
    /\ calls[d].at # "idle"
    /\ calls' = [calls EXCEPT ![d] = NoCall]
    /\ deaths' = deaths + 1
    /\ UNCHANGED <<git, files, journal, refresh>>

GoOn(d) == Enter(d) \/ Look(d) \/ Link(d) \/ Queue(d) \/ Refuse(d)

-----------------------------------------------------------------------------
(* refresh_remote_base.                                                     *)

\* current_sha and fetch_remote_branch
Fetch ==
    /\ refresh.at = "idle"
    /\ head # remote
    /\ refresh' = [NoRefresh EXCEPT !.at = "fetched", !.old = head, !.new = remote]
    /\ UNCHANGED <<git, files, journal, calls, deaths>>

\* _load_work_orders
Load ==
    /\ refresh.at = "fetched"
    /\ refresh' = [refresh EXCEPT !.at = "loaded", !.orders = files]
    /\ UNCHANGED <<git, files, journal, calls, deaths>>

\* paths_changed compares the trees of two commits.
Changed(o, b, c) == Tree[o][b] # Tree[o][c]

\* The orders that are not held.
Follows(file) ==
    /\ file # None
    /\ file.base = refresh.old
    /\ file.order \in Follow
    /\ ~Changed(file.order, refresh.old, refresh.new)

\* The loop over the files: which order to rebind was decided on what was
\* loaded, which bytes on what is read now.  An order without a loaded order of
\* its id is refused.
List ==
    /\ refresh.at = "loaded"
    /\ \A p \in Path : files[p] # None => refresh.orders[p] # None
    /\ refresh' = [refresh EXCEPT
           !.at = "listed", !.orders = NoFiles,
           !.found = [p \in Path |-> IF Follows(refresh.orders[p]) THEN files[p] ELSE None]]
    /\ UNCHANGED <<git, files, journal, calls, deaths>>

\* fast_forward, under the maintenance permit: to a descendant of the head.
FastForward ==
    /\ refresh.at = "listed"
    /\ head <= refresh.new
    /\ head' = refresh.new
    /\ refresh' = [refresh EXCEPT !.at = "moved"]
    /\ UNCHANGED <<remote, files, journal, calls, deaths>>

\* What stable_hash is taken of.
Facts(file) == IF file = None THEN None
               ELSE [order |-> file.order, base |-> file.base, origin |-> file.origin]

\* BUG: the file is not compared with what was read.
RereadUnhashed(p) ==
    /\ refresh.at = "moved"
    /\ refresh.orders = NoFiles
    /\ refresh.found[p] # None
    /\ refresh' = [refresh EXCEPT
           !.found[p] = None,
           !.orders[p] = IF files[p] # None /\ files[p].base = refresh.old THEN files[p] ELSE None]
    /\ UNCHANGED <<git, files, journal, calls, deaths>>

\* _write_rebound_order: an order that changed since is left alone.
Reread(p) ==
    /\ refresh.at = "moved"
    /\ refresh.orders = NoFiles
    /\ refresh.found[p] # None
    /\ refresh' = [refresh EXCEPT
           !.found[p] = None,
           !.orders[p] = IF /\ Facts(files[p]) = Facts(refresh.found[p])
                            /\ files[p].base = refresh.old
                         THEN files[p] ELSE None]
    /\ UNCHANGED <<git, files, journal, calls, deaths>>

\* os.replace, of whatever is there now.
Replace(p) ==
    /\ refresh.orders[p] # None
    /\ refresh.at = "moved"
    /\ files' = [files EXCEPT ![p] =
           [refresh.orders[p] EXCEPT !.base = refresh.new, !.form = "indented"]]
    /\ refresh' = [refresh EXCEPT !.orders[p] = None]
    /\ UNCHANGED <<git, journal, calls, deaths>>

\* The end; or a refusal (a dirty worktree, an attempt, a claim, an invalid
\* order, a disabled control, a failing git); or the controller dies, possibly
\* with the head moved and orders left at the old one.
EndRefresh ==
    /\ refresh.at # "idle"
    /\ refresh' = NoRefresh
    /\ UNCHANGED <<git, files, journal, calls, deaths>>

-----------------------------------------------------------------------------
(* The operator and the remote.                                             *)

Push ==
    /\ remote < MaxHead
    /\ remote' = remote + 1
    /\ UNCHANGED <<head, files, journal, calls, refresh, deaths>>

Pull ==
    /\ head' \in (head + 1)..remote
    /\ UNCHANGED <<remote, files, journal, calls, refresh, deaths>>

\* acknowledge of the parent, bound to the head.
Acknowledge ==
    /\ Unlocked
    /\ acks[head] < MaxAcks[head]
    /\ acks' = [acks EXCEPT ![head] = @ + 1]
    /\ UNCHANGED <<git, files, rows, queued, calls, refresh, deaths>>

Undisturbed == refresh.at = "loaded" => EditsWhileListing

\* An order for the head is written by hand, over any other.
Edit(o) ==
    /\ Undisturbed
    /\ files' = [files EXCEPT ![PathOf[o]] =
           [order |-> o, base |-> head, origin |-> head, form |-> "indented", by |-> "hand"]]
    /\ UNCHANGED <<git, journal, calls, refresh, deaths>>

Remove(p) ==
    /\ Undisturbed
    /\ files[p] # None
    /\ files' = [files EXCEPT ![p] = None]
    /\ UNCHANGED <<git, journal, calls, refresh, deaths>>

Next ==
    \/ \E d \in Delegator :
        \/ \E o \in Child[d] : Check(d, o)
        \/ \E i \in DOMAIN rows : Recover(d, i)
        \/ GoOn(d)
        \/ Die(d)
    \/ Fetch \/ Load \/ List \/ FastForward
    \/ \E p \in Path : Reread(p) \/ Replace(p) \/ Remove(p)
    \/ EndRefresh
    \/ Push \/ Pull \/ Acknowledge
    \/ \E o \in Order : Edit(o)

Spec == Init /\ [][Next]_vars

\* A command gets the lock if it is free again and again, and goes on; what was
\* journaled and not queued is recovered by somebody, again and again.
FairSpec ==
    /\ Spec
    /\ \A d \in Delegator : WF_vars(GoOn(d))
    /\ \A i \in 1..MaxRows : SF_vars(i \notin queued /\ \E d \in Delegator : Recover(d, i))

-----------------------------------------------------------------------------
(* Properties.                                                              *)

\* The file of a delegated child, rebound or not, is that of a delegation in
\* the journal: no crash leaves an unjournaled child.
JournaledFirst ==
    \A p \in Path : files[p] # None /\ files[p].by = "delegation" =>
        \E i \in DOMAIN rows : rows[i].order = files[p].order /\ rows[i].base = files[p].origin

\* However often an order was rebound since it was written, it follows the
\* remote, its watched paths are those it was written for, and the repository
\* has got as far as its base.
FollowersOnly ==
    \A p \in Path : files[p] # None => LET file == files[p] IN
        /\ file.base <= head
        /\ file.base # file.origin =>
               file.order \in Follow /\ ~Changed(file.order, file.origin, file.base)

\* No delegation and no recovery changes a file that exists, whatever operators
\* and refreshes do in between.
NeverOverwritten ==
    [][\A d \in Delegator : GoOn(d) =>
           \A p \in Path : files[p] = None \/ files'[p] = files[p]]_vars

\* Whatever dies, a journaled delegation is published and queued in the end, or
\* other bytes are in its way.
Occupied(i) ==
    /\ i \in DOMAIN rows
    /\ files[PathOf[rows[i].order]] \notin {None, Content(rows[i].order, rows[i].base)}

Recovered ==
    \A i \in 1..MaxRows :
        i \in DOMAIN rows ~> i \in queued \/ Occupied(i)
=============================================================================
