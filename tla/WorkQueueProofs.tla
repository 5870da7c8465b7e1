-------------------------- MODULE WorkQueueProofs --------------------------
(***************************************************************************)
(* Proofs about WorkQueue, for every set of orders, files, delegators and  *)
(* trees, and all bounds.                                                  *)
(*                                                                         *)
(*   Typed        the types, and that a command that journaled knows its   *)
(*                row                                                      *)
(*   Journaled    a delegated child's file has its row                     *)
(*   Followers    only orders that follow the remote were rebound, if      *)
(*                nobody edits between the two readings of the orders      *)
(*   Kept         neither delegation nor recovery changes a file           *)
(***************************************************************************)
EXTENDS WorkQueue, TLAPS

(* Types.                                                                   *)

Past == {"journaled", "absent", "published"}

\* A command that has journaled, or recovers, works for a row of the journal;
\* what the refresh fetched is not ahead of the remote.
Bound ==
    /\ \A d \in Delegator :
        /\ calls[d].at # "idle" => calls[d].order \in Order
        /\ calls[d].at \in Past =>
               /\ calls[d].row \in DOMAIN rows
               /\ rows[calls[d].row].order = calls[d].order
               /\ rows[calls[d].row].base = calls[d].base
    /\ refresh.new <= remote

\* The initial state is well typed.
LEMMA InitTyped == Init => TypeOK /\ Bound
<1> SUFFICES ASSUME Init PROVE TypeOK /\ Bound
  OBVIOUS
<1> USE WorkQueueAssumption
<1>1. NoCall \in Call /\ NoRefresh \in Refresh /\ NoFiles \in [Path -> File \cup {None}]
  BY DEF NoCall, Call, NoRefresh, Refresh, NoFiles, Base
<1>2. \A b \in Base : acks[b] \in Nat /\ acks[b] <= MaxAcks[b]
  BY DEF Init
<1>3. acks \in [Base -> Nat]
  BY DEF Init
<1>4. TypeOK
  BY <1>1, <1>2, <1>3 DEF Init, TypeOK, Base
<1>5. Bound
  BY DEF Init, Bound, Past, NoCall, NoRefresh
<1> QED BY <1>4, <1>5

\* Every step of a command keeps the types.
LEMMA GoOnTyped ==
    ASSUME TypeOK, Bound, NEW d \in Delegator, GoOn(d) \/ Die(d)
    PROVE  TypeOK' /\ Bound'
<1> USE WorkQueueAssumption
<1>0. NoCall \in Call
  BY DEF NoCall, Call, Base
<1>1. CASE Enter(d)
  <2> DEFINE call == calls[d]
             fresh == [order |-> call.order, base |-> call.base, ack |-> acks[call.base]]
  <2>1. call \in Call /\ call.at = "checked" /\ call.order \in Order /\ call.base \in Base
    BY <1>1 DEF Enter, TypeOK, Bound, Call
  <2>2. fresh \in Row /\ fresh.order = call.order /\ fresh.base = call.base
    BY <2>1 DEF Row, TypeOK
  <2>3. PICK i :
          /\ calls' = [calls EXCEPT ![d].at = "journaled", ![d].row = i]
          /\ \/ /\ i \in DOMAIN rows /\ rows[i].order = call.order /\ rows[i].base = call.base
                /\ rows' = rows
             \/ /\ i = Len(rows) + 1 /\ Len(rows) < MaxRows
                /\ rows' = Append(rows, fresh)
    BY <1>1 DEF Enter, Prior
  <2> HIDE DEF fresh
  <2>4. /\ rows' \in Seq(Row) /\ Len(rows') <= MaxRows
        /\ i \in DOMAIN rows' /\ i \in 0..MaxRows
        /\ rows'[i].order = call.order /\ rows'[i].base = call.base
        /\ \A j \in DOMAIN rows : j \in DOMAIN rows' /\ rows'[j] = rows[j]
    <3>1. rows \in Seq(Row) /\ Len(rows) \in Nat /\ Len(rows) <= MaxRows /\ MaxRows \in Nat
          /\ DOMAIN rows = 1..Len(rows)
      BY DEF TypeOK
    <3>2. CASE i \in DOMAIN rows /\ rows' = rows /\ rows[i].order = call.order /\ rows[i].base = call.base
      BY <3>1, <3>2
    <3>3. CASE i = Len(rows) + 1 /\ Len(rows) < MaxRows /\ rows' = Append(rows, fresh)
      <4>1. rows'[i] = fresh /\ Len(rows') = Len(rows) + 1 /\ DOMAIN rows' = 1..(Len(rows) + 1)
            /\ rows' \in Seq(Row) /\ \A j \in DOMAIN rows : rows'[j] = rows[j]
        BY <2>2, <3>1, <3>3
      <4> QED BY <2>2, <3>1, <3>3, <4>1
    <3> QED BY <2>3, <3>2, <3>3
  <2>5. calls' \in [Delegator -> Call]
    BY <2>1, <2>3, <2>4 DEF TypeOK, Call
  <2>6. TypeOK'
    <3>1. queued' \subseteq DOMAIN rows'
      BY <1>1, <2>4 DEF Enter, TypeOK
    <3> QED BY <1>1, <2>4, <2>5, <3>1 DEF Enter, TypeOK, git
  <2>7. /\ calls'[d].order = call.order /\ calls'[d].base = call.base /\ calls'[d].row = i
        /\ \A e \in Delegator \ {d} : calls'[e] = calls[e]
    BY <2>1, <2>3 DEF TypeOK, Call
  <2> HIDE DEF call
  <2>8. refresh'.new <= remote'
    BY <1>1 DEF Enter, Bound, git
  <2>9. ASSUME NEW e \in Delegator
        PROVE  /\ calls'[e].at # "idle" => calls'[e].order \in Order
               /\ calls'[e].at \in Past =>
                    /\ calls'[e].row \in DOMAIN rows'
                    /\ rows'[calls'[e].row].order = calls'[e].order
                    /\ rows'[calls'[e].row].base = calls'[e].base
    <3>1. CASE e = d
      BY <2>1, <2>4, <2>7, <3>1
    <3>2. CASE e # d
      BY <2>4, <2>7, <3>2 DEF Bound
    <3> QED BY <3>1, <3>2
  <2> QED BY <2>6, <2>8, <2>9 DEF Bound
<1>2. CASE Look(d)
  <2>1. PICK to \in {"absent", "published"} : Goto(d, "journaled", to)
    BY <1>2 DEF Look
  <2>2. TypeOK'
    BY <1>2, <2>1 DEF Look, Goto, TypeOK, Call, git, journal
  <2>3. Bound'
    BY <1>2, <2>1 DEF Look, Goto, TypeOK, Bound, Past, Call, git, journal
  <2> QED BY <2>2, <2>3
<1>3. CASE Link(d)
  <2>1. calls[d].order \in Order /\ calls[d].base \in Base
    BY <1>3 DEF Link, Goto, TypeOK, Bound, Call
  <2>2. Content(calls[d].order, calls[d].base) \in File
    BY <2>1 DEF Content, File
  <2> QED BY <1>3, <2>2 DEF Link, Goto, TypeOK, Bound, Past, Call, git, journal
<1>4. CASE Queue(d)
  <2>1. calls[d].row \in DOMAIN rows
    BY <1>4 DEF Queue, Bound, Past
  <2> QED BY <1>0, <1>4, <2>1 DEF Queue, TypeOK, Bound, Past, NoCall, git
<1>5. CASE Refuse(d) \/ Die(d)
  <2>1. calls' = [calls EXCEPT ![d] = NoCall] /\ UNCHANGED <<git, files, journal, refresh>>
    BY <1>5 DEF Refuse, Die
  <2>2. deaths' \in 0..MaxDeaths
    BY <1>5 DEF Refuse, Die, TypeOK
  <2> QED BY <1>0, <2>1, <2>2 DEF TypeOK, Bound, Past, NoCall, git, journal
<1> QED BY <1>1, <1>2, <1>3, <1>4, <1>5 DEF GoOn

\* Every step of the refresh keeps the types.
LEMMA RefreshTyped ==
    ASSUME TypeOK, Bound,
           \/ Fetch \/ Load \/ List \/ FastForward \/ EndRefresh
           \/ \E p \in Path : Reread(p) \/ Replace(p)
    PROVE  TypeOK' /\ Bound'
<1> USE WorkQueueAssumption
<1>0. NoRefresh \in Refresh /\ NoFiles \in [Path -> File \cup {None}]
  BY DEF NoRefresh, Refresh, NoFiles, Base
<1>1. CASE Fetch
  <2>1. head \in Base /\ remote \in Base
    BY DEF TypeOK, Base
  <2>2. refresh' = [at |-> "fetched", old |-> head, new |-> remote,
                    orders |-> NoFiles, found |-> NoFiles]
    BY <1>1 DEF Fetch, NoRefresh
  <2>3. refresh' \in Refresh /\ refresh'.new = remote
    BY <1>0, <2>1, <2>2 DEF Refresh
  <2> QED BY <1>1, <2>3 DEF Fetch, TypeOK, Bound, git, journal, Base
<1>2. CASE Load
  <2>1. refresh' \in Refresh /\ refresh'.new = refresh.new
    BY <1>2 DEF Load, Refresh, TypeOK
  <2> QED BY <1>2, <2>1 DEF Load, TypeOK, Bound, git, journal
<1>3. CASE List
  <2>1. refresh' \in Refresh /\ refresh'.new = refresh.new
    BY <1>0, <1>3 DEF List, Refresh, TypeOK
  <2> QED BY <1>3, <2>1 DEF List, TypeOK, Bound, git, journal
<1>4. CASE FastForward
  <2>1. refresh' \in Refresh /\ refresh'.new = refresh.new
    BY <1>4 DEF FastForward, Refresh, TypeOK
  <2>2. refresh.new \in 0..remote
    BY DEF TypeOK, Bound, Refresh, Base
  <2> QED BY <1>4, <2>1, <2>2 DEF FastForward, TypeOK, Bound, journal
<1>5. CASE EndRefresh
  <2>1. NoRefresh.new <= remote
    BY DEF NoRefresh, TypeOK, Base
  <2> QED BY <1>0, <1>5, <2>1 DEF EndRefresh, TypeOK, Bound, git, journal
<1>6. ASSUME NEW p \in Path, Reread(p) PROVE TypeOK' /\ Bound'
  <2>1. refresh' \in Refresh /\ refresh'.new = refresh.new
    BY <1>6 DEF Reread, Refresh, TypeOK
  <2> QED BY <1>6, <2>1 DEF Reread, TypeOK, Bound, git, journal
<1>7. ASSUME NEW p \in Path, Replace(p) PROVE TypeOK' /\ Bound'
  <2>1. refresh' \in Refresh /\ refresh'.new = refresh.new
    BY <1>7 DEF Replace, Refresh, TypeOK
  <2> DEFINE file == refresh.orders[p]
  <2>2. file \in File /\ refresh.new \in Base
    BY <1>7 DEF Replace, TypeOK, Refresh
  <2>3. [file EXCEPT !.base = refresh.new, !.form = "indented"] \in File
    <3> HIDE DEF file
    <3> QED BY <2>2 DEF File
  <2> QED BY <1>7, <2>1, <2>3 DEF Replace, TypeOK, Bound, git, journal
<1> QED BY <1>1, <1>2, <1>3, <1>4, <1>5, <1>6, <1>7

\* Every step keeps the types.
LEMMA NextTyped == TypeOK /\ Bound /\ [Next]_vars => TypeOK' /\ Bound'
<1> SUFFICES ASSUME TypeOK, Bound, [Next]_vars PROVE TypeOK' /\ Bound'
  OBVIOUS
<1> USE WorkQueueAssumption
<1>1. ASSUME NEW d \in Delegator, NEW o \in Child[d], Check(d, o) PROVE TypeOK' /\ Bound'
  <2>1. o \in Order /\ head \in Base /\ MaxRows \in Nat
    <3>1. Child[d] \subseteq Order
      BY DEF TypeOK
    <3> QED BY <3>1 DEF TypeOK, Base
  <2> DEFINE new == [NoCall EXCEPT !.at = "checked", !.order = o, !.base = head]
  <2>2. new \in Call
    <3>1. NoCall \in Call
      BY <2>1 DEF NoCall, Call, Base
    <3> QED BY <2>1, <3>1 DEF Call
  <2>3. new.at = "checked" /\ new.order = o
    BY DEF NoCall
  <2>4. calls' = [calls EXCEPT ![d] = new] /\ UNCHANGED <<git, files, journal, refresh, deaths>>
    BY <1>1 DEF Check
  <2> HIDE DEF new
  <2> QED BY <2>1, <2>2, <2>3, <2>4 DEF TypeOK, Bound, Past, git, journal
<1>2. ASSUME NEW d \in Delegator, NEW i \in DOMAIN rows, Recover(d, i) PROVE TypeOK' /\ Bound'
  <2>1. rows[i] \in Row /\ i \in 0..MaxRows
    <3>1. rows \in Seq(Row) /\ i \in 1..Len(rows) /\ Len(rows) <= MaxRows /\ MaxRows \in Nat
      BY DEF TypeOK
    <3> QED BY <3>1
  <2>2. [at |-> "journaled", order |-> rows[i].order, base |-> rows[i].base, row |-> i] \in Call
    BY <2>1 DEF Call, Row
  <2> QED BY <1>2, <2>1, <2>2 DEF Recover, TypeOK, Bound, Past, Row, git, journal
<1>3. ASSUME NEW d \in Delegator, GoOn(d) \/ Die(d) PROVE TypeOK' /\ Bound'
  BY <1>3, GoOnTyped
<1>4. CASE \/ Fetch \/ Load \/ List \/ FastForward \/ EndRefresh
           \/ \E p \in Path : Reread(p) \/ Replace(p)
  BY <1>4, RefreshTyped
<1>5. CASE Push \/ Pull
  <2>1. refresh.new \in Nat /\ remote \in Nat /\ MaxHead \in Nat /\ remote <= MaxHead
    BY DEF TypeOK, Refresh, Base
  <2>2. remote' \in Base /\ head' \in 0..remote' /\ refresh.new <= remote'
    <3>1. CASE Push
      BY <2>1, <3>1 DEF Push, TypeOK, Bound, Base
    <3>2. CASE Pull
      BY <2>1, <3>2 DEF Pull, TypeOK, Bound, Base
    <3> QED BY <1>5, <3>1, <3>2
  <2>3. UNCHANGED <<files, journal, calls, refresh, deaths>>
    BY <1>5 DEF Push, Pull
  <2> QED BY <2>2, <2>3 DEF TypeOK, Bound, journal
<1>6. CASE Acknowledge
  <2>1. head \in Base
    BY DEF TypeOK, Base
  <2>2. acks' \in [Base -> Nat] /\ \A b \in Base : acks'[b] <= MaxAcks[b]
    BY <1>6, <2>1 DEF Acknowledge, TypeOK
  <2> QED BY <1>6, <2>2 DEF Acknowledge, TypeOK, Bound, git
<1>7. ASSUME NEW o \in Order, Edit(o) PROVE TypeOK' /\ Bound'
  <2>1. [order |-> o, base |-> head, origin |-> head, form |-> "indented", by |-> "hand"] \in File
    BY DEF File, TypeOK, Base
  <2>2. PathOf[o] \in Path
    BY DEF Path
  <2> QED BY <1>7, <2>1, <2>2 DEF Edit, TypeOK, Bound, git, journal
<1>8. ASSUME NEW p \in Path, Remove(p) PROVE TypeOK' /\ Bound'
  BY <1>8 DEF Remove, TypeOK, Bound, git, journal
<1>9. CASE UNCHANGED vars
  BY <1>9 DEF vars, git, journal, TypeOK, Bound
<1> QED BY <1>1, <1>2, <1>3, <1>4, <1>5, <1>6, <1>7, <1>8, <1>9 DEF Next

\* TypeOK holds in every reachable state.
THEOREM Typed == Spec => [](TypeOK /\ Bound)
BY InitTyped, NextTyped, PTL DEF Spec

-----------------------------------------------------------------------------
(* Delegations.                                                             *)

Delegated(o, b) == \E i \in DOMAIN rows : rows[i].order = o /\ rows[i].base = b

Genuine(file) == file # None /\ file.by = "delegation" => Delegated(file.order, file.origin)

\* JournaledFirst, and the same of what the refresh has read and will write back.
JournaledInv == \A p \in Path : Genuine(files[p]) /\ Genuine(refresh.orders[p])

\* No step takes a row from the journal.
LEMMA RowsStay ==
    ASSUME TypeOK, Bound, [Next]_vars, NEW o, NEW b, Delegated(o, b)
    PROVE  Delegated(o, b)'
<1>1. CASE rows' = rows
  BY <1>1 DEF Delegated
<1>2. ASSUME NEW d \in Delegator, Enter(d), rows' # rows PROVE Delegated(o, b)'
  <2> DEFINE row == [order |-> calls[d].order, base |-> calls[d].base, ack |-> acks[calls[d].base]]
  <2>1. rows' = Append(rows, row)
    BY <1>2 DEF Enter
  <2>2. row \in Row
    BY <1>2 DEF Enter, Bound, TypeOK, Call, Row
  <2> HIDE DEF row
  <2>3. \A i \in DOMAIN rows : i \in DOMAIN rows' /\ rows'[i] = rows[i]
    BY <2>1, <2>2 DEF TypeOK
  <2> QED BY <2>3 DEF Delegated
<1>3. rows' = rows \/ \E d \in Delegator : Enter(d)
  BY DEF Next, vars, journal, GoOn, Check, Recover, Look, Link, Queue, Refuse, Die, Fetch, Load,
         List, FastForward, Reread, Replace, Remove, EndRefresh, Push, Pull, Acknowledge, Edit
<1> QED BY <1>1, <1>2, <1>3

\* Every step keeps the invariant.
LEMMA NextJournaled == TypeOK /\ Bound /\ JournaledInv /\ [Next]_vars => JournaledInv'
<1> SUFFICES ASSUME TypeOK, Bound, JournaledInv, [Next]_vars, NEW p \in Path
             PROVE  Genuine(files[p])' /\ Genuine(refresh.orders[p])'
  BY DEF JournaledInv
<1>1. ASSUME NEW file, Genuine(file), NEW copy,
             copy # None => file # None /\ copy.by = file.by
                            /\ copy.order = file.order /\ copy.origin = file.origin
      PROVE  copy # None /\ copy.by = "delegation" => Delegated(copy.order, copy.origin)'
  BY <1>1, RowsStay DEF Genuine
<1>2. CASE files' = files /\ refresh' = refresh
  BY <1>2, <1>1 DEF JournaledInv, Genuine
<1>3. ASSUME NEW d \in Delegator, Link(d) PROVE Genuine(files[p])' /\ Genuine(refresh.orders[p])'
  <2> DEFINE path == PathOf[calls[d].order]
             content == Content(calls[d].order, calls[d].base)
  <2>1. refresh' = refresh
    BY <1>3 DEF Link
  <2>2. Delegated(calls[d].order, calls[d].base)
    BY <1>3 DEF Link, Goto, Bound, Past, Delegated
  <2>3. content.order = calls[d].order /\ content.origin = calls[d].base
    BY DEF Content
  <2>4. Genuine(content)
    BY <2>2, <2>3 DEF Genuine
  <2>5. files'[p] \in {files[p], content}
    BY <1>3 DEF Link, TypeOK
  <2>6. Genuine(files[p]) /\ Genuine(refresh.orders[p])
    BY DEF JournaledInv
  <2> HIDE DEF content
  <2> QED BY <1>1, <2>1, <2>4, <2>5, <2>6 DEF Genuine
<1>4. CASE Fetch \/ List \/ EndRefresh
  <2>1. files' = files /\ refresh'.orders = NoFiles
    <3>1. CASE Fetch \/ EndRefresh
      <4>1. NoRefresh.orders = NoFiles
        BY DEF NoRefresh
      <4>2. [NoRefresh EXCEPT !.at = "fetched", !.old = head, !.new = remote].orders = NoFiles
        BY DEF NoRefresh
      <4> QED BY <3>1, <4>1, <4>2 DEF Fetch, EndRefresh
    <3>2. CASE List
      BY <3>2 DEF List, TypeOK, Refresh
    <3> QED BY <1>4, <3>1, <3>2
  <2> QED BY <1>1, <2>1 DEF JournaledInv, Genuine, NoFiles
<1>5. CASE Load \/ FastForward
  <2>1. files' = files /\ refresh'.orders \in {files, refresh.orders}
    BY <1>5 DEF Load, FastForward, TypeOK, Refresh
  <2> QED BY <1>1, <2>1 DEF JournaledInv, Genuine
<1>6. ASSUME NEW q \in Path, Reread(q) PROVE Genuine(files[p])' /\ Genuine(refresh.orders[p])'
  <2>1. files' = files /\ refresh'.orders[p] \in {files[p], refresh.orders[p], None}
    BY <1>6 DEF Reread, TypeOK, Refresh
  <2> QED BY <1>1, <2>1 DEF JournaledInv, Genuine
<1>7. ASSUME NEW q \in Path, Replace(q) PROVE Genuine(files[p])' /\ Genuine(refresh.orders[p])'
  <2> DEFINE file == refresh.orders[q]
             copy == [file EXCEPT !.base = refresh.new, !.form = "indented"]
  <2>1. refresh'.orders[p] \in {refresh.orders[p], None} /\ files'[p] \in {files[p], copy}
    BY <1>7 DEF Replace, TypeOK, Refresh
  <2>2. file \in File /\ file # None
    BY <1>7 DEF Replace, TypeOK, Refresh
  <2>3. copy.by = file.by /\ copy.order = file.order /\ copy.origin = file.origin
    <3> HIDE DEF file
    <3> QED BY <2>2 DEF File
  <2>4. Genuine(file) /\ Genuine(files[p]) /\ Genuine(refresh.orders[p])
    BY DEF JournaledInv
  <2> HIDE DEF copy, file
  <2> QED BY <1>1, <2>1, <2>2, <2>3, <2>4 DEF Genuine
<1>8. ASSUME NEW o \in Order, Edit(o) PROVE Genuine(files[p])' /\ Genuine(refresh.orders[p])'
  <2> DEFINE file == [order |-> o, base |-> head, origin |-> head, form |-> "indented", by |-> "hand"]
  <2>1. refresh' = refresh /\ files'[p] \in {files[p], file} /\ file.by = "hand"
    BY <1>8 DEF Edit, TypeOK
  <2> HIDE DEF file
  <2> QED BY <1>1, <2>1 DEF JournaledInv, Genuine
<1>9. ASSUME NEW q \in Path, Remove(q) PROVE Genuine(files[p])' /\ Genuine(refresh.orders[p])'
  <2>1. refresh' = refresh /\ files'[p] \in {files[p], None}
    BY <1>9 DEF Remove, TypeOK
  <2> QED BY <1>1, <2>1 DEF JournaledInv, Genuine
<1> QED BY <1>2, <1>3, <1>4, <1>5, <1>6, <1>7, <1>8, <1>9
        DEF Next, GoOn, Check, Recover, Enter, Look, Queue, Refuse, Die, Push, Pull, Acknowledge, vars

\* The file of a delegated child has its row, whoever died when, and however
\* often the file was rebound.
THEOREM Journaled == Spec => []JournaledFirst
<1>1. Init => JournaledInv
  BY DEF Init, JournaledInv, Genuine, NoRefresh, NoFiles
<1>2. JournaledInv => JournaledFirst
  BY DEF JournaledInv, JournaledFirst, Genuine, Delegated
<1> QED BY <1>1, <1>2, NextJournaled, Typed, PTL DEF Spec

-----------------------------------------------------------------------------
(* Followers.                                                               *)

\* What FollowersOnly says of one file.
Rightful(file) ==
    /\ file.base <= head
    /\ file.base # file.origin =>
           file.order \in Follow /\ ~Changed(file.order, file.origin, file.base)

\* What was listed to be rebound follows the remote from the old head to the
\* new one, because what was loaded has not changed when it is read again; what
\* is about to be replaced does, because its facts are those that were listed.
FollowersInv ==
    /\ \A p \in Path : files[p] # None => Rightful(files[p])
    /\ \A d \in Delegator : calls[d].at # "idle" => calls[d].base <= head
    /\ \A i \in DOMAIN rows : rows[i].base <= head
    /\ refresh.at = "loaded" =>
           \A p \in Path : refresh.orders[p] # None => files[p] = refresh.orders[p]
    /\ refresh.at \in {"listed", "moved"} =>
           \A p \in Path : /\ refresh.found[p] # None => Follows(refresh.found[p])
                           /\ refresh.orders[p] # None =>
                                 Follows(refresh.orders[p]) /\ Rightful(refresh.orders[p])
    /\ refresh.at = "moved" => refresh.new <= head

\* The head never goes back.
LEMMA HeadGrows == TypeOK /\ [Next]_vars => head \in Nat /\ head' \in Nat /\ head <= head'
<1> SUFFICES ASSUME TypeOK, [Next]_vars PROVE head \in Nat /\ head' \in Nat /\ head <= head'
  OBVIOUS
<1>1. head \in Nat /\ refresh.new \in Nat /\ remote \in Nat
  BY WorkQueueAssumption DEF TypeOK, Refresh, Base
<1>2. CASE FastForward
  BY <1>1, <1>2 DEF FastForward
<1>3. CASE Pull
  BY <1>1, <1>3 DEF Pull
<1>4. CASE head' = head
  BY <1>1, <1>4
<1>5. FastForward \/ Pull \/ head' = head
  BY DEF Next, vars, git, GoOn, Check, Recover, Enter, Look, Link, Queue, Refuse, Die, Fetch, Load,
         List, Reread, Replace, Remove, EndRefresh, Push, Acknowledge, Edit
<1> QED BY <1>2, <1>3, <1>4, <1>5

\* The parts about commands and rows.
LEMMA CommandsBehind ==
    TypeOK /\ Bound /\ FollowersInv /\ [Next]_vars =>
        /\ \A d \in Delegator : calls'[d].at # "idle" => calls'[d].base <= head'
        /\ \A i \in DOMAIN rows' : rows'[i].base <= head'
<1> SUFFICES ASSUME TypeOK, Bound, FollowersInv, [Next]_vars
             PROVE  /\ \A d \in Delegator : calls'[d].at # "idle" => calls'[d].base <= head'
                    /\ \A i \in DOMAIN rows' : rows'[i].base <= head'
  OBVIOUS
<1>1. head \in Nat /\ head' \in Nat /\ head <= head'
  BY HeadGrows
<1>2. /\ \A i \in DOMAIN rows : rows[i].base \in Nat
      /\ \A d \in Delegator : calls[d].base \in Nat
  <2>1. \A i \in DOMAIN rows : rows[i] \in Row
    BY DEF TypeOK
  <2> QED BY <2>1, WorkQueueAssumption DEF TypeOK, Row, Call, Base
<1>3. /\ \A i \in DOMAIN rows : rows[i].base <= head'
      /\ \A d \in Delegator : calls[d].at # "idle" => calls[d].base <= head'
  BY <1>1, <1>2 DEF FollowersInv
<1>4. CASE UNCHANGED <<calls, rows>>
  BY <1>3, <1>4
<1>5. ASSUME NEW d \in Delegator, NEW o \in Order, Check(d, o)
      PROVE  /\ \A e \in Delegator : calls'[e].at # "idle" => calls'[e].base <= head'
             /\ rows' = rows
  BY <1>1, <1>3, <1>5 DEF Check, TypeOK, NoCall, git, journal
<1>6. ASSUME NEW d \in Delegator, NEW i \in DOMAIN rows, Recover(d, i)
      PROVE  /\ \A e \in Delegator : calls'[e].at # "idle" => calls'[e].base <= head'
             /\ rows' = rows
  BY <1>3, <1>6 DEF Recover, TypeOK, journal
<1>7. ASSUME NEW d \in Delegator, Enter(d)
      PROVE  /\ \A e \in Delegator : calls'[e].at # "idle" => calls'[e].base <= head'
             /\ \A i \in DOMAIN rows' : rows'[i].base <= head'
  <2> DEFINE row == [order |-> calls[d].order, base |-> calls[d].base, ack |-> acks[calls[d].base]]
  <2>1. PICK n : calls' = [calls EXCEPT ![d].at = "journaled", ![d].row = n]
    BY <1>7 DEF Enter
  <2>2. \A e \in Delegator : calls'[e].base = calls[e].base /\ (calls'[e].at # "idle" => calls[e].at # "idle")
    BY <1>7, <2>1 DEF Enter, TypeOK, Call
  <2>3. rows' \in {rows, Append(rows, row)}
    BY <1>7 DEF Enter
  <2>4. row \in Row /\ row.base = calls[d].base /\ calls[d].base <= head'
    BY <1>3, <1>7 DEF Enter, Bound, TypeOK, Call, Row
  <2> HIDE DEF row
  <2>5. CASE rows' = Append(rows, row)
    <3>0. rows \in Seq(Row) /\ row \in Row
      BY <2>4 DEF TypeOK
    <3>1. \A i \in DOMAIN rows' : rows'[i] = row \/ (i \in DOMAIN rows /\ rows'[i] = rows[i])
      BY <2>5, <3>0
    <3>2. \A i \in DOMAIN rows' : rows'[i].base <= head'
      BY <1>3, <2>4, <3>1
    <3>3. \A e \in Delegator : calls'[e].at # "idle" => calls'[e].base <= head'
      BY <1>3, <2>2
    <3> QED BY <3>2, <3>3
  <2> QED BY <1>3, <2>2, <2>3, <2>5
<1>8. ASSUME NEW d \in Delegator, Look(d) \/ Link(d) \/ Queue(d) \/ Refuse(d) \/ Die(d)
      PROVE  /\ \A e \in Delegator : calls'[e].at # "idle" =>
                     calls[e].at # "idle" /\ calls'[e].base = calls[e].base
             /\ rows' = rows
  <2>1. CASE Look(d) \/ Link(d)
    <3>1. PICK from \in {"journaled", "absent"}, to \in {"absent", "published"} : Goto(d, from, to)
      BY <2>1 DEF Look, Link
    <3>2. \A e \in Delegator : calls'[e].at # "idle" =>
              calls[e].at # "idle" /\ calls'[e].base = calls[e].base
      BY <3>1 DEF Goto, TypeOK, Call
    <3> QED BY <2>1, <3>2 DEF Look, Link, journal
  <2>2. CASE Queue(d) \/ Refuse(d) \/ Die(d)
    BY <2>2 DEF Queue, Refuse, Die, NoCall, TypeOK, journal
  <2> QED BY <1>8, <2>1, <2>2
<1>9. \/ UNCHANGED <<calls, rows>>
      \/ \E d \in Delegator :
            \/ \E o \in Order : Check(d, o)
            \/ \E i \in DOMAIN rows : Recover(d, i)
            \/ GoOn(d) \/ Die(d)
  <2>1. \A d \in Delegator : Child[d] \subseteq Order
    BY WorkQueueAssumption
  <2> QED BY <2>1 DEF Next, vars, journal, Fetch, Load, List, FastForward, Reread, Replace, Remove,
             EndRefresh, Push, Pull, Acknowledge, Edit
<1> QED BY <1>3, <1>4, <1>5, <1>6, <1>7, <1>8, <1>9 DEF GoOn

\* The part about files: every step leaves each file rightful.
LEMMA FilesRightful ==
    ASSUME TypeOK, Bound, FollowersInv, [Next]_vars, NEW p \in Path, files'[p] # None
    PROVE  Rightful(files[p])'
<1>1. head \in Nat /\ head' \in Nat /\ head <= head'
  BY HeadGrows
<1>2. ASSUME NEW file \in File, Rightful(file)
      PROVE  /\ file.base <= head'
             /\ file.base # file.origin =>
                    file.order \in Follow /\ ~Changed(file.order, file.origin, file.base)
  <2>1. file.base \in Nat
    BY WorkQueueAssumption DEF File, Base
  <2> QED BY <1>1, <1>2, <2>1 DEF Rightful
<1>3. CASE files'[p] = files[p]
  BY <1>2, <1>3 DEF FollowersInv, Rightful, TypeOK, Changed
<1>4. ASSUME NEW d \in Delegator, Link(d), files'[p] # files[p] PROVE Rightful(files[p])'
  <2>1. files'[p] = Content(calls[d].order, calls[d].base)
    BY <1>4 DEF Link, TypeOK
  <2>2. calls[d].base \in Nat /\ calls[d].base <= head
    BY <1>4, WorkQueueAssumption DEF Link, Goto, FollowersInv, TypeOK, Call, Base
  <2> QED BY <1>1, <2>1, <2>2 DEF Rightful, Content
<1>5. ASSUME NEW o \in Order, Edit(o), files'[p] # files[p] PROVE Rightful(files[p])'
  <2>1. files'[p] = [order |-> o, base |-> head, origin |-> head, form |-> "indented", by |-> "hand"]
    BY <1>5 DEF Edit, TypeOK
  <2> QED BY <1>1, <2>1 DEF Rightful
<1>6. ASSUME Replace(p) PROVE Rightful(files[p])'
  <2> DEFINE file == refresh.orders[p]
             copy == [file EXCEPT !.base = refresh.new, !.form = "indented"]
  <2>1. files'[p] = copy /\ file # None /\ refresh.at = "moved"
    BY <1>6 DEF Replace, TypeOK
  <2>2. file \in File /\ refresh.new \in Nat
    BY <2>1, WorkQueueAssumption DEF TypeOK, Refresh, Base
  <2>3. Follows(file) /\ Rightful(file) /\ refresh.new <= head
    BY <2>1 DEF FollowersInv
  <2> HIDE DEF file
  <2>4. copy.base = refresh.new /\ copy.origin = file.origin /\ copy.order = file.order
    BY <2>2 DEF File
  <2> HIDE DEF copy
  <2>5. file.order \in Follow /\ Tree[file.order][file.base] = Tree[file.order][refresh.new]
    BY <2>3 DEF Follows, Changed
  <2>6. Tree[file.order][file.origin] = Tree[file.order][refresh.new]
    BY <2>3, <2>5 DEF Rightful, Changed
  <2>7. /\ copy.base <= head'
        /\ copy.order \in Follow
        /\ ~Changed(copy.order, copy.origin, copy.base)
    BY <1>1, <2>2, <2>3, <2>4, <2>5, <2>6 DEF Changed
  <2> QED BY <2>1, <2>7 DEF Rightful, Changed
<1>7. ASSUME NEW q \in Path, Replace(q), q # p PROVE files'[p] = files[p]
  BY <1>7 DEF Replace, TypeOK
<1>8. ASSUME NEW q \in Path, Remove(q) PROVE files'[p] = files[p]
  BY <1>8 DEF Remove, TypeOK
<1>9. \/ files' = files
      \/ \E d \in Delegator : Link(d)
      \/ \E o \in Order : Edit(o)
      \/ \E q \in Path : Replace(q) \/ Remove(q)
  BY DEF Next, vars, GoOn, Check, Recover, Enter, Look, Queue, Refuse, Die, Fetch, Load, List,
         FastForward, Reread, EndRefresh, Push, Pull, Acknowledge
<1> QED BY <1>3, <1>4, <1>5, <1>6, <1>7, <1>8, <1>9

\* What FollowersInv says of the refresh.
RefreshInv ==
    /\ refresh.at = "loaded" =>
           \A p \in Path : refresh.orders[p] # None => files[p] = refresh.orders[p]
    /\ refresh.at \in {"listed", "moved"} =>
           \A p \in Path : /\ refresh.found[p] # None => Follows(refresh.found[p])
                           /\ refresh.orders[p] # None =>
                                 Follows(refresh.orders[p]) /\ Rightful(refresh.orders[p])
    /\ refresh.at = "moved" => refresh.new <= head

\* The part about the refresh, while it stands still: nobody edits what it has
\* loaded, and what it has listed follows whatever happens to the files.
LEMMA RefreshWaits ==
    ASSUME ~EditsWhileListing, TypeOK, Bound, RefreshInv, [Next]_vars, refresh' = refresh
    PROVE  RefreshInv'
<1>1. head \in Nat /\ head' \in Nat /\ head <= head'
  BY HeadGrows
<1>2. refresh \in Refresh /\ refresh.new \in Nat
  BY WorkQueueAssumption DEF TypeOK, Refresh, Base
<1>3. ASSUME refresh.at = "loaded", NEW p \in Path, refresh.orders[p] # None
      PROVE  files'[p] = refresh.orders[p]
  <2>1. files[p] = refresh.orders[p]
    BY <1>3 DEF RefreshInv
  <2>2. ASSUME NEW d \in Delegator, Link(d) PROVE files'[p] = files[p]
    BY <1>3, <2>1, <2>2 DEF Link, TypeOK
  <2>3. ASSUME NEW q \in Path PROVE ~Replace(q)
    BY <1>3 DEF Replace
  <2>4. ~Undisturbed
    BY <1>3 DEF Undisturbed
  <2>5. files' = files \/ \E d \in Delegator : Link(d)
    BY <2>3, <2>4 DEF Next, vars, GoOn, Check, Recover, Enter, Look, Queue, Refuse, Die, Fetch,
       Load, List, FastForward, Reread, EndRefresh, Push, Pull, Acknowledge, Edit, Remove
  <2> QED BY <2>1, <2>2, <2>5
<1>4. ASSUME refresh.at \in {"listed", "moved"}, NEW p \in Path, refresh.orders[p] # None
      PROVE  Rightful(refresh.orders[p])'
  <2>1. refresh.orders[p] \in File /\ Rightful(refresh.orders[p])
    BY <1>2, <1>4 DEF RefreshInv, Refresh
  <2>2. refresh.orders[p].base \in Nat
    BY <2>1, WorkQueueAssumption DEF File, Base
  <2> QED BY <1>1, <2>1, <2>2 DEF Rightful, Changed
<1>5. refresh.at = "moved" => refresh.new <= head'
  BY <1>1, <1>2 DEF RefreshInv
<1> QED BY <1>3, <1>4, <1>5 DEF RefreshInv, Follows, Changed

\* The part about the refresh, when it takes a step: what is listed is what was
\* loaded, and what is about to be replaced has the facts of what was listed.
LEMMA RefreshSteps ==
    ASSUME TypeOK, Bound, FollowersInv, [Next]_vars, refresh' # refresh
    PROVE  RefreshInv'
<1> USE WorkQueueAssumption
<1>0. refresh \in Refresh /\ refresh.new \in Nat /\ head \in Nat /\ RefreshInv
  BY DEF TypeOK, Refresh, Base, FollowersInv, RefreshInv
<1>1. CASE Fetch \/ EndRefresh
  <2>1. refresh'.at \in {"fetched", "idle"}
    <3>1. NoRefresh.at = "idle"
      BY DEF NoRefresh
    <3>2. [NoRefresh EXCEPT !.at = "fetched", !.old = head, !.new = remote].at = "fetched"
      BY DEF NoRefresh
    <3> QED BY <1>1, <3>1, <3>2 DEF Fetch, EndRefresh
  <2> QED BY <2>1 DEF RefreshInv
<1>2. CASE Load
  <2>1. refresh'.at = "loaded" /\ refresh'.orders = files /\ files' = files
    BY <1>0, <1>2 DEF Load, Refresh
  <2> QED BY <2>1 DEF RefreshInv
<1>3. CASE List
  <2>1. /\ refresh.at = "loaded" /\ refresh'.at = "listed"
        /\ refresh'.orders = NoFiles /\ refresh'.old = refresh.old /\ refresh'.new = refresh.new
        /\ \A p \in Path : refresh'.found[p] = IF Follows(refresh.orders[p]) THEN files[p] ELSE None
    BY <1>0, <1>3 DEF List, Refresh
  <2>2. ASSUME NEW p \in Path, refresh'.found[p] # None PROVE Follows(refresh.found[p])'
    <3>1. Follows(refresh.orders[p]) /\ refresh'.found[p] = files[p]
      BY <2>1, <2>2
    <3>2. files[p] = refresh.orders[p]
      BY <1>0, <2>1, <3>1 DEF RefreshInv, Follows
    <3> QED BY <2>1, <3>1, <3>2 DEF Follows, Changed
  <2> QED BY <2>1, <2>2 DEF RefreshInv, NoFiles
<1>4. CASE FastForward
  <2>1. /\ refresh.at = "listed" /\ refresh'.at = "moved" /\ head' = refresh.new
        /\ refresh'.orders = refresh.orders /\ refresh'.found = refresh.found
        /\ refresh'.old = refresh.old /\ refresh'.new = refresh.new /\ head <= refresh.new
    BY <1>0, <1>4 DEF FastForward, Refresh
  <2>2. ASSUME NEW p \in Path, refresh.orders[p] # None PROVE Rightful(refresh.orders[p])'
    <3>1. Rightful(refresh.orders[p]) /\ refresh.orders[p] \in File
      BY <1>0, <2>1, <2>2 DEF RefreshInv, Refresh
    <3>2. refresh.orders[p].base \in Nat
      BY <3>1 DEF File, Base
    <3> QED BY <1>0, <2>1, <3>1, <3>2 DEF Rightful, Changed
  <2> QED BY <1>0, <2>1, <2>2 DEF RefreshInv, Follows, Changed
<1>5. ASSUME NEW q \in Path, Reread(q) PROVE RefreshInv'
  <2>1. /\ refresh.at = "moved" /\ refresh'.at = "moved" /\ head' = head
        /\ refresh'.old = refresh.old /\ refresh'.new = refresh.new
        /\ refresh.found[q] # None
        /\ \A p \in Path :
             /\ refresh'.found[p] = IF p = q THEN None ELSE refresh.found[p]
             /\ p # q => refresh'.orders[p] = refresh.orders[p]
        /\ refresh'.orders[q] # None =>
             /\ refresh'.orders[q] = files[q]
             /\ Facts(files[q]) = Facts(refresh.found[q]) /\ files[q].base = refresh.old
    BY <1>0, <1>5 DEF Reread, Refresh, git
  <2>2. ASSUME refresh'.orders[q] # None
        PROVE  Follows(refresh.orders[q])' /\ Rightful(refresh.orders[q])'
    <3>1. files[q] # None /\ Rightful(files[q]) /\ refresh'.orders[q] = files[q]
      BY <2>1, <2>2 DEF FollowersInv
    <3>2. Follows(refresh.found[q])
      <4>1. refresh.at \in {"listed", "moved"} /\ RefreshInv
        BY <1>0, <2>1
      <4>2. \A p \in Path : refresh.found[p] # None => Follows(refresh.found[p])
        BY <4>1 DEF RefreshInv
      <4> QED BY <2>1, <4>2
    <3>3. files[q].order = refresh.found[q].order
      BY <2>1, <2>2, <3>1 DEF Facts
    <3>4. Follows(files[q])
      BY <2>1, <2>2, <3>1, <3>2, <3>3 DEF Follows
    <3> QED BY <2>1, <3>1, <3>4 DEF Follows, Rightful, Changed
  <2> QED BY <1>0, <2>1, <2>2 DEF RefreshInv, Follows, Rightful, Changed
<1>6. ASSUME NEW q \in Path, Replace(q) PROVE RefreshInv'
  <2>1. /\ refresh'.at = refresh.at /\ refresh.at = "moved" /\ head' = head
        /\ refresh'.old = refresh.old /\ refresh'.new = refresh.new
        /\ refresh'.found = refresh.found
        /\ \A p \in Path : refresh'.orders[p] = IF p = q THEN None ELSE refresh.orders[p]
    BY <1>0, <1>6 DEF Replace, Refresh, git
  <2> QED BY <1>0, <2>1 DEF RefreshInv, Follows, Rightful, Changed
<1>7. \/ Fetch \/ Load \/ List \/ FastForward \/ EndRefresh
      \/ \E p \in Path : Reread(p) \/ Replace(p)
  BY DEF Next, vars, GoOn, Check, Recover, Enter, Look, Link, Queue, Refuse, Die, Remove, Push,
         Pull, Acknowledge, Edit
<1> QED BY <1>1, <1>2, <1>3, <1>4, <1>5, <1>6, <1>7

\* Only orders that follow the remote, with the watched paths they were written
\* for, are bound to another base than that, whatever the refreshes, the crashes
\* and the edits, if no edit falls between the two readings of the orders.
THEOREM Followers == ~EditsWhileListing => (Spec => []FollowersOnly)
<1> SUFFICES ASSUME ~EditsWhileListing PROVE Spec => []FollowersOnly
  OBVIOUS
<1>1. Init => FollowersInv
  BY WorkQueueAssumption DEF Init, FollowersInv, NoFiles, NoCall, NoRefresh
<1>2. TypeOK /\ Bound /\ FollowersInv /\ [Next]_vars => FollowersInv'
  <2> SUFFICES ASSUME TypeOK, Bound, FollowersInv, [Next]_vars PROVE FollowersInv'
    OBVIOUS
  <2>1. \A p \in Path : files'[p] # None => Rightful(files[p])'
    BY FilesRightful
  <2>2. RefreshInv
    BY DEF FollowersInv, RefreshInv
  <2>3. RefreshInv'
    BY <2>2, RefreshWaits, RefreshSteps
  <2> QED BY <2>1, <2>3, CommandsBehind DEF FollowersInv, RefreshInv
<1>3. FollowersInv => FollowersOnly
  BY DEF FollowersInv, FollowersOnly, Rightful
<1> QED BY <1>1, <1>2, <1>3, Typed, PTL DEF Spec

-----------------------------------------------------------------------------
(* Files.                                                                   *)

\* Neither a delegation nor a recovery changes a file that is there.
THEOREM Kept == Spec => NeverOverwritten
<1>1. TypeOK =>
        [\A d \in Delegator : GoOn(d) => \A p \in Path : files[p] = None \/ files'[p] = files[p]]_vars
  <2> SUFFICES ASSUME TypeOK, NEW d \in Delegator, GoOn(d), NEW p \in Path
               PROVE  files[p] = None \/ files'[p] = files[p]
    OBVIOUS
  <2>1. CASE Link(d)
    BY <2>1 DEF Link, TypeOK
  <2>2. CASE ~Link(d)
    BY <2>2 DEF GoOn, Enter, Look, Queue, Refuse
  <2> QED BY <2>1, <2>2
<1> QED BY <1>1, Typed, PTL DEF NeverOverwritten
=============================================================================
