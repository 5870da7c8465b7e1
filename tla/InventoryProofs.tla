-------------------------- MODULE InventoryProofs --------------------------
(***************************************************************************)
(* Proofs about Inventory, for every set of controllers, orders, outsiders *)
(* and threads, and all bounds.                                            *)
(*                                                                         *)
(*   Typed        the types                                                *)
(*   Same         the threads reported are those of the scanned daemon     *)
(*   Apart        two observations that overlap are never both published   *)
(*   Clear        what is planned is clear of the work that goes on, as    *)
(*                far as the observation can recognise it                  *)
(*   OneProvider  no second provider of a task next to a recognised one,   *)
(*                if the orders of the task have one owner                 *)
(***************************************************************************)
EXTENDS Inventory, TLAPS

(* Types.                                                                   *)

\* Every step keeps the types.
LEMMA NextTyped == TypeOK /\ [Next]_vars => TypeOK'
<1> SUFFICES ASSUME TypeOK, [Next]_vars PROVE TypeOK'
  OBVIOUS
<1> USE InventoryAssumption
<1>0. NoLook \in Look
  BY DEF NoLook, Look
<1>1. ASSUME NEW c \in Controller, Open(c) PROVE TypeOK'
  <2>1. lockFile' \in 0..MaxFiles
    BY <1>1 DEF Open, TypeOK
  <2>2. [NoLook EXCEPT !.file = lockFile'] \in Look
    BY <1>0, <2>1 DEF Look
  <2> QED BY <1>1, <2>1, <2>2 DEF Open, Goto, TypeOK, Stage, Adapter
<1>2. ASSUME NEW c \in Controller, Acquire(c) \/ Ask(c) \/ Answer(c) PROVE TypeOK'
  BY <1>2 DEF Acquire, Ask, Answer, Goto, TypeOK, Stage, Adapter, world
<1>3. ASSUME NEW c \in Controller, Scan(c) PROVE TypeOK'
  <2>1. /\ [look[c] EXCEPT !.rows = ProcessSessions] \in Look
        /\ [look[c] EXCEPT !.listener = daemon] \in Look
    <3>1. look[c] \in Look /\ ProcessSessions \in SUBSET Work /\ daemon \in 0..MaxDaemons
      BY DEF TypeOK, ProcessSessions
    <3> QED BY <3>1 DEF Look
  <2>2. look' \in [Controller -> Look]
    BY <1>3, <2>1 DEF Scan, TypeOK
  <2>3. at' \in [Controller -> Stage]
    BY <1>3 DEF Scan, Goto, TypeOK, Stage, Adapter
  <2> QED BY <1>3, <2>2, <2>3 DEF Scan, TypeOK, world
<1>4. ASSUME NEW c \in Controller, Connect(c) PROVE TypeOK'
  <2>1. [look[c] EXCEPT !.peer = daemon, !.unread = Thread] \in Look
    <3>1. look[c] \in Look /\ daemon \in 0..MaxDaemons
      BY DEF TypeOK
    <3> QED BY <3>1 DEF Look
  <2>2. look' = [look EXCEPT ![c] = [look[c] EXCEPT !.peer = daemon, !.unread = Thread]]
    BY <1>4 DEF Connect, TypeOK
  <2>3. look' \in [Controller -> Look]
    BY <2>1, <2>2 DEF TypeOK
  <2> QED BY <1>4, <2>3 DEF Connect, Goto, TypeOK, Stage, Adapter, world
<1>5. ASSUME NEW c \in Controller, NEW t \in Thread, Read(c, t) PROVE TypeOK'
  <2>1. [look[c] EXCEPT !.unread = @ \ {t}, !.rows = @ \cup ({t} \cap running)] \in Look
    <3>1. look[c] \in Look /\ running \subseteq Work
      BY DEF TypeOK
    <3>2. look[c].unread \ {t} \in SUBSET Thread /\ look[c].rows \cup ({t} \cap running) \in SUBSET Work
      BY <3>1 DEF Look
    <3> QED BY <3>1, <3>2 DEF Look
  <2>2. look' = [look EXCEPT ![c] =
                     [look[c] EXCEPT !.unread = @ \ {t}, !.rows = @ \cup ({t} \cap running)]]
    BY <1>5 DEF Read, TypeOK
  <2>3. look' \in [Controller -> Look]
    BY <2>1, <2>2 DEF TypeOK
  <2> QED BY <1>5, <2>3 DEF Read, TypeOK, world
<1>6. ASSUME NEW c \in Controller, Rescan(c) PROVE TypeOK'
  <2>1. [look[c] EXCEPT !.rows = @ \cup ProcessSessions] \in Look
    <3>1. look[c] \in Look /\ ProcessSessions \in SUBSET Work
      BY DEF TypeOK, ProcessSessions
    <3> QED BY <3>1 DEF Look
  <2>2. look' \in [Controller -> Look]
    BY <1>6, <2>1 DEF Rescan, Surveyed, TypeOK
  <2> QED BY <1>6, <2>2 DEF Rescan, Surveyed, Goto, TypeOK, Stage, Adapter, world
<1>7. ASSUME NEW c \in Controller, Publish(c) PROVE TypeOK'
  <2>1. look[c].rows \subseteq Work
    BY DEF TypeOK, Look
  <2>2. at' \in [Controller -> Stage]
    BY <1>7 DEF Publish, Tell, Goto, TypeOK, Stage
  <2> QED BY <1>0, <1>7, <2>1, <2>2 DEF Publish, Tell, TypeOK, world
<1>8. ASSUME NEW c \in Controller, Refuse(c) \/ Kill(c) PROVE TypeOK'
  <2>1. at' \in [Controller -> Stage]
    BY <1>8 DEF Refuse, Kill, Goto, TypeOK, Stage
  <2> QED BY <1>0, <1>8, <2>1 DEF Refuse, Kill, TypeOK, world
<1>9. ASSUME NEW c \in Controller, NEW o \in Order, CancelAdopted(c, o) \/ Launch(c, o) PROVE TypeOK'
  <2>1. o \in Work
    BY DEF Work, Process
  <2>2. CASE CancelAdopted(c, o)
    BY <2>2 DEF CancelAdopted, TypeOK, cycle
  <2>3. CASE Launch(c, o)
    BY <2>1, <2>3 DEF Launch, TypeOK
  <2> QED BY <1>9, <2>2, <2>3
<1>10. ASSUME NEW c \in Controller, NEW S \in SUBSET Order, Plan(c, S) PROVE TypeOK'
  BY <1>10 DEF Plan, TypeOK, Stage, world
<1>11. ASSUME NEW c \in Controller, EndCycle(c) \/ Crash(c) PROVE TypeOK'
  BY <1>0, <1>11 DEF EndCycle, Crash, Reset, TypeOK, Stage, world
<1>12. ASSUME NEW x \in Work, Begin(x) \/ End(x) PROVE TypeOK'
  BY <1>12 DEF Begin, End, Gone, TypeOK, cycle
<1>13. CASE Daemon
  BY <1>13 DEF Daemon, Gone, TypeOK, cycle
<1>14. CASE Replace
  BY <1>14 DEF Replace, TypeOK, cycle
<1>15. ASSUME NEW c \in Controller, CallEnds(c) PROVE TypeOK'
  BY <1>15 DEF CallEnds, TypeOK, cycle
<1>16. CASE UNCHANGED vars
  BY <1>16 DEF vars, world, cycle, TypeOK
<1> QED BY <1>1, <1>2, <1>3, <1>4, <1>5, <1>6, <1>7, <1>8, <1>9, <1>10, <1>11, <1>12, <1>13,
           <1>14, <1>15, <1>16 DEF Next, Cycle

\* TypeOK holds in every reachable state.
THEOREM Typed == Spec => []TypeOK
<1>1. Init => TypeOK
  BY InventoryAssumption DEF Init, TypeOK, Look, NoLook, Stage
<1> QED BY <1>1, NextTyped, PTL DEF Spec

-----------------------------------------------------------------------------
(* The daemon and the lock.                                                 *)

\* Daemons are numbered as they start; the peer is not older than the listener.
Asked(c) ==
    /\ at[c] \in {"opened", "locked"} => look[c].listener = 0 /\ look[c].peer = 0
    /\ at[c] \in {"identified", "connected"} => look[c].listener \in 1..daemons
    /\ at[c] = "connected" => look[c].listener <= look[c].peer /\ look[c].peer <= daemons
    /\ at[c] \in {"surveyed", "asking", "answered"} => look[c].peer = look[c].listener

AskedInv == daemon \in {0, daemons} /\ \A c \in Controller : Asked(c)

\* Every step of a cycle keeps the order of its daemons.
LEMMA CycleAsked ==
    ASSUME TypeOK, AskedInv, NEW c \in Controller, Cycle(c)
    PROVE  Asked(c)'
<1> USE InventoryAssumption
<1>0. Asked(c) /\ daemon \in {0, daemons} /\ daemons \in Nat /\ look[c] \in Look
  BY DEF AskedInv, TypeOK
<1>1. CASE Open(c)
  <2>1. at'[c] = "opened" /\ look'[c] = [NoLook EXCEPT !.file = lockFile']
    BY <1>1 DEF Open, Goto, TypeOK
  <2>2. look'[c].listener = 0 /\ look'[c].peer = 0
    BY <2>1 DEF NoLook
  <2> QED BY <2>1, <2>2 DEF Asked
<1>2. CASE Acquire(c) \/ Ask(c) \/ Answer(c)
  BY <1>0, <1>2 DEF Acquire, Ask, Answer, Goto, Asked, TypeOK, world
<1>3. CASE Scan(c)
  <2>1. /\ at[c] = "locked" /\ daemons' = daemons /\ look'[c].peer = look[c].peer
        /\ \/ at'[c] = "surveyed" /\ look'[c].listener = look[c].listener
           \/ at'[c] = "identified" /\ look'[c].listener = daemon /\ daemon # 0
    BY <1>3 DEF Scan, Goto, TypeOK, Look, world
  <2> QED BY <1>0, <2>1 DEF Asked
<1>4. CASE Connect(c)
  <2>1. /\ at[c] = "identified" /\ at'[c] = "connected" /\ daemon # 0 /\ daemons' = daemons
        /\ look'[c].peer = daemon /\ look'[c].listener = look[c].listener
    BY <1>4 DEF Connect, Goto, TypeOK, Look, world
  <2> QED BY <1>0, <2>1 DEF Asked
<1>5. ASSUME NEW t \in Thread, Read(c, t) PROVE Asked(c)'
  <2>1. /\ at' = at /\ daemons' = daemons
        /\ look'[c].peer = look[c].peer /\ look'[c].listener = look[c].listener
    BY <1>5 DEF Read, TypeOK, Look, world
  <2> QED BY <1>0, <2>1 DEF Asked
<1>6. CASE Rescan(c)
  <2>1. /\ at[c] = "connected" /\ at'[c] = "surveyed" /\ daemon = look[c].listener
        /\ look'[c].peer = look[c].peer /\ look'[c].listener = look[c].listener
    BY <1>6 DEF Rescan, Surveyed, SameListener, Goto, TypeOK, Look
  <2>2. look[c].peer \in Nat /\ look[c].listener \in Nat
    BY <1>0 DEF Look
  <2> QED BY <1>0, <2>1, <2>2 DEF Asked
<1>7. CASE \/ Publish(c) \/ Refuse(c) \/ Kill(c) \/ EndCycle(c) \/ Crash(c)
           \/ \E S \in SUBSET Order : Plan(c, S)
  <2>1. at'[c] \in {"observed", "refused", "idle", "dispatch"}
    BY <1>7 DEF Publish, Tell, Refuse, Kill, EndCycle, Crash, Reset, Plan, Goto, TypeOK
  <2> QED BY <2>1 DEF Asked
<1>8. ASSUME NEW o \in Order, CancelAdopted(c, o) \/ Launch(c, o) PROVE Asked(c)'
  <2>1. at' = at /\ at[c] \in {"observed", "dispatch"}
    BY <1>8 DEF CancelAdopted, Launch, cycle
  <2> QED BY <2>1 DEF Asked
<1> QED BY <1>1, <1>2, <1>3, <1>4, <1>5, <1>6, <1>7, <1>8 DEF Cycle

\* Every step keeps the order of the daemons.
LEMMA NextAsked == TypeOK /\ AskedInv /\ [Next]_vars => AskedInv'
<1> SUFFICES ASSUME TypeOK, AskedInv, [Next]_vars PROVE AskedInv'
  OBVIOUS
<1>1. daemons \in Nat /\ daemons' \in Nat /\ daemons <= daemons' /\ daemon' \in {0, daemons'}
  <2>1. daemon \in {0, daemons} /\ daemons \in Nat
    BY DEF AskedInv, TypeOK
  <2>2. CASE Daemon
    BY <2>1, <2>2 DEF Daemon
  <2>3. CASE UNCHANGED <<daemon, daemons>>
    BY <2>1, <2>3
  <2>4. Daemon \/ UNCHANGED <<daemon, daemons>>
    BY DEF Next, Cycle, vars, world, Open, Acquire, Scan, Connect, Read, Rescan, Surveyed, Ask,
       Answer, Publish, Tell, Refuse, Kill, CancelAdopted, Plan, Launch, EndCycle, Crash, Begin,
       End, Replace, CallEnds
  <2> QED BY <2>2, <2>3, <2>4
<1>2. ASSUME NEW c \in Controller PROVE Asked(c)'
  <2>1. CASE Cycle(c)
    BY <2>1, CycleAsked
  <2>2. CASE at'[c] = at[c] /\ look'[c] = look[c]
    <3>1. look[c].peer \in Nat /\ look[c].listener \in Nat
      BY InventoryAssumption DEF TypeOK, Look
    <3> QED BY <1>1, <2>2, <3>1 DEF AskedInv, Asked
  <2>3. Cycle(c) \/ (at'[c] = at[c] /\ look'[c] = look[c])
    <3>1. ASSUME NEW d \in Controller, d # c, Cycle(d) PROVE at'[c] = at[c] /\ look'[c] = look[c]
      BY <3>1 DEF Cycle, TypeOK, cycle, Goto, Open, Acquire, Scan, Connect, Read, Rescan, Surveyed,
         Ask, Answer, Publish, Tell, Refuse, Kill, CancelAdopted, Plan, Launch, EndCycle, Crash, Reset
    <3> QED BY <3>1 DEF Next, Daemon, Replace, CallEnds, Begin, End, vars, cycle
  <2> QED BY <2>1, <2>2, <2>3
<1> QED BY <1>1, <1>2 DEF AskedInv

\* The threads reported are those of the daemon that was scanned.
THEOREM Same == Spec => []OneDaemon
<1>1. Init => AskedInv
  BY DEF Init, AskedInv, Asked
<1>2. AskedInv => OneDaemon
  BY DEF AskedInv, Asked, OneDaemon
<1> QED BY <1>1, <1>2, Typed, NextAsked, PTL DEF Spec

\* What the lock files order: two adapters that hold the lock hold it on two
\* files, no file is younger than the one at the path, and an adapter that was
\* overtaken holds an older one.
Locked ==
    /\ \A c \in Controller : at[c] \in Adapter => look[c].file <= lockFile
    /\ \A c, d \in Controller :
           c # d /\ at[c] \in Holding /\ at[d] \in Holding => look[c].file # look[d].file
    /\ \A c \in tainted : at[c] \in Holding /\ look[c].file < lockFile

\* Every step keeps the order of the lock files.
LEMMA NextLocked == TypeOK /\ Locked /\ [Next]_vars => Locked'
<1> SUFFICES ASSUME TypeOK, Locked, [Next]_vars PROVE Locked'
  OBVIOUS
<1>0. /\ lockFile \in Nat /\ \A c \in Controller : look[c].file \in Nat
      /\ tainted \subseteq Controller
  BY InventoryAssumption DEF TypeOK, Look
<1>1. ASSUME UNCHANGED <<at, look, tainted>>, lockFile' \in {lockFile, lockFile + 1} PROVE Locked'
  BY <1>0, <1>1 DEF Locked
<1>2. ASSUME NEW c \in Controller,
             Scan(c) \/ Connect(c) \/ (\E t \in Thread : Read(c, t)) \/ Rescan(c) \/ Ask(c) \/ Answer(c)
      PROVE  Locked'
  <2>1. at[c] \in Holding /\ at'[c] \in Holding /\ look'[c].file = look[c].file
    <3>1. look \in [Controller -> Look] /\ at \in [Controller -> Stage]
      BY DEF TypeOK
    <3>2. look'[c].file = look[c].file
      BY <1>2, <3>1 DEF Scan, Connect, Read, Rescan, Surveyed, Ask, Answer, Look
    <3>3. at[c] \in Holding /\ at'[c] \in Holding
      BY <1>2, <3>1 DEF Scan, Connect, Read, Rescan, Surveyed, Ask, Answer, Goto, Holding, Adapter
    <3> QED BY <3>2, <3>3
  <2>2. /\ \A d \in Controller \ {c} : at'[d] = at[d] /\ look'[d] = look[d]
        /\ lockFile' = lockFile /\ tainted' = tainted
    BY <1>2 DEF Scan, Connect, Read, Rescan, Surveyed, Ask, Answer, Goto, TypeOK, world
  <2>3. \A d \in Controller : /\ look'[d].file = look[d].file
                              /\ at'[d] \in Holding <=> at[d] \in Holding
                              /\ at'[d] \in Adapter <=> at[d] \in Adapter
    BY <2>1, <2>2 DEF Holding
  <2> QED BY <1>0, <2>2, <2>3 DEF Locked
<1>3. ASSUME NEW c \in Controller,
             \/ Refuse(c) \/ Kill(c) \/ EndCycle(c) \/ Crash(c)
             \/ \E S \in SUBSET Order : Plan(c, S)
      PROVE  Locked'
  <2>1. /\ at'[c] \notin Adapter
        /\ \A d \in Controller \ {c} : at'[d] = at[d] /\ look'[d] = look[d]
        /\ lockFile' = lockFile /\ tainted' = tainted \ {c}
    BY <1>3 DEF Refuse, Kill, EndCycle, Crash, Reset, Plan, Goto, TypeOK, world, Adapter
  <2> QED BY <1>0, <2>1 DEF Locked, Holding
<1>4. ASSUME NEW c \in Controller, Open(c) PROVE Locked'
  <2>1. at[c] = "idle" /\ at'[c] = "opened" /\ tainted' = tainted
        /\ \A d \in Controller \ {c} : at'[d] = at[d] /\ look'[d] = look[d]
    BY <1>4 DEF Open, Goto, TypeOK
  <2>2. look'[c].file = lockFile'
    <3>1. [NoLook EXCEPT !.file = lockFile'].file = lockFile'
      BY DEF NoLook
    <3> QED BY <1>4, <3>1 DEF Open, TypeOK
  <2>3. lockFile' \in Nat /\ lockFile <= lockFile'
    BY <1>0, <1>4 DEF Open
  <2> QED BY <1>0, <2>1, <2>2, <2>3 DEF Locked, Holding, Adapter
<1>5. ASSUME NEW c \in Controller, Acquire(c) PROVE Locked'
  <2>1. /\ at[c] = "opened" /\ at'[c] = "locked" /\ UNCHANGED <<look, lockFile, tainted>>
        /\ \A d \in Controller \ {c} : at'[d] = at[d]
    BY <1>5 DEF Acquire, Goto, TypeOK, world
  <2>2. \A d \in Controller : at[d] \in Holding => look[d].file # look[c].file
    BY <1>5 DEF Acquire, Holders
  <2> QED BY <1>0, <2>1, <2>2 DEF Locked, Holding, Adapter
<1>6. ASSUME NEW c \in Controller, Publish(c) PROVE Locked'
  <2>1. /\ at[c] \in Holding /\ at'[c] = "observed" /\ look[c].file = lockFile
        /\ lockFile' = lockFile /\ tainted' = tainted \cup {d \in Controller \ {c} : at[d] \in Holding}
        /\ \A d \in Controller \ {c} : at'[d] = at[d] /\ look'[d] = look[d]
    BY <1>6 DEF Publish, Tell, Binding, Goto, Holding, Adapter, TypeOK, world
  <2>2. c \notin tainted
    BY <1>0, <2>1 DEF Locked
  <2>3. \A d \in Controller \ {c} : at[d] \in Holding => look[d].file < lockFile
    BY <1>0, <2>1 DEF Locked, Holding
  <2>4. "observed" \notin Adapter
    BY DEF Adapter
  <2> QED BY <1>0, <2>1, <2>2, <2>3, <2>4 DEF Locked, Holding
<1>7. CASE \/ Daemon \/ Replace \/ UNCHANGED vars
           \/ \E d \in Controller : CallEnds(d)
           \/ \E d \in Controller, o \in Order : CancelAdopted(d, o) \/ Launch(d, o)
           \/ \E x \in Work : Begin(x) \/ End(x)
  <2>1. UNCHANGED <<at, look, tainted>> /\ lockFile' \in {lockFile, lockFile + 1}
    BY <1>7 DEF Daemon, Replace, CallEnds, CancelAdopted, Launch, Begin, End, vars, world, cycle
  <2> QED BY <1>1, <2>1
<1> QED BY <1>2, <1>3, <1>4, <1>5, <1>6, <1>7 DEF Next, Cycle

\* Of two observations that overlap one is refused, however often the lock file
\* is replaced.
THEOREM Apart == Spec => []SnapshotsApart
<1>1. Init => Locked
  BY DEF Init, Locked, Holding, Adapter
<1>2. TypeOK /\ Locked => SnapshotsApart
  BY DEF TypeOK, Locked, SnapshotsApart, Holding, Adapter
<1> QED BY <1>1, <1>2, Typed, NextLocked, PTL DEF Spec

-----------------------------------------------------------------------------
(* Plans.                                                                   *)

\* Threads run in a daemon.
Threaded == running \cap Thread # {} => daemon # 0

\* The processes that no observation reports.
Hidden == Proxy \cup Unseen

\* What a cycle knows of the work that goes on since its observation began.
Knows(c) ==
    /\ since[c] \subseteq running
    /\ at[c] \in {"idle", "refused"} => since[c] = {}
    /\ at[c] = "connected" => since[c] \cap Thread \subseteq look[c].unread \cup look[c].rows
    /\ at[c] \in {"surveyed", "asking", "answered"} =>
           since[c] \ (Hidden \cup {Gateway}) \subseteq look[c].rows
    /\ at[c] \in {"asking", "answered"} => ~Unidentified(look[c].rows)
    /\ at[c] = "answered" => Gateway \notin since[c]
    /\ at[c] = "observed" => Unidentified(sessions[c]) \/ since[c] \ Hidden \subseteq sessions[c]
    /\ at[c] # "dispatch" => planned[c] = {}
    /\ planned[c] # {} =>
           /\ ~Unidentified(since[c] \ Hidden)
           /\ \A o \in planned[c], p \in (since[c] \cap Order) \ Unseen : Task[p] # Task[o]

\* What a cycle has launched and will launch.
Launches(c) ==
    /\ at[c] \in Adapter \cup {"observed", "dispatch"} =>
           \A p \in running \cap Order : Owner[p] = c => p \in since[c] \cup mine[c]
    /\ at[c] # "dispatch" => mine[c] = {}
    /\ \A o \in planned[c] : Owner[o] = c
    /\ \A o \in planned[c], p \in mine[c] : Task[o] # Task[p]
    /\ \A o, p \in planned[c] : o # p => Task[o] # Task[p]

KnowsInv == \A c \in Controller : Knows(c)
LaunchesInv == \A c \in Controller : Launches(c)

\* Every step keeps threads in a daemon.
LEMMA NextThreaded == TypeOK /\ Threaded /\ [Next]_vars => Threaded'
<1> SUFFICES ASSUME TypeOK, Threaded, [Next]_vars PROVE Threaded'
  OBVIOUS
<1>1. CASE UNCHANGED <<running, daemon>>
  BY <1>1 DEF Threaded
<1>2. ASSUME NEW c \in Controller, NEW o \in Order, CancelAdopted(c, o) \/ Launch(c, o) PROVE Threaded'
  BY <1>2, InventoryAssumption DEF CancelAdopted, Launch, Threaded
<1>3. ASSUME NEW x \in Work, Begin(x) \/ End(x) PROVE Threaded'
  BY <1>3 DEF Begin, End, Gone, Threaded
<1>4. CASE Daemon
  BY <1>4 DEF Daemon, Gone, Threaded, TypeOK
<1> QED BY <1>1, <1>2, <1>3, <1>4
        DEF Next, Cycle, vars, world, Open, Acquire, Scan, Connect, Read, Rescan, Surveyed, Ask,
            Answer, Publish, Tell, Refuse, Kill, Plan, EndCycle, Crash, Replace, CallEnds

\* What a cycle knows stays true while it stands still and work ends.
LEMMA KnowsStays ==
    ASSUME NEW c \in Controller, Knows(c),
           at'[c] = at[c], look'[c] = look[c], sessions'[c] = sessions[c], planned'[c] = planned[c],
           since'[c] \subseteq since[c], since'[c] \subseteq running'
    PROVE  Knows(c)'
BY DEF Knows, Unidentified

\* Every step of a cycle keeps what it knows.
LEMMA CycleKnows ==
    ASSUME TypeOK, Threaded, NEW c \in Controller, Knows(c), Cycle(c)
    PROVE  Knows(c)'
<1>1. CASE Open(c)
  <2>1. at'[c] = "opened" /\ since'[c] = running /\ planned'[c] = planned[c] /\ running' = running
    BY <1>1 DEF Open, Goto, TypeOK
  <2>2. planned[c] = {}
    BY <1>1 DEF Open, Goto, Knows
  <2> QED BY <2>1, <2>2 DEF Knows
<1>2. CASE Acquire(c)
  <2>1. at'[c] = "locked" /\ since' = since /\ planned' = planned /\ running' = running
    BY <1>2 DEF Acquire, Goto, TypeOK, world
  <2>2. planned[c] = {} /\ since[c] \subseteq running
    BY <1>2 DEF Acquire, Goto, Knows
  <2> QED BY <2>1, <2>2 DEF Knows
<1>3. CASE Scan(c)
  <2>1. /\ since' = since /\ planned' = planned /\ running' = running
        /\ at'[c] \in {"identified", "surveyed"}
        /\ at'[c] = "surveyed" => daemon = 0 /\ look'[c].rows = ProcessSessions
    BY <1>3 DEF Scan, Goto, TypeOK, world, Look
  <2>2. planned[c] = {} /\ since[c] \subseteq running /\ running \subseteq Work
    BY <1>3 DEF Scan, Goto, Knows, TypeOK
  <2>3. at'[c] = "surveyed" => since[c] \ (Hidden \cup {Gateway}) \subseteq ProcessSessions
    BY <2>1, <2>2 DEF Threaded, ProcessSessions, Work, Hidden
  <2>4. Hidden' = Hidden
    BY DEF Hidden, Proxy, Unseen
  <2> QED BY <2>1, <2>2, <2>3, <2>4 DEF Knows
<1>4. CASE Connect(c)
  <2>1. /\ since' = since /\ planned' = planned /\ running' = running
        /\ at'[c] = "connected" /\ look'[c].unread = Thread
    BY <1>4 DEF Connect, Goto, TypeOK, world, Look
  <2>2. planned[c] = {} /\ since[c] \subseteq running
    BY <1>4 DEF Connect, Goto, Knows
  <2> QED BY <2>1, <2>2 DEF Knows
<1>5. ASSUME NEW t \in Thread, Read(c, t) PROVE Knows(c)'
  <2>1. /\ since' = since /\ planned' = planned /\ running' = running
        /\ at[c] = "connected" /\ at'[c] = "connected"
        /\ look'[c].unread = look[c].unread \ {t}
        /\ look'[c].rows = look[c].rows \cup ({t} \cap running)
    BY <1>5 DEF Read, TypeOK, world, Look
  <2>2. planned[c] = {} /\ since[c] \subseteq running
        /\ since[c] \cap Thread \subseteq look[c].unread \cup look[c].rows
    BY <2>1 DEF Knows
  <2> QED BY <2>1, <2>2 DEF Knows
<1>6. CASE Rescan(c)
  <2>1. /\ since' = since /\ planned' = planned /\ running' = running
        /\ at[c] = "connected" /\ at'[c] = "surveyed" /\ look[c].unread = {}
        /\ look'[c].rows = look[c].rows \cup ProcessSessions
    BY <1>6 DEF Rescan, Surveyed, Goto, TypeOK, world, Look
  <2>2. planned[c] = {} /\ since[c] \subseteq running /\ running \subseteq Work
        /\ since[c] \cap Thread \subseteq look[c].rows
    BY <2>1 DEF Knows, TypeOK
  <2>3. since[c] \ (Hidden \cup {Gateway}) \subseteq look[c].rows \cup ProcessSessions
    BY <2>2 DEF ProcessSessions, Work, Hidden
  <2> QED BY <2>1, <2>2, <2>3 DEF Knows, Hidden, Proxy, Unseen
<1>7. CASE Ask(c)
  <2>1. /\ since' = since /\ planned' = planned /\ running' = running /\ look' = look
        /\ at[c] = "surveyed" /\ at'[c] = "asking" /\ ~Unidentified(look[c].rows)
    BY <1>7 DEF Ask, Goto, TypeOK, world
  <2> QED BY <2>1 DEF Knows, Hidden, Proxy, Unseen, Unidentified
<1>8. CASE Answer(c)
  <2>1. /\ since' = since /\ planned' = planned /\ running' = running /\ look' = look
        /\ at[c] = "asking" /\ at'[c] = "answered" /\ Gateway \notin running
    BY <1>8 DEF Answer, Goto, TypeOK, world, GatewayIdle
  <2> QED BY <2>1 DEF Knows, Hidden, Proxy, Unseen, Unidentified
<1>9. CASE Publish(c)
  <2>1. /\ since' = since /\ planned' = planned /\ running' = running
        /\ at'[c] = "observed" /\ sessions'[c] = look[c].rows
        /\ at[c] = "answered" \/ (at[c] = "surveyed" /\ Unidentified(look[c].rows))
    BY <1>9 DEF Publish, Tell, Goto, TypeOK, world
  <2>2. Unidentified(look[c].rows) \/ since[c] \ Hidden \subseteq look[c].rows
    BY <2>1 DEF Knows
  <2> QED BY <2>1, <2>2 DEF Knows, Hidden, Proxy, Unseen, Unidentified
<1>10. CASE Refuse(c) \/ Kill(c)
  <2>1. /\ since'[c] = {} /\ planned' = planned /\ at'[c] = "refused" /\ at[c] # "dispatch"
    BY <1>10 DEF Refuse, Kill, Goto, TypeOK, Adapter
  <2> QED BY <2>1 DEF Knows
<1>11. ASSUME NEW o \in Order, CancelAdopted(c, o) PROVE Knows(c)'
  BY <1>11, KnowsStays DEF CancelAdopted, cycle, Knows
<1>12. ASSUME NEW o \in Order, Launch(c, o) PROVE Knows(c)'
  <2>1. /\ since' = since /\ at' = at /\ at[c] = "dispatch" /\ running \subseteq running'
        /\ planned'[c] \subseteq planned[c]
    BY <1>12 DEF Launch, TypeOK
  <2> QED BY <2>1 DEF Knows, Hidden, Proxy, Unseen, Unidentified
<1>13. ASSUME NEW S \in SUBSET Order, Plan(c, S) PROVE Knows(c)'
  <2>1. /\ planned'[c] = S /\ running' = running /\ since'[c] = IF S = {} THEN {} ELSE since[c]
        /\ at'[c] = IF S = {} THEN "idle" ELSE "dispatch"
    BY <1>13 DEF Plan, TypeOK, world
  <2>2. CASE S = {}
    BY <2>1, <2>2 DEF Knows
  <2>3. CASE S # {}
    <3>1. at[c] = "observed" /\ ~Unidentified(sessions[c]) /\ \A o \in S : ~Covered(c, o)
      BY <1>13, <2>3 DEF Plan
    <3>2. since[c] \subseteq running /\ since[c] \ Hidden \subseteq sessions[c] /\ sessions[c] \subseteq Order
      BY <3>1 DEF Knows, Unidentified
    <3>3. (since[c] \cap Order) \ Unseen \subseteq sessions[c]
      BY <3>2, InventoryAssumption DEF Hidden, Proxy
    <3>4. \A o \in S, p \in (since[c] \cap Order) \ Unseen : Task[p] # Task[o]
      BY <3>1, <3>3 DEF Covered
    <3>5. ~Unidentified(since[c] \ Hidden)
      BY <3>2 DEF Unidentified
    <3> QED BY <2>1, <2>3, <3>2, <3>4, <3>5 DEF Knows, Hidden, Proxy, Unseen, Unidentified
  <2> QED BY <2>2, <2>3
<1>14. CASE EndCycle(c) \/ Crash(c)
  <2>1. at'[c] = "idle" /\ since'[c] = {} /\ planned'[c] = {}
    BY <1>14 DEF EndCycle, Crash, Reset, TypeOK
  <2> QED BY <2>1 DEF Knows
<1> QED BY <1>1, <1>2, <1>3, <1>4, <1>5, <1>6, <1>7, <1>8, <1>9, <1>10, <1>11, <1>12, <1>13, <1>14
        DEF Cycle

\* Every step keeps what the cycles know.
LEMMA NextKnows == TypeOK /\ Threaded /\ KnowsInv /\ [Next]_vars => KnowsInv'
<1> SUFFICES ASSUME TypeOK, Threaded, KnowsInv, [Next]_vars, NEW c \in Controller PROVE Knows(c)'
  BY DEF KnowsInv
<1>1. Knows(c) /\ since[c] \subseteq running
  BY DEF KnowsInv, Knows
<1>2. CASE Cycle(c)
  BY <1>1, <1>2, CycleKnows
<1>3. ASSUME NEW d \in Controller, d # c, Cycle(d) PROVE Knows(c)'
  <2>1. /\ at'[c] = at[c] /\ look'[c] = look[c]
        /\ sessions'[c] = sessions[c] /\ planned'[c] = planned[c]
    BY <1>3 DEF Cycle, TypeOK, cycle, Goto, Open, Acquire, Scan, Connect, Read, Rescan, Surveyed,
       Ask, Answer, Publish, Tell, Refuse, Kill, CancelAdopted, Plan, Launch, EndCycle, Crash, Reset
  <2>2. since'[c] \subseteq since[c] /\ since'[c] \subseteq running'
    BY <1>1, <1>3 DEF Cycle, TypeOK, world, Open, Acquire, Scan, Connect, Read, Rescan, Surveyed,
       Ask, Answer, Publish, Tell, Refuse, Kill, CancelAdopted, Plan, Launch, EndCycle, Crash, Reset
  <2> QED BY <1>1, <2>1, <2>2, KnowsStays
<1>4. CASE \/ Daemon \/ Replace \/ UNCHANGED vars
           \/ \E d \in Controller : CallEnds(d)
           \/ \E x \in Work : Begin(x) \/ End(x)
  <2>1. /\ at' = at /\ look' = look /\ sessions' = sessions /\ planned' = planned
        /\ since'[c] \subseteq since[c] /\ since'[c] \subseteq running'
    BY <1>1, <1>4 DEF Daemon, Replace, CallEnds, Begin, End, Gone, vars, world, cycle, TypeOK
  <2> QED BY <1>1, <2>1, KnowsStays
<1> QED BY <1>2, <1>3, <1>4 DEF Next

\* A plan is clear of everything the observation can recognise that has gone on
\* since it began, in processes, daemon threads and the gateway.
THEOREM Clear == Spec => []PlansClear
<1>1. Init => Threaded /\ KnowsInv
  BY DEF Init, Threaded, KnowsInv, Knows
<1>2. KnowsInv => PlansClear
  BY DEF KnowsInv, Knows, PlansClear, Hidden
<1> QED BY <1>1, <1>2, Typed, NextThreaded, NextKnows, PTL DEF Spec

-----------------------------------------------------------------------------
(* Providers.                                                               *)

\* What a cycle launches stays apart while it launches nothing and work ends.
LEMMA LaunchesStays ==
    ASSUME NEW c \in Controller, Launches(c),
           \/ at'[c] = at[c]
           \/ {at[c], at'[c]} \subseteq Adapter \cup {"observed"},
           planned'[c] = planned[c], mine'[c] = mine[c],
           \A p \in running' \cap Order : Owner[p] = c =>
               p \in running /\ (p \in since[c] => p \in since'[c])
    PROVE  Launches(c)'
BY DEF Launches, Adapter

\* Every step of a cycle keeps its launches apart.
LEMMA CycleLaunches ==
    ASSUME TypeOK, NEW c \in Controller, Launches(c), Cycle(c)
    PROVE  Launches(c)'
<1>1. CASE Open(c)
  <2>1. /\ at[c] = "idle" /\ at'[c] = "opened" /\ since'[c] = running /\ running' = running
        /\ planned' = planned /\ mine' = mine
    BY <1>1 DEF Open, Goto, TypeOK
  <2> QED BY <2>1 DEF Launches
<1>2. ASSUME \/ Acquire(c) \/ Scan(c) \/ Connect(c) \/ (\E t \in Thread : Read(c, t)) \/ Rescan(c)
             \/ Ask(c) \/ Answer(c) \/ Publish(c)
      PROVE  Launches(c)'
  <2>1. /\ {at[c], at'[c]} \subseteq Adapter \cup {"observed"}
        /\ planned' = planned /\ mine' = mine /\ since' = since /\ running' = running
    BY <1>2 DEF Acquire, Scan, Connect, Read, Rescan, Surveyed, Ask, Answer, Publish, Tell, Goto,
       Adapter, TypeOK, world
  <2> QED BY <2>1, LaunchesStays
<1>3. CASE Refuse(c) \/ Kill(c)
  <2>1. at[c] \in Adapter /\ at'[c] = "refused" /\ planned' = planned /\ mine' = mine
    BY <1>3 DEF Refuse, Kill, Goto, Adapter, TypeOK
  <2> QED BY <2>1 DEF Launches, Adapter
<1>4. ASSUME NEW o \in Order, CancelAdopted(c, o) PROVE Launches(c)'
  <2>1. /\ at' = at /\ planned' = planned /\ mine' = mine
        /\ running' = running \ {o} /\ since'[c] = since[c] \ {o}
    BY <1>4 DEF CancelAdopted, cycle, TypeOK
  <2> QED BY <2>1, LaunchesStays
<1>5. ASSUME NEW S \in SUBSET Order, Plan(c, S) PROVE Launches(c)'
  <2>1. /\ at[c] \in {"observed", "refused"}
        /\ S # {} => at[c] = "observed"
        /\ at'[c] = IF S = {} THEN "idle" ELSE "dispatch"
        /\ planned'[c] = S /\ mine' = mine /\ running' = running
        /\ S # {} => since'[c] = since[c]
        /\ \A o \in S : Owner[o] = c
        /\ \A o, p \in S : o # p => Task[o] # Task[p]
    BY <1>5 DEF Plan, TypeOK, world
  <2>2. mine[c] = {}
    BY <2>1 DEF Launches
  <2> QED BY <2>1, <2>2 DEF Launches, Adapter
<1>6. ASSUME NEW o \in Order, Launch(c, o) PROVE Launches(c)'
  <2>1. /\ at[c] = "dispatch" /\ at' = at /\ since' = since
        /\ o \in planned[c] /\ planned'[c] = planned[c] \ {o}
        /\ \/ running' = running \cup {o} /\ mine'[c] = mine[c] \cup {o}
           \/ running' = running /\ mine'[c] = mine[c]
    BY <1>6 DEF Launch, TypeOK
  <2> QED BY <2>1 DEF Launches
<1>7. CASE EndCycle(c) \/ Crash(c)
  <2>1. at'[c] = "idle" /\ planned'[c] = {} /\ mine'[c] = {}
    BY <1>7 DEF EndCycle, Crash, Reset, TypeOK
  <2> QED BY <2>1 DEF Launches, Adapter
<1> QED BY <1>1, <1>2, <1>3, <1>4, <1>5, <1>6, <1>7 DEF Cycle

\* Every step keeps the launches apart.
LEMMA NextLaunches == TypeOK /\ LaunchesInv /\ [Next]_vars => LaunchesInv'
<1> SUFFICES ASSUME TypeOK, LaunchesInv, [Next]_vars, NEW c \in Controller PROVE Launches(c)'
  BY DEF LaunchesInv
<1>1. Launches(c)
  BY DEF LaunchesInv
<1>2. CASE Cycle(c)
  BY <1>1, <1>2, CycleLaunches
<1>3. ASSUME NEW d \in Controller, d # c, Cycle(d) PROVE Launches(c)'
  <2>1. at'[c] = at[c] /\ planned'[c] = planned[c] /\ mine'[c] = mine[c]
    BY <1>3 DEF Cycle, TypeOK, cycle, Goto, Open, Acquire, Scan, Connect, Read, Rescan, Surveyed,
       Ask, Answer, Publish, Tell, Refuse, Kill, CancelAdopted, Plan, Launch, EndCycle, Crash, Reset
  <2>2. ASSUME NEW o \in Order, Launch(d, o) PROVE Owner[o] # c /\ running' \subseteq running \cup {o}
    BY <1>3, <2>2 DEF Launch, LaunchesInv, Launches
  <2>3. \A p \in running' \cap Order : Owner[p] = c => p \in running
    BY <1>3, <2>2 DEF Cycle, world, Open, Acquire, Scan, Connect, Read, Rescan, Surveyed, Ask,
       Answer, Publish, Tell, Refuse, Kill, CancelAdopted, Plan, EndCycle, Crash
  <2>4. \A p \in running' : p \in since[c] => p \in since'[c]
    BY <1>3 DEF Cycle, TypeOK, Open, Acquire, Scan, Connect, Read, Rescan, Surveyed, Ask, Answer,
       Publish, Tell, Refuse, Kill, CancelAdopted, Plan, Launch, EndCycle, Crash, Reset
  <2> QED BY <1>1, <2>1, <2>3, <2>4, LaunchesStays
<1>4. CASE \/ Daemon \/ Replace \/ UNCHANGED vars
           \/ \E d \in Controller : CallEnds(d)
           \/ \E x \in Work : Begin(x) \/ End(x)
  <2>1. /\ at' = at /\ planned' = planned /\ mine' = mine
        /\ \A p \in running' \cap Order : p \in running /\ (p \in since[c] => p \in since'[c])
    BY <1>4 DEF Daemon, Replace, CallEnds, Begin, End, Gone, vars, world, cycle, TypeOK
  <2> QED BY <1>1, <2>1, LaunchesStays
<1> QED BY <1>2, <1>3, <1>4 DEF Next

\* If the orders of a task have one owner, no provider of a task is launched next to
\* one that the scan recognises, whatever a dead controller left running.
THEOREM OneProvider ==
    (\A o, p \in Order : Task[o] = Task[p] => Owner[o] = Owner[p]) => (Spec => OneProviderPerTask)
<1> SUFFICES ASSUME \A o, p \in Order : Task[o] = Task[p] => Owner[o] = Owner[p]
             PROVE  Spec => OneProviderPerTask
  OBVIOUS
<1>1. Init => Threaded /\ KnowsInv /\ LaunchesInv
  BY DEF Init, Threaded, KnowsInv, Knows, LaunchesInv, Launches, Adapter
<1>2. TypeOK /\ KnowsInv /\ LaunchesInv /\ [Next]_vars =>
        [\A c \in Controller : \A o \in mine'[c] \ mine[c], p \in (running \cap Order) \ Unseen :
             Task[p] # Task[o]]_vars
  <2> SUFFICES ASSUME TypeOK, KnowsInv, LaunchesInv, [Next]_vars, NEW c \in Controller,
                      NEW o \in mine'[c] \ mine[c], NEW p \in (running \cap Order) \ Unseen
               PROVE  Task[p] # Task[o]
    OBVIOUS
  <2>1. Launch(c, o)
    <3>1. ASSUME NEW d \in Controller, NEW q \in Order, Launch(d, q) PROVE Launch(c, o)
      <4>1. mine' \in {mine, [mine EXCEPT ![d] = @ \cup {q}]}
        BY <3>1 DEF Launch
      <4>2. d = c /\ q = o
        BY <4>1 DEF TypeOK
      <4> QED BY <3>1, <4>2
    <3>2. ASSUME NEW d \in Controller, EndCycle(d) \/ Crash(d) PROVE FALSE
      BY <3>2 DEF EndCycle, Crash, Reset, TypeOK
    <3>3. mine' # mine
      OBVIOUS
    <3> QED BY <3>1, <3>2, <3>3
            DEF Next, vars, cycle, Cycle, Open, Acquire, Scan, Connect, Read, Rescan, Surveyed, Ask,
                Answer, Publish, Tell, Refuse, Kill, CancelAdopted, Plan, Begin, End, Daemon,
                Replace, CallEnds
  <2>2. at[c] = "dispatch" /\ o \in planned[c] /\ o \in Order
    BY <2>1 DEF Launch, TypeOK
  <2>3. Knows(c) /\ Launches(c)
    BY DEF KnowsInv, LaunchesInv
  <2>4. CASE Owner[p] = c
    <3>1. p \in since[c] \cup mine[c]
      BY <2>2, <2>3, <2>4 DEF Launches
    <3> QED BY <2>2, <2>3, <3>1 DEF Knows, Launches
  <2>5. CASE Owner[p] # c
    BY <2>2, <2>3, <2>5 DEF Launches
  <2> QED BY <2>4, <2>5
<1> QED BY <1>1, <1>2, Typed, NextThreaded, NextKnows, NextLaunches, PTL DEF Spec, OneProviderPerTask
=============================================================================
