----------------------------- MODULE Inventory -----------------------------
(***************************************************************************)
(* The live inventory and what a managed cycle does with it.               *)
(*                                                                         *)
(* Several local controllers run the same adapter                          *)
(* (openclaw-inventory-adapter.py): under a lock file it scans the         *)
(* processes, asks the Codex daemon for its active threads between two     *)
(* looks at the daemon's identity, and asks the gateway whether it is      *)
(* idle, unless unidentified work was found before.  Of the processes it   *)
(* reports those it recognises by their arguments; the commands of a route *)
(* need not be among them (an openclaw agent exec is not).  The controller *)
(* (manager.py) plans nothing without an observation or next to            *)
(* unidentified work, and no order whose order or task a session covers.   *)
(* Then it launches providers, which outlive a controller that dies.       *)
(*                                                                         *)
(* Work comes and goes at any time, the daemon is restarted, the lock file *)
(* is replaced, adapters and controllers die.  The daemon, the gateway and *)
(* the commands asked are external.  A scan is one step: a process that    *)
(* starts or ends during it may be seen or not.                            *)
(*                                                                         *)
(* Bounds: MaxDaemons on the daemons started, MaxFiles on the lock files.  *)
(***************************************************************************)
EXTENDS Naturals, FiniteSets

CONSTANTS Controller,
          Order,
          Owner,       \* the controller of each order
          Task,        \* the task of each order
          Outsider,    \* processes no controller started
          Kind,        \* what the scan takes each process for, providers too
          Thread,      \* threads loaded in the Codex daemon
          Gateway,     \* the work the gateway executes, as one piece
          MaxDaemons, MaxFiles

ASSUME InventoryAssumption ==
    /\ Owner \in [Order -> Controller]
    /\ Kind \in [Order \cup Outsider -> {"worker", "unseen", "proxy", "stray", "unsupported"}]
    /\ \A o \in Order : Kind[o] \in {"worker", "unseen"}
    /\ Order \cap Outsider = {}
    /\ Thread \cap (Order \cup Outsider) = {}
    /\ MaxDaemons \in Nat
    /\ MaxFiles \in Nat \ {0}

VARIABLES
    running,   \* work in progress: providers (by their order), outsiders, threads, Gateway
    daemon,    \* the running Codex daemon, 0 for none
    daemons,   \* how many there were
    lockFile,  \* the file at the path of the snapshot lock
    strays,    \* controllers whose adapter died and left its gateway call in flight
    at,        \* per controller: where its cycle is
    look,      \* per controller: what its adapter knows
    sessions,  \* per controller: the sessions it was told of
    planned,   \* per controller: the orders to launch
    mine,      \* per controller: the providers this cycle launched
    since,     \* history: the work that has run since the cycle's observation began
    tainted    \* history: a peer published an observation that overlaps this one

world == <<running, daemon, daemons, lockFile, strays>>
cycle == <<at, look, sessions, planned, mine>>
vars == <<world, cycle, since, tainted>>

Process == Order \cup Outsider
Work    == Process \cup Thread \cup {Gateway}

Adapter == {"opened", "locked", "identified", "connected", "surveyed", "asking",
            "answered"}
Holding == Adapter \ {"opened"}
Stage   == Adapter \cup {"idle", "observed", "refused", "dispatch"}

\* file: the lock file it opened; listener: the daemon of the first scan;
\* peer: the daemon that answers its queries; unread: threads still to read;
\* rows: the sessions found.
Look == [file : 0..MaxFiles, listener : 0..MaxDaemons, peer : 0..MaxDaemons,
         unread : SUBSET Thread, rows : SUBSET Work]

NoLook == [file |-> 0, listener |-> 0, peer |-> 0, unread |-> {}, rows |-> {}]

TypeOK ==
    /\ running \subseteq Work
    /\ daemon \in 0..daemons /\ daemons \in 0..MaxDaemons
    /\ lockFile \in 0..MaxFiles
    /\ strays \subseteq Controller
    /\ at \in [Controller -> Stage]
    /\ look \in [Controller -> Look]
    /\ sessions \in [Controller -> SUBSET Work]
    /\ planned \in [Controller -> SUBSET Order]
    /\ mine \in [Controller -> SUBSET Order]
    /\ since \in [Controller -> SUBSET Work]
    /\ tainted \subseteq Controller

Init ==
    /\ running = {}
    /\ daemon = 0 /\ daemons = 0
    /\ lockFile = 0
    /\ strays = {}
    /\ at = [c \in Controller |-> "idle"]
    /\ look = [c \in Controller |-> NoLook]
    /\ sessions = [c \in Controller |-> {}]
    /\ planned = [c \in Controller |-> {}]
    /\ mine = [c \in Controller |-> {}]
    /\ since = [c \in Controller |-> {}]
    /\ tainted = {}

-----------------------------------------------------------------------------
(* The snapshot lock: inventory_snapshot_lock.                              *)

Goto(c, from, to) == at[c] = from /\ at' = [at EXCEPT ![c] = to]

\* The flock is on the file that was opened, whatever its path leads to now.
Holders(file) == {c \in Controller : at[c] \in Holding /\ look[c].file = file}

\* _validate_binding: the path still leads to the file that was opened.
Binding(c) == look[c].file = lockFile

\* BUG: the lock file is made anew.
OpenAnew(c) ==
    /\ Goto(c, "idle", "opened")
    /\ lockFile' = lockFile + 1
    /\ look' = [look EXCEPT ![c] = [NoLook EXCEPT !.file = lockFile']]
    /\ since' = [since EXCEPT ![c] = running]
    /\ UNCHANGED <<running, daemon, daemons, strays, sessions, planned, mine, tainted>>

\* The cycle observes: the adapter opens the lock file, or creates it.
Open(c) ==
    /\ Goto(c, "idle", "opened")
    /\ lockFile' = IF lockFile = 0 THEN 1 ELSE lockFile
    /\ look' = [look EXCEPT ![c] = [NoLook EXCEPT !.file = lockFile']]
    /\ since' = [since EXCEPT ![c] = running]
    /\ UNCHANGED <<running, daemon, daemons, strays, sessions, planned, mine, tainted>>

\* _acquire_bounded: a nonblocking flock in a loop, the binding checked before
\* and (in Scan) after it.
Acquire(c) ==
    /\ Binding(c)
    /\ Holders(look[c].file) = {}
    /\ Goto(c, "opened", "locked")
    /\ UNCHANGED <<world, look, sessions, planned, mine, since, tainted>>

-----------------------------------------------------------------------------
(* observe_codex and process_sessions.                                      *)

\* control_process_kind, of the processes of the last scan.
Seen(kinds) == \E x \in Outsider \cap running : Kind[x] \in kinds

\* capture_daemon_identity: process, executable and socket of the listener are
\* those of the daemon the first scan found.
SameListener(c) == daemon = look[c].listener

\* process_actor: its name or its arguments are none of those it knows.
Unseen == {x \in Process : Kind[x] = "unseen"}

\* process_sessions: the processes recognised as agents, without the listener and
\* its proxies.
Proxy == {x \in Outsider : Kind[x] = "proxy"}
ProcessSessions == (running \cap Process) \ (Proxy \cup Unseen)

\* The first scan.  Without a listener there are no threads to ask for, but
\* then there must be no proxy either.
Scan(c) ==
    /\ Binding(c)
    /\ ~Seen({"unsupported"})
    /\ \/ /\ daemon = 0
          /\ ~Seen({"proxy", "stray"})
          /\ Goto(c, "locked", "surveyed")
          /\ look' = [look EXCEPT ![c].rows = ProcessSessions]
       \/ /\ daemon # 0
          /\ Goto(c, "locked", "identified")
          /\ look' = [look EXCEPT ![c].listener = daemon]
    /\ UNCHANGED <<world, sessions, planned, mine, since, tainted>>

\* WebSocketRpc and _loaded_ids: whatever daemon listens at the socket now.
Connect(c) ==
    /\ Goto(c, "identified", "connected")
    /\ daemon # 0
    /\ look' = [look EXCEPT ![c].peer = daemon, ![c].unread = Thread]
    /\ UNCHANGED <<world, sessions, planned, mine, since, tainted>>

\* loaded_thread_rows: one thread/read; idle threads are omitted.
Read(c, t) ==
    /\ at[c] = "connected"
    /\ daemon = look[c].peer
    /\ t \in look[c].unread
    /\ look' = [look EXCEPT ![c].unread = @ \ {t}, ![c].rows = @ \cup ({t} \cap running)]
    /\ UNCHANGED <<world, at, sessions, planned, mine, since, tainted>>

Surveyed(c) ==
    /\ Goto(c, "connected", "surveyed")
    /\ look[c].unread = {}
    /\ look' = [look EXCEPT ![c].rows = @ \cup ProcessSessions]
    /\ UNCHANGED <<world, sessions, planned, mine, since, tainted>>

\* BUG: there must be a listener, not the one before.
RescanAnyListener(c) == daemon # 0 /\ ~Seen({"unsupported", "stray"}) /\ Surveyed(c)

\* The final scan: the daemon is the one it was before the query, and all
\* proxies are its own (_proxy_covered).
Rescan(c) == SameListener(c) /\ ~Seen({"unsupported", "stray"}) /\ Surveyed(c)

-----------------------------------------------------------------------------
(* The gateway, and the end of the adapter.                                 *)

\* Sessions without order and task: everything but the controllers' providers.
Unidentified(S) == S \ Order # {}

\* require_gateway_idle: the call is sent.
Ask(c) ==
    /\ Goto(c, "surveyed", "asking")
    /\ ~Unidentified(look[c].rows)
    /\ UNCHANGED <<world, look, sessions, planned, mine, since, tainted>>

\* BUG: the counters are not looked at.
AnswerAnyway(c) ==
    /\ Goto(c, "asking", "answered")
    /\ UNCHANGED <<world, look, sessions, planned, mine, since, tainted>>

\* The snapshot extension: every counter of the gateway is zero.  It counts the
\* gateway's work and every other call that is in flight.
GatewayIdle(c) ==
    /\ Gateway \notin running
    /\ strays = {}
    /\ \A d \in Controller \ {c} : at[d] # "asking"

\* A busy gateway refuses the observation.
Answer(c) ==
    /\ GatewayIdle(c)
    /\ Goto(c, "asking", "answered")
    /\ UNCHANGED <<world, look, sessions, planned, mine, since, tainted>>

\* The payload is printed after a last look at the binding; the lock is free.
Tell(c) ==
    /\ \/ Goto(c, "answered", "observed")
       \/ Goto(c, "surveyed", "observed") /\ Unidentified(look[c].rows)
    /\ sessions' = [sessions EXCEPT ![c] = look[c].rows]
    /\ look' = [look EXCEPT ![c] = NoLook]
    /\ tainted' = tainted \cup {d \in Controller \ {c} : at[d] \in Holding}
    /\ UNCHANGED <<world, planned, mine, since>>

\* BUG: the binding is not checked again after the observation.
PublishUnchecked(c) == Tell(c)

Publish(c) == Binding(c) /\ Tell(c)

\* Any check that fails, any command that fails or hangs, a wait of eight
\* seconds for the lock: no payload, and the observation is refused.
Refuse(c) ==
    /\ at[c] \in Adapter
    /\ at' = [at EXCEPT ![c] = "refused"]
    /\ look' = [look EXCEPT ![c] = NoLook]
    /\ since' = [since EXCEPT ![c] = {}]
    /\ tainted' = tainted \ {c}
    /\ UNCHANGED <<world, sessions, planned, mine>>

\* A timeout: the adapter's own ends its client, the controller's ends the
\* adapter; what the gateway executes for the call goes on.
Kill(c) ==
    /\ Goto(c, "asking", "refused")
    /\ look' = [look EXCEPT ![c] = NoLook]
    /\ since' = [since EXCEPT ![c] = {}]
    /\ tainted' = tainted \ {c}
    /\ strays' = strays \cup {c}
    /\ UNCHANGED <<running, daemon, daemons, lockFile, sessions, planned, mine>>

-----------------------------------------------------------------------------
(* The rest of the cycle: reconcile_sessions, plan, dispatch_plan.          *)

\* A session that an operator adopted and whose base or task is over is
\* cancelled; the others are only observed.
CancelAdopted(c, o) ==
    /\ at[c] = "observed"
    /\ o \in sessions[c] \cap Order
    /\ running' = running \ {o}
    /\ since' = [d \in Controller |-> since[d] \ {o}]
    /\ UNCHANGED <<daemon, daemons, lockFile, strays, cycle, tainted>>

\* BUG: only orders are compared, not tasks.
CoveredOrder(c, o) == o \in sessions[c]

\* live-session-already-covers-task
Covered(c, o) == \E p \in sessions[c] \cap Order : p = o \/ Task[p] = Task[o]

\* Without an observation, or with an unidentified session, nothing is planned.
\* Of two orders for one task the native law (external) admits one.
Plan(c, S) ==
    /\ \A o \in S : Owner[o] = c /\ ~Covered(c, o)
    /\ \A o, p \in S : o # p => Task[o] # Task[p]
    /\ S # {} => at[c] = "observed" /\ ~Unidentified(sessions[c])
    /\ at[c] \in {"observed", "refused"}
    /\ at' = [at EXCEPT ![c] = IF S = {} THEN "idle" ELSE "dispatch"]
    /\ planned' = [planned EXCEPT ![c] = S]
    /\ sessions' = [sessions EXCEPT ![c] = {}]
    /\ since' = [since EXCEPT ![c] = IF S = {} THEN {} ELSE @]
    /\ tainted' = tainted \ {c}
    /\ UNCHANGED <<world, look, mine>>

\* A thread of dispatch launches the provider of its order, or refuses.
Launch(c, o) ==
    /\ at[c] = "dispatch"
    /\ o \in planned[c]
    /\ planned' = [planned EXCEPT ![c] = @ \ {o}]
    /\ \/ /\ running' = running \cup {o}
          /\ mine' = [mine EXCEPT ![c] = @ \cup {o}]
       \/ UNCHANGED <<running, mine>>
    /\ UNCHANGED <<daemon, daemons, lockFile, strays, at, look, sessions, since, tainted>>

Reset(c) ==
    /\ at' = [at EXCEPT ![c] = "idle"]
    /\ look' = [look EXCEPT ![c] = NoLook]
    /\ sessions' = [sessions EXCEPT ![c] = {}]
    /\ planned' = [planned EXCEPT ![c] = {}]
    /\ mine' = [mine EXCEPT ![c] = {}]
    /\ since' = [since EXCEPT ![c] = {}]
    /\ tainted' = tainted \ {c}

\* All threads returned.
EndCycle(c) ==
    /\ at[c] = "dispatch"
    /\ planned[c] = {}
    /\ mine[c] \cap running = {}
    /\ Reset(c)
    /\ UNCHANGED world

\* The controller dies.  Its providers go on, unless it ran in the systemd unit,
\* which kills the whole group (End).
Crash(c) ==
    /\ at[c] \in {"observed", "dispatch"}
    /\ Reset(c)
    /\ UNCHANGED world

Cycle(c) ==
    \/ Open(c) \/ Acquire(c) \/ Scan(c) \/ Connect(c)
    \/ \E t \in Thread : Read(c, t)
    \/ Rescan(c) \/ Ask(c) \/ Answer(c) \/ Publish(c) \/ Refuse(c) \/ Kill(c)
    \/ \E o \in Order : CancelAdopted(c, o) \/ Launch(c, o)
    \/ \E S \in SUBSET Order : Plan(c, S)
    \/ EndCycle(c) \/ Crash(c)

-----------------------------------------------------------------------------
(* The world.                                                               *)

\* Work starts: an outsider, a turn of a thread, something in the gateway.
Begin(x) ==
    /\ x \in Work \ (Order \cup running)
    /\ x \in Thread => daemon # 0
    /\ running' = running \cup {x}
    /\ UNCHANGED <<daemon, daemons, lockFile, strays, cycle, since, tainted>>

Gone(X) ==
    /\ running' = running \ X
    /\ since' = [c \in Controller |-> since[c] \ X]

\* Work ends: a provider, too, in a live cycle or long after it.
End(x) ==
    /\ x \in running
    /\ Gone({x})
    /\ UNCHANGED <<daemon, daemons, lockFile, strays, cycle, tainted>>

\* The daemon starts, or stops with its threads.
Daemon ==
    /\ \/ /\ daemon = 0
          /\ daemons < MaxDaemons
          /\ daemons' = daemons + 1
          /\ daemon' = daemons'
          /\ UNCHANGED <<running, since>>
       \/ /\ daemon # 0
          /\ daemon' = 0
          /\ Gone(Thread)
          /\ UNCHANGED daemons
    /\ UNCHANGED <<lockFile, strays, cycle, tainted>>

\* The lock file is unlinked and another one made at its path.
Replace ==
    /\ lockFile \in 1..(MaxFiles - 1)
    /\ lockFile' = lockFile + 1
    /\ UNCHANGED <<running, daemon, daemons, strays, cycle, since, tainted>>

\* A call that outlived its adapter ends.
CallEnds(c) ==
    /\ c \in strays
    /\ strays' = strays \ {c}
    /\ UNCHANGED <<running, daemon, daemons, lockFile, cycle, since, tainted>>

Next ==
    \/ \E c \in Controller : Cycle(c) \/ CallEnds(c)
    \/ \E x \in Work : Begin(x) \/ End(x)
    \/ Daemon
    \/ Replace

Spec == Init /\ [][Next]_vars

-----------------------------------------------------------------------------
(* Properties.                                                              *)

\* What is planned is clear of all work that has gone on since the cycle's
\* observation began, as far as the observation can recognise it: but for the
\* daemon's proxies none of it is unidentified, wherever it runs, and none covers
\* a planned order or its task.
PlansClear ==
    \A c \in Controller : planned[c] # {} =>
        /\ ~Unidentified(since[c] \ (Proxy \cup Unseen))
        /\ \A o \in planned[c], p \in (since[c] \cap Order) \ Unseen : Task[p] # Task[o]

\* While a provider that the scan recognises runs, its task gets no other one,
\* whatever a dead controller left running.
OneProviderPerTask ==
    [][\A c \in Controller :
           \A o \in mine'[c] \ mine[c], p \in (running \cap Order) \ Unseen :
               Task[p] # Task[o]]_vars

\* Two observations that overlap are never both published.
SnapshotsApart == \A c \in tainted : at[c] # "observed"

\* The threads reported are those of the daemon whose process is left out of
\* the sessions, although the socket is connected to by its path alone.
OneDaemon ==
    \A c \in Controller :
        at[c] \in {"surveyed", "asking", "answered"} => look[c].peer = look[c].listener
=============================================================================
