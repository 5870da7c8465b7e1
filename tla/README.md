# Verification of the fleet controller

TLA+ models of the idol fleet controller (`fleet_control/`), TLC configurations
that check them on small instances, and TLAPS proofs about them.  The controller
takes work orders, plans assignments to routes (model providers), runs each as an
attempt in a worktree of its own, and records everything that matters in an
append-only journal.  Its hard part is not any single function.  It is several
processes sharing a directory of files (claims, control state, journal) with
nothing but `flock`, `rename` and `fsync` between them, each of which may die at
any step, and a clock that may be set back.

## The system

| component | state | operations | talks to |
|---|---|---|---|
| semantic and path claim stores (`claims.py`) | a JSON file of leases, a lock file | acquire, renew, release, list | called by every dispatch thread |
| controller lease (`claims.py`) | a lock file | taken for a cycle, never waited for | `run_once` |
| repository claims (`claims.py`) | the claim command's own | one subprocess per path: acquire, renew, release | dispatch, local control |
| local control (`control.py`) | state, key, lock/anchor file | enable, refresh, drain, disable; protected boundaries; permits | operators, dispatch, runtime, refresh of the base |
| dispatch (`controller.py`, `runtime.py`) | one thread per assignment | reserve, claim, launch, witness, publish, ready, refuse, clean up | all of the above and the journal |
| native law (`native_dispatch.py`) | none | decides `reserve` and `launch` on projected journal facts | called inside journal transactions |
| journal (`journal.py`) | a hash-chained file of JSON lines | transaction, append, events | everyone |
| reconciliation (`reconcile.py`) | none | cancels attempts that outlived the claim TTL | journal, under the controller lease |
| coordination (`coordination.py`) | journal facts, queue files | acknowledge, delegate, recover, recipes | journal, work-order queue |
| outcomes (`performance.py`) | journal facts | record_outcome, route factors | journal, scheduler |
| scheduler (`scheduler.py`) | none | conflict tests, build_plan | dispatch |
| calibration (`calibration.py`, `controller.py`) | the calibration file: per route a proof that expires | probe the due routes, keep current proofs, write the record | controller's cycle, the operator's `calibrate` |
| route circuits (`health.py`) | journal facts | record failure and success, fold them to a backoff | calibration, dispatch |
| policy, usage (`policy.py`, `usage.py`) | none | check a proof against order and route, observe usage | plan, dispatch, launch |
| work queue (`coordination.py`, `controller.py`) | a directory of order files | publish a delegated child, recover, rebind followers, edit by hand | journal, git, operators |
| refresh of the base (`controller.py`, `gitops.py`) | the checkout | fetch, fast-forward, rebind orders one by one | work queue, control, git |
| manager and inventory (`manager.py`, `inventory.py`) | the sessions of one observation | observe, plan, reconcile sessions | adapter, dispatch |
| inventory adapter (`scripts/codex_inventory.py`, `scripts/openclaw-inventory-adapter.py`) | none | scan processes, query the Codex daemon, ask the gateway | host, daemon, gateway |
| inventory snapshot lock (`scripts/inventory_snapshot_lock.py`) | a lock file | bounded lock, binding of path and descriptor | adapters of all controllers |
| snapshot plugin (`plugins/openclaw-fleet-snapshot`) | none | report the gateway's counters | adapter |
| journal recipes, installers, audits, budgets | | | not modelled, see below |

Locks are always taken in the order controller lease (not waited for), local
control (shared by boundaries, exclusive by operators), then journal or claim
store (`docs/FLEET_CONTROLLER.md:127`); a journal transaction and a claim store's lock
are never held together.

What is hard, and what makes each part correct:

* **Claim stores.**  Calls read the clock before they wait for the lock, and a
  retry after a crash calls under its predecessor's name.  Conflicting leases
  must never coexist, and a lease must stay until its deadline.
* **Local control.**  Operators and workers race; state and anchor are written
  one after the other.  Nobody may be inside a boundary under any state but the
  current one, a revoked epoch must never come back, and half-written files must
  keep everyone out.
* **Dispatch.**  Attempts race for one ACK, for claims and for the task, while
  operators fence them, providers time out, claims lapse, processes crash and
  reviewers judge.  An ACK starts one attempt; a ready attempt holds its task; a
  fenced attempt never becomes ready; an orphan is cancelled and a live attempt
  is not; no claim is forgotten.

* **Routes.**  Proofs expire and are bound to files that change; the controller
  and an operator replace the same record without a lock; failures back off.
  Nothing may be launched on a route whose billing is not proved, a proof may not
  be lost without a cause, and a sound route must come back.
* **Work queue.**  A child is journaled, published and journaled again; operators
  edit and pull at any time; the refresh reads the files twice.  No child may be
  published unjournaled, no file overwritten, no order rebound that did not opt
  in, and an interrupted delegation must end.
* **Inventory.**  The observation is taken in many steps while work starts, ends
  and outlives its controller.  A plan must be clear of what was running when
  the observation began and runs still, and no task may get two providers.

`PROJECT.json` lists every hazard with its line, and the properties that cover it.

## Modules

| module | models | extended by |
|---|---|---|
| `Targets` | `semantic_overlap`, `path_overlap`, `orders_conflict` | `ClaimStore`, `ExclusiveLease` |
| `ExclusiveLease` | abstract: atomic exclusive leases with deadlines | refined by `ClaimStore` |
| `ClaimStore` | `SemanticClaimStore` | `MCClaimStore`, `ClaimStoreProofs` |
| `AdmissionGate` | abstract: a gate turned and passed atomically | refined by `LocalControl` |
| `LocalControl` | `LocalControl`, `_Transition`, `_ClaimGuard` | `MCLocalControl`, `LocalControlProofs` |
| `AttemptLedger` | abstract: the life cycle of attempts | refined by `Dispatch` |
| `Dispatch` | `run_once`, `dispatch`, `execute`, reconciliation, ACKs, outcomes | `MCDispatch`, `DispatchProofs` |
| `Routes` | calibration, circuits, proofs of a cycle's routes up to the launch | `MCRoutes`, `RoutesProofs` |
| `WorkQueue` | `delegate`, recovery, `refresh_remote_base`, editors | `MCWorkQueue`, `WorkQueueProofs` |
| `Inventory` | adapter, snapshot lock, managed cycle, what runs on the host | `MCInventory`, `InventoryProofs` |

The `MC` modules only give constants their values.  Definitions commented
`BUG:` are deliberately wrong variants of the definition below them: each shows
that some property notices a plausible mistake.  No specification uses them.

**ClaimStore.**  A call is three steps: `BeginAcquire`/`BeginOther` (the clock is
read, `claims.py:191`), `TakeLock` (flock, then the file is read), and one of
`List`, `Acquire`, `AcquireRefused`, `Renew`, `RenewRefused`, `Release`, which
replaces the file (`os.replace`) and drops the lock.  A process that
dies (`Crash`) loses its lock to the kernel and leaves the last complete file.
`held` is what the last successful call returned to the attempt: the model's
stand-in for what the attempt believes.  Targets are sequences of parts.  `Row`
abstracts owner and task to one holder.  The two stores of the code (semantic,
path) are two instances of the same class and differ in the validator only.

**LocalControl.**  `_mutate` is `Open` (the clock is read, the lock file created
if absent, both before flock), `Lock` or `Reject`, `Rename` (the new state
replaces the old), `Anchor` (the anchor is rewritten).  `Die` and `DieUnanchored`
are the deaths and failed writes in between, one of which truncates the anchor.
Boundaries are held: `EnterFresh`/`EnterOwned` take the shared lock and `Leave`
drops it.  `Issue` reads the clock again inside the claim guard.  Keys, MACs,
digests, inodes and modes of files are abstracted to "the state's generation is
the anchor's" (`Verified`); an epoch's random bytes are the generation that drew
them, which no later generation draws again.

**Dispatch.**  Per controller a cycle (`TakeLease`, `Cancel`, `Plan`, `EndCycle`,
`Crash`) and per order a thread whose `at` is the place in `dispatch` it has reached.
Each journal append is one action; the law's decision is in the action of
the append it admits, since both are in one transaction.  `Fail` is an exception at any
place, `Refuse` the except branch, `Cleanup` the finally branch.  `ReleaseRaises`
is `RepositoryClaimTransaction.__exit__` raising.  The control is one variable:
the atomic gate that `LocalControl` is shown to implement (disable takes effect on
permits at once, and waits for the claim guard that spans reservation and permit).
The claims are a set of rows: the exclusive leases that `ClaimStore` is shown to
implement.  `Plan` takes any set of orders that are not held and do not conflict:
scores, routes and budgets only choose among these.  A provider process that a dead
controller left running is not in `Dispatch` (it is in `Inventory`): `ConflictsApart` speaks of
the threads of live controllers.  `Event` abstracts a journal row
to its kind, order, attempt index and ACK.  `AttemptIndex`, `HoldsOrder`,
`ExpiredAttempts` and `StatusOf` are the code's own folds over the journal.

The native law (a separate program) and the repository's claim command are
external.  `LawReserves` and `LawLaunches` say what `docs/FLEET_CONTROLLER.md:188`
and `:198` and the projected evidence (`native_dispatch.py:218-299`) fix: one
ACK reserves one attempt, a running or ready attempt holds the task, one or two
attempts.  The law may also refuse for any other reason (`ReserveRefused`).
Hypotheses and the dependency subject are left out: they only add refusals.

**Routes.**  A proof is what is left of its lifetime and the fingerprint of the
files it was made from.  Time is relative: `Tick` makes every proof and every
backoff one tick shorter.  The controller's cycle is `Begin` (the record is read,
the due routes are those without a current proof and not backing off), `Probe`
(which of them pass), `Write` or `Refuse`, `RecordResult`, `Plan`, and per
assignment `Check` (before the claims), `Assert` (before the launch), `Launch` (in the
process guard, where the subject must be that of the permit).  The operator's
`Command` probes all routes and writes the same file; `stale` is history and
says that somebody else wrote in between.  The probes of one calibration are one
step, as each is about a route of its own, and so are a launch and its answer.
Which routes a plan picks among the usable ones is left open.  A route has one job at a
time: of the `max_parallel` assignments the code allows, each goes through the same
checks of the same proof, and none writes what another reads.  `Refuse` may back off no
route at all, because a refused record may hold refusals of other routes only.

**WorkQueue.**  `Check`, `Enter`, `Look`, `Link`, `Queue` are `delegate`'s steps around
the journal's lock (`Unlocked`); `Recover` enters the same steps with a row of
the journal.  The refresh is `Fetch`, `Load`, `List` (which orders follow is judged
on what was loaded, which bytes are rebound on what is read now), `FastForward`, and
per file `Reread` (compared by hash) and `Replace`.  `EndRefresh` is its end, its
refusal and its death.  Commits are numbered, as the remote is not rewritten and
whatever does not descend from the head is refused; `Tree` says what the
watched paths of an edition are at each commit.  Editions of one order share a
file.  A command at a base that no ACK is bound to can only be refused and is left
out.  `origin` and `by` of a file are its declaration's base and, as history, who
made it.

**Inventory.**  A scan of the processes is one step: one that starts or ends during
it may be seen or not.  `Open`, `Acquire`, `Scan`, `Connect`, `Read`, `Rescan`, `Ask`, `Answer`,
`Publish` are the adapter; `Refuse` is any check that fails, `Kill` a timeout, the
controller's or that of the adapter's own client (eight seconds), which leaves the call in flight
in the gateway.  Not every process is reported: `Kind` says of each, provider or outsider, whether
`process_actor` recognises it, and `ProcessSessions` leaves out the `Unseen` ones, as the adapter
does.  `Plan`, `Launch`,
`EndCycle`, `Crash` are the cycle; a controller that dies leaves its providers
running (started by hand; in the unit of `scripts/install-fleet-systemd.sh:298` they are killed
with it, which is `Crash` and `End`).  The daemon, the gateway and the host are external: work begins and ends at
any time (`Begin`, `End`), the daemon restarts, the lock file is replaced.  `since` is
history: what was running when the observation began and has run since.

## Runs

| run | instance | shows |
|---|---|---|
| `claim_store` | 2 holders, each may claim an umbrella target, an unrelated one, or the unrelated one with a descendant of the umbrella; TTL 2, clock 0..2 that moves forward, crashes anywhere, fairness | `TypeOK`, `LockProtects`, `RowsExclusive`, `UnexpiredKept`, `RenewCoversBatch`, `CallsReturn`; refines `ExclusiveLease` |
| `local_control` | 2 operators, 1 worker with 2 boundaries, 3 generations, TTL 1, clock 0..2 set back at will, fairness | `TypeOK`, `GuardUnderCurrentState`, `EndedForever`, `RefusedForCause`, `NoLostUpdate`, `DamagedForever`, `MutationsReturn`; refines `AdmissionGate` |
| `dispatch` | 1 controller, 2 orders of one task, 2 attempts, 2 ACKs, 1 crash | `TypeOK`, `OneStartPerAck`, `ReadyHoldsTask` while releases succeed |
| `dispatch_ledger` | 1 order, 2 attempts, 2 ACKs, 1 crash, 1 orphan, a reviewer | refines `AttemptLedger` |
| `dispatch_live` | 1 order, 1 attempt, all control modes, 1 crash, 1 unproved route, failing releases, fairness | `NoLeak`, `DisabledNeverReady`, `OneOutcome` (one reviewer), `AttemptsSettle` |
| `dispatch_lease` | 2 controllers, 2 conflicting orders of two tasks, 1 crash, an attempt that outlives its claims | `CancelsOnlyOrphans`, `ConflictsApart` |
| `dispatch_release` | as `dispatch`, releases may fail | violates `ReadyHoldsTask`: finding 1 |
| `dispatch_review` | 1 order, two reviewers | violates `OneOutcome`: finding 2 |
| `inventory` | 2 controllers, 2 orders of one task (of the first one), one with a recognised command and one without, an outsider, a thread, the gateway, 2 daemons, 2 lock files | `TypeOK`, `PlansClear`, `SnapshotsApart`, `OneDaemon`, `OneProviderPerTask` |
| `routes` | 2 routes, one sound, wanted and metered, one that fails and drifts at will; lifetime 2, one drift of the first, fairness | `TypeOK`, `LaunchProved`, `OthersEligible`, `AvailableAgain` |
| `work_queue` | 2 operators, 2 editions of one order in one file, 3 commits, watched paths that change and change back, 1 ACK, 2 delegations, 1 death, fairness; nobody edits between the two readings | `TypeOK`, `JournaledFirst`, `FollowersOnly`, `NeverOverwritten`, `Recovered` |
| `work_queue_edit` | the same, one edition does not follow the remote, edits at any time | violates `FollowersOnly`: finding 3 |

**Bounds.**  Each bound is a constant with a guard of its own.  Two holders and two
batches of which one overlaps the other are what exclusion is about, and a compatible batch lets two holders share the
file; a third holder adds no new pair.  That the clock may be set back is not run: the
theorem `Exclusive` covers it.  A clock of 0..TTL lets a lease be
created, expire and be replaced while younger leases live on and a call still
waits with an old reading.  Three generations let an epoch be opened, ended and followed by
another; two operators are what a race for a decision needs, and workers share
the lock with each other, so one stands for all.  Two attempts are the law's own limit per task, and two orders of one
task are the smallest case in which an attempt of one can meet an attempt of the
other.  Crashes, disables, ageing, reviewers and failing releases are in the runs whose
properties depend on them and left out of the others, because the product of all is
too large.  In `routes` a lifetime of two ticks lets a proof be kept, expire in a
thread and be made again while another is current; the calibration may take one
tick (`Slow`), as its probes have timeouts below the shortest lifetime; a backoff of one
tick is enough to keep a route out of a cycle.  In `work_queue` three commits let an
order be rebound twice, to a commit where the watched paths are again what they
were; two rows let two delegations of one file collide; the death may hit the command
or its recovery.  In `inventory` two controllers, two lock files and two daemons are
the smallest case of a lock that was replaced and of a daemon that is not the one
scanned; the outsider is a stray proxy, the kind that must be refused, and the proofs
cover all kinds.

Three runs have a `VIEW`, which leaves out what neither an action nor a property of the run
depends on.  In `inventory` it is the history of the controller that has no orders
(`Asked`).  In `dispatch_lease` and `dispatch_ledger` it is the histories `cut` and
`abandoned`, and how the events of different orders interleave in the journal
(`ByOrder`): there no two orders share a task, and then every read of the journal,
the law's included, is of one order's events or counts events.

The local control's run does not look for deadlock: generations and
boundaries run out.  All other runs do.

**Fairness.**  In `ClaimStore` a process that waits for a lock that is free again
and again gets it (strong fairness on `TakeLock`: flock queues its waiters) and
one that has it goes on; nobody has to start a call.  In `LocalControl` the same
holds for operators, and a protected operation ends (each is bounded by
a timeout in the code).  In `Dispatch` every thread goes on (providers, witnesses and claim
commands have timeouts), the service starts another cycle after one has
ended or crashed (`Restart=always`, `scripts/install-fleet-systemd.sh:296`), and time passes until an
attempt is older than the claim TTL.  In `Routes` the
controller's cycles and a command that has begun go on, and time passes.  In
`WorkQueue` a command goes on once it has begun (the journal's lock is given to
whoever waits), and what was journaled and not queued is recovered by somebody again and again:
an operator's duty, which `Recovered` therefore assumes.  In both nothing is
asked of the refresh, the remote or an editor.  `Inventory` has safety
properties only.  Operators, recipients and reviewers have no other fairness.

**Deliberately wrong definitions.**  Each property of each passing run is
violated by one of the `BUG` definitions (`PROJECT.json`, "mutants"), under the
bounds of that run.

## Findings

1. *A ready attempt is refused when the release of its repository claims fails*
   (`controller.py:1140`, run `dispatch_release`).  `attempt.ready` is journaled inside the
   `with RepositoryClaimTransaction` block; its `__exit__` runs a subprocess that
   may time out and raise (`claims.py:318-323`).  The exception reaches
   dispatch's `except Exception`, which appends `attempt.refused` for an attempt
   that is ready.  After a fresh ACK another attempt of the task starts with no
   verdict in between, against `docs/FLEET_CONTROLLER.md:188` ("A running or ready
   attempt holds the task").
2. *Two verdicts for one attempt* (`performance.py:152`, run `dispatch_review`).
   `record_outcome` checks in one read of the journal that there is no verdict and
   appends in another transaction.  Two concurrent reviewers both pass, against
   `performance.py:153` and `tests/test_performance.py:404`.

3. *An order that does not follow the remote is rebound* (`controller.py:505`, run
   `work_queue_edit`).  `refresh_remote_base` judges by the orders it loaded (`:494`)
   and protects the rewriting by a hash of the bytes it reads later, in the loop
   (`:501`, `:516`), with a `git diff` per file in between.  A file replaced
   in between by an edition of the same id that does not opt in, or whose paths
   changed, is rebound, against `docs/FLEET_CONTROLLER.md:25` ("A work order is
   rebound only when it explicitly opts into `follow_remote_main` and neither its
   claimed paths nor its authority manifest changed").  `work_queue`, without such
   edits, and the theorem `Followers` show that this is the only way.

Things that look odd and are what the documents say or that no document denies: a
failed first mutation (`control.py:398`) leaves a control nobody can
repair or pass (`DamagedForever` shows that it stays closed); an ACK that arrives
between the law's refusal and `dispatch.held` does not free the order; an order left at
the old base by a refresh that died, or placed while it ran, is held for ever as bound to
another base; an operator's edit between `Reread` and `Replace` is lost.

One gap is nearer to a disagreement.  `process_sessions` skips what `process_actor`
(`scripts/openclaw-inventory-adapter.py:153-180`) does not recognise: `hermes` without `chat`, and `openclaw`
always.  So the commands of the routes in `config/fleet.example.json` (`:28-41`, `:72-85`, `:116-124`) are no
sessions, nor does the gateway count what `openclaw agent exec` executes locally.  Such a
process, started by hand or left by a controller that died outside of its unit, fences no
order, not even its own, although `docs/FLEET_CONTROLLER.md:69` says of the adapter that it "fences
standalone agent processes" and `:65` that "Other active or unidentified work still fences dispatch".  What
remains for such a provider is the law's decision on the journal until the attempt is
reconciled, and the claims until they expire.  `Inventory` has these processes
(`Unseen`), and its properties leave them out by name: without that restriction
`PlansClear` fails after a few steps, with it TLC and the theorem `Clear` show that the observation
misses nothing else.

## Proofs

`ClaimStoreProofs` proves, for every set of holders, targets and batches, every
TTL and every bound on the clock:

| theorem | statement |
|---|---|
| `Typed` | `Spec => []TypeOK` |
| `Protected` | `Spec => []LockProtects` |
| `Exclusive` | `Spec => []RowsExclusive`, even if the clock is set back at will |
| `OneOwner` | if targets are sequences of parts, every name is always under the rows of one holder at most |
| `Kept` | `~ClockStepsBack => (Spec => []UnexpiredKept)` |
| `Covered` | `~ClockStepsBack => (Spec => RenewCoversBatch)` |
| `Leases` | `~ClockStepsBack => (Spec => ImplementsLease)`, the refinement of `ExclusiveLease` |

The only assumption is `ClaimStoreAssumption`: batches are non-empty sets of
targets, the TTL is a positive natural number.  The code's range for the TTL (30
to 86400, `claims.py:100`) is not needed.

The argument.  `Protected` says that whoever is in the critical section has read
what the file still says, because a step that changes the rows also gives up the
lock.  So each step replaces the rows by what one operation computes from the
rows themselves (`RowsChange`), although in the code the reading and
the writing are apart.  Given that, exclusion is inductive: purging, renewing and
releasing add no target, and `acquire` compares each new target with the live rows of all other
holders, in both directions of the prefix order (`OverlapSymmetric`).
The clock plays no part.  `OneOwner` is what that means for files: two claims over one
file have targets that are beginnings of its name, so one is the beginning of the other
(`AncestorsOverlap`) and the comparison of pairs has caught it.  `UnexpiredKept` is not inductive by itself.  Two facts are missing: a
call's clock reading is never ahead of the clock, so that a purge spares whatever
has not expired yet; and an attempt's leases carry its own name, so that another
holder's release spares them.  `KeptInv` adds them; the first is where the assumption on
the clock is needed.

`Covered` is about the retry under a predecessor's name, whose rows lie beside the
batch of the retry, and about calls that purge with an old reading.  `BatchInv` says that
the rows under a name expire no later than each lease of the batch, so a purge that takes
one lease of it takes all that the name has (`PurgeTakesAll`), and a renewal that finds
nothing is refused.  It is inductive because the calls under one name follow each other, so
that each reads the clock no earlier than the one before: `acquire` and `renew` only move the
deadlines of a name forward.  For `Leases` a call takes effect when it finishes.  `RowsChange`
says what it then does to the rows, and what it purges had expired at its reading, hence
has expired now (`PurgesExpired`): the abstract store may forget it.

`LocalControlProofs` proves, for every set of operators and workers, every bound
and a clock set back at will:

| theorem | statement |
|---|---|
| `Typed` | `Spec => [](TypeOK /\ Counted)` |
| `Exclusion` | `Spec => []ExclusionInv` |
| `CurrentState` | `Spec => []GuardUnderCurrentState` |
| `Shut` | `Spec => DamagedForever` |
| `Decided` | `Spec => []DecidedInv` |
| `NoneLost` | `Spec => NoLostUpdate` |
| `EpochsEnd` | `Spec => EndedForever` |
| `Permits` | `Spec => [](NewLockInv /\ TurnInv /\ PermitInv)` |
| `Refusals` | `Spec => RefusedForCause` |
| `Gated` | `Spec => ImplementsGate`, the refinement of `AdmissionGate` |

The assumption is `LocalControlAssumption` (the TTL positive, the rest natural
numbers).  Types need `Counted`: a guard uses up a boundary it still had.
`GuardUnderCurrentState` is not inductive, since nothing in it keeps an operator
from renaming the state under a worker; `ExclusionInv` adds that an operator
past its decision is the only one that has the lock and that nobody is inside while
somebody has it.  With it, a step either leaves the files alone, or finds everyone
outside, or lets a worker in after looking at the files (`NextCurrent`).  `Shut` follows: in a damaged control no
operator is past its decision, and every way forward asks for the anchor.  For
generations and epochs `DecidedInv` carries what `Lock` decided to the later
`Rename`: since only the one operator past its decision changes the state file,
a decision is never stale when it is written.

`Refusals` needs to know what became of the epoch of every permit (`PermitInv`): a disable
ended it and is in `revoked`, or the files accept it, or a disable has renamed the state and
was cut off, or will be, before the anchor.  `TurnInv` says which turn an operator has
decided on; a drain, even a repeated one, and a refresh keep the epoch.  `NewLockInv` sets
aside the first mutation, the only one that writes an anchor without having verified one: it
runs alone, and there is no permit yet.  For `Gated` the gate turns when the state is renamed
(`RenameTurns`), and the exclusive lock hides that the anchor is still to come.  Every other step
of an operator is none of the gate's, or leaves the control damaged, which jams it
(`OthersJam`), with nobody inside by `CurrentState`; `DamageStays` says that it stays jammed.

`WorkQueueProofs` proves, for every set of orders, files, operators and trees and
all bounds:

| theorem | statement |
|---|---|
| `Typed` | `Spec => [](TypeOK /\ Bound)` |
| `Journaled` | `Spec => []JournaledFirst` |
| `Followers` | `~EditsWhileListing => (Spec => []FollowersOnly)` |
| `Kept` | `Spec => NeverOverwritten` |

`Bound` ties a command that has journaled to its row.  `JournaledInv` says of the files the
refresh holds in memory what `JournaledFirst` says of those in the directory,
because it writes them back.  For `FollowersOnly` it takes more (`FollowersInv`): what was
loaded is still what the directory says until it is listed, which is where
`~EditsWhileListing` is needed (a delegation does not change a file that exists); what
is listed follows from the old base to the new; what is about to be replaced has the
facts of what was listed; and the head is past the base of every command and row.

`InventoryProofs` proves, for every set of controllers, orders, outsiders of any kind
and threads and all bounds:

| theorem | statement |
|---|---|
| `Typed` | `Spec => []TypeOK` |
| `Same` | `Spec => []OneDaemon` |
| `Apart` | `Spec => []SnapshotsApart` |
| `Clear` | `Spec => []PlansClear` |
| `OneProvider` | if the orders of a task have one owner, `Spec => OneProviderPerTask` |

`PlansClear` and `OneProviderPerTask` speak of the work that the scan recognises, whatever set
`Kind` makes that.  Of the rest nothing is claimed, and nothing holds (see the end of Findings).

`Asked` orders the daemons: the listener was there when it was scanned, the peer is
not older, so if the listener is still the running daemon at the end, it was the peer.
`Locked` orders the lock files: two holders hold two files, and who was overtaken
holds one that is no longer at the path, so its last look at the binding fails.
`Knows` follows the work that has gone on since the beginning of the observation to the
place where it is found: a thread is still unread or among the rows, a process is in the
last scan unless it is `Hidden` (a proxy or not recognised), and the gateway's work has ended
when the gateway answers.  `Launches` adds
that all of a controller's running providers, recognised or not, ran when its observation began or
were launched by this cycle, for orders of different tasks; a recognised one of the former kind
covers its task by `Knows`.

`RoutesProofs` proves, for every set of routes, lifetime, backoff and bound on the
changes of files:

| theorem | statement |
|---|---|
| `Typed` | `Spec => []TypeOK` |
| `Proved` | `Spec => LaunchProved` |
| `Eligible` | `Spec => OthersEligible` |

`RoutesAssumption` asks of the backoffs that they do not get shorter, which the four
constants of `health.py` fulfil; types need it, for a circuit keeps the longest wait.
`BackedInv` says of every proof that is around, in the file, in a call, in the cycle or
with a job, that it is of no subject to come and, as long as it counts, that the best
probe of its route counts for at least as long.  The clause on time makes it
inductive: proof and probe expire together.  The clause on subjects makes it survive a
change of files, after which no old proof counts.  For a job that was checked before
its launch the same is said of the permitted subject.  `KeepsInv` says what a call will
write before it is written: the proofs in the file that it did not probe, unless
somebody has written since.

`DispatchProofs` proves, for every set of controllers, orders, tasks, conflicts and
reviewers and all bounds:

| theorem | statement |
|---|---|
| `Typed` | `Spec => []TypeOK` |
| `Apart` | `Spec => []ConflictsApart` |
| `OneStart` | `Spec => []OneStartPerAck` |
| `Orphans` | `Spec => []CancelsOnlyOrphans` |
| `Fenced` | `Spec => []DisabledNeverReady` |
| `Leak` | `Spec => []NoLeak` |
| `OneJudge` | with one reviewer, `Spec => []OneOutcome` |
| `ReadyHolds` | if releases do not fail, `Spec => []ReadyHoldsTask` |
| `Ledgered` | with both, `Spec => ImplementsLedger`, the refinement of `AttemptLedger` |

Beside these hypotheses `DispatchAssumption` is all that is assumed.  Both hypotheses are
needed: `dispatch_release` and `dispatch_review` are the counterexamples without them, and
findings of the code.  Crashes, disables, failures, lapsing claims, ageing and the order of ACKs
are not restricted.

The argument has four layers.

* *The lease.*  `LeaseInv`: who is in a cycle has the controller lease, and threads and
  orphans belong to a cycle.  With `PlanInv` (what is planned together does not conflict) this is
  `Apart`: claims may lapse, and conflicting attempts still do not meet, for one plan
  is at work at a time.
* *The numbers.*  `NumberInv`: the attempts of an order that were started are those numbered
  1 to `AttemptIndex`, and a thread has the last number or, before it starts, the next one.  A count
  of the journal's rows has thereby become a fact about each row, which is what the
  steps preserve; the cardinalities are in `FinitelyManyAttempts` and its neighbours.  `OneStart`
  follows (the law admits one start per ACK, and a number is given out once), as do the bounds in
  `TypeOK`.
* *One thread.*  `CancelInv` says that the attempt of a thread past its start is not cancelled:
  reconciliation is under the same lease.  `CutInv` says that a thread with a permit, or in the
  guard in which it will get one, works on an attempt that no disable has caught.  `LeakInv` says
  that a thread knows every row it holds.  `JudgeInv` says that what a lone reviewer is about
  to judge has no verdict.
* *The status.*  `StatusOf` is the last word of the journal on an attempt, and the code acts
  on its own place in the function instead.  `WorkInv` relates the two (`Follows`), `JournalInv`
  orders the events of one attempt, and `Enters` concludes that each append is one that the attempt's
  status allows.  `ReadyHolds` and `Ledgered` rest on that.  A failing release breaks it: the
  thread refuses an attempt that is ready.

All safety properties of the runs that pass are thus stated by a theorem.  Only
model-checked is what must happen in the end: `CallsReturn`, `MutationsReturn`,
`AttemptsSettle`, `AvailableAgain`, `Recovered`.  Reasoning with fairness needs ENABLED, which is
out of the prover's reach.

## Not modelled

* Parsing, validation and formatting of documents (`model.py`, `policy.py`,
  `evidence.py`, `usage.py`, `cli.py`), worktrees (`gitops.py`), installers,
  discovery, audits and budgets (`scripts/`): sequential, or I/O without shared
  state.  Their failures are in `Dispatch` as exceptions, in `WorkQueue` as
  refusals.
* Scores, budgets and factors of the scheduler: numbers that choose among what may be
  planned.  `Dispatch` and `Routes` let the plan choose freely.
* A journal with torn lines: every reader verifies the whole chain and refuses
  it, so that nothing further happens until it is repaired by hand.
* `manager.retry`: for sessions that report an attempt, which no adapter of the
  repository does.
* Recipes: single appends of validated documents.
* In the inventory: the identity of the gateway across its restart, the verification
  of the installed plugin, the restored state directory, the age of an
  observation.  All of them only refuse.
* The native law, the claim command, git, the daemon, the gateway and the operating
  system are external: modelled by what the code asks of them.
* Damage by other programs of the same user; the documents exclude it.

## Plan

What is left, in this order.

1. Theorems: that nobody is stuck, as the part of the liveness properties that is an
   invariant (whoever has a lock has a step to take), and the converses of the
   hypotheses (a clock set back is the only way a lease is lost).
2. `RepoClaims`: the per-path protocol of `RepositoryClaimTransaction`, partial
   acquisition, time-outs after the command took effect, renewal, release.
3. `Journal`: the file as lines, the hash chain, the per-thread cache and its
   signature, as a refinement of a sequence that only grows.
4. `Scheduler`: `build_plan` as a function against a declarative reference.

## Running

    tlc -workers 2 -config ClaimStore.cfg MCClaimStore
    tlapm ClaimStoreProofs.tla

and likewise for the other configurations and proof modules.  Each run takes between
a few seconds and about two minutes, the proofs of a module between half a
minute and three minutes.
