# Verification of the Exile Architect server

TLA+ models of `poe2-exile-architect`, an MCP server that answers Path of Exile 2
build questions with a headless Path of Building (PoB) process per client session.
Paths below are relative to the repository (`server/...`).

## The system

One Python process serves several MCP sessions.  An asyncio event loop admits tool
calls; their bodies run in worker threads and talk to one PoB (luajit) process per
session.  Three tools may take minutes and can run in the background.  Several such
processes (build, knowledge, learning and research servers) share a user-data directory
with the game-data corpus, the PoB runtime and the research, learning and generation
stores, and each of them may update corpus and runtime in place.

| component | state | operations | hard behaviour |
|---|---|---|---|
| read/write lock (`compute/engine_pool.py`) | three counters, one condition | acquire, try, release, both sides | lost wakeups, starvation |
| session call gate (`compute/engine_pool.py`) | per session: an `asyncio.Lock`, a reservation; the read/write lock | `hold`, `reserve_operation`, `release_operation`, `maintenance*` | cancellation at every await, tests made stale by an await, threads that look in the middle of a loop step |
| compute operations and control (`runtime/compute_operations.py`, `compute_control.py`) | per session a bucket of records, per operation stop, publication and terminal flags | `submit`, worker, `cancel`, `close_session`, retention | deadline and cancellation racing the result, exit racing a submission, engine death |
| runtime lease (`runtime/compute_runtime_lock.py`) | an OS lock file | shared and exclusive acquisition, close | updates from other processes |
| engine pool and slots (`compute/engine_pool.py`, `engine.py`, `buildopt.py`) | entries by `id(session)`, a semaphore, a counter | `get`, prune, collection callback, `preserve_sessions`, start, close, extra engines | garbage collection in any thread, id reuse, failed starts |
| self-update (`live/update.py`, `live/version.py`, `knowledge/corpus_certification.py`) | corpus, certificate, `pob/`, `installed.json` | `apply_updates`, rollback, `update_corpus` | process death between two renames, two updaters, stale decisions |
| mutation batches (`compute/mutation_batch.py`) | the build in the engine, the recovery flag | apply, roll back | failure in the middle, failure of the rollback |
| generation (`generation/`, `scripts/create_build.py`, `runtime/task_cleanup.py`) | a directory per run with receipts, selection, review marker and a lock file; the final artifact; judged XML in the memory of one process | evaluate, save, review, deliver, clean up | a lock whose lease runs out, readers without the lock, process death between two files |
| research (`scripts/research_mature_builds.py`, `knowledge/research_intake_ledger.py`, `research_memory.py`) | a queue per run, review files, the intake ledger, memory with its write receipts | collect, claim, save a review, accept, retry, recover, clean up | three databases written one after the other, leases, saves without the lock |
| learning (`learning/`) | a campaign file with its operation log, a JSON-lines memory | intake, claim, submit, fail, retry, pause; propose and correct lessons | lost answers and repeated calls, torn appends, who may see what |
| freshness (`freshness/`) | a cache file per source; per process a flight and a throttle | report, refresh, revalidate, save | tasks that outlive their report, other processes, a clock read early |
| judge, study, graph, live data, scripts | mostly none | pure or batch | - |

How they meet: every tool call goes through the gate (`main.py`, `call_tool`), except the
compute tools, which enter it themselves, and status calls; a background call is submitted
through the gate, keeps a reservation in it and a shared runtime lease, and re-enters the
gate from its own task; an update takes the exclusive lease, then maintenance of the gate,
then the corpus guard, and swaps engines through `preserve_sessions`; the pool starts and
closes engines under the process-wide slots.  Generation, research and learning do not
share the gate's locks: they keep their state in files and databases that several server
processes and scripts use at once, and each has its own lock, lease or revision.

Correctness, per component: the lock excludes and wakes; the gate gives a body its session
alone and maintenance the process alone; an operation ends in a state that tells the truth
about what it did to the build and gives everything back first; an engine is open exactly
as long as somebody owns it, and slots follow; an install is all or nothing and in the end
complete; what a run delivers is what was judged; what queue, ledger and memory say of a
case agrees; a campaign goes through its phases once, and who creates has not seen the
reference; a report believes nothing older than it says. The hazards behind each of these
are listed with their source lines in `PROJECT.json`.

## Modules

| module | models | state and actions |
|---|---|---|
| `RWLock` | what a read/write lock promises | who holds what |
| `ThreadRWLock` | `_ThreadRWLock` | the counters by their names; one action per `with self._condition` block, a `wait` being "waiting" until notified, then "woken" until it re-tests |
| `ThreadRWLockProofs` | - | theorems about it |
| `SessionCallGate` | the gate, `threaded_tool`, reservations | `pc` of each call from arrival to end; `waiters` is the queue of the `asyncio.Lock`; `loop` keeps other tasks out where a loop step is cut because threads see its middle |
| `OperationView` | what a client reads of its operations (`_view`) and can rely on | status, stop reason and result of each operation |
| `ComputeOperations` (EXTENDS the gate) | operations, control, lease, an abstract engine, updates | buckets and records by their names; `stage` of each operation; an engine is generation, liveness, build and flag |
| `ComputeOperationsProofs` | - | theorems about the gate and about the operations |
| `EnginePool` | pool, slots, extra engines | `entries`, `capacity`, `active` by their names; `todo` is the list of engines a thread is closing; `nested` is the thread a collection callback interrupts |
| `EnginePoolProofs` | - | theorems about it |
| `InstalledRelease` | what a holder of the corpus guard finds in the user-data directory, and can rely on | the directory as it is read, one action for a whole install |
| `UpdateInstall` | `apply_updates` with its processes, `auto_update` and its daily throttle | `disk` is the directory; one action per rename |
| `UpdateInstallProofs` | - | theorems about it |
| `GenerationRun` | one run of `run_store.py`, `evaluation.py`, `artifacts.py`, `create_build.py`, `task_cleanup.py` | `run` is the directory, a field per file; `lock` the evaluation lock, which a call may lose by outliving its lease (`overtakes`); `memory` the snapshots of each process; one action per file that is made, replaced or removed |
| `GenerationRunProofs` | - | theorems about it |
| `ResearchQueue` | queue, reviews, acceptance and cleanup of `research_mature_builds.py`, the intake ledger, the receipt of `accept_research_unit` | `queue`, `files`, `directory`, `ledger`, `receipt` are the stores; one action per transaction, so that a call can fail between any two |
| `ResearchQueueProofs` | - | theorems about it |
| `LearningMemory` | `learning/memory.py` | `lines` and `tail` of the JSON-lines file, a `tail` that is torn making the next line unreadable; `issued` and `acknowledged` record what callers were told |
| `LearningCampaign` (EXTENDS `LearningMemory`) | `learning/service.py`, `case_store.py` | the campaign file; of all calls under way one is `late`: it may be delivered again, and what is kept of it (its revision current, its claim valid, how far down the log) stands for revision, claim id and operation log |
| `LearningCampaignProofs` | - | theorems about it and about `LearningMemory` |
| `FreshnessCache` | `freshness/cache.py`, `service.py` for one source | `clock`, the versions the source has had and `until` when, `file`, per process the flight and the throttle, per task where it is; the state "refreshed" is also the answer to a 304 |
| `FreshnessCacheProofs` | - | theorems about it |

`MC*` modules give constants that a cfg cannot express.  Definitions named
`<definition>_<change>` are mutants: plausible bugs in that definition, each of which
violates the property it was written for.

An `asyncio` step between two awaits is one action.  `asyncio.Lock` is modelled from its
use: a FIFO whose release wakes the first waiter, a released lock not being taken before
that waiter runs.  `SessionCallGate` uses the lock at the level of `RWLock`, plus the
writer preference both of which `ThreadRWLockProofs` establishes.  The compute functions
are what they do to the engine: they may finish, fail, or stop at any check, restore the
build or not, and raise the recovery flag or not.  A build is one of `Builds`, or `Probe`
for whatever is left of an unfinished change.  What validates a document (a draft, a review,
a profile) is a choice between acceptance and each of its refusals; hashes are equality of
model values.  `runtime/file_lock.py` makes what it encloses one step in the learning
models; the research models cut inside it, since calls without the lock see the middle.

## Runs

Bounds are the constants of each cfg; the counters they cap are engine starts (`MaxGen`),
swaps (`MaxRuntime`), releases, failures, deaths and manual updates.

| run | instance | shows |
|---|---|---|
| `rwlock` | 3 readers, 2 writers | `LockSound` (exact counters, exclusion, no lost wakeup), writer preference, refinement of `RWLock`; of the writers that wait, one enters |
| `gate` | 4 calls (1 background), 2 sessions, both kinds of maintenance | no leaked reader; one body per session, maintenance alone, no swap in the handoff (`GateExclusive`); reservations from submission to release; every call returns |
| `ops` | 2 operations and a call, 2 updaters, retention of 1 | truthful outcomes (`CompletedHonest`), release before terminal, stable input, runtime held, exact retention, exit stops the operation; refinement of `OperationView` |
| `ops_live` | 1 operation between 2 calls, so that a submission queues; updates that replace the engine | operations end, exits return |
| `update` | 2 updaters, 3 releases, a failed rename, a death, a manual corpus update | `InstallSound` (whole pairs, the recorded engine, no downgrade), exact rollback, refinement of `InstalledRelease` |
| `update_recovery` | 1 updater, 1 failure, 2 deaths, the daily throttle | the last release is installed in the end |
| `pool` | 2 threads, 3 sessions on 2 ids, 2 slots, pool limit 1, `OSError` at start, a close that raises | `PoolSound` (exact slots, the limit, a pending callback for every collected session), pooled engines open, no engine lost, a live session keeps its engine |
| `generation` | 2 calls at a time in 2 processes, 2 builds, 2 attempts, 1 failure or death, 1 lease outlived | the artifact is the build its receipt passed (`RunSound`); within the lease the chain is frozen by the selection, a review reports answered attempts only and cleanup is alone; a consumed run keeps its review |
| `research` | 2 runs that collect one character, 1 worker, 2 leases a case, 2 concurrent calls, 1 failure between two writes | queue, ledger and memory agree (`QueueSound`), reservations are kept while their run needs them and dropped by nobody else |
| `learning` | 3 agents that overlap in task or thread, 2 cases, an operation log of 1, 5 events, 1 torn append, 2 servers with the seed | `CampaignSound` (one unfinished case, every stage backed by the one before), the creator never saw the reference, a repeated call is applied once, a torn append costs at most one event, supersession ends |
| `freshness` | 2 tasks of one process and 1 of another, 3 ticks, 2 versions, a restart; refresh after 2, reject after 3, forced after 1 | one flight per process and a file that never claims too much (`CacheSound`); answers are as young as they say (`AnswerHonest`) |

Two calls that compete for one operation, or for one rename, already show every
interleaving class the code distinguishes: the gate looks at one reservation and one lock
per session, an install at one lease, a run at one lock file.  Three calls are needed for a
queue with somebody behind the woken waiter (`gate`, `ops_live`), two sessions for
interference between them, three releases for one
that keeps the engine of another, two ids for a
callback that comes late, two attempts for a receipt that is not the latest, two runs for a
reservation that changes hands, two leases for a review of an earlier one, an operation log
shorter than the calls for one that was forgotten, and a third tick for an envelope that
goes from fresh over old to rejected.  The types of each component are part of its
structural property (`...Sound`).  `ReservationKept` and the three "in the lease" properties
of `generation` name their exceptions in the formula.

One run ends in a counterexample: `ops_bootstrap`.  After a failed computation has left its
engine under the recovery flag, a bootstrap that is rolled back restores the residual build
and takes the flag down, against what `mutation_batch.py` says of the flag (quoted in
`PROJECT.json`).  A runtime swap does the same in another way: it copies the build of a
session under the flag into an engine without it (`engine_pool.py:156` and `:171`).

### Known limits

Behaviour the models show and no property excludes; the notes of the hazards in
`PROJECT.json` give the lines.

* Operations: another session's engine start makes `peek` busy and fails this session's
  operation; a submission still in the queue outlives the exit of its session.
* Pool: an `OSError` in the parallel optimizer, with two or more extra engines, loses an
  engine and its slot; a close that raises loses the rest of its list.  A collection
  callback that runs inside `_ENGINE_CAPACITY_LOCK` (`engine.py:95`) would deadlock, and
  readers that wait for blocking maintenance (`engine_pool.py:257`) use up the executor's
  threads; neither is modelled: the first needs the collector inside three lines, the
  second has no caller in production.
* Update: a second updater that installs the release the first has just installed, and
  dies, leaves a hole nobody repairs, so `Converges` is about one updater.
  `InstallSound` is checked for releases whose engine never goes back to an earlier one:
  `apply_updates` decides before it takes the lease which parts changed
  (`update.py:144-148`), so of two overlapping updates across a revert one would record an
  engine that is not the one in place.
* Generation: an evaluation that outlives its lease writes its receipt after the selection;
  a death between receipt and latest receipt, between artifact and selection, or with the
  review lock in hand leaves a run that can be neither used nor cleaned up; so does an
  interrupted removal.
* Research: a case that was leased twice and then rejected has two review files, and the
  save before its retry is refused for good; a collector or a cleanup that dies leaves a
  reservation without a case, or a case without its reservation; a case whose acceptance
  died takes a worker's place until somebody replays it.
* Learning: a torn append costs the event after it, which was reported as written; an
  agent that is gone stays bound.
* Freshness: a waiter whose report is older than the refresh it waited for is answered
  `missing`, and may fetch again within the minimum interval.

Deadlock is checked for the lock and the gate.  The other models end where the bounds or
the clients do.

## Fairness

What has been started goes on; nobody has to start anything. The event loop serves ready
tasks and threads return (weak fairness on each continuing step; the compute functions
check their budget at every candidate, so a computation ends if the engine answers or
dies; `PobEngine.call` has no timeout of its own, and an engine that hangs holds its
session). `acquire_read` in the gate and the pool's lock get strong fairness: maintenance
may begin again and again, but each time it ends every reader is woken, and Python's locks
do not pass over a waiter for ever. A server is started again and again and days pass
(weak fairness of `auto_update` and `day_passes`), so that a check which failed or died is
made again once the throttle allows it, and not every download fails (strong fairness of
`stage` and `begin_install`); nothing is assumed about failures and deaths except their
bounds. `acquire_write` does not queue writers among themselves, so `rwlock` claims that
some waiting writer enters, not each of them.

The generation, research, learning and freshness models have no fairness and claim no
liveness: each step is a call of an agent or an operator, who need not make it, and several
of the known limits above are states only a person gets out of.

## Proofs

`ThreadRWLockProofs` proves, for every finite set of readers and of writers
(`ThreadsFinite`, `ThreadsDisjoint`):

* `LockInvariant`: `LockSound`, that is types, exact counters, exclusion and no lost
  wakeup.  The invariant `IInv` is their conjunction, and all of it is needed: exclusion rests on the counters
  being exact, and the wakeup argument on both, since "nobody inside and nobody woken"
  must be read off the counters the code tests.  A counter step is an instance of one
  lemma about the cardinality of a set that gains or loses one thread.
* `LockPrefersWriters`: no step lets a reader in while a writer contends.
* `LockImplementsRWLock`: the initial state and every step map to `RWLock`, which is what
  allows the gate to be checked against the abstract lock.

`ComputeOperationsProofs` proves of the gate alone, for every set of sessions, every finite
set of calls and every set of maintenance threads (`CallsFinite`, `CallsTyped`):

* `GateInvariant`, with `GateReadersExact`, `GateExclusion` and `GateReservation` as its
  parts: types, `ReadersExact`, `GateExclusive` (`OneBodyPerSession`, `MaintenanceAlone`,
  `NoSwapInHandoff`) and `ReservationExclusive`, that is, every safety property of the run
  `gate`.  None of them but the count is inductive.  A body is alone because it has the
  lock, and the lock is entered in three ways (found free, handed over, handed to a
  cancelled call that passed it on), so the invariant says of the queue that whoever waits
  is listed in it, in its own session, and that a granted call is its first and finds the
  lock free (`LockInv`).  `MaintenanceAlone` rests on the count: a writer has seen no
  readers, and a body is one (`WriterAlone`).  The lemmas follow the primitives the actions
  share (leave the lock, enter it, join the line, give up; enter, release or hand off a
  reservation); each action is then one or two of them.

And of the operations, in addition for every set of updaters and of other processes, every
`CompletedLimit` and all bounds (`UpdatersNamed`, `BuildsTyped`, `BoundsTyped`), every safety
property of the runs `ops` and `ops_live`, from one invariant, `OpsInv`:

* `GateHoldsForOperations`: each step of an operation is a step of the gate or leaves the
  gate's variables alone (`GateKept`), but for a refused submission, which only ends its
  call; so the gate's invariant is one of the composition.
* `EndIsReleased` and `AcceptedStopsAreHonoured` read off what each stage of an operation
  implies: where its call is in the gate (`PlaceInv`), whether it has the lease and the
  runtime it was captured on (`LeaseInv`), and that an outcome is decided once, by whoever
  of result and stop comes first (`ControlInv`).  `RuntimeIsHeld` is in `LeaseInv` as well.
* `CompletedIsRestored`, which with `AcceptedStopsAreHonoured` gives `CompletedIsHonest`: who may touch the engine of a session is the body that has its
  lock or the holder of the pool's (`EngineInv`).  The same invariant shows why the
  worker's checks of its input never fire: `InputsAreStable` says so for one session.  With
  more of them it would be false, because `peek` cannot look at an engine while the pool
  starts one for another session; `InputsAreNeverStale` says that nothing else ever makes
  an input conflict: runtime and build do not change under an operation.
* `OperationsAreSound`: a session has one operation in flight (`FlightInv`), and its list is
  that one and the last `CompletedLimit` finished ones (`BucketInv`, `RetainedInv`, the
  latter a count like the gate's).
* `ClosedSessionsAreQuiet`: the exit of a session stops one operation and waits for it, but
  submissions may wait in the session's queue meanwhile.  They cannot slip in between
  because a worker stands behind every submission that was there before it (`OrderInv`,
  over the queue of the session's lock, `LineInv`), so that none is left when the operation
  that is waited for has ended (`CloseInv`).
* `OperationsImplementView`: what clients read implements `OperationView`, in which a session
  has one open operation, a stop stays, and one final end agrees with the stop that was
  accepted.  `ViewSteps` sorts the actions into six kinds by what they do to one operation;
  each kind is a step of the view or a stutter.  It takes `FlightInv` (an operation opens
  when no other of its session is open) and `OutcomeInv` (an outcome "as stopped" carries the
  reason that was accepted); that a completed one was not stopped is in `ControlInv`.

`EnginePoolProofs` proves the four properties of the run `pool`, for every number of
threads, sessions, ids, callbacks, engines, slots and extra engines (`PoolTyped`,
`PoolNames`).

* Every step does one of a few things to engines and their owners (`StepDoes`): it drops
  entries to close their engines, begins a start, lets a started engine join the pool or
  the extras, releases the first of a list, and so on.  `PoolInvariant` says that no engine
  has two owners, in the pool, in a list to close or among the extras (`OwnInv`), that what
  is owned holds a slot (`HeldInv`), and where a thread has the pool's lock, lists and
  extras (`PlaceInv`).
* `PoolIsSound`: semaphore and counter are exact; a step changes one of three sets by one
  element.  `PooledEnginesAreOpen` is `OwnInv` with the pool's limit (`RoomInv`).
  `LiveSessionsKeepEngines`, an action property, rests on ids: sessions that are there have
  one each, and entries are filed under their own (`KeyInv`).
* `NoEngineIsLost` is proved under `NothingSkipped`: if a close can raise, a list to close
  has one engine at most, and if a start can raise another error than `PobEngineError`,
  there is one extra engine at most, as on the instance of the run.  It is false without
  (see the known limits), and the proof shows that nothing but these two exceptions loses an
  engine.

`UpdateInstallProofs` proves, for every number of updaters, releases, failed renames,
deaths and manual updates (`ReleasesTyped`, `FaultsTyped`):

* `InstallInvariant`.  Its heart, `PlaceInv`, says where an install stands between any two
  renames, of the install or of its undoing: the directory is the one it found, except for
  the targets already replaced, which hold the release, and the one in hand, which is
  absent; and the backups are what was there.  `Underway` writes that down as a function of
  program counter, count and backups, so the six renames share one lemma
  (`PlacedStepKeeps`).
* `RollbacksAreExact`: `PlaceInv` with nothing placed is the directory that was found.
* `NothingIsDowngraded`: needs that the version found is no older than the last one
  finished, and no newer than the one to be installed, which is what the second look under
  the lease tests (`VersionInv`).
* `PairsAreWhole` needs no hypothesis.  `InstallIsSound`, which adds the engine, is proved
  under `EnginesAdvance` (no later release goes back to an engine that another one had
  replaced), because the code decides before the lease whether the engine is replaced: the
  argument is that what an updater has read is no newer than what is installed, or is about
  to be (`EngineInv`), and that installed.json is the record of some release whenever it is
  read, also in the middle of an install, since it is moved last (`MetadataLast`,
  `AlwaysTruthful`).  Without the hypothesis it is false; see the known limits.
* `InstallsImplementReleases`, under the same hypothesis: `UpdateInstall` implements
  `InstalledRelease`, in which an install is one step to a release that is not older, an
  undone one is no step, and a death leaves the new files up to some point of the order of
  the replacements, the old ones after it, and perhaps none at it, so that the metadata name
  a release only when all of it is in place.  While an install has the guard, the directory
  of the abstract specification is the one it found.  `MixIs` turns `PlaceInv` into such a
  mix of two directories, `KeptEngine` shows that an engine that is not replaced is the
  right one, and `FoundInv`, which unlike `VersionInv` survives deaths, that no install
  begins over a newer version.

`GenerationRunProofs` proves, for every set of calls, processes and builds and every number
of attempts, failures and outlived leases (`GenerationConstants`), all five properties of
the run `generation`.  `GenerationInvariant` has two halves.  `BackedInv` holds whatever
overtakes what: a save works on an attempt that passed, and an evaluation that has written
its receipt and not yet the latest one makes every strict read fail, so nobody saves on top
of it.  It ends when the artifact is delivered and no selection is pending (`Settled`),
from where the artifact no longer changes.  `LeaseInv` holds while no call has outlived its
lease: whoever is past the lock holds it, and what it has read is what the directory holds.
`RunIsSound` and `ReviewsHappenOnce` rest on the first half and on who is past the review
lock (`ReviewInv`), the other three on the second.

`ResearchQueueProofs` proves, for every number of runs, characters, calls, leases and
failures (`ResearchConstants`), the three properties of the run `research`.
`StoresAlwaysAgree` needs what each stage of an acceptance has already written in which
store (`FlightInv`), what a cleanup that is under way has tested and released (`CleanInv`),
and that the lock is held throughout (`LockInv`).  `ReservationsAreKept` needs `ReservedInv`:
a waiting case that is alone with its character is reserved, or has just been released by
the cleanup that still knows it.  `ReservationsAreTheRuns` is an action property proved
from the same invariant.

`LearningCampaignProofs` proves the five properties of the run `learning`, for every number
of cases, agents, lessons and torn appends.  Memory file and campaign share no variable, so
there is an invariant for each.  `LossIsBounded` counts lost events against torn appends,
an append that has failed costing nothing as long as its line is the last (`MemoryInv`);
`ReplacementsEndAlways` needs in addition that the memory is in order without a line that
may still be lost (`OpenInv`), and `SeedInOrder` of the seed file, which TLC evaluates for
the seed of the run.  `CampaignIsSound` and `CreatorsAreBlind` rest on `CampaignInv`: the
active case is the last one and the only one unfinished, and the only thread that has ever
been given a reference of a case is its profile comparator's, which is not the creator's.
`CallsAreAppliedOnce` needs `LateInv`: a late call that was applied no longer names the
current revision, so it is refused even when the operation log has forgotten it.

`FreshnessCacheProofs` proves both properties of the run `freshness`, for every number of
tasks, processes, ticks and versions and every policy that refreshes no later than it
rejects (`CachePolicy`).  The invariant says of every envelope that is kept anywhere (file,
task, answer) that it was confirmed in the past and true then, and of every task that what
it has read is no younger than its report (`TaskInv`): the answer is computed with a time
taken before the file was read.

The assumptions named above are types and finiteness, `None` or `Absent` being none of the
values it stands beside, and the bounds being naturals; `CachePolicy`, `SeedInOrder` and the
hypotheses `EnginesAdvance`, `NothingSkipped` and the one session of `InputsAreStable` are
the ones that say more.  Every invariant was evaluated by TLC on the instance of its
component's run before it was proved.

Every safety property of a passing run is a theorem.  Model-checked only are the liveness
properties (`SomeWriterEnters`, `CallsReturn`, `OperationsFinish`, `CloseReturns`,
`Converges`), since fairness and `ENABLED` are out of the prover's reach, and the
counterexample of `ops_bootstrap`.

## Plan

1. Done: lock, gate, operations, pool, self-update, generation runs, research queue,
   learning campaigns and memory, freshness cache; theorems about the safety of all of them.
2. Done: the lock, the operations and the self-update implement abstract specifications of
   what they promise.  Next to be proved: the same for a generation run (a selected artifact
   and its review) and for the research stores (one reservation of a character at a time).
3. Next to be modelled: mutation batches operation by operation, the framing of
   the engine's RPC with stray frames, generation checkpoints and retries, follow-ups,
   supplements and reacquisition of research, the merge of research memory, study jobs,
   the judge's scoring as operators against a reference definition.

## Not modelled

The models map a small share of the implementation's lines, and will go on doing so.  Most
of the code has no state of its own that calls could disagree about: parsers of items, XML,
HTML and patch notes; the prompts, packets and content rules of research and generation;
validators of documents; queries over a read-only corpus and its physical graph; search
heuristics of the optimisers over numbers that only the engine knows; HTML and PDF reports;
clients of prices and wikis; the scripts that build the corpus or run acceptance suites;
the Lua bridge.  A model of these would repeat the code, and TLC would have nothing to
interleave.  What such code decides appears as a nondeterministic choice in the components
that use it.
