-------------------------- MODULE ComputeOperations --------------------------
(***************************************************************************)
(* ComputeOperations (server/runtime/compute_operations.py) on top of the  *)
(* session gate: background compute operations that reserve their          *)
(* session's engine, hold a runtime lease, run in a worker thread, restore *)
(* the build they measured on, and can be cancelled, time out, or see      *)
(* their session close.  Runtime updates (server/live/update.py) take the  *)
(* write lease and, in this process, maintenance.                          *)
(*                                                                         *)
(* An engine is abstracted to its generation, whether its process lives,   *)
(* the build loaded in it (one of Builds, or Probe while a computation     *)
(* tries candidates) and its recovery flag.                                *)
(***************************************************************************)
EXTENDS SessionCallGate

CONSTANTS Builds,           \* the builds a client can load
          Probe,            \* a build in the middle of a computation
          Foreign,          \* updaters of other processes: lease only
          ReplaceEngine,    \* whether an update in this process brings an engine
          CompletedLimit,   \* completed_limit
          MaxGen,           \* bound: engines started per session
          MaxRuntime        \* bound: runtime swaps

ASSUME BuildsTyped == Probe \notin Builds /\ Builds # {}
ASSUME UpdatersNamed == None \notin Maintainers \cup Foreign
ASSUME BoundsTyped ==
    /\ CompletedLimit \in Nat /\ MaxGen \in Nat /\ MaxRuntime \in Nat
    /\ ReplaceEngine \subseteq BOOLEAN

VARIABLES
    (* _SessionOperations, per session *)
    bucket,         \* "none", "open", or "closing"
    active,         \* active_id
    records,        \* records, in order
    closed,         \* close_session has returned and dropped the bucket
    closing_on,     \* the operation whose task close_session waits for
    (* _Operation and ComputeControl, per operation *)
    stage,          \* where submit, the worker task and its thread are
    late,           \* submit looked its bucket up after the session was closed
    captured,       \* input_hash/selection, engine_generation, runtime
    stop,           \* control.stop_reason
    published,      \* control.publication_started
    terminal,       \* control.terminal
    outcome,        \* state and error_code
    lease,          \* runtime_lease
    (* engines, per session, and the pool's lock *)
    gen,            \* how many engines the session has had: the current one's generation
    alive,          \* it has one, and its process runs
    build,          \* what is loaded in it
    recovery,       \* its recovery flag
    pool_lock,      \* the call starting an engine with the pool's lock held
    (* the installed runtime and its write lease *)
    runtime, write_lease,
    installed       \* the holder of the write lease has installed

bucketVars == <<bucket, active, records, closed, closing_on, late>>
controlVars == <<stop, published, terminal, outcome>>
engineVars == <<gen, alive, build, recovery, pool_lock>>
runtimeVars == <<runtime, write_lease, installed>>
vars == <<gateVars, bucketVars, controlVars, engineVars, runtimeVars, stage, captured, lease>>

Stages == {"none", "leasing", "capturing", "captured", "uncaptured", "worker",
           "computing", "returned", "rejected", "sealed", "closed"}
Conflicts == {"compute_engine_changed", "compute_runtime_changed", "build_state_conflict"}
Outcomes == Conflicts \cup {"none", "completed", "execution_failed", "cancelled",
                            "budget_exceeded", "recovery_required"}
Uncaptured == [gen |-> 0, build |-> Probe, runtime |-> 0]

Init ==
    /\ GateInit
    /\ bucket = [s \in Sessions |-> "none"]
    /\ active = [s \in Sessions |-> None]
    /\ records = [s \in Sessions |-> <<>>]
    /\ closed = [s \in Sessions |-> FALSE]
    /\ closing_on = [s \in Sessions |-> None]
    /\ stage = [c \in Background |-> "none"]
    /\ late = [c \in Background |-> FALSE]
    /\ captured = [c \in Background |-> Uncaptured]
    /\ stop = [c \in Background |-> "none"]
    /\ published = [c \in Background |-> FALSE]
    /\ terminal = [c \in Background |-> FALSE]
    /\ outcome = [c \in Background |-> "none"]
    /\ lease = [c \in Background |-> FALSE]
    /\ gen = [s \in Sessions |-> 0]
    /\ alive = [s \in Sessions |-> FALSE]
    /\ build \in [Sessions -> Builds]
    /\ recovery = [s \in Sessions |-> FALSE]
    /\ pool_lock = None
    /\ runtime = 0
    /\ write_lease = None
    /\ installed = FALSE

----------------------------------------------------------------------------
(* ComputeControl *)

\* control.check: it passes, or raises ComputeStopped.  The deadline may pass
\* at any time before publication.
CheckPasses(c) == published[c] \/ stop[c] = "none"
CheckStops(c, why) ==
    /\ ~published[c]
    /\ why = IF stop[c] = "none" THEN "budget_exceeded" ELSE stop[c]

\* control.cancel, when it is accepted and changes something.
Cancellable(c) == ~published[c] /\ ~terminal[c] /\ stop[c] = "none"

----------------------------------------------------------------------------
(* SessionEnginePool.get, by the thread of a call in its body *)

\* The thread wants an engine: a capture always does, an ordinary call may.
UsesEngine(c) ==
    /\ pc[c] = "body"
    /\ c \in Background => stage[c] = "capturing"

\* The pool starts an engine with its lock held.
get_begin(c) ==
    /\ UsesEngine(c) /\ ~alive[SessionOf[c]] /\ pool_lock = None
    /\ pool_lock' = c
    /\ UNCHANGED <<gateVars, bucketVars, controlVars, runtimeVars, stage, captured, lease,
                   gen, alive, build, recovery>>

\* A dead engine is replaced by a fresh one, or the start fails and leaves
\* the session without one.
get_end(c) ==
    /\ pool_lock = c
    /\ pool_lock' = None
    /\ LET s == SessionOf[c]
       IN  \/ /\ gen[s] < MaxGen
              /\ gen' = [gen EXCEPT ![s] = @ + 1]
              /\ alive' = [alive EXCEPT ![s] = TRUE]
              /\ \E b \in Builds : build' = [build EXCEPT ![s] = b]
              /\ recovery' = [recovery EXCEPT ![s] = FALSE]
              /\ UNCHANGED stage
           \/ /\ alive' = [alive EXCEPT ![s] = FALSE]
              /\ stage' = IF c \in Background THEN [stage EXCEPT ![c] = "uncaptured"] ELSE stage
              /\ UNCHANGED <<gen, build, recovery>>
    /\ UNCHANGED <<gateVars, bucketVars, controlVars, runtimeVars, captured, lease>>

\* The engine process dies (external).
engine_dies(s) ==
    /\ alive[s]
    /\ alive' = [alive EXCEPT ![s] = FALSE]
    /\ UNCHANGED <<gateVars, bucketVars, controlVars, runtimeVars, stage, captured, lease,
                   gen, build, recovery, pool_lock>>

----------------------------------------------------------------------------
(* Ordinary tool calls *)

\* The steps of an ordinary call through the gate, and those of a worker task
\* up to its body, change nothing else.
gate_step(c) ==
    /\ \/ hold(c) \/ acquire_read(c) \/ resume_hold(c)
       \/ c \in Plain /\ wake_up(c)
       \/ c \in Background /\ running[c] /\ wake_up(c)
       \/ leave_queue(c) \/ cancel_request(c)
    /\ UNCHANGED <<bucketVars, controlVars, engineVars, runtimeVars, stage, captured, lease>>

\* import_build, new_build: a build is loaded, the flag kept.
load_build(s) ==
    /\ alive[s]
    /\ \E b \in Builds : build' = [build EXCEPT ![s] = b]
    /\ UNCHANGED recovery

\* _rollback: the snapshot taken on entry is loaded again and the flag set to
\* whether that failed, whatever it was before.
rollback(s) ==
    \/ /\ recovery' = [recovery EXCEPT ![s] = FALSE]
       /\ UNCHANGED build
    \/ /\ recovery' = [recovery EXCEPT ![s] = TRUE]
       /\ build' = [build EXCEPT ![s] = Probe]

\* apply_build_mutation_batch, past its early rejections: applied as a whole, or
\* rolled back.  Under the flag only a bootstrap from new_build gets here.
apply_build_mutation_batch(s) ==
    /\ alive[s]
    /\ \/ /\ \E b \in Builds : build' = [build EXCEPT ![s] = b]
          /\ recovery' = [recovery EXCEPT ![s] = FALSE]
       \/ rollback(s)

\* An ordinary call ends: it read or was rejected, loaded a build, or applied a
\* mutation batch.
tool_ends(c) ==
    /\ leave_hold(c) /\ pool_lock # c
    /\ \/ UNCHANGED <<build, recovery>>
       \/ load_build(SessionOf[c])
       \/ apply_build_mutation_batch(SessionOf[c])
    /\ UNCHANGED <<bucketVars, controlVars, runtimeVars, stage, captured, lease,
                   gen, alive, pool_lock>>

----------------------------------------------------------------------------
(* submit *)

\* Once in the gate, the operation is recorded and made active in the bucket
\* that was looked up before; a bucket dropped since then is seen by nobody.
Register(c) ==
    /\ stage' = [stage EXCEPT ![c] = "leasing"]
    /\ IF late'[c] = closed[SessionOf[c]]
       THEN /\ records' = [records EXCEPT ![SessionOf[c]] = Append(@, c)]
            /\ active' = [active EXCEPT ![SessionOf[c]] = c]
       ELSE UNCHANGED <<records, active>>

RegisterIfEntered(c) ==
    IF pc'[c] = "body" THEN Register(c) ELSE UNCHANGED <<stage, records, active>>

\* A submission that the session's bucket turns away: closing, or busy with an
\* operation (the same request gets that operation's view).
submit_refused(c) ==
    /\ c \in Background /\ pc[c] = "idle" /\ loop = None
    /\ bucket[SessionOf[c]] = "closing" \/ active[SessionOf[c]] # None
    /\ pc' = [pc EXCEPT ![c] = "done"]
    /\ UNCHANGED <<readers, maint, locked, waiters, operation_id, running, cancelled, loop,
                   bucketVars, controlVars, engineVars, runtimeVars, stage, captured, lease>>

submit(c) ==
    /\ c \in Background
    /\ bucket[SessionOf[c]] # "closing" /\ active[SessionOf[c]] = None
    /\ bucket' = [bucket EXCEPT ![SessionOf[c]] = "open"]
    /\ late' = [late EXCEPT ![c] = closed[SessionOf[c]]]
    /\ hold_nowait(c)
    /\ RegisterIfEntered(c)
    /\ UNCHANGED <<closed, closing_on, controlVars, engineVars, runtimeVars, captured, lease>>

\* A submission that had to queue for the lock after all.
submit_wakes(c) ==
    /\ c \in Background /\ ~running[c]
    /\ wake_up(c)
    /\ UNCHANGED late
    /\ RegisterIfEntered(c)
    /\ UNCHANGED <<bucket, closed, closing_on, controlVars, engineVars, runtimeVars, captured,
                   lease>>

\* The except clause of submit: lease, reservation and record are undone.
UndoAdmission(c) ==
    /\ fail_admission(c)
    /\ stage' = [stage EXCEPT ![c] = "none"]
    /\ lease' = [lease EXCEPT ![c] = FALSE]
    /\ IF late[c] = closed[SessionOf[c]]
       THEN /\ active' = [active EXCEPT ![SessionOf[c]] = None]
            /\ records' = [records EXCEPT ![SessionOf[c]] = Without(@, c)]
       ELSE UNCHANGED <<active, records>>
    /\ UNCHANGED <<bucket, closed, closing_on, late, controlVars, engineVars, runtimeVars,
                   captured>>

\* runtime_read_lease, shared with other operations but not with an updater.
take_read_lease(c) ==
    /\ stage[c] = "leasing" /\ write_lease = None
    /\ await_admission(c)
    /\ lease' = [lease EXCEPT ![c] = TRUE]
    /\ stage' = [stage EXCEPT ![c] = "capturing"]
    /\ UNCHANGED <<bucketVars, controlVars, engineVars, runtimeVars, captured>>

read_lease_busy(c) ==
    /\ stage[c] = "leasing" /\ write_lease # None
    /\ UndoAdmission(c)

\* capture, in its thread, with the engine up.
capture(c) ==
    /\ stage[c] = "capturing" /\ alive[SessionOf[c]]
    /\ IF recovery[SessionOf[c]]
       THEN stage' = [stage EXCEPT ![c] = "uncaptured"] /\ UNCHANGED captured
       ELSE /\ stage' = [stage EXCEPT ![c] = "captured"]
            /\ captured' = [captured EXCEPT ![c] =
                 [gen |-> gen[SessionOf[c]], build |-> build[SessionOf[c]], runtime |-> runtime]]
    /\ UNCHANGED <<gateVars, bucketVars, controlVars, engineVars, runtimeVars, lease>>

\* Back in submit: the worker task is created, or the admission undone.
start_worker(c) ==
    /\ stage[c] = "captured"
    /\ hand_off(c)
    /\ stage' = [stage EXCEPT ![c] = "worker"]
    /\ UNCHANGED <<bucketVars, controlVars, engineVars, runtimeVars, captured, lease>>

capture_failed(c) ==
    /\ stage[c] = "uncaptured"
    /\ UndoAdmission(c)

----------------------------------------------------------------------------
(* _execute, in the worker's thread *)

InWorker(c) == running[c] /\ pc[c] = "body"

\* The first failing test of _execute, in its order; a dead engine raises
\* where its build is read.  peek fails while any thread starts an engine.
InputVerdict(c) ==
    LET s == SessionOf[c]
    IN  CASE pool_lock # None \/ gen[s] # captured[c].gen -> "compute_engine_changed"
          [] runtime # captured[c].runtime -> "compute_runtime_changed"
          [] ~alive[s] -> "execution_failed"
          [] build[s] # captured[c].build -> "build_state_conflict"
          [] recovery[s] -> "recovery_required"
          [] OTHER -> "none"

\* A test fails, or the first control.check raises: nothing was computed.
reject(c) ==
    /\ stage[c] = "worker" /\ InWorker(c)
    /\ \/ /\ InputVerdict(c) # "none"
          /\ outcome' = [outcome EXCEPT ![c] = InputVerdict(c)]
          /\ UNCHANGED stop
       \/ /\ InputVerdict(c) = "none"
          /\ \E why \in {"cancelled", "budget_exceeded"} :
                /\ CheckStops(c, why)
                /\ stop' = [stop EXCEPT ![c] = why]
                /\ outcome' = [outcome EXCEPT ![c] = why]
    /\ stage' = [stage EXCEPT ![c] = "rejected"]
    /\ UNCHANGED <<gateVars, bucketVars, published, terminal, engineVars, runtimeVars, captured,
                   lease>>

\* The tool function starts to try candidates on the session's engine.
compute_begin(c) ==
    /\ stage[c] = "worker" /\ InWorker(c)
    /\ InputVerdict(c) = "none" /\ CheckPasses(c)
    /\ stage' = [stage EXCEPT ![c] = "computing"]
    /\ build' = [build EXCEPT ![SessionOf[c]] = Probe]
    /\ UNCHANGED <<gateVars, bucketVars, controlVars, runtimeVars, captured, lease,
                   gen, alive, recovery, pool_lock>>

\* publication_guard(final=True): cancellation loses from here on.
publication_guard(c) ==
    /\ stage[c] = "computing" /\ ~published[c] /\ CheckPasses(c)
    /\ published' = [published EXCEPT ![c] = TRUE]
    /\ UNCHANGED <<gateVars, bucketVars, stop, terminal, outcome, engineVars, runtimeVars, stage,
                   captured, lease>>

\* The function returns, fails, or is stopped at a check.  Its own finally
\* restores the build, or fails to (always, when the engine has died), and it
\* may have raised the recovery flag itself.
compute_end(c) ==
    /\ stage[c] = "computing"
    /\ \/ \E how \in {"completed", "execution_failed"} :
            /\ outcome' = [outcome EXCEPT ![c] = how]
            /\ UNCHANGED stop
       \/ \E why \in {"cancelled", "budget_exceeded"} :
            /\ CheckStops(c, why)
            /\ stop' = [stop EXCEPT ![c] = why]
            /\ outcome' = [outcome EXCEPT ![c] = why]
    /\ LET s == SessionOf[c]
       IN  \/ /\ alive[s]
              /\ build' = [build EXCEPT ![s] = captured[c].build]
           \/ UNCHANGED build
    /\ recovery' \in {recovery, [recovery EXCEPT ![SessionOf[c]] = TRUE]}
    /\ stage' = [stage EXCEPT ![c] = "returned"]
    /\ UNCHANGED <<gateVars, bucketVars, published, terminal, runtimeVars, captured, lease,
                   gen, alive, pool_lock>>

\* Mutant: no last check for a stop before success is sealed.
seal_without_check(c) ==
    /\ stage[c] \in {"returned", "rejected"}
    /\ LET s == SessionOf[c]
           restored == stage[c] = "returned" => alive[s] /\ build[s] = captured[c].build
       IN  \/ /\ ~restored \/ recovery[s]
              /\ recovery' = [recovery EXCEPT ![s] = TRUE]
              /\ outcome' = [outcome EXCEPT ![c] = "recovery_required"]
           \/ restored /\ ~recovery[s] /\ UNCHANGED <<recovery, outcome>>
    /\ published' = [published EXCEPT ![c] = TRUE]
    /\ stage' = [stage EXCEPT ![c] = "sealed"]
    /\ UNCHANGED <<gateVars, bucketVars, stop, terminal, runtimeVars, captured, lease,
                   gen, alive, build, pool_lock>>

\* Mutant: the tool function's own restoration is trusted.
seal_trusting(c) ==
    /\ stage[c] \in {"returned", "rejected"}
    /\ outcome[c] = "completed" => CheckPasses(c)
    /\ published' = [published EXCEPT ![c] = TRUE]
    /\ stage' = [stage EXCEPT ![c] = "sealed"]
    /\ UNCHANGED <<gateVars, bucketVars, stop, outcome, terminal, runtimeVars, captured, lease,
                   gen, alive, build, recovery, pool_lock>>

\* The finally of _execute: the restoration is verified if the function was
\* entered, the flag set if it is missing, and a success checked once more for
\* a stop; then late cancellation is sealed off.
seal(c) ==
    /\ stage[c] \in {"returned", "rejected"}
    /\ LET s == SessionOf[c]
           restored == stage[c] = "returned" => alive[s] /\ build[s] = captured[c].build
       IN  \/ /\ ~restored \/ recovery[s]
              /\ recovery' = [recovery EXCEPT ![s] = TRUE]
              /\ outcome' = [outcome EXCEPT ![c] = "recovery_required"]
              /\ UNCHANGED stop
           \/ /\ restored /\ ~recovery[s]
              /\ outcome[c] = "completed" => CheckPasses(c)
              /\ UNCHANGED <<recovery, outcome, stop>>
           \/ /\ restored /\ ~recovery[s] /\ outcome[c] = "completed"
              /\ \E why \in {"cancelled", "budget_exceeded"} :
                    /\ CheckStops(c, why)
                    /\ stop' = [stop EXCEPT ![c] = why]
                    /\ outcome' = [outcome EXCEPT ![c] = why]
              /\ UNCHANGED recovery
    /\ published' = [published EXCEPT ![c] = TRUE]
    /\ stage' = [stage EXCEPT ![c] = "sealed"]
    /\ UNCHANGED <<gateVars, bucketVars, terminal, runtimeVars, captured, lease,
                   gen, alive, build, pool_lock>>

----------------------------------------------------------------------------
(* The end of _run: gate, reservation, lease and record, in this order and in
   one step of the event loop, which threads see in between *)

worker_leaves(c) ==
    /\ stage[c] = "sealed" /\ leave_worker(c)
    /\ UNCHANGED <<bucketVars, controlVars, engineVars, runtimeVars, stage, captured, lease>>

worker_releases(c) ==
    /\ release_operation(c)
    /\ UNCHANGED <<bucketVars, controlVars, engineVars, runtimeVars, stage, captured, lease>>

close_lease(c) ==
    /\ pc[c] = "finishing" /\ operation_id[SessionOf[c]] # c /\ lease[c]
    /\ lease' = [lease EXCEPT ![c] = FALSE]
    /\ UNCHANGED <<gateVars, bucketVars, controlVars, engineVars, runtimeVars, stage, captured>>

\* Mutant: one record too many is kept.
Retain_one_more(q, c) ==
    LET moved == Append(Without(q, c), c)
        done == {i \in DOMAIN moved : moved[i] = c \/ terminal[moved[i]]}
        oldest == CHOOSE i \in done : \A j \in done : i <= j
    IN  IF Cardinality(done) > CompletedLimit + 1 THEN Without(moved, moved[oldest]) ELSE moved

\* records with c moved to its end; when that is one finished operation more
\* than CompletedLimit, the oldest of them is dropped.
Retain(q, c) ==
    LET moved == Append(Without(q, c), c)
        done == {i \in DOMAIN moved : moved[i] = c \/ terminal[moved[i]]}
        oldest == CHOOSE i \in done : \A j \in done : i <= j
    IN  IF Cardinality(done) > CompletedLimit THEN Without(moved, moved[oldest]) ELSE moved

\* Mutant: the end is published before the lease is closed.
finish_before_release(c) ==
    /\ task_done(c)
    /\ terminal' = [terminal EXCEPT ![c] = TRUE]
    /\ stage' = [stage EXCEPT ![c] = "closed"]
    /\ UNCHANGED <<bucketVars, stop, published, outcome, engineVars, runtimeVars, captured, lease>>

finish(c) ==
    /\ ~lease[c]
    /\ task_done(c)
    /\ terminal' = [terminal EXCEPT ![c] = TRUE]
    /\ stage' = [stage EXCEPT ![c] = "closed"]
    /\ LET s == SessionOf[c]
       IN  IF \E i \in DOMAIN records[s] : records[s][i] = c
           THEN /\ active' = [active EXCEPT ![s] = IF @ = c THEN None ELSE @]
                /\ records' = [records EXCEPT ![s] = Retain(@, c)]
           ELSE UNCHANGED <<active, records>>
    /\ UNCHANGED <<bucket, closed, closing_on, late, stop, published, outcome, engineVars,
                   runtimeVars, captured, lease>>

----------------------------------------------------------------------------
(* cancel and close_session *)

\* cancel_compute_operation: only through the session's own bucket.
cancel(c) ==
    /\ \E i \in DOMAIN records[SessionOf[c]] : records[SessionOf[c]][i] = c
    /\ Cancellable(c)
    /\ stop' = [stop EXCEPT ![c] = "cancelled"]
    /\ UNCHANGED <<gateVars, bucketVars, published, terminal, outcome, engineVars, runtimeVars,
                   stage, captured, lease>>

DropBucket(s) ==
    /\ bucket' = [bucket EXCEPT ![s] = "none"]
    /\ active' = [active EXCEPT ![s] = None]
    /\ records' = [records EXCEPT ![s] = <<>>]
    /\ closed' = [closed EXCEPT ![s] = TRUE]
    /\ closing_on' = [closing_on EXCEPT ![s] = None]

\* Mutant: the task is not waited for.
close_session_at_once(s) ==
    /\ loop = None /\ bucket[s] = "open" /\ ~closed[s]
    /\ LET c == active[s]
       IN  stop' = IF c # None /\ Cancellable(c) THEN [stop EXCEPT ![c] = "cancelled"] ELSE stop
    /\ DropBucket(s)
    /\ UNCHANGED <<gateVars, late, published, terminal, outcome, engineVars, runtimeVars, stage,
                   captured, lease>>

\* The session exits: the active operation is asked to stop, and its task, if
\* it has one by now, waited for.
close_session(s) ==
    /\ loop = None /\ bucket[s] = "open" /\ ~closed[s]
    /\ LET c == active[s]
       IN  /\ stop' = IF c # None /\ Cancellable(c) THEN [stop EXCEPT ![c] = "cancelled"]
                                                    ELSE stop
           /\ IF c # None /\ running[c]
              THEN /\ bucket' = [bucket EXCEPT ![s] = "closing"]
                   /\ closing_on' = [closing_on EXCEPT ![s] = c]
                   /\ UNCHANGED <<active, records, closed>>
              ELSE DropBucket(s)
    /\ UNCHANGED <<gateVars, late, published, terminal, outcome, engineVars, runtimeVars, stage,
                   captured, lease>>

close_session_ends(s) ==
    /\ loop = None /\ bucket[s] = "closing" /\ pc[closing_on[s]] = "done"
    /\ DropBucket(s)
    /\ UNCHANGED <<gateVars, late, controlVars, engineVars, runtimeVars, stage, captured, lease>>

----------------------------------------------------------------------------
(* Runtime updates *)

\* Mutant: the read leases are not looked at.
take_write_lease_over_readers(u) ==
    /\ write_lease = None
    /\ runtime < MaxRuntime
    /\ write_lease' = u
    /\ installed' = FALSE
    /\ UNCHANGED <<gateVars, bucketVars, controlVars, engineVars, runtime, stage, captured, lease>>

\* runtime_write_lease: refused while any operation holds a read lease.
take_write_lease(u) ==
    /\ write_lease = None /\ \A c \in Background : ~lease[c]
    /\ runtime < MaxRuntime
    /\ write_lease' = u
    /\ installed' = FALSE
    /\ UNCHANGED <<gateVars, bucketVars, controlVars, engineVars, runtime, stage, captured, lease>>

\* An updater of this process goes on to maintenance_sync(wait=False) ...
install_begin(m) ==
    /\ write_lease = m /\ ~installed /\ maintenance_begin(m)
    /\ UNCHANGED <<bucketVars, controlVars, engineVars, runtimeVars, stage, captured, lease>>

\* ... installs, with preserve_sessions when the engine is part of it: every
\* live engine is closed and its build loaded into a new one, or dropped when
\* that fails ...
install(m) ==
    /\ write_lease = m /\ maintenance_end(m)
    /\ installed' = TRUE
    /\ runtime' = runtime + 1
    /\ \/ /\ FALSE \in ReplaceEngine
          /\ UNCHANGED <<gen, alive, recovery>>
       \/ /\ TRUE \in ReplaceEngine
          /\ gen' = [s \in Sessions |-> gen[s] + 1]
          /\ alive' \in {up \in [Sessions -> BOOLEAN] : \A s \in Sessions : up[s] => alive[s]}
          /\ recovery' = [s \in Sessions |-> FALSE]
    /\ UNCHANGED <<bucketVars, controlVars, build, pool_lock, write_lease, stage, captured, lease>>

\* ... and gives the lease back, installed or refused by the gate.
drop_write_lease(m) ==
    /\ write_lease = m /\ maint[m] = "idle"
    /\ write_lease' = None
    /\ UNCHANGED <<gateVars, bucketVars, controlVars, engineVars, runtime, installed, stage,
                   captured, lease>>

\* An updater of another process installs under the lease alone.
foreign_install(f) ==
    /\ write_lease = f
    /\ runtime' = runtime + 1
    /\ write_lease' = None
    /\ UNCHANGED <<gateVars, bucketVars, controlVars, engineVars, installed, stage, captured, lease>>

----------------------------------------------------------------------------
Next ==
    \/ \E c \in Calls : gate_step(c) \/ tool_ends(c) \/ get_begin(c) \/ get_end(c)
    \/ \E c \in Background :
        \/ submit_refused(c) \/ submit(c) \/ submit_wakes(c)
        \/ take_read_lease(c) \/ read_lease_busy(c)
        \/ capture(c) \/ start_worker(c) \/ capture_failed(c)
        \/ reject(c) \/ compute_begin(c) \/ publication_guard(c) \/ compute_end(c) \/ seal(c)
        \/ worker_leaves(c) \/ worker_releases(c) \/ close_lease(c) \/ finish(c)
        \/ cancel(c)
    \/ \E s \in Sessions : close_session(s) \/ close_session_ends(s) \/ engine_dies(s)
    \/ \E m \in Maintainers : \/ take_write_lease(m) \/ install_begin(m) \/ install(m)
                              \/ drop_write_lease(m)
    \/ \E f \in Foreign : take_write_lease(f) \/ foreign_install(f)

Spec == Init /\ [][Next]_vars

\* What has been started goes on: the event loop serves ready tasks, threads
\* return (the compute functions check their budget at every candidate), a
\* thread gets the pool's lock and the read side in the end, and updaters do
\* not keep the lease.  No client has to call, cancel or close.
Fairness ==
    /\ \A c \in Calls :
        /\ SF_vars(acquire_read(c) /\ gate_step(c))
        /\ WF_vars((resume_hold(c) \/ wake_up(c) \/ leave_queue(c)) /\ gate_step(c))
        /\ WF_vars(tool_ends(c)) /\ WF_vars(get_end(c))
    /\ \A c \in Background :
        /\ WF_vars(c \in Background /\ hold(c) /\ gate_step(c))
        /\ WF_vars(submit_wakes(c))
        /\ WF_vars(take_read_lease(c) \/ read_lease_busy(c))
        /\ SF_vars(get_begin(c))
        /\ WF_vars(capture(c)) /\ WF_vars(start_worker(c) \/ capture_failed(c))
        /\ WF_vars(reject(c) \/ compute_begin(c)) /\ WF_vars(compute_end(c)) /\ WF_vars(seal(c))
        /\ WF_vars(worker_leaves(c) \/ worker_releases(c) \/ close_lease(c) \/ finish(c))
    /\ \A s \in Sessions : WF_vars(close_session_ends(s))
    /\ \A m \in Maintainers : WF_vars(install(m) \/ drop_write_lease(m))
    /\ \A f \in Foreign : WF_vars(foreign_install(f))

FairSpec == Spec /\ Fairness

----------------------------------------------------------------------------
(* Properties *)

\* The state of gate, operations, engines and runtime has its types.
TypeOK ==
    /\ GateTypeOK
    /\ bucket \in [Sessions -> {"none", "open", "closing"}]
    /\ active \in [Sessions -> Background \cup {None}]
    /\ records \in [Sessions -> Seq(Background)]
    /\ closed \in [Sessions -> BOOLEAN]
    /\ closing_on \in [Sessions -> Background \cup {None}]
    /\ stage \in [Background -> Stages]
    /\ late \in [Background -> BOOLEAN]
    /\ captured \in [Background -> [gen : Nat, build : Builds \cup {Probe}, runtime : Nat]]
    /\ stop \in [Background -> {"none", "cancelled", "budget_exceeded"}]
    /\ published \in [Background -> BOOLEAN]
    /\ terminal \in [Background -> BOOLEAN]
    /\ outcome \in [Background -> Outcomes]
    /\ lease \in [Background -> BOOLEAN]
    /\ gen \in [Sessions -> Nat]
    /\ alive \in [Sessions -> BOOLEAN]
    /\ build \in [Sessions -> Builds \cup {Probe}]
    /\ recovery \in [Sessions -> BOOLEAN]
    /\ pool_lock \in Calls \cup {None}
    /\ runtime \in Nat
    /\ installed \in BOOLEAN
    /\ write_lease \in Maintainers \cup Foreign \cup {None}

\* A stop that was accepted, by the client, by the session's exit or by the
\* budget, is honoured: such an operation never ends up completed, wherever
\* the request fell between the candidate checks, the publication and the
\* final check ("A final publication already in progress wins a late
\* cancellation", so then none is accepted).
AcceptedStopNeverCompletes ==
    \A c \in Background :
        stage[c] \in {"sealed", "closed"} /\ stop[c] # "none" => outcome[c] # "completed"

\* An operation whose completion a client can read has given back the gate,
\* the reservation, the runtime lease and its place as active operation.
TerminalAfterRelease ==
    \A c \in Background : terminal[c] =>
        /\ operation_id[SessionOf[c]] # c /\ active[SessionOf[c]] # c
        /\ ~lease[c]
        /\ pc[c] = "done"

\* "The ordinary session PoB is leased until the worker has restored it": an
\* operation sealed as completed has left the build it started from, with no
\* recovery flag.
CompletedMeansRestored ==
    \A c \in Background : stage[c] = "sealed" /\ outcome[c] = "completed" =>
        build[SessionOf[c]] = captured[c].build /\ ~recovery[SessionOf[c]]

\* An operation that reads completed is one: nobody stopped it, and it has left
\* the build it started from.
CompletedHonest == AcceptedStopNeverCompletes /\ CompletedMeansRestored

\* The operations as their clients see them, in every answer of
\* get_compute_operation.
View == INSTANCE OperationView WITH
    Operations <- Background,
    Results <- Outcomes \ {"none"},
    status <- [c \in Background |->
                 IF terminal[c] THEN "terminal"
                 ELSE IF stage[c] \in {"worker", "computing", "returned", "rejected", "sealed"}
                 THEN "open" ELSE "none"],
    stop_reason <- stop,
    result <- [c \in Background |-> IF terminal[c] THEN outcome[c] ELSE "none"]

\* Through capture, handover, computation, publication, seal and release, no
\* client sees two operations of its session, an end that changes, a stop that
\* is taken back, or an end that contradicts the stop that was accepted.
ImplementsView == View!Spec

\* Another request never works on temporary probe state unawares: a tool call
\* that meets a build some computation failed to restore finds the recovery
\* flag, which stays until a bootstrap clears it ("an inherited
\* recoveryRequired=true remains blocking").
ResidualStateFlagged ==
    \A c \in Plain : pc[c] = "body" /\ alive[SessionOf[c]] /\ build[SessionOf[c]] = Probe
                        => recovery[SessionOf[c]]

\* Between its submission and its worker nothing changes the engine, the
\* runtime or the build under an operation: the worker's re-checks never fire.
InputStable ==
    \A c \in Background : stage[c] \in {"rejected", "sealed"} => outcome[c] \notin Conflicts

\* No update, of this process or another, replaces the runtime from the moment
\* an operation has captured it until its worker is done computing.
RuntimeHeld ==
    \A c \in Background :
        stage[c] \in {"captured", "worker", "computing", "returned", "rejected", "sealed"}
            /\ pc[c] # "finishing" => runtime = captured[c].runtime

\* What a session may ask about is exactly what the manager promises to keep:
\* the operation in flight and the last CompletedLimit finished ones.
RetentionExact ==
    \A s \in Sessions :
        LET kept == {records[s][i] : i \in DOMAIN records[s]}
            finished == {c \in Background : SessionOf[c] = s /\ terminal[c] /\ late[c] = closed[s]}
        IN  /\ Cardinality(kept \cap finished)
                 = IF Cardinality(finished) < CompletedLimit THEN Cardinality(finished)
                                                             ELSE CompletedLimit
            /\ kept \ finished = {active[s]} \ {None}
            /\ Len(records[s]) = Cardinality(kept)

\* The records of every session are well formed and kept as long as they should be.
OperationsSound == TypeOK /\ RetentionExact

\* The exit of a session stops the operation it found: once close_session has
\* returned, an operation it asked to stop does not compute.
CloseStopsCompute ==
    \A c \in Background :
        closed[SessionOf[c]] /\ ~late[c] /\ stop[c] = "cancelled"
            => stage[c] \notin {"computing", "returned"}

\* Every admitted operation reaches its end, whatever stops it, and gives its
\* session back.
OperationsFinish ==
    \A c \in Background : stage[c] = "leasing" ~> stage[c] \in {"none", "closed"}

\* A session exit that waits for a worker returns.
CloseReturns == \A s \in Sessions : bucket[s] = "closing" ~> closed[s]
=============================================================================
