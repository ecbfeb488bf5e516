--------------------------- MODULE SessionCallGate ---------------------------
(***************************************************************************)
(* SessionCallGate of server/compute/engine_pool.py: every MCP tool call   *)
(* holds the gate of its session for its whole body, a background          *)
(* operation reserves the session from its submission to its end, and      *)
(* runtime maintenance runs while no call is inside.                       *)
(*                                                                         *)
(* Calls are tasks of one asyncio event loop: what a task does between two *)
(* awaits is one step, and no other task runs meanwhile.  Where a thread   *)
(* can look in between (maintenance does), the step is cut and "loop"      *)
(* keeps the other tasks out.  acquire_read runs in a worker thread, and a *)
(* cancelled request waits for that worker (threaded_tool).  The gate uses *)
(* _ThreadRWLock as the RWLock that ThreadRWLock implements.  asyncio.Lock *)
(* is external: a FIFO of waiters, of which a release wakes the first.     *)
(***************************************************************************)
EXTENDS Integers, Sequences, FiniteSets

CONSTANTS Sessions,
          Plain,          \* ordinary tool calls
          Background,     \* background=true calls: submit, then the worker task
          SessionOf,      \* the session of each call
          Maintainers,    \* threads in maintenance_sync(wait=False)
          Blocking,       \* threads in maintenance / maintenance_sync(wait=True)
          None            \* no call, no reservation

Calls == Plain \cup Background
Updaters == Maintainers \cup Blocking

ASSUME CallsFinite == IsFiniteSet(Calls)
ASSUME CallsTyped ==
    /\ Plain \cap Background = {}
    /\ Maintainers \cap Blocking = {}
    /\ SessionOf \in [Calls -> Sessions]
    /\ None \notin Calls

VARIABLES readers,        \* readers of the maintenance lock
          maint,          \* each maintenance thread: "idle", "waiting", "writing"
          locked,         \* entry.lock.locked(), per session
          waiters,        \* the waiters of entry.lock, per session
          operation_id,   \* entry.operation_id, per session
          pc,             \* where each call is
          running,        \* the operation is in its worker task, not in submit
          cancelled,      \* the request was cancelled
          loop            \* the call in the middle of an event loop step

gateVars == <<readers, maint, locked, waiters, operation_id, pc, running, cancelled, loop>>

PCs == {"idle", "reading", "acquired", "queued", "granted", "leaving", "body",
        "handoff", "finishing", "done"}

InLockQueue == {"queued", "granted", "leaving"}
HoldsRead == {"acquired", "body"} \cup InLockQueue

GateInit ==
    /\ readers = 0
    /\ maint = [m \in Updaters |-> "idle"]
    /\ locked = [s \in Sessions |-> FALSE]
    /\ waiters = [s \in Sessions |-> <<>>]
    /\ operation_id = [s \in Sessions |-> None]
    /\ pc = [c \in Calls |-> "idle"]
    /\ running = [c \in Calls |-> FALSE]
    /\ cancelled = [c \in Calls |-> FALSE]
    /\ loop = None

\* The event loop can run a step of c.
LoopFor(c) == loop \in {None, c}

Writing == \E m \in Updaters : maint[m] = "writing"
WriterWaiting == \E m \in Updaters : maint[m] = "waiting"

----------------------------------------------------------------------------
(* asyncio.Lock *)

\* q without its (only) occurrence of c.
Without(q, c) ==
    LET k == CHOOSE i \in DOMAIN q : q[i] = c
    IN  [i \in 1 .. Len(q) - 1 |-> IF i < k THEN q[i] ELSE q[i + 1]]

\* Lock.acquire returns at once: free, and nobody in line who is not cancelled.
LockFree(s) == ~locked[s] /\ \A i \in DOMAIN waiters[s] : pc[waiters[s][i]] = "leaving"

\* c goes to where and its session's lock is left free with the waiters q:
\* the first of them is woken, unless it is already on its way.
LeaveLock(c, where, q) ==
    /\ locked' = [locked EXCEPT ![SessionOf[c]] = FALSE]
    /\ waiters' = [waiters EXCEPT ![SessionOf[c]] = q]
    /\ pc' = [d \in Calls |->
                IF d = c THEN where
                ELSE IF q # <<>> /\ d = Head(q) /\ pc[d] = "queued" THEN "granted"
                ELSE pc[d]]

----------------------------------------------------------------------------
(* SessionCallGate.hold *)

\* entry.operation_id and entry.operation_id != operation_id
Refused(c) == operation_id[SessionOf[c]] \notin (IF running[c] THEN {c} ELSE {None})

\* Mutant: the second look at the reservation, after the lock, is left out.
EnterLocked_without_recheck(c, q, r) ==
    /\ locked' = [locked EXCEPT ![SessionOf[c]] = TRUE]
    /\ waiters' = [waiters EXCEPT ![SessionOf[c]] = q]
    /\ pc' = [pc EXCEPT ![c] = "body"]
    /\ readers' = r
    /\ IF c \in Background /\ ~running[c]
       THEN operation_id' = [operation_id EXCEPT ![SessionOf[c]] = c] /\ loop' = c
       ELSE loop' = None /\ UNCHANGED operation_id

\* What hold does once its task owns the lock, q being the other waiters and r
\* the reader count with c in it: a call that finds a foreign reservation
\* leaves, an ordinary call or a worker enters its body, and submit also goes
\* through reserve_operation, in the same step of the loop.
EnterLocked(c, q, r) ==
    \/ /\ Refused(c)
       /\ LeaveLock(c, "done", q)
       /\ readers' = r - 1
       /\ loop' = None
       /\ UNCHANGED operation_id
    \/ /\ ~Refused(c)
       /\ locked' = [locked EXCEPT ![SessionOf[c]] = TRUE]
       /\ waiters' = [waiters EXCEPT ![SessionOf[c]] = q]
       /\ pc' = [pc EXCEPT ![c] = "body"]
       /\ readers' = r
       /\ IF c \in Background /\ ~running[c]
          THEN operation_id' = [operation_id EXCEPT ![SessionOf[c]] = c] /\ loop' = c
          ELSE loop' = None /\ UNCHANGED operation_id

\* async with entry.lock, by a call that holds the read side.
LockOrQueue(c, r) ==
    \/ LockFree(SessionOf[c]) /\ EnterLocked(c, waiters[SessionOf[c]], r)
    \/ /\ ~LockFree(SessionOf[c])
       /\ waiters' = [waiters EXCEPT ![SessionOf[c]] = Append(@, c)]
       /\ pc' = [pc EXCEPT ![c] = "queued"]
       /\ readers' = r
       /\ loop' = None
       /\ UNCHANGED <<locked, operation_id>>

\* hold(wait=True), up to the worker thread: an ordinary call, or the worker
\* task of a submitted operation.
hold(c) ==
    /\ pc[c] = IF c \in Plain THEN "idle" ELSE "handoff"
    /\ LoopFor(c)
    /\ pc' = [pc EXCEPT ![c] = IF Refused(c) THEN "done" ELSE "reading"]
    /\ UNCHANGED <<readers, maint, locked, waiters, operation_id, running, cancelled, loop>>

\* acquire_read, in the worker thread.
acquire_read(c) ==
    /\ pc[c] = "reading"
    /\ ~Writing /\ ~WriterWaiting
    /\ readers' = readers + 1
    /\ pc' = [pc EXCEPT ![c] = "acquired"]
    /\ UNCHANGED <<maint, locked, waiters, operation_id, running, cancelled, loop>>

\* Mutant: the except clause of hold does not give the read side back.
resume_hold_leaking(c) ==
    /\ pc[c] = "acquired"
    /\ LoopFor(c)
    /\ \/ /\ cancelled[c]
          /\ pc' = [pc EXCEPT ![c] = "done"]
          /\ UNCHANGED <<readers, locked, waiters, operation_id, loop>>
       \/ ~cancelled[c] /\ LockOrQueue(c, readers)
    /\ UNCHANGED <<maint, running, cancelled>>

\* The task is back from acquire_read; a cancelled one gives the read side back.
resume_hold(c) ==
    /\ pc[c] = "acquired"
    /\ LoopFor(c)
    /\ \/ /\ cancelled[c]
          /\ readers' = readers - 1
          /\ pc' = [pc EXCEPT ![c] = "done"]
          /\ UNCHANGED <<locked, waiters, operation_id, loop>>
       \/ ~cancelled[c] /\ LockOrQueue(c, readers)
    /\ UNCHANGED <<maint, running, cancelled>>

\* hold(wait=False), of submit: refused rather than made to wait.  It still
\* queues when the lock was released but its next owner has not run yet.
hold_nowait(c) ==
    /\ c \in Background /\ pc[c] = "idle"
    /\ LoopFor(c)
    /\ \/ /\ Refused(c) \/ locked[SessionOf[c]] \/ Writing \/ WriterWaiting
          /\ pc' = [pc EXCEPT ![c] = "done"]
          /\ UNCHANGED <<readers, locked, waiters, operation_id, loop>>
       \/ /\ ~(Refused(c) \/ locked[SessionOf[c]] \/ Writing \/ WriterWaiting)
          /\ LockOrQueue(c, readers + 1)
    /\ UNCHANGED <<maint, running, cancelled>>

\* A waiter the lock was handed to runs: it takes the lock, or, cancelled in
\* the meantime, passes the wakeup on.
wake_up(c) ==
    /\ pc[c] = "granted"
    /\ LoopFor(c)
    /\ LET q == Without(waiters[SessionOf[c]], c)
       IN  \/ ~cancelled[c] /\ EnterLocked(c, q, readers)
           \/ /\ cancelled[c]
              /\ LeaveLock(c, "done", q)
              /\ readers' = readers - 1
              /\ UNCHANGED <<operation_id, loop>>
    /\ UNCHANGED <<maint, running, cancelled>>

\* A waiter cancelled in the queue runs: it leaves the queue, wakes the next
\* one if the lock is free, and gives the read side back.
leave_queue(c) ==
    /\ pc[c] = "leaving"
    /\ LoopFor(c)
    /\ LET q == Without(waiters[SessionOf[c]], c)
       IN  IF locked[SessionOf[c]]
           THEN /\ waiters' = [waiters EXCEPT ![SessionOf[c]] = q]
                /\ pc' = [pc EXCEPT ![c] = "done"]
                /\ UNCHANGED locked
           ELSE LeaveLock(c, "done", q)
    /\ readers' = readers - 1
    /\ UNCHANGED <<maint, operation_id, running, cancelled, loop>>

\* The client's request is cancelled before its body runs.  The worker task of
\* an operation is shielded, and so is a body (threaded_tool, _finish_admission).
cancel_request(c) ==
    /\ pc[c] \in {"reading", "acquired", "queued", "granted"}
    /\ ~running[c] /\ ~cancelled[c]
    /\ LoopFor(c)
    /\ cancelled' = [cancelled EXCEPT ![c] = TRUE]
    /\ pc' = [pc EXCEPT ![c] = IF @ = "queued" THEN "leaving" ELSE @]
    /\ UNCHANGED <<readers, maint, locked, waiters, operation_id, running, loop>>

\* The body of an ordinary call ends.
leave_hold(c) ==
    /\ c \in Plain /\ pc[c] = "body"
    /\ LoopFor(c)
    /\ LeaveLock(c, "done", waiters[SessionOf[c]])
    /\ readers' = readers - 1
    /\ UNCHANGED <<maint, operation_id, running, cancelled, loop>>

----------------------------------------------------------------------------
(* Reservations *)

Admitting(c) == c \in Background /\ ~running[c] /\ pc[c] = "body"

\* submit waits for its capture thread.
await_admission(c) ==
    /\ Admitting(c) /\ loop = c
    /\ loop' = None
    /\ UNCHANGED <<readers, maint, locked, waiters, operation_id, pc, running, cancelled>>

\* Mutant: the session's lock stays with the submission.
hand_off_keeping_lock(c) ==
    /\ Admitting(c) /\ loop = None
    /\ pc' = [pc EXCEPT ![c] = "handoff"]
    /\ readers' = readers - 1
    /\ running' = [running EXCEPT ![c] = TRUE]
    /\ UNCHANGED <<maint, locked, waiters, operation_id, cancelled, loop>>

\* submit starts the worker task and leaves the gate, the reservation in place.
hand_off(c) ==
    /\ Admitting(c) /\ loop = None
    /\ LeaveLock(c, "handoff", waiters[SessionOf[c]])
    /\ readers' = readers - 1
    /\ running' = [running EXCEPT ![c] = TRUE]
    /\ UNCHANGED <<maint, operation_id, cancelled, loop>>

\* Admission fails, before or after the capture: release_operation, then out.
fail_admission(c) ==
    /\ Admitting(c)
    /\ LoopFor(c)
    /\ operation_id' = [operation_id EXCEPT ![SessionOf[c]] = None]
    /\ LeaveLock(c, "done", waiters[SessionOf[c]])
    /\ readers' = readers - 1
    /\ loop' = None
    /\ UNCHANGED <<maint, running, cancelled>>

\* The worker leaves the gate; its task keeps the loop until it has finished.
leave_worker(c) ==
    /\ c \in Background /\ running[c] /\ pc[c] = "body"
    /\ LoopFor(c)
    /\ LeaveLock(c, "finishing", waiters[SessionOf[c]])
    /\ readers' = readers - 1
    /\ loop' = c
    /\ UNCHANGED <<maint, operation_id, running, cancelled>>

release_operation(c) ==
    /\ pc[c] = "finishing" /\ operation_id[SessionOf[c]] = c
    /\ operation_id' = [operation_id EXCEPT ![SessionOf[c]] = None]
    /\ UNCHANGED <<readers, maint, locked, waiters, pc, running, cancelled, loop>>

\* The worker task ends.
task_done(c) ==
    /\ pc[c] = "finishing" /\ operation_id[SessionOf[c]] # c
    /\ pc' = [pc EXCEPT ![c] = "done"]
    /\ loop' = None
    /\ UNCHANGED <<readers, maint, locked, waiters, operation_id, running, cancelled>>

----------------------------------------------------------------------------
(* Maintenance *)

\* Mutant: reservations are not looked at.
maintenance_begin_over_operations(m) ==
    /\ m \in Maintainers /\ maint[m] = "idle"
    /\ readers = 0 /\ ~Writing /\ ~WriterWaiting
    /\ maint' = [maint EXCEPT ![m] = "writing"]
    /\ UNCHANGED <<readers, locked, waiters, operation_id, pc, running, cancelled, loop>>

\* maintenance_sync(wait=False): not while an operation is reserved anywhere.
maintenance_begin(m) ==
    /\ m \in Maintainers /\ maint[m] = "idle"
    /\ \A s \in Sessions : operation_id[s] = None
    /\ readers = 0 /\ ~Writing /\ ~WriterWaiting
    /\ maint' = [maint EXCEPT ![m] = "writing"]
    /\ UNCHANGED <<readers, locked, waiters, operation_id, pc, running, cancelled, loop>>

\* maintenance, and maintenance_sync(wait=True), ask for the write side ...
maintenance_request(m) ==
    /\ m \in Blocking /\ maint[m] = "idle"
    /\ maint' = [maint EXCEPT ![m] = "waiting"]
    /\ UNCHANGED <<readers, locked, waiters, operation_id, pc, running, cancelled, loop>>

\* ... and get it whatever is reserved.
maintenance_enter(m) ==
    /\ maint[m] = "waiting"
    /\ readers = 0 /\ ~Writing
    /\ maint' = [maint EXCEPT ![m] = "writing"]
    /\ UNCHANGED <<readers, locked, waiters, operation_id, pc, running, cancelled, loop>>

maintenance_end(m) ==
    /\ maint[m] = "writing"
    /\ maint' = [maint EXCEPT ![m] = "idle"]
    /\ UNCHANGED <<readers, locked, waiters, operation_id, pc, running, cancelled, loop>>

----------------------------------------------------------------------------
\* Every step a call takes once it has started, short of its body.
CallStep(c) ==
    \/ acquire_read(c) \/ resume_hold(c) \/ wake_up(c) \/ leave_queue(c)

GateNext ==
    \/ \E c \in Calls :
        \/ hold(c) \/ hold_nowait(c) \/ CallStep(c) \/ cancel_request(c) \/ leave_hold(c)
        \/ await_admission(c) \/ hand_off(c) \/ fail_admission(c)
        \/ leave_worker(c) \/ release_operation(c) \/ task_done(c)
    \/ \E m \in Updaters :
        \/ maintenance_begin(m) \/ maintenance_request(m)
        \/ maintenance_enter(m) \/ maintenance_end(m)

GateSpec == GateInit /\ [][GateNext]_gateVars

\* Every step that has been started is finished: the event loop serves its
\* ready tasks, worker threads return, bodies and maintenance end.  A waiting
\* writer enters, and a reader gets past maintenance, infinitely often enough
\* (strong fairness: one may keep finding the other there).  Nothing obliges a
\* client to call or to cancel, or an updater to begin.
GateFairness ==
    /\ \A c \in Calls :
        /\ SF_gateVars(acquire_read(c))
        /\ WF_gateVars(resume_hold(c)) /\ WF_gateVars(wake_up(c)) /\ WF_gateVars(leave_queue(c))
        /\ WF_gateVars(leave_hold(c)) /\ WF_gateVars(await_admission(c))
        /\ WF_gateVars(hand_off(c)) /\ WF_gateVars(c \in Background /\ hold(c))
        /\ WF_gateVars(leave_worker(c)) /\ WF_gateVars(release_operation(c))
        /\ WF_gateVars(task_done(c))
    /\ \A m \in Updaters : WF_gateVars(maintenance_enter(m)) /\ WF_gateVars(maintenance_end(m))

FairGateSpec == GateSpec /\ GateFairness

----------------------------------------------------------------------------
(* Properties *)

\* The gate's state has its types: in particular the reader count never goes
\* below zero, which release_read would let happen.
GateTypeOK ==
    /\ readers \in Nat
    /\ maint \in [Updaters -> {"idle", "waiting", "writing"}]
    /\ locked \in [Sessions -> BOOLEAN]
    /\ waiters \in [Sessions -> Seq(Calls)]
    /\ operation_id \in [Sessions -> Background \cup {None}]
    /\ pc \in [Calls -> PCs]
    /\ running \in [Calls -> BOOLEAN]
    /\ cancelled \in [Calls -> BOOLEAN]
    /\ loop \in Background \cup {None}

\* The maintenance lock counts exactly the calls that really hold its read
\* side, whatever way each of them left: served, refused after queueing,
\* cancelled in the worker thread, in the queue, or after the lock was handed
\* to it.  A leaked reader would shut maintenance out for good.
ReadersExact == readers = Cardinality({c \in Calls : pc[c] \in HoldsRead})

\* The complete body of a tool call is alone in its session.
OneBodyPerSession ==
    \A c, d \in Calls :
        pc[c] = "body" /\ pc[d] = "body" /\ SessionOf[c] = SessionOf[d] => c = d

\* From the moment submit reserves its session until its worker releases it,
\* no other call of that session is in its body, and the reservation is never
\* lost on the way ("protects the submit-to-worker handoff").
ReservationExclusive ==
    \A c \in Background :
        (Admitting(c) \/ (running[c] /\ pc[c] \notin {"finishing", "done"})) =>
            /\ operation_id[SessionOf[c]] = c
            /\ \A d \in Calls \ {c} : SessionOf[d] = SessionOf[c] => pc[d] # "body"

\* Maintenance runs alone: no tool body overlaps it.
MaintenanceAlone ==
    \A m \in Updaters : maint[m] = "writing" =>
        /\ \A c \in Calls : pc[c] # "body"
        /\ \A n \in Updaters \ {m} : maint[n] # "writing"

\* The runtime swap of the updater (maintenance_sync(wait=False)) never falls
\* between a submission and its worker, even though nobody holds the gate then.
NoSwapInHandoff ==
    \A m \in Maintainers : maint[m] = "writing" =>
        \A s \in Sessions : operation_id[s] = None

\* Bodies and maintenance exclude each other as the gate promises: one body per
\* session, no body during maintenance, one maintenance at a time, and no
\* runtime swap between a submission and its worker.
GateExclusive == OneBodyPerSession /\ MaintenanceAlone /\ NoSwapInHandoff

\* Every call that starts comes to an end: no cancellation, refusal or
\* handover of the lock leaves a later call stranded in the queue.
CallsReturn == \A c \in Calls : pc[c] # "idle" ~> pc[c] = "done"
=============================================================================
