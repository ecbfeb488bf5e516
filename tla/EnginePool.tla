----------------------------- MODULE EnginePool -----------------------------
(***************************************************************************)
(* SessionEnginePool (server/compute/engine_pool.py) and the process slots *)
(* of server/compute/engine.py: one PoB process per live session, plus the *)
(* extra ones the parallel optimizer (server/compute/buildopt.py) starts,  *)
(* under a global limit.                                                   *)
(*                                                                         *)
(* A session's engine is found by the id() of the session object, which    *)
(* Python hands out again once the object is collected; the collection may *)
(* run its callback in any thread, in the middle of whatever it does, the  *)
(* holder of the pool's re-entrant lock included.  The threads are those   *)
(* of tool calls and of the updater; starting, closing and the counting of *)
(* slots are cut where another thread can look.                            *)
(***************************************************************************)
EXTENDS Integers, Sequences, FiniteSets, SequencesExt

CONSTANTS Threads, Sessions,
          KeyOf,          \* id() of each session
          Collectors,     \* callbacks of collected sessions that run at a time
          Engines,        \* names for engine objects, reused
          MaxSlots,       \* POE2_MCP_MAX_ENGINES
          MaxPool,        \* max_engines of the pool
          MaxExtras,      \* bound: extra engines of one optimization
          Errors,         \* what a start can raise: "PobEngineError", "OSError"
          CloseRaises,    \* whether a killed process may outlive the last wait
          None

Keys == {KeyOf[s] : s \in Sessions}
Actors == Threads \cup Collectors

ASSUME PoolTyped ==
    /\ MaxSlots \in Nat /\ MaxPool \in Nat \ {0} /\ MaxExtras \in Nat
    /\ Cardinality(Engines) >= MaxSlots
    /\ DOMAIN KeyOf = Sessions
    /\ Errors \subseteq {"PobEngineError", "OSError"} /\ CloseRaises \subseteq BOOLEAN
    /\ IsFiniteSet(Actors) /\ IsFiniteSet(Engines) /\ IsFiniteSet(Sessions)

ASSUME PoolNames ==
    None \notin Threads \cup Sessions /\ Threads \cap Collectors = {}

VARIABLES session,        \* each session object: "new", "live", "gone"
          entries,        \* pool._entries: who, and which engine
          pool_lock,      \* pool._lock
          callbacks,      \* dead references whose callback has not run
          engine,         \* each engine object and its process
          capacity,       \* _ENGINE_CAPACITY
          active,         \* _ACTIVE_ENGINE_PROCESSES
          pc, who,        \* each thread, and the session it works for
          todo,           \* engines it is going through the closing of
          extras,         \* engines of its parallel optimization
          snapshots,      \* sessions preserve_sessions has still to restore
          nested          \* the thread a callback interrupts

sessionVars == <<session, callbacks>>
poolVars == <<entries, pool_lock>>
slotVars == <<engine, capacity, active>>
threadVars == <<pc, who, todo, extras, snapshots, nested>>
vars == <<sessionVars, poolVars, slotVars, threadVars>>

NoEntry == [session |-> None, engine |-> None]

Init ==
    /\ session = [s \in Sessions |-> "new"]
    /\ entries = [k \in Keys |-> NoEntry]
    /\ pool_lock = None
    /\ callbacks = {}
    /\ engine = [e \in Engines |-> "none"]
    /\ capacity = MaxSlots
    /\ active = 0
    /\ pc = [a \in Actors |-> "idle"]
    /\ who = [a \in Actors |-> None]
    /\ todo = [a \in Actors |-> <<>>]
    /\ extras = [t \in Threads |-> <<>>]
    /\ snapshots = [t \in Threads |-> {}]
    /\ nested = [g \in Collectors |-> None]

----------------------------------------------------------------------------
Runs(a) == \A g \in Collectors : nested[g] # a
Pooled == {k \in Keys : entries[k] # NoEntry}
Stale == {k \in Pooled : session[entries[k].session] = "gone"}
EnginesOf(K) == SetToSeq({entries[k].engine : k \in K})
Dropped(K) == [k \in Keys |-> IF k \in K THEN NoEntry ELSE entries[k]]
Unlocked(t) == IF pool_lock = t THEN None ELSE pool_lock

\* Where a thread goes that has the sessions in left still to restore.
Onward(left) == IF left # {} THEN "swapped" ELSE "idle"

\* get ends: what raised, or was not asked for by preserve_sessions, is over
\* with; what preserve_sessions asked for gets its build loaded.
Raises(t) ==
    /\ snapshots' = [snapshots EXCEPT ![t] = @ \ {who[t]}]
    /\ pc' = [pc EXCEPT ![t] = Onward(snapshots[t] \ {who[t]})]
    /\ who' = [who EXCEPT ![t] = None]
    /\ pool_lock' = None

Returns(t) ==
    /\ pc' = [pc EXCEPT ![t] = IF snapshots[t] # {} THEN "loading" ELSE "idle"]
    /\ who' = [who EXCEPT ![t] = IF snapshots[t] # {} THEN @ ELSE None]
    /\ pool_lock' = None

----------------------------------------------------------------------------
(* Sessions *)

\* A client connects; the address of its session object is free.
connect(s) ==
    /\ session[s] = "new"
    /\ \A d \in Sessions \ {s} : KeyOf[d] = KeyOf[s] => session[d] # "live"
    /\ session' = [session EXCEPT ![s] = "live"]
    /\ UNCHANGED <<callbacks, poolVars, slotVars, threadVars>>

\* The session object is collected: its references die, and the one the pool
\* holds has its callback called.
collect(s) ==
    /\ session[s] = "live" /\ \A a \in Actors : who[a] # s
    /\ session' = [session EXCEPT ![s] = "gone"]
    /\ callbacks' = IF entries[KeyOf[s]].session = s THEN callbacks \cup {s} ELSE callbacks
    /\ UNCHANGED <<poolVars, slotVars, threadVars>>

\* Mutant: the entry is recognised by its key alone.
IsTheirs_by_key(s) == entries[KeyOf[s]] # NoEntry

\* entry.session.weak is session_ref
IsTheirs(s) == entries[KeyOf[s]].session = s

\* _discard_collected: drop the entry if it is still that reference's, then
\* close.  With the lock taken, the callback runs inside the thread that has it.
discard_collected(g) ==
    /\ pc[g] = "idle"
    /\ \E s \in callbacks :
        /\ callbacks' = callbacks \ {s}
        /\ nested' = [nested EXCEPT ![g] = pool_lock]
        /\ LET gone == IF IsTheirs(s) THEN {KeyOf[s]} ELSE {}
           IN  entries' = Dropped(gone) /\ todo' = [todo EXCEPT ![g] = EnginesOf(gone)]
    /\ pc' = [pc EXCEPT ![g] = "discarding"]
    /\ UNCHANGED <<session, pool_lock, slotVars, who, extras, snapshots>>

discarded(g) ==
    /\ pc[g] = "discarding" /\ todo[g] = <<>>
    /\ pc' = [pc EXCEPT ![g] = "idle"]
    /\ nested' = [nested EXCEPT ![g] = None]
    /\ UNCHANGED <<sessionVars, poolVars, slotVars, who, todo, extras, snapshots>>

----------------------------------------------------------------------------
(* PobEngine *)

\* The process exits by itself (external).
engine_dies(e) ==
    /\ engine[e] = "up"
    /\ engine' = [engine EXCEPT ![e] = "dead"]
    /\ UNCHANGED <<sessionVars, poolVars, capacity, active, threadVars>>

\* A thread that starts an engine: the pool's, or an extra one.
Starts(t) ==
    /\ pc[t] = "creating" \/ (pc[t] = "optimizing" /\ Len(extras[t]) < MaxExtras)
    /\ Runs(t)

\* len(self._entries) >= self._max_engines, when the pool starts the engine.
PoolFull(t) == pool_lock = t /\ Cardinality(Pooled) >= MaxPool

\* _acquire_engine_slot takes the semaphore first ...
acquire_slot(t) ==
    /\ Starts(t) /\ capacity > 0 /\ ~PoolFull(t)
    /\ capacity' = capacity - 1
    /\ pc' = [pc EXCEPT ![t] = "slotted"]
    /\ UNCHANGED <<sessionVars, poolVars, engine, active, who, todo, extras, snapshots, nested>>

\* ... or there is none, or the pool is full: get raises, the optimizer makes do.
refuse_slot(t) ==
    /\ Starts(t) /\ (capacity = 0 \/ PoolFull(t))
    /\ \/ pool_lock = t /\ Raises(t)
       \/ /\ pool_lock # t
          /\ pc' = [pc EXCEPT ![t] = "measuring"]
          /\ UNCHANGED <<pool_lock, who, snapshots>>
    /\ UNCHANGED <<sessionVars, entries, slotVars, todo, extras, nested>>

\* ... and then counts.
count_slot(t) ==
    /\ pc[t] = "slotted" /\ Runs(t)
    /\ active' = active + 1
    /\ LET e == CHOOSE e \in Engines : engine[e] = "none"
       IN  /\ engine' = [engine EXCEPT ![e] = "starting"]
           /\ todo' = [todo EXCEPT ![t] = <<e>>]
    /\ pc' = [pc EXCEPT ![t] = "starting"]
    /\ UNCHANGED <<sessionVars, poolVars, capacity, who, extras, snapshots, nested>>

\* The engine is ready: the pool records it, or it is one more extra engine.
start_engine(t) ==
    /\ pc[t] = "starting" /\ Runs(t)
    /\ engine' = [engine EXCEPT ![Head(todo[t])] = "up"]
    /\ todo' = [todo EXCEPT ![t] = <<>>]
    /\ \/ /\ pool_lock = t
          /\ entries' = [entries EXCEPT ![KeyOf[who[t]]] =
                           [session |-> who[t], engine |-> Head(todo[t])]]
          /\ Returns(t)
          /\ UNCHANGED extras
       \/ /\ pool_lock # t
          /\ extras' = [extras EXCEPT ![t] = Append(@, Head(todo[t]))]
          /\ pc' = [pc EXCEPT ![t] = "optimizing"]
          /\ UNCHANGED <<poolVars, who>>
    /\ UNCHANGED <<sessionVars, capacity, active, snapshots, nested>>

\* The start raises: the process is ended and the slot given back ...
start_fails(t) ==
    /\ pc[t] = "starting" /\ Runs(t)
    /\ \E error \in Errors : pc' = [pc EXCEPT ![t] = error]
    /\ engine' = [engine EXCEPT ![Head(todo[t])] = "dead"]
    /\ UNCHANGED <<sessionVars, poolVars, capacity, active, who, todo, extras, snapshots, nested>>

\* ... before the exception is seen.  The optimizer makes do with the engines
\* it has after a PobEngineError, and lets any other error through.
start_failed(t) ==
    /\ pc[t] \in Errors /\ todo[t] = <<>> /\ Runs(t)
    /\ \/ pool_lock = t /\ Raises(t) /\ UNCHANGED extras
       \/ /\ pool_lock # t /\ pc[t] = "PobEngineError"
          /\ pc' = [pc EXCEPT ![t] = "measuring"]
          /\ UNCHANGED <<pool_lock, who, extras, snapshots>>
       \/ /\ pool_lock # t /\ pc[t] = "OSError"
          /\ pc' = [pc EXCEPT ![t] = "idle"]
          /\ extras' = [extras EXCEPT ![t] = <<>>]
          /\ UNCHANGED <<pool_lock, who, snapshots>>
    /\ UNCHANGED <<sessionVars, entries, slotVars, todo, nested>>

\* A thread in the middle of closing a list of engines.
Closing(a) == todo[a] # <<>> /\ pc[a] # "starting" /\ Runs(a)

\* close: the process ends, and _release_engine_slot counts down first ...
close(a) ==
    /\ Closing(a) /\ engine[Head(todo[a])] \in {"up", "dead"}
    /\ active' = IF active > 0 THEN active - 1 ELSE active
    /\ engine' = [engine EXCEPT ![Head(todo[a])] = IF active > 0 THEN "uncounted" ELSE "none"]
    /\ todo' = [todo EXCEPT ![a] = IF active > 0 THEN @ ELSE Tail(@)]
    /\ UNCHANGED <<sessionVars, poolVars, capacity, pc, who, extras, snapshots, nested>>

\* Mutant: a failed start keeps its slot.
release_slot_of_started(a) ==
    /\ Closing(a) /\ engine[Head(todo[a])] = "uncounted"
    /\ capacity' = IF pc[a] \in Errors THEN capacity ELSE capacity + 1
    /\ engine' = [engine EXCEPT ![Head(todo[a])] = "none"]
    /\ todo' = [todo EXCEPT ![a] = Tail(@)]
    /\ UNCHANGED <<sessionVars, poolVars, active, pc, who, extras, snapshots, nested>>

\* ... and then releases the semaphore.
release_slot(a) ==
    /\ Closing(a) /\ engine[Head(todo[a])] = "uncounted"
    /\ capacity' = capacity + 1
    /\ engine' = [engine EXCEPT ![Head(todo[a])] = "none"]
    /\ todo' = [todo EXCEPT ![a] = Tail(@)]
    /\ UNCHANGED <<sessionVars, poolVars, active, pc, who, extras, snapshots, nested>>

\* The killed process outlives the last wait: close raises, its slot released,
\* and the exception ends whatever was going through a list of engines.
close_raises(t) ==
    /\ TRUE \in CloseRaises /\ pc[t] \notin Errors
    /\ Closing(t) /\ engine[Head(todo[t])] = "uncounted"
    /\ capacity' = capacity + 1
    /\ engine' = [engine EXCEPT ![Head(todo[t])] = "none"]
    /\ todo' = [todo EXCEPT ![t] = <<>>]
    /\ LET left == IF pc[t] \in {"pruning", "replacing"} THEN snapshots[t] \ {who[t]} ELSE {}
       IN  pc' = [pc EXCEPT ![t] = Onward(left)] /\ snapshots' = [snapshots EXCEPT ![t] = left]
    /\ who' = [who EXCEPT ![t] = None]
    /\ pool_lock' = Unlocked(t)
    /\ UNCHANGED <<sessionVars, entries, active, extras, nested>>

----------------------------------------------------------------------------
(* SessionEnginePool *)

\* get, for a tool call or for preserve_sessions: first the engines of
\* sessions that are gone.
get(t) ==
    /\ pc[t] \in {"idle", "swapped"} /\ pool_lock = None
    /\ \E s \in Sessions :
        /\ session[s] = "live" /\ (pc[t] = "swapped" => s \in snapshots[t])
        /\ who' = [who EXCEPT ![t] = s]
    /\ pool_lock' = t
    /\ pc' = [pc EXCEPT ![t] = "pruning"]
    /\ todo' = [todo EXCEPT ![t] = EnginesOf(Stale)]
    /\ entries' = Dropped(Stale)
    /\ UNCHANGED <<sessionVars, slotVars, extras, snapshots, nested>>

\* Mutant: a dead engine is dropped without being closed.
look_up_forgetting(t) ==
    /\ pc[t] = "pruning" /\ todo[t] = <<>> /\ Runs(t)
    /\ LET e == entries[KeyOf[who[t]]]
           usable == e.session = who[t] /\ engine[e.engine] = "up"
       IN  \/ usable /\ Returns(t) /\ UNCHANGED entries
           \/ /\ ~usable
              /\ entries' = Dropped({KeyOf[who[t]]})
              /\ pc' = [pc EXCEPT ![t] = "creating"]
              /\ UNCHANGED <<pool_lock, who>>
    /\ UNCHANGED <<sessionVars, slotVars, todo, extras, snapshots, nested>>

\* Mutant: a dead engine stays in the pool while it is closed.
look_up_keeping_entry(t) ==
    /\ pc[t] = "pruning" /\ todo[t] = <<>> /\ Runs(t)
    /\ LET e == entries[KeyOf[who[t]]]
           usable == e.session = who[t] /\ engine[e.engine] = "up"
       IN  \/ usable /\ Returns(t) /\ UNCHANGED todo
           \/ /\ ~usable
              /\ todo' = [todo EXCEPT ![t] = IF e = NoEntry THEN <<>> ELSE <<e.engine>>]
              /\ pc' = [pc EXCEPT ![t] = "replacing"]
              /\ UNCHANGED <<pool_lock, who>>
    /\ UNCHANGED <<sessionVars, entries, slotVars, extras, snapshots, nested>>

\* The entry under the session's id: its own and running, it is returned;
\* otherwise it is dropped and closed, and a new engine started.
look_up(t) ==
    /\ pc[t] = "pruning" /\ todo[t] = <<>> /\ Runs(t)
    /\ LET e == entries[KeyOf[who[t]]]
           usable == e.session = who[t] /\ engine[e.engine] = "up"
       IN  \/ usable /\ Returns(t) /\ UNCHANGED <<entries, todo>>
           \/ /\ ~usable
              /\ entries' = Dropped({KeyOf[who[t]]})
              /\ todo' = [todo EXCEPT ![t] = IF e = NoEntry THEN <<>> ELSE <<e.engine>>]
              /\ pc' = [pc EXCEPT ![t] = "replacing"]
              /\ UNCHANGED <<pool_lock, who>>
    /\ UNCHANGED <<sessionVars, slotVars, extras, snapshots, nested>>

create_locked(t) ==
    /\ pc[t] = "replacing" /\ todo[t] = <<>> /\ Runs(t)
    /\ pc' = [pc EXCEPT ![t] = "creating"]
    /\ UNCHANGED <<sessionVars, poolVars, slotVars, who, todo, extras, snapshots, nested>>

\* preserve_sessions: the builds of the live sessions whose engine answers are
\* saved, and all engines closed, the lock held throughout.
preserve_sessions(t) ==
    /\ pc[t] = "idle" /\ pool_lock = None /\ Pooled # {}
    /\ snapshots' = [snapshots EXCEPT ![t] =
         {entries[k].session : k \in {l \in Pooled \ Stale : engine[entries[l].engine] = "up"}}]
    /\ todo' = [todo EXCEPT ![t] = EnginesOf(Pooled)]
    /\ entries' = Dropped(Pooled)
    /\ pool_lock' = t
    /\ pc' = [pc EXCEPT ![t] = "swapping"]
    /\ UNCHANGED <<sessionVars, slotVars, who, extras, nested>>

\* The build is loaded into the session's new engine, or the load fails and
\* the session is left without one.
load(t) ==
    /\ pc[t] = "loading"
    /\ LET k == KeyOf[who[t]]
           left == snapshots[t] \ {who[t]}
       IN  /\ snapshots' = [snapshots EXCEPT ![t] = left]
           /\ \/ pc' = [pc EXCEPT ![t] = Onward(left)] /\ UNCHANGED <<entries, todo>>
              \/ /\ pool_lock = None
                 /\ entries' = Dropped({k})
                 /\ todo' = [todo EXCEPT ![t] = EnginesOf(Pooled \cap {k})]
                 /\ pc' = [pc EXCEPT ![t] = "unloading"]
    /\ who' = [who EXCEPT ![t] = None]
    /\ UNCHANGED <<sessionVars, pool_lock, slotVars, extras, nested>>

\* A session that is gone by now is passed over.
pass_over(t) ==
    /\ pc[t] = "swapped"
    /\ \E s \in snapshots[t] :
        /\ session[s] = "gone"
        /\ snapshots' = [snapshots EXCEPT ![t] = @ \ {s}]
        /\ pc' = [pc EXCEPT ![t] = Onward(snapshots[t] \ {s})]
    /\ UNCHANGED <<sessionVars, poolVars, slotVars, who, todo, extras, nested>>

----------------------------------------------------------------------------
(* _run_levers(parallel=True) *)

run_levers(t) ==
    /\ pc[t] = "idle" /\ capacity > 0 /\ MaxExtras > 0
    /\ pc' = [pc EXCEPT ![t] = "optimizing"]
    /\ UNCHANGED <<sessionVars, poolVars, slotVars, who, todo, extras, snapshots, nested>>

\* The levers are measured; the extra engines are closed one by one.
close_extras(t) ==
    /\ pc[t] = "measuring" \/ (pc[t] = "optimizing" /\ Len(extras[t]) = MaxExtras)
    /\ todo' = [todo EXCEPT ![t] = extras[t]]
    /\ extras' = [extras EXCEPT ![t] = <<>>]
    /\ pc' = [pc EXCEPT ![t] = "cleaning"]
    /\ UNCHANGED <<sessionVars, poolVars, slotVars, who, snapshots, nested>>

\* Everything on the list is closed: after the extras, a failed load, a swap.
let_go(t) ==
    /\ pc[t] \in {"cleaning", "unloading", "swapping"} /\ todo[t] = <<>> /\ Runs(t)
    /\ pc' = [pc EXCEPT ![t] = Onward(snapshots[t])]
    /\ pool_lock' = Unlocked(t)
    /\ UNCHANGED <<sessionVars, entries, slotVars, who, todo, extras, snapshots, nested>>

----------------------------------------------------------------------------
ThreadStep(t) ==
    \/ acquire_slot(t) \/ refuse_slot(t) \/ count_slot(t) \/ start_engine(t) \/ start_fails(t)
    \/ start_failed(t) \/ close(t) \/ release_slot(t) \/ close_raises(t)
    \/ look_up(t) \/ create_locked(t) \/ load(t) \/ pass_over(t)
    \/ close_extras(t) \/ let_go(t)

CollectorStep(g) == discard_collected(g) \/ discarded(g) \/ close(g) \/ release_slot(g)

Next ==
    \/ \E s \in Sessions : connect(s) \/ collect(s)
    \/ \E e \in Engines : engine_dies(e)
    \/ \E t \in Threads : get(t) \/ preserve_sessions(t) \/ run_levers(t) \/ ThreadStep(t)
    \/ \E g \in Collectors : CollectorStep(g)

Spec == Init /\ [][Next]_vars

----------------------------------------------------------------------------
(* Properties *)

\* The pool, the slots and the threads have their types; the semaphore and the
\* counter stay within the limit.
TypeOK ==
    /\ session \in [Sessions -> {"new", "live", "gone"}]
    /\ \A k \in Keys : entries[k] = NoEntry \/
         (entries[k].session \in Sessions /\ entries[k].engine \in Engines)
    /\ pool_lock \in Threads \cup {None}
    /\ callbacks \subseteq Sessions
    /\ engine \in [Engines -> {"none", "starting", "up", "dead", "uncounted"}]
    /\ capacity \in 0 .. MaxSlots /\ active \in 0 .. MaxSlots
    /\ pc \in [Actors -> {"idle", "pruning", "replacing", "creating", "slotted", "starting",
                          "swapping", "swapped", "loading", "unloading", "optimizing",
                          "measuring", "cleaning", "discarding"} \cup Errors]
    /\ who \in [Actors -> Sessions \cup {None}]
    /\ todo \in [Actors -> Seq(Engines)] /\ extras \in [Threads -> Seq(Engines)]
    /\ snapshots \in [Threads -> SUBSET Sessions]
    /\ nested \in [Collectors -> Threads \cup {None}]

\* The semaphore and the counter account for exactly the engines that hold a
\* slot, at every point of starts, failed starts and closings in several
\* threads.  In particular the early return of _release_engine_slot, which
\* would lose a slot for good, is never taken.
SlotsExact ==
    LET holding == {e \in Engines : engine[e] # "none"}
        slotted == {t \in Threads : pc[t] = "slotted"}
    IN  /\ capacity = MaxSlots - Cardinality(holding) - Cardinality(slotted)
        /\ active = Cardinality(holding \ {e \in Engines : engine[e] = "uncounted"})

\* Slots, semaphore and counter say the same of the same processes.
PoolSound == TypeOK /\ SlotsExact

\* What the pool hands out is running or has died by itself: no callback,
\* prune, swap or replacement closes an engine that is still in the pool, and
\* no two sessions share one.  There are never more of them than its limit.
PooledEngineOpen ==
    /\ Cardinality(Pooled) <= MaxPool
    /\ \A k \in Pooled :
        /\ engine[entries[k].engine] \in {"up", "dead"}
        /\ \A l \in Pooled \ {k} : entries[l].engine # entries[k].engine
        /\ \A a \in Actors : entries[k].engine \notin ToSet(todo[a])

\* The engine of a live session is lost to it only when it dies or the runtime
\* is swapped: a callback for an earlier session at the same address leaves it
\* alone.
LiveSessionKeepsEngine ==
    [][\A k \in Pooled :
        LET e == entries[k]
        IN  session[e.session] = "live" /\ engine[e.engine] = "up" /\ entries'[k] # e
              => \E t \in Threads : pc'[t] \in {"swapping", "unloading"} /\ pc[t] # pc'[t]]_vars

\* Capacity comes back: an engine that holds a slot is in the hands of a thread
\* that will close it, or in the pool for a session that is there or whose
\* callback has still to run, whether or not anybody uses the pool again
\* ("retry after another compute operation or MCP session finishes").
NoEngineLost ==
    \A e \in Engines : engine[e] # "none" =>
        \/ \E k \in Pooled : entries[k].engine = e /\ (k \in Stale => entries[k].session \in callbacks)
        \/ \E a \in Actors : e \in ToSet(todo[a])
        \/ \E t \in Threads : e \in ToSet(extras[t])
=============================================================================
