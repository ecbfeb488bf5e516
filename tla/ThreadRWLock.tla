---------------------------- MODULE ThreadRWLock ----------------------------
(***************************************************************************)
(* _ThreadRWLock of server/compute/engine_pool.py: the writer-preferring   *)
(* lock between MCP tool calls (readers) and runtime maintenance (writer), *)
(* built from one threading.Condition and three counters.                  *)
(*                                                                         *)
(* Every "with self._condition" block is one action: the condition's own   *)
(* mutex makes it atomic.  A thread in Condition.wait is "waiting" until a *)
(* notify_all makes it "woken"; it then takes the mutex again and re-runs  *)
(* its while test.                                                         *)
(***************************************************************************)
EXTENDS Integers, FiniteSets

CONSTANTS Readers,      \* threads that call acquire_read / try_acquire_read
          Writers       \* threads that call acquire_write / try_acquire_write

ASSUME ThreadsFinite == IsFiniteSet(Readers) /\ IsFiniteSet(Writers)
ASSUME ThreadsDisjoint == Readers \cap Writers = {}

Threads == Readers \cup Writers

VARIABLES readers,          \* self._readers
          writer,           \* self._writer
          writers_waiting,  \* self._writers_waiting
          pc                \* where each thread is in the lock's protocol

vars == <<readers, writer, writers_waiting, pc>>

PCs == {"idle", "waiting", "woken", "holding"}

Holding(S) == {t \in S : pc[t] = "holding"}
Contending(S) == {t \in S : pc[t] \in {"waiting", "woken"}}

Init ==
    /\ readers = 0
    /\ writer = FALSE
    /\ writers_waiting = 0
    /\ pc = [t \in Threads |-> "idle"]

\* Condition.notify_all, with the caller t moving on to where.
NotifyAll(t, where) ==
    pc' = [u \in Threads |-> IF u = t THEN where
                             ELSE IF pc[u] = "waiting" THEN "woken" ELSE pc[u]]

----------------------------------------------------------------------------
(* Readers *)

\* The while test of acquire_read, and of try_acquire_read.
ReadBlocked == writer \/ writers_waiting > 0

EnterRead(r) ==
    /\ readers' = readers + 1
    /\ pc' = [pc EXCEPT ![r] = "holding"]
    /\ UNCHANGED <<writer, writers_waiting>>

WaitRead(r) ==
    /\ pc' = [pc EXCEPT ![r] = "waiting"]
    /\ UNCHANGED <<readers, writer, writers_waiting>>

\* Mutant of acquire_read: only a writer inside stops a reader.
acquire_read_ignoring_waiters(r) ==
    /\ pc[r] \in {"idle", "woken"}
    /\ \/ writer /\ WaitRead(r)
       \/ ~writer /\ EnterRead(r)

\* acquire_read: the first test of a fresh call, and the test after a wakeup.
acquire_read(r) ==
    /\ pc[r] \in {"idle", "woken"}
    /\ \/ ReadBlocked /\ WaitRead(r)
       \/ ~ReadBlocked /\ EnterRead(r)

\* try_acquire_read that returns True; the False answer changes nothing.
try_acquire_read(r) ==
    /\ pc[r] = "idle"
    /\ ~ReadBlocked
    /\ EnterRead(r)

\* Mutant of release_read: the last reader leaves without notify_all.
release_read_silently(r) ==
    /\ pc[r] = "holding"
    /\ readers' = readers - 1
    /\ pc' = [pc EXCEPT ![r] = "idle"]
    /\ UNCHANGED <<writer, writers_waiting>>

release_read(r) ==
    /\ pc[r] = "holding"
    /\ readers' = readers - 1
    /\ IF readers = 1 THEN NotifyAll(r, "idle")
                      ELSE pc' = [pc EXCEPT ![r] = "idle"]
    /\ UNCHANGED <<writer, writers_waiting>>

----------------------------------------------------------------------------
(* Writers *)

\* The while test of acquire_write.
WriteBlocked == writer \/ readers > 0

\* acquire_write, first pass: counted as waiting before the test, and the
\* finally takes the count back when the loop is left.
acquire_write_begin(w) ==
    /\ pc[w] = "idle"
    /\ \/ /\ WriteBlocked
          /\ writers_waiting' = writers_waiting + 1
          /\ pc' = [pc EXCEPT ![w] = "waiting"]
          /\ UNCHANGED writer
       \/ /\ ~WriteBlocked
          /\ writer' = TRUE
          /\ pc' = [pc EXCEPT ![w] = "holding"]
          /\ UNCHANGED writers_waiting
    /\ UNCHANGED readers

\* acquire_write, the test after a wakeup.
acquire_write_recheck(w) ==
    /\ pc[w] = "woken"
    /\ \/ /\ WriteBlocked
          /\ pc' = [pc EXCEPT ![w] = "waiting"]
          /\ UNCHANGED <<writer, writers_waiting>>
       \/ /\ ~WriteBlocked
          /\ writer' = TRUE
          /\ writers_waiting' = writers_waiting - 1
          /\ pc' = [pc EXCEPT ![w] = "holding"]
    /\ UNCHANGED readers

\* Mutant of try_acquire_write: the readers are not looked at.
try_acquire_write_over_readers(w) ==
    /\ pc[w] = "idle"
    /\ ~writer
    /\ writers_waiting = 0
    /\ writer' = TRUE
    /\ pc' = [pc EXCEPT ![w] = "holding"]
    /\ UNCHANGED <<readers, writers_waiting>>

\* try_acquire_write that returns True: it also yields to waiting writers.
try_acquire_write(w) ==
    /\ pc[w] = "idle"
    /\ ~WriteBlocked
    /\ writers_waiting = 0
    /\ writer' = TRUE
    /\ pc' = [pc EXCEPT ![w] = "holding"]
    /\ UNCHANGED <<readers, writers_waiting>>

release_write(w) ==
    /\ pc[w] = "holding"
    /\ writer' = FALSE
    /\ NotifyAll(w, "idle")
    /\ UNCHANGED <<readers, writers_waiting>>

----------------------------------------------------------------------------
Next ==
    \/ \E r \in Readers : acquire_read(r) \/ try_acquire_read(r) \/ release_read(r)
    \/ \E w \in Writers : \/ acquire_write_begin(w) \/ acquire_write_recheck(w)
                          \/ try_acquire_write(w) \/ release_write(w)

Spec == Init /\ [][Next]_vars

\* A holder's critical section ends, and a woken thread gets the condition's
\* mutex: the tool bodies are bounded and Condition's mutex is not held long.
\* Nobody has to start a call.
Fairness ==
    /\ \A r \in Readers : /\ WF_vars(release_read(r))
                          /\ WF_vars(pc[r] = "woken" /\ acquire_read(r))
    /\ \A w \in Writers : /\ WF_vars(release_write(w))
                          /\ WF_vars(acquire_write_recheck(w))

FairSpec == Spec /\ Fairness

----------------------------------------------------------------------------
(* Properties *)

\* The counters of _ThreadRWLock never go below zero, and every thread is at one
\* of the protocol's places.
TypeOK ==
    /\ readers \in Nat
    /\ writer \in BOOLEAN
    /\ writers_waiting \in Nat
    /\ pc \in [Threads -> PCs]

\* The three counters say what the threads really hold and want, so that no
\* path through acquire, wait and release leaks a reader or a waiting writer
\* (a leaked one would shut maintenance, or every tool call, out for good).
CountersExact ==
    /\ readers = Cardinality(Holding(Readers))
    /\ writers_waiting = Cardinality(Contending(Writers))
    /\ writer <=> Holding(Writers) # {}

\* A runtime swap (writer) never overlaps a tool call (reader) or another swap.
Exclusion ==
    /\ Holding(Writers) # {} => Holding(Readers) = {}
    /\ \A v, w \in Holding(Writers) : v = w

\* No lost wakeup: as long as a thread sleeps in Condition.wait without having
\* been notified, some other thread still has to come through a release, or
\* has been notified itself and will re-test.  The code notifies only when the
\* last reader leaves and when the writer leaves.
NoLostWakeup ==
    (\E t \in Threads : pc[t] = "waiting") =>
        \/ writer
        \/ readers > 0
        \/ \E w \in Writers : pc[w] = "woken"

\* The lock is sound whatever the threads do: its counters are exact, a swap
\* excludes tool calls and other swaps, and no sleeping thread is forgotten.
\* (Exclusion alone is not inductive: a writer looks at the counters, so they
\* have to be exact; NoLostWakeup needs them as well, because a reader also
\* goes to sleep behind a writer that is only waiting.)
LockSound == TypeOK /\ CountersExact /\ Exclusion /\ NoLostWakeup

\* Writer preference: a reader that arrives while a writer is contending does
\* not get in before it.
WriterPreferred ==
    [][\A r \in Readers : (pc[r] # "holding" /\ pc'[r] = "holding")
                              => Contending(Writers) = {}]_vars

\* Maintenance is not starved: when threads have called acquire_write and none
\* is in, one of them gets in, however many tool calls keep arriving.  (Which
\* one is open: acquire_write does not queue writers among themselves.)
SomeWriterEnters ==
    (Contending(Writers) # {} /\ Holding(Writers) = {}) ~> Holding(Writers) # {}

\* The lock as its callers see it.
Abstract == INSTANCE RWLock WITH
    mode <- [t \in Threads |-> IF pc[t] # "holding" THEN "none"
                               ELSE IF t \in Readers THEN "read" ELSE "write"]

ImplementsRWLock == Abstract!Spec
=============================================================================
