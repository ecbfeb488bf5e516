------------------------- MODULE ThreadRWLockProofs -------------------------
(***************************************************************************)
(* Proofs about _ThreadRWLock (ThreadRWLock) for every finite number of    *)
(* reader and writer threads: its counters are exact, maintenance excludes *)
(* tool calls, no wakeup is lost, a reader never overtakes a writer, and   *)
(* the lock implements RWLock.                                             *)
(***************************************************************************)
EXTENDS ThreadRWLock, FiniteSetTheorems, TLAPS

----------------------------------------------------------------------------
(* What the counters mean, as sets *)

\* A set that gains one element counts one more, and back: the arithmetic
\* behind _readers += 1 and _readers -= 1.
LEMMA CountOne ==
    ASSUME NEW S, NEW x, IsFiniteSet(S)
    PROVE  /\ x \notin S => Cardinality(S \cup {x}) = Cardinality(S) + 1
           /\ x \in S => Cardinality(S \ {x}) = Cardinality(S) - 1
BY FS_AddElement, FS_RemoveElement

\* Both counters count finite sets, and are zero exactly when the set is empty.
LEMMA CountersReadAsSets ==
    ASSUME LockSound
    PROVE  /\ IsFiniteSet(Holding(Readers)) /\ IsFiniteSet(Contending(Writers))
           /\ readers > 0 <=> Holding(Readers) # {}
           /\ writers_waiting > 0 <=> Contending(Writers) # {}
<1>1. IsFiniteSet(Holding(Readers))
  BY ThreadsFinite, FS_Subset DEF Holding
<1>2. IsFiniteSet(Contending(Writers))
  BY ThreadsFinite, FS_Subset DEF Contending
<1>3. readers > 0 <=> Holding(Readers) # {}
  BY <1>1, FS_EmptySet DEF LockSound, TypeOK, CountersExact
<1>4. writers_waiting > 0 <=> Contending(Writers) # {}
  BY <1>2, FS_EmptySet DEF LockSound, TypeOK, CountersExact
<1> QED BY <1>1, <1>2, <1>3, <1>4

----------------------------------------------------------------------------
(* Each operation keeps the invariant *)

\* A reader that enters is counted, and enters only past no writer.
LEMMA EnterReadKeeps ==
    ASSUME LockSound, NEW r \in Readers, pc[r] # "holding", ~ReadBlocked, EnterRead(r)
    PROVE  LockSound'
<1> USE ThreadsDisjoint DEF Threads, PCs
<1>1. TypeOK'
  BY DEF LockSound, TypeOK, EnterRead
<1>2. /\ Holding(Readers)' = Holding(Readers) \cup {r}
      /\ Holding(Writers)' = Holding(Writers)
      /\ Contending(Writers)' = Contending(Writers)
  BY DEF LockSound, TypeOK, EnterRead, Holding, Contending
<1>3. r \notin Holding(Readers)
  BY DEF Holding
<1>4. CountersExact'
  BY <1>2, <1>3, CountersReadAsSets, CountOne DEF LockSound, TypeOK, CountersExact, EnterRead
<1>5. Exclusion'
  BY <1>2 DEF LockSound, CountersExact, Exclusion, ReadBlocked
<1>6. NoLostWakeup'
  BY DEF LockSound, TypeOK, NoLostWakeup, EnterRead
<1> QED BY <1>1, <1>4, <1>5, <1>6 DEF LockSound

\* A reader goes to sleep only behind a writer that will wake it.
LEMMA WaitReadKeeps ==
    ASSUME LockSound, NEW r \in Readers, pc[r] # "holding", ReadBlocked, WaitRead(r)
    PROVE  LockSound'
<1> USE ThreadsDisjoint DEF Threads, PCs
<1>1. TypeOK'
  BY DEF LockSound, TypeOK, WaitRead
<1>2. /\ Holding(Readers)' = Holding(Readers)
      /\ Holding(Writers)' = Holding(Writers)
      /\ Contending(Writers)' = Contending(Writers)
  BY DEF LockSound, TypeOK, WaitRead, Holding, Contending
<1>3. CountersExact' /\ Exclusion'
  BY <1>2 DEF LockSound, CountersExact, Exclusion, WaitRead
<1>4. NoLostWakeup'
  <2>1. CASE writer
    BY <2>1 DEF NoLostWakeup, WaitRead
  <2>2. CASE writers_waiting > 0
    <3>1. PICK w \in Writers : pc[w] \in {"waiting", "woken"}
      BY <2>2, CountersReadAsSets DEF Contending
    <3>2. writer \/ readers > 0 \/ \E v \in Writers : pc[v] = "woken"
      BY <3>1 DEF LockSound, NoLostWakeup
    <3> QED BY <3>2 DEF LockSound, TypeOK, NoLostWakeup, WaitRead
  <2> QED BY <2>1, <2>2 DEF ReadBlocked
<1> QED BY <1>1, <1>3, <1>4 DEF LockSound

\* The last reader that leaves wakes everybody.
LEMMA ReleaseReadKeeps ==
    ASSUME LockSound, NEW r \in Readers, release_read(r)
    PROVE  LockSound'
<1> USE ThreadsDisjoint DEF Threads, PCs
<1>1. r \in Holding(Readers)
  BY DEF release_read, Holding
<1>2. readers > 0
  BY <1>1, CountersReadAsSets
<1>3. TypeOK'
  BY <1>2 DEF LockSound, TypeOK, release_read, NotifyAll
<1>4. /\ Holding(Readers)' = Holding(Readers) \ {r}
      /\ Holding(Writers)' = Holding(Writers)
      /\ Contending(Writers)' = Contending(Writers)
  BY DEF LockSound, TypeOK, release_read, NotifyAll, Holding, Contending
<1>5. CountersExact'
  BY <1>1, <1>4, CountersReadAsSets, CountOne DEF LockSound, TypeOK, CountersExact, release_read
<1>6. Exclusion'
  BY <1>4 DEF LockSound, Exclusion
<1>7. NoLostWakeup'
  <2>1. CASE readers = 1
    BY <2>1 DEF LockSound, TypeOK, NoLostWakeup, release_read, NotifyAll
  <2>2. CASE readers # 1
    BY <1>2, <2>2 DEF LockSound, TypeOK, NoLostWakeup, release_read
  <2> QED BY <2>1, <2>2
<1> QED BY <1>3, <1>5, <1>6, <1>7 DEF LockSound

\* A writer enters an empty lock, whether it had been counted as waiting
\* (seen) or not; then is the new value of writers_waiting.
LEMMA EnterWriteKeeps ==
    ASSUME LockSound, NEW w \in Writers, pc[w] # "holding", ~WriteBlocked,
           writer' = TRUE, pc' = [pc EXCEPT ![w] = "holding"], readers' = readers,
           writers_waiting' =
               IF w \in Contending(Writers) THEN writers_waiting - 1 ELSE writers_waiting
    PROVE  LockSound'
<1> USE ThreadsDisjoint DEF Threads, PCs
<1>1. /\ Holding(Readers)' = Holding(Readers)
      /\ Holding(Writers)' = Holding(Writers) \cup {w}
      /\ Contending(Writers)' = Contending(Writers) \ {w}
  BY DEF LockSound, TypeOK, Holding, Contending
<1>2. w \in Contending(Writers) => writers_waiting > 0
  BY CountersReadAsSets
<1>3. TypeOK'
  BY <1>2 DEF LockSound, TypeOK
<1>4. writers_waiting' = Cardinality(Contending(Writers)')
  <2>1. CASE w \in Contending(Writers)
    BY <1>1, <2>1, CountersReadAsSets, CountOne DEF LockSound, CountersExact
  <2>2. CASE w \notin Contending(Writers)
    <3>1. Contending(Writers) \ {w} = Contending(Writers)
      BY <2>2
    <3> QED BY <1>1, <2>2, <3>1 DEF LockSound, CountersExact
  <2> QED BY <2>1, <2>2
<1>5. CountersExact'
  BY <1>1, <1>4 DEF LockSound, CountersExact
<1>6. Holding(Readers) = {} /\ Holding(Writers) = {}
  BY CountersReadAsSets DEF LockSound, TypeOK, CountersExact, WriteBlocked
<1>7. Exclusion'
  BY <1>1, <1>6 DEF Exclusion
<1>8. NoLostWakeup'
  BY DEF NoLostWakeup
<1> QED BY <1>3, <1>5, <1>7, <1>8 DEF LockSound

\* A writer goes to sleep only behind a holder, and stays counted.
LEMMA WaitWriteKeeps ==
    ASSUME LockSound, NEW w \in Writers, pc[w] # "holding", WriteBlocked,
           UNCHANGED <<readers, writer>>, pc' = [pc EXCEPT ![w] = "waiting"],
           writers_waiting' =
               IF w \in Contending(Writers) THEN writers_waiting ELSE writers_waiting + 1
    PROVE  LockSound'
<1> USE ThreadsDisjoint DEF Threads, PCs
<1>1. /\ Holding(Readers)' = Holding(Readers)
      /\ Holding(Writers)' = Holding(Writers)
      /\ Contending(Writers)' = Contending(Writers) \cup {w}
  BY DEF LockSound, TypeOK, Holding, Contending
<1>2. TypeOK'
  BY DEF LockSound, TypeOK
<1>3. writers_waiting' = Cardinality(Contending(Writers)')
  <2>1. CASE w \in Contending(Writers)
    <3>1. Contending(Writers) \cup {w} = Contending(Writers)
      BY <2>1
    <3> QED BY <1>1, <2>1, <3>1 DEF LockSound, CountersExact
  <2>2. CASE w \notin Contending(Writers)
    BY <1>1, <2>2, CountersReadAsSets, CountOne DEF LockSound, CountersExact
  <2> QED BY <2>1, <2>2
<1>4. CountersExact' /\ Exclusion'
  BY <1>1, <1>3 DEF LockSound, CountersExact, Exclusion
<1>5. NoLostWakeup'
  BY DEF NoLostWakeup, WriteBlocked
<1> QED BY <1>2, <1>4, <1>5 DEF LockSound

\* The writer that leaves wakes everybody.
LEMMA ReleaseWriteKeeps ==
    ASSUME LockSound, NEW w \in Writers, release_write(w)
    PROVE  LockSound'
<1> USE ThreadsDisjoint DEF Threads, PCs
<1>1. TypeOK'
  BY DEF LockSound, TypeOK, release_write, NotifyAll
<1>2. /\ Holding(Readers)' = Holding(Readers)
      /\ Holding(Writers)' = Holding(Writers) \ {w}
      /\ Contending(Writers)' = Contending(Writers)
  BY DEF LockSound, TypeOK, release_write, NotifyAll, Holding, Contending
<1>3. w \in Holding(Writers)
  BY DEF release_write, Holding
<1>4. Holding(Writers)' = {}
  BY <1>2, <1>3 DEF LockSound, Exclusion
<1>5. CountersExact' /\ Exclusion'
  BY <1>2, <1>4 DEF LockSound, CountersExact, Exclusion, release_write
<1>6. NoLostWakeup'
  BY DEF LockSound, TypeOK, NoLostWakeup, release_write, NotifyAll
<1> QED BY <1>1, <1>5, <1>6 DEF LockSound

\* A writer that waits is counted exactly when the lock's protocol says so.
LEMMA ContendingWriter ==
    ASSUME NEW w \in Writers
    PROVE  w \in Contending(Writers) <=> pc[w] \in {"waiting", "woken"}
BY DEF Contending

LEMMA InitIsSound == Init => LockSound
<1> SUFFICES ASSUME Init PROVE LockSound
  OBVIOUS
<1> USE ThreadsDisjoint DEF Threads, PCs
<1>1. TypeOK
  BY DEF Init, TypeOK
<1>2. Holding(Readers) = {} /\ Holding(Writers) = {} /\ Contending(Writers) = {}
  BY DEF Init, Holding, Contending
<1>3. CountersExact /\ Exclusion
  BY <1>2, FS_EmptySet DEF Init, CountersExact, Exclusion
<1>4. NoLostWakeup
  BY DEF Init, NoLostWakeup
<1> QED BY <1>1, <1>3, <1>4 DEF LockSound

LEMMA NextKeepsSound == LockSound /\ [Next]_vars => LockSound'
<1> SUFFICES ASSUME LockSound, [Next]_vars PROVE LockSound'
  OBVIOUS
<1>1. ASSUME NEW r \in Readers, acquire_read(r) PROVE LockSound'
  BY <1>1, EnterReadKeeps, WaitReadKeeps DEF acquire_read
<1>2. ASSUME NEW r \in Readers, try_acquire_read(r) PROVE LockSound'
  BY <1>2, EnterReadKeeps DEF try_acquire_read
<1>3. ASSUME NEW r \in Readers, release_read(r) PROVE LockSound'
  BY <1>3, ReleaseReadKeeps
<1>4. ASSUME NEW w \in Writers, acquire_write_begin(w) PROVE LockSound'
  <2>1. w \notin Contending(Writers) /\ pc[w] # "holding" /\ readers' = readers
    BY <1>4, ContendingWriter DEF acquire_write_begin
  <2>2. CASE WriteBlocked
    BY <1>4, <2>1, <2>2, WaitWriteKeeps DEF acquire_write_begin
  <2>3. CASE ~WriteBlocked
    BY <1>4, <2>1, <2>3, EnterWriteKeeps DEF acquire_write_begin
  <2> QED BY <2>2, <2>3
<1>5. ASSUME NEW w \in Writers, acquire_write_recheck(w) PROVE LockSound'
  <2>1. w \in Contending(Writers) /\ pc[w] # "holding" /\ readers' = readers
    BY <1>5, ContendingWriter DEF acquire_write_recheck
  <2>2. CASE WriteBlocked
    BY <1>5, <2>1, <2>2, WaitWriteKeeps DEF acquire_write_recheck
  <2>3. CASE ~WriteBlocked
    BY <1>5, <2>1, <2>3, EnterWriteKeeps DEF acquire_write_recheck
  <2> QED BY <2>2, <2>3
<1>6. ASSUME NEW w \in Writers, try_acquire_write(w) PROVE LockSound'
  <2>1. w \notin Contending(Writers) /\ pc[w] # "holding"
    BY <1>6, ContendingWriter DEF try_acquire_write
  <2> QED BY <1>6, <2>1, EnterWriteKeeps DEF try_acquire_write
<1>7. ASSUME NEW w \in Writers, release_write(w) PROVE LockSound'
  BY <1>7, ReleaseWriteKeeps
<1>8. CASE UNCHANGED vars
  BY <1>8 DEF vars, LockSound, TypeOK, CountersExact, Exclusion, NoLostWakeup, Holding, Contending
<1> QED BY <1>1, <1>2, <1>3, <1>4, <1>5, <1>6, <1>7, <1>8 DEF Next

----------------------------------------------------------------------------
(* The theorems *)

\* For every finite number of threads the lock's counters stay exact, a
\* runtime swap never overlaps a tool call, and no sleeping thread is
\* forgotten by the two notify_all calls.
THEOREM LockInvariant ==
    Spec => []LockSound
<1>1. Init => LockSound
  BY InitIsSound
<1>2. LockSound /\ [Next]_vars => LockSound'
  BY NextKeepsSound
<1> QED BY <1>1, <1>2, PTL DEF Spec

\* No step of any thread lets a reader in while a writer contends: the code's
\* docstring calls the lock "writer-preferring".
LEMMA StepPrefersWriters ==
    ASSUME LockSound, [Next]_vars
    PROVE  [\A r \in Readers : (pc[r] # "holding" /\ pc'[r] = "holding")
                                  => Contending(Writers) = {}]_vars
<1> SUFFICES ASSUME Next, NEW r \in Readers, pc[r] # "holding", pc'[r] = "holding"
             PROVE  Contending(Writers) = {}
  OBVIOUS
<1> USE ThreadsDisjoint DEF Threads, PCs
<1>1. ~ReadBlocked => Contending(Writers) = {}
  BY CountersReadAsSets DEF LockSound, TypeOK, ReadBlocked
<1>2. ASSUME NEW q \in Readers, acquire_read(q) \/ try_acquire_read(q) \/ release_read(q)
      PROVE  ~ReadBlocked
  BY <1>2 DEF LockSound, TypeOK, acquire_read, try_acquire_read, release_read, EnterRead,
              WaitRead, NotifyAll
<1>3. ASSUME NEW w \in Writers, \/ acquire_write_begin(w) \/ acquire_write_recheck(w)
                                \/ try_acquire_write(w) \/ release_write(w)
      PROVE  FALSE
  BY <1>3 DEF LockSound, TypeOK, acquire_write_begin, acquire_write_recheck, try_acquire_write,
              release_write, NotifyAll
<1> QED BY <1>1, <1>2, <1>3 DEF Next

\* Writer preference for every number of threads.
THEOREM LockPrefersWriters == Spec => WriterPreferred
<1>1. Init => LockSound
  BY InitIsSound
<1>2. LockSound /\ [Next]_vars => LockSound'
  BY NextKeepsSound
<1>3. LockSound /\ [Next]_vars =>
        [\A r \in Readers : (pc[r] # "holding" /\ pc'[r] = "holding")
                                => Contending(Writers) = {}]_vars
  BY StepPrefersWriters
<1> QED BY <1>1, <1>2, <1>3, PTL DEF Spec, WriterPreferred

----------------------------------------------------------------------------
(* Refinement of RWLock *)

\* What each thread holds, as RWLock sees it.
ModeOf(t) == IF pc[t] # "holding" THEN "none" ELSE IF t \in Readers THEN "read" ELSE "write"

\* A step that changes what one thread holds, and no other, changes RWLock's
\* mode at that thread only.
LEMMA ModeChange ==
    ASSUME NEW t \in Threads, NEW m, TypeOK,
           \A u \in Threads \ {t} : (pc'[u] = "holding") <=> (pc[u] = "holding"),
           m = IF pc'[t] # "holding" THEN "none"
               ELSE IF t \in Readers THEN "read" ELSE "write"
    PROVE  [u \in Threads |-> ModeOf(u)]' = [[u \in Threads |-> ModeOf(u)] EXCEPT ![t] = m]
BY DEF ModeOf

\* Every step of the condition-variable protocol is a step of RWLock or
\* leaves it alone.
LEMMA StepImplements ==
    ASSUME LockSound, [Next]_vars
    PROVE  [Abstract!Next]_([t \in Threads |-> ModeOf(t)])
<1> DEFINE mode == [t \in Threads |-> ModeOf(t)]
<1> USE ThreadsDisjoint DEF Threads, PCs
<1>1. ASSUME NEW r \in Readers, ~ReadBlocked, pc[r] # "holding", EnterRead(r)
      PROVE  Abstract!GrantRead(r)
  <2>1. \A u \in Threads : ModeOf(u) # "write"
    BY <1>1 DEF LockSound, CountersExact, Holding, ReadBlocked, ModeOf
  <2>2. mode' = [mode EXCEPT ![r] = "read"]
    BY <1>1, ModeChange DEF LockSound, TypeOK, EnterRead
  <2> QED BY <1>1, <2>1, <2>2 DEF Abstract!GrantRead, ModeOf
<1>2. ASSUME NEW w \in Writers, ~WriteBlocked, pc[w] # "holding",
             pc' = [pc EXCEPT ![w] = "holding"]
      PROVE  Abstract!GrantWrite(w)
  <2>1. Holding(Readers) = {} /\ Holding(Writers) = {}
    BY <1>2, CountersReadAsSets DEF LockSound, TypeOK, CountersExact, WriteBlocked
  <2>2. \A u \in Threads : ModeOf(u) = "none"
    BY <2>1 DEF Holding, ModeOf
  <2>3. mode' = [mode EXCEPT ![w] = "write"]
    BY <1>2, ModeChange DEF LockSound, TypeOK
  <2> QED BY <2>2, <2>3 DEF Abstract!GrantWrite, ModeOf
<1>3. ASSUME NEW t \in Threads, pc[t] = "holding", pc'[t] = "idle",
             \A u \in Threads \ {t} : (pc'[u] = "holding") <=> (pc[u] = "holding")
      PROVE  Abstract!Release(t)
  <2>1. mode' = [mode EXCEPT ![t] = "none"]
    BY <1>3, ModeChange DEF LockSound
  <2> QED BY <1>3, <2>1 DEF Abstract!Release, ModeOf
<1>4. ASSUME \A u \in Threads : (pc'[u] = "holding") <=> (pc[u] = "holding")
      PROVE  mode' = mode
  BY <1>4 DEF ModeOf
<1>5. ASSUME NEW r \in Readers, acquire_read(r) \/ try_acquire_read(r)
      PROVE  mode' = mode \/ Abstract!GrantRead(r)
  BY <1>1, <1>4, <1>5 DEF LockSound, TypeOK, acquire_read, try_acquire_read, WaitRead
<1>6. ASSUME NEW r \in Readers, release_read(r)
      PROVE  Abstract!Release(r)
  BY <1>3, <1>6 DEF LockSound, TypeOK, release_read, NotifyAll
<1>7. ASSUME NEW w \in Writers, acquire_write_begin(w) \/ acquire_write_recheck(w)
      PROVE  mode' = mode \/ Abstract!GrantWrite(w)
  BY <1>2, <1>4, <1>7 DEF LockSound, TypeOK, acquire_write_begin, acquire_write_recheck
<1>8. ASSUME NEW w \in Writers, try_acquire_write(w)
      PROVE  Abstract!GrantWrite(w)
  BY <1>2, <1>8 DEF try_acquire_write
<1>9. ASSUME NEW w \in Writers, release_write(w)
      PROVE  Abstract!Release(w)
  BY <1>3, <1>9 DEF LockSound, TypeOK, release_write, NotifyAll
<1>10. CASE UNCHANGED vars
  BY <1>4, <1>10 DEF vars
<1> QED BY <1>5, <1>6, <1>7, <1>8, <1>9, <1>10 DEF Next, Abstract!Next

\* _ThreadRWLock implements RWLock, for every finite number of threads: what
\* SessionCallGate relies on when it uses the lock at that level.
THEOREM LockImplementsRWLock == Spec => ImplementsRWLock
<1>1. Init => LockSound
  BY InitIsSound
<1>2. LockSound /\ [Next]_vars => LockSound'
  BY NextKeepsSound
<1>3. Init => Abstract!Init
  BY DEF Init, Abstract!Init
<1>4. LockSound /\ [Next]_vars => [Abstract!Next]_([t \in Threads |-> ModeOf(t)])
  BY StepImplements
<1> QED BY <1>1, <1>2, <1>3, <1>4, PTL DEF Spec, ImplementsRWLock, Abstract!Spec, ModeOf
=============================================================================
