----------------------- MODULE ComputeOperationsProofs -----------------------
(***************************************************************************)
(* Proofs about SessionCallGate and about ComputeOperations, which runs    *)
(* its operations through the gate: the gate first, for its own            *)
(* specification, since every step of the operations is a step of the gate *)
(* or leaves it alone; then the operations.                                *)
(***************************************************************************)
EXTENDS ComputeOperations, FiniteSetTheorems, WellFoundedInduction, TLAPS

(***************************************************************************)
(* The gate, for every set of sessions, calls and maintenance threads: no  *)
(* reader leaks, a body has its session alone, a reservation lasts from    *)
(* submission to release, and maintenance overlaps neither bodies nor, in  *)
(* its non-waiting form, reservations.                                     *)
(***************************************************************************)

\* A body owns its session's lock.
BodyHasLock == \A c \in Calls : pc[c] = "body" => locked[SessionOf[c]]

\* The lock is handed to the first waiter only, and stays free until it runs.
GrantedIsFirst ==
    \A c \in Calls : pc[c] = "granted" =>
        /\ ~locked[SessionOf[c]]
        /\ waiters[SessionOf[c]] # <<>> /\ Head(waiters[SessionOf[c]]) = c

\* A call that waits is in the queue of its own session.
WaitersListed ==
    \A c \in Calls : pc[c] \in InLockQueue =>
        \E i \in DOMAIN waiters[SessionOf[c]] : waiters[SessionOf[c]][i] = c
WaitersOwn ==
    \A s \in Sessions : \A i \in DOMAIN waiters[s] : SessionOf[waiters[s][i]] = s

LockInv ==
    /\ BodyHasLock /\ OneBodyPerSession
    /\ GrantedIsFirst /\ WaitersListed /\ WaitersOwn

\* A writer has found no reader, and no other writer; maintenance that asked
\* not to wait does not, so whoever enters after waiting is a blocking one.
WriterAlone ==
    /\ \A m \in Updaters : maint[m] = "writing" =>
        /\ readers = 0
        /\ \A n \in Updaters \ {m} : maint[n] # "writing"
    /\ \A m \in Maintainers : maint[m] # "waiting"

\* The inductive invariant.  OneBodyPerSession needs the state of the lock and
\* of its queue, because a body is entered in three ways: the lock was free,
\* it was handed over, or it was handed to a call that gave it on.
IInv ==
    /\ GateTypeOK /\ ReadersExact /\ LockInv
    /\ ReservationExclusive /\ WriterAlone /\ NoSwapInHandoff

----------------------------------------------------------------------------
(* The calls that hold the read side, counted *)

\* What a step of c may do to the other calls: wake the one that waits.
Frame(c) ==
    \A d \in Calls \ {c} : pc'[d] = pc[d] \/ (pc[d] = "queued" /\ pc'[d] = "granted")

\* A call that holds the read side is counted, and keeps writers out.
LEMMA HolderCounted ==
    ASSUME IInv, NEW c \in Calls, pc[c] \in HoldsRead
    PROVE  readers > 0 /\ ~Writing
<1> DEFINE H == {d \in Calls : pc[d] \in HoldsRead}
<1>1. IsFiniteSet(H)
  BY CallsFinite, FS_Subset
<1>2. c \in H
  OBVIOUS
<1>3. Cardinality(H) # 0
  BY <1>1, <1>2, FS_EmptySet
<1>4. readers > 0
  BY <1>3 DEF IInv, GateTypeOK, ReadersExact
<1> QED BY <1>4 DEF IInv, WriterAlone, Writing

\* readers follows the one call that moves: the steps readers + 1 and
\* readers - 1 of acquire_read and release_read.
LEMMA CountKeeps ==
    ASSUME IInv, NEW c \in Calls, Frame(c), pc' \in [Calls -> PCs],
           \/ pc[c] \in HoldsRead /\ pc'[c] \in HoldsRead /\ readers' = readers
           \/ pc[c] \notin HoldsRead /\ pc'[c] \notin HoldsRead /\ readers' = readers
           \/ pc[c] \notin HoldsRead /\ pc'[c] \in HoldsRead /\ readers' = readers + 1
           \/ pc[c] \in HoldsRead /\ pc'[c] \notin HoldsRead /\ readers' = readers - 1
    PROVE  ReadersExact' /\ readers' \in Nat
<1> DEFINE H == {d \in Calls : pc[d] \in HoldsRead}
<1> DEFINE K == {d \in Calls : pc'[d] \in HoldsRead}
<1>1. IsFiniteSet(H)
  BY CallsFinite, FS_Subset
<1>2. \A d \in Calls \ {c} : d \in H <=> d \in K
  BY DEF Frame, HoldsRead, InLockQueue
<1>3. readers = Cardinality(H) /\ readers \in Nat
  BY DEF IInv, GateTypeOK, ReadersExact
<1>4. CASE (pc[c] \in HoldsRead) <=> (pc'[c] \in HoldsRead)
  <2>1. H = K
    BY <1>2, <1>4
  <2> QED BY <1>3, <1>4, <2>1 DEF ReadersExact
<1>5. CASE pc[c] \notin HoldsRead /\ pc'[c] \in HoldsRead
  <2>1. K = H \cup {c} /\ c \notin H
    BY <1>2, <1>5
  <2>2. Cardinality(K) = Cardinality(H) + 1
    BY <1>1, <2>1, FS_AddElement
  <2> QED BY <1>3, <1>5, <2>2 DEF ReadersExact
<1>6. CASE pc[c] \in HoldsRead /\ pc'[c] \notin HoldsRead
  <2>1. K = H \ {c} /\ c \in H
    BY <1>2, <1>6
  <2>2. Cardinality(K) = Cardinality(H) - 1
    BY <1>1, <2>1, FS_RemoveElement
  <2>3. readers > 0
    BY <1>6, HolderCounted
  <2> QED BY <1>3, <1>6, <2>2, <2>3 DEF ReadersExact
<1> QED BY <1>4, <1>5, <1>6

----------------------------------------------------------------------------
(* The line in front of a session's lock *)

Listed(d, q) == \E i \in DOMAIN q : q[i] = d

\* q is what c leaves of its session's line: everybody else is still in it,
\* and a call the lock was handed to is still its first.
KeepsLine(c, q) ==
    /\ q \in Seq(Calls)
    /\ \A d \in Calls \ {c} : Listed(d, waiters[SessionOf[c]]) => Listed(d, q)
    /\ \A i \in DOMAIN q : SessionOf[q[i]] = SessionOf[c]
    /\ \A d \in Calls \ {c} :
        pc[d] = "granted" /\ SessionOf[d] = SessionOf[c] => q # <<>> /\ Head(q) = d

\* Without removes one place of a sequence and keeps the others in order.
LEMMA WithoutRemoves ==
    ASSUME NEW q \in Seq(Calls), NEW c \in Calls, Listed(c, q)
    PROVE  /\ Without(q, c) \in Seq(Calls)
           /\ \A d \in Calls \ {c} : Listed(d, q) => Listed(d, Without(q, c))
           /\ \A i \in DOMAIN Without(q, c) : \E j \in DOMAIN q : Without(q, c)[i] = q[j]
           /\ \A d \in Calls \ {c} :
                q # <<>> /\ Head(q) = d => Without(q, c) # <<>> /\ Head(Without(q, c)) = d
<1> DEFINE k == CHOOSE i \in DOMAIN q : q[i] = c
<1> DEFINE r == Without(q, c)
<1>1. k \in DOMAIN q /\ q[k] = c
  BY DEF Listed
<1>2. Len(q) \in Nat /\ DOMAIN q = 1 .. Len(q) /\ k \in 1 .. Len(q)
  BY <1>1
<1>3. r = [i \in 1 .. Len(q) - 1 |-> IF i < k THEN q[i] ELSE q[i + 1]]
  BY DEF Without
<1> HIDE DEF k, r
<1>4. \A i \in 1 .. Len(q) - 1 : r[i] = IF i < k THEN q[i] ELSE q[i + 1]
  BY <1>3
<1>5. \A i \in 1 .. Len(q) - 1 : r[i] \in Calls /\ \E j \in DOMAIN q : r[i] = q[j]
  BY <1>2, <1>4
<1>6. r \in Seq(Calls) /\ Len(r) = Len(q) - 1 /\ DOMAIN r = 1 .. Len(q) - 1
  BY <1>2, <1>3, <1>5
<1>7. ASSUME NEW d \in Calls \ {c}, Listed(d, q)
      PROVE  Listed(d, r)
  <2>1. PICK i \in 1 .. Len(q) : q[i] = d
    BY <1>2, <1>7 DEF Listed
  <2>2. i # k
    BY <1>1, <2>1
  <2>3. CASE i < k
    <3>1. i \in 1 .. Len(q) - 1 /\ r[i] = d
      BY <1>2, <1>4, <2>1, <2>3
    <3> QED BY <1>6, <3>1 DEF Listed
  <2>4. CASE i > k
    <3>1. i - 1 \in 1 .. Len(q) - 1 /\ ~(i - 1 < k) /\ (i - 1) + 1 = i
      BY <1>2, <2>4
    <3>2. r[i - 1] = d
      BY <1>4, <2>1, <3>1
    <3> QED BY <1>6, <3>1, <3>2 DEF Listed
  <2> QED BY <1>2, <2>2, <2>3, <2>4
<1>8. ASSUME NEW d \in Calls \ {c}, q # <<>>, Head(q) = d
      PROVE  r # <<>> /\ Head(r) = d
  <2>1. q[1] = d /\ k # 1
    BY <1>1, <1>8
  <2>2. 1 \in 1 .. Len(q) - 1 /\ 1 < k
    BY <1>2, <2>1
  <2>3. r[1] = d
    BY <1>4, <2>1, <2>2
  <2> QED BY <1>6, <2>2, <2>3
<1> QED BY <1>5, <1>6, <1>7, <1>8 DEF r

\* A call that only passes by leaves the line as it is ...
LEMMA LineItself ==
    ASSUME IInv, NEW c \in Calls
    PROVE  KeepsLine(c, waiters[SessionOf[c]])
BY CallsTyped DEF IInv, GateTypeOK, LockInv, GrantedIsFirst, WaitersOwn, KeepsLine

\* ... and one that was in it takes only itself out.
LEMMA LineWithout ==
    ASSUME IInv, NEW c \in Calls, pc[c] \in InLockQueue
    PROVE  KeepsLine(c, Without(waiters[SessionOf[c]], c))
<1> DEFINE q == waiters[SessionOf[c]]
<1>1. q \in Seq(Calls) /\ Listed(c, q) /\ SessionOf[c] \in Sessions
  BY CallsTyped DEF IInv, GateTypeOK, LockInv, WaitersListed, Listed
<1>2. \A j \in DOMAIN q : SessionOf[q[j]] = SessionOf[c]
  BY <1>1 DEF IInv, LockInv, WaitersOwn
<1>3. \A d \in Calls \ {c} :
        pc[d] = "granted" /\ SessionOf[d] = SessionOf[c] => q # <<>> /\ Head(q) = d
  BY DEF IInv, LockInv, GrantedIsFirst
<1> HIDE DEF q
<1>4. KeepsLine(c, Without(q, c))
  <2>1. /\ Without(q, c) \in Seq(Calls)
        /\ \A d \in Calls \ {c} : Listed(d, q) => Listed(d, Without(q, c))
        /\ \A i \in DOMAIN Without(q, c) : \E j \in DOMAIN q : Without(q, c)[i] = q[j]
        /\ \A d \in Calls \ {c} :
             q # <<>> /\ Head(q) = d => Without(q, c) # <<>> /\ Head(Without(q, c)) = d
    BY <1>1, WithoutRemoves
  <2>2. \A i \in DOMAIN Without(q, c) : SessionOf[Without(q, c)[i]] = SessionOf[c]
    BY <1>2, <2>1
  <2> QED BY <1>3, <2>1, <2>2 DEF KeepsLine, q
<1> QED BY <1>4 DEF q

----------------------------------------------------------------------------
(* What the steps do to the locks *)

LockTypes ==
    /\ locked \in [Sessions -> BOOLEAN]
    /\ waiters \in [Sessions -> Seq(Calls)]
    /\ pc \in [Calls -> PCs]

\* c moves without touching its session's lock.
LEMMA MoveKeeps ==
    ASSUME IInv, NEW c \in Calls, NEW x \in PCs, pc' = [pc EXCEPT ![c] = x],
           x \notin {"body", "granted", "queued"} \/ x = pc[c],
           x = "leaving" => pc[c] \in InLockQueue,
           UNCHANGED <<locked, waiters>>
    PROVE  LockInv' /\ LockTypes' /\ Frame(c)
<1>1. LockTypes' /\ Frame(c)
  BY DEF IInv, GateTypeOK, LockTypes, Frame
<1>2. BodyHasLock' /\ OneBodyPerSession'
  BY DEF IInv, GateTypeOK, LockInv, BodyHasLock, OneBodyPerSession
<1>3. pc \in [Calls -> PCs] /\ \A d \in Calls \ {c} : pc'[d] = pc[d]
  BY DEF IInv, GateTypeOK
<1>4. GrantedIsFirst' /\ WaitersOwn'
  BY <1>3 DEF IInv, LockInv, GrantedIsFirst, WaitersOwn
<1>5. WaitersListed'
  BY <1>3 DEF IInv, LockInv, WaitersListed, InLockQueue
<1> QED BY <1>1, <1>2, <1>4, <1>5 DEF LockInv

\* c leaves the lock free and wakes the first in line.
LEMMA LeaveKeeps ==
    ASSUME IInv, NEW c \in Calls, NEW x \in PCs \ (InLockQueue \cup {"body"}), NEW q,
           KeepsLine(c, q), pc[c] = "body" \/ ~locked[SessionOf[c]],
           LeaveLock(c, x, q)
    PROVE  LockInv' /\ LockTypes' /\ Frame(c) /\ pc'[c] = x
<1> USE CallsTyped
<1> DEFINE s == SessionOf[c]
<1>1. /\ s \in Sessions /\ locked' = [locked EXCEPT ![s] = FALSE]
      /\ waiters' = [waiters EXCEPT ![s] = q] /\ q \in Seq(Calls)
  BY DEF LeaveLock, KeepsLine
<1>2. LockTypes' /\ Frame(c) /\ pc'[c] = x
  <2>1. Frame(c) /\ pc'[c] = x
    BY DEF LeaveLock, Frame
  <2>2. pc' \in [Calls -> PCs]
    BY DEF IInv, GateTypeOK, LeaveLock, PCs
  <2> QED BY <1>1, <2>1, <2>2 DEF IInv, GateTypeOK, LockTypes
<1>3. \A d \in Calls : pc'[d] = "body" => pc[d] = "body" /\ d # c /\ SessionOf[d] # s
  BY <1>2 DEF Frame, IInv, LockInv, BodyHasLock, OneBodyPerSession
<1>4. BodyHasLock'
  BY <1>1, <1>3 DEF IInv, GateTypeOK, LockInv, BodyHasLock
<1>5. OneBodyPerSession'
  BY <1>3 DEF IInv, LockInv, OneBodyPerSession
<1>6. WaitersOwn'
  BY <1>1 DEF IInv, GateTypeOK, LockInv, WaitersOwn, KeepsLine
<1>7. WaitersListed'
  <2> SUFFICES ASSUME NEW d \in Calls, pc'[d] \in InLockQueue
               PROVE  Listed(d, waiters'[SessionOf[d]])
    BY DEF WaitersListed, Listed
  <2>1. d # c /\ pc[d] \in InLockQueue
    BY <1>2 DEF Frame, InLockQueue
  <2>2. Listed(d, waiters[SessionOf[d]])
    BY <2>1 DEF IInv, LockInv, WaitersListed, Listed
  <2>3. CASE SessionOf[d] = s
    BY <1>1, <2>1, <2>2, <2>3 DEF KeepsLine, IInv, GateTypeOK
  <2>4. CASE SessionOf[d] # s
    BY <1>1, <2>2, <2>4 DEF IInv, GateTypeOK
  <2> QED BY <2>3, <2>4
<1>8. GrantedIsFirst'
  <2> SUFFICES ASSUME NEW d \in Calls, pc'[d] = "granted"
               PROVE  /\ ~locked'[SessionOf[d]]
                      /\ waiters'[SessionOf[d]] # <<>> /\ Head(waiters'[SessionOf[d]]) = d
    BY DEF GrantedIsFirst
  <2>1. d # c
    BY <1>2 DEF InLockQueue
  <2>2. CASE pc[d] = "granted"
    <3>1. /\ ~locked[SessionOf[d]]
          /\ waiters[SessionOf[d]] # <<>> /\ Head(waiters[SessionOf[d]]) = d
      BY <2>2 DEF IInv, LockInv, GrantedIsFirst
    <3>2. SessionOf[d] = s => q # <<>> /\ Head(q) = d
      BY <2>1, <2>2 DEF KeepsLine
    <3> QED BY <1>1, <3>1, <3>2 DEF IInv, GateTypeOK
  <2>3. CASE pc[d] # "granted"
    <3>1. q # <<>> /\ d = Head(q)
      BY <2>1, <2>3 DEF LeaveLock
    <3>2. SessionOf[d] = s
      <4>1. 1 \in DOMAIN q /\ Head(q) = q[1]
        BY <1>1, <3>1
      <4> QED BY <3>1, <4>1 DEF KeepsLine
    <3> QED BY <1>1, <3>1, <3>2 DEF IInv, GateTypeOK
  <2> QED BY <2>2, <2>3
<1> QED BY <1>2, <1>4, <1>5, <1>6, <1>7, <1>8 DEF LockInv

\* c enters its body: the lock is free and nobody else is on its way to it.
LEMMA EnterKeeps ==
    ASSUME IInv, NEW c \in Calls, NEW q, KeepsLine(c, q), ~locked[SessionOf[c]],
           \A d \in Calls \ {c} : pc[d] = "granted" => SessionOf[d] # SessionOf[c],
           locked' = [locked EXCEPT ![SessionOf[c]] = TRUE],
           waiters' = [waiters EXCEPT ![SessionOf[c]] = q],
           pc' = [pc EXCEPT ![c] = "body"]
    PROVE  LockInv' /\ LockTypes' /\ Frame(c) /\ pc'[c] = "body"
<1> USE CallsTyped
<1> DEFINE s == SessionOf[c]
<1>1. s \in Sessions /\ q \in Seq(Calls)
  BY DEF KeepsLine
<1>2. LockTypes' /\ Frame(c) /\ pc'[c] = "body"
  BY <1>1 DEF IInv, GateTypeOK, LockTypes, Frame, PCs
<1>3. \A d \in Calls : pc'[d] = "body" => d = c \/ (pc[d] = "body" /\ SessionOf[d] # s)
  BY <1>2 DEF Frame, IInv, LockInv, BodyHasLock
<1>4. BodyHasLock'
  BY <1>1, <1>3 DEF IInv, GateTypeOK, LockInv, BodyHasLock
<1>5. OneBodyPerSession'
  BY <1>3 DEF IInv, LockInv, OneBodyPerSession
<1>6. WaitersOwn'
  BY <1>1 DEF IInv, GateTypeOK, LockInv, WaitersOwn, KeepsLine
<1>7. \A d \in Calls : pc'[d] \in InLockQueue => d # c /\ pc[d] = pc'[d]
  BY DEF IInv, GateTypeOK, InLockQueue
<1>8. WaitersListed'
  <2> SUFFICES ASSUME NEW d \in Calls, pc'[d] \in InLockQueue
               PROVE  Listed(d, waiters'[SessionOf[d]])
    BY DEF WaitersListed, Listed
  <2>1. d # c /\ Listed(d, waiters[SessionOf[d]])
    BY <1>7 DEF IInv, LockInv, WaitersListed, Listed
  <2>2. CASE SessionOf[d] = s
    BY <1>1, <2>1, <2>2 DEF KeepsLine, IInv, GateTypeOK
  <2>3. CASE SessionOf[d] # s
    BY <1>1, <2>1, <2>3 DEF IInv, GateTypeOK
  <2> QED BY <2>2, <2>3
<1>9. GrantedIsFirst'
  <2> SUFFICES ASSUME NEW d \in Calls, pc'[d] = "granted"
               PROVE  /\ ~locked'[SessionOf[d]]
                      /\ waiters'[SessionOf[d]] # <<>> /\ Head(waiters'[SessionOf[d]]) = d
    BY DEF GrantedIsFirst
  <2>1. pc[d] = "granted" /\ d # c /\ SessionOf[d] # s
    BY <1>7 DEF InLockQueue
  <2> QED BY <1>1, <2>1 DEF IInv, GateTypeOK, LockInv, GrantedIsFirst
<1> QED BY <1>2, <1>4, <1>5, <1>6, <1>8, <1>9 DEF LockInv

\* c joins the end of the line.
LEMMA QueueKeeps ==
    ASSUME IInv, NEW c \in Calls, pc[c] \notin InLockQueue \cup {"body"},
           waiters' = [waiters EXCEPT ![SessionOf[c]] = Append(@, c)],
           pc' = [pc EXCEPT ![c] = "queued"], locked' = locked
    PROVE  LockInv' /\ LockTypes' /\ Frame(c) /\ pc'[c] = "queued"
<1> USE CallsTyped
<1> DEFINE s == SessionOf[c]
<1> DEFINE w == waiters[s]
<1>1. s \in Sessions /\ w \in Seq(Calls)
  BY DEF IInv, GateTypeOK
<1>2. /\ Append(w, c) \in Seq(Calls) /\ Append(w, c) # <<>>
      /\ DOMAIN Append(w, c) = 1 .. Len(w) + 1 /\ Append(w, c)[Len(w) + 1] = c
      /\ \A i \in DOMAIN w : i \in DOMAIN Append(w, c) /\ Append(w, c)[i] = w[i]
      /\ \A i \in DOMAIN Append(w, c) : i \in DOMAIN w \/ Append(w, c)[i] = c
      /\ w # <<>> => Head(Append(w, c)) = Head(w)
  BY <1>1
<1>3. waiters' = [waiters EXCEPT ![s] = Append(w, c)]
  BY <1>1 DEF IInv, GateTypeOK
<1>4. LockTypes' /\ Frame(c) /\ pc'[c] = "queued"
  BY <1>1, <1>2, <1>3 DEF IInv, GateTypeOK, LockTypes, Frame, PCs
<1>5. BodyHasLock' /\ OneBodyPerSession'
  BY DEF IInv, GateTypeOK, LockInv, BodyHasLock, OneBodyPerSession
<1>6. WaitersOwn'
  BY <1>1, <1>2, <1>3 DEF IInv, GateTypeOK, LockInv, WaitersOwn
<1>7. WaitersListed'
  <2> SUFFICES ASSUME NEW d \in Calls, pc'[d] \in InLockQueue
               PROVE  \E i \in DOMAIN waiters'[SessionOf[d]] : waiters'[SessionOf[d]][i] = d
    BY DEF WaitersListed
  <2>1. CASE d = c
    <3>1. Len(w) + 1 \in DOMAIN waiters'[s] /\ waiters'[s][Len(w) + 1] = c
      BY <1>1, <1>2, <1>3 DEF IInv, GateTypeOK
    <3> QED BY <2>1, <3>1
  <2>2. CASE d # c
    <3>1. PICK i \in DOMAIN waiters[SessionOf[d]] : waiters[SessionOf[d]][i] = d
      BY <2>2 DEF IInv, GateTypeOK, LockInv, WaitersListed
    <3>2. i \in DOMAIN waiters'[SessionOf[d]] /\ waiters'[SessionOf[d]][i] = d
      BY <1>1, <1>2, <1>3, <3>1 DEF IInv, GateTypeOK
    <3> QED BY <3>2
  <2> QED BY <2>1, <2>2
<1>8. GrantedIsFirst'
  BY <1>1, <1>2, <1>3 DEF IInv, GateTypeOK, LockInv, GrantedIsFirst
<1> QED BY <1>4, <1>5, <1>6, <1>7, <1>8 DEF LockInv

\* c leaves the line of a lock that is taken.
LEMMA GiveUpKeeps ==
    ASSUME IInv, NEW c \in Calls, NEW q, KeepsLine(c, q), locked[SessionOf[c]],
           pc[c] # "body",
           waiters' = [waiters EXCEPT ![SessionOf[c]] = q],
           pc' = [pc EXCEPT ![c] = "done"], locked' = locked
    PROVE  LockInv' /\ LockTypes' /\ Frame(c) /\ pc'[c] = "done"
<1> USE CallsTyped
<1>1. SessionOf[c] \in Sessions /\ q \in Seq(Calls)
  BY DEF KeepsLine
<1>2. LockTypes' /\ Frame(c) /\ pc'[c] = "done"
  BY <1>1 DEF IInv, GateTypeOK, LockTypes, Frame, PCs
<1>3. BodyHasLock' /\ OneBodyPerSession'
  BY DEF IInv, GateTypeOK, LockInv, BodyHasLock, OneBodyPerSession
<1>4. WaitersOwn'
  BY <1>1 DEF IInv, GateTypeOK, LockInv, WaitersOwn, KeepsLine
<1>5. WaitersListed'
  <2> SUFFICES ASSUME NEW d \in Calls, pc'[d] \in InLockQueue
               PROVE  Listed(d, waiters'[SessionOf[d]])
    BY DEF WaitersListed, Listed
  <2>1. d # c /\ Listed(d, waiters[SessionOf[d]])
    BY <1>2 DEF IInv, GateTypeOK, LockInv, WaitersListed, Listed, InLockQueue
  <2>2. CASE SessionOf[d] = SessionOf[c]
    BY <1>1, <2>1, <2>2 DEF KeepsLine, IInv, GateTypeOK
  <2>3. CASE SessionOf[d] # SessionOf[c]
    BY <1>1, <2>1, <2>3 DEF IInv, GateTypeOK
  <2> QED BY <2>2, <2>3
<1>6. GrantedIsFirst'
  BY <1>1 DEF IInv, GateTypeOK, LockInv, GrantedIsFirst
<1> QED BY <1>2, <1>3, <1>4, <1>5, <1>6 DEF LockInv

----------------------------------------------------------------------------
(* What the steps do to the reservations *)

\* Nothing but the places of calls changes, and nobody enters a body.
LEMMA ReservationKept ==
    ASSUME IInv, NEW c \in Calls, Frame(c), UNCHANGED <<operation_id, running>>,
           pc'[c] = "body" => pc[c] = "body",
           pc[c] \in {"finishing", "done"} => pc'[c] \in {"finishing", "done"}
    PROVE  ReservationExclusive'
<1>1. \A d \in Calls : pc'[d] = "body" => pc[d] = "body"
  BY DEF Frame
<1>2. \A d \in Calls : pc[d] \in {"finishing", "done"} => pc'[d] \in {"finishing", "done"}
  BY DEF Frame
<1>3. Background \subseteq Calls
  BY DEF Calls
<1> QED BY <1>1, <1>2, <1>3 DEF IInv, ReservationExclusive, Admitting

\* A body is entered by the owner of the session's reservation, or where there
\* is none.
LEMMA ReservationEntered ==
    ASSUME IInv, NEW c \in Calls, ~Refused(c), ~locked[SessionOf[c]],
           pc' = [pc EXCEPT ![c] = "body"], running' = running,
           IF c \in Background /\ ~running[c]
           THEN operation_id' = [operation_id EXCEPT ![SessionOf[c]] = c]
           ELSE operation_id' = operation_id
    PROVE  ReservationExclusive' /\ operation_id' \in [Sessions -> Background \cup {None}]
<1> USE CallsTyped
<1> DEFINE s == SessionOf[c]
<1>1. s \in Sessions /\ operation_id' \in [Sessions -> Background \cup {None}]
  <2>1. s \in Sessions /\ operation_id \in [Sessions -> Background \cup {None}]
    BY DEF IInv, GateTypeOK
  <2>2. CASE c \in Background /\ ~running[c]
    BY <2>1, <2>2
  <2>3. CASE ~(c \in Background /\ ~running[c])
    BY <2>1, <2>3
  <2> QED BY <2>1, <2>2, <2>3
<1>2. \A d \in Calls \ {c} : SessionOf[d] = s => pc[d] # "body"
  BY DEF IInv, LockInv, BodyHasLock
<1>3. \A d \in Calls \ {c} : pc'[d] = pc[d]
  BY DEF IInv, GateTypeOK
<1>4. operation_id[s] \in {c, None} /\ (operation_id[s] = c => running[c])
  BY DEF Refused
<1>5. ASSUME NEW d \in Background,
             (Admitting(d) \/ (running[d] /\ pc[d] \notin {"finishing", "done"}))'
      PROVE  /\ operation_id'[SessionOf[d]] = d
             /\ \A e \in Calls \ {d} : SessionOf[e] = SessionOf[d] => pc'[e] # "body"
  <2>1. d \in Calls /\ d # None
    BY DEF Calls
  <2>2. CASE d = c
    <3>1. operation_id'[s] = c
      <4>1. CASE running[c]
        BY <4>1, <2>2 DEF Refused
      <4>2. CASE ~running[c]
        BY <1>1, <4>2, <2>2 DEF IInv, GateTypeOK
      <4> QED BY <4>1, <4>2
    <3> QED BY <1>2, <1>3, <2>2, <3>1
  <2>3. CASE d # c
    <3>1. Admitting(d) \/ (running[d] /\ pc[d] \notin {"finishing", "done"})
      BY <1>3, <1>5, <2>1, <2>3 DEF Admitting
    <3>2. /\ operation_id[SessionOf[d]] = d
          /\ \A e \in Calls \ {d} : SessionOf[e] = SessionOf[d] => pc[e] # "body"
      BY <3>1 DEF IInv, ReservationExclusive
    <3>3. SessionOf[d] # s
      BY <1>4, <2>1, <2>3, <3>2
    <3>4. operation_id'[SessionOf[d]] = operation_id[SessionOf[d]]
      BY <1>1, <2>1, <3>3 DEF IInv, GateTypeOK
    <3>5. \A e \in Calls \ {d} : SessionOf[e] = SessionOf[d] => e # c
      BY <3>3
    <3> QED BY <1>3, <3>2, <3>4, <3>5
  <2> QED BY <2>2, <2>3
<1> QED BY <1>1, <1>5 DEF ReservationExclusive

\* A reservation is given back by its owner, on its way out.
LEMMA ReservationReleased ==
    ASSUME IInv, NEW c \in Background, Frame(c), operation_id[SessionOf[c]] = c,
           pc'[c] \in {"finishing", "done"}, running' = running,
           operation_id' = [operation_id EXCEPT ![SessionOf[c]] = None]
    PROVE  ReservationExclusive' /\ operation_id' \in [Sessions -> Background \cup {None}]
<1> USE CallsTyped
<1>1. c \in Calls /\ SessionOf[c] \in Sessions
  BY DEF Calls
<1>2. operation_id' \in [Sessions -> Background \cup {None}]
  BY <1>1 DEF IInv, GateTypeOK
<1>3. \A d \in Calls : pc'[d] = "body" => pc[d] = "body"
  BY DEF Frame
<1>4. ASSUME NEW d \in Background,
             (Admitting(d) \/ (running[d] /\ pc[d] \notin {"finishing", "done"}))'
      PROVE  /\ operation_id'[SessionOf[d]] = d
             /\ \A e \in Calls \ {d} : SessionOf[e] = SessionOf[d] => pc'[e] # "body"
  <2>1. d \in Calls /\ d # c
    BY <1>4 DEF Calls, Admitting
  <2>2. Admitting(d) \/ (running[d] /\ pc[d] \notin {"finishing", "done"})
    BY <1>4, <2>1 DEF Admitting, Frame
  <2>3. /\ operation_id[SessionOf[d]] = d
        /\ \A e \in Calls \ {d} : SessionOf[e] = SessionOf[d] => pc[e] # "body"
    BY <2>2 DEF IInv, ReservationExclusive
  <2> QED BY <1>1, <1>3, <2>1, <2>3 DEF IInv, GateTypeOK
<1> QED BY <1>2, <1>4 DEF ReservationExclusive

\* submit leaves, and its reservation becomes the worker's.
LEMMA ReservationHandedOff ==
    ASSUME IInv, NEW c \in Background, Frame(c), Admitting(c), pc'[c] = "handoff",
           running' = [running EXCEPT ![c] = TRUE], operation_id' = operation_id
    PROVE  ReservationExclusive'
<1>1. Background \subseteq Calls
  BY DEF Calls
<1>2. \A d \in Calls : pc'[d] = "body" => pc[d] = "body"
  BY DEF Frame
<1>3. \A d \in Background : d # c =>
        /\ running'[d] = running[d]
        /\ pc'[d] = "body" => pc[d] = "body"
        /\ pc'[d] \notin {"finishing", "done"} => pc[d] \notin {"finishing", "done"}
  BY <1>1 DEF IInv, GateTypeOK, Frame
<1>4. ASSUME NEW d \in Background,
             (Admitting(d) \/ (running[d] /\ pc[d] \notin {"finishing", "done"}))'
      PROVE  /\ operation_id[SessionOf[d]] = d
             /\ \A e \in Calls \ {d} : SessionOf[e] = SessionOf[d] => pc'[e] # "body"
  <2>1. Admitting(d) \/ (running[d] /\ pc[d] \notin {"finishing", "done"})
    BY <1>3, <1>4 DEF Admitting
  <2> QED BY <1>2, <2>1 DEF IInv, ReservationExclusive
<1> QED BY <1>4 DEF ReservationExclusive

----------------------------------------------------------------------------
(* The calls *)

\* A step of a call disturbs no writer: there is none, or nothing it looked at
\* changes.
LEMMA WritersKept ==
    ASSUME IInv, maint' = maint,
           \/ ~Writing
           \/ /\ readers' = readers
              /\ \/ operation_id' = operation_id
                 \/ \E s \in Sessions : operation_id' = [operation_id EXCEPT ![s] = None]
    PROVE  WriterAlone' /\ NoSwapInHandoff'
BY DEF IInv, GateTypeOK, WriterAlone, NoSwapInHandoff, Writing, Updaters

\* c moves between places outside the locks.
LEMMA MoveStep ==
    ASSUME IInv, NEW c \in Calls, NEW x \in PCs, pc' = [pc EXCEPT ![c] = x],
           x \notin {"body", "granted", "queued"} \/ x = pc[c],
           x = "leaving" => pc[c] \in InLockQueue,
           pc[c] \in {"finishing", "done"} => x \in {"finishing", "done"},
           UNCHANGED <<maint, locked, waiters, operation_id, running>>,
           cancelled' \in [Calls -> BOOLEAN], loop' \in Background \cup {None},
           \/ x \in HoldsRead /\ pc[c] \in HoldsRead /\ readers' = readers
           \/ x \notin HoldsRead /\ pc[c] \notin HoldsRead /\ readers' = readers
           \/ x \in HoldsRead /\ pc[c] \notin HoldsRead /\ readers' = readers + 1 /\ ~Writing
           \/ x \notin HoldsRead /\ pc[c] \in HoldsRead /\ readers' = readers - 1
    PROVE  IInv'
<1>1. pc'[c] = x
  BY DEF IInv, GateTypeOK
<1>2. LockInv' /\ LockTypes' /\ Frame(c)
  BY MoveKeeps
<1>3. ReadersExact' /\ readers' \in Nat
  BY <1>1, <1>2, CountKeeps DEF LockTypes
<1>4. ReservationExclusive'
  BY <1>1, <1>2, ReservationKept
<1>5. WriterAlone' /\ NoSwapInHandoff'
  BY WritersKept, HolderCounted
<1>6. GateTypeOK'
  BY <1>2, <1>3 DEF IInv, GateTypeOK, LockTypes
<1> QED BY <1>2, <1>3, <1>4, <1>5, <1>6 DEF IInv

\* c leaves the lock and the read side, its reservation as it was.
LEMMA LeaveStep ==
    ASSUME IInv, NEW c \in Calls, NEW x \in {"done", "finishing"}, NEW q,
           KeepsLine(c, q), pc[c] = "body" \/ (pc[c] \in InLockQueue /\ ~locked[SessionOf[c]]),
           LeaveLock(c, x, q), readers' = readers - 1,
           UNCHANGED <<maint, operation_id, running, cancelled>>,
           loop' \in Background \cup {None}
    PROVE  IInv'
<1>1. LockInv' /\ LockTypes' /\ Frame(c) /\ pc'[c] = x
  BY LeaveKeeps DEF PCs, InLockQueue
<1>2. pc[c] \in HoldsRead /\ x \notin HoldsRead
  BY DEF HoldsRead, InLockQueue
<1>3. ReadersExact' /\ readers' \in Nat
  BY <1>1, <1>2, CountKeeps DEF LockTypes
<1>4. ReservationExclusive'
  BY <1>1, ReservationKept
<1>5. WriterAlone' /\ NoSwapInHandoff'
  BY <1>2, WritersKept, HolderCounted
<1>6. GateTypeOK'
  BY <1>1, <1>3 DEF IInv, GateTypeOK, LockTypes
<1> QED BY <1>1, <1>3, <1>4, <1>5, <1>6 DEF IInv

\* hold owns the lock: c leaves, or enters its body and may reserve.
LEMMA EnterLockedStep ==
    ASSUME IInv, NEW c \in Calls, NEW q, NEW r, KeepsLine(c, q), ~locked[SessionOf[c]],
           \A d \in Calls \ {c} : pc[d] = "granted" => SessionOf[d] # SessionOf[c],
           \/ pc[c] \in {"acquired"} \cup InLockQueue /\ r = readers
           \/ pc[c] = "idle" /\ r = readers + 1,
           ~Writing, EnterLocked(c, q, r), UNCHANGED <<maint, running, cancelled>>
    PROVE  IInv'
<1> USE DEF HoldsRead, InLockQueue
<1>1. WriterAlone' /\ NoSwapInHandoff'
  BY WritersKept
<1>2. CASE /\ Refused(c) /\ LeaveLock(c, "done", q) /\ readers' = r - 1 /\ loop' = None
           /\ UNCHANGED operation_id
  <2>1. LockInv' /\ LockTypes' /\ Frame(c) /\ pc'[c] = "done"
    BY <1>2, LeaveKeeps DEF PCs
  <2>2. ReadersExact' /\ readers' \in Nat
    <3>1. r \in Nat /\ readers \in Nat
      BY DEF IInv, GateTypeOK
    <3>2. \/ pc[c] \in HoldsRead /\ readers' = readers - 1
          \/ pc[c] \notin HoldsRead /\ readers' = readers
      BY <1>2, <3>1
    <3> QED BY <2>1, <3>2, CountKeeps DEF LockTypes
  <2>3. ReservationExclusive'
    BY <1>2, <2>1, ReservationKept
  <2>4. GateTypeOK'
    BY <1>2, <2>1, <2>2 DEF IInv, GateTypeOK, LockTypes
  <2> QED BY <1>1, <2>1, <2>2, <2>3, <2>4 DEF IInv
<1>3. CASE /\ ~Refused(c) /\ locked' = [locked EXCEPT ![SessionOf[c]] = TRUE]
           /\ waiters' = [waiters EXCEPT ![SessionOf[c]] = q]
           /\ pc' = [pc EXCEPT ![c] = "body"] /\ readers' = r
           /\ IF c \in Background /\ ~running[c]
              THEN operation_id' = [operation_id EXCEPT ![SessionOf[c]] = c] /\ loop' = c
              ELSE loop' = None /\ UNCHANGED operation_id
  <2>1. LockInv' /\ LockTypes' /\ Frame(c) /\ pc'[c] = "body"
    BY <1>3, EnterKeeps
  <2>2. ReadersExact' /\ readers' \in Nat
    BY <1>3, <2>1, CountKeeps DEF LockTypes
  <2>3. ReservationExclusive' /\ operation_id' \in [Sessions -> Background \cup {None}]
    BY <1>3, ReservationEntered
  <2>4. loop' \in Background \cup {None}
    BY <1>3
  <2>5. GateTypeOK'
    BY <2>1, <2>2, <2>3, <2>4 DEF IInv, GateTypeOK, LockTypes
  <2> QED BY <1>1, <2>1, <2>2, <2>3, <2>5 DEF IInv
<1> QED BY <1>2, <1>3 DEF EnterLocked

\* async with entry.lock: LockFree looks past cancelled waiters only, so no
\* call the lock was handed to is overtaken.
LEMMA LockOrQueueStep ==
    ASSUME IInv, NEW c \in Calls, NEW r,
           \/ pc[c] = "acquired" /\ r = readers
           \/ pc[c] = "idle" /\ r = readers + 1,
           ~Writing, LockOrQueue(c, r), UNCHANGED <<maint, running, cancelled>>
    PROVE  IInv'
<1> DEFINE w == waiters[SessionOf[c]]
<1>1. CASE LockFree(SessionOf[c]) /\ EnterLocked(c, w, r)
  <2>1. ASSUME NEW d \in Calls \ {c}, pc[d] = "granted", SessionOf[d] = SessionOf[c]
        PROVE  FALSE
    <3>1. PICK i \in DOMAIN w : w[i] = d
      BY <2>1 DEF IInv, LockInv, WaitersListed, InLockQueue
    <3> QED BY <1>1, <2>1, <3>1 DEF LockFree
  <2> QED BY <1>1, <2>1, LineItself, EnterLockedStep DEF LockFree
<1>2. CASE /\ waiters' = [waiters EXCEPT ![SessionOf[c]] = Append(@, c)]
           /\ pc' = [pc EXCEPT ![c] = "queued"] /\ readers' = r /\ loop' = None
           /\ UNCHANGED <<locked, operation_id>>
  <2> USE DEF HoldsRead, InLockQueue
  <2>1. LockInv' /\ LockTypes' /\ Frame(c) /\ pc'[c] = "queued"
    BY <1>2, QueueKeeps
  <2>2. ReadersExact' /\ readers' \in Nat
    BY <1>2, <2>1, CountKeeps DEF LockTypes
  <2>3. ReservationExclusive'
    BY <1>2, <2>1, ReservationKept
  <2>4. WriterAlone' /\ NoSwapInHandoff'
    BY WritersKept
  <2>5. GateTypeOK'
    BY <1>2, <2>1, <2>2 DEF IInv, GateTypeOK, LockTypes
  <2> QED BY <2>1, <2>2, <2>3, <2>4, <2>5 DEF IInv
<1> QED BY <1>1, <1>2 DEF LockOrQueue

----------------------------------------------------------------------------
(* The theorem *)

\* Every step of the gate keeps the invariant.
LEMMA GateStep == IInv /\ [GateNext]_gateVars => IInv'
<1> SUFFICES ASSUME IInv, [GateNext]_gateVars
             PROVE  IInv'
  OBVIOUS
<1> USE DEF PCs, HoldsRead, InLockQueue
<1>0. /\ pc \in [Calls -> PCs] /\ cancelled \in [Calls -> BOOLEAN]
      /\ loop \in Background \cup {None} /\ readers \in Nat
  BY DEF IInv, GateTypeOK
<1>1. ASSUME NEW c \in Calls, hold(c) PROVE IInv'
  BY <1>0, <1>1, MoveStep DEF hold
<1>2. ASSUME NEW c \in Calls, hold_nowait(c) PROVE IInv'
  <2>1. CASE pc' = [pc EXCEPT ![c] = "done"] /\ UNCHANGED <<readers, locked, waiters, operation_id, loop>>
    BY <1>0, <1>2, <2>1, MoveStep DEF hold_nowait
  <2>2. CASE ~Writing /\ LockOrQueue(c, readers + 1)
    BY <1>2, <2>2, LockOrQueueStep DEF hold_nowait
  <2> QED BY <1>2, <2>1, <2>2 DEF hold_nowait
<1>3. ASSUME NEW c \in Calls, acquire_read(c) PROVE IInv'
  BY <1>0, <1>3, MoveStep DEF acquire_read
<1>4. ASSUME NEW c \in Calls, resume_hold(c) PROVE IInv'
  <2>1. CASE /\ readers' = readers - 1 /\ pc' = [pc EXCEPT ![c] = "done"]
             /\ UNCHANGED <<locked, waiters, operation_id, loop>>
    BY <1>0, <1>4, <2>1, MoveStep DEF resume_hold
  <2>2. CASE LockOrQueue(c, readers)
    BY <1>4, <2>2, LockOrQueueStep, HolderCounted DEF resume_hold
  <2> QED BY <1>4, <2>1, <2>2 DEF resume_hold
<1>5. ASSUME NEW c \in Calls, wake_up(c) PROVE IInv'
  <2> DEFINE q == Without(waiters[SessionOf[c]], c)
  <2>1. /\ KeepsLine(c, q) /\ ~locked[SessionOf[c]] /\ ~Writing
        /\ \A d \in Calls \ {c} : pc[d] = "granted" => SessionOf[d] # SessionOf[c]
    BY <1>5, LineWithout, HolderCounted DEF wake_up, IInv, LockInv, GrantedIsFirst
  <2>2. CASE EnterLocked(c, q, readers)
    BY <1>5, <2>1, <2>2, EnterLockedStep DEF wake_up
  <2>3. CASE LeaveLock(c, "done", q) /\ readers' = readers - 1 /\ UNCHANGED <<operation_id, loop>>
    BY <1>0, <1>5, <2>1, <2>3, LeaveStep DEF wake_up
  <2> QED BY <1>5, <2>2, <2>3 DEF wake_up
<1>6. ASSUME NEW c \in Calls, leave_queue(c) PROVE IInv'
  <2> DEFINE q == Without(waiters[SessionOf[c]], c)
  <2>1. KeepsLine(c, q) /\ pc[c] = "leaving" /\ readers' = readers - 1 /\ loop' = loop
    BY <1>6, LineWithout DEF leave_queue
  <2>2. CASE locked[SessionOf[c]]
    <3>1. LockInv' /\ LockTypes' /\ Frame(c) /\ pc'[c] = "done"
      BY <1>6, <2>1, <2>2, GiveUpKeeps DEF leave_queue
    <3>2. ReadersExact' /\ readers' \in Nat
      BY <2>1, <3>1, CountKeeps DEF LockTypes
    <3>3. ReservationExclusive'
      BY <1>6, <2>1, <3>1, ReservationKept DEF leave_queue
    <3>4. WriterAlone' /\ NoSwapInHandoff'
      BY <1>6, <2>1, HolderCounted, WritersKept DEF leave_queue
    <3>5. GateTypeOK'
      BY <1>6, <3>1, <3>2 DEF leave_queue, IInv, GateTypeOK, LockTypes
    <3> QED BY <3>1, <3>2, <3>3, <3>4, <3>5 DEF IInv
  <2>3. CASE ~locked[SessionOf[c]]
    BY <1>0, <1>6, <2>1, <2>3, LeaveStep DEF leave_queue
  <2> QED BY <2>2, <2>3
<1>7. ASSUME NEW c \in Calls, cancel_request(c) PROVE IInv'
  <2> DEFINE x == IF pc[c] = "queued" THEN "leaving" ELSE pc[c]
  <2>1. x \in PCs /\ pc' = [pc EXCEPT ![c] = x] /\ cancelled' \in [Calls -> BOOLEAN]
    BY <1>0, <1>7 DEF cancel_request
  <2> QED BY <1>0, <1>7, <2>1, MoveStep DEF cancel_request
<1>8. ASSUME NEW c \in Calls, leave_hold(c) PROVE IInv'
  BY <1>0, <1>8, LineItself, LeaveStep DEF leave_hold
<1>9. ASSUME NEW c \in Calls, await_admission(c) PROVE IInv'
  <2>1. GateTypeOK' /\ ReadersExact'
    BY <1>9 DEF await_admission, IInv, GateTypeOK, ReadersExact
  <2>2. LockInv' /\ WriterAlone' /\ NoSwapInHandoff'
    BY <1>9 DEF await_admission, IInv, LockInv, BodyHasLock, OneBodyPerSession,
       GrantedIsFirst, WaitersListed, WaitersOwn, WriterAlone, NoSwapInHandoff
  <2>3. ReservationExclusive'
    BY <1>9 DEF await_admission, IInv, ReservationExclusive, Admitting
  <2> QED BY <2>1, <2>2, <2>3 DEF IInv
<1>10. ASSUME NEW c \in Calls, hand_off(c) PROVE IInv'
  <2>1. c \in Background /\ Admitting(c) /\ pc[c] = "body"
    BY <1>10 DEF hand_off, Admitting
  <2>2. LockInv' /\ LockTypes' /\ Frame(c) /\ pc'[c] = "handoff"
    BY <1>10, <2>1, LineItself, LeaveKeeps DEF hand_off
  <2>3. ReadersExact' /\ readers' \in Nat
    BY <1>10, <2>1, <2>2, CountKeeps DEF hand_off, LockTypes
  <2>4. ReservationExclusive'
    BY <1>10, <2>1, <2>2, ReservationHandedOff DEF hand_off
  <2>5. WriterAlone' /\ NoSwapInHandoff'
    BY <1>10, <2>1, HolderCounted, WritersKept DEF hand_off
  <2>6. GateTypeOK'
    BY <1>10, <2>2, <2>3 DEF hand_off, IInv, GateTypeOK, LockTypes
  <2> QED BY <2>2, <2>3, <2>4, <2>5, <2>6 DEF IInv
<1>11. ASSUME NEW c \in Calls, fail_admission(c) PROVE IInv'
  <2>1. /\ c \in Background /\ Admitting(c) /\ pc[c] = "body"
        /\ operation_id[SessionOf[c]] = c
    BY <1>11 DEF fail_admission, Admitting, IInv, ReservationExclusive
  <2>2. LockInv' /\ LockTypes' /\ Frame(c) /\ pc'[c] = "done"
    BY <1>11, <2>1, LineItself, LeaveKeeps DEF fail_admission
  <2>3. ReadersExact' /\ readers' \in Nat
    BY <1>11, <2>1, <2>2, CountKeeps DEF fail_admission, LockTypes
  <2>4. ReservationExclusive' /\ operation_id' \in [Sessions -> Background \cup {None}]
    BY <1>11, <2>1, <2>2, ReservationReleased DEF fail_admission
  <2>5. WriterAlone' /\ NoSwapInHandoff'
    BY <1>11, <2>1, HolderCounted, WritersKept DEF fail_admission
  <2>6. GateTypeOK'
    BY <1>11, <2>2, <2>3, <2>4 DEF fail_admission, IInv, GateTypeOK, LockTypes
  <2> QED BY <2>2, <2>3, <2>4, <2>5, <2>6 DEF IInv
<1>12. ASSUME NEW c \in Calls, leave_worker(c) PROVE IInv'
  BY <1>12, LineItself, LeaveStep DEF leave_worker
<1>13. ASSUME NEW c \in Calls, release_operation(c) PROVE IInv'
  <2>1. /\ c \in Background /\ SessionOf[c] \in Sessions /\ Frame(c)
        /\ pc'[c] \in {"finishing", "done"}
    BY <1>0, <1>13, CallsTyped DEF release_operation, IInv, GateTypeOK, Frame
  <2>2. ReservationExclusive' /\ operation_id' \in [Sessions -> Background \cup {None}]
    BY <1>13, <2>1, ReservationReleased DEF release_operation
  <2>3. WriterAlone' /\ NoSwapInHandoff'
    BY <1>13, <2>1, WritersKept DEF release_operation
  <2>4. GateTypeOK' /\ ReadersExact'
    BY <1>13, <2>2 DEF release_operation, IInv, GateTypeOK, ReadersExact
  <2>5. LockInv'
    BY <1>13 DEF release_operation, IInv, LockInv, BodyHasLock, OneBodyPerSession,
       GrantedIsFirst, WaitersListed, WaitersOwn
  <2> QED BY <2>2, <2>3, <2>4, <2>5 DEF IInv
<1>14. ASSUME NEW c \in Calls, task_done(c) PROVE IInv'
  BY <1>0, <1>14, MoveStep DEF task_done
<1>15. ASSUME NEW m \in Updaters,
              \/ maintenance_begin(m) \/ maintenance_request(m)
              \/ maintenance_enter(m) \/ maintenance_end(m)
       PROVE  IInv'
  <2> USE DEF maintenance_begin, maintenance_request, maintenance_enter, maintenance_end
  <2>1. UNCHANGED <<readers, locked, waiters, operation_id, pc, running, cancelled, loop>>
    BY <1>15
  <2>2. PICK x \in {"idle", "waiting", "writing"} : maint' = [maint EXCEPT ![m] = x]
    BY <1>15
  <2>3. GateTypeOK' /\ ReadersExact'
    BY <2>1, <2>2 DEF IInv, GateTypeOK, ReadersExact
  <2>4. LockInv' /\ ReservationExclusive'
    BY <2>1 DEF IInv, LockInv, BodyHasLock, OneBodyPerSession, GrantedIsFirst,
       WaitersListed, WaitersOwn, ReservationExclusive, Admitting
  <2>5. WriterAlone' /\ NoSwapInHandoff'
    <3>1. CASE maintenance_begin(m)
      BY <3>1 DEF IInv, GateTypeOK, WriterAlone, NoSwapInHandoff, Writing, Updaters
    <3>2. CASE maintenance_request(m)
      BY <3>2, CallsTyped DEF IInv, GateTypeOK, WriterAlone, NoSwapInHandoff, Updaters
    <3>3. CASE maintenance_enter(m)
      BY <3>3 DEF IInv, GateTypeOK, WriterAlone, NoSwapInHandoff, Writing, Updaters
    <3>4. CASE maintenance_end(m)
      BY <3>4 DEF IInv, GateTypeOK, WriterAlone, NoSwapInHandoff, Updaters
    <3> QED BY <1>15, <3>1, <3>2, <3>3, <3>4
  <2> QED BY <2>3, <2>4, <2>5 DEF IInv
<1>16. CASE UNCHANGED gateVars
  BY <1>16 DEF gateVars, IInv, GateTypeOK, ReadersExact, LockInv, BodyHasLock,
     OneBodyPerSession, GrantedIsFirst, WaitersListed, WaitersOwn, ReservationExclusive,
     Admitting, WriterAlone, NoSwapInHandoff
<1> QED
  BY <1>1, <1>2, <1>3, <1>4, <1>5, <1>6, <1>7, <1>8, <1>9, <1>10, <1>11, <1>12, <1>13,
     <1>14, <1>15, <1>16 DEF GateNext, CallStep

\* The gate starts with nobody in it.
LEMMA GateStarts == GateInit => IInv
<1> SUFFICES ASSUME GateInit PROVE IInv
  OBVIOUS
<1> USE DEF GateInit, HoldsRead, InLockQueue, PCs
<1>1. GateTypeOK
  BY DEF GateTypeOK
<1>2. ReadersExact
  <2>1. {c \in Calls : pc[c] \in HoldsRead} = {}
    OBVIOUS
  <2> QED BY <2>1, FS_EmptySet DEF ReadersExact
<1>3. LockInv
  BY DEF LockInv, BodyHasLock, OneBodyPerSession, GrantedIsFirst, WaitersListed, WaitersOwn
<1>4. ReservationExclusive
  BY DEF ReservationExclusive, Admitting, Calls
<1>5. WriterAlone /\ NoSwapInHandoff
  BY DEF WriterAlone, NoSwapInHandoff, Updaters
<1> QED BY <1>1, <1>2, <1>3, <1>4, <1>5 DEF IInv

\* What the invariant says of readers, bodies, maintenance and reservations.
LEMMA GateMeans ==
    IInv => GateTypeOK /\ ReadersExact /\ GateExclusive /\ ReservationExclusive
<1> SUFFICES ASSUME IInv PROVE MaintenanceAlone
  BY DEF IInv, LockInv, GateExclusive
<1>1. ASSUME NEW c \in Calls, pc[c] = "body" PROVE ~Writing
  BY <1>1, HolderCounted DEF HoldsRead
<1> QED BY <1>1 DEF IInv, WriterAlone, MaintenanceAlone, Writing

\* The gate, for every number of sessions, calls and maintenance threads: no
\* reader leaks, a body has its session alone, the reservation of a background
\* operation holds from submit to its worker's release, maintenance overlaps
\* no body, and its non-waiting form no reservation.
THEOREM GateInvariant ==
    GateSpec => [](GateTypeOK /\ ReadersExact /\ GateExclusive /\ ReservationExclusive)
BY GateMeans, GateStarts, GateStep, PTL DEF GateSpec

\* No way out of hold() leaks a reader of the maintenance lock.
THEOREM GateReadersExact == GateSpec => []ReadersExact
BY GateInvariant, PTL

\* Tool bodies and maintenance exclude each other, and the updater's swap never
\* falls between a submission and its worker.
THEOREM GateExclusion == GateSpec => []GateExclusive
BY GateInvariant, PTL

\* A reservation holds from submit until its worker releases it.
THEOREM GateReservation == GateSpec => []ReservationExclusive
BY GateInvariant, PTL

----------------------------------------------------------------------------
(* The operations *)

Submitting == {"leasing", "capturing", "captured", "uncaptured"}
Computing == {"computing", "returned", "rejected"}

\* Where the places of a call and the stages of its operation meet.
Placed(c) ==
    /\ stage[c] = "none" => ~running[c] /\ pc[c] \in {"idle", "queued", "granted", "leaving", "done"}
    /\ stage[c] \in Submitting => ~running[c] /\ pc[c] = "body"
    /\ stage[c] = "worker" =>
        running[c] /\ pc[c] \in {"handoff", "reading", "acquired", "queued", "granted", "body"}
    /\ stage[c] \in Computing => running[c] /\ pc[c] = "body"
    /\ stage[c] = "sealed" => running[c] /\ pc[c] \in {"body", "finishing"}
    /\ stage[c] = "closed" => running[c] /\ pc[c] = "done"
    /\ running[c] \/ pc[c] \in {"idle", "body"} => ~cancelled[c]
    /\ terminal[c] <=> stage[c] = "closed"

PlaceTypes == stage \in [Background -> Stages] /\ terminal \in [Background -> BOOLEAN]
PlaceInv == PlaceTypes /\ \A c \in Background : Placed(c)

\* Who holds the pool's lock is in its body, without an engine; a submission
\* that holds it captures.
PoolInv ==
    \A c \in Calls : pool_lock = c =>
        /\ pc[c] = "body" /\ ~alive[SessionOf[c]]
        /\ c \in Background => stage[c] = "capturing"

\* What a step of c may do to the other calls.
Others(c) ==
    \A d \in Calls \ {c} :
        /\ pc'[d] = pc[d] \/ (pc[d] = "queued" /\ pc'[d] = "granted")
        /\ running'[d] = running[d] /\ cancelled'[d] = cancelled[d]

----------------------------------------------------------------------------
(* Steps of operations are steps of the gate *)

\* The steps of the operations are steps of the gate, or leave it alone.
LEMMA GateKept == IInv /\ [Next]_vars => IInv'
<1> SUFFICES ASSUME IInv, [Next]_vars
             PROVE  IInv'
  OBVIOUS
<1>1. CASE [GateNext]_gateVars
  BY <1>1, GateStep
<1>2. ASSUME NEW c \in Background, submit_refused(c)
      PROVE  IInv'
  <2>1. /\ c \in Calls /\ pc[c] = "idle" /\ pc' = [pc EXCEPT ![c] = "done"] /\ "done" \in PCs
        /\ UNCHANGED <<readers, maint, locked, waiters, operation_id, running, cancelled, loop>>
    BY <1>2 DEF submit_refused, Calls, PCs
  <2>2. cancelled' \in [Calls -> BOOLEAN] /\ loop' \in Background \cup {None}
    BY <2>1 DEF IInv, GateTypeOK
  <2> QED BY <2>1, <2>2, MoveStep DEF HoldsRead, InLockQueue
<1>3. ASSUME NEW c \in Calls, gate_step(c) \/ tool_ends(c) \/ get_begin(c) \/ get_end(c)
      PROVE  [GateNext]_gateVars
  BY <1>3 DEF gate_step, tool_ends, get_begin, get_end, GateNext, CallStep, gateVars
<1>4. ASSUME NEW c \in Background,
             \/ submit(c) \/ submit_wakes(c) \/ take_read_lease(c) \/ read_lease_busy(c)
             \/ capture(c) \/ start_worker(c) \/ capture_failed(c)
      PROVE  [GateNext]_gateVars
  <2>1. c \in Calls
    BY DEF Calls
  <2> QED BY <1>4, <2>1 DEF submit, submit_wakes, take_read_lease, read_lease_busy, capture,
       start_worker, capture_failed, UndoAdmission, GateNext, CallStep, gateVars
<1>5. ASSUME NEW c \in Background,
             \/ reject(c) \/ compute_begin(c) \/ publication_guard(c) \/ compute_end(c)
             \/ seal(c) \/ worker_leaves(c) \/ worker_releases(c) \/ close_lease(c)
             \/ finish(c) \/ cancel(c)
      PROVE  [GateNext]_gateVars
  <2>1. c \in Calls
    BY DEF Calls
  <2> QED BY <1>5, <2>1 DEF reject, compute_begin, publication_guard, compute_end, seal,
       worker_leaves, worker_releases, close_lease, finish, cancel, GateNext, gateVars
<1>6. ASSUME NEW s \in Sessions, close_session(s) \/ close_session_ends(s) \/ engine_dies(s)
      PROVE  [GateNext]_gateVars
  BY <1>6 DEF close_session, close_session_ends, engine_dies, gateVars
<1>7. ASSUME NEW m \in Maintainers,
             take_write_lease(m) \/ install_begin(m) \/ install(m) \/ drop_write_lease(m)
      PROVE  [GateNext]_gateVars
  <2>1. m \in Updaters
    BY DEF Updaters
  <2> QED BY <1>7, <2>1 DEF take_write_lease, install_begin, install, drop_write_lease,
       GateNext, gateVars
<1>8. ASSUME NEW f \in Foreign, take_write_lease(f) \/ foreign_install(f)
      PROVE  [GateNext]_gateVars
  BY <1>8 DEF take_write_lease, foreign_install, gateVars
<1>9. CASE UNCHANGED vars
  BY <1>9, <1>1 DEF vars
<1> QED BY <1>1, <1>2, <1>3, <1>4, <1>5, <1>6, <1>7, <1>8, <1>9 DEF Next

\* A lock that is left wakes at most its first waiter.
LEMMA LeavesOthers ==
    ASSUME IInv, NEW c \in Calls, NEW x \in PCs, NEW q, LeaveLock(c, x, q),
           \A d \in Calls \ {c} : running'[d] = running[d] /\ cancelled'[d] = cancelled[d]
    PROVE  Others(c) /\ pc'[c] = x
BY DEF LeaveLock, Others

\* A call on its way through the gate moves alone, reserves nothing, and keeps
\* the loop from nobody.
LEMMA GateStepMoves ==
    ASSUME IInv, PlaceInv, NEW c \in Calls, gate_step(c)
    PROVE  /\ Others(c) /\ running' = running /\ operation_id' = operation_id
           /\ loop' = loop \/ (LoopFor(c) /\ loop' = None)
           /\ pc'[c] = "body" /\ pc[c] # "body" => LoopFor(c)
           /\ c \in Background /\ running[c] =>
                /\ stage[c] = "worker" /\ pc[c] # "body" /\ cancelled'[c] = cancelled[c]
                /\ pc'[c] \in {"handoff", "reading", "acquired", "queued", "granted", "body"}
           /\ c \in Background /\ ~running[c] =>
                /\ stage[c] = "none" /\ pc[c] \in {"queued", "granted", "leaving"}
                /\ pc'[c] \in {"queued", "granted", "leaving", "done"}
<1> USE CallsTyped DEF PCs
<1>1. /\ pc \in [Calls -> PCs] /\ running \in [Calls -> BOOLEAN]
      /\ cancelled \in [Calls -> BOOLEAN] /\ stage \in [Background -> Stages]
      /\ c \in Plain \/ (c \in Background /\ Placed(c))
      /\ Background \subseteq Calls
  <2>1. (c \in Plain \/ c \in Background) /\ Background \subseteq Calls
    BY DEF Calls
  <2> QED BY <2>1 DEF IInv, GateTypeOK, PlaceInv, PlaceTypes
<1>2. c \in Background /\ running[c] /\ pc[c] \notin {"finishing", "done"} => ~Refused(c)
  BY <1>1 DEF IInv, ReservationExclusive, Refused
<1>3. ASSUME c \in Background
      PROVE  /\ running[c] /\ pc[c] \in {"handoff", "reading", "acquired", "queued", "granted"}
                => stage[c] = "worker" /\ ~cancelled[c]
             /\ ~running[c] => pc[c] \notin {"handoff", "reading", "acquired", "finishing"}
             /\ ~running[c] /\ pc[c] \in {"queued", "granted", "leaving"} => stage[c] = "none"
             /\ running[c] => pc[c] # "leaving"
  BY <1>1, <1>3 DEF Placed, Submitting, Computing, Stages
<1>4. CASE hold(c)
  BY <1>1, <1>2, <1>3, <1>4 DEF hold, Others
<1>5. CASE acquire_read(c)
  BY <1>1, <1>3, <1>5 DEF acquire_read, Others
<1>6. ASSUME NEW q, NEW r, EnterLocked(c, q, r), UNCHANGED <<running, cancelled>>,
             c \in Background => running[c],
             pc[c] \in {"acquired", "granted"}
      PROVE  /\ Others(c) /\ operation_id' = operation_id /\ loop' = None
             /\ pc'[c] \in {"body", "done"}
             /\ c \in Background => pc'[c] = "body"
  BY <1>1, <1>2, <1>6, LeavesOthers DEF EnterLocked, Others
<1>7. CASE resume_hold(c)
  <2>1. c \in Background => running[c] /\ stage[c] = "worker" /\ ~cancelled[c]
    BY <1>1, <1>3, <1>7 DEF resume_hold
  <2>2. pc[c] = "acquired" /\ LoopFor(c) /\ UNCHANGED <<running, cancelled>>
    BY <1>7 DEF resume_hold
  <2>3. CASE cancelled[c] /\ pc' = [pc EXCEPT ![c] = "done"] /\ UNCHANGED <<operation_id, loop>>
    BY <1>1, <2>1, <2>2, <2>3 DEF Others
  <2>4. CASE EnterLocked(c, waiters[SessionOf[c]], readers)
    BY <1>1, <1>6, <2>1, <2>2, <2>4 DEF LoopFor
  <2>5. CASE pc' = [pc EXCEPT ![c] = "queued"] /\ loop' = None /\ UNCHANGED operation_id
    BY <1>1, <2>1, <2>2, <2>5 DEF Others
  <2> QED BY <1>7, <2>3, <2>4, <2>5 DEF resume_hold, LockOrQueue
<1>8. CASE wake_up(c) /\ (c \in Background => running[c])
  <2> DEFINE q == Without(waiters[SessionOf[c]], c)
  <2>1. c \in Background => stage[c] = "worker" /\ ~cancelled[c]
    BY <1>1, <1>3, <1>8 DEF wake_up
  <2>2. pc[c] = "granted" /\ LoopFor(c) /\ UNCHANGED <<running, cancelled>>
    BY <1>8 DEF wake_up
  <2>3. CASE EnterLocked(c, q, readers)
    BY <1>1, <1>6, <1>8, <2>1, <2>2, <2>3 DEF LoopFor
  <2>4. CASE cancelled[c] /\ LeaveLock(c, "done", q) /\ UNCHANGED <<operation_id, loop>>
    BY <1>1, <2>1, <2>2, <2>4, LeavesOthers
  <2> QED BY <1>8, <2>3, <2>4 DEF wake_up
<1>9. CASE leave_queue(c)
  <2> DEFINE q == Without(waiters[SessionOf[c]], c)
  <2>1. c \in Background => ~running[c] /\ stage[c] = "none"
    BY <1>1, <1>3, <1>9 DEF leave_queue
  <2>2. pc[c] = "leaving" /\ UNCHANGED <<running, cancelled, operation_id, loop>>
    BY <1>9 DEF leave_queue
  <2>3. CASE pc' = [pc EXCEPT ![c] = "done"]
    BY <1>1, <2>1, <2>2, <2>3 DEF Others
  <2>4. CASE LeaveLock(c, "done", q)
    BY <1>1, <2>1, <2>2, <2>4, LeavesOthers
  <2> QED BY <1>9, <2>3, <2>4 DEF leave_queue
<1>10. CASE cancel_request(c)
  BY <1>1, <1>3, <1>10 DEF cancel_request, Others
<1>11. wake_up(c) /\ c \in Plain => ~(c \in Background)
  OBVIOUS
<1> QED BY <1>4, <1>5, <1>7, <1>8, <1>9, <1>10, <1>11 DEF gate_step

\* A submission enters and reserves, or waits, or is turned away.
LEMMA EntryMoves ==
    ASSUME IInv, PlaceInv, NEW c \in Background, ~running[c],
           hold_nowait(c) \/ wake_up(c)
    PROVE  /\ Others(c) /\ UNCHANGED <<running, cancelled>> /\ LoopFor(c)
           /\ stage[c] = "none" /\ pc[c] \in {"idle", "granted"}
           /\ \/ /\ pc'[c] = "body" /\ ~cancelled[c] /\ loop' = c
                 /\ operation_id[SessionOf[c]] = None
                 /\ operation_id' = [operation_id EXCEPT ![SessionOf[c]] = c]
              \/ /\ pc'[c] \in {"queued", "done"} /\ loop' \in {loop, None}
                 /\ operation_id' = operation_id
<1> USE CallsTyped DEF PCs
<1>1. /\ pc \in [Calls -> PCs] /\ stage \in [Background -> Stages] /\ Placed(c) /\ c \in Calls
  <2>1. c \in Calls
    BY DEF Calls
  <2> QED BY <2>1 DEF IInv, GateTypeOK, PlaceInv, PlaceTypes
<1>2. pc[c] \in {"idle", "granted"} /\ LoopFor(c) /\ UNCHANGED <<running, cancelled>>
  BY DEF hold_nowait, wake_up
<1>3. stage[c] = "none"
  BY <1>1, <1>2 DEF Placed, Submitting, Computing, Stages
<1>4. ASSUME NEW q, NEW r, EnterLocked(c, q, r), ~cancelled[c]
      PROVE  /\ Others(c)
             /\ \/ /\ pc'[c] = "body" /\ ~cancelled[c] /\ loop' = c
                   /\ operation_id[SessionOf[c]] = None
                   /\ operation_id' = [operation_id EXCEPT ![SessionOf[c]] = c]
                \/ /\ pc'[c] \in {"queued", "done"} /\ loop' \in {loop, None}
                   /\ operation_id' = operation_id
  <2>1. CASE LeaveLock(c, "done", q) /\ loop' = None /\ UNCHANGED operation_id
    BY <1>1, <1>2, <2>1, LeavesOthers
  <2>2. CASE /\ ~Refused(c) /\ pc' = [pc EXCEPT ![c] = "body"]
             /\ operation_id' = [operation_id EXCEPT ![SessionOf[c]] = c] /\ loop' = c
    BY <1>1, <1>2, <1>4, <2>2 DEF Others, Refused
  <2> QED BY <1>4, <2>1, <2>2 DEF EnterLocked
<1>5. CASE hold_nowait(c)
  <2>1. ~cancelled[c]
    BY <1>1, <1>5 DEF hold_nowait, Placed
  <2>2. CASE pc' = [pc EXCEPT ![c] = "done"] /\ UNCHANGED <<operation_id, loop>>
    BY <1>1, <1>2, <1>3, <2>2 DEF Others
  <2>3. CASE EnterLocked(c, waiters[SessionOf[c]], readers + 1)
    BY <1>2, <1>3, <1>4, <2>1, <2>3
  <2>4. CASE pc' = [pc EXCEPT ![c] = "queued"] /\ loop' = None /\ UNCHANGED operation_id
    BY <1>1, <1>2, <1>3, <2>4 DEF Others
  <2> QED BY <1>5, <2>2, <2>3, <2>4 DEF hold_nowait, LockOrQueue
<1>6. CASE wake_up(c)
  <2> DEFINE q == Without(waiters[SessionOf[c]], c)
  <2>1. CASE ~cancelled[c] /\ EnterLocked(c, q, readers)
    BY <1>2, <1>3, <1>4, <2>1
  <2>2. CASE LeaveLock(c, "done", q) /\ UNCHANGED <<operation_id, loop>>
    BY <1>1, <1>2, <1>3, <2>2, LeavesOthers
  <2> QED BY <1>6, <2>1, <2>2 DEF wake_up
<1> QED BY <1>5, <1>6

\* The ways out of a body.
LEMMA ExitMoves ==
    ASSUME IInv, NEW c \in Calls,
           \/ leave_hold(c) \/ hand_off(c) \/ fail_admission(c) \/ leave_worker(c)
    PROVE  /\ Others(c) /\ cancelled' = cancelled /\ pc[c] = "body" /\ LoopFor(c)
           /\ leave_hold(c) =>
                /\ c \in Plain /\ pc'[c] = "done"
                /\ UNCHANGED <<running, operation_id, loop>>
           /\ hand_off(c) =>
                /\ c \in Background /\ ~running[c] /\ pc'[c] = "handoff"
                /\ running' = [running EXCEPT ![c] = TRUE] /\ UNCHANGED <<operation_id, loop>>
           /\ fail_admission(c) =>
                /\ c \in Background /\ ~running[c] /\ pc'[c] = "done" /\ running' = running
                /\ operation_id' = [operation_id EXCEPT ![SessionOf[c]] = None] /\ loop' = None
           /\ leave_worker(c) =>
                /\ c \in Background /\ running[c] /\ pc'[c] = "finishing"
                /\ UNCHANGED <<running, operation_id>> /\ loop' = c
<1>1. running \in [Calls -> BOOLEAN] /\ {"done", "handoff", "finishing"} \subseteq PCs
  BY DEF IInv, GateTypeOK, PCs
<1>2. ASSUME leave_hold(c)
      PROVE  /\ Others(c) /\ cancelled' = cancelled /\ pc[c] = "body" /\ LoopFor(c)
             /\ c \in Plain /\ pc'[c] = "done" /\ UNCHANGED <<running, operation_id, loop>>
  BY <1>1, <1>2, LeavesOthers DEF leave_hold
<1>3. ASSUME hand_off(c)
      PROVE  /\ Others(c) /\ cancelled' = cancelled /\ pc[c] = "body" /\ LoopFor(c)
             /\ c \in Background /\ ~running[c] /\ pc'[c] = "handoff"
             /\ running' = [running EXCEPT ![c] = TRUE] /\ UNCHANGED <<operation_id, loop>>
  BY <1>1, <1>3, LeavesOthers DEF hand_off, LoopFor, Admitting
<1>4. ASSUME fail_admission(c)
      PROVE  /\ Others(c) /\ cancelled' = cancelled /\ pc[c] = "body" /\ LoopFor(c)
             /\ c \in Background /\ ~running[c] /\ pc'[c] = "done" /\ running' = running
             /\ operation_id' = [operation_id EXCEPT ![SessionOf[c]] = None] /\ loop' = None
  BY <1>1, <1>4, LeavesOthers DEF fail_admission, Admitting
<1>5. ASSUME leave_worker(c)
      PROVE  /\ Others(c) /\ cancelled' = cancelled /\ pc[c] = "body" /\ LoopFor(c)
             /\ c \in Background /\ running[c] /\ pc'[c] = "finishing"
             /\ UNCHANGED <<running, operation_id>> /\ loop' = c
  BY <1>1, <1>5, LeavesOthers DEF leave_worker
<1> QED BY <1>2, <1>3, <1>4, <1>5

----------------------------------------------------------------------------
(* Places and stages *)

\* Whoever does not move stays where its stage says.
LEMMA PlaceOthers ==
    ASSUME PlaceInv, NEW c \in Calls, Others(c), PlaceTypes',
           \A d \in Background \ {c} : stage'[d] = stage[d] /\ terminal'[d] = terminal[d],
           c \in Background => Placed(c)'
    PROVE  PlaceInv'
<1>1. ASSUME NEW d \in Background \ {c}
      PROVE  Placed(d)'
  <2>1. /\ stage'[d] = stage[d] /\ terminal'[d] = terminal[d] /\ Placed(d)
        /\ pc'[d] = pc[d] \/ (pc[d] = "queued" /\ pc'[d] = "granted")
        /\ running'[d] = running[d] /\ cancelled'[d] = cancelled[d]
        /\ stage[d] \in Stages
    BY DEF Others, PlaceInv, PlaceTypes, Calls
  <2> QED BY <2>1 DEF Placed, Submitting, Computing, Stages
<1> QED BY <1>1 DEF PlaceInv

\* A thread's step leaves the gate alone and takes its operation one stage on.
LEMMA PlaceThreads ==
    ASSUME PlaceInv, NEW c \in Background, NEW x \in Stages,
           UNCHANGED <<pc, running, cancelled, terminal>>, stage' = [stage EXCEPT ![c] = x],
           \/ stage[c] \in Submitting /\ x \in Submitting
           \/ stage[c] = "worker" /\ pc[c] = "body" /\ x \in Computing
           \/ stage[c] \in Computing /\ x \in Computing \cup {"sealed"}
    PROVE  PlaceInv'
<1>1. PlaceTypes'
  BY DEF PlaceInv, PlaceTypes
<1>2. ASSUME NEW d \in Background
      PROVE  Placed(d)'
  <2>1. Placed(d) /\ stage[d] \in Stages /\ stage'[d] = IF d = c THEN x ELSE stage[d]
    BY DEF PlaceInv, PlaceTypes
  <2> QED BY <2>1 DEF Placed, Submitting, Computing, Stages
<1> QED BY <1>1, <1>2 DEF PlaceInv

\* Every step keeps them together.
LEMMA PlaceStep ==
    ASSUME IInv, PlaceInv, PoolInv, [Next]_vars
    PROVE  PlaceInv'
<1> USE CallsTyped DEF PlaceTypes
<1>1. /\ pc \in [Calls -> PCs] /\ running \in [Calls -> BOOLEAN]
      /\ stage \in [Background -> Stages] /\ terminal \in [Background -> BOOLEAN]
      /\ Background \subseteq Calls /\ \A c \in Background : Placed(c)
  <2>1. Background \subseteq Calls
    BY DEF Calls
  <2> QED BY <2>1 DEF IInv, GateTypeOK, PlaceInv
<1>2. CASE UNCHANGED <<pc, running, cancelled, stage, terminal>>
  BY <1>2 DEF PlaceInv, Placed
<1>3. ASSUME NEW c \in Calls, gate_step(c)
      PROVE  PlaceInv'
  <2>1. Others(c) /\ running' = running /\ UNCHANGED <<stage, terminal>>
    BY <1>3, GateStepMoves DEF gate_step, PlaceInv, controlVars
  <2>2. c \in Background => Placed(c)'
    <3> SUFFICES ASSUME c \in Background
                 PROVE  Placed(c)'
      OBVIOUS
    <3>1. CASE running[c]
      <4>1. /\ stage[c] = "worker" /\ cancelled'[c] = cancelled[c]
            /\ pc'[c] \in {"handoff", "reading", "acquired", "queued", "granted", "body"}
        BY <1>3, <3>1, GateStepMoves
      <4> QED BY <1>1, <2>1, <3>1, <4>1 DEF Placed, Submitting, Computing
    <3>2. CASE ~running[c]
      <4>1. stage[c] = "none" /\ pc'[c] \in {"queued", "granted", "leaving", "done"}
        BY <1>3, <3>2, GateStepMoves
      <4> QED BY <1>1, <2>1, <3>2, <4>1 DEF Placed, Submitting, Computing
    <3> QED BY <1>1, <3>1, <3>2
  <2> QED BY <1>1, <2>1, <2>2, PlaceOthers
<1>4. ASSUME NEW c \in Calls, tool_ends(c)
      PROVE  PlaceInv'
  <2>1. Others(c) /\ c \notin Background /\ UNCHANGED <<stage, terminal>>
    BY <1>4, ExitMoves DEF tool_ends, controlVars
  <2> QED BY <1>1, <2>1, PlaceOthers
<1>5. ASSUME NEW c \in Calls, get_end(c)
      PROVE  PlaceInv'
  <2>1. UNCHANGED <<pc, running, cancelled, terminal>> /\ pool_lock = c
    BY <1>5 DEF get_end, gateVars, controlVars
  <2>2. CASE stage' = stage
    BY <1>2, <2>1, <2>2
  <2>3. CASE c \in Background /\ stage' = [stage EXCEPT ![c] = "uncaptured"]
    BY <1>5, <2>1, <2>3, PlaceThreads DEF PoolInv, Submitting, Stages
  <2> QED BY <1>5, <2>2, <2>3 DEF get_end
<1>6. ASSUME NEW c \in Background, submit_refused(c)
      PROVE  PlaceInv'
  <2>1. /\ pc[c] = "idle" /\ pc' = [pc EXCEPT ![c] = "done"]
        /\ UNCHANGED <<running, cancelled, stage, terminal>>
    BY <1>6 DEF submit_refused, controlVars
  <2>2. Others(c) /\ Placed(c)'
    BY <1>1, <2>1 DEF Others, Placed, Submitting, Computing
  <2> QED BY <1>1, <2>1, <2>2, PlaceOthers
<1>7. ASSUME NEW c \in Background, submit(c) \/ submit_wakes(c)
      PROVE  PlaceInv'
  <2>1. /\ ~running[c] /\ (hold_nowait(c) \/ wake_up(c)) /\ terminal' = terminal
        /\ RegisterIfEntered(c)
    BY <1>1, <1>7 DEF submit, submit_wakes, hold_nowait, controlVars, Placed, Submitting,
       Computing, Stages
  <2>2. /\ Others(c) /\ UNCHANGED <<running, cancelled>> /\ stage[c] = "none"
        /\ \/ pc'[c] = "body" /\ ~cancelled[c]
           \/ pc'[c] \in {"queued", "done"}
    BY <1>1, <2>1, EntryMoves
  <2>3. CASE pc'[c] = "body" /\ ~cancelled[c]
    <3>1. stage' = [stage EXCEPT ![c] = "leasing"]
      BY <2>1, <2>3 DEF RegisterIfEntered, Register
    <3>2. Placed(c)' /\ PlaceTypes'
      BY <1>1, <2>1, <2>2, <2>3, <3>1 DEF Placed, Submitting, Computing, Stages
    <3> QED BY <1>1, <2>1, <2>2, <3>1, <3>2, PlaceOthers
  <2>4. CASE pc'[c] \in {"queued", "done"}
    <3>1. stage' = stage
      BY <2>1, <2>4 DEF RegisterIfEntered
    <3>2. Placed(c)' /\ PlaceTypes'
      BY <1>1, <2>1, <2>2, <2>4, <3>1 DEF Placed, Submitting, Computing, Stages
    <3> QED BY <1>1, <2>1, <2>2, <3>1, <3>2, PlaceOthers
  <2> QED BY <2>2, <2>3, <2>4
<1>8. ASSUME NEW c \in Background, take_read_lease(c)
      PROVE  PlaceInv'
  BY <1>8, PlaceThreads DEF take_read_lease, await_admission, controlVars, Submitting, Stages
<1>9. ASSUME NEW c \in Background, read_lease_busy(c) \/ capture_failed(c)
      PROVE  PlaceInv'
  <2>1. /\ fail_admission(c) /\ stage' = [stage EXCEPT ![c] = "none"] /\ terminal' = terminal
    BY <1>9 DEF read_lease_busy, capture_failed, UndoAdmission, controlVars
  <2>2. /\ Others(c) /\ cancelled' = cancelled /\ ~running[c] /\ pc'[c] = "done"
        /\ running' = running
    BY <1>1, <2>1, ExitMoves
  <2>3. Placed(c)' /\ PlaceTypes' /\ \A d \in Background \ {c} : stage'[d] = stage[d]
    BY <1>1, <2>1, <2>2 DEF Placed, Submitting, Computing, Stages
  <2> QED BY <1>1, <2>1, <2>2, <2>3, PlaceOthers
<1>10. ASSUME NEW c \in Background, capture(c)
       PROVE  PlaceInv'
  BY <1>10, PlaceThreads DEF capture, gateVars, controlVars, Submitting, Stages
<1>11. ASSUME NEW c \in Background, start_worker(c)
       PROVE  PlaceInv'
  <2>1. /\ hand_off(c) /\ stage[c] = "captured" /\ stage' = [stage EXCEPT ![c] = "worker"]
        /\ terminal' = terminal
    BY <1>11 DEF start_worker, controlVars
  <2>2. /\ Others(c) /\ cancelled' = cancelled /\ pc'[c] = "handoff"
        /\ pc[c] = "body" /\ running' = [running EXCEPT ![c] = TRUE]
    BY <1>1, <2>1, ExitMoves
  <2>3. Placed(c)' /\ PlaceTypes' /\ \A d \in Background \ {c} : stage'[d] = stage[d]
    BY <1>1, <2>1, <2>2 DEF Placed, Submitting, Computing, Stages
  <2> QED BY <1>1, <2>1, <2>2, <2>3, PlaceOthers
<1>12. ASSUME NEW c \in Background, reject(c) \/ compute_begin(c) \/ compute_end(c) \/ seal(c)
       PROVE  PlaceInv'
  <2>1. UNCHANGED <<pc, running, cancelled, terminal>>
    BY <1>12 DEF reject, compute_begin, compute_end, seal, gateVars, controlVars
  <2>2. CASE reject(c) \/ compute_begin(c)
    BY <2>1, <2>2, PlaceThreads DEF reject, compute_begin, InWorker, Computing, Stages
  <2>3. CASE compute_end(c) \/ seal(c)
    BY <2>1, <2>3, PlaceThreads DEF compute_end, seal, Computing, Stages
  <2> QED BY <1>12, <2>2, <2>3
<1>13. ASSUME NEW c \in Background, worker_leaves(c)
       PROVE  PlaceInv'
  <2>1. leave_worker(c) /\ stage[c] = "sealed" /\ UNCHANGED <<stage, terminal>>
    BY <1>13 DEF worker_leaves, controlVars
  <2>2. /\ Others(c) /\ cancelled' = cancelled /\ running[c] /\ running' = running
        /\ pc'[c] = "finishing"
    BY <1>1, <2>1, ExitMoves
  <2>3. Placed(c)'
    BY <1>1, <2>1, <2>2 DEF Placed, Submitting, Computing
  <2> QED BY <1>1, <2>1, <2>2, <2>3, PlaceOthers
<1>14. ASSUME NEW c \in Background, finish(c)
       PROVE  PlaceInv'
  <2>1. /\ pc[c] = "finishing" /\ pc' = [pc EXCEPT ![c] = "done"]
        /\ stage' = [stage EXCEPT ![c] = "closed"] /\ terminal' = [terminal EXCEPT ![c] = TRUE]
        /\ UNCHANGED <<running, cancelled>>
    BY <1>14 DEF finish, task_done
  <2>2. running[c] /\ ~cancelled[c]
    BY <1>1, <2>1 DEF Placed, Submitting, Computing, Stages
  <2>3. Placed(c)' /\ PlaceTypes' /\ Others(c)
    BY <1>1, <2>1, <2>2 DEF Placed, Submitting, Computing, Stages, Others
  <2> QED BY <1>1, <2>1, <2>3, PlaceOthers
<1>15. ASSUME NEW c \in Background,
              publication_guard(c) \/ worker_releases(c) \/ close_lease(c) \/ cancel(c)
       PROVE  PlaceInv'
  BY <1>2, <1>15 DEF publication_guard, worker_releases, release_operation, close_lease, cancel,
     gateVars, controlVars
<1>16. ASSUME NEW s \in Sessions, close_session(s) \/ close_session_ends(s) \/ engine_dies(s)
       PROVE  PlaceInv'
  BY <1>2, <1>16 DEF close_session, close_session_ends, engine_dies, gateVars, controlVars
<1>17. ASSUME NEW u, take_write_lease(u) \/ install_begin(u) \/ install(u)
                     \/ drop_write_lease(u) \/ foreign_install(u)
       PROVE  PlaceInv'
  BY <1>2, <1>17 DEF take_write_lease, install_begin, maintenance_begin, install,
     maintenance_end, drop_write_lease, foreign_install, gateVars, controlVars
<1>18. ASSUME NEW c \in Calls, get_begin(c)
       PROVE  PlaceInv'
  BY <1>2, <1>18 DEF get_begin, gateVars, controlVars
<1>19. CASE UNCHANGED vars
  BY <1>2, <1>19 DEF vars, gateVars, controlVars
<1> QED BY <1>3, <1>4, <1>5, <1>6, <1>7, <1>8, <1>9, <1>10, <1>11, <1>12, <1>13, <1>14, <1>15,
     <1>16, <1>17, <1>18, <1>19 DEF Next

----------------------------------------------------------------------------
(* The end of a worker, and its reservation *)

\* A worker that has left its body has the event loop until it is done, so
\* that nobody enters the session meanwhile.
FinishInv ==
    \A c \in Background : pc[c] = "finishing" =>
        /\ loop = c
        /\ \A d \in Calls \ {c} : SessionOf[d] = SessionOf[c] => pc[d] # "body"

\* Only an operation between its submission and its end reserves its session.
ReserveInv ==
    \A c \in Background : operation_id[SessionOf[c]] = c => stage[c] \notin {"none", "closed"}

\* What the gate lets happen beside a worker that is finishing.
LEMMA FinishOthers ==
    ASSUME IInv, FinishInv, NEW c \in Calls, Others(c),
           loop' = loop \/ LoopFor(c),
           pc'[c] = "body" /\ pc[c] # "body" => LoopFor(c),
           c \in Background /\ pc'[c] = "finishing" =>
              /\ loop' = c
              /\ \A d \in Calls \ {c} : SessionOf[d] = SessionOf[c] => pc[d] # "body"
    PROVE  FinishInv'
<1> SUFFICES ASSUME NEW d \in Background, pc'[d] = "finishing"
             PROVE  /\ loop' = d
                    /\ \A e \in Calls \ {d} : SessionOf[e] = SessionOf[d] => pc'[e] # "body"
  BY DEF FinishInv
<1>1. d \in Calls /\ d # None
  BY CallsTyped DEF Calls
<1>2. \A e \in Calls \ {c} : pc'[e] = "body" => pc[e] = "body"
  BY DEF Others
<1>3. CASE d = c
  BY <1>2, <1>3
<1>4. CASE d # c
  <2>1. pc[d] = "finishing"
    BY <1>1, <1>4 DEF Others
  <2>2. /\ loop = d
        /\ \A e \in Calls \ {d} : SessionOf[e] = SessionOf[d] => pc[e] # "body"
    BY <2>1 DEF FinishInv
  <2>3. ~LoopFor(c)
    BY <1>1, <1>4, <2>2 DEF LoopFor
  <2> QED BY <1>2, <2>2, <2>3
<1> QED BY <1>3, <1>4

LEMMA FinishStep ==
    ASSUME IInv, PlaceInv, FinishInv, [Next]_vars
    PROVE  FinishInv'
<1> USE CallsTyped
<1>1. /\ pc \in [Calls -> PCs] /\ Background \subseteq Calls
      /\ \A c \in Background : Placed(c) /\ stage[c] \in Stages
  <2>1. Background \subseteq Calls
    BY DEF Calls
  <2> QED BY <2>1 DEF IInv, GateTypeOK, PlaceInv, PlaceTypes
<1>2. CASE UNCHANGED <<pc, loop>>
  BY <1>2 DEF FinishInv
<1>3. ASSUME NEW c \in Calls, gate_step(c)
      PROVE  FinishInv'
  <2>1. /\ Others(c) /\ (loop' = loop \/ LoopFor(c))
        /\ pc'[c] = "body" /\ pc[c] # "body" => LoopFor(c)
    BY <1>3, GateStepMoves
  <2>2. c \in Background => pc'[c] # "finishing"
    <3>1. CASE c \in Background /\ running[c]
      BY <1>3, <3>1, GateStepMoves
    <3>2. CASE c \in Background /\ ~running[c]
      BY <1>3, <3>2, GateStepMoves
    <3> QED BY <3>1, <3>2
  <2>3. c \in Background /\ pc'[c] = "finishing" =>
            /\ loop' = c
            /\ \A d \in Calls \ {c} : SessionOf[d] = SessionOf[c] => pc[d] # "body"
    BY <2>2
  <2> QED BY <2>1, <2>3, FinishOthers
<1>4. ASSUME NEW c \in Calls, tool_ends(c)
      PROVE  FinishInv'
  <2>1. Others(c) /\ pc'[c] = "done" /\ loop' = loop
    BY <1>4, ExitMoves DEF tool_ends
  <2> QED BY <2>1, FinishOthers
<1>5. ASSUME NEW c \in Background, submit_refused(c)
      PROVE  FinishInv'
  <2>1. Others(c) /\ pc'[c] = "done" /\ loop' = loop
    BY <1>1, <1>5 DEF submit_refused, Others
  <2> QED BY <1>1, <2>1, FinishOthers
<1>6. ASSUME NEW c \in Background, submit(c) \/ submit_wakes(c)
      PROVE  FinishInv'
  <2>1. ~running[c] /\ (hold_nowait(c) \/ wake_up(c))
    BY <1>1, <1>6 DEF submit, submit_wakes, hold_nowait, Placed, Submitting, Computing, Stages
  <2>2. Others(c) /\ LoopFor(c) /\ pc'[c] # "finishing"
    BY <2>1, EntryMoves
  <2> QED BY <1>1, <2>2, FinishOthers
<1>7. ASSUME NEW c \in Background, take_read_lease(c)
      PROVE  FinishInv'
  <2>1. pc' = pc /\ LoopFor(c) /\ pc[c] = "body"
    BY <1>7 DEF take_read_lease, await_admission, LoopFor, Admitting
  <2>2. Others(c)
    BY <1>7 DEF take_read_lease, await_admission, Others
  <2> QED BY <1>1, <2>1, <2>2, FinishOthers
<1>8. ASSUME NEW c \in Background, read_lease_busy(c) \/ capture_failed(c) \/ start_worker(c)
      PROVE  FinishInv'
  <2>1. fail_admission(c) \/ hand_off(c)
    BY <1>8 DEF read_lease_busy, capture_failed, UndoAdmission, start_worker
  <2>2. Others(c) /\ LoopFor(c) /\ pc'[c] \in {"done", "handoff"}
    BY <1>1, <2>1, ExitMoves
  <2> QED BY <1>1, <2>2, FinishOthers
<1>9. ASSUME NEW c \in Background, worker_leaves(c)
      PROVE  FinishInv'
  <2>1. leave_worker(c)
    BY <1>9 DEF worker_leaves
  <2>2. Others(c) /\ LoopFor(c) /\ pc[c] = "body" /\ pc'[c] = "finishing" /\ loop' = c
    BY <1>1, <2>1, ExitMoves
  <2>3. \A d \in Calls \ {c} : SessionOf[d] = SessionOf[c] => pc[d] # "body"
    BY <1>1, <2>2 DEF IInv, LockInv, OneBodyPerSession
  <2> QED BY <1>1, <2>2, <2>3, FinishOthers
<1>10. ASSUME NEW c \in Background, finish(c)
       PROVE  FinishInv'
  <2>1. pc[c] = "finishing" /\ pc' = [pc EXCEPT ![c] = "done"]
    BY <1>10 DEF finish, task_done
  <2>2. LoopFor(c)
    BY <2>1 DEF FinishInv, LoopFor
  <2>3. Others(c) /\ pc'[c] = "done"
    BY <1>1, <1>10, <2>1 DEF finish, task_done, Others
  <2> QED BY <1>1, <2>2, <2>3, FinishOthers
<1>11. ASSUME NEW c \in Background,
              \/ capture(c) \/ reject(c) \/ compute_begin(c) \/ publication_guard(c)
              \/ compute_end(c) \/ seal(c) \/ worker_releases(c) \/ close_lease(c) \/ cancel(c)
       PROVE  FinishInv'
  BY <1>2, <1>11 DEF capture, reject, compute_begin, publication_guard, compute_end, seal,
     worker_releases, release_operation, close_lease, cancel, gateVars
<1>12. ASSUME NEW c \in Calls, get_begin(c) \/ get_end(c)
       PROVE  FinishInv'
  BY <1>2, <1>12 DEF get_begin, get_end, gateVars
<1>13. ASSUME NEW s \in Sessions, close_session(s) \/ close_session_ends(s) \/ engine_dies(s)
       PROVE  FinishInv'
  BY <1>2, <1>13 DEF close_session, close_session_ends, engine_dies, gateVars
<1>14. ASSUME NEW u, take_write_lease(u) \/ install_begin(u) \/ install(u)
                     \/ drop_write_lease(u) \/ foreign_install(u)
       PROVE  FinishInv'
  BY <1>2, <1>14 DEF take_write_lease, install_begin, maintenance_begin, install,
     maintenance_end, drop_write_lease, foreign_install, gateVars
<1>15. CASE UNCHANGED vars
  BY <1>2, <1>15 DEF vars, gateVars
<1> QED BY <1>3, <1>4, <1>5, <1>6, <1>7, <1>8, <1>9, <1>10, <1>11, <1>12, <1>13, <1>14, <1>15
     DEF Next

LEMMA ReserveStep ==
    ASSUME IInv, PlaceInv, PoolInv, ReserveInv, [Next]_vars
    PROVE  ReserveInv'
<1> USE CallsTyped
<1>1. /\ operation_id \in [Sessions -> Background \cup {None}] /\ stage \in [Background -> Stages]
      /\ Background \subseteq Calls /\ None \notin Background
      /\ \A c \in Background : Placed(c) /\ SessionOf[c] \in Sessions
  <2>1. Background \subseteq Calls
    BY DEF Calls
  <2> QED BY <2>1 DEF IInv, GateTypeOK, PlaceInv, PlaceTypes
<1>2. ASSUME operation_id' = operation_id,
             \A c \in Background : stage[c] \notin {"none", "closed"} =>
                                   stage'[c] \notin {"none", "closed"}
      PROVE  ReserveInv'
  BY <1>2 DEF ReserveInv
<1>3. ASSUME NEW c \in Calls, gate_step(c) \/ tool_ends(c)
      PROVE  ReserveInv'
  <2>1. CASE gate_step(c)
    BY <1>2, <2>1, GateStepMoves DEF gate_step
  <2>2. CASE tool_ends(c)
    BY <1>2, <2>2, ExitMoves DEF tool_ends
  <2> QED BY <1>3, <2>1, <2>2
<1>4. ASSUME NEW c \in Calls, get_end(c) \/ get_begin(c)
      PROVE  ReserveInv'
  BY <1>1, <1>2, <1>4 DEF get_end, get_begin, gateVars
<1>5. ASSUME NEW c \in Background, submit(c) \/ submit_wakes(c)
      PROVE  ReserveInv'
  <2>1. ~running[c] /\ (hold_nowait(c) \/ wake_up(c)) /\ RegisterIfEntered(c)
    BY <1>1, <1>5 DEF submit, submit_wakes, hold_nowait, Placed, Submitting, Computing, Stages
  <2>2. \/ /\ pc'[c] = "body" /\ operation_id[SessionOf[c]] = None
           /\ operation_id' = [operation_id EXCEPT ![SessionOf[c]] = c]
        \/ pc'[c] \in {"queued", "done"} /\ operation_id' = operation_id
    BY <2>1, EntryMoves
  <2>3. CASE pc'[c] = "body" /\ operation_id' = [operation_id EXCEPT ![SessionOf[c]] = c]
    BY <1>1, <2>1, <2>3 DEF ReserveInv, RegisterIfEntered, Register
  <2>4. CASE pc'[c] \in {"queued", "done"} /\ operation_id' = operation_id
    BY <1>2, <2>1, <2>4 DEF RegisterIfEntered
  <2> QED BY <2>2, <2>3, <2>4
<1>6. ASSUME NEW c \in Background, read_lease_busy(c) \/ capture_failed(c)
      PROVE  ReserveInv'
  <2>1. fail_admission(c) /\ stage' = [stage EXCEPT ![c] = "none"]
    BY <1>6 DEF read_lease_busy, capture_failed, UndoAdmission
  <2>2. operation_id' = [operation_id EXCEPT ![SessionOf[c]] = None]
    BY <1>1, <2>1, ExitMoves
  <2> QED BY <1>1, <2>1, <2>2 DEF ReserveInv
<1>7. ASSUME NEW c \in Background, take_read_lease(c) \/ start_worker(c) \/ worker_leaves(c)
      PROVE  ReserveInv'
  <2>1. operation_id' = operation_id
    BY <1>7 DEF take_read_lease, await_admission, start_worker, hand_off, worker_leaves, leave_worker
  <2>2. stage' = stage \/ stage' = [stage EXCEPT ![c] = "capturing"]
                       \/ stage' = [stage EXCEPT ![c] = "worker"]
    BY <1>7 DEF take_read_lease, start_worker, worker_leaves
  <2> QED BY <1>1, <1>2, <2>1, <2>2
<1>8. ASSUME NEW c \in Background, worker_releases(c)
      PROVE  ReserveInv'
  BY <1>1, <1>8 DEF worker_releases, release_operation, ReserveInv
<1>9. ASSUME NEW c \in Background, finish(c)
      PROVE  ReserveInv'
  BY <1>1, <1>9 DEF finish, task_done, ReserveInv
<1>10. ASSUME NEW c \in Background, capture(c) \/ reject(c) \/ compute_begin(c)
                                    \/ compute_end(c) \/ seal(c)
       PROVE  ReserveInv'
  <2>1. operation_id' = operation_id
    BY <1>10 DEF capture, reject, compute_begin, compute_end, seal, gateVars
  <2>2. \E x \in Stages \ {"none", "closed"} : stage' = [stage EXCEPT ![c] = x]
    BY <1>10 DEF capture, reject, compute_begin, compute_end, seal, Stages
  <2> QED BY <1>1, <1>2, <2>1, <2>2
<1>11. ASSUME NEW c \in Background,
              submit_refused(c) \/ publication_guard(c) \/ close_lease(c) \/ cancel(c)
       PROVE  ReserveInv'
  BY <1>2, <1>11 DEF submit_refused, publication_guard, close_lease, cancel, gateVars
<1>12. ASSUME NEW s \in Sessions, close_session(s) \/ close_session_ends(s) \/ engine_dies(s)
       PROVE  ReserveInv'
  BY <1>2, <1>12 DEF close_session, close_session_ends, engine_dies, gateVars
<1>13. ASSUME NEW u, take_write_lease(u) \/ install_begin(u) \/ install(u)
                     \/ drop_write_lease(u) \/ foreign_install(u)
       PROVE  ReserveInv'
  BY <1>2, <1>13 DEF take_write_lease, install_begin, maintenance_begin, install,
     maintenance_end, drop_write_lease, foreign_install, gateVars
<1>14. CASE UNCHANGED vars
  BY <1>2, <1>14 DEF vars, gateVars
<1> QED BY <1>3, <1>4, <1>5, <1>6, <1>7, <1>8, <1>9, <1>10, <1>11, <1>12, <1>13, <1>14
     DEF Next

\* Nobody is back in a body after its end.
LEMMA FinishingStays ==
    ASSUME IInv, PlaceInv, [Next]_vars
    PROVE  \A c \in Background : pc[c] = "finishing" => pc'[c] # "body"
<1> USE CallsTyped
<1>1. /\ pc \in [Calls -> PCs] /\ Background \subseteq Calls
      /\ \A c \in Background : Placed(c) /\ stage[c] \in Stages
  <2>1. Background \subseteq Calls
    BY DEF Calls
  <2> QED BY <2>1 DEF IInv, GateTypeOK, PlaceInv, PlaceTypes
<1>2. ASSUME NEW c \in Calls, Others(c), c \in Background => pc[c] # "finishing" \/ pc'[c] # "body"
      PROVE  \A d \in Background : pc[d] = "finishing" => pc'[d] # "body"
  BY <1>1, <1>2 DEF Others
<1>3. ASSUME NEW c \in Calls, gate_step(c)
      PROVE  \A d \in Background : pc[d] = "finishing" => pc'[d] # "body"
  <2>1. Others(c)
    BY <1>3, GateStepMoves
  <2>2. c \in Background => pc[c] # "finishing"
    <3>1. CASE c \in Background /\ running[c]
      <4>1. stage[c] = "worker"
        BY <1>3, <3>1, GateStepMoves
      <4> QED BY <1>1, <3>1, <4>1 DEF Placed
    <3>2. CASE c \in Background /\ ~running[c]
      BY <1>3, <3>2, GateStepMoves
    <3> QED BY <3>1, <3>2
  <2> QED BY <1>2, <2>1, <2>2
<1>4. ASSUME NEW c \in Calls, tool_ends(c)
      PROVE  \A d \in Background : pc[d] = "finishing" => pc'[d] # "body"
  BY <1>2, <1>4, ExitMoves DEF tool_ends
<1>5. ASSUME NEW c \in Background, submit(c) \/ submit_wakes(c)
      PROVE  \A d \in Background : pc[d] = "finishing" => pc'[d] # "body"
  <2>1. ~running[c] /\ (hold_nowait(c) \/ wake_up(c))
    BY <1>1, <1>5 DEF submit, submit_wakes, hold_nowait, Placed, Submitting, Computing, Stages
  <2> QED BY <1>1, <1>2, <2>1, EntryMoves
<1>6. ASSUME NEW c \in Background,
             read_lease_busy(c) \/ capture_failed(c) \/ start_worker(c) \/ worker_leaves(c)
      PROVE  \A d \in Background : pc[d] = "finishing" => pc'[d] # "body"
  <2>1. fail_admission(c) \/ hand_off(c) \/ leave_worker(c)
    BY <1>6 DEF read_lease_busy, capture_failed, UndoAdmission, start_worker, worker_leaves
  <2> QED BY <1>1, <1>2, <2>1, ExitMoves
<1>7. ASSUME NEW c \in Background, submit_refused(c) \/ finish(c)
      PROVE  \A d \in Background : pc[d] = "finishing" => pc'[d] # "body"
  BY <1>1, <1>7 DEF submit_refused, finish, task_done
<1>8. CASE pc' = pc
  BY <1>8
<1>9. ASSUME NEW c \in Background,
             \/ take_read_lease(c) \/ capture(c) \/ reject(c) \/ compute_begin(c)
             \/ publication_guard(c) \/ compute_end(c) \/ seal(c) \/ worker_releases(c)
             \/ close_lease(c) \/ cancel(c)
      PROVE  pc' = pc
  BY <1>9 DEF take_read_lease, await_admission, capture, reject, compute_begin,
     publication_guard, compute_end, seal, worker_releases, release_operation, close_lease,
     cancel, gateVars
<1>10. ASSUME NEW c \in Calls, get_begin(c) \/ get_end(c)
       PROVE  pc' = pc
  BY <1>10 DEF get_begin, get_end, gateVars
<1>11. ASSUME NEW s \in Sessions, close_session(s) \/ close_session_ends(s) \/ engine_dies(s)
       PROVE  pc' = pc
  BY <1>11 DEF close_session, close_session_ends, engine_dies, gateVars
<1>12. ASSUME NEW u, take_write_lease(u) \/ install_begin(u) \/ install(u)
                     \/ drop_write_lease(u) \/ foreign_install(u)
       PROVE  pc' = pc
  BY <1>12 DEF take_write_lease, install_begin, maintenance_begin, install,
     maintenance_end, drop_write_lease, foreign_install, gateVars
<1>13. UNCHANGED vars => pc' = pc
  BY DEF vars, gateVars
<1> QED BY <1>3, <1>4, <1>5, <1>6, <1>7, <1>8, <1>9, <1>10, <1>11, <1>12, <1>13 DEF Next

----------------------------------------------------------------------------
(* The runtime lease *)

Captured == {"captured", "worker", "computing", "returned", "rejected", "sealed"}

EngineTypes ==
    /\ gen \in [Sessions -> Nat]
    /\ alive \in [Sessions -> BOOLEAN]
    /\ build \in [Sessions -> Builds \cup {Probe}]
    /\ recovery \in [Sessions -> BOOLEAN]
    /\ pool_lock \in Calls \cup {None}

LeaseTypes ==
    /\ lease \in [Background -> BOOLEAN]
    /\ captured \in [Background -> [gen : Nat, build : Builds \cup {Probe}, runtime : Nat]]
    /\ runtime \in Nat
    /\ write_lease \in Maintainers \cup Foreign \cup {None}

\* An operation holds its read lease from before its capture until its worker
\* has left its body; while anybody does, nobody installs, so that the runtime
\* is the one that was captured.
Leased(c) ==
    /\ lease[c] => write_lease = None
    /\ stage[c] \in {"capturing", "uncaptured"} \cup Captured /\ pc[c] # "finishing" => lease[c]
    /\ stage[c] \in {"none", "leasing", "closed"} => ~lease[c]
    /\ stage[c] \in Captured /\ lease[c] => runtime = captured[c].runtime

LeaseInv == LeaseTypes /\ \A c \in Background : Leased(c)

LEMMA LeaseStep ==
    ASSUME IInv, PlaceInv, PlaceInv', PoolInv, EngineTypes, LeaseInv, [Next]_vars
    PROVE  LeaseInv'
<1> USE CallsTyped, UpdatersNamed DEF LeaseTypes
<1>1. /\ stage \in [Background -> Stages] /\ Background \subseteq Calls
      /\ \A c \in Background : Placed(c) /\ Leased(c)
      /\ \A c \in Background : Placed(c)'
  <2>1. Background \subseteq Calls
    BY DEF Calls
  <2> QED BY <2>1 DEF PlaceInv, PlaceTypes, LeaseInv
<1>2. \A c \in Background : pc[c] = "finishing" => pc'[c] # "body"
  BY FinishingStays
<1>3. ASSUME NEW c \in Background,
             UNCHANGED <<stage[c], lease[c], captured[c], runtime, write_lease>>
      PROVE  Leased(c)'
  <2>1. stage[c] \in Submitting \cup {"worker"} \cup Computing => pc[c] # "finishing"
    BY <1>1 DEF Placed, Submitting, Computing
  <2>2. stage[c] = "sealed" /\ pc'[c] # "finishing" => pc[c] # "finishing"
    BY <1>1, <1>2, <1>3 DEF Placed
  <2>3. Leased(c) /\ stage[c] \in Stages
    BY <1>1
  <2> QED BY <1>3, <2>1, <2>2, <2>3 DEF Leased, Captured, Submitting, Computing, Stages
<1>4. CASE UNCHANGED <<stage, lease, captured, runtime, write_lease>>
  BY <1>1, <1>3, <1>4 DEF LeaseInv
<1>5. ASSUME NEW c \in Background, UNCHANGED <<captured, runtime, write_lease>>,
             \E x \in Stages : stage' = [stage EXCEPT ![c] = x],
             \E y \in BOOLEAN : lease' = [lease EXCEPT ![c] = y],
             Leased(c)'
      PROVE  LeaseInv'
  <2>1. LeaseTypes'
    BY <1>5 DEF LeaseInv
  <2>2. ASSUME NEW d \in Background \ {c} PROVE Leased(d)'
    BY <1>1, <1>3, <1>5
  <2> QED BY <1>5, <2>1, <2>2 DEF LeaseInv
<1>6. lease \in [Background -> BOOLEAN] /\ captured \in
        [Background -> [gen : Nat, build : Builds \cup {Probe}, runtime : Nat]]
      /\ runtime \in Nat
  BY DEF LeaseInv
<1>7. ASSUME NEW c \in Calls, gate_step(c) \/ tool_ends(c) \/ get_begin(c)
      PROVE  LeaseInv'
  BY <1>4, <1>7 DEF gate_step, tool_ends, get_begin, runtimeVars
<1>8. ASSUME NEW c \in Calls, get_end(c)
      PROVE  LeaseInv'
  <2>1. CASE stage' = stage
    BY <1>4, <1>8, <2>1 DEF get_end, runtimeVars
  <2>2. CASE c \in Background /\ stage' = [stage EXCEPT ![c] = "uncaptured"]
    <3>1. stage[c] = "capturing" /\ UNCHANGED <<lease, captured, runtime, write_lease>>
      BY <1>8, <2>2 DEF get_end, runtimeVars, PoolInv
    <3>2. pc[c] = "body" /\ Leased(c)
      BY <1>1, <2>2, <3>1 DEF Placed, Submitting
    <3>3. Leased(c)' /\ "uncaptured" \in Stages
      BY <1>1, <2>2, <3>1, <3>2 DEF Leased, Captured, Stages
    <3> QED BY <1>5, <1>6, <2>2, <3>1, <3>3
  <2> QED BY <1>8, <2>1, <2>2 DEF get_end
<1>9. ASSUME NEW c \in Background, submit(c) \/ submit_wakes(c)
      PROVE  LeaseInv'
  <2>1. /\ ~running[c] /\ (hold_nowait(c) \/ wake_up(c)) /\ RegisterIfEntered(c)
        /\ UNCHANGED <<lease, captured, runtime, write_lease>>
    BY <1>1, <1>9 DEF submit, submit_wakes, hold_nowait, Placed, Submitting, Computing, Stages,
       runtimeVars
  <2>2. stage[c] = "none"
    BY <2>1, EntryMoves
  <2>3. CASE stage' = stage
    BY <1>4, <2>1, <2>3
  <2>4. CASE stage' = [stage EXCEPT ![c] = "leasing"]
    <3>1. Leased(c)' /\ "leasing" \in Stages
      BY <1>1, <2>1, <2>2, <2>4 DEF Leased, Captured, Stages
    <3> QED BY <1>5, <1>6, <2>1, <2>4, <3>1
  <2> QED BY <2>1, <2>3, <2>4 DEF RegisterIfEntered, Register
<1>10. ASSUME NEW c \in Background, take_read_lease(c)
       PROVE  LeaseInv'
  <2>1. /\ stage[c] = "leasing" /\ write_lease = None /\ lease' = [lease EXCEPT ![c] = TRUE]
        /\ stage' = [stage EXCEPT ![c] = "capturing"]
        /\ UNCHANGED <<captured, runtime, write_lease>>
    BY <1>10 DEF take_read_lease, runtimeVars
  <2>2. Leased(c)' /\ "capturing" \in Stages
    BY <1>1, <1>6, <2>1 DEF Leased, Captured, Stages
  <2> QED BY <1>5, <2>1, <2>2
<1>11. ASSUME NEW c \in Background, read_lease_busy(c) \/ capture_failed(c)
       PROVE  LeaseInv'
  <2>1. /\ lease' = [lease EXCEPT ![c] = FALSE] /\ stage' = [stage EXCEPT ![c] = "none"]
        /\ UNCHANGED <<captured, runtime, write_lease>>
    BY <1>11 DEF read_lease_busy, capture_failed, UndoAdmission, runtimeVars
  <2>2. Leased(c)' /\ "none" \in Stages
    BY <1>1, <1>6, <2>1 DEF Leased, Captured, Stages
  <2> QED BY <1>5, <2>1, <2>2
<1>12. ASSUME NEW c \in Background, capture(c)
       PROVE  LeaseInv'
  <2>1. /\ stage[c] = "capturing" /\ UNCHANGED <<lease, runtime, write_lease>>
    BY <1>12 DEF capture, runtimeVars
  <2>2. lease[c] /\ write_lease = None
    BY <1>1, <2>1 DEF Leased, Placed, Submitting
  <2>3. CASE stage' = [stage EXCEPT ![c] = "uncaptured"] /\ captured' = captured
    <3>1. Leased(c)' /\ "uncaptured" \in Stages
      BY <1>1, <2>1, <2>2, <2>3 DEF Leased, Captured, Stages
    <3> QED BY <1>5, <1>6, <2>1, <2>3, <3>1
  <2>4. CASE /\ stage' = [stage EXCEPT ![c] = "captured"]
             /\ captured' = [captured EXCEPT ![c] =
                  [gen |-> gen[SessionOf[c]], build |-> build[SessionOf[c]], runtime |-> runtime]]
    <3>0. gen[SessionOf[c]] \in Nat /\ build[SessionOf[c]] \in Builds \cup {Probe}
      BY <1>1 DEF EngineTypes
    <3>1. captured'[c].runtime = runtime /\ LeaseTypes'
      BY <1>6, <2>1, <2>4, <3>0 DEF LeaseInv
    <3>2. Leased(c)'
      BY <1>1, <2>1, <2>2, <2>4, <3>1 DEF Leased, Captured, Stages
    <3>3. ASSUME NEW d \in Background \ {c} PROVE Leased(d)'
      BY <1>1, <1>3, <1>6, <2>1, <2>4
    <3> QED BY <3>1, <3>2, <3>3 DEF LeaseInv
  <2> QED BY <1>12, <2>3, <2>4 DEF capture
<1>13. ASSUME NEW c \in Background,
              \/ start_worker(c) \/ reject(c) \/ compute_begin(c) \/ compute_end(c) \/ seal(c)
       PROVE  LeaseInv'
  <2>1. UNCHANGED <<lease, captured, runtime, write_lease>>
    BY <1>13 DEF start_worker, reject, compute_begin, compute_end, seal, runtimeVars
  <2>2. PICK x \in Captured : stage' = [stage EXCEPT ![c] = x]
    BY <1>13 DEF start_worker, reject, compute_begin, compute_end, seal, Captured
  <2>3. stage[c] \in {"captured", "worker"} \cup Computing
    BY <1>13 DEF start_worker, reject, compute_begin, compute_end, seal, Computing
  <2>4. pc[c] # "finishing"
    BY <1>1, <2>3 DEF Placed, Submitting, Computing
  <2>5. Leased(c)' /\ x \in Stages
    BY <1>1, <2>1, <2>2, <2>3, <2>4 DEF Leased, Captured, Stages, Computing
  <2> QED BY <1>5, <1>6, <2>1, <2>2, <2>5
<1>14. ASSUME NEW c \in Background, close_lease(c)
       PROVE  LeaseInv'
  <2>1. /\ pc' = pc /\ pc[c] = "finishing" /\ lease' = [lease EXCEPT ![c] = FALSE]
        /\ UNCHANGED <<stage, captured, runtime, write_lease>>
    BY <1>14 DEF close_lease, gateVars, runtimeVars
  <2>2. Leased(c)' /\ stage' = [stage EXCEPT ![c] = stage[c]] /\ stage[c] \in Stages
    BY <1>1, <1>6, <2>1 DEF Leased, Captured, Stages
  <2> QED BY <1>5, <2>1, <2>2
<1>15. ASSUME NEW c \in Background, finish(c)
       PROVE  LeaseInv'
  <2>1. /\ ~lease[c] /\ stage' = [stage EXCEPT ![c] = "closed"]
        /\ UNCHANGED <<lease, captured, runtime, write_lease>>
    BY <1>15 DEF finish, runtimeVars
  <2>2. Leased(c)' /\ "closed" \in Stages
    BY <1>1, <2>1 DEF Leased, Captured, Stages
  <2> QED BY <1>5, <1>6, <2>1, <2>2
<1>16. ASSUME NEW u \in Maintainers \cup Foreign, take_write_lease(u)
       PROVE  LeaseInv'
  <2>1. /\ \A c \in Background : ~lease[c]
        /\ write_lease' = u /\ UNCHANGED <<pc, stage, lease, captured, runtime>>
    BY <1>16 DEF take_write_lease, gateVars
  <2> QED BY <1>1, <1>6, <2>1 DEF LeaseInv, Leased
<1>17. ASSUME NEW u \in Maintainers \cup Foreign, install(u) \/ foreign_install(u)
       PROVE  LeaseInv'
  <2>1. write_lease = u /\ write_lease' \in {u, None} /\ runtime' = runtime + 1
        /\ UNCHANGED <<pc, stage, lease, captured>>
    BY <1>17 DEF install, maintenance_end, foreign_install, gateVars
  <2>2. \A c \in Background : ~lease[c]
    BY <1>1, <2>1 DEF Leased
  <2> QED BY <1>1, <1>6, <2>1, <2>2 DEF LeaseInv, Leased
<1>18. ASSUME NEW u \in Maintainers, drop_write_lease(u)
       PROVE  LeaseInv'
  <2>1. write_lease' = None /\ UNCHANGED <<pc, stage, lease, captured, runtime>>
    BY <1>18 DEF drop_write_lease, gateVars
  <2> QED BY <1>1, <1>6, <2>1 DEF LeaseInv, Leased
<1>19. ASSUME NEW u \in Maintainers, install_begin(u)
       PROVE  LeaseInv'
  BY <1>4, <1>19 DEF install_begin, runtimeVars
<1>20. ASSUME NEW c \in Background,
              \/ submit_refused(c) \/ publication_guard(c) \/ worker_leaves(c)
              \/ worker_releases(c) \/ cancel(c)
       PROVE  LeaseInv'
  BY <1>4, <1>20 DEF submit_refused, publication_guard, worker_leaves, worker_releases, cancel,
     runtimeVars
<1>21. ASSUME NEW s \in Sessions, close_session(s) \/ close_session_ends(s) \/ engine_dies(s)
       PROVE  LeaseInv'
  BY <1>4, <1>21 DEF close_session, close_session_ends, engine_dies, runtimeVars
<1>22. CASE UNCHANGED vars
  BY <1>4, <1>22 DEF vars, runtimeVars
<1> QED BY <1>7, <1>8, <1>9, <1>10, <1>11, <1>12, <1>13, <1>14, <1>15, <1>16, <1>17, <1>18,
     <1>19, <1>20, <1>21, <1>22 DEF Next

\* No update replaces the runtime under an operation.
LEMMA LeaseHolds == PlaceInv /\ LeaseInv => RuntimeHeld
BY DEF LeaseInv, Leased, Captured, RuntimeHeld

----------------------------------------------------------------------------
(* Stops and the outcome *)

BucketTypes ==
    /\ bucket \in [Sessions -> {"none", "open", "closing"}]
    /\ active \in [Sessions -> Background \cup {None}]
    /\ records \in [Sessions -> Seq(Background)]
    /\ closed \in [Sessions -> BOOLEAN]
    /\ closing_on \in [Sessions -> Background \cup {None}]
    /\ late \in [Background -> BOOLEAN]

ControlTypes ==
    /\ stop \in [Background -> {"none", "cancelled", "budget_exceeded"}]
    /\ published \in [Background -> BOOLEAN]
    /\ outcome \in [Background -> Outcomes]

\* A stop is accepted before the publication only, and whoever publishes has
\* looked for one.
Controlled(c) ==
    /\ stage[c] \in {"none", "worker"} \cup Submitting => ~published[c] /\ outcome[c] = "none"
    /\ stage[c] \in {"computing", "returned"} /\ published[c] => stop[c] = "none"
    /\ stage[c] = "rejected" => ~published[c] /\ outcome[c] # "completed"
    /\ stage[c] \in {"sealed", "closed"} =>
        published[c] /\ (outcome[c] = "completed" => stop[c] = "none")

ControlInv == ControlTypes /\ \A c \in Background : Controlled(c)

LEMMA ControlStep ==
    ASSUME IInv, PlaceInv, PoolInv, BucketTypes, ControlInv, [Next]_vars
    PROVE  ControlInv'
<1> USE DEF ControlTypes
<1>1. /\ stage \in [Background -> Stages] /\ Background \subseteq Calls
      /\ \A c \in Background : Placed(c) /\ Controlled(c)
      /\ stop \in [Background -> {"none", "cancelled", "budget_exceeded"}]
      /\ published \in [Background -> BOOLEAN] /\ outcome \in [Background -> Outcomes]
  <2>1. Background \subseteq Calls
    BY DEF Calls
  <2> QED BY <2>1 DEF PlaceInv, PlaceTypes, ControlInv
<1>2. CASE UNCHANGED <<stage, stop, published, outcome>>
  BY <1>1, <1>2 DEF ControlInv, Controlled
<1>3. ASSUME NEW c \in Background, UNCHANGED <<stop, published, outcome>>,
             stage' = [stage EXCEPT ![c] = stage'[c]], Controlled(c)'
      PROVE  ControlInv'
  BY <1>1, <1>3 DEF ControlInv, Controlled
<1>4. ASSUME NEW c \in Background,
             \E x \in Stages : stage' = [stage EXCEPT ![c] = x],
             \E x \in {"none", "cancelled", "budget_exceeded"} : stop' = [stop EXCEPT ![c] = x],
             \E x \in BOOLEAN : published' = [published EXCEPT ![c] = x],
             \E x \in Outcomes : outcome' = [outcome EXCEPT ![c] = x],
             Controlled(c)'
      PROVE  ControlInv'
  <2>1. ControlTypes'
    BY <1>1, <1>4
  <2>2. ASSUME NEW d \in Background \ {c} PROVE Controlled(d)'
    <3>1. /\ stage'[d] = stage[d] /\ stop'[d] = stop[d] /\ published'[d] = published[d]
          /\ outcome'[d] = outcome[d]
      BY <1>1, <1>4
    <3> QED BY <1>1, <3>1 DEF Controlled
  <2> QED BY <1>4, <2>1, <2>2 DEF ControlInv
<1>5. ASSUME NEW c \in Background
      PROVE  /\ stage = [stage EXCEPT ![c] = stage[c]] /\ stage[c] \in Stages
             /\ stop = [stop EXCEPT ![c] = stop[c]]
             /\ stop[c] \in {"none", "cancelled", "budget_exceeded"}
             /\ published = [published EXCEPT ![c] = published[c]] /\ published[c] \in BOOLEAN
             /\ outcome = [outcome EXCEPT ![c] = outcome[c]] /\ outcome[c] \in Outcomes
  BY <1>1, <1>5
<1>6. ASSUME NEW c \in Background, NEW x \in Stages, stage' = [stage EXCEPT ![c] = x],
             UNCHANGED <<stop, published, outcome>>,
             \/ stage[c] \in {"none"} \cup Submitting /\ x \in {"none", "worker"} \cup Submitting
             \/ stage[c] = "worker" /\ x = "computing"
             \/ stage[c] = "sealed" /\ x = "closed"
      PROVE  ControlInv'
  <2>1. Controlled(c)'
    BY <1>1, <1>6 DEF Controlled, Submitting, Stages
  <2> QED BY <1>4, <1>5, <1>6, <2>1
<1>7. ASSUME NEW c \in Calls, gate_step(c) \/ tool_ends(c) \/ get_begin(c)
      PROVE  ControlInv'
  BY <1>2, <1>7 DEF gate_step, tool_ends, get_begin, controlVars
<1>8. ASSUME NEW c \in Calls, get_end(c)
      PROVE  ControlInv'
  <2>1. UNCHANGED <<stop, published, outcome>> /\ pool_lock = c
    BY <1>8 DEF get_end, controlVars
  <2>2. CASE stage' = stage
    BY <1>2, <2>1, <2>2
  <2>3. CASE c \in Background /\ stage' = [stage EXCEPT ![c] = "uncaptured"]
    <3>1. stage[c] = "capturing"
      BY <2>1, <2>3 DEF PoolInv
    <3> QED BY <1>6, <2>1, <2>3, <3>1 DEF Submitting, Stages
  <2> QED BY <1>8, <2>2, <2>3 DEF get_end
<1>9. ASSUME NEW c \in Background, submit(c) \/ submit_wakes(c)
      PROVE  ControlInv'
  <2>1. /\ ~running[c] /\ (hold_nowait(c) \/ wake_up(c)) /\ RegisterIfEntered(c)
        /\ UNCHANGED <<stop, published, outcome>>
    BY <1>1, <1>9 DEF submit, submit_wakes, hold_nowait, Placed, Submitting, Computing, Stages,
       controlVars
  <2>2. stage[c] = "none"
    BY <2>1, EntryMoves
  <2>3. CASE stage' = stage
    BY <1>2, <2>1, <2>3
  <2>4. CASE stage' = [stage EXCEPT ![c] = "leasing"]
    BY <1>6, <2>1, <2>2, <2>4 DEF Submitting, Stages
  <2> QED BY <2>1, <2>3, <2>4 DEF RegisterIfEntered, Register
<1>10. ASSUME NEW c \in Background,
              \/ take_read_lease(c) \/ read_lease_busy(c) \/ capture_failed(c)
              \/ capture(c) \/ start_worker(c)
       PROVE  ControlInv'
  <2>1. UNCHANGED <<stop, published, outcome>> /\ stage[c] \in Submitting
    BY <1>10 DEF take_read_lease, read_lease_busy, capture_failed, UndoAdmission, capture,
       start_worker, controlVars, Submitting
  <2>2. PICK x \in {"none", "worker"} \cup Submitting : stage' = [stage EXCEPT ![c] = x]
    BY <1>10 DEF take_read_lease, read_lease_busy, capture_failed, UndoAdmission, capture,
       start_worker, Submitting
  <2> QED BY <1>6, <2>1, <2>2 DEF Submitting, Stages
<1>11. ASSUME NEW c \in Background, reject(c)
       PROVE  ControlInv'
  <2>1. /\ stage[c] = "worker" /\ stage' = [stage EXCEPT ![c] = "rejected"]
        /\ published' = published
    BY <1>11 DEF reject
  <2>2. PICK x \in Outcomes \ {"completed"} : outcome' = [outcome EXCEPT ![c] = x]
    BY <1>11 DEF reject, InputVerdict, Outcomes, Conflicts
  <2>3. PICK y \in {"none", "cancelled", "budget_exceeded"} : stop' = [stop EXCEPT ![c] = y]
    BY <1>5, <1>11 DEF reject
  <2>4. Controlled(c)'
    BY <1>1, <2>1, <2>2, <2>3 DEF Controlled, Submitting, Stages
  <2> QED BY <1>4, <1>5, <2>1, <2>2, <2>3, <2>4 DEF Stages
<1>12. ASSUME NEW c \in Background, compute_begin(c) \/ finish(c)
       PROVE  ControlInv'
  <2>1. UNCHANGED <<stop, published, outcome>>
    BY <1>12 DEF compute_begin, finish, controlVars
  <2>2. CASE compute_begin(c)
    BY <1>6, <2>1, <2>2 DEF compute_begin, Stages
  <2>3. CASE finish(c)
    <3>1. pc[c] = "finishing" /\ stage' = [stage EXCEPT ![c] = "closed"]
      BY <2>3 DEF finish, task_done
    <3>2. stage[c] = "sealed"
      BY <1>1, <3>1 DEF Placed, Submitting, Computing, Stages
    <3> QED BY <1>6, <2>1, <3>1, <3>2 DEF Stages
  <2> QED BY <1>12, <2>2, <2>3
<1>13. ASSUME NEW c \in Background, publication_guard(c)
       PROVE  ControlInv'
  <2>1. /\ stage[c] = "computing" /\ stop[c] = "none"
        /\ published' = [published EXCEPT ![c] = TRUE] /\ UNCHANGED <<stage, stop, outcome>>
    BY <1>13 DEF publication_guard, CheckPasses
  <2>2. Controlled(c)'
    BY <1>1, <2>1 DEF Controlled, Submitting
  <2> QED BY <1>4, <1>5, <2>1, <2>2
<1>14. ASSUME NEW c \in Background, compute_end(c)
       PROVE  ControlInv'
  <2>1. /\ stage[c] = "computing" /\ stage' = [stage EXCEPT ![c] = "returned"]
        /\ published' = published
    BY <1>14 DEF compute_end
  <2>2. PICK x \in Outcomes : outcome' = [outcome EXCEPT ![c] = x]
    BY <1>14 DEF compute_end, Outcomes
  <2>3. PICK y \in {"none", "cancelled", "budget_exceeded"} :
          stop' = [stop EXCEPT ![c] = y] /\ (published[c] => y = stop[c])
    BY <1>5, <1>14 DEF compute_end, CheckStops
  <2>4. Controlled(c)'
    BY <1>1, <2>1, <2>2, <2>3 DEF Controlled, Submitting, Stages
  <2> QED BY <1>4, <1>5, <2>1, <2>2, <2>3, <2>4 DEF Stages
<1>15. ASSUME NEW c \in Background, seal(c)
       PROVE  ControlInv'
  <2>1. /\ stage[c] \in {"returned", "rejected"} /\ stage' = [stage EXCEPT ![c] = "sealed"]
        /\ published' = [published EXCEPT ![c] = TRUE]
    BY <1>15 DEF seal
  <2>2. \/ outcome' = [outcome EXCEPT ![c] = "recovery_required"] /\ stop' = stop
        \/ /\ outcome[c] = "completed" => CheckPasses(c)
           /\ UNCHANGED <<outcome, stop>>
        \/ \E why \in {"cancelled", "budget_exceeded"} :
            stop' = [stop EXCEPT ![c] = why] /\ outcome' = [outcome EXCEPT ![c] = why]
    BY <1>15 DEF seal
  <2>3. /\ \E x \in Outcomes : outcome' = [outcome EXCEPT ![c] = x]
        /\ \E y \in {"none", "cancelled", "budget_exceeded"} : stop' = [stop EXCEPT ![c] = y]
        /\ outcome'[c] = "completed" => stop'[c] = "none"
    <3>1. CASE outcome' = [outcome EXCEPT ![c] = "recovery_required"] /\ stop' = stop
      BY <1>1, <1>5, <3>1 DEF Outcomes
    <3>2. CASE (outcome[c] = "completed" => CheckPasses(c)) /\ UNCHANGED <<outcome, stop>>
      <4>1. outcome[c] = "completed" => stop[c] = "none"
        BY <1>1, <2>1, <3>2 DEF CheckPasses, Controlled
      <4> QED BY <1>5, <3>2, <4>1
    <3>3. ASSUME NEW why \in {"cancelled", "budget_exceeded"},
                 stop' = [stop EXCEPT ![c] = why], outcome' = [outcome EXCEPT ![c] = why]
          PROVE  /\ \E x \in Outcomes : outcome' = [outcome EXCEPT ![c] = x]
                 /\ \E y \in {"none", "cancelled", "budget_exceeded"} :
                        stop' = [stop EXCEPT ![c] = y]
                 /\ outcome'[c] = "completed" => stop'[c] = "none"
      BY <1>1, <3>3 DEF Outcomes
    <3> QED BY <2>2, <3>1, <3>2, <3>3
  <2>4. Controlled(c)'
    BY <1>1, <2>1, <2>3 DEF Controlled, Submitting, Stages
  <2> QED BY <1>4, <1>5, <2>1, <2>3, <2>4 DEF Stages
<1>16. ASSUME NEW c \in Background, Cancellable(c), stop' = [stop EXCEPT ![c] = "cancelled"],
              UNCHANGED <<stage, published, outcome>>
       PROVE  ControlInv'
  <2>1. Controlled(c)'
    BY <1>1, <1>16 DEF Controlled, Cancellable
  <2> QED BY <1>4, <1>5, <1>16, <2>1
<1>17. ASSUME NEW c \in Background, cancel(c)
       PROVE  ControlInv'
  BY <1>16, <1>17 DEF cancel
<1>18. ASSUME NEW s \in Sessions, close_session(s)
       PROVE  ControlInv'
  <2>1. UNCHANGED <<stage, published, outcome>>
    BY <1>18 DEF close_session
  <2>2. CASE stop' = stop
    BY <1>2, <2>1, <2>2
  <2>3. CASE /\ active[s] # None /\ Cancellable(active[s])
             /\ stop' = [stop EXCEPT ![active[s]] = "cancelled"]
    <3>1. active[s] \in Background \cup {None}
      BY <1>18 DEF BucketTypes
    <3> QED BY <1>16, <2>1, <2>3, <3>1
  <2> QED BY <1>18, <2>2, <2>3 DEF close_session
<1>19. ASSUME NEW s \in Sessions, close_session_ends(s) \/ engine_dies(s)
       PROVE  ControlInv'
  BY <1>2, <1>19 DEF close_session_ends, engine_dies, controlVars
<1>20. ASSUME NEW c \in Background,
              submit_refused(c) \/ worker_leaves(c) \/ worker_releases(c) \/ close_lease(c)
       PROVE  ControlInv'
  BY <1>2, <1>20 DEF submit_refused, worker_leaves, worker_releases, close_lease, controlVars
<1>21. ASSUME NEW u, take_write_lease(u) \/ install_begin(u) \/ install(u)
                     \/ drop_write_lease(u) \/ foreign_install(u)
       PROVE  ControlInv'
  BY <1>2, <1>21 DEF take_write_lease, install_begin, install, drop_write_lease,
     foreign_install, controlVars
<1>22. CASE UNCHANGED vars
  BY <1>2, <1>22 DEF vars, controlVars
<1> QED BY <1>7, <1>8, <1>9, <1>10, <1>11, <1>12, <1>13, <1>14, <1>15, <1>17, <1>18, <1>19,
     <1>20, <1>21, <1>22 DEF Next

\* An accepted stop is honoured.
LEMMA ControlHolds == ControlInv => AcceptedStopNeverCompletes
BY DEF ControlInv, Controlled, AcceptedStopNeverCompletes

----------------------------------------------------------------------------
(* The engine *)

\* From its capture to its end an operation has its session's engine alone.
LEMMA Alone ==
    ASSUME IInv, PlaceInv, FinishInv, NEW c \in Background, stage[c] \in Submitting \cup Captured,
           NEW d \in Calls, pc[d] = "body", SessionOf[d] = SessionOf[c]
    PROVE  d = c
<1>1. Placed(c) /\ c \in Calls
  BY DEF PlaceInv, Calls
<1>2. CASE pc[c] = "finishing"
  BY <1>2 DEF FinishInv
<1>3. CASE pc[c] # "finishing"
  <2>1. Admitting(c) \/ (running[c] /\ pc[c] \notin {"finishing", "done"})
    BY <1>1, <1>3 DEF Placed, Submitting, Captured, Computing, Admitting
  <2> QED BY <1>1, <2>1 DEF IInv, ReservationExclusive
<1> QED BY <1>2, <1>3

\* The engine and its build are those that were captured, until the worker
\* computes, and again once it is sealed as completed.
Intact(c) ==
    /\ stage[c] \in {"captured", "worker"} =>
        /\ gen[SessionOf[c]] = captured[c].gen /\ build[SessionOf[c]] = captured[c].build
        /\ ~recovery[SessionOf[c]]
    /\ stage[c] = "sealed" /\ outcome[c] = "completed" =>
        build[SessionOf[c]] = captured[c].build /\ ~recovery[SessionOf[c]]

\* Of all that may have changed since the capture the worker only ever finds
\* the engine changed: it cannot look at it while another session starts one.
Unchanged(c) ==
    outcome[c] \in Conflicts =>
        outcome[c] = "compute_engine_changed" /\ \E s \in Sessions : s # SessionOf[c]

IntactInv == \A c \in Background : Intact(c) /\ Unchanged(c)

EngineInv == EngineTypes /\ PoolInv /\ IntactInv

\* A step of d reaches its own session's engine.
EngineOf(s) == <<gen[s], build[s], recovery[s]>>

LEMMA IntactOthers ==
    ASSUME IInv, PlaceInv, FinishInv, EngineInv, NEW c \in Background,
           UNCHANGED <<stage[c], outcome[c], captured[c]>>,
           \/ UNCHANGED EngineOf(SessionOf[c])
           \/ \E d \in Calls \ {c} : pc[d] = "body" /\ SessionOf[d] = SessionOf[c]
    PROVE  Intact(c)' /\ Unchanged(c)'
<1>1. Intact(c) /\ Unchanged(c)
  BY DEF EngineInv, IntactInv
<1>2. stage[c] \in {"captured", "worker", "sealed"} => UNCHANGED EngineOf(SessionOf[c])
  BY Alone DEF Captured
<1> QED BY <1>1, <1>2 DEF Intact, Unchanged, EngineOf

LEMMA PoolStep ==
    ASSUME IInv, PlaceInv, EngineTypes, LeaseTypes, PoolInv, [Next]_vars
    PROVE  EngineTypes' /\ PoolInv'
<1> USE CallsTyped
<1>1. /\ pc \in [Calls -> PCs] /\ stage \in [Background -> Stages] /\ Background \subseteq Calls
      /\ \A c \in Background : Placed(c)
  <2>1. Background \subseteq Calls
    BY DEF Calls
  <2> QED BY <2>1 DEF IInv, GateTypeOK, PlaceInv, PlaceTypes
<1>2. /\ alive \in [Sessions -> BOOLEAN] /\ build \in [Sessions -> Builds \cup {Probe}]
      /\ recovery \in [Sessions -> BOOLEAN] /\ gen \in [Sessions -> Nat]
      /\ pool_lock \in Calls \cup {None} /\ \A c \in Calls : SessionOf[c] \in Sessions
  BY DEF EngineTypes
<1>3. CASE UNCHANGED <<pc, stage, engineVars>>
  BY <1>3 DEF EngineTypes, PoolInv, engineVars
<1>4. ASSUME NEW c \in Calls, Others(c), pool_lock # c, UNCHANGED <<alive, pool_lock>>,
             \A d \in Background \ {c} : stage'[d] = stage[d]
      PROVE  PoolInv'
  BY <1>1, <1>4 DEF PoolInv, Others
<1>5. ASSUME NEW c \in Background, UNCHANGED <<pc, pool_lock, alive>>, pool_lock # c,
             \A d \in Background \ {c} : stage'[d] = stage[d]
      PROVE  PoolInv'
  BY <1>1, <1>5 DEF PoolInv
<1>6. ASSUME NEW c \in Calls, gate_step(c)
      PROVE  EngineTypes' /\ PoolInv'
  <2>1. Others(c) /\ pc[c] # "body" /\ UNCHANGED <<stage, engineVars>>
    <3>1. pc[c] # "body"
      BY <1>6 DEF gate_step, hold, acquire_read, resume_hold, wake_up, leave_queue, cancel_request
    <3> QED BY <1>6, <3>1, GateStepMoves DEF gate_step
  <2>2. pool_lock # c
    BY <2>1 DEF PoolInv
  <2> QED BY <1>4, <2>1, <2>2 DEF EngineTypes, engineVars
<1>7. ASSUME NEW c \in Calls, tool_ends(c)
      PROVE  EngineTypes' /\ PoolInv'
  <2>1. Others(c) /\ pool_lock # c /\ UNCHANGED <<stage, gen, alive, pool_lock>>
    BY <1>7, ExitMoves DEF tool_ends
  <2>2. build' \in [Sessions -> Builds \cup {Probe}] /\ recovery' \in [Sessions -> BOOLEAN]
    <3> DEFINE s == SessionOf[c]
    <3>1. /\ \/ build' = build \/ \E b \in Builds \cup {Probe} : build' = [build EXCEPT ![s] = b]
          /\ \/ recovery' = recovery \/ \E r \in BOOLEAN : recovery' = [recovery EXCEPT ![s] = r]
      <4>1. CASE UNCHANGED <<build, recovery>>
        BY <4>1
      <4>2. CASE load_build(s)
        BY <4>2 DEF load_build
      <4>3. CASE apply_build_mutation_batch(s)
        BY <4>3 DEF apply_build_mutation_batch, rollback
      <4> QED BY <1>7, <4>1, <4>2, <4>3 DEF tool_ends
    <3> QED BY <1>2, <3>1
  <2> QED BY <1>4, <2>1, <2>2 DEF EngineTypes
<1>8. ASSUME NEW c \in Calls, get_begin(c)
      PROVE  EngineTypes' /\ PoolInv'
  BY <1>1, <1>8 DEF get_begin, UsesEngine, gateVars, EngineTypes, PoolInv
<1>9. ASSUME NEW c \in Calls, get_end(c)
      PROVE  EngineTypes' /\ PoolInv'
  <2>1. pool_lock' = None
    BY <1>9 DEF get_end
  <2>2. PoolInv'
    BY <2>1 DEF PoolInv
  <2>3. SessionOf[c] \in Sessions /\ gen[SessionOf[c]] + 1 \in Nat
    BY <1>2
  <2>4. CASE /\ gen' = [gen EXCEPT ![SessionOf[c]] = @ + 1]
             /\ alive' = [alive EXCEPT ![SessionOf[c]] = TRUE]
             /\ \E b \in Builds : build' = [build EXCEPT ![SessionOf[c]] = b]
             /\ recovery' = [recovery EXCEPT ![SessionOf[c]] = FALSE]
    BY <1>2, <2>1, <2>2, <2>3, <2>4 DEF EngineTypes
  <2>5. CASE /\ alive' = [alive EXCEPT ![SessionOf[c]] = FALSE]
             /\ UNCHANGED <<gen, build, recovery>>
    BY <1>2, <2>1, <2>2, <2>3, <2>5 DEF EngineTypes
  <2> QED BY <1>9, <2>4, <2>5 DEF get_end
<1>10. ASSUME NEW c \in Background, submit(c) \/ submit_wakes(c)
       PROVE  EngineTypes' /\ PoolInv'
  <2>1. /\ ~running[c] /\ (hold_nowait(c) \/ wake_up(c)) /\ RegisterIfEntered(c)
        /\ UNCHANGED engineVars
    BY <1>1, <1>10 DEF submit, submit_wakes, hold_nowait, Placed, Submitting, Computing, Stages
  <2>2. Others(c) /\ pool_lock # c
    BY <1>1, <2>1, EntryMoves DEF PoolInv
  <2>3. \A d \in Background \ {c} : stage'[d] = stage[d]
    BY <1>1, <2>1 DEF RegisterIfEntered, Register
  <2> QED BY <1>1, <1>4, <2>1, <2>2, <2>3 DEF EngineTypes, engineVars
<1>11. ASSUME NEW c \in Background,
              read_lease_busy(c) \/ capture_failed(c) \/ start_worker(c) \/ worker_leaves(c)
       PROVE  EngineTypes' /\ PoolInv'
  <2>1. /\ fail_admission(c) \/ hand_off(c) \/ leave_worker(c)
        /\ stage[c] # "capturing" /\ UNCHANGED engineVars
        /\ \E x \in Stages : stage' = [stage EXCEPT ![c] = x]
    <3>1. stage = [stage EXCEPT ![c] = stage[c]] /\ stage[c] \in Stages
      BY <1>1
    <3> QED BY <1>11, <3>1 DEF read_lease_busy, capture_failed, UndoAdmission, start_worker, worker_leaves,
         Stages
  <2>2. Others(c) /\ pool_lock # c
    BY <1>1, <2>1, ExitMoves DEF PoolInv
  <2>3. \A d \in Background \ {c} : stage'[d] = stage[d]
    BY <1>1, <2>1
  <2> QED BY <1>1, <1>4, <2>1, <2>2, <2>3 DEF EngineTypes, engineVars
<1>12. ASSUME NEW c \in Background, take_read_lease(c)
       PROVE  EngineTypes' /\ PoolInv'
  <2>1. /\ UNCHANGED <<pc, engineVars>> /\ stage[c] = "leasing"
        /\ stage' = [stage EXCEPT ![c] = "capturing"]
    BY <1>12 DEF take_read_lease, await_admission
  <2>2. pool_lock # c
    BY <1>1, <2>1 DEF PoolInv
  <2> QED BY <1>1, <1>5, <2>1, <2>2 DEF EngineTypes, engineVars
<1>13. ASSUME NEW c \in Background, capture(c)
       PROVE  EngineTypes' /\ PoolInv'
  <2>1. UNCHANGED <<pc, engineVars>> /\ alive[SessionOf[c]]
    BY <1>13 DEF capture, gateVars
  <2>2. \A d \in Background \ {c} : stage'[d] = stage[d]
    BY <1>1, <1>13 DEF capture
  <2>3. pool_lock # c
    BY <1>1, <2>1 DEF PoolInv
  <2> QED BY <1>1, <1>5, <2>1, <2>2, <2>3 DEF EngineTypes, engineVars
<1>14. ASSUME NEW c \in Background, reject(c)
       PROVE  EngineTypes' /\ PoolInv'
  <2>1. UNCHANGED <<pc, engineVars>> /\ stage[c] = "worker"
    BY <1>14 DEF reject, gateVars
  <2>2. \A d \in Background \ {c} : stage'[d] = stage[d]
    BY <1>1, <1>14 DEF reject
  <2>3. pool_lock # c
    BY <1>1, <2>1 DEF PoolInv
  <2> QED BY <1>1, <1>5, <2>1, <2>2, <2>3 DEF EngineTypes, engineVars
<1>15. ASSUME NEW c \in Background, compute_begin(c) \/ compute_end(c) \/ seal(c)
       PROVE  EngineTypes' /\ PoolInv'
  <2>1. /\ UNCHANGED <<pc, gen, alive, pool_lock>>
        /\ stage[c] \in {"worker", "computing", "returned", "rejected"}
    BY <1>15 DEF compute_begin, compute_end, seal, gateVars
  <2>2. \A d \in Background \ {c} : stage'[d] = stage[d]
    BY <1>1, <1>15 DEF compute_begin, compute_end, seal
  <2>3. pool_lock # c
    BY <1>1, <2>1 DEF PoolInv
  <2>4. recovery' \in [Sessions -> BOOLEAN]
    BY <1>1, <1>2, <1>15 DEF compute_begin, compute_end, seal
  <2>5. captured[c].build \in Builds \cup {Probe}
    BY DEF LeaseTypes
  <2>6. build' \in [Sessions -> Builds \cup {Probe}]
    BY <1>1, <1>2, <1>15, <2>5 DEF compute_begin, compute_end, seal
  <2> QED BY <1>1, <1>5, <2>1, <2>2, <2>3, <2>4, <2>6 DEF EngineTypes
<1>16. ASSUME NEW c \in Background, submit_refused(c) \/ finish(c)
       PROVE  EngineTypes' /\ PoolInv'
  <2>1. /\ pc[c] # "body" /\ \E x \in PCs : pc' = [pc EXCEPT ![c] = x]
        /\ UNCHANGED <<running, cancelled, engineVars>>
        /\ \A d \in Background \ {c} : stage'[d] = stage[d]
    BY <1>1, <1>16 DEF submit_refused, finish, task_done, PCs
  <2>2. Others(c) /\ pool_lock # c
    BY <1>1, <2>1 DEF Others, PoolInv
  <2> QED BY <1>1, <1>4, <2>1, <2>2 DEF EngineTypes, engineVars
<1>17. ASSUME NEW c \in Background,
              publication_guard(c) \/ worker_releases(c) \/ close_lease(c) \/ cancel(c)
       PROVE  EngineTypes' /\ PoolInv'
  BY <1>3, <1>17 DEF publication_guard, worker_releases, release_operation, close_lease, cancel,
     gateVars
<1>18. ASSUME NEW s \in Sessions, close_session(s) \/ close_session_ends(s)
       PROVE  EngineTypes' /\ PoolInv'
  BY <1>3, <1>18 DEF close_session, close_session_ends, gateVars
<1>19. ASSUME NEW s \in Sessions, engine_dies(s)
       PROVE  EngineTypes' /\ PoolInv'
  BY <1>1, <1>2, <1>19 DEF engine_dies, gateVars, EngineTypes, PoolInv
<1>20. ASSUME NEW m, install(m)
       PROVE  EngineTypes' /\ PoolInv'
  <2>1. /\ UNCHANGED <<pc, stage, build, pool_lock>>
        /\ \/ UNCHANGED <<gen, alive, recovery>>
           \/ /\ gen' = [s \in Sessions |-> gen[s] + 1]
              /\ alive' \in [Sessions -> BOOLEAN] /\ \A s \in Sessions : alive'[s] => alive[s]
              /\ recovery' = [s \in Sessions |-> FALSE]
    BY <1>20 DEF install, maintenance_end
  <2>2. \A s \in Sessions : alive'[s] => alive[s]
    BY <2>1
  <2>3. PoolInv'
    BY <1>1, <1>2, <2>1, <2>2 DEF PoolInv
  <2>4. gen' \in [Sessions -> Nat]
    BY <1>2, <2>1
  <2>5. alive' \in [Sessions -> BOOLEAN] /\ recovery' \in [Sessions -> BOOLEAN]
    BY <1>2, <2>1
  <2> QED BY <1>2, <2>1, <2>3, <2>4, <2>5 DEF EngineTypes
<1>21. ASSUME NEW u, take_write_lease(u) \/ install_begin(u) \/ drop_write_lease(u)
                     \/ foreign_install(u)
       PROVE  EngineTypes' /\ PoolInv'
  BY <1>3, <1>21 DEF take_write_lease, install_begin, maintenance_begin, drop_write_lease,
     foreign_install, gateVars
<1>22. CASE UNCHANGED vars
  BY <1>3, <1>22 DEF vars, gateVars
<1> QED BY <1>6, <1>7, <1>8, <1>9, <1>10, <1>11, <1>12, <1>13, <1>14, <1>15, <1>16, <1>17,
     <1>18, <1>19, <1>20, <1>21, <1>22 DEF Next

LEMMA IntactStep ==
    ASSUME IInv, PlaceInv, FinishInv, LeaseInv, ControlInv, EngineInv, [Next]_vars
    PROVE  IntactInv'
<1> USE CallsTyped
<1>1. /\ stage \in [Background -> Stages] /\ outcome \in [Background -> Outcomes]
      /\ captured \in [Background -> [gen : Nat, build : Builds \cup {Probe}, runtime : Nat]]
      /\ gen \in [Sessions -> Nat] /\ build \in [Sessions -> Builds \cup {Probe}]
      /\ recovery \in [Sessions -> BOOLEAN]
      /\ Background \subseteq Calls /\ \A c \in Calls : SessionOf[c] \in Sessions
      /\ \A c \in Background : Placed(c) /\ Leased(c) /\ Controlled(c)
      /\ \A c \in Background : Intact(c) /\ Unchanged(c)
  <2>1. Background \subseteq Calls
    BY DEF Calls
  <2> QED BY <2>1 DEF PlaceInv, PlaceTypes, LeaseInv, LeaseTypes, ControlInv, ControlTypes,
       EngineInv, EngineTypes, IntactInv
<1>2. CASE UNCHANGED <<stage, outcome, captured, gen, build, recovery>>
  BY <1>1, <1>2 DEF IntactInv, Intact, Unchanged
<1>3. ASSUME NEW c \in Calls, pc[c] = "body" \/ UNCHANGED <<gen, build, recovery>>,
             \A s \in Sessions \ {SessionOf[c]} : UNCHANGED EngineOf(s),
             \A d \in Background \ {c} : UNCHANGED <<stage[d], outcome[d], captured[d]>>,
             c \in Background => Intact(c)' /\ Unchanged(c)'
      PROVE  IntactInv'
  <2> SUFFICES ASSUME NEW d \in Background \ {c}
               PROVE  Intact(d)' /\ Unchanged(d)'
    BY <1>3 DEF IntactInv
  <2>1. UNCHANGED <<stage[d], outcome[d], captured[d]>> /\ SessionOf[d] \in Sessions
    BY <1>1, <1>3
  <2>2. CASE UNCHANGED EngineOf(SessionOf[d])
    BY <2>1, <2>2, IntactOthers
  <2>3. CASE pc[c] = "body" /\ SessionOf[d] = SessionOf[c]
    BY <2>1, <2>3, IntactOthers
  <2>4. CASE UNCHANGED <<gen, build, recovery>>
    BY <2>2, <2>4 DEF EngineOf
  <2> QED BY <1>3, <2>1, <2>2, <2>3, <2>4
<1>4. ASSUME NEW c \in Background, UNCHANGED <<outcome, gen, build, recovery>>,
             NEW x \in Stages, stage' = [stage EXCEPT ![c] = x],
             \/ captured' = captured
             \/ \E k : captured' = [captured EXCEPT ![c] = k],
             Intact(c)'
      PROVE  IntactInv'
  <2>1. \A d \in Background \ {c} : UNCHANGED <<stage[d], outcome[d], captured[d]>>
    BY <1>1, <1>4
  <2>2. Unchanged(c)' /\ \A s \in Sessions \ {SessionOf[c]} : UNCHANGED EngineOf(s)
    BY <1>1, <1>4 DEF Unchanged, EngineOf
  <2> QED BY <1>1, <1>3, <1>4, <2>1, <2>2
<1>5. ASSUME NEW c \in Calls, gate_step(c) \/ get_begin(c)
      PROVE  IntactInv'
  BY <1>2, <1>5 DEF gate_step, get_begin, controlVars, engineVars, IntactInv
<1>6. ASSUME NEW c \in Calls, tool_ends(c)
      PROVE  IntactInv'
  <2>1. pc[c] = "body" /\ c \notin Background /\ UNCHANGED <<stage, outcome, captured, gen>>
    BY <1>6 DEF tool_ends, leave_hold, controlVars
  <2>2. \A s \in Sessions \ {SessionOf[c]} : UNCHANGED EngineOf(s)
    BY <1>1, <1>6 DEF tool_ends, load_build, apply_build_mutation_batch, rollback, EngineOf
  <2> QED BY <1>3, <2>1, <2>2
<1>7. ASSUME NEW c \in Calls, get_end(c)
      PROVE  IntactInv'
  <2>1. pc[c] = "body" /\ (c \in Background => stage[c] = "capturing")
    BY <1>7 DEF get_end, EngineInv, PoolInv
  <2>2. UNCHANGED <<outcome, captured>>
    BY <1>7 DEF get_end, controlVars
  <2>3. \A s \in Sessions \ {SessionOf[c]} : UNCHANGED EngineOf(s)
    BY <1>1, <1>7 DEF get_end, EngineOf
  <2>4. stage' = stage \/ (c \in Background /\ stage' = [stage EXCEPT ![c] = "uncaptured"])
    BY <1>7 DEF get_end
  <2>5. \A d \in Background \ {c} : UNCHANGED <<stage[d], outcome[d], captured[d]>>
    BY <1>1, <2>2, <2>4
  <2>6. c \in Background => Intact(c)' /\ Unchanged(c)'
    BY <1>1, <2>1, <2>2, <2>4 DEF Intact, Unchanged
  <2> QED BY <1>3, <2>1, <2>3, <2>5, <2>6
<1>8. ASSUME NEW c \in Background, submit(c) \/ submit_wakes(c)
      PROVE  IntactInv'
  <2>1. /\ RegisterIfEntered(c) /\ UNCHANGED <<outcome, gen, build, recovery, captured>>
    BY <1>8 DEF submit, submit_wakes, controlVars, engineVars
  <2>2. CASE stage' = stage
    BY <1>2, <2>1, <2>2 DEF IntactInv
  <2>3. CASE stage' = [stage EXCEPT ![c] = "leasing"]
    <3>1. Intact(c)' /\ "leasing" \in Stages
      BY <1>1, <2>3 DEF Intact, Stages
    <3> QED BY <1>4, <2>1, <2>3, <3>1
  <2> QED BY <2>1, <2>2, <2>3 DEF RegisterIfEntered, Register
<1>9. ASSUME NEW c \in Background,
             take_read_lease(c) \/ read_lease_busy(c) \/ capture_failed(c) \/ finish(c)
      PROVE  IntactInv'
  <2>1. UNCHANGED <<outcome, gen, build, recovery, captured>>
    BY <1>9 DEF take_read_lease, read_lease_busy, capture_failed, UndoAdmission, finish,
       controlVars, engineVars
  <2>2. PICK x \in {"capturing", "none", "closed"} : stage' = [stage EXCEPT ![c] = x]
    BY <1>9 DEF take_read_lease, read_lease_busy, capture_failed, UndoAdmission, finish
  <2>3. Intact(c)' /\ x \in Stages
    BY <1>1, <2>2 DEF Intact, Stages
  <2> QED BY <1>4, <2>1, <2>2, <2>3
<1>10. ASSUME NEW c \in Background, capture(c)
       PROVE  IntactInv'
  <2>1. UNCHANGED <<outcome, gen, build, recovery>>
    BY <1>10 DEF capture, controlVars, engineVars
  <2>2. CASE stage' = [stage EXCEPT ![c] = "uncaptured"] /\ captured' = captured
    <3>1. Intact(c)' /\ "uncaptured" \in Stages
      BY <1>1, <2>2 DEF Intact, Stages
    <3> QED BY <1>4, <2>1, <2>2, <3>1
  <2>3. CASE /\ ~recovery[SessionOf[c]] /\ stage' = [stage EXCEPT ![c] = "captured"]
             /\ captured' = [captured EXCEPT ![c] =
                  [gen |-> gen[SessionOf[c]], build |-> build[SessionOf[c]], runtime |-> runtime]]
    <3>1. Intact(c)' /\ "captured" \in Stages
      BY <1>1, <2>1, <2>3 DEF Intact, Stages
    <3> QED BY <1>4, <2>1, <2>3, <3>1
  <2> QED BY <1>10, <2>2, <2>3 DEF capture
<1>11. ASSUME NEW c \in Background, start_worker(c)
       PROVE  IntactInv'
  <2>1. /\ stage[c] = "captured" /\ stage' = [stage EXCEPT ![c] = "worker"]
        /\ UNCHANGED <<outcome, gen, build, recovery, captured>>
    BY <1>11 DEF start_worker, controlVars, engineVars
  <2>2. Intact(c)' /\ "worker" \in Stages
    BY <1>1, <2>1 DEF Intact, Stages
  <2> QED BY <1>4, <2>1, <2>2
<1>12. ASSUME NEW c \in Background, reject(c)
       PROVE  IntactInv'
  <2>1. /\ stage[c] = "worker" /\ pc[c] = "body" /\ stage' = [stage EXCEPT ![c] = "rejected"]
        /\ UNCHANGED <<gen, build, recovery, captured>>
    BY <1>12 DEF reject, InWorker, engineVars
  <2>2. PICK why \in Outcomes : /\ outcome' = [outcome EXCEPT ![c] = why]
                                /\ why \in {"cancelled", "budget_exceeded", InputVerdict(c)}
    BY <1>12 DEF reject, InputVerdict, Outcomes, Conflicts
  <2>3. InputVerdict(c) \in Conflicts =>
          InputVerdict(c) = "compute_engine_changed" /\ \E s \in Sessions : s # SessionOf[c]
    <3>1. /\ gen[SessionOf[c]] = captured[c].gen /\ build[SessionOf[c]] = captured[c].build
          /\ runtime = captured[c].runtime
      BY <1>1, <2>1 DEF Intact, Leased, Captured
    <3>2. ASSUME pool_lock # None
          PROVE  \E s \in Sessions : s # SessionOf[c]
      <4>1. pool_lock \in Calls /\ pc[pool_lock] = "body"
            /\ (pool_lock \in Background => stage[pool_lock] = "capturing")
        BY <3>2 DEF EngineInv, EngineTypes, PoolInv
      <4>2. pool_lock # c
        BY <2>1, <4>1
      <4>3. SessionOf[pool_lock] # SessionOf[c]
        BY <2>1, <4>1, <4>2, Alone DEF Captured
      <4> QED BY <1>1, <4>1, <4>3
    <3> QED BY <3>1, <3>2 DEF InputVerdict, Conflicts
  <2>4. Unchanged(c)' /\ Intact(c)'
    BY <1>1, <2>1, <2>2, <2>3 DEF Unchanged, Intact, Conflicts
  <2>5. \A d \in Background \ {c} : UNCHANGED <<stage[d], outcome[d], captured[d]>>
    BY <1>1, <2>1, <2>2
  <2> QED BY <1>1, <1>3, <2>1, <2>4, <2>5 DEF EngineOf
<1>13. ASSUME NEW c \in Background, compute_begin(c)
       PROVE  IntactInv'
  <2>1. /\ pc[c] = "body" /\ stage' = [stage EXCEPT ![c] = "computing"]
        /\ build' = [build EXCEPT ![SessionOf[c]] = Probe]
        /\ UNCHANGED <<gen, recovery, captured, outcome>>
    BY <1>13 DEF compute_begin, InWorker, controlVars
  <2>2. Unchanged(c)' /\ Intact(c)'
    BY <1>1, <2>1 DEF Unchanged, Intact
  <2>3. \A d \in Background \ {c} : UNCHANGED <<stage[d], outcome[d], captured[d]>>
    BY <1>1, <2>1
  <2>4. \A s \in Sessions \ {SessionOf[c]} : UNCHANGED EngineOf(s)
    BY <1>1, <2>1 DEF EngineOf
  <2> QED BY <1>1, <1>3, <2>1, <2>2, <2>3, <2>4
<1>14. ASSUME NEW c \in Background, compute_end(c)
       PROVE  IntactInv'
  <2>1. /\ pc[c] = "body" /\ stage' = [stage EXCEPT ![c] = "returned"]
        /\ UNCHANGED <<gen, captured>>
    BY <1>1, <1>14 DEF compute_end, Placed, Computing
  <2>2. PICK x \in Outcomes \ Conflicts : outcome' = [outcome EXCEPT ![c] = x]
    BY <1>14 DEF compute_end, Outcomes, Conflicts
  <2>3. Unchanged(c)' /\ Intact(c)'
    BY <1>1, <2>1, <2>2 DEF Unchanged, Intact
  <2>4. \A d \in Background \ {c} : UNCHANGED <<stage[d], outcome[d], captured[d]>>
    BY <1>1, <2>1, <2>2
  <2>5. \A s \in Sessions \ {SessionOf[c]} : UNCHANGED EngineOf(s)
    BY <1>1, <1>14, <2>1 DEF compute_end, EngineOf
  <2> QED BY <1>1, <1>3, <2>1, <2>3, <2>4, <2>5
<1>15. ASSUME NEW c \in Background, seal(c)
       PROVE  IntactInv'
  <2>1. /\ stage[c] \in {"returned", "rejected"} /\ pc[c] = "body"
        /\ stage' = [stage EXCEPT ![c] = "sealed"] /\ UNCHANGED <<gen, build, captured>>
    BY <1>1, <1>15 DEF seal, Placed, Computing
  <2>2. \/ /\ recovery' = [recovery EXCEPT ![SessionOf[c]] = TRUE]
           /\ outcome' = [outcome EXCEPT ![c] = "recovery_required"]
        \/ /\ UNCHANGED <<recovery, outcome>> /\ ~recovery[SessionOf[c]]
           /\ stage[c] = "returned" => build[SessionOf[c]] = captured[c].build
        \/ /\ recovery' = recovery
           /\ \E why \in {"cancelled", "budget_exceeded"} :
                outcome' = [outcome EXCEPT ![c] = why]
    BY <1>15 DEF seal
  <2>3. Unchanged(c)' /\ Intact(c)'
    BY <1>1, <2>1, <2>2 DEF Unchanged, Intact, Controlled, Conflicts
  <2>4. \A d \in Background \ {c} : UNCHANGED <<stage[d], outcome[d], captured[d]>>
    BY <1>1, <2>1, <2>2
  <2>5. \A s \in Sessions \ {SessionOf[c]} : UNCHANGED EngineOf(s)
    BY <1>1, <2>1, <2>2 DEF EngineOf
  <2> QED BY <1>1, <1>3, <2>1, <2>3, <2>4, <2>5
<1>16. ASSUME NEW m \in Maintainers, install(m)
       PROVE  IntactInv'
  <2>1. /\ write_lease = m /\ UNCHANGED <<stage, outcome, captured, build>>
        /\ recovery' = recovery \/ recovery' = [s \in Sessions |-> FALSE]
    BY <1>16 DEF install, controlVars
  <2>2. \A c \in Background : ~lease[c]
    BY <1>1, <2>1, UpdatersNamed DEF Leased
  <2>3. \A c \in Background : stage[c] \notin {"captured", "worker"}
    BY <1>1, <2>2 DEF Leased, Placed, Captured, Submitting
  <2> QED BY <1>1, <2>1, <2>3 DEF IntactInv, Intact, Unchanged
<1>17. ASSUME NEW c \in Background,
              \/ submit_refused(c) \/ publication_guard(c) \/ worker_leaves(c)
              \/ worker_releases(c) \/ close_lease(c) \/ cancel(c)
       PROVE  IntactInv'
  BY <1>2, <1>17 DEF submit_refused, publication_guard, worker_leaves, worker_releases,
     close_lease, cancel, controlVars, engineVars, IntactInv
<1>18. ASSUME NEW s \in Sessions, close_session(s) \/ close_session_ends(s) \/ engine_dies(s)
       PROVE  IntactInv'
  BY <1>2, <1>18 DEF close_session, close_session_ends, engine_dies, controlVars, engineVars, IntactInv
<1>19. ASSUME NEW u, take_write_lease(u) \/ install_begin(u) \/ drop_write_lease(u)
                     \/ foreign_install(u)
       PROVE  IntactInv'
  BY <1>2, <1>19 DEF take_write_lease, install_begin, drop_write_lease, foreign_install,
     controlVars, engineVars, IntactInv
<1>20. CASE UNCHANGED vars
  BY <1>2, <1>20 DEF vars, controlVars, engineVars, IntactInv
<1> QED
  BY <1>5, <1>6, <1>7, <1>8, <1>9, <1>10, <1>11, <1>12, <1>13, <1>14, <1>15, <1>16, <1>17,
     <1>18, <1>19, <1>20 DEF Next

\* A completed operation has left its build, and the worker's tests hold.
LEMMA EngineHolds ==
    ASSUME EngineInv
    PROVE  /\ CompletedMeansRestored
           /\ (\A s, t \in Sessions : s = t) => InputStable
<1>1. CompletedMeansRestored
  BY DEF EngineInv, IntactInv, Intact, CompletedMeansRestored
<1>2. ASSUME \A s, t \in Sessions : s = t
      PROVE  InputStable
  <2>1. \A c \in Background : SessionOf[c] \in Sessions
    BY CallsTyped DEF Calls
  <2> QED BY <1>2, <2>1 DEF EngineInv, IntactInv, Unchanged, InputStable
<1> QED BY <1>1, <1>2

----------------------------------------------------------------------------
(* Lists without duplicates *)

Distinct(q) == \A i, j \in DOMAIN q : q[i] = q[j] => i = j

\* Without takes one place out.
LEMMA WithoutPlace ==
    ASSUME NEW S, NEW q \in Seq(S), NEW c \in S, Listed(c, q)
    PROVE  \E k \in 1 .. Len(q) :
              /\ q[k] = c /\ Without(q, c) \in Seq(S) /\ Len(Without(q, c)) = Len(q) - 1
              /\ \A i \in 1 .. Len(q) - 1 : Without(q, c)[i] = q[IF i < k THEN i ELSE i + 1]
<1> DEFINE k == CHOOSE i \in DOMAIN q : q[i] = c
<1>1. k \in DOMAIN q /\ q[k] = c
  BY DEF Listed
<1>2. Len(q) \in Nat /\ DOMAIN q = 1 .. Len(q) /\ k \in 1 .. Len(q)
  BY <1>1
<1>3. Without(q, c) = [i \in 1 .. Len(q) - 1 |-> IF i < k THEN q[i] ELSE q[i + 1]]
  BY DEF Without
<1> HIDE DEF k
<1>4. \A i \in 1 .. Len(q) - 1 :
        /\ Without(q, c)[i] = q[IF i < k THEN i ELSE i + 1]
        /\ Without(q, c)[i] \in S
  BY <1>2, <1>3
<1>5. Without(q, c) \in Seq(S) /\ Len(Without(q, c)) = Len(q) - 1
  BY <1>2, <1>3, <1>4
<1> QED BY <1>1, <1>2, <1>4, <1>5

\* Of a list without duplicates it leaves all the others, in their order.
LEMMA WithoutDistinct ==
    ASSUME NEW S, NEW q \in Seq(S), NEW c \in S, Listed(c, q), Distinct(q)
    PROVE  /\ Without(q, c) \in Seq(S) /\ Distinct(Without(q, c))
           /\ Len(Without(q, c)) = Len(q) - 1
           /\ \A d : Listed(d, Without(q, c)) <=> Listed(d, q) /\ d # c
<1> DEFINE r == Without(q, c)
<1>1. PICK k \in 1 .. Len(q) :
        /\ q[k] = c /\ r \in Seq(S) /\ Len(r) = Len(q) - 1
        /\ \A i \in 1 .. Len(q) - 1 : r[i] = q[IF i < k THEN i ELSE i + 1]
  BY WithoutPlace
<1> HIDE DEF r
<1>2. Len(q) \in Nat /\ DOMAIN q = 1 .. Len(q) /\ DOMAIN r = 1 .. Len(q) - 1
  BY <1>1
<1>3. Distinct(r)
  <2> SUFFICES ASSUME NEW i \in 1 .. Len(q) - 1, NEW j \in 1 .. Len(q) - 1, r[i] = r[j]
               PROVE  i = j
    BY <1>2 DEF Distinct
  <2>1. PICK a \in 1 .. Len(q) : a = (IF i < k THEN i ELSE i + 1) /\ r[i] = q[a]
    <3>1. (IF i < k THEN i ELSE i + 1) \in 1 .. Len(q)
      BY <1>2
    <3> QED BY <1>1, <3>1
  <2>2. PICK b \in 1 .. Len(q) : b = (IF j < k THEN j ELSE j + 1) /\ r[j] = q[b]
    <3>1. (IF j < k THEN j ELSE j + 1) \in 1 .. Len(q)
      BY <1>2
    <3> QED BY <1>1, <3>1
  <2>3. a = b
    BY <1>2, <2>1, <2>2 DEF Distinct
  <2> QED BY <1>1, <1>2, <2>1, <2>2, <2>3
<1>4. ASSUME NEW d, Listed(d, r)
      PROVE  Listed(d, q) /\ d # c
  <2>1. PICK i \in 1 .. Len(q) - 1 : r[i] = d
    BY <1>2, <1>4 DEF Listed
  <2>2. PICK j \in 1 .. Len(q) : j # k /\ r[i] = q[j]
    <3>1. CASE i < k
      BY <1>1, <1>2, <3>1
    <3>2. CASE ~(i < k)
      BY <1>1, <1>2, <3>2
    <3> QED BY <3>1, <3>2
  <2> QED BY <1>1, <1>2, <2>1, <2>2 DEF Listed, Distinct
<1>5. ASSUME NEW d, Listed(d, q), d # c
      PROVE  Listed(d, r)
  <2>1. PICK j \in 1 .. Len(q) : q[j] = d
    BY <1>2, <1>5 DEF Listed
  <2>2. j # k
    BY <1>1, <1>5, <2>1
  <2>3. CASE j < k
    <3>1. j \in 1 .. Len(q) - 1 /\ r[j] = d
      BY <1>1, <1>2, <2>1, <2>3
    <3> QED BY <1>2, <3>1 DEF Listed
  <2>4. CASE j > k
    <3>1. j - 1 \in 1 .. Len(q) - 1 /\ ~(j - 1 < k) /\ (j - 1) + 1 = j
      BY <1>1, <1>2, <2>4
    <3>2. r[j - 1] = d
      BY <1>1, <2>1, <3>1
    <3> QED BY <1>2, <3>1, <3>2 DEF Listed
  <2> QED BY <1>1, <1>2, <2>2, <2>3, <2>4
<1> QED BY <1>1, <1>3, <1>4, <1>5 DEF r

\* A new element joins at the end.
LEMMA AppendDistinct ==
    ASSUME NEW S, NEW q \in Seq(S), NEW c \in S, ~Listed(c, q), Distinct(q)
    PROVE  /\ Append(q, c) \in Seq(S) /\ Distinct(Append(q, c))
           /\ Len(Append(q, c)) = Len(q) + 1
           /\ \A d : Listed(d, Append(q, c)) <=> Listed(d, q) \/ d = c
<1> DEFINE r == Append(q, c)
<1>1. /\ r \in Seq(S) /\ Len(r) = Len(q) + 1 /\ Len(q) \in Nat
      /\ DOMAIN q = 1 .. Len(q) /\ DOMAIN r = 1 .. Len(q) + 1
      /\ \A i \in 1 .. Len(q) : r[i] = q[i]
      /\ r[Len(q) + 1] = c
  OBVIOUS
<1> HIDE DEF r
<1>2. \A i \in 1 .. Len(q) : q[i] # c
  BY <1>1 DEF Listed
<1>3. \A i \in 1 .. Len(q) + 1 : i \in 1 .. Len(q) \/ i = Len(q) + 1
  BY <1>1
<1>4. Distinct(r)
  BY <1>1, <1>2, <1>3 DEF Distinct
<1>5. ASSUME NEW d
      PROVE  Listed(d, r) <=> Listed(d, q) \/ d = c
  <2>1. Listed(d, q) => Listed(d, r)
    BY <1>1 DEF Listed
  <2>2. Listed(c, r)
    <3>1. Len(q) + 1 \in 1 .. Len(q) + 1
      BY <1>1
    <3> QED BY <1>1, <3>1 DEF Listed
  <2>3. Listed(d, r) => Listed(d, q) \/ d = c
    BY <1>1, <1>3 DEF Listed
  <2> QED BY <2>1, <2>2, <2>3
<1> QED BY <1>1, <1>4, <1>5 DEF r

\* A set of naturals has a least element.
LEMMA LeastNatural ==
    ASSUME NEW S \in SUBSET Nat, S # {}
    PROVE  \E i \in S : \A j \in S : i <= j
<1> DEFINE R == {p \in Nat \X Nat : p[1] < p[2]}
<1>1. IsWellFoundedOn(R, Nat)
  BY NatLessThanWellFounded DEF OpToRel
<1> HIDE DEF R
<1>2. PICK i \in S : \A j \in S : ~(<<j, i>> \in R)
  BY <1>1, WFMin
<1>3. ASSUME NEW j \in S
      PROVE  i <= j
  <2>1. i \in Nat /\ j \in Nat /\ ~(<<j, i>> \in R)
    BY <1>2
  <2>2. ~(j < i)
    BY <2>1 DEF R
  <2> QED BY <2>1, <2>2
<1> QED BY <1>2, <1>3

\* The finished operations in q, c among them.
Done(q, c) == {d \in Background : Listed(d, q) /\ (d = c \/ terminal[d])}

\* What is retained: everything, or everything but one finished operation.
LEMMA RetainDistinct ==
    ASSUME NEW q \in Seq(Background), NEW c \in Background, Listed(c, q), Distinct(q)
    PROVE  /\ Retain(q, c) \in Seq(Background) /\ Distinct(Retain(q, c))
           /\ IsFiniteSet(Done(q, c))
           /\ IF Cardinality(Done(q, c)) > CompletedLimit
              THEN \E e \in Done(q, c) :
                      \A d : Listed(d, Retain(q, c)) <=> Listed(d, q) /\ d # e
              ELSE \A d : Listed(d, Retain(q, c)) <=> Listed(d, q)
<1> DEFINE moved == Append(Without(q, c), c)
<1> DEFINE done == {i \in DOMAIN moved : moved[i] = c \/ terminal[moved[i]]}
<1> DEFINE oldest == CHOOSE i \in done : \A j \in done : i <= j
<1>1. /\ Without(q, c) \in Seq(Background) /\ Distinct(Without(q, c))
      /\ ~Listed(c, Without(q, c))
      /\ \A d : Listed(d, Without(q, c)) <=> Listed(d, q) /\ d # c
  BY WithoutDistinct
<1>2. /\ moved \in Seq(Background) /\ Distinct(moved)
      /\ \A d : Listed(d, moved) <=> Listed(d, q)
  BY <1>1, AppendDistinct
<1> HIDE DEF moved
<1>3. /\ done \subseteq DOMAIN moved /\ DOMAIN moved = 1 .. Len(moved) /\ Len(moved) \in Nat
      /\ IsFiniteSet(done) /\ done \in SUBSET Nat
  <2>1. DOMAIN moved = 1 .. Len(moved) /\ Len(moved) \in Nat
    BY <1>2
  <2>2. IsFiniteSet(1 .. Len(moved))
    BY <2>1, FS_Interval
  <2> QED BY <2>1, <2>2, FS_Subset
<1>4. IsFiniteSet(Done(q, c)) /\ Cardinality(Done(q, c)) = Cardinality(done)
  <2> DEFINE f == [i \in done |-> moved[i]]
  <2>1. f \in [done -> Done(q, c)]
    <3> SUFFICES ASSUME NEW i \in done
                 PROVE  moved[i] \in Done(q, c)
      OBVIOUS
    <3>1. moved[i] \in Background /\ Listed(moved[i], moved)
      BY <1>2, <1>3 DEF Listed
    <3> QED BY <1>2, <3>1 DEF Done
  <2>2. \A i, j \in done : f[i] = f[j] => i = j
    BY <1>2, <1>3 DEF Distinct
  <2>3. ASSUME NEW d \in Done(q, c)
        PROVE  \E i \in done : f[i] = d
    <3>1. Listed(d, moved) /\ (d = c \/ terminal[d])
      BY <1>2, <2>3 DEF Done
    <3> QED BY <3>1 DEF Listed
  <2> HIDE DEF f
  <2>4. f \in Bijection(done, Done(q, c))
    <3>1. DOMAIN f = done
      BY <2>1
    <3> HIDE DEF done
    <3> QED BY <2>1, <2>2, <2>3, <3>1 DEF Bijection, Injection, Surjection, IsInjective
  <2>5. ExistsBijection(done, Done(q, c))
    BY <2>4 DEF ExistsBijection
  <2> QED BY <1>3, <2>5, FS_Bijection
<1>5. Retain(q, c) = IF Cardinality(done) > CompletedLimit THEN Without(moved, moved[oldest])
                                                          ELSE moved
  BY DEF Retain, moved
<1>6. CASE Cardinality(done) > CompletedLimit
  <2>1. done # {}
    <3> HIDE DEF done
    <3> SUFFICES ASSUME done = {}
                 PROVE  FALSE
      OBVIOUS
    <3>1. Cardinality(done) = 0
      BY FS_EmptySet
    <3> QED BY <1>6, <3>1, BoundsTyped
  <2>2. oldest \in done
    <3> HIDE DEF done
    <3>1. \E i \in done : \A j \in done : i <= j
      BY <1>3, <2>1, LeastNatural
    <3> QED BY <3>1
  <2> HIDE DEF oldest
  <2>3. /\ moved[oldest] \in Background /\ Listed(moved[oldest], moved)
        /\ moved[oldest] = c \/ terminal[moved[oldest]]
    BY <1>2, <1>3, <2>2 DEF Listed
  <2>4. moved[oldest] \in Done(q, c)
    BY <1>2, <2>3 DEF Done
  <2>5. /\ Retain(q, c) \in Seq(Background) /\ Distinct(Retain(q, c))
        /\ \A d : Listed(d, Retain(q, c)) <=> Listed(d, moved) /\ d # moved[oldest]
    <3>1. Retain(q, c) = Without(moved, moved[oldest])
      BY <1>5, <1>6
    <3> QED BY <1>2, <2>3, <3>1, WithoutDistinct
  <2> QED BY <1>2, <1>4, <1>6, <2>4, <2>5
<1>7. CASE ~(Cardinality(done) > CompletedLimit)
  <2>1. Retain(q, c) = moved
    BY <1>5, <1>7
  <2> QED BY <1>2, <1>4, <1>7, <2>1
<1> QED BY <1>6, <1>7

----------------------------------------------------------------------------
(* Operations in flight, and the records of their session *)

InFlight(c) == stage[c] \notin {"none", "closed"}

\* The steps that neither file an operation nor take one away.
NobodyFiled ==
    /\ UNCHANGED <<bucketVars, terminal>>
    /\ \A c \in Background :
        (InFlight(c)' <=> InFlight(c)) /\ (stage'[c] = "none" <=> stage[c] = "none")

\* All the steps there are, as far as the records can tell.
LEMMA FilingSteps ==
    ASSUME IInv, PlaceInv, PoolInv, [Next]_vars
    PROVE  \/ NobodyFiled
           \/ \E c \in Background : submit(c) \/ submit_wakes(c) \/ UndoAdmission(c) \/ finish(c)
           \/ \E s \in Sessions : close_session(s) \/ close_session_ends(s)
<1>1. /\ stage \in [Background -> Stages]
      /\ \A c \in Background : Placed(c)
  BY DEF PlaceInv, PlaceTypes
<1>2. ASSUME UNCHANGED <<bucketVars, terminal, stage>>
      PROVE  NobodyFiled
  BY <1>2 DEF NobodyFiled, InFlight
<1>3. ASSUME NEW c \in Background, NEW x \in Stages \ {"none", "closed"}, InFlight(c),
             stage' = [stage EXCEPT ![c] = x], UNCHANGED <<bucketVars, terminal>>
      PROVE  NobodyFiled
  BY <1>1, <1>3 DEF NobodyFiled, InFlight
<1>4. ASSUME NEW c \in Calls, gate_step(c) \/ tool_ends(c) \/ get_begin(c)
      PROVE  NobodyFiled
  BY <1>2, <1>4 DEF gate_step, tool_ends, get_begin, controlVars
<1>5. ASSUME NEW c \in Calls, get_end(c)
      PROVE  NobodyFiled
  <2>1. UNCHANGED <<bucketVars, terminal>> /\ pool_lock = c
    BY <1>5 DEF get_end, controlVars
  <2>2. CASE stage' = stage
    BY <1>2, <2>1, <2>2
  <2>3. CASE c \in Background /\ stage' = [stage EXCEPT ![c] = "uncaptured"]
    <3>1. InFlight(c)
      BY <2>1, <2>3 DEF PoolInv, InFlight
    <3> QED BY <1>3, <2>1, <2>3, <3>1 DEF Stages
  <2> QED BY <1>5, <2>2, <2>3 DEF get_end
<1>6. ASSUME NEW c \in Background,
             \/ submit_refused(c) \/ publication_guard(c) \/ worker_leaves(c)
             \/ worker_releases(c) \/ close_lease(c) \/ cancel(c)
      PROVE  NobodyFiled
  BY <1>2, <1>6 DEF submit_refused, publication_guard, worker_leaves, worker_releases,
     close_lease, cancel, controlVars
<1>7. ASSUME NEW c \in Background,
             \/ take_read_lease(c) \/ capture(c) \/ start_worker(c) \/ reject(c)
             \/ compute_begin(c) \/ compute_end(c) \/ seal(c)
      PROVE  NobodyFiled
  <2>1. UNCHANGED <<bucketVars, terminal>>
    BY <1>7 DEF take_read_lease, capture, start_worker, reject, compute_begin, compute_end, seal,
       controlVars
  <2>2. InFlight(c)
    BY <1>7 DEF take_read_lease, capture, start_worker, reject, compute_begin, compute_end, seal,
       InFlight
  <2>3. \E x \in Stages \ {"none", "closed"} : stage' = [stage EXCEPT ![c] = x]
    BY <1>7 DEF take_read_lease, capture, start_worker, reject, compute_begin, compute_end, seal,
       Stages
  <2> QED BY <1>3, <2>1, <2>2, <2>3
<1>8. ASSUME NEW c \in Background, read_lease_busy(c) \/ capture_failed(c)
      PROVE  UndoAdmission(c)
  BY <1>8 DEF read_lease_busy, capture_failed
<1>9. ASSUME NEW s \in Sessions, engine_dies(s)
      PROVE  NobodyFiled
  BY <1>2, <1>9 DEF engine_dies, controlVars
<1>10. ASSUME NEW u, take_write_lease(u) \/ install_begin(u) \/ install(u)
                     \/ drop_write_lease(u) \/ foreign_install(u)
       PROVE  NobodyFiled
  BY <1>2, <1>10 DEF take_write_lease, install_begin, install, drop_write_lease, foreign_install,
     controlVars
<1>11. CASE UNCHANGED vars
  BY <1>2, <1>11 DEF vars, controlVars
<1> QED BY <1>4, <1>5, <1>6, <1>7, <1>8, <1>9, <1>10, <1>11 DEF Next

\* A session has one operation in flight.
FlightInv ==
    \A c, d \in Background :
        InFlight(c) /\ InFlight(d) /\ SessionOf[c] = SessionOf[d] => c = d

\* A submission that enters finds none.
LEMMA EntryAlone ==
    ASSUME IInv, PlaceInv, FinishInv, NEW c \in Background, submit(c) \/ submit_wakes(c)
    PROVE  /\ stage[c] = "none" /\ ~InFlight(c)
           /\ pc'[c] # "body" => UNCHANGED <<stage, records, active>>
           /\ pc'[c] = "body" =>
                /\ Register(c)
                /\ \A d \in Background : SessionOf[d] = SessionOf[c] => ~InFlight(d)
<1>1. /\ \A d \in Background : Placed(d) /\ stage[d] \in Stages
      /\ Background \subseteq Calls /\ None \notin Background
  <2>1. Background \subseteq Calls
    BY DEF Calls
  <2> QED BY <2>1, CallsTyped DEF PlaceInv, PlaceTypes
<1>2. ~running[c] /\ (hold_nowait(c) \/ wake_up(c)) /\ RegisterIfEntered(c)
  BY <1>1 DEF submit, submit_wakes, hold_nowait, Placed, Submitting, Computing, Stages
<1>3. /\ LoopFor(c) /\ stage[c] = "none"
      /\ pc'[c] = "body" => operation_id[SessionOf[c]] = None
  BY <1>2, EntryMoves
<1>4. ASSUME operation_id[SessionOf[c]] = None, NEW d \in Background,
             SessionOf[d] = SessionOf[c], InFlight(d)
      PROVE  FALSE
  <2>1. d # c /\ d \in Calls
    BY <1>1, <1>3, <1>4 DEF InFlight
  <2>2. pc[d] # "finishing"
    BY <1>1, <1>3, <2>1 DEF FinishInv, LoopFor
  <2>3. Admitting(d) \/ (running[d] /\ pc[d] \notin {"finishing", "done"})
    BY <1>1, <1>4, <2>2 DEF Placed, Submitting, Computing, Stages, Admitting, InFlight
  <2>4. operation_id[SessionOf[d]] = d
    BY <2>3 DEF IInv, ReservationExclusive
  <2> QED BY <1>1, <1>4, <2>4
<1> QED BY <1>2, <1>3, <1>4 DEF RegisterIfEntered, InFlight

LEMMA FlightStep ==
    ASSUME IInv, PlaceInv, PoolInv, FinishInv, FlightInv, [Next]_vars
    PROVE  FlightInv'
<1>1. stage \in [Background -> Stages]
  BY DEF PlaceInv, PlaceTypes
<1>2. ASSUME \A c \in Background : InFlight(c)' => InFlight(c)
      PROVE  FlightInv'
  BY <1>2 DEF FlightInv
<1>3. CASE NobodyFiled
  BY <1>2, <1>3 DEF NobodyFiled
<1>4. ASSUME NEW c \in Background, submit(c) \/ submit_wakes(c)
      PROVE  FlightInv'
  <2>1. CASE pc'[c] # "body"
    <3>1. stage' = stage
      BY <1>4, <2>1, EntryAlone
    <3> QED BY <1>2, <3>1 DEF InFlight
  <2>2. CASE pc'[c] = "body"
    <3>1. /\ stage' = [stage EXCEPT ![c] = "leasing"]
          /\ \A d \in Background : SessionOf[d] = SessionOf[c] => ~InFlight(d)
      BY <1>4, <2>2, EntryAlone DEF Register
    <3>2. \A d \in Background : InFlight(d)' => InFlight(d) \/ d = c
      BY <1>1, <3>1 DEF InFlight
    <3> QED BY <3>1, <3>2 DEF FlightInv
  <2> QED BY <2>1, <2>2
<1>5. ASSUME NEW c \in Background, UndoAdmission(c) \/ finish(c)
      PROVE  FlightInv'
  <2>1. \E x \in {"none", "closed"} : stage' = [stage EXCEPT ![c] = x]
    BY <1>5 DEF UndoAdmission, finish
  <2> QED BY <1>1, <1>2, <2>1 DEF InFlight
<1>6. ASSUME NEW s \in Sessions, close_session(s) \/ close_session_ends(s)
      PROVE  FlightInv'
  BY <1>2, <1>6 DEF close_session, close_session_ends, InFlight
<1> QED BY <1>3, <1>4, <1>5, <1>6, FilingSteps

\* What the bucket of s holds: operations of the session, each once, that were
\* submitted since it was opened; in flight among them is the active one.
Filed(s) ==
    /\ Distinct(records[s])
    /\ \A c \in Background : Listed(c, records[s]) =>
        SessionOf[c] = s /\ stage[c] # "none" /\ late[c] = closed[s]
    /\ active[s] # None =>
        SessionOf[active[s]] = s /\ InFlight(active[s]) /\ late[active[s]] = closed[s]
    /\ bucket[s] = "closing" => ~closed[s]

\* Every operation in flight is there, unless its bucket was dropped.
Traced(c) ==
    /\ late[c] => closed[SessionOf[c]]
    /\ InFlight(c) /\ late[c] = closed[SessionOf[c]] =>
        active[SessionOf[c]] = c /\ Listed(c, records[SessionOf[c]])

BucketInv ==
    /\ BucketTypes
    /\ \A s \in Sessions : Filed(s)
    /\ \A c \in Background : Traced(c)

LEMMA BucketEntry ==
    ASSUME IInv, PlaceInv, FinishInv, BucketInv, NEW c \in Background, submit(c) \/ submit_wakes(c)
    PROVE  BucketInv'
<1> DEFINE s == SessionOf[c]
<1> USE DEF BucketTypes
<1>1. /\ stage \in [Background -> Stages] /\ s \in Sessions /\ None \notin Background
      /\ \A d \in Background : SessionOf[d] \in Sessions
  BY CallsTyped DEF PlaceInv, PlaceTypes, Calls
<1>2. /\ BucketTypes /\ \A t \in Sessions : Filed(t)
      /\ \A d \in Background : Traced(d)
  BY DEF BucketInv
<1>3. /\ late' \in [Background -> BOOLEAN] /\ closed' = closed /\ closing_on' = closing_on
      /\ late'[c] => closed[s]
      /\ \A d \in Background \ {c} : late'[d] = late[d]
      /\ bucket' \in [Sessions -> {"none", "open", "closing"}]
      /\ \A t \in Sessions : bucket'[t] = "closing" => bucket[t] = "closing"
  <2>1. CASE submit(c)
    BY <1>1, <1>2, <2>1 DEF submit
  <2>2. CASE submit_wakes(c)
    BY <1>1, <1>2, <2>2 DEF submit_wakes, Traced
  <2> QED BY <2>1, <2>2
<1>4. stage[c] = "none" /\ ~InFlight(c) /\ \A t \in Sessions : ~Listed(c, records[t])
  BY <1>2, EntryAlone DEF Filed
<1>5. \A t \in Sessions : active[t] # c
  BY <1>1, <1>2, <1>4 DEF Filed
<1>6. CASE UNCHANGED <<stage, records, active>>
  <2>1. BucketTypes'
    BY <1>2, <1>3, <1>6
  <2>2. ASSUME NEW t \in Sessions
        PROVE  Filed(t)'
    <3>1. Filed(t) /\ active[t] \in Background \cup {None}
      BY <1>2
    <3> QED BY <1>3, <1>4, <1>5, <1>6, <3>1 DEF Filed, InFlight
  <2>3. ASSUME NEW d \in Background
        PROVE  Traced(d)'
    <3>1. Traced(d)
      BY <1>2
    <3> QED BY <1>3, <1>4, <1>6, <3>1 DEF Traced, InFlight
  <2> QED BY <2>1, <2>2, <2>3 DEF BucketInv
<1>7. CASE Register(c) /\ \A d \in Background : SessionOf[d] = s => ~InFlight(d)
  <2>1. stage' = [stage EXCEPT ![c] = "leasing"]
    BY <1>7 DEF Register
  <2>2. \A d \in Background : (InFlight(d)' <=> InFlight(d) \/ d = c)
                              /\ (stage'[d] = "none" => stage[d] = "none")
    BY <1>1, <2>1 DEF InFlight
  <2>3. CASE late'[c] = closed[s]
    <3> DEFINE r == Append(records[s], c)
    <3>1. records' = [records EXCEPT ![s] = r] /\ active' = [active EXCEPT ![s] = c]
      BY <1>7, <2>3 DEF Register
    <3>2. r \in Seq(Background) /\ Distinct(r) /\ \A d : Listed(d, r) <=> Listed(d, records[s]) \/ d = c
      <4>1. records[s] \in Seq(Background) /\ Distinct(records[s]) /\ ~Listed(c, records[s])
        BY <1>1, <1>2, <1>4 DEF Filed
      <4> QED BY <4>1, AppendDistinct
    <3> HIDE DEF r
    <3>3. BucketTypes'
      BY <1>1, <1>2, <1>3, <3>1, <3>2
    <3>4. ASSUME NEW t \in Sessions
          PROVE  Filed(t)'
      <4>1. Filed(t) /\ active[t] \in Background \cup {None}
        BY <1>2
      <4>2. CASE t = s
        <5>1. records'[t] = r /\ active'[t] = c /\ InFlight(c)'
          BY <1>1, <1>2, <2>2, <3>1, <4>2
        <5>2. Distinct(records'[t])
          BY <3>2, <5>1
        <5>3. \A d \in Background : Listed(d, records'[t]) =>
                 SessionOf[d] = t /\ stage'[d] # "none" /\ late'[d] = closed'[t]
          <6> SUFFICES ASSUME NEW d \in Background, Listed(d, records'[t])
                       PROVE  SessionOf[d] = t /\ stage'[d] # "none" /\ late'[d] = closed'[t]
            OBVIOUS
          <6>1. CASE d = c
            BY <1>3, <2>1, <2>3, <1>1, <4>2, <6>1
          <6>2. CASE d # c
            <7>1. Listed(d, records[t])
              BY <3>2, <4>2, <5>1, <6>2
            <7> QED BY <1>3, <2>2, <4>1, <6>2, <7>1 DEF Filed
          <6> QED BY <6>1, <6>2
        <5>4. SessionOf[c] = t /\ late'[c] = closed'[t]
          BY <1>3, <2>3, <4>2
        <5> QED BY <1>3, <4>1, <5>1, <5>2, <5>3, <5>4 DEF Filed
      <4>3. CASE t # s
        <5>1. records'[t] = records[t] /\ active'[t] = active[t]
          BY <1>1, <1>2, <3>1, <4>3
        <5> QED BY <1>3, <1>4, <1>5, <2>2, <4>1, <5>1 DEF Filed
      <4> QED BY <4>2, <4>3
    <3>5. ASSUME NEW d \in Background
          PROVE  Traced(d)'
      <4>1. Traced(d)
        BY <1>2
      <4>2. CASE SessionOf[d] = s
        <5>1. records'[s] = r /\ active'[s] = c
          BY <1>1, <1>2, <3>1
        <5> QED BY <1>3, <1>7, <2>2, <3>2, <4>1, <4>2, <5>1 DEF Traced
      <4>3. CASE SessionOf[d] # s
        <5>1. /\ records'[SessionOf[d]] = records[SessionOf[d]]
              /\ active'[SessionOf[d]] = active[SessionOf[d]] /\ d # c
          BY <1>1, <1>2, <3>1, <4>3
        <5> QED BY <1>3, <2>2, <4>1, <5>1 DEF Traced
      <4> QED BY <4>2, <4>3
    <3> QED BY <3>3, <3>4, <3>5 DEF BucketInv
  <2>4. CASE late'[c] # closed[s]
    <3>1. records' = records /\ active' = active
      BY <1>7, <2>4 DEF Register
    <3>2. BucketTypes'
      BY <1>2, <1>3, <3>1
    <3>3. ASSUME NEW t \in Sessions
          PROVE  Filed(t)'
      <4>1. Filed(t) /\ active[t] \in Background \cup {None}
        BY <1>2
      <4> QED BY <1>3, <1>4, <1>5, <2>2, <3>1, <4>1 DEF Filed
    <3>4. ASSUME NEW d \in Background
          PROVE  Traced(d)'
      <4>1. Traced(d)
        BY <1>2
      <4> QED BY <1>3, <2>2, <2>4, <3>1, <4>1 DEF Traced
    <3> QED BY <3>2, <3>3, <3>4 DEF BucketInv
  <2> QED BY <2>3, <2>4
<1> QED BY <1>6, <1>7, EntryAlone

\* The end of an operation takes it out of the bucket, or out of its place.
LEMMA BucketExit ==
    ASSUME IInv, PlaceInv, FlightInv, BucketInv, NEW c \in Background, InFlight(c),
           NEW x \in {"none", "closed"}, stage' = [stage EXCEPT ![c] = x],
           UNCHANGED <<bucket, closed, closing_on, late>>,
           NEW r \in Seq(Background), Distinct(r),
           \A d : Listed(d, r) => Listed(d, records[SessionOf[c]]) /\ (x = "none" => d # c),
           IF late[c] = closed[SessionOf[c]]
           THEN /\ active' = [active EXCEPT ![SessionOf[c]] = None]
                /\ records' = [records EXCEPT ![SessionOf[c]] = r]
           ELSE UNCHANGED <<active, records>>
    PROVE  BucketInv'
<1> DEFINE s == SessionOf[c]
<1> USE DEF BucketTypes
<1>1. /\ stage \in [Background -> Stages] /\ s \in Sessions /\ None \notin Background
      /\ \A d \in Background : SessionOf[d] \in Sessions
  BY CallsTyped DEF PlaceInv, PlaceTypes, Calls
<1>2. /\ BucketTypes /\ \A t \in Sessions : Filed(t)
      /\ \A d \in Background : Traced(d)
  BY DEF BucketInv
<1>3. \A d \in Background \ {c} : stage'[d] = stage[d] /\ (InFlight(d)' <=> InFlight(d))
  BY <1>1 DEF InFlight
<1>4. ~InFlight(c)' /\ stage'[c] = x
  BY <1>1 DEF InFlight
<1>5. CASE late[c] = closed[s]
  <2>1. active' = [active EXCEPT ![s] = None] /\ records' = [records EXCEPT ![s] = r]
    BY <1>5
  <2>2. BucketTypes'
    BY <1>1, <1>2, <2>1
  <2>3. \A t \in Sessions : /\ t = s => records'[t] = r /\ active'[t] = None
                            /\ t # s => records'[t] = records[t] /\ active'[t] = active[t]
    BY <1>1, <1>2, <2>1
  <2>4. ASSUME NEW t \in Sessions
        PROVE  Filed(t)'
    <3>1. Filed(t) /\ active[t] \in Background \cup {None}
      BY <1>2
    <3>2. CASE t = s
      <4>1. records'[t] = r /\ active'[t] = None
        BY <2>3, <3>2
      <4>2. Distinct(records'[t])
        BY <4>1
      <4>3. ASSUME NEW d \in Background, Listed(d, records'[t])
            PROVE  SessionOf[d] = t /\ stage'[d] # "none" /\ late'[d] = closed'[t]
        <5>1. Listed(d, records[t]) /\ (x = "none" => d # c)
          BY <3>2, <4>1, <4>3
        <5>2. SessionOf[d] = t /\ stage[d] # "none" /\ late[d] = closed[t]
          BY <3>1, <5>1 DEF Filed
        <5> QED BY <1>3, <1>4, <5>1, <5>2
      <4> QED BY <3>1, <4>1, <4>2, <4>3 DEF Filed
    <3>3. CASE t # s
      <4>1. records'[t] = records[t] /\ active'[t] = active[t]
        BY <2>3, <3>3
      <4>2. active[t] # c /\ ~Listed(c, records[t])
        BY <1>1, <3>1, <3>3 DEF Filed
      <4> QED BY <1>3, <3>1, <4>1, <4>2 DEF Filed
    <3> QED BY <3>2, <3>3
  <2>5. ASSUME NEW d \in Background
        PROVE  Traced(d)'
    <3>1. Traced(d)
      BY <1>2
    <3>2. CASE SessionOf[d] = s
      <4>1. ~InFlight(d)'
        BY <1>3, <1>4, <3>2 DEF FlightInv
      <4> QED BY <3>1, <4>1 DEF Traced
    <3>3. CASE SessionOf[d] # s
      <4>1. /\ records'[SessionOf[d]] = records[SessionOf[d]]
            /\ active'[SessionOf[d]] = active[SessionOf[d]] /\ d # c
        BY <1>1, <2>3, <3>3
      <4> QED BY <1>3, <3>1, <4>1 DEF Traced
    <3> QED BY <3>2, <3>3
  <2> QED BY <2>2, <2>4, <2>5 DEF BucketInv
<1>6. CASE late[c] # closed[s]
  <2>1. UNCHANGED <<active, records>>
    BY <1>6
  <2>2. BucketTypes'
    BY <1>2, <2>1
  <2>3. ASSUME NEW t \in Sessions
        PROVE  Filed(t)'
    <3>1. Filed(t) /\ active[t] \in Background \cup {None}
      BY <1>2
    <3>2. active[t] # c /\ ~Listed(c, records[t])
      BY <1>1, <1>6, <3>1 DEF Filed
    <3> QED BY <1>3, <2>1, <3>1, <3>2 DEF Filed
  <2>4. ASSUME NEW d \in Background
        PROVE  Traced(d)'
    <3>1. Traced(d)
      BY <1>2
    <3> QED BY <1>3, <1>4, <2>1, <3>1 DEF Traced
  <2> QED BY <2>2, <2>3, <2>4 DEF BucketInv
<1> QED BY <1>5, <1>6

LEMMA BucketDrop ==
    ASSUME BucketInv, NEW s \in Sessions, ~closed[s], DropBucket(s), UNCHANGED <<stage, late>>
    PROVE  BucketInv'
<1> USE DEF BucketTypes
<1>1. /\ BucketTypes /\ \A t \in Sessions : Filed(t)
      /\ \A d \in Background : Traced(d) /\ SessionOf[d] \in Sessions
  BY CallsTyped DEF BucketInv, Calls
<1>2. /\ bucket' = [bucket EXCEPT ![s] = "none"] /\ active' = [active EXCEPT ![s] = None]
      /\ records' = [records EXCEPT ![s] = <<>>] /\ closed' = [closed EXCEPT ![s] = TRUE]
      /\ closing_on' = [closing_on EXCEPT ![s] = None]
  BY DEF DropBucket
<1>3. BucketTypes'
  BY <1>1, <1>2
<1>4. \A t \in Sessions \ {s} :
        /\ bucket'[t] = bucket[t] /\ active'[t] = active[t] /\ records'[t] = records[t]
        /\ closed'[t] = closed[t]
  BY <1>1, <1>2
<1>5. /\ bucket'[s] = "none" /\ active'[s] = None /\ records'[s] = <<>> /\ closed'[s] = TRUE
  BY <1>1, <1>2
<1>6. ASSUME NEW t \in Sessions
      PROVE  Filed(t)'
  <2>1. CASE t = s
    <3>1. Distinct(records'[t]) /\ \A d : ~Listed(d, records'[t])
      BY <1>5, <2>1 DEF Distinct, Listed
    <3> QED BY <1>5, <2>1, <3>1 DEF Filed
  <2>2. CASE t # s
    <3>1. Filed(t)
      BY <1>1
    <3> QED BY <1>4, <2>2, <3>1 DEF Filed, InFlight
  <2> QED BY <2>1, <2>2
<1>7. ASSUME NEW d \in Background
      PROVE  Traced(d)'
  <2>1. Traced(d) /\ SessionOf[d] \in Sessions
    BY <1>1
  <2>2. CASE SessionOf[d] = s
    <3>1. ~late[d]
      BY <2>1, <2>2 DEF Traced
    <3> QED BY <1>5, <2>2, <3>1 DEF Traced
  <2>3. CASE SessionOf[d] # s
    BY <1>4, <2>1, <2>3 DEF Traced, InFlight
  <2> QED BY <2>2, <2>3
<1> QED BY <1>3, <1>6, <1>7 DEF BucketInv

LEMMA BucketStep ==
    ASSUME IInv, PlaceInv, PoolInv, FinishInv, FlightInv, BucketInv, [Next]_vars
    PROVE  BucketInv'
<1>1. /\ BucketTypes /\ (\A t \in Sessions : Filed(t)) /\ (\A d \in Background : Traced(d))
      /\ \A d \in Background : SessionOf[d] \in Sessions /\ Placed(d)
  BY CallsTyped DEF BucketInv, Calls, PlaceInv
<1>2. CASE NobodyFiled
  <2>1. BucketTypes'
    BY <1>1, <1>2 DEF BucketTypes, NobodyFiled, bucketVars
  <2>2. ASSUME NEW t \in Sessions
        PROVE  Filed(t)'
    <3>1. Filed(t) /\ active[t] \in Background \cup {None}
      BY <1>1 DEF BucketTypes
    <3> QED BY <1>2, <3>1 DEF Filed, NobodyFiled, bucketVars
  <2>3. ASSUME NEW d \in Background
        PROVE  Traced(d)'
    <3>1. Traced(d)
      BY <1>1
    <3> QED BY <1>2, <3>1 DEF Traced, NobodyFiled, bucketVars
  <2> QED BY <2>1, <2>2, <2>3 DEF BucketInv
<1>3. ASSUME NEW c \in Background, submit(c) \/ submit_wakes(c)
      PROVE  BucketInv'
  BY <1>3, BucketEntry
<1>4. ASSUME NEW c \in Background, UndoAdmission(c)
      PROVE  BucketInv'
  <2> DEFINE s == SessionOf[c]
             r == Without(records[s], c)
  <2>1. InFlight(c)
    BY <1>1, <1>4 DEF UndoAdmission, fail_admission, Admitting, Placed, InFlight
  <2>2. /\ stage' = [stage EXCEPT ![c] = "none"] /\ UNCHANGED <<bucket, closed, closing_on, late>>
        /\ IF late[c] = closed[s] THEN /\ active' = [active EXCEPT ![s] = None]
                                       /\ records' = [records EXCEPT ![s] = r]
                                  ELSE UNCHANGED <<active, records>>
    BY <1>4 DEF UndoAdmission
  <2>3. records[s] \in Seq(Background) /\ Distinct(records[s])
    BY <1>1 DEF Filed, BucketTypes
  <2>4. CASE late[c] = closed[s]
    <3>1. Listed(c, records[s])
      BY <1>1, <2>1, <2>4 DEF Traced
    <3>2. r \in Seq(Background) /\ Distinct(r) /\ \A d : Listed(d, r) <=> Listed(d, records[s]) /\ d # c
      BY <2>3, <3>1, WithoutDistinct
    <3>3. /\ active' = [active EXCEPT ![s] = None] /\ records' = [records EXCEPT ![s] = r]
          /\ \A d : Listed(d, r) => Listed(d, records[s]) /\ d # c
      BY <2>2, <2>4, <3>2
    <3> HIDE DEF r
    <3> QED BY <2>1, <2>2, <2>4, <3>2, <3>3, BucketExit
  <2>5. CASE late[c] # closed[s]
    <3>1. <<>> \in Seq(Background) /\ Distinct(<<>>) /\ \A d : ~Listed(d, <<>>)
      BY DEF Distinct, Listed
    <3>2. UNCHANGED <<active, records>>
      BY <2>2, <2>5
    <3> HIDE DEF r
    <3> QED BY <2>1, <2>2, <2>5, <3>1, <3>2, BucketExit
  <2> QED BY <2>4, <2>5
<1>5. ASSUME NEW c \in Background, finish(c)
      PROVE  BucketInv'
  <2> DEFINE s == SessionOf[c]
             r == Retain(records[s], c)
  <2>1. InFlight(c)
    BY <1>1, <1>5 DEF finish, task_done, Placed, Submitting, Computing, InFlight
  <2>2. /\ stage' = [stage EXCEPT ![c] = "closed"] /\ UNCHANGED <<bucket, closed, closing_on, late>>
        /\ IF Listed(c, records[s])
           THEN /\ active' = [active EXCEPT ![s] = IF @ = c THEN None ELSE @]
                /\ records' = [records EXCEPT ![s] = r]
           ELSE UNCHANGED <<active, records>>
    BY <1>5 DEF finish, Listed
  <2>3. records[s] \in Seq(Background) /\ Distinct(records[s])
    BY <1>1 DEF Filed, BucketTypes
  <2>4. Listed(c, records[s]) <=> late[c] = closed[s]
    BY <1>1, <2>1 DEF Traced, Filed
  <2>5. CASE late[c] = closed[s]
    <3>1. active[s] = c
      BY <1>1, <2>1, <2>5 DEF Traced
    <3>2. r \in Seq(Background) /\ Distinct(r) /\ \A d : Listed(d, r) => Listed(d, records[s])
      BY <2>3, <2>4, <2>5, RetainDistinct
    <3>3. /\ active' = [active EXCEPT ![s] = None] /\ records' = [records EXCEPT ![s] = r]
      BY <2>2, <2>4, <2>5, <3>1
    <3> HIDE DEF r
    <3> QED BY <2>1, <2>2, <2>5, <3>2, <3>3, BucketExit
  <2>6. CASE late[c] # closed[s]
    <3>1. <<>> \in Seq(Background) /\ Distinct(<<>>) /\ \A d : ~Listed(d, <<>>)
      BY DEF Distinct, Listed
    <3>2. UNCHANGED <<active, records>>
      BY <2>2, <2>4, <2>6
    <3> HIDE DEF r
    <3> QED BY <2>1, <2>2, <2>6, <3>1, <3>2, BucketExit
  <2> QED BY <2>5, <2>6
<1>6. ASSUME NEW s \in Sessions, close_session(s) \/ close_session_ends(s)
      PROVE  BucketInv'
  <2>1. ~closed[s] /\ UNCHANGED <<stage, late>>
    BY <1>1, <1>6 DEF close_session, close_session_ends, Filed
  <2>2. CASE DropBucket(s)
    BY <2>1, <2>2, BucketDrop
  <2>3. CASE /\ active[s] # None /\ bucket' = [bucket EXCEPT ![s] = "closing"]
             /\ closing_on' = [closing_on EXCEPT ![s] = active[s]]
             /\ UNCHANGED <<active, records, closed>>
    <3>1. BucketTypes'
      BY <1>1, <2>1, <2>3 DEF BucketTypes
    <3>2. ASSUME NEW t \in Sessions
          PROVE  Filed(t)'
      <4>1. Filed(t) /\ (bucket'[t] = "closing" => ~closed[t])
        BY <1>1, <2>1, <2>3 DEF BucketTypes, Filed
      <4> QED BY <2>1, <2>3, <4>1 DEF Filed, InFlight
    <3>3. ASSUME NEW d \in Background
          PROVE  Traced(d)'
      <4>1. Traced(d)
        BY <1>1
      <4> QED BY <2>1, <2>3, <4>1 DEF Traced, InFlight
    <3> QED BY <3>1, <3>2, <3>3 DEF BucketInv
  <2> QED BY <1>6, <2>2, <2>3 DEF close_session, close_session_ends
<1> QED BY <1>2, <1>3, <1>4, <1>5, <1>6, FilingSteps

\* An operation whose end can be read has given everything back.
LEMMA ReleaseHolds ==
    ASSUME PlaceInv, ReserveInv, LeaseInv, BucketInv
    PROVE  TerminalAfterRelease
<1> SUFFICES ASSUME NEW c \in Background, terminal[c]
             PROVE  /\ operation_id[SessionOf[c]] # c /\ active[SessionOf[c]] # c
                    /\ ~lease[c] /\ pc[c] = "done"
  BY DEF TerminalAfterRelease
<1>1. stage[c] = "closed" /\ pc[c] = "done" /\ SessionOf[c] \in Sessions /\ c # None
  BY CallsTyped DEF PlaceInv, Placed, Calls
<1>2. operation_id[SessionOf[c]] # c
  BY <1>1 DEF ReserveInv
<1>3. active[SessionOf[c]] # c
  BY <1>1 DEF BucketInv, Filed, InFlight
<1>4. ~lease[c]
  BY <1>1 DEF LeaseInv, Leased
<1> QED BY <1>1, <1>2, <1>3, <1>4

----------------------------------------------------------------------------
(* What is retained *)

Kept(s) == {d \in Background : Listed(d, records[s]) /\ terminal[d]}
Finished(s) == {d \in Background : SessionOf[d] = s /\ terminal[d] /\ late[d] = closed[s]}

\* Of the finished operations as many are kept as there is room for.
Retained(s) == Cardinality(Kept(s)) = IF Cardinality(Finished(s)) < CompletedLimit
                                      THEN Cardinality(Finished(s)) ELSE CompletedLimit

RetainedInv == \A s \in Sessions : Retained(s)

LEMMA SomeFinite ==
    /\ IsFiniteSet(Background)
    /\ \A S \in SUBSET Background : IsFiniteSet(S) /\ Cardinality(S) \in Nat
<1>1. IsFiniteSet(Background)
  BY CallsFinite, FS_Subset DEF Calls
<1> QED BY <1>1, FS_Subset, FS_CardinalityType

\* One more finished operation, and the oldest dropped when there is no room.
LEMMA RetainedOneMore ==
    ASSUME NEW s \in Sessions, Retained(s), NEW c \in Background,
           c \notin Kept(s), c \notin Finished(s),
           Finished(s)' = Finished(s) \cup {c},
           IF Cardinality(Kept(s) \cup {c}) > CompletedLimit
           THEN \E e \in Kept(s) \cup {c} : Kept(s)' = (Kept(s) \cup {c}) \ {e}
           ELSE Kept(s)' = Kept(s) \cup {c}
    PROVE  Retained(s)'
<1> DEFINE K == Kept(s)
           F == Finished(s)
<1>1. /\ IsFiniteSet(K) /\ IsFiniteSet(F) /\ IsFiniteSet(K \cup {c})
      /\ Cardinality(K) \in Nat /\ Cardinality(F) \in Nat /\ CompletedLimit \in Nat
  <2>1. K \in SUBSET Background /\ F \in SUBSET Background /\ K \cup {c} \in SUBSET Background
    BY DEF Kept, Finished
  <2> QED BY <2>1, SomeFinite, BoundsTyped
<1>2. Cardinality(K) = IF Cardinality(F) < CompletedLimit THEN Cardinality(F) ELSE CompletedLimit
  BY DEF Retained
<1> HIDE DEF K, F
<1>3. Cardinality(K \cup {c}) = Cardinality(K) + 1
  BY <1>1, FS_AddElement DEF K
<1>4. Cardinality(F \cup {c}) = Cardinality(F) + 1
  BY <1>1, FS_AddElement DEF F
<1>5. \A e \in K \cup {c} : Cardinality((K \cup {c}) \ {e}) = Cardinality(K)
  <2> SUFFICES ASSUME NEW e \in K \cup {c}
               PROVE  Cardinality((K \cup {c}) \ {e}) = Cardinality(K)
    OBVIOUS
  <2>1. Cardinality((K \cup {c}) \ {e}) = Cardinality(K \cup {c}) - 1
    BY <1>1, FS_RemoveElement
  <2> QED BY <1>1, <1>3, <2>1
<1>6. Cardinality(F') = Cardinality(F) + 1
  BY <1>4 DEF F
<1>7. Cardinality(K') = IF Cardinality(K) + 1 > CompletedLimit THEN Cardinality(K)
                                                               ELSE Cardinality(K) + 1
  BY <1>3, <1>5 DEF K
<1>8. Cardinality(K') = IF Cardinality(F') < CompletedLimit THEN Cardinality(F')
                                                            ELSE CompletedLimit
  BY <1>1, <1>2, <1>6, <1>7
<1> QED BY <1>8 DEF Retained, K, F

LEMMA RetainedStep ==
    ASSUME IInv, PlaceInv, PoolInv, FinishInv, FlightInv, BucketInv, RetainedInv, [Next]_vars
    PROVE  RetainedInv'
<1>1. /\ BucketTypes /\ (\A t \in Sessions : Filed(t)) /\ (\A d \in Background : Traced(d))
      /\ terminal \in [Background -> BOOLEAN]
      /\ \A d \in Background : SessionOf[d] \in Sessions /\ Placed(d)
  BY CallsTyped DEF BucketInv, Calls, PlaceInv, PlaceTypes
<1>2. ASSUME NEW s \in Sessions, Kept(s)' = Kept(s), Finished(s)' = Finished(s)
      PROVE  Retained(s)'
  BY <1>2 DEF RetainedInv, Retained
<1>3. CASE NobodyFiled
  <2>1. \A s \in Sessions : Kept(s)' = Kept(s) /\ Finished(s)' = Finished(s)
    BY <1>3 DEF NobodyFiled, bucketVars, Kept, Finished
  <2> QED BY <1>2, <2>1 DEF RetainedInv
<1>4. ASSUME NEW c \in Background, submit(c) \/ submit_wakes(c)
      PROVE  RetainedInv'
  <2>1. /\ terminal' = terminal /\ closed' = closed /\ ~terminal[c]
        /\ \A d \in Background \ {c} : late'[d] = late[d]
    <3>1. ~terminal[c]
      BY <1>1, <1>4, EntryAlone DEF Placed
    <3>2. terminal' = terminal /\ closed' = closed
      BY <1>4 DEF submit, submit_wakes, controlVars
    <3>3. late' = late \/ late' = [late EXCEPT ![c] = closed[SessionOf[c]]]
      BY <1>4 DEF submit, submit_wakes
    <3>4. late \in [Background -> BOOLEAN]
      BY <1>1 DEF BucketTypes
    <3>5. \A d \in Background \ {c} : late'[d] = late[d]
      BY <3>3, <3>4
    <3> QED BY <3>1, <3>2, <3>5
  <2>2. \A s \in Sessions, d \in Background \ {c} : Listed(d, records'[s]) <=> Listed(d, records[s])
    <3>1. CASE records' = records
      BY <3>1
    <3>2. CASE records' = [records EXCEPT ![SessionOf[c]] = Append(@, c)]
      <4>1. /\ records[SessionOf[c]] \in Seq(Background) /\ Distinct(records[SessionOf[c]])
            /\ ~Listed(c, records[SessionOf[c]])
        <5>1. stage[c] = "none"
          BY <1>4, EntryAlone
        <5>2. SessionOf[c] \in Sessions /\ Filed(SessionOf[c])
          BY <1>1
        <5> QED BY <1>1, <5>1, <5>2 DEF BucketTypes, Filed
      <4>2. \A d : Listed(d, Append(records[SessionOf[c]], c))
                     <=> Listed(d, records[SessionOf[c]]) \/ d = c
        BY <4>1, AppendDistinct
      <4>3. \A s \in Sessions : records'[s] = IF s = SessionOf[c]
                                              THEN Append(records[SessionOf[c]], c) ELSE records[s]
        BY <1>1, <3>2 DEF BucketTypes
      <4> QED BY <4>2, <4>3
    <3> QED BY <1>4, <3>1, <3>2, EntryAlone DEF Register
  <2>3. ASSUME NEW s \in Sessions
        PROVE  Kept(s)' = Kept(s) /\ Finished(s)' = Finished(s)
    BY <2>1, <2>2 DEF Kept, Finished
  <2> QED BY <1>2, <2>3 DEF RetainedInv
<1>5. ASSUME NEW c \in Background, UndoAdmission(c)
      PROVE  RetainedInv'
  <2>1. InFlight(c) /\ ~terminal[c]
    BY <1>1, <1>5 DEF UndoAdmission, fail_admission, Admitting, Placed, InFlight
  <2>2. UNCHANGED <<terminal, late, closed>>
    BY <1>5 DEF UndoAdmission, controlVars
  <2>3. \A s \in Sessions, d \in Background \ {c} : Listed(d, records'[s]) <=> Listed(d, records[s])
    <3>1. CASE records' = records
      BY <3>1
    <3>2. CASE /\ records' = [records EXCEPT ![SessionOf[c]] = Without(@, c)]
               /\ late[c] = closed[SessionOf[c]]
      <4>1. /\ records[SessionOf[c]] \in Seq(Background) /\ Distinct(records[SessionOf[c]])
            /\ Listed(c, records[SessionOf[c]])
        BY <1>1, <2>1, <3>2 DEF BucketTypes, Filed, Traced
      <4>2. \A d : Listed(d, Without(records[SessionOf[c]], c))
                     <=> Listed(d, records[SessionOf[c]]) /\ d # c
        BY <4>1, WithoutDistinct
      <4>3. \A s \in Sessions : records'[s] = IF s = SessionOf[c]
                                              THEN Without(records[SessionOf[c]], c) ELSE records[s]
        BY <1>1, <3>2 DEF BucketTypes
      <4> QED BY <4>2, <4>3
    <3> QED BY <1>5, <3>1, <3>2 DEF UndoAdmission
  <2>4. ASSUME NEW s \in Sessions
        PROVE  Kept(s)' = Kept(s) /\ Finished(s)' = Finished(s)
    BY <2>1, <2>2, <2>3 DEF Kept, Finished
  <2> QED BY <1>2, <2>4 DEF RetainedInv
<1>6. ASSUME NEW c \in Background, finish(c)
      PROVE  RetainedInv'
  <2> DEFINE t == SessionOf[c]
             r == Retain(records[t], c)
  <2>1. InFlight(c) /\ ~terminal[c] /\ t \in Sessions
    BY <1>1, <1>6 DEF finish, task_done, Placed, Submitting, Computing, InFlight
  <2>2. /\ terminal' = [terminal EXCEPT ![c] = TRUE] /\ UNCHANGED <<closed, late>>
        /\ IF Listed(c, records[t]) THEN records' = [records EXCEPT ![t] = r]
                                    ELSE UNCHANGED records
    BY <1>6 DEF finish, Listed
  <2>3. \A d \in Background : terminal'[d] <=> terminal[d] \/ d = c
    BY <1>1, <2>2
  <2>4. Listed(c, records[t]) <=> late[c] = closed[t]
    BY <1>1, <2>1 DEF Traced, Filed
  <2>5. \A s \in Sessions \ {t} : ~Listed(c, records[s]) /\ records'[s] = records[s]
    BY <1>1, <2>2 DEF Filed, BucketTypes
  <2>6. ASSUME NEW s \in Sessions \ {t}
        PROVE  Retained(s)'
    <3>1. Kept(s)' = Kept(s) /\ Finished(s)' = Finished(s)
      BY <2>2, <2>3, <2>5 DEF Kept, Finished
    <3> QED BY <1>2, <3>1
  <2>7. CASE late[c] # closed[t]
    <3>1. Kept(t)' = Kept(t) /\ Finished(t)' = Finished(t)
      BY <2>2, <2>3, <2>4, <2>7 DEF Kept, Finished
    <3>2. Retained(t)'
      BY <1>2, <2>1, <3>1
    <3> QED BY <2>6, <3>2 DEF RetainedInv
  <2>8. CASE late[c] = closed[t]
    <3> DEFINE K == Kept(t) \cup {c}
    <3>1. records[t] \in Seq(Background) /\ Distinct(records[t]) /\ Listed(c, records[t])
      BY <1>1, <2>1, <2>4, <2>8 DEF BucketTypes, Filed
    <3>2. K = Done(records[t], c)
      BY <3>1 DEF Kept, Done
    <3>3. records'[t] = r
      BY <1>1, <2>1, <2>2, <3>1 DEF BucketTypes
    <3>4. IF Cardinality(Done(records[t], c)) > CompletedLimit
          THEN \E e \in Done(records[t], c) :
                  \A d : Listed(d, r) <=> Listed(d, records[t]) /\ d # e
          ELSE \A d : Listed(d, r) <=> Listed(d, records[t])
      BY <3>1, RetainDistinct
    <3> HIDE DEF r
    <3>5. Kept(t)' = {d \in Background : Listed(d, r) /\ (terminal[d] \/ d = c)}
      BY <2>3, <3>3 DEF Kept
    <3>6. IF Cardinality(K) > CompletedLimit THEN \E e \in K : Kept(t)' = K \ {e}
                                             ELSE Kept(t)' = K
      <4>1. CASE Cardinality(K) > CompletedLimit
        <5>1. PICK e \in K : \A d : Listed(d, r) <=> Listed(d, records[t]) /\ d # e
          BY <3>2, <3>4, <4>1
        <5>2. Kept(t)' = K \ {e}
          BY <3>1, <3>5, <5>1 DEF Kept
        <5> QED BY <4>1, <5>2
      <4>2. CASE ~(Cardinality(K) > CompletedLimit)
        <5>1. \A d : Listed(d, r) <=> Listed(d, records[t])
          BY <3>2, <3>4, <4>2
        <5>2. Kept(t)' = K
          BY <3>1, <3>5, <5>1 DEF Kept
        <5> QED BY <4>2, <5>2
      <4> QED BY <4>1, <4>2
    <3>7. Finished(t)' = Finished(t) \cup {c} /\ c \notin Finished(t) /\ c \notin Kept(t)
      BY <2>1, <2>2, <2>3, <2>8 DEF Finished, Kept
    <3>8. Retained(t)'
      BY <2>1, <3>6, <3>7, RetainedOneMore DEF RetainedInv
    <3> QED BY <2>6, <3>8 DEF RetainedInv
  <2> QED BY <2>7, <2>8
<1>7. ASSUME NEW s \in Sessions, close_session(s) \/ close_session_ends(s)
      PROVE  RetainedInv'
  <2>1. ~closed[s] /\ UNCHANGED <<terminal, late>>
    BY <1>1, <1>7 DEF close_session, close_session_ends, Filed, controlVars
  <2>2. CASE DropBucket(s)
    <3>1. /\ records'[s] = <<>> /\ closed'[s] = TRUE
          /\ \A t \in Sessions \ {s} : records'[t] = records[t] /\ closed'[t] = closed[t]
      BY <1>1, <2>2 DEF DropBucket, BucketTypes
    <3>2. Kept(s)' = {} /\ Finished(s)' = {}
      BY <1>1, <2>1, <3>1 DEF Kept, Finished, Listed, Traced
    <3>3. Retained(s)'
      <4>1. Cardinality({}) = 0
        BY FS_EmptySet
      <4> QED BY <3>2, <4>1, BoundsTyped DEF Retained
    <3>4. \A t \in Sessions \ {s} : Kept(t)' = Kept(t) /\ Finished(t)' = Finished(t)
      BY <2>1, <3>1 DEF Kept, Finished
    <3> QED BY <1>2, <3>3, <3>4 DEF RetainedInv
  <2>3. CASE UNCHANGED <<records, closed>>
    <3>1. \A t \in Sessions : Kept(t)' = Kept(t) /\ Finished(t)' = Finished(t)
      BY <2>1, <2>3 DEF Kept, Finished
    <3> QED BY <1>2, <3>1 DEF RetainedInv
  <2> QED BY <1>7, <2>2, <2>3 DEF close_session, close_session_ends
<1> QED BY <1>3, <1>4, <1>5, <1>6, <1>7, FilingSteps

\* The list of a session is exactly that and what is in flight.
LEMMA RetainedHolds ==
    ASSUME PlaceInv, BucketInv, RetainedInv
    PROVE  RetentionExact
<1> SUFFICES ASSUME NEW s \in Sessions
             PROVE  LET kept == {records[s][i] : i \in DOMAIN records[s]}
                        finished == {c \in Background :
                                        SessionOf[c] = s /\ terminal[c] /\ late[c] = closed[s]}
                    IN  /\ Cardinality(kept \cap finished)
                             = IF Cardinality(finished) < CompletedLimit
                               THEN Cardinality(finished) ELSE CompletedLimit
                        /\ kept \ finished = {active[s]} \ {None}
                        /\ Len(records[s]) = Cardinality(kept)
  BY DEF RetentionExact
<1> DEFINE kept == {records[s][i] : i \in DOMAIN records[s]}
<1>1. /\ records[s] \in Seq(Background) /\ active[s] \in Background \cup {None}
      /\ Filed(s) /\ \A d \in Background : Traced(d) /\ Placed(d) /\ stage[d] \in Stages
  BY DEF BucketInv, BucketTypes, PlaceInv, PlaceTypes
<1>2. \A d : d \in kept <=> Listed(d, records[s])
  BY DEF Listed
<1>3. DOMAIN records[s] = 1 .. Len(records[s]) /\ Len(records[s]) \in Nat
      /\ kept \subseteq Background
  BY <1>1
<1>4. kept \cap Finished(s) = Kept(s)
  BY <1>1, <1>2, <1>3 DEF Finished, Kept, Filed
<1>5. kept \ Finished(s) = {active[s]} \ {None}
  <2>1. ASSUME NEW d \in Background, d \in kept, d \notin Finished(s)
        PROVE  d = active[s]
    <3>1. SessionOf[d] = s /\ stage[d] # "none" /\ late[d] = closed[s]
      BY <1>1, <1>2, <2>1 DEF Filed
    <3>2. InFlight(d)
      BY <1>1, <2>1, <3>1 DEF Finished, Placed, InFlight
    <3> QED BY <1>1, <3>1, <3>2 DEF Traced
  <2>2. ASSUME active[s] # None
        PROVE  active[s] \in kept /\ active[s] \notin Finished(s)
    <3>1. /\ active[s] \in Background /\ SessionOf[active[s]] = s /\ InFlight(active[s])
          /\ late[active[s]] = closed[s]
      BY <1>1, <2>2 DEF Filed
    <3> QED BY <1>1, <1>2, <3>1 DEF Traced, Finished, Placed, InFlight
  <2>3. None \notin Background
    BY CallsTyped DEF Calls
  <2> QED BY <1>3, <2>1, <2>2, <2>3
<1>6. Len(records[s]) = Cardinality(kept)
  <2> DEFINE f == [i \in 1 .. Len(records[s]) |-> records[s][i]]
  <2>1. f \in [1 .. Len(records[s]) -> kept]
    BY <1>3
  <2>2. \A i, j \in 1 .. Len(records[s]) : f[i] = f[j] => i = j
    BY <1>1, <1>3 DEF Filed, Distinct
  <2>3. \A d \in kept : \E i \in 1 .. Len(records[s]) : f[i] = d
    BY <1>3
  <2> HIDE DEF f, kept
  <2>4. f \in Bijection(1 .. Len(records[s]), kept)
    <3>1. DOMAIN f = 1 .. Len(records[s])
      BY <2>1
    <3> QED BY <2>1, <2>2, <2>3, <3>1 DEF Bijection, Injection, Surjection, IsInjective
  <2>5. IsFiniteSet(1 .. Len(records[s])) /\ Cardinality(1 .. Len(records[s])) = Len(records[s])
    BY <1>3, FS_Interval
  <2>6. ExistsBijection(1 .. Len(records[s]), kept)
    BY <2>4 DEF ExistsBijection
  <2> QED BY <2>5, <2>6, FS_Bijection
<1> HIDE DEF kept
<1>7. Cardinality(kept \cap Finished(s)) = IF Cardinality(Finished(s)) < CompletedLimit
                                           THEN Cardinality(Finished(s)) ELSE CompletedLimit
  BY <1>4 DEF RetainedInv, Retained
<1> QED BY <1>5, <1>6, <1>7 DEF kept, Finished

----------------------------------------------------------------------------
(* The line in front of the session: a worker passes no submission in it *)

Waiting == {"queued", "granted"}

\* d stands before c.
Before(d, c, q) == \E i, j \in DOMAIN q : i < j /\ q[i] = d /\ q[j] = c

\* What a step of c does to its session's line.
LineMoves(c) ==
    /\ Others(c)
    /\ \/ /\ waiters' = waiters /\ (pc'[c] \in InLockQueue <=> pc[c] \in InLockQueue)
          /\ pc'[c] \in Waiting => pc[c] \in Waiting
       \/ /\ waiters' = [waiters EXCEPT ![SessionOf[c]] = Without(@, c)]
          /\ pc[c] \in InLockQueue /\ pc'[c] \notin InLockQueue
       \/ /\ waiters' = [waiters EXCEPT ![SessionOf[c]] = Append(@, c)]
          /\ pc[c] \notin InLockQueue /\ pc'[c] = "queued"

\* Only submit brings a submission into the line, and a worker gets to the lock
\* by its turn or when nobody waits.
LineRules(c) ==
    /\ running[c] => running'[c]
    /\ running'[c] => running[c] \/ pc'[c] = "handoff"
    /\ pc'[c] # "done" => pc[c] # "done"
    /\ c \in Background /\ ~running'[c] /\ pc'[c] \in Waiting /\ pc[c] \notin Waiting
         => submit(c) /\ ~Refused(c) /\ LoopFor(c)
    /\ c \in Background /\ running'[c] /\ pc'[c] \in {"granted", "body", "finishing"}
         => pc[c] \in {"granted", "body", "finishing"} \/ LockFree(SessionOf[c])

LEMMA LineOut ==
    ASSUME IInv, NEW c \in Calls, Others(c), pc[c] = "body", pc'[c] \in {"done", "handoff", "finishing"},
           waiters' = [waiters EXCEPT ![SessionOf[c]] = waiters[SessionOf[c]]]
    PROVE  LineMoves(c)
<1>1. waiters' = waiters
  BY CallsTyped DEF IInv, GateTypeOK
<1> QED BY <1>1 DEF LineMoves, InLockQueue, Waiting

\* Taking the lock, or its place in the line.
LEMMA LineEnter ==
    ASSUME IInv, NEW c \in Calls, pc[c] \notin {"leaving", "queued"}, UNCHANGED <<running, cancelled>>,
           NEW q, NEW r, EnterLocked(c, q, r),
           \/ pc[c] \notin InLockQueue /\ q = waiters[SessionOf[c]]
           \/ pc[c] = "granted" /\ q = Without(waiters[SessionOf[c]], c)
    PROVE  LineMoves(c) /\ pc'[c] \in {"body", "done"}
<1>1. /\ pc \in [Calls -> PCs] /\ {"done", "body"} \subseteq PCs
      /\ waiters \in [Sessions -> Seq(Calls)] /\ SessionOf[c] \in Sessions
  BY CallsTyped DEF IInv, GateTypeOK, PCs
<1>2. Others(c) /\ pc'[c] \in {"body", "done"}
  <2>1. CASE LeaveLock(c, "done", q)
    BY <1>1, <2>1, LeavesOthers
  <2>2. CASE pc' = [pc EXCEPT ![c] = "body"]
    BY <1>1, <2>2 DEF Others
  <2> QED BY <2>1, <2>2 DEF EnterLocked
<1>3. waiters' = [waiters EXCEPT ![SessionOf[c]] = q]
  BY DEF EnterLocked, LeaveLock
<1>4. CASE pc[c] \notin InLockQueue /\ q = waiters[SessionOf[c]]
  <2>1. waiters' = waiters
    BY <1>1, <1>3, <1>4
  <2> QED BY <1>2, <1>4, <2>1 DEF LineMoves, InLockQueue, Waiting
<1>5. CASE pc[c] = "granted" /\ q = Without(waiters[SessionOf[c]], c)
  BY <1>2, <1>3, <1>5 DEF LineMoves, InLockQueue
<1> QED BY <1>4, <1>5

LEMMA LineQueue ==
    ASSUME IInv, NEW c \in Calls, pc[c] \notin InLockQueue, UNCHANGED <<running, cancelled>>,
           NEW r, LockOrQueue(c, r)
    PROVE  /\ LineMoves(c) /\ pc'[c] \in {"body", "done", "queued"}
           /\ pc'[c] = "body" => LockFree(SessionOf[c])
<1>1. pc \in [Calls -> PCs] /\ pc[c] \notin {"leaving", "queued"}
  BY DEF IInv, GateTypeOK, InLockQueue
<1>2. CASE LockFree(SessionOf[c]) /\ EnterLocked(c, waiters[SessionOf[c]], r)
  BY <1>1, <1>2, LineEnter
<1>3. CASE /\ waiters' = [waiters EXCEPT ![SessionOf[c]] = Append(@, c)]
           /\ pc' = [pc EXCEPT ![c] = "queued"]
  BY <1>1, <1>3 DEF LineMoves, Others
<1> QED BY <1>2, <1>3 DEF LockOrQueue

LEMMA LineGateStep ==
    ASSUME IInv, PlaceInv, NEW c \in Calls, gate_step(c)
    PROVE  LineMoves(c) /\ LineRules(c)
<1> USE CallsTyped DEF PCs
<1>1. /\ pc \in [Calls -> PCs] /\ waiters \in [Sessions -> Seq(Calls)] /\ SessionOf[c] \in Sessions
  BY DEF IInv, GateTypeOK
<1>2. /\ Others(c) /\ running' = running
      /\ c \in Background /\ running[c] => pc[c] \notin {"leaving", "done", "body", "finishing"}
      /\ c \in Background /\ ~running[c] => pc[c] \in {"queued", "granted", "leaving"}
  <2>1. Others(c) /\ running' = running
    BY GateStepMoves
  <2>2. c \in Background /\ running[c] => pc[c] \notin {"leaving", "done", "body", "finishing"}
    <3>1. CASE c \in Background /\ running[c]
      <4>1. stage[c] = "worker" /\ pc[c] # "body" /\ Placed(c)
        BY <3>1, GateStepMoves DEF PlaceInv
      <4> QED BY <4>1 DEF Placed
    <3> QED BY <3>1
  <2>3. c \in Background /\ ~running[c] => pc[c] \in {"queued", "granted", "leaving"}
    BY GateStepMoves
  <2> QED BY <2>1, <2>2, <2>3
<1>3. ASSUME LineMoves(c), pc[c] # "done",
             c \in Background /\ running[c] /\ pc'[c] \in {"granted", "body", "finishing"}
               => pc[c] = "granted" \/ LockFree(SessionOf[c])
      PROVE  LineRules(c)
  <2>1. c \in Background /\ ~running[c] /\ pc'[c] \in Waiting => pc[c] \in Waiting
    BY <1>2, <1>3 DEF LineMoves, InLockQueue, Waiting
  <2> QED BY <1>2, <1>3, <2>1 DEF LineRules
<1>4. CASE hold(c)
  <2>1. /\ waiters' = waiters /\ pc[c] \notin InLockQueue /\ pc[c] # "done"
        /\ pc'[c] \in {"done", "reading"}
    BY <1>1, <1>4 DEF hold, InLockQueue
  <2>2. LineMoves(c)
    BY <1>2, <2>1 DEF LineMoves, InLockQueue, Waiting
  <2> QED BY <1>3, <2>1, <2>2
<1>5. CASE acquire_read(c)
  <2>1. /\ waiters' = waiters /\ pc[c] \notin InLockQueue /\ pc[c] # "done"
        /\ pc'[c] = "acquired"
    BY <1>1, <1>5 DEF acquire_read, InLockQueue
  <2>2. LineMoves(c)
    BY <1>2, <2>1 DEF LineMoves, InLockQueue, Waiting
  <2> QED BY <1>3, <2>1, <2>2
<1>6. CASE resume_hold(c)
  <2>1. pc[c] = "acquired" /\ UNCHANGED <<running, cancelled>> /\ pc[c] \notin InLockQueue
    BY <1>6 DEF resume_hold, InLockQueue
  <2>2. CASE pc' = [pc EXCEPT ![c] = "done"] /\ UNCHANGED waiters
    <3>1. LineMoves(c) /\ pc'[c] = "done"
      BY <1>1, <1>2, <2>1, <2>2 DEF LineMoves, InLockQueue, Waiting
    <3> QED BY <1>3, <2>1, <3>1
  <2>3. CASE LockOrQueue(c, readers)
    <3>1. /\ LineMoves(c) /\ pc'[c] \in {"body", "done", "queued"}
          /\ pc'[c] = "body" => LockFree(SessionOf[c])
      BY <2>1, <2>3, LineQueue
    <3> QED BY <1>3, <2>1, <3>1
  <2> QED BY <1>6, <2>2, <2>3 DEF resume_hold
<1>7. CASE wake_up(c)
  <2>1. pc[c] = "granted" /\ UNCHANGED <<running, cancelled>>
    BY <1>7 DEF wake_up
  <2>2. CASE EnterLocked(c, Without(waiters[SessionOf[c]], c), readers)
    <3>1. LineMoves(c)
      BY <2>1, <2>2, LineEnter
    <3> QED BY <1>3, <2>1, <3>1
  <2>3. CASE LeaveLock(c, "done", Without(waiters[SessionOf[c]], c))
    <3>1. waiters' = [waiters EXCEPT ![SessionOf[c]] = Without(@, c)] /\ pc'[c] = "done"
      BY <1>1, <2>3 DEF LeaveLock
    <3>2. LineMoves(c)
      BY <1>2, <2>1, <3>1 DEF LineMoves, InLockQueue
    <3> QED BY <1>3, <2>1, <3>2
  <2> QED BY <1>7, <2>2, <2>3 DEF wake_up
<1>8. CASE leave_queue(c)
  <2>1. /\ pc[c] = "leaving" /\ pc'[c] = "done"
        /\ waiters' = [waiters EXCEPT ![SessionOf[c]] = Without(@, c)]
    BY <1>1, <1>8 DEF leave_queue, LeaveLock
  <2>2. LineMoves(c)
    BY <1>2, <2>1 DEF LineMoves, InLockQueue
  <2> QED BY <1>3, <2>1, <2>2
<1>9. CASE cancel_request(c)
  <2>1. /\ waiters' = waiters /\ pc[c] # "done" /\ ~running[c]
        /\ pc'[c] = IF pc[c] = "queued" THEN "leaving" ELSE pc[c]
    BY <1>1, <1>9 DEF cancel_request
  <2>2. LineMoves(c)
    BY <1>2, <2>1 DEF LineMoves, InLockQueue, Waiting
  <2> QED BY <1>3, <2>1, <2>2
<1> QED BY <1>4, <1>5, <1>6, <1>7, <1>8, <1>9 DEF gate_step

\* Every step leaves the lines alone or is of this kind.
LEMMA LineSteps ==
    ASSUME IInv, PlaceInv, PoolInv, [Next]_vars
    PROVE  \/ UNCHANGED <<pc, running, waiters>>
           \/ \E c \in Calls : LineMoves(c) /\ LineRules(c)
<1> USE CallsTyped
<1>1. /\ pc \in [Calls -> PCs] /\ running \in [Calls -> BOOLEAN]
      /\ waiters \in [Sessions -> Seq(Calls)] /\ Background \subseteq Calls
      /\ \A d \in Calls : SessionOf[d] \in Sessions
      /\ \A d \in Background : Placed(d) /\ stage[d] \in Stages
  <2>1. Background \subseteq Calls
    BY DEF Calls
  <2> QED BY <2>1 DEF IInv, GateTypeOK, PlaceInv, PlaceTypes
<1>2. ASSUME NEW c \in Calls, gate_step(c)
      PROVE  LineMoves(c) /\ LineRules(c)
  BY <1>2, LineGateStep
<1>3. ASSUME NEW c \in Calls,
             \/ tool_ends(c)
             \/ c \in Background /\ (read_lease_busy(c) \/ capture_failed(c) \/ start_worker(c)
                                       \/ worker_leaves(c))
      PROVE  LineMoves(c) /\ LineRules(c)
  <2>1. leave_hold(c) \/ hand_off(c) \/ fail_admission(c) \/ leave_worker(c)
    BY <1>3 DEF tool_ends, read_lease_busy, capture_failed, UndoAdmission, start_worker,
       worker_leaves
  <2>2. waiters' = [waiters EXCEPT ![SessionOf[c]] = waiters[SessionOf[c]]]
    BY <2>1 DEF leave_hold, hand_off, fail_admission, leave_worker, LeaveLock
  <2>3. /\ Others(c) /\ pc[c] = "body" /\ pc'[c] \in {"done", "handoff", "finishing"}
        /\ \/ running' = running
           \/ pc'[c] = "handoff" /\ running' = [running EXCEPT ![c] = TRUE]
    BY <2>1, ExitMoves
  <2>4. LineMoves(c)
    BY <2>2, <2>3, LineOut
  <2>5. LineRules(c)
    BY <1>1, <2>3 DEF LineRules, Waiting
  <2> QED BY <2>4, <2>5
<1>4. ASSUME NEW c \in Background, submit_refused(c) \/ finish(c)
      PROVE  LineMoves(c) /\ LineRules(c)
  <2>1. /\ pc[c] \in {"idle", "finishing"} /\ pc' = [pc EXCEPT ![c] = "done"]
        /\ UNCHANGED <<running, cancelled, waiters>>
    BY <1>4 DEF submit_refused, finish, task_done
  <2> QED BY <1>1, <2>1 DEF LineMoves, LineRules, Others, InLockQueue, Waiting
<1>5. ASSUME NEW c \in Background, submit(c)
      PROVE  LineMoves(c) /\ LineRules(c)
  <2>1. /\ pc[c] = "idle" /\ UNCHANGED <<running, cancelled>> /\ LoopFor(c)
        /\ hold_nowait(c)
    BY <1>5 DEF submit, hold_nowait
  <2>2. ~running[c] /\ pc[c] \notin InLockQueue /\ c \in Calls
    BY <1>1, <2>1 DEF Placed, Submitting, Computing, Stages, InLockQueue
  <2>3. CASE pc' = [pc EXCEPT ![c] = "done"] /\ UNCHANGED waiters
    BY <1>1, <2>1, <2>3 DEF LineMoves, LineRules, Others, InLockQueue, Waiting
  <2>4. CASE ~Refused(c) /\ LockOrQueue(c, readers + 1)
    <3>1. LineMoves(c)
      BY <2>1, <2>2, <2>4, LineQueue
    <3> QED BY <1>5, <2>1, <2>2, <2>4, <3>1 DEF LineRules
  <2> QED BY <2>1, <2>3, <2>4 DEF hold_nowait
<1>6. ASSUME NEW c \in Background, submit_wakes(c)
      PROVE  LineMoves(c) /\ LineRules(c)
  <2> DEFINE q == Without(waiters[SessionOf[c]], c)
  <2>1. pc[c] = "granted" /\ UNCHANGED <<running, cancelled>> /\ ~running[c] /\ c \in Calls
    BY <1>1, <1>6 DEF submit_wakes, wake_up
  <2>2. LineRules(c)
    BY <2>1 DEF LineRules, Waiting
  <2>3. CASE EnterLocked(c, q, readers)
    <3>1. LineMoves(c)
      BY <2>1, <2>3, LineEnter
    <3> QED BY <2>2, <3>1
  <2>4. CASE LeaveLock(c, "done", q)
    <3>1. waiters' = [waiters EXCEPT ![SessionOf[c]] = Without(@, c)]
      BY <2>4 DEF LeaveLock
    <3>2. Others(c) /\ pc'[c] = "done"
      <4>1. "done" \in PCs
        BY DEF PCs
      <4> QED BY <2>1, <2>4, <4>1, LeavesOthers
    <3>3. LineMoves(c)
      BY <2>1, <3>1, <3>2 DEF LineMoves, InLockQueue
    <3> QED BY <2>2, <3>3
  <2> QED BY <1>6, <2>3, <2>4 DEF submit_wakes, wake_up
<1>7. ASSUME NEW c \in Background,
             \/ take_read_lease(c) \/ capture(c) \/ reject(c) \/ compute_begin(c)
             \/ publication_guard(c) \/ compute_end(c) \/ seal(c) \/ worker_releases(c)
             \/ close_lease(c) \/ cancel(c)
      PROVE  UNCHANGED <<pc, running, waiters>>
  BY <1>7 DEF take_read_lease, await_admission, capture, reject, compute_begin,
     publication_guard, compute_end, seal, worker_releases, release_operation, close_lease,
     cancel, gateVars
<1>8. ASSUME NEW c \in Calls, get_begin(c) \/ get_end(c)
      PROVE  UNCHANGED <<pc, running, waiters>>
  BY <1>8 DEF get_begin, get_end, gateVars
<1>9. ASSUME NEW s \in Sessions, close_session(s) \/ close_session_ends(s) \/ engine_dies(s)
      PROVE  UNCHANGED <<pc, running, waiters>>
  BY <1>9 DEF close_session, close_session_ends, engine_dies, gateVars
<1>10. ASSUME NEW u, take_write_lease(u) \/ install_begin(u) \/ install(u)
                     \/ drop_write_lease(u) \/ foreign_install(u)
       PROVE  UNCHANGED <<pc, running, waiters>>
  BY <1>10 DEF take_write_lease, install_begin, maintenance_begin, install,
     maintenance_end, drop_write_lease, foreign_install, gateVars
<1>11. UNCHANGED vars => UNCHANGED <<pc, running, waiters>>
  BY DEF vars, gateVars
<1> QED BY <1>1, <1>2, <1>3, <1>4, <1>5, <1>6, <1>7, <1>8, <1>9, <1>10, <1>11 DEF Next

\* Each waits once, and only who waits is in the line ...
LineInv ==
    /\ \A s \in Sessions : Distinct(waiters[s])
    /\ \A c \in Calls : Listed(c, waiters[SessionOf[c]]) => pc[c] \in InLockQueue

\* ... and a worker on its way finds the submissions that wait before itself:
\* when it has the lock none is left.
OrderInv ==
    \A c, d \in Background :
        /\ running[c] /\ pc[c] # "done" /\ SessionOf[c] = SessionOf[d]
        /\ ~running[d] /\ pc[d] \in Waiting
        => /\ pc[c] \in {"handoff", "reading", "acquired", "queued"}
           /\ pc[c] = "queued" => Before(d, c, waiters[SessionOf[c]])

\* Who goes takes nobody's place, and who comes stands behind.
LEMMA OrderWithout ==
    ASSUME NEW q \in Seq(Calls), NEW c, NEW d, NEW x \in Calls \ {c, d}, Listed(x, q), Before(d, c, q)
    PROVE  Before(d, c, Without(q, x))
<1> DEFINE r == Without(q, x)
<1>1. PICK k \in 1 .. Len(q) :
        /\ q[k] = x /\ r \in Seq(Calls) /\ Len(r) = Len(q) - 1
        /\ \A i \in 1 .. Len(q) - 1 : r[i] = q[IF i < k THEN i ELSE i + 1]
  BY WithoutPlace
<1> HIDE DEF r
<1>2. Len(q) \in Nat /\ DOMAIN q = 1 .. Len(q) /\ DOMAIN r = 1 .. Len(q) - 1
  BY <1>1
<1>3. PICK i \in 1 .. Len(q), j \in 1 .. Len(q) : i < j /\ q[i] = d /\ q[j] = c
  BY <1>2 DEF Before
<1>4. i # k /\ j # k
  BY <1>1, <1>3
<1> DEFINE at(n) == IF n < k THEN n ELSE n - 1
<1>5. ASSUME NEW n \in 1 .. Len(q), n # k
      PROVE  at(n) \in 1 .. Len(q) - 1 /\ r[at(n)] = q[n]
  <2>1. at(n) \in 1 .. Len(q) - 1 /\ (IF at(n) < k THEN at(n) ELSE at(n) + 1) = n
    BY <1>2, <1>5
  <2> HIDE DEF at
  <2> QED BY <1>1, <2>1
<1>6. at(i) < at(j)
  BY <1>2, <1>3, <1>4
<1> HIDE DEF at
<1>7. Before(d, c, r)
  BY <1>2, <1>3, <1>4, <1>5, <1>6 DEF Before
<1> QED BY <1>7 DEF r

LEMMA OrderAppend ==
    ASSUME NEW q \in Seq(Calls), NEW c, NEW d, NEW x \in Calls
    PROVE  /\ Before(d, c, q) => Before(d, c, Append(q, x))
           /\ Listed(d, q) => Before(d, x, Append(q, x))
<1> DEFINE r == Append(q, x)
<1>1. /\ Len(q) \in Nat /\ DOMAIN q = 1 .. Len(q) /\ DOMAIN r = 1 .. Len(q) + 1
      /\ r[Len(q) + 1] = x /\ \A i \in 1 .. Len(q) : r[i] = q[i]
  OBVIOUS
<1> HIDE DEF r
<1>2. \A i \in 1 .. Len(q) : i \in 1 .. Len(q) + 1 /\ i < Len(q) + 1
  BY <1>1
<1>3. Before(d, c, q) => Before(d, c, r)
  BY <1>1, <1>2 DEF Before
<1>4. Listed(d, q) => Before(d, x, r)
  <2>1. Len(q) + 1 \in 1 .. Len(q) + 1
    BY <1>1
  <2> QED BY <1>1, <1>2, <2>1 DEF Before, Listed
<1> QED BY <1>3, <1>4 DEF r

\* The lock is handed to the first in line, before whom nobody stands.
LEMMA FirstIsAlone ==
    ASSUME NEW q \in Seq(Calls), Distinct(q), q # <<>>, NEW d
    PROVE  ~Before(d, Head(q), q)
<1>1. Len(q) \in Nat /\ DOMAIN q = 1 .. Len(q) /\ Len(q) > 0 /\ Head(q) = q[1]
  OBVIOUS
<1> QED BY <1>1 DEF Before, Distinct

LEMMA LineStep ==
    ASSUME IInv, LineInv, NEW c \in Calls, LineMoves(c)
    PROVE  /\ LineInv'
           /\ \A s \in Sessions : \A d, e \in Calls :
                Before(d, e, waiters[s]) /\ c \notin {d, e} => Before(d, e, waiters'[s])
<1> DEFINE t == SessionOf[c]
           q == waiters[t]
<1>1. /\ waiters \in [Sessions -> Seq(Calls)] /\ t \in Sessions /\ q \in Seq(Calls) /\ Distinct(q)
      /\ \A d \in Calls : SessionOf[d] \in Sessions
  BY CallsTyped DEF IInv, GateTypeOK, LineInv
<1>2. /\ \A d \in Calls \ {c} : pc'[d] = pc[d] \/ (pc[d] = "queued" /\ pc'[d] = "granted")
      /\ Listed(c, q) <=> pc[c] \in InLockQueue
  BY DEF LineMoves, Others, LineInv, IInv, LockInv, WaitersListed, Listed
<1>3. \A d \in Calls \ {c} : pc[d] \in InLockQueue => pc'[d] \in InLockQueue
  BY <1>2 DEF InLockQueue
<1>4. CASE waiters' = waiters /\ (pc'[c] \in InLockQueue <=> pc[c] \in InLockQueue)
  BY <1>3, <1>4 DEF LineInv
<1>5. ASSUME NEW r \in Seq(Calls), waiters' = [waiters EXCEPT ![t] = r], Distinct(r),
             \A d : Listed(d, r) => Listed(d, q) \/ d = c,
             Listed(c, r) => pc'[c] \in InLockQueue,
             \A d, e \in Calls : Before(d, e, q) /\ c \notin {d, e} => Before(d, e, r)
      PROVE  /\ LineInv'
             /\ \A s \in Sessions : \A d, e \in Calls :
                  Before(d, e, waiters[s]) /\ c \notin {d, e} => Before(d, e, waiters'[s])
  <2>1. \A s \in Sessions : waiters'[s] = IF s = t THEN r ELSE waiters[s]
    BY <1>1, <1>5
  <2>2. \A s \in Sessions : Distinct(waiters'[s])
    BY <1>5, <2>1 DEF LineInv
  <2>3. ASSUME NEW d \in Calls, Listed(d, waiters'[SessionOf[d]])
        PROVE  pc'[d] \in InLockQueue
    <3>1. CASE d = c
      BY <1>1, <1>5, <2>1, <2>3, <3>1
    <3>2. CASE d # c
      <4>1. Listed(d, waiters[SessionOf[d]])
        BY <1>1, <1>5, <2>1, <2>3, <3>2
      <4> QED BY <1>3, <3>2, <4>1 DEF LineInv
    <3> QED BY <3>1, <3>2
  <2>4. LineInv'
    BY <2>2, <2>3 DEF LineInv
  <2>5. ASSUME NEW s \in Sessions, NEW d \in Calls, NEW e \in Calls,
               Before(d, e, waiters[s]), c \notin {d, e}
        PROVE  Before(d, e, waiters'[s])
    BY <1>5, <2>1, <2>5
  <2> QED BY <2>4, <2>5
<1>6. CASE /\ waiters' = [waiters EXCEPT ![t] = Without(@, c)]
           /\ pc[c] \in InLockQueue
  <2> DEFINE r == Without(q, c)
  <2>1. Listed(c, q)
    BY <1>2, <1>6
  <2>2. /\ r \in Seq(Calls) /\ Distinct(r) /\ \A d : Listed(d, r) <=> Listed(d, q) /\ d # c
    BY <1>1, <2>1, WithoutDistinct
  <2>3. \A d, e \in Calls : Before(d, e, q) /\ c \notin {d, e} => Before(d, e, r)
    BY <1>1, <2>1, OrderWithout
  <2>4. waiters' = [waiters EXCEPT ![t] = r]
    BY <1>6
  <2> HIDE DEF r
  <2> QED BY <1>5, <2>2, <2>3, <2>4
<1>7. CASE /\ waiters' = [waiters EXCEPT ![t] = Append(@, c)]
           /\ pc[c] \notin InLockQueue /\ pc'[c] = "queued"
  <2> DEFINE r == Append(q, c)
  <2>1. ~Listed(c, q) /\ pc'[c] \in InLockQueue
    BY <1>2, <1>7 DEF InLockQueue
  <2>2. /\ r \in Seq(Calls) /\ Distinct(r) /\ \A d : Listed(d, r) <=> Listed(d, q) \/ d = c
    BY <1>1, <2>1, AppendDistinct
  <2>3. \A d, e \in Calls : Before(d, e, q) /\ c \notin {d, e} => Before(d, e, r)
    BY <1>1, OrderAppend
  <2>4. waiters' = [waiters EXCEPT ![t] = r]
    BY <1>7
  <2> HIDE DEF r
  <2> QED BY <1>5, <2>1, <2>2, <2>3, <2>4
<1> QED BY <1>4, <1>6, <1>7 DEF LineMoves

LEMMA OrderStep ==
    ASSUME IInv, IInv', PlaceInv', FinishInv, LineInv, OrderInv, NEW x \in Calls, LineMoves(x), LineRules(x)
    PROVE  OrderInv'
<1> USE CallsTyped
<1>1. /\ LineInv' /\ Background \subseteq Calls /\ None \notin Background
      /\ waiters \in [Sessions -> Seq(Calls)] /\ waiters' \in [Sessions -> Seq(Calls)]
      /\ \A d \in Calls : SessionOf[d] \in Sessions
      /\ \A s \in Sessions : \A d, e \in Calls :
            Before(d, e, waiters[s]) /\ x \notin {d, e} => Before(d, e, waiters'[s])
  <2>1. Background \subseteq Calls
    BY DEF Calls
  <2> QED BY <2>1, LineStep DEF IInv, GateTypeOK
<1>2. \A d \in Calls \ {x} :
        /\ pc'[d] = pc[d] \/ (pc[d] = "queued" /\ pc'[d] = "granted")
        /\ running'[d] = running[d]
  BY DEF LineMoves, Others
<1> SUFFICES ASSUME NEW c \in Background, NEW d \in Background,
                    running'[c], pc'[c] # "done", SessionOf[c] = SessionOf[d],
                    ~running'[d], pc'[d] \in Waiting
             PROVE  /\ pc'[c] \in {"handoff", "reading", "acquired", "queued"}
                    /\ pc'[c] = "queued" => Before(d, c, waiters'[SessionOf[c]])
  BY DEF OrderInv
<1> DEFINE s == SessionOf[c]
<1>3. c # d /\ s \in Sessions
  BY <1>1
<1>4. pc[c] # "done" /\ ~running[d]
  BY <1>1, <1>2 DEF LineRules
\* The worker itself moves.
<1>5. CASE c = x
  <2>1. pc[d] \in Waiting
    BY <1>1, <1>2, <1>3, <1>5 DEF Waiting
  <2>2. CASE ~running[c]
    BY <1>5, <2>2 DEF LineRules
  <2>3. CASE running[c]
    <3>1. /\ pc[c] \in {"handoff", "reading", "acquired", "queued"}
          /\ pc[c] = "queued" => Before(d, c, waiters[s])
      BY <1>4, <2>1, <2>3 DEF OrderInv
    <3>2. Listed(d, waiters[s]) /\ pc[d] # "leaving"
      BY <1>1, <2>1 DEF IInv, LockInv, WaitersListed, Listed, Waiting, InLockQueue
    <3>3. ~LockFree(s)
      <4>1. PICK i \in DOMAIN waiters[s] : waiters[s][i] = d
        BY <3>2 DEF Listed
      <4> QED BY <3>2, <4>1 DEF LockFree
    <3>4. pc'[c] \notin {"granted", "body", "finishing"}
      BY <1>5, <3>1, <3>3 DEF LineRules
    <3>5. pc'[c] \in {"handoff", "reading", "acquired", "queued", "leaving", "idle"}
      BY <1>1, <3>4 DEF IInv, GateTypeOK, PCs
    <3>6. pc'[c] # "leaving" /\ pc'[c] # "idle"
      BY DEF PlaceInv, PlaceTypes, Placed, Submitting, Computing, Stages
    <3>7. pc'[c] = "queued" => Before(d, c, waiters'[s])
      <4> SUFFICES ASSUME pc'[c] = "queued"
                   PROVE  Before(d, c, waiters'[s])
        OBVIOUS
      <4>1. CASE waiters' = waiters /\ pc[c] \in Waiting
        BY <3>1, <4>1 DEF Waiting
      <4>2. CASE waiters' = [waiters EXCEPT ![SessionOf[x]] = Append(@, x)]
        <5>1. waiters'[s] = Append(waiters[s], c)
          BY <1>1, <1>3, <1>5, <4>2
        <5> QED BY <1>1, <1>3, <3>2, <5>1, OrderAppend
      <4> QED BY <1>5, <4>1, <4>2 DEF LineMoves, InLockQueue, Waiting
    <3> QED BY <3>5, <3>6, <3>7
  <2> QED BY <2>2, <2>3
\* Another call moves.
<1>6. CASE c # x
  <2>1. running[c] /\ (pc'[c] = pc[c] \/ (pc[c] = "queued" /\ pc'[c] = "granted"))
    BY <1>1, <1>2, <1>6
  <2>2. pc[d] \in Waiting
    <3> SUFFICES ASSUME pc[d] \notin Waiting
                 PROVE  FALSE
      OBVIOUS
    <3>1. d = x
      BY <1>1, <1>2 DEF Waiting
    <3>2. submit(d) /\ ~Refused(d) /\ LoopFor(d)
      BY <1>4, <3>1 DEF LineRules
    <3>3. operation_id[s] = None
      BY <1>4, <3>2 DEF Refused
    <3>4. pc[c] # "finishing"
      BY <1>1, <1>3, <3>2 DEF FinishInv, LoopFor
    <3>5. operation_id[s] = c
      BY <1>4, <2>1, <3>4 DEF IInv, ReservationExclusive
    <3> QED BY <1>1, <3>3, <3>5
  <2>3. /\ pc[c] \in {"handoff", "reading", "acquired", "queued"}
        /\ pc[c] = "queued" => Before(d, c, waiters[s])
    BY <1>4, <2>1, <2>2 DEF OrderInv
  <2>4. pc[c] = "queued" => Before(d, c, waiters'[s])
    <3>1. CASE d # x
      BY <1>1, <1>3, <1>6, <2>3, <3>1
    <3>2. CASE d = x
      <4>1. waiters' = waiters
        BY <2>2, <3>2 DEF LineMoves, Waiting, InLockQueue
      <4> QED BY <2>3, <4>1
    <3> QED BY <3>1, <3>2
  <2>5. pc'[c] # "granted"
    <3> SUFFICES ASSUME pc'[c] = "granted"
                 PROVE  FALSE
      OBVIOUS
    <3>1. Before(d, c, waiters'[s])
      BY <2>1, <2>3, <2>4
    <3>2. waiters'[s] # <<>> /\ Head(waiters'[s]) = c
      BY <1>1 DEF IInv, LockInv, GrantedIsFirst
    <3>3. waiters'[s] \in Seq(Calls) /\ Distinct(waiters'[s])
      BY <1>1, <1>3 DEF LineInv
    <3> QED BY <3>1, <3>2, <3>3, FirstIsAlone
  <2> QED BY <2>1, <2>3, <2>4, <2>5
<1> QED BY <1>5, <1>6

----------------------------------------------------------------------------
(* The exit of a session *)

\* close_session waits for the operation it found, and when that is done no
\* other can have come.
Closing(s) ==
    bucket[s] = "closing" =>
        /\ closing_on[s] \in Background /\ SessionOf[closing_on[s]] = s /\ running[closing_on[s]]
        /\ \/ InFlight(closing_on[s]) /\ active[s] = closing_on[s]
           \/ /\ stage[closing_on[s]] = "closed" /\ active[s] = None
              /\ \A d \in Background :
                    SessionOf[d] = s /\ ~running[d] => pc[d] \notin Waiting

CloseInv == \A s \in Sessions : Closing(s)

LEMMA CloseStep ==
    ASSUME IInv, PlaceInv, PlaceInv', PoolInv, FinishInv, FlightInv, BucketInv, LineInv, OrderInv,
           CloseInv, [Next]_vars
    PROVE  CloseInv'
<1> USE CallsTyped
<1>1. /\ BucketTypes /\ (\A t \in Sessions : Filed(t)) /\ (\A d \in Background : Traced(d))
      /\ stage \in [Background -> Stages] /\ Background \subseteq Calls /\ None \notin Background
      /\ \A d \in Background : SessionOf[d] \in Sessions /\ Placed(d) /\ Placed(d)'
  <2>1. Background \subseteq Calls
    BY DEF Calls
  <2> QED BY <2>1 DEF BucketInv, PlaceInv, PlaceTypes
\* Nobody stops being a worker, and only submit brings a submission.
<1>2. \A d \in Background : /\ running[d] => running'[d]
                            /\ \/ submit(d) \/ running'[d] \/ pc'[d] \notin Waiting
                               \/ pc[d] \in Waiting /\ ~running[d]
  <2>1. CASE UNCHANGED <<pc, running, waiters>>
    BY <2>1
  <2>2. ASSUME NEW c \in Calls, LineMoves(c), LineRules(c)
        PROVE  \A d \in Background : /\ running[d] => running'[d]
                                     /\ \/ submit(d) \/ running'[d] \/ pc'[d] \notin Waiting
                                        \/ pc[d] \in Waiting /\ ~running[d]
    BY <1>1, <2>2 DEF LineMoves, LineRules, Others, Waiting
  <2> QED BY <2>1, <2>2, LineSteps
<1>3. ASSUME NEW s \in Sessions, bucket'[s] = "closing", bucket[s] = "closing",
             closing_on'[s] = closing_on[s], active'[s] = active[s],
             stage'[closing_on[s]] = stage[closing_on[s]]
               \/ (InFlight(closing_on[s]) /\ InFlight(closing_on[s])'),
             \A d \in Background : SessionOf[d] = s => ~submit(d)
      PROVE  Closing(s)'
  <2> DEFINE k == closing_on[s]
  <2>1. /\ k \in Background /\ SessionOf[k] = s /\ running'[k]
        /\ \/ InFlight(k) /\ active[s] = k
           \/ /\ stage[k] = "closed" /\ active[s] = None
              /\ \A d \in Background : SessionOf[d] = s /\ ~running[d] => pc[d] \notin Waiting
    BY <1>2, <1>3 DEF CloseInv, Closing
  <2>2. CASE InFlight(k) /\ active[s] = k
    BY <1>3, <2>1, <2>2 DEF Closing, InFlight
  <2>3. CASE /\ stage[k] = "closed" /\ active[s] = None
             /\ \A d \in Background : SessionOf[d] = s /\ ~running[d] => pc[d] \notin Waiting
    <3>1. stage'[k] = "closed"
      BY <1>3, <2>3 DEF InFlight
    <3>2. \A d \in Background : SessionOf[d] = s /\ ~running'[d] => pc'[d] \notin Waiting
      BY <1>2, <1>3, <2>3
    <3> QED BY <1>3, <2>1, <2>3, <3>1, <3>2 DEF Closing
  <2> QED BY <2>1, <2>2, <2>3
<1>4. CASE NobodyFiled
  <2>1. \A d \in Background : ~submit(d) \/ bucket[SessionOf[d]] # "closing"
    BY DEF submit
  <2>2. ASSUME NEW s \in Sessions, bucket'[s] = "closing"
        PROVE  Closing(s)'
    <3>1. closing_on[s] \in Background /\ bucket[s] = "closing"
      BY <1>4, <2>2 DEF CloseInv, Closing, NobodyFiled, bucketVars
    <3>2. \/ stage'[closing_on[s]] = stage[closing_on[s]]
          \/ (InFlight(closing_on[s]) /\ InFlight(closing_on[s])')
      <4>1. InFlight(closing_on[s]) \/ stage[closing_on[s]] = "closed"
        BY <3>1 DEF CloseInv, Closing
      <4>2. /\ InFlight(closing_on[s])' <=> InFlight(closing_on[s])
            /\ stage'[closing_on[s]] = "none" <=> stage[closing_on[s]] = "none"
            /\ closing_on'[s] = closing_on[s]
        <5>1. closing_on'[s] = closing_on[s]
          BY <1>4 DEF NobodyFiled, bucketVars
        <5> QED BY <1>4, <3>1, <5>1 DEF NobodyFiled, InFlight
      <4> QED BY <4>1, <4>2 DEF InFlight
    <3> QED BY <1>3, <1>4, <2>1, <2>2, <3>1, <3>2 DEF NobodyFiled, bucketVars
  <2> QED BY <2>2 DEF CloseInv, Closing
<1>5. ASSUME NEW c \in Background, submit(c) \/ submit_wakes(c)
      PROVE  CloseInv'
  <2> SUFFICES ASSUME NEW s \in Sessions, bucket'[s] = "closing"
               PROVE  Closing(s)'
    BY DEF CloseInv, Closing
  <2>1. bucket[s] = "closing" /\ closing_on' = closing_on
        /\ \A d \in Background : SessionOf[d] = s => ~submit(d)
    BY <1>1, <1>5 DEF submit, submit_wakes, BucketTypes
  <2>2. closing_on[s] \in Background /\ SessionOf[closing_on[s]] = s /\ stage[closing_on[s]] # "none"
    BY <2>1 DEF CloseInv, Closing, InFlight
  <2>3. stage'[closing_on[s]] = stage[closing_on[s]] /\ active'[s] = active[s]
    <3>1. CASE pc'[c] # "body"
      BY <1>5, <3>1, EntryAlone
    <3>2. CASE pc'[c] = "body"
      <4>1. /\ Register(c) /\ stage[c] = "none"
            /\ \A d \in Background : SessionOf[d] = SessionOf[c] => ~InFlight(d)
        BY <1>5, <3>2, EntryAlone
      <4>2. SessionOf[c] # s
        <5> SUFFICES ASSUME SessionOf[c] = s
                     PROVE  FALSE
          OBVIOUS
        <5>1. submit_wakes(c) /\ ~InFlight(closing_on[s])
          BY <1>5, <2>1, <2>2, <4>1
        <5>2. pc[c] \in Waiting /\ ~running[c]
          BY <5>1 DEF submit_wakes, wake_up, Waiting
        <5> QED BY <2>1, <5>1, <5>2 DEF CloseInv, Closing
      <4>3. active'[s] = active[s]
        BY <1>1, <4>1, <4>2 DEF Register, BucketTypes
      <4> QED BY <1>1, <2>2, <4>1, <4>2, <4>3 DEF Register
    <3> QED BY <3>1, <3>2
  <2> QED BY <1>3, <2>1, <2>3
<1>6. ASSUME NEW c \in Background, UndoAdmission(c)
      PROVE  CloseInv'
  <2> SUFFICES ASSUME NEW s \in Sessions, bucket'[s] = "closing"
               PROVE  Closing(s)'
    BY DEF CloseInv, Closing
  <2>1. bucket[s] = "closing" /\ closing_on' = closing_on
        /\ \A d \in Background : SessionOf[d] = s => ~submit(d)
    BY <1>6 DEF UndoAdmission, submit
  <2>2. closing_on[s] \in Background /\ SessionOf[closing_on[s]] = s /\ running[closing_on[s]]
    BY <2>1 DEF CloseInv, Closing
  <2>3. ~running[c] /\ InFlight(c)
    BY <1>1, <1>6 DEF UndoAdmission, fail_admission, Admitting, Placed, InFlight
  <2>4. stage'[closing_on[s]] = stage[closing_on[s]]
    BY <1>1, <1>6, <2>2, <2>3 DEF UndoAdmission
  <2>5. active'[s] = active[s]
    <3>1. CASE SessionOf[c] # s
      BY <1>1, <1>6, <3>1 DEF UndoAdmission, BucketTypes
    <3>2. CASE SessionOf[c] = s
      <4>1. ~InFlight(closing_on[s])
        BY <2>2, <2>3, <3>2 DEF FlightInv
      <4>2. active[s] = None
        BY <2>1, <4>1 DEF CloseInv, Closing
      <4> QED BY <1>1, <1>6, <3>2, <4>2 DEF UndoAdmission, BucketTypes
    <3> QED BY <3>1, <3>2
  <2> QED BY <1>3, <2>1, <2>4, <2>5
<1>7. ASSUME NEW c \in Background, finish(c)
      PROVE  CloseInv'
  <2> SUFFICES ASSUME NEW s \in Sessions, bucket'[s] = "closing"
               PROVE  Closing(s)'
    BY DEF CloseInv, Closing
  <2> DEFINE k == closing_on[s]
  <2>1. bucket[s] = "closing" /\ closing_on' = closing_on
        /\ \A d \in Background : SessionOf[d] = s => ~submit(d)
    BY <1>7 DEF finish, submit
  <2>2. /\ k \in Background /\ SessionOf[k] = s /\ running[k]
        /\ \/ InFlight(k) /\ active[s] = k
           \/ /\ stage[k] = "closed" /\ active[s] = None
    BY <2>1 DEF CloseInv, Closing
  <2>3. /\ stage' = [stage EXCEPT ![c] = "closed"]
        /\ pc[c] = "finishing" /\ InFlight(c) /\ pc' = [pc EXCEPT ![c] = "done"]
        /\ running' = running
    BY <1>1, <1>7 DEF finish, task_done, Placed, Submitting, Computing, InFlight
  <2>4. active' = IF Listed(c, records[SessionOf[c]])
                  THEN [active EXCEPT ![SessionOf[c]] = IF @ = c THEN None ELSE @] ELSE active
    BY <1>7 DEF finish, Listed
  <2>5. CASE c = k
    <3>1. active[s] = k /\ late[k] = closed[s]
      BY <1>1, <2>2, <2>3, <2>5 DEF InFlight, Filed
    <3>2. active'[s] = None
      <4>1. Listed(c, records[SessionOf[c]])
        BY <1>1, <2>2, <2>3, <2>5, <3>1 DEF Traced
      <4> QED BY <1>1, <2>2, <2>4, <2>5, <3>1, <4>1 DEF BucketTypes
    <3>3. \A d \in Background : SessionOf[d] = s /\ ~running[d] => pc[d] \notin Waiting
      BY <2>2, <2>3, <2>5 DEF OrderInv
    <3>4. \A d \in Background : SessionOf[d] = s /\ ~running'[d] => pc'[d] \notin Waiting
      BY <1>2, <2>1, <3>3
    <3>5. stage'[k] = "closed"
      BY <1>1, <2>3, <2>5
    <3> QED BY <2>1, <2>2, <2>3, <3>2, <3>4, <3>5 DEF Closing
  <2>6. CASE c # k
    <3>1. stage'[k] = stage[k]
      BY <1>1, <2>2, <2>3, <2>6
    <3>2. active[s] # c
      BY <1>1, <2>2, <2>6
    <3>3. active'[s] = active[s]
      BY <1>1, <2>4, <3>2 DEF BucketTypes
    <3> QED BY <1>3, <2>1, <3>1, <3>3
  <2> QED BY <2>5, <2>6
<1>8. ASSUME NEW t \in Sessions, close_session(t) \/ close_session_ends(t)
      PROVE  CloseInv'
  <2> SUFFICES ASSUME NEW s \in Sessions, bucket'[s] = "closing"
               PROVE  Closing(s)'
    BY DEF CloseInv, Closing
  <2>1. UNCHANGED <<stage, running>> /\ \A d \in Background : pc'[d] = pc[d]
    BY <1>8 DEF close_session, close_session_ends, gateVars
  <2>2. CASE DropBucket(t)
    <3>1. s # t /\ bucket[s] = "closing" /\ active'[s] = active[s] /\ closing_on'[s] = closing_on[s]
      BY <1>1, <2>2 DEF DropBucket, BucketTypes
    <3> QED BY <2>1, <3>1 DEF CloseInv, Closing, InFlight
  <2>3. CASE /\ active[t] # None /\ running[active[t]] /\ bucket' = [bucket EXCEPT ![t] = "closing"]
             /\ closing_on' = [closing_on EXCEPT ![t] = active[t]]
             /\ UNCHANGED active
    <3>1. CASE s = t
      <4>1. closing_on'[s] = active[s] /\ active[s] \in Background
        BY <1>1, <2>3, <3>1 DEF BucketTypes
      <4>2. SessionOf[active[s]] = s /\ InFlight(active[s])
        BY <1>1, <2>3, <3>1 DEF Filed
      <4> QED BY <2>1, <2>3, <3>1, <4>1, <4>2 DEF Closing, InFlight
    <3>2. CASE s # t
      <4>1. bucket[s] = "closing" /\ closing_on'[s] = closing_on[s]
        BY <1>1, <2>3, <3>2 DEF BucketTypes
      <4> QED BY <2>1, <2>3, <4>1 DEF CloseInv, Closing, InFlight
    <3> QED BY <3>1, <3>2
  <2> QED BY <1>8, <2>2, <2>3 DEF close_session, close_session_ends
<1> QED BY <1>4, <1>5, <1>6, <1>7, <1>8, FilingSteps

\* An operation with an accepted cancellation never starts to compute, and the
\* cancellation comes from its client or from the exit of its session.
LEMMA StopSteps ==
    ASSUME IInv, PlaceInv, PoolInv, ControlInv, BucketInv, [Next]_vars,
           NEW c \in Background, stage'[c] \in {"computing", "returned"}, stop'[c] = "cancelled"
    PROVE  /\ stage[c] \in {"computing", "returned"}
           /\ \/ stop[c] = "cancelled" \/ cancel(c)
              \/ active[SessionOf[c]] = c /\ close_session(SessionOf[c])
<1> DEFINE Goal == /\ stage[c] \in {"computing", "returned"}
                   /\ \/ stop[c] = "cancelled" \/ cancel(c)
                      \/ active[SessionOf[c]] = c /\ close_session(SessionOf[c])
<1>1. /\ stage \in [Background -> Stages] /\ Placed(c) /\ Controlled(c)
      /\ stop \in [Background -> {"none", "cancelled", "budget_exceeded"}]
  BY DEF PlaceInv, PlaceTypes, ControlInv, ControlTypes
<1>2. ASSUME stage' = stage, stop' = stop
      PROVE  Goal
  BY <1>2
<1>3. ASSUME NEW d \in Background, NEW x \in Stages \ {"computing", "returned"},
             stage' = [stage EXCEPT ![d] = x], stop'[c] = stop[c] \/ d = c
      PROVE  Goal
  BY <1>1, <1>3
<1>4. ASSUME NEW d \in Calls, gate_step(d) \/ tool_ends(d) \/ get_begin(d)
      PROVE  Goal
  BY <1>2, <1>4 DEF gate_step, tool_ends, get_begin, controlVars
<1>5. ASSUME NEW d \in Calls, get_end(d)
      PROVE  Goal
  <2>1. stop' = stop
    BY <1>5 DEF get_end, controlVars
  <2>2. CASE stage' = stage
    BY <1>2, <2>1, <2>2
  <2>3. CASE d \in Background /\ stage' = [stage EXCEPT ![d] = "uncaptured"]
    BY <1>3, <2>1, <2>3 DEF Stages
  <2> QED BY <1>5, <2>2, <2>3 DEF get_end
<1>6. ASSUME NEW d \in Background,
             \/ submit_refused(d) \/ publication_guard(d) \/ worker_leaves(d)
             \/ worker_releases(d) \/ close_lease(d)
      PROVE  Goal
  BY <1>2, <1>6 DEF submit_refused, publication_guard, worker_leaves, worker_releases,
     close_lease, controlVars
<1>7. ASSUME NEW d \in Background, submit(d) \/ submit_wakes(d)
      PROVE  Goal
  <2>1. stop' = stop /\ (stage' = stage \/ stage' = [stage EXCEPT ![d] = "leasing"])
    BY <1>7 DEF submit, submit_wakes, RegisterIfEntered, Register, controlVars
  <2> QED BY <1>2, <1>3, <2>1 DEF Stages
<1>8. ASSUME NEW d \in Background,
             \/ take_read_lease(d) \/ read_lease_busy(d) \/ capture(d) \/ start_worker(d)
             \/ capture_failed(d) \/ finish(d)
      PROVE  Goal
  <2>1. stop' = stop
    BY <1>8 DEF take_read_lease, read_lease_busy, capture_failed, UndoAdmission, capture,
       start_worker, finish, controlVars
  <2>2. \E x \in Stages \ {"computing", "returned"} : stage' = [stage EXCEPT ![d] = x]
    BY <1>8 DEF take_read_lease, read_lease_busy, capture_failed, UndoAdmission, capture,
       start_worker, finish, Stages
  <2> QED BY <1>3, <2>1, <2>2
<1>9. ASSUME NEW d \in Background, reject(d) \/ seal(d)
      PROVE  Goal
  <2>1. stop'[c] = stop[c] \/ d = c
    BY <1>1, <1>9 DEF reject, seal
  <2>2. stage' = [stage EXCEPT ![d] = "rejected"] \/ stage' = [stage EXCEPT ![d] = "sealed"]
    BY <1>9 DEF reject, seal
  <2> QED BY <1>3, <2>1, <2>2 DEF Stages
<1>10. ASSUME NEW d \in Background, compute_begin(d)
       PROVE  Goal
  <2>1. /\ stage[d] = "worker" /\ stage' = [stage EXCEPT ![d] = "computing"] /\ stop' = stop
        /\ published[d] \/ stop[d] = "none"
    BY <1>10 DEF compute_begin, controlVars, CheckPasses
  <2>2. d # c
    <3>1. d = c => stop[c] = "none"
      BY <1>1, <2>1 DEF Controlled
    <3> QED BY <2>1, <3>1
  <2> QED BY <1>1, <2>1, <2>2
<1>11. ASSUME NEW d \in Background, compute_end(d)
       PROVE  Goal
  <2>1. /\ stage[d] = "computing" /\ stage' = [stage EXCEPT ![d] = "returned"]
        /\ \/ stop' = stop
           \/ \E why \in {"cancelled", "budget_exceeded"} :
                 CheckStops(d, why) /\ stop' = [stop EXCEPT ![d] = why]
    BY <1>11 DEF compute_end
  <2>2. stage[c] \in {"computing", "returned"}
    BY <1>1, <2>1
  <2>3. stop[c] = "cancelled"
    BY <1>1, <2>1 DEF CheckStops
  <2> QED BY <2>2, <2>3
<1>12. ASSUME NEW d \in Background, cancel(d)
       PROVE  Goal
  <2>1. stage' = stage /\ stop' = [stop EXCEPT ![d] = "cancelled"]
    BY <1>12 DEF cancel
  <2> QED BY <1>1, <1>12, <2>1
<1>13. ASSUME NEW s \in Sessions, close_session(s)
       PROVE  Goal
  <2>1. stage' = stage /\ stop' = IF active[s] # None /\ Cancellable(active[s])
                                  THEN [stop EXCEPT ![active[s]] = "cancelled"] ELSE stop
    BY <1>13 DEF close_session
  <2>2. active[s] = c => SessionOf[c] = s
    <3>1. c # None
      BY CallsTyped DEF Calls
    <3> QED BY <3>1 DEF BucketInv, Filed
  <2> QED BY <1>1, <1>13, <2>1, <2>2
<1>14. ASSUME NEW s \in Sessions, close_session_ends(s) \/ engine_dies(s)
       PROVE  Goal
  BY <1>2, <1>14 DEF close_session_ends, engine_dies, controlVars
<1>15. ASSUME NEW u, take_write_lease(u) \/ install_begin(u) \/ install(u)
                     \/ drop_write_lease(u) \/ foreign_install(u)
       PROVE  Goal
  BY <1>2, <1>15 DEF take_write_lease, install_begin, install, drop_write_lease, foreign_install,
     controlVars
<1>16. CASE UNCHANGED vars
  BY <1>2, <1>16 DEF vars, controlVars
<1> QED BY <1>4, <1>5, <1>6, <1>7, <1>8, <1>9, <1>10, <1>11, <1>12, <1>13, <1>14, <1>15, <1>16
     DEF Next

\* What the exit of a session stopped does not compute.
LEMMA StoppedStep ==
    ASSUME IInv, PlaceInv, PoolInv, FinishInv, FlightInv, BucketInv, ControlInv, CloseInv,
           CloseStopsCompute, [Next]_vars
    PROVE  CloseStopsCompute'
<1> SUFFICES ASSUME NEW c \in Background, closed'[SessionOf[c]], ~late'[c], stop'[c] = "cancelled",
                    stage'[c] \in {"computing", "returned"}
             PROVE  FALSE
  BY DEF CloseStopsCompute
<1> DEFINE s == SessionOf[c]
<1>1. /\ BucketTypes /\ (\A t \in Sessions : Filed(t)) /\ (\A d \in Background : Traced(d))
      /\ s \in Sessions /\ c # None /\ Placed(c)
  BY CallsTyped DEF BucketInv, Calls, PlaceInv
<1>2. /\ stage[c] \in {"computing", "returned"} /\ InFlight(c)
      /\ stop[c] = "cancelled" \/ cancel(c) \/ (active[s] = c /\ close_session(s))
  BY StopSteps DEF InFlight
<1>3. ASSUME closed'[s] = closed[s], late'[c] = late[c]
      PROVE  FALSE
  <2>1. ~cancel(c)
    <3> SUFFICES ASSUME cancel(c)
                 PROVE  FALSE
      OBVIOUS
    <3>1. Listed(c, records[s])
      BY DEF cancel, Listed
    <3> QED BY <1>1, <1>3, <3>1 DEF Filed
  <2>2. ~close_session(s)
    BY <1>3 DEF close_session
  <2> QED BY <1>2, <1>3, <2>1, <2>2 DEF CloseStopsCompute
<1>4. CASE NobodyFiled
  BY <1>3, <1>4 DEF NobodyFiled, bucketVars
<1>5. ASSUME NEW d \in Background, submit(d) \/ submit_wakes(d)
      PROVE  FALSE
  <2>1. closed' = closed /\ \A e \in Background \ {d} : late'[e] = late[e]
    BY <1>1, <1>5 DEF submit, submit_wakes, BucketTypes
  <2>2. d # c
    BY <1>2, <1>5, EntryAlone
  <2> QED BY <1>3, <2>1, <2>2
<1>6. ASSUME NEW d \in Background, UndoAdmission(d) \/ finish(d)
      PROVE  FALSE
  BY <1>3, <1>6 DEF UndoAdmission, finish
<1>7. ASSUME NEW t \in Sessions, close_session(t) \/ close_session_ends(t)
      PROVE  FALSE
  <2>1. late' = late
    BY <1>7 DEF close_session, close_session_ends
  <2>2. CASE UNCHANGED closed
    BY <1>3, <2>1, <2>2
  <2>3. CASE DropBucket(t) /\ t # s
    <3>1. closed'[s] = closed[s]
      BY <1>1, <2>3 DEF DropBucket, BucketTypes
    <3> QED BY <1>3, <2>1, <3>1
  <2>4. CASE DropBucket(t) /\ t = s
    <3>1. ~closed[s]
      BY <1>1, <1>7, <2>4 DEF close_session, close_session_ends, Filed
    <3>2. active[s] = c
      BY <1>1, <1>2, <2>1, <3>1 DEF Traced, BucketTypes
    <3>3. running[c] /\ pc[c] # "done"
      BY <1>1, <1>2 DEF Placed, Computing
    <3>4. CASE close_session(s)
      <4>1. UNCHANGED closed
        BY <1>1, <3>2, <3>3, <3>4 DEF close_session
      <4> QED BY <1>3, <2>1, <4>1
    <3>5. CASE close_session_ends(s)
      <4>1. closing_on[s] = c /\ pc[closing_on[s]] = "done"
        BY <1>1, <3>2, <3>5 DEF close_session_ends, CloseInv, Closing
      <4> QED BY <3>3, <4>1
    <3> QED BY <1>7, <2>4, <3>4, <3>5
  <2> QED BY <1>7, <2>2, <2>3, <2>4 DEF close_session, close_session_ends
<1> QED BY <1>4, <1>5, <1>6, <1>7, FilingSteps

----------------------------------------------------------------------------
(* The inductive invariant and what it says *)

OpsInv ==
    /\ IInv /\ PlaceInv /\ FinishInv /\ ReserveInv /\ FlightInv
    /\ LeaseInv /\ ControlInv /\ EngineInv
    /\ BucketInv /\ RetainedInv
    /\ LineInv /\ OrderInv /\ CloseInv /\ CloseStopsCompute
    /\ installed \in BOOLEAN

\* Nothing is submitted yet.
LEMMA OpsStarts == Init => OpsInv
<1> SUFFICES ASSUME Init
             PROVE  OpsInv
  OBVIOUS
<1> USE CallsTyped
<1>1. /\ Background \subseteq Calls /\ None \notin Background
      /\ \A c \in Calls : SessionOf[c] \in Sessions
  BY DEF Calls
<1>2. /\ IInv
      /\ \A c \in Calls : pc[c] = "idle" /\ ~running[c] /\ ~cancelled[c]
      /\ \A s \in Sessions : waiters[s] = <<>> /\ operation_id[s] = None
  BY GateStarts DEF Init, GateInit
<1>3. /\ \A s \in Sessions : /\ bucket[s] = "none" /\ active[s] = None /\ records[s] = <<>>
                             /\ ~closed[s]
      /\ \A c \in Background : /\ stage[c] = "none" /\ ~terminal[c] /\ ~late[c] /\ ~lease[c]
                               /\ ~published[c] /\ outcome[c] = "none" /\ stop[c] = "none"
      /\ pool_lock = None /\ write_lease = None /\ installed = FALSE
  BY DEF Init
<1>4. PlaceInv
  <2>1. PlaceTypes
    BY DEF Init, PlaceTypes, Stages
  <2> QED BY <1>1, <1>2, <1>3, <2>1 DEF PlaceInv, Placed, Submitting, Computing
<1>5. FinishInv
  BY <1>1, <1>2 DEF FinishInv
<1>6. ReserveInv /\ FlightInv
  BY <1>1, <1>2, <1>3 DEF ReserveInv, FlightInv, InFlight
<1>7. LeaseInv
  <2>1. LeaseTypes
    BY DEF Init, LeaseTypes, Uncaptured
  <2> QED BY <1>3, <2>1 DEF LeaseInv, Leased, Captured
<1>8. ControlInv
  <2>1. ControlTypes
    BY DEF Init, ControlTypes, Outcomes
  <2> QED BY <1>3, <2>1 DEF ControlInv, Controlled
<1>9. EngineInv
  <2>1. EngineTypes
    BY DEF Init, EngineTypes
  <2>2. PoolInv
    BY <1>3 DEF PoolInv
  <2>3. IntactInv
    BY <1>3 DEF IntactInv, Intact, Unchanged, Conflicts
  <2> QED BY <2>1, <2>2, <2>3 DEF EngineInv
<1>10. \A d : ~Listed(d, <<>>)
  BY DEF Listed
<1>11. BucketInv
  <2>1. BucketTypes
    BY DEF Init, BucketTypes
  <2>2. \A s \in Sessions : Filed(s)
    BY <1>3, <1>10 DEF Filed, Distinct
  <2> QED BY <1>3, <2>1, <2>2 DEF BucketInv, Traced, InFlight
<1>12. RetainedInv
  <2> SUFFICES ASSUME NEW s \in Sessions
               PROVE  Retained(s)
    BY DEF RetainedInv
  <2>1. Kept(s) = {} /\ Finished(s) = {}
    BY <1>3 DEF Kept, Finished
  <2>2. Cardinality({}) = 0
    BY FS_EmptySet
  <2> QED BY <2>1, <2>2, BoundsTyped DEF Retained
<1>13. LineInv /\ OrderInv
  BY <1>1, <1>2, <1>10 DEF LineInv, OrderInv, Distinct
<1>14. CloseInv /\ CloseStopsCompute
  BY <1>1, <1>3 DEF CloseInv, Closing, CloseStopsCompute
<1> QED BY <1>2, <1>3, <1>4, <1>5, <1>6, <1>7, <1>8, <1>9, <1>11, <1>12, <1>13, <1>14 DEF OpsInv

LEMMA InstalledStep == installed \in BOOLEAN /\ [Next]_vars => installed' \in BOOLEAN
<1> SUFFICES ASSUME installed \in BOOLEAN, [Next]_vars
             PROVE  installed' \in BOOLEAN
  OBVIOUS
<1>1. ASSUME NEW c \in Calls, gate_step(c) \/ tool_ends(c) \/ get_begin(c) \/ get_end(c)
      PROVE  installed' = installed
  BY <1>1 DEF gate_step, tool_ends, get_begin, get_end, runtimeVars
<1>2. ASSUME NEW c \in Background,
             \/ submit_refused(c) \/ submit(c) \/ submit_wakes(c) \/ take_read_lease(c)
             \/ read_lease_busy(c) \/ capture(c) \/ start_worker(c) \/ capture_failed(c)
      PROVE  installed' = installed
  BY <1>2 DEF submit_refused, submit, submit_wakes, take_read_lease, read_lease_busy, capture,
     start_worker, capture_failed, UndoAdmission, runtimeVars
<1>3. ASSUME NEW c \in Background,
             \/ reject(c) \/ compute_begin(c) \/ publication_guard(c) \/ compute_end(c) \/ seal(c)
             \/ worker_leaves(c) \/ worker_releases(c) \/ close_lease(c) \/ finish(c) \/ cancel(c)
      PROVE  installed' = installed
  BY <1>3 DEF reject, compute_begin, publication_guard, compute_end, seal, worker_leaves,
     worker_releases, close_lease, finish, cancel, runtimeVars
<1>4. ASSUME NEW s \in Sessions, close_session(s) \/ close_session_ends(s) \/ engine_dies(s)
      PROVE  installed' = installed
  BY <1>4 DEF close_session, close_session_ends, engine_dies, runtimeVars
<1>5. ASSUME NEW u, take_write_lease(u) \/ install_begin(u) \/ install(u)
                    \/ drop_write_lease(u) \/ foreign_install(u)
      PROVE  installed' \in BOOLEAN
  BY <1>5 DEF take_write_lease, install_begin, install, drop_write_lease, foreign_install,
     runtimeVars
<1>6. UNCHANGED vars => installed' = installed
  BY DEF vars, runtimeVars
<1> QED BY <1>1, <1>2, <1>3, <1>4, <1>5, <1>6 DEF Next

LEMMA OpsStep == OpsInv /\ [Next]_vars => OpsInv'
<1> SUFFICES ASSUME OpsInv, [Next]_vars
             PROVE  OpsInv'
  OBVIOUS
<1>1. /\ IInv /\ PlaceInv /\ FinishInv /\ ReserveInv /\ FlightInv
      /\ LeaseInv /\ ControlInv /\ EngineInv
      /\ BucketInv /\ RetainedInv
      /\ LineInv /\ OrderInv /\ CloseInv /\ CloseStopsCompute
      /\ installed \in BOOLEAN
  BY DEF OpsInv
<1>2. /\ EngineTypes /\ PoolInv /\ LeaseTypes /\ BucketTypes
  BY <1>1 DEF EngineInv, LeaseInv, BucketInv
<1>3. IInv'
  BY <1>1, GateKept
<1>4. PlaceInv'
  BY <1>1, <1>2, PlaceStep
<1>5. FinishInv'
  BY <1>1, FinishStep
<1>6. ReserveInv'
  BY <1>1, <1>2, ReserveStep
<1>7. FlightInv'
  BY <1>1, <1>2, FlightStep
<1>8. LeaseInv'
  BY <1>1, <1>2, <1>4, LeaseStep
<1>9. ControlInv'
  BY <1>1, <1>2, ControlStep
<1>10. EngineInv'
  <2>1. EngineTypes' /\ PoolInv'
    BY <1>1, <1>2, PoolStep
  <2>2. IntactInv'
    BY <1>1, IntactStep
  <2> QED BY <2>1, <2>2 DEF EngineInv
<1>11. BucketInv'
  BY <1>1, <1>2, BucketStep
<1>12. RetainedInv'
  BY <1>1, <1>2, RetainedStep
<1>13. LineInv' /\ OrderInv'
  <2>1. CASE UNCHANGED <<pc, running, waiters>>
    BY <1>1, <2>1 DEF LineInv, OrderInv
  <2>2. ASSUME NEW c \in Calls, LineMoves(c), LineRules(c)
        PROVE  LineInv' /\ OrderInv'
    BY <1>1, <1>3, <1>4, <2>2, LineStep, OrderStep
  <2> QED BY <1>1, <1>2, <2>1, <2>2, LineSteps
<1>14. CloseInv'
  BY <1>1, <1>2, <1>4, CloseStep
<1>15. CloseStopsCompute'
  BY <1>1, <1>2, StoppedStep
<1>16. (installed \in BOOLEAN)'
  BY <1>1, InstalledStep
<1> QED BY <1>3, <1>4, <1>5, <1>6, <1>7, <1>8, <1>9, <1>10, <1>11, <1>12, <1>13, <1>14, <1>15,
           <1>16 DEF OpsInv

LEMMA OpsInvariant == Spec => []OpsInv
BY OpsStarts, OpsStep, PTL DEF Spec

\* The operations keep what the gate promises: its callers submit, hand over and
\* release as hold expects, so a tool body, maintenance and a reservation exclude
\* each other while operations, sessions that end and updaters run.
THEOREM GateHoldsForOperations ==
    Spec => [](ReadersExact /\ GateExclusive /\ ReservationExclusive)
<1>1. OpsInv => ReadersExact /\ GateExclusive /\ ReservationExclusive
  BY GateMeans DEF OpsInv
<1> QED BY <1>1, OpsInvariant, PTL

\* For every set of sessions, calls and updaters the state has its types, and a
\* session's list holds exactly the operation in flight and the last
\* CompletedLimit finished ones, each once (_retain_completed, submit and its
\* except clause, close_session).
THEOREM OperationsAreSound == Spec => []OperationsSound
<1>1. OpsInv => OperationsSound
  <2> SUFFICES ASSUME OpsInv
               PROVE  OperationsSound
    OBVIOUS
  <2>1. GateTypeOK
    BY DEF OpsInv, IInv
  <2>2. TypeOK
    BY <2>1 DEF OpsInv, TypeOK, PlaceInv, PlaceTypes, BucketInv, BucketTypes, ControlInv,
       ControlTypes, LeaseInv, LeaseTypes, EngineInv, EngineTypes
  <2>3. RetentionExact
    BY RetainedHolds DEF OpsInv
  <2> QED BY <2>2, <2>3 DEF OperationsSound
<1> QED BY <1>1, OpsInvariant, PTL

\* A stop that was accepted is honoured: the operation does not end up completed
\* (cancel, publication_guard and the finally of _execute).
THEOREM AcceptedStopsAreHonoured == Spec => []AcceptedStopNeverCompletes
<1>1. OpsInv => AcceptedStopNeverCompletes
  BY ControlHolds DEF OpsInv
<1> QED BY <1>1, OpsInvariant, PTL

\* Who can read that an operation has ended finds gate, reservation, lease and
\* its place as active operation given back (the finally of _run).
THEOREM EndIsReleased == Spec => []TerminalAfterRelease
<1>1. OpsInv => TerminalAfterRelease
  BY ReleaseHolds DEF OpsInv
<1> QED BY <1>1, OpsInvariant, PTL

\* A completed operation has left its build as it found it and raised no flag
\* (the verification in _execute), whatever happened to its engine.
THEOREM CompletedIsRestored == Spec => []CompletedMeansRestored
<1>1. OpsInv => CompletedMeansRestored
  BY EngineHolds DEF OpsInv
<1> QED BY <1>1, OpsInvariant, PTL

\* For every set of sessions and calls, an operation that is to read completed was
\* stopped by nobody and has left its build as it found it, whether the client,
\* the deadline or the session's exit raced its result or its engine died.
THEOREM CompletedIsHonest == Spec => []CompletedHonest
<1>1. AcceptedStopNeverCompletes /\ CompletedMeansRestored <=> CompletedHonest
  BY DEF CompletedHonest
<1> QED BY <1>1, AcceptedStopsAreHonoured, CompletedIsRestored, PTL

\* No updater, of this process or another, swaps the runtime between the capture
\* of an operation and the end of its worker (runtime_read_lease).
THEOREM RuntimeIsHeld == Spec => []RuntimeHeld
<1>1. OpsInv => RuntimeHeld
  BY LeaseHolds DEF OpsInv
<1> QED BY <1>1, OpsInvariant, PTL

\* When the exit of a session has returned, an operation it asked to stop does
\* not compute (close_session).
THEOREM ClosedSessionsAreQuiet == Spec => []CloseStopsCompute
<1>1. OpsInv => CloseStopsCompute
  BY DEF OpsInv
<1> QED BY <1>1, OpsInvariant, PTL

\* With one session the worker's re-checks of engine, runtime and build never
\* fire.
THEOREM InputsAreStable ==
    ASSUME \A s, t \in Sessions : s = t
    PROVE  Spec => []InputStable
<1>1. OpsInv => InputStable
  BY EngineHolds DEF OpsInv
<1> QED BY <1>1, OpsInvariant, PTL

\* With more sessions one of them can, and no other: the worker cannot look at
\* its engine while the pool starts one for another session (peek).
OnlyEngineBusy ==
    \A c \in Background : outcome[c] \in Conflicts =>
        outcome[c] = "compute_engine_changed" /\ \E s \in Sessions : s # SessionOf[c]

\* Runtime and build never change under an operation, whatever the sessions.
THEOREM InputsAreNeverStale == Spec => []OnlyEngineBusy
<1>1. OpsInv => OnlyEngineBusy
  BY DEF OpsInv, EngineInv, IntactInv, Unchanged, OnlyEngineBusy
<1> QED BY <1>1, OpsInvariant, PTL

----------------------------------------------------------------------------
(* What clients see of the operations *)

StopReasons == {"cancelled", "budget_exceeded"}
OpenStages == {"worker", "computing", "returned", "rejected", "sealed"}
StatusOf(c) == IF terminal[c] THEN "terminal" ELSE IF stage[c] \in OpenStages THEN "open" ELSE "none"
ResultOf(c) == IF terminal[c] THEN outcome[c] ELSE "none"

\* An outcome says how the computation ended; as stopped only if it was, and why.
Decided(c) ==
    stage[c] \in {"returned", "rejected", "sealed", "closed"} =>
        outcome[c] # "none" /\ (outcome[c] \in StopReasons => stop[c] = outcome[c])

OutcomeInv == \A c \in Background : Decided(c)

\* What a step does to stage, stop, outcome and end of one operation: nothing, ...
Silent == UNCHANGED <<stage, stop, outcome, terminal>>

\* ... it moves through its submission, ...
Admits(c) ==
    /\ \E x \in {"none"} \cup Submitting :
        stage[c] \in {"none"} \cup Submitting /\ stage' = [stage EXCEPT ![c] = x]
    /\ UNCHANGED <<stop, outcome, terminal>>

\* ... which answers, ...
Answers(c) ==
    /\ stage[c] = "captured" /\ stage' = [stage EXCEPT ![c] = "worker"]
    /\ UNCHANGED <<stop, outcome, terminal>>

\* ... its worker goes on, perhaps stopped, perhaps with an outcome, ...
Works(c) ==
    /\ \E x \in OpenStages : stage[c] \in OpenStages /\ stage' = [stage EXCEPT ![c] = x]
    /\ \/ UNCHANGED stop
       \/ \E y \in StopReasons : stop[c] \in {"none", y} /\ stop' = [stop EXCEPT ![c] = y]
    /\ Decided(c) => Decided(c)'
    /\ \E x \in Outcomes : outcome' = [outcome EXCEPT ![c] = x]
    /\ UNCHANGED terminal

\* ... somebody stops it, or it ends.
Stopped(c) ==
    /\ stop[c] = "none" /\ ~terminal[c] /\ stop' = [stop EXCEPT ![c] = "cancelled"]
    /\ stage[c] \notin {"sealed", "closed"}
    /\ UNCHANGED <<stage, outcome, terminal>>

Ends(c) ==
    /\ stage[c] = "sealed" /\ stage' = [stage EXCEPT ![c] = "closed"]
    /\ terminal' = [terminal EXCEPT ![c] = TRUE]
    /\ UNCHANGED <<stop, outcome>>

LEMMA ViewSteps ==
    ASSUME IInv, PlaceInv, PoolInv, BucketTypes, ControlInv, [Next]_vars
    PROVE  Silent \/ \E c \in Background :
              Admits(c) \/ Answers(c) \/ Works(c) \/ Stopped(c) \/ Ends(c)
<1>1. /\ stage \in [Background -> Stages] /\ Background \subseteq Calls
      /\ \A c \in Background : Placed(c) /\ Controlled(c)
      /\ stop \in [Background -> {"none", "cancelled", "budget_exceeded"}]
      /\ outcome \in [Background -> Outcomes]
  <2>1. Background \subseteq Calls
    BY DEF Calls
  <2> QED BY <2>1 DEF PlaceInv, PlaceTypes, ControlInv, ControlTypes
<1>2. ASSUME NEW c \in Background
      PROVE  outcome = [outcome EXCEPT ![c] = outcome[c]] /\ outcome[c] \in Outcomes
  BY <1>1, <1>2
<1>3. ASSUME NEW c \in Calls, gate_step(c) \/ tool_ends(c) \/ get_begin(c) PROVE Silent
  BY <1>3 DEF gate_step, tool_ends, get_begin, controlVars, Silent
<1>4. ASSUME NEW c \in Calls, get_end(c)
      PROVE  Silent \/ (c \in Background /\ Admits(c))
  <2>1. UNCHANGED <<stop, outcome, terminal>> /\ pool_lock = c
    BY <1>4 DEF get_end, controlVars
  <2>2. CASE stage' = stage
    BY <2>1, <2>2 DEF Silent
  <2>3. CASE c \in Background /\ stage' = [stage EXCEPT ![c] = "uncaptured"]
    BY <2>1, <2>3 DEF PoolInv, Admits, Submitting
  <2> QED BY <1>4, <2>2, <2>3 DEF get_end
<1>5. ASSUME NEW c \in Background, submit(c) \/ submit_wakes(c)
      PROVE  Silent \/ Admits(c)
  <2>1. /\ ~running[c] /\ (hold_nowait(c) \/ wake_up(c)) /\ RegisterIfEntered(c)
        /\ UNCHANGED <<stop, outcome, terminal>>
    BY <1>1, <1>5 DEF submit, submit_wakes, hold_nowait, Placed, Submitting, Computing, Stages,
       controlVars
  <2>2. stage[c] = "none"
    BY <2>1, EntryMoves
  <2> QED BY <2>1, <2>2 DEF RegisterIfEntered, Register, Silent, Admits, Submitting
<1>6. ASSUME NEW c \in Background,
             take_read_lease(c) \/ read_lease_busy(c) \/ capture_failed(c) \/ capture(c)
      PROVE  Admits(c)
  BY <1>6 DEF take_read_lease, read_lease_busy, capture_failed, UndoAdmission, capture, controlVars,
     Admits, Submitting
<1>7. ASSUME NEW c \in Background, start_worker(c) PROVE Answers(c)
  BY <1>7 DEF start_worker, controlVars, Answers
<1>8. ASSUME NEW c \in Background, reject(c) PROVE Works(c)
  <2>1. /\ stage[c] = "worker" /\ stage' = [stage EXCEPT ![c] = "rejected"]
        /\ UNCHANGED terminal
    BY <1>8 DEF reject
  <2>2. CASE /\ InputVerdict(c) # "none" /\ UNCHANGED stop
             /\ outcome' = [outcome EXCEPT ![c] = InputVerdict(c)]
    <3>1. InputVerdict(c) \in Outcomes \ {"none", "cancelled", "budget_exceeded"}
      BY <2>2 DEF InputVerdict, Outcomes, Conflicts
    <3>2. outcome'[c] = InputVerdict(c)
      BY <1>1, <2>2
    <3>3. Decided(c)'
      BY <3>1, <3>2 DEF Decided, StopReasons
    <3> QED BY <2>1, <2>2, <3>1, <3>3 DEF Works, OpenStages
  <2>3. ASSUME NEW why \in StopReasons, CheckStops(c, why),
               stop' = [stop EXCEPT ![c] = why], outcome' = [outcome EXCEPT ![c] = why]
        PROVE  Works(c)
    <3>1. stop[c] \in {"none", why} /\ why \in Outcomes /\ why # "none"
      BY <2>3 DEF CheckStops, StopReasons, Outcomes
    <3>2. stop'[c] = why /\ outcome'[c] = why
      BY <1>1, <2>3
    <3>3. Decided(c)'
      BY <3>1, <3>2 DEF Decided
    <3> QED BY <2>1, <2>3, <3>1, <3>3 DEF Works, OpenStages
  <2> QED BY <1>8, <2>2, <2>3 DEF reject, StopReasons
<1>9. ASSUME NEW c \in Background, compute_begin(c) PROVE Works(c)
  <2>1. /\ stage[c] = "worker" /\ stage' = [stage EXCEPT ![c] = "computing"]
        /\ UNCHANGED <<stop, outcome, terminal>>
    BY <1>9 DEF compute_begin, controlVars
  <2>2. Decided(c)'
    BY <1>1, <2>1 DEF Decided
  <2> QED BY <1>2, <2>1, <2>2 DEF Works, OpenStages
<1>10. ASSUME NEW c \in Background, compute_end(c) PROVE Works(c)
  <2>1. /\ stage[c] = "computing" /\ stage' = [stage EXCEPT ![c] = "returned"]
        /\ UNCHANGED terminal
    BY <1>10 DEF compute_end
  <2>2. ASSUME NEW how \in {"completed", "execution_failed"},
               outcome' = [outcome EXCEPT ![c] = how], UNCHANGED stop
        PROVE  Works(c)
    <3>1. outcome'[c] = how /\ how \in Outcomes
      BY <1>1, <2>2 DEF Outcomes
    <3>2. Decided(c)'
      BY <2>2, <3>1 DEF Decided, StopReasons
    <3> QED BY <2>1, <2>2, <3>1, <3>2 DEF Works, OpenStages
  <2>3. ASSUME NEW why \in StopReasons, CheckStops(c, why),
               stop' = [stop EXCEPT ![c] = why], outcome' = [outcome EXCEPT ![c] = why]
        PROVE  Works(c)
    <3>1. stop[c] \in {"none", why} /\ why \in Outcomes /\ why # "none"
      BY <2>3 DEF CheckStops, StopReasons, Outcomes
    <3>2. stop'[c] = why /\ outcome'[c] = why
      BY <1>1, <2>3
    <3>3. Decided(c)'
      BY <3>1, <3>2 DEF Decided
    <3> QED BY <2>1, <2>3, <3>1, <3>3 DEF Works, OpenStages
  <2> QED BY <1>10, <2>2, <2>3 DEF compute_end, StopReasons
<1>11. ASSUME NEW c \in Background, seal(c) PROVE Works(c)
  <2>1. /\ stage[c] \in {"returned", "rejected"} /\ stage' = [stage EXCEPT ![c] = "sealed"]
        /\ UNCHANGED terminal
    BY <1>11 DEF seal
  <2>2. \/ outcome' = [outcome EXCEPT ![c] = "recovery_required"] /\ stop' = stop
        \/ UNCHANGED <<outcome, stop>>
        \/ \E why \in StopReasons :
            /\ CheckStops(c, why)
            /\ stop' = [stop EXCEPT ![c] = why] /\ outcome' = [outcome EXCEPT ![c] = why]
    BY <1>11 DEF seal, StopReasons
  <2>3. CASE outcome' = [outcome EXCEPT ![c] = "recovery_required"] /\ stop' = stop
    <3>1. outcome'[c] = "recovery_required" /\ "recovery_required" \in Outcomes
      BY <1>1, <2>3 DEF Outcomes
    <3>2. Decided(c)'
      BY <3>1 DEF Decided, StopReasons
    <3> QED BY <2>1, <2>3, <3>1, <3>2 DEF Works, OpenStages
  <2>4. CASE UNCHANGED <<outcome, stop>>
    <3>1. Decided(c) => Decided(c)'
      BY <2>1, <2>4 DEF Decided
    <3> QED BY <1>2, <2>1, <2>4, <3>1 DEF Works, OpenStages
  <2>5. ASSUME NEW why \in StopReasons, CheckStops(c, why),
               stop' = [stop EXCEPT ![c] = why], outcome' = [outcome EXCEPT ![c] = why]
        PROVE  Works(c)
    <3>1. stop[c] \in {"none", why} /\ why \in Outcomes /\ why # "none"
      BY <2>5 DEF CheckStops, StopReasons, Outcomes
    <3>2. stop'[c] = why /\ outcome'[c] = why
      BY <1>1, <2>5
    <3>3. Decided(c)'
      BY <3>1, <3>2 DEF Decided
    <3> QED BY <2>1, <2>5, <3>1, <3>3 DEF Works, OpenStages
  <2> QED BY <2>2, <2>3, <2>4, <2>5
<1>12. ASSUME NEW c \in Background, finish(c) PROVE Ends(c)
  <2>1. /\ pc[c] = "finishing" /\ stage' = [stage EXCEPT ![c] = "closed"]
        /\ terminal' = [terminal EXCEPT ![c] = TRUE] /\ UNCHANGED <<stop, outcome>>
    BY <1>12 DEF finish, task_done
  <2>2. stage[c] = "sealed"
    BY <1>1, <2>1 DEF Placed, Submitting, Computing, Stages
  <2> QED BY <2>1, <2>2 DEF Ends
<1>13. ASSUME NEW c \in Background, Cancellable(c), stop' = [stop EXCEPT ![c] = "cancelled"],
              UNCHANGED <<stage, outcome, terminal>>
       PROVE  Stopped(c)
  BY <1>1, <1>13 DEF Cancellable, Controlled, Stopped
<1>14. ASSUME NEW c \in Background, cancel(c) PROVE Stopped(c)
  BY <1>13, <1>14 DEF cancel
<1>15. ASSUME NEW s \in Sessions, close_session(s)
       PROVE  Silent \/ \E c \in Background : Stopped(c)
  <2>1. UNCHANGED <<stage, outcome, terminal>>
    BY <1>15 DEF close_session
  <2>2. CASE stop' = stop
    BY <2>1, <2>2 DEF Silent
  <2>3. CASE /\ active[s] # None /\ Cancellable(active[s])
             /\ stop' = [stop EXCEPT ![active[s]] = "cancelled"]
    <3>1. active[s] \in Background
      BY <2>3 DEF BucketTypes
    <3> QED BY <1>13, <2>1, <2>3, <3>1
  <2> QED BY <1>15, <2>2, <2>3 DEF close_session
<1>16. ASSUME NEW s \in Sessions, close_session_ends(s) \/ engine_dies(s) PROVE Silent
  BY <1>16 DEF close_session_ends, engine_dies, controlVars, Silent
<1>17. ASSUME NEW c \in Background,
              \/ submit_refused(c) \/ publication_guard(c) \/ worker_leaves(c)
              \/ worker_releases(c) \/ close_lease(c)
       PROVE  Silent
  BY <1>17 DEF submit_refused, publication_guard, worker_leaves, worker_releases, close_lease,
     controlVars, Silent
<1>18. ASSUME NEW u, take_write_lease(u) \/ install_begin(u) \/ install(u)
                     \/ drop_write_lease(u) \/ foreign_install(u)
       PROVE  Silent
  BY <1>18 DEF take_write_lease, install_begin, install, drop_write_lease, foreign_install,
     controlVars, Silent
<1>19. CASE UNCHANGED vars
  BY <1>19 DEF vars, controlVars, Silent
<1> QED BY <1>3, <1>4, <1>5, <1>6, <1>7, <1>8, <1>9, <1>10, <1>11, <1>12, <1>14, <1>15, <1>16,
     <1>17, <1>18, <1>19 DEF Next

\* Nobody else's operation is touched.
LEMMA ViewFrame ==
    ASSUME PlaceInv, ControlInv, NEW c \in Background,
           Admits(c) \/ Answers(c) \/ Works(c) \/ Stopped(c) \/ Ends(c)
    PROVE  \A d \in Background \ {c} :
             /\ stage'[d] = stage[d] /\ stop'[d] = stop[d] /\ outcome'[d] = outcome[d]
             /\ terminal'[d] = terminal[d]
<1>1. /\ stage \in [Background -> Stages] /\ terminal \in [Background -> BOOLEAN]
      /\ stop \in [Background -> {"none", "cancelled", "budget_exceeded"}]
      /\ outcome \in [Background -> Outcomes]
  BY DEF PlaceInv, PlaceTypes, ControlInv, ControlTypes
<1> QED BY <1>1 DEF Admits, Answers, Works, Stopped, Ends

LEMMA OutcomeStep ==
    ASSUME OpsInv, OutcomeInv, [Next]_vars
    PROVE  OutcomeInv'
<1>1. /\ IInv /\ PlaceInv /\ PoolInv /\ BucketTypes /\ ControlInv
      /\ stage \in [Background -> Stages]
  BY DEF OpsInv, EngineInv, BucketInv, PlaceInv, PlaceTypes
<1>2. CASE Silent
  BY <1>2 DEF Silent, OutcomeInv, Decided
<1>3. ASSUME NEW c \in Background,
             Admits(c) \/ Answers(c) \/ Works(c) \/ Stopped(c) \/ Ends(c)
      PROVE  OutcomeInv'
  <2>1. ASSUME NEW d \in Background \ {c} PROVE Decided(d)'
    BY <1>1, <1>3, <2>1, ViewFrame DEF OutcomeInv, Decided
  <2>2. Decided(c)'
    <3>1. CASE Admits(c) \/ Answers(c)
      BY <1>1, <3>1 DEF Admits, Answers, Decided, Submitting
    <3>2. CASE Works(c)
      BY <3>2 DEF Works, OutcomeInv
    <3>3. CASE Stopped(c)
      BY <3>3 DEF Stopped, OutcomeInv, Decided, StopReasons
    <3>4. CASE Ends(c)
      BY <1>1, <3>4 DEF Ends, OutcomeInv, Decided
    <3> QED BY <1>3, <3>1, <3>2, <3>3, <3>4
  <2> QED BY <2>1, <2>2 DEF OutcomeInv
<1> QED BY <1>1, <1>2, <1>3, ViewSteps

LEMMA ViewStep ==
    ASSUME OpsInv, OutcomeInv, [Next]_vars
    PROVE  [View!Next]_<<[d \in Background |-> StatusOf(d)], stop,
                         [d \in Background |-> ResultOf(d)]>>
<1> DEFINE status == [d \in Background |-> StatusOf(d)]
           result == [d \in Background |-> ResultOf(d)]
<1>1. /\ IInv /\ PlaceInv /\ PoolInv /\ BucketTypes /\ ControlInv /\ FlightInv
      /\ stage \in [Background -> Stages] /\ terminal \in [Background -> BOOLEAN]
      /\ stop \in [Background -> {"none", "cancelled", "budget_exceeded"}]
      /\ outcome \in [Background -> Outcomes]
      /\ \A c \in Background : Placed(c) /\ Controlled(c) /\ Decided(c)
  BY DEF OpsInv, EngineInv, BucketInv, PlaceInv, PlaceTypes, ControlInv, ControlTypes, OutcomeInv
<1>2. CASE Silent
  <2>1. \A c \in Background : StatusOf(c)' = StatusOf(c) /\ ResultOf(c)' = ResultOf(c)
    BY <1>2 DEF Silent, StatusOf, ResultOf
  <2> QED BY <1>2, <2>1 DEF Silent
<1>3. ASSUME NEW c \in Background,
             Admits(c) \/ Answers(c) \/ Works(c) \/ Stopped(c) \/ Ends(c)
      PROVE  [View!Next]_<<status, stop, result>>
  <2>1. \A d \in Background \ {c} : StatusOf(d)' = StatusOf(d) /\ ResultOf(d)' = ResultOf(d)
    BY <1>1, <1>3, ViewFrame DEF StatusOf, ResultOf
  <2>2. /\ status' = [status EXCEPT ![c] = StatusOf(c)']
        /\ result' = [result EXCEPT ![c] = ResultOf(c)']
    BY <2>1
  <2>3. ASSUME StatusOf(c)' = StatusOf(c), ResultOf(c)' = ResultOf(c)
        PROVE  UNCHANGED <<status, result>>
    BY <2>1, <2>3
  <2>4. CASE Admits(c)
    <3>1. StatusOf(c)' = StatusOf(c) /\ ResultOf(c)' = ResultOf(c) /\ stop' = stop
      BY <1>1, <2>4 DEF Admits, StatusOf, ResultOf, Submitting, OpenStages
    <3> QED BY <2>3, <3>1
  <2>5. CASE Answers(c)
    <3>1. ~terminal[c] /\ stage'[c] = "worker" /\ UNCHANGED <<stop, outcome, terminal>>
      BY <1>1, <2>5 DEF Answers, Placed
    <3>2. StatusOf(c) = "none" /\ StatusOf(c)' = "open" /\ ResultOf(c)' = ResultOf(c)
      BY <2>5, <3>1 DEF Answers, StatusOf, ResultOf, OpenStages
    <3>3. ASSUME NEW d \in Background, SessionOf[d] = SessionOf[c] PROVE StatusOf(d) # "open"
      <4>1. CASE d = c
        BY <3>2, <4>1
      <4>2. CASE d # c
        <5>1. ~InFlight(d) /\ InFlight(c)
          BY <1>1, <2>5, <3>3, <4>2 DEF FlightInv, InFlight, Answers
        <5> QED BY <5>1 DEF InFlight, StatusOf, OpenStages
      <4> QED BY <4>1, <4>2
    <3>4. result' = result /\ stop' = stop /\ status[c] = "none"
      BY <2>1, <3>1, <3>2
    <3>5. View!Open(c)
      BY <2>2, <3>2, <3>3, <3>4 DEF View!Open, StatusOf, ResultOf, OpenStages
    <3> QED BY <3>5 DEF View!Next
  <2>6. CASE Works(c)
    <3>1. ~terminal[c] /\ stage[c] \in OpenStages /\ stage'[c] \in OpenStages /\ terminal' = terminal
      BY <1>1, <2>6 DEF Works, OpenStages, Placed
    <3>2. StatusOf(c)' = StatusOf(c) /\ ResultOf(c)' = ResultOf(c)
      BY <3>1 DEF StatusOf, ResultOf
    <3>3. UNCHANGED <<status, result>>
      BY <2>3, <3>2
    <3>4. CASE UNCHANGED stop
      BY <3>3, <3>4
    <3>5. ASSUME NEW y \in StopReasons, stop[c] \in {"none", y}, stop' = [stop EXCEPT ![c] = y]
          PROVE  [View!Next]_<<status, stop, result>>
      <4>1. CASE stop[c] = y
        BY <1>1, <3>3, <3>5, <4>1
      <4>2. CASE stop[c] = "none"
        <5>1. View!Stop(c)
          BY <3>1, <3>3, <3>5, <4>2 DEF View!Stop, View!Reasons, StopReasons, StatusOf, ResultOf, OpenStages
        <5> QED BY <5>1 DEF View!Next
      <4> QED BY <3>5, <4>1, <4>2
    <3> QED BY <2>6, <3>4, <3>5 DEF Works
  <2>7. CASE Stopped(c)
    <3>1. /\ StatusOf(c)' = StatusOf(c) /\ ResultOf(c)' = ResultOf(c) /\ StatusOf(c) # "terminal"
          /\ stop[c] = "none" /\ stop' = [stop EXCEPT ![c] = "cancelled"]
      BY <2>7 DEF Stopped, StatusOf, ResultOf
    <3>2. UNCHANGED <<status, result>>
      BY <2>3, <3>1
    <3>3. View!Stop(c)
      BY <3>1, <3>2 DEF View!Stop, View!Reasons, StatusOf, ResultOf, OpenStages
    <3> QED BY <3>3 DEF View!Next
  <2>8. CASE Ends(c)
    <3>1. /\ ~terminal[c] /\ terminal'[c] /\ UNCHANGED <<stop, outcome>> /\ stage[c] = "sealed"
      BY <1>1, <2>8 DEF Ends, Placed
    <3>2. StatusOf(c) = "open" /\ StatusOf(c)' = "terminal" /\ ResultOf(c)' = outcome[c]
      BY <3>1 DEF StatusOf, ResultOf, OpenStages
    <3>3. /\ outcome[c] \in Outcomes \ {"none"}
          /\ outcome[c] = "completed" => stop[c] = "none"
          /\ outcome[c] \in StopReasons => stop[c] = outcome[c]
      BY <1>1, <3>1 DEF Controlled, Decided
    <3>4. View!Terminate(c)
      BY <2>2, <3>1, <3>2, <3>3
         DEF View!Terminate, View!Reasons, StopReasons, StatusOf, ResultOf, OpenStages
    <3> QED BY <3>4 DEF View!Next
  <2> QED BY <1>3, <2>4, <2>5, <2>6, <2>7, <2>8
<1> QED BY <1>1, <1>2, <1>3, ViewSteps

\* For every set of sessions and calls, what clients read of their operations is
\* what OperationView promises: one operation of a session at a time, stops that
\* stay, and one final end that agrees with them.
THEOREM OperationsImplementView == Spec => ImplementsView
<1>1. Init => View!Init
  BY DEF Init, View!Init
<1>2. Init => OutcomeInv
  BY DEF Init, OutcomeInv, Decided
<1>3. OpsInv /\ OutcomeInv /\ [Next]_vars => OutcomeInv'
  BY OutcomeStep
<1>4. OpsInv /\ OutcomeInv /\ [Next]_vars => [View!Next]_(View!view)
  BY ViewStep DEF View!view, StatusOf, ResultOf, OpenStages
<1> QED BY <1>1, <1>2, <1>3, <1>4, OpsStarts, OpsStep, PTL DEF Spec, ImplementsView, View!Spec
=============================================================================
