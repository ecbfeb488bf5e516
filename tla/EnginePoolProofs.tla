--------------------------- MODULE EnginePoolProofs ---------------------------
(***************************************************************************)
(* Proofs about EnginePool.                                                *)
(***************************************************************************)
EXTENDS EnginePool, FiniteSetTheorems, TLAPS

Places == {"idle", "pruning", "replacing", "creating", "slotted", "starting", "swapping",
           "swapped", "loading", "unloading", "optimizing", "measuring", "cleaning",
           "discarding"} \cup Errors
States == {"none", "starting", "up", "dead", "uncounted"}
Records == [session : Sessions, engine : Engines]

Types ==
    /\ session \in [Sessions -> {"new", "live", "gone"}]
    /\ entries \in [Keys -> Records \cup {NoEntry}]
    /\ pool_lock \in Threads \cup {None}
    /\ callbacks \subseteq Sessions
    /\ engine \in [Engines -> States]
    /\ capacity \in Nat /\ active \in Nat
    /\ pc \in [Actors -> Places]
    /\ who \in [Actors -> Sessions \cup {None}]
    /\ todo \in [Actors -> Seq(Engines)]
    /\ extras \in [Threads -> Seq(Engines)]
    /\ snapshots \in [Threads -> SUBSET Sessions]
    /\ nested \in [Collectors -> Threads \cup {None}]

\* Where a thread has the pool's lock, its session, a list to close, extras.
Placed(t) ==
    /\ pc[t] \in {"pruning", "replacing", "creating", "swapping"} => pool_lock = t
    /\ pool_lock = t =>
         /\ pc[t] \in {"pruning", "replacing", "creating", "swapping", "slotted", "starting"}
                       \cup Errors
         /\ extras[t] = <<>>
         /\ pc[t] # "swapping" => who[t] \in Sessions
         /\ pc[t] \notin {"pruning", "swapping"} => entries[KeyOf[who[t]]] = NoEntry
    /\ who[t] \in Sessions => session[who[t]] = "live"
    /\ todo[t] # <<>> =>
         pc[t] \in {"pruning", "replacing", "starting", "swapping", "unloading", "cleaning"}
                    \cup Errors
    /\ pc[t] = "starting" => Len(todo[t]) = 1 /\ engine[Head(todo[t])] = "starting"
    /\ extras[t] # <<>> =>
         pc[t] \in {"optimizing", "slotted", "starting", "measuring"} \cup Errors

PlaceInv ==
    /\ \A t \in Threads : Placed(t)
    /\ \A g \in Collectors :
        /\ pc[g] \in {"idle", "discarding"} /\ who[g] = None
        /\ todo[g] # <<>> => pc[g] = "discarding"

\* Entries are filed under the id of their session; ids of sessions that are
\* there are their own; a callback is called for a collected session only.
KeyInv ==
    /\ \A k \in Pooled : KeyOf[entries[k].session] = k
    /\ \A k \in Pooled : session[entries[k].session] # "new"
    /\ \A s, d \in Sessions : session[s] = "live" /\ session[d] = "live"
                                /\ KeyOf[s] = KeyOf[d] => s = d
    /\ \A s \in callbacks : session[s] = "gone"

\* Nobody but its callback drops the entry of a session that is gone, unless
\* the entry goes.
PendingInv == \A k \in Stale : entries[k].session \in callbacks

\* The engines a thread or a callback has in hand.
Hand(a) == ToSet(todo[a]) \cup (IF a \in Threads THEN ToSet(extras[a]) ELSE {})

\* No engine has two owners.
OwnInv ==
    /\ \A a, b \in Actors : a # b => Hand(a) \cap Hand(b) = {}
    /\ \A a \in Actors : IsInjective(todo[a])
    /\ \A t \in Threads : IsInjective(extras[t]) /\ ToSet(todo[t]) \cap ToSet(extras[t]) = {}
    /\ \A a \in Actors, k \in Pooled : entries[k].engine \notin Hand(a)
    /\ \A k, l \in Pooled : k # l => entries[k].engine # entries[l].engine

\* What is owned holds a slot; what is in the pool can be used, or has died.
HeldInv ==
    /\ \A a \in Actors : \A e \in Hand(a) : engine[e] # "none"
    /\ \A k \in Pooled : engine[entries[k].engine] \in {"up", "dead"}

\* The pool keeps its limit, also when the engine that is starting joins it.
RoomInv ==
    /\ Cardinality(Pooled) <= MaxPool
    /\ \A t \in Threads : pool_lock = t /\ pc[t] \in {"slotted", "starting"} =>
                            Cardinality(Pooled) < MaxPool

IInv == Types /\ PlaceInv /\ KeyInv /\ PendingInv /\ OwnInv /\ HeldInv /\ RoomInv /\ SlotsExact

----------------------------------------------------------------------------
(* Lists, the pool, the slots *)

\* The list of a finite set has each of its elements once.
LEMMA ListOf ==
    ASSUME NEW S, IsFiniteSet(S), NEW R, S \subseteq R
    PROVE  /\ SetToSeq(S) \in Seq(R)
           /\ IsInjective(SetToSeq(S))
           /\ ToSet(SetToSeq(S)) = S
           /\ Len(SetToSeq(S)) = Cardinality(S)
<1> DEFINE n == Cardinality(S)
           q == SetToSeq(S)
<1>1. n \in Nat /\ IsFiniteSet(1 .. n) /\ Cardinality(1 .. n) = n
  BY FS_CardinalityType, FS_Interval
<1>2. PICK f \in Bijection(1 .. n, S) : TRUE
  BY FS_CardinalityType DEF ExistsBijection
<1>3. f \in [1 .. n -> S] /\ IsInjective(f)
  BY <1>2 DEF Bijection, Injection
<1>4. q \in [1 .. n -> S] /\ IsInjective(q)
  BY <1>3 DEF SetToSeq
<1>5. q \in Injection(1 .. n, S)
  BY <1>4 DEF Injection
<1>6. q \in Surjection(1 .. n, S)
  BY <1>1, <1>5, FS_Injection
<1>7. \A x \in S : \E i \in 1 .. n : q[i] = x
  BY <1>6 DEF Surjection
<1>8. ToSet(q) = S
  BY <1>4, <1>7 DEF ToSet
<1> QED BY <1>1, <1>4, <1>8

LEMMA EmptyList == ToSet(<<>>) = {} /\ IsInjective(<<>>)
BY DEF ToSet, IsInjective

LEMMA SingleList ==
    ASSUME NEW e PROVE ToSet(<<e>>) = {e} /\ IsInjective(<<e>>)
BY DEF ToSet, IsInjective

LEMMA HeadOfList ==
    ASSUME NEW R, NEW q \in Seq(R), q # <<>>
    PROVE  /\ Head(q) \in R /\ Head(q) \in ToSet(q) /\ Tail(q) \in Seq(R)
           /\ IsInjective(q) => /\ IsInjective(Tail(q))
                                /\ ToSet(Tail(q)) = ToSet(q) \ {Head(q)}
<1>1. /\ Len(q) \in Nat /\ Len(q) > 0 /\ DOMAIN q = 1 .. Len(q)
      /\ Head(q) = q[1] /\ Tail(q) \in Seq(R) /\ Len(Tail(q)) = Len(q) - 1
      /\ DOMAIN Tail(q) = 1 .. (Len(q) - 1)
      /\ \A i \in 1 .. (Len(q) - 1) : Tail(q)[i] = q[i + 1]
  OBVIOUS
<1>2. Head(q) \in R /\ Head(q) \in ToSet(q)
  BY <1>1 DEF ToSet
<1>3. ASSUME IsInjective(q)
      PROVE  IsInjective(Tail(q)) /\ ToSet(Tail(q)) = ToSet(q) \ {Head(q)}
  <2>1. IsInjective(Tail(q))
    BY <1>1, <1>3 DEF IsInjective
  <2>2. ToSet(Tail(q)) \subseteq ToSet(q) \ {Head(q)}
    BY <1>1, <1>3 DEF IsInjective, ToSet
  <2>3. ASSUME NEW e \in ToSet(q) \ {Head(q)} PROVE e \in ToSet(Tail(q))
    <3>1. PICK i \in 1 .. Len(q) : q[i] = e
      BY <1>1 DEF ToSet
    <3>2. i # 1 /\ i - 1 \in 1 .. (Len(q) - 1) /\ Tail(q)[i - 1] = e
      BY <1>1, <3>1
    <3> QED BY <1>1, <3>2 DEF ToSet
  <2> QED BY <2>1, <2>2, <2>3
<1> QED BY <1>1, <1>2, <1>3

LEMMA AppendedList ==
    ASSUME NEW R, NEW q \in Seq(R), NEW e \in R
    PROVE  /\ Append(q, e) \in Seq(R)
           /\ ToSet(Append(q, e)) = ToSet(q) \cup {e}
           /\ IsInjective(q) /\ e \notin ToSet(q) => IsInjective(Append(q, e))
<1>1. /\ Len(q) \in Nat /\ DOMAIN q = 1 .. Len(q)
      /\ Append(q, e) \in Seq(R) /\ DOMAIN Append(q, e) = 1 .. (Len(q) + 1)
      /\ \A i \in 1 .. Len(q) : Append(q, e)[i] = q[i]
      /\ Append(q, e)[Len(q) + 1] = e
  OBVIOUS
<1>2. ToSet(Append(q, e)) = ToSet(q) \cup {e}
  BY <1>1 DEF ToSet
<1>3. ASSUME IsInjective(q), e \notin ToSet(q)
      PROVE  IsInjective(Append(q, e))
  <2>1. \A i \in 1 .. Len(q) : q[i] # e
    BY <1>1, <1>3 DEF ToSet
  <2>2. SUFFICES ASSUME NEW i \in 1 .. (Len(q) + 1), NEW j \in 1 .. (Len(q) + 1),
                        Append(q, e)[i] = Append(q, e)[j]
                 PROVE  i = j
    BY <1>1 DEF IsInjective
  <2>3. (i \in 1 .. Len(q) \/ i = Len(q) + 1) /\ (j \in 1 .. Len(q) \/ j = Len(q) + 1)
    BY <1>1
  <2> QED BY <1>1, <1>3, <2>1, <2>2, <2>3 DEF IsInjective
<1> QED BY <1>1, <1>2, <1>3

LEMMA KeysFinite == IsFiniteSet(Keys)
<1>1. [s \in Sessions |-> KeyOf[s]] \in Surjection(Sessions, Keys)
  BY DEF Surjection, Keys
<1> QED BY <1>1, FS_Surjection, PoolTyped

\* An entry belongs to a session, or there is none.
LEMMA EntryIs ==
    ASSUME entries \in [Keys -> Records \cup {NoEntry}], NEW k \in Keys
    PROVE  /\ k \in Pooled <=> entries[k] \in Records
           /\ k \in Pooled <=> entries[k].session \in Sessions
           /\ k \in Pooled => entries[k].engine \in Engines
           /\ k \notin Pooled => entries[k] = NoEntry /\ entries[k].session = None
<1>1. NoEntry.session = None /\ None \notin Sessions
  BY PoolNames DEF NoEntry
<1>2. \A r \in Records : r.session \in Sessions /\ r.engine \in Engines
  BY DEF Records
<1> QED BY <1>1, <1>2 DEF Pooled

\* Entries that are dropped are gone, the others stay.
LEMMA DroppedIs ==
    ASSUME entries \in [Keys -> Records \cup {NoEntry}], NEW K, entries' = Dropped(K)
    PROVE  /\ entries' \in [Keys -> Records \cup {NoEntry}]
           /\ Pooled' = Pooled \ K
           /\ \A k \in Pooled' : entries'[k] = entries[k] /\ k \notin K
           /\ \A k \in Keys : entries[k] = NoEntry => entries'[k] = NoEntry
           /\ \A k \in K \cap Keys : entries'[k] = NoEntry
BY DEF Dropped, Pooled

\* The engines of some entries, as a list.
LEMMA EnginesOfIs ==
    ASSUME entries \in [Keys -> Records \cup {NoEntry}], NEW K, K \subseteq Pooled
    PROVE  /\ EnginesOf(K) \in Seq(Engines)
           /\ IsInjective(EnginesOf(K))
           /\ ToSet(EnginesOf(K)) = {entries[k].engine : k \in K}
           /\ Len(EnginesOf(K)) <= Cardinality(Pooled)
<1> DEFINE S == {entries[k].engine : k \in K}
<1>1. S \subseteq Engines
  BY EntryIs DEF Pooled
<1>2. IsFiniteSet(Pooled) /\ IsFiniteSet(K) /\ Cardinality(K) <= Cardinality(Pooled)
  BY KeysFinite, FS_Subset DEF Pooled
<1>3. [k \in K |-> entries[k].engine] \in Surjection(K, S)
  BY DEF Surjection
<1>4. IsFiniteSet(S) /\ Cardinality(S) <= Cardinality(K)
  BY <1>2, <1>3, FS_Surjection
<1>5. Cardinality(S) \in Nat /\ Cardinality(K) \in Nat /\ Cardinality(Pooled) \in Nat
  BY <1>2, <1>4, FS_CardinalityType
<1>6. /\ SetToSeq(S) \in Seq(Engines) /\ IsInjective(SetToSeq(S)) /\ ToSet(SetToSeq(S)) = S
      /\ Len(SetToSeq(S)) = Cardinality(S)
  BY <1>1, <1>4, ListOf
<1> QED BY <1>2, <1>4, <1>5, <1>6 DEF EnginesOf

----------------------------------------------------------------------------
(* Slots *)

Holding == {e \in Engines : engine[e] # "none"}
Counted == {e \in Engines : engine[e] \notin {"none", "uncounted"}}
Slotted == {t \in Threads : pc[t] = "slotted"}

LEMMA SlotsAre ==
    /\ SlotsExact <=> /\ capacity = MaxSlots - Cardinality(Holding) - Cardinality(Slotted)
                      /\ active = Cardinality(Counted)
    /\ Counted \subseteq Holding
<1>1. Counted = Holding \ {e \in Engines : engine[e] = "uncounted"}
  BY DEF Holding, Counted
<1> QED BY <1>1 DEF SlotsExact, Holding, Slotted

LEMMA SlotsNext ==
    SlotsExact' <=> /\ capacity' = MaxSlots - Cardinality(Holding') - Cardinality(Slotted')
                    /\ active' = Cardinality(Counted')
<1>1. Counted' = Holding' \ {e \in Engines : engine'[e] = "uncounted"}
  BY DEF Holding, Counted
<1> QED BY <1>1 DEF SlotsExact, Holding, Slotted

LEMMA SlotsFinite ==
    /\ IsFiniteSet(Holding) /\ Cardinality(Holding) \in Nat
    /\ IsFiniteSet(Counted) /\ Cardinality(Counted) \in Nat
    /\ IsFiniteSet(Slotted) /\ Cardinality(Slotted) \in Nat
    /\ Cardinality(Counted) <= Cardinality(Holding)
<1>1. IsFiniteSet(Threads)
  BY PoolTyped, FS_Subset DEF Actors
<1>2. IsFiniteSet(Holding) /\ IsFiniteSet(Slotted)
  BY <1>1, PoolTyped, FS_Subset DEF Holding, Slotted
<1>3. IsFiniteSet(Counted) /\ Cardinality(Counted) <= Cardinality(Holding)
  BY <1>2, SlotsAre, FS_Subset
<1> QED BY <1>2, <1>3, FS_CardinalityType

\* Who has a slot and no engine yet finds a name for one.
LEMMA FreshEngine ==
    ASSUME Types, SlotsExact, NEW t \in Threads, pc[t] = "slotted"
    PROVE  \E e \in Engines : engine[e] = "none"
<1>1. Cardinality(Slotted) > 0
  <2>1. Slotted # {}
    BY DEF Slotted
  <2> QED BY <2>1, SlotsFinite, FS_EmptySet
<1>2. Cardinality(Holding) < MaxSlots
  BY <1>1, SlotsAre, SlotsFinite, PoolTyped DEF Types
<1>3. Holding # Engines
  BY <1>2, SlotsFinite, PoolTyped
<1> QED BY <1>3 DEF Holding

\* Semaphore and counter stay within the limit.
LEMMA SlotsBounded ==
    ASSUME Types, SlotsExact PROVE capacity \in 0 .. MaxSlots /\ active \in 0 .. MaxSlots
BY SlotsAre, SlotsFinite, PoolTyped DEF Types

\* The places of the threads that matter to the slots.
LEMMA SlottedKept ==
    ASSUME Types, NEW a \in Actors, pc[a] # "slotted" \/ a \notin Threads,
           NEW p, p # "slotted" \/ a \notin Threads, pc' = [pc EXCEPT ![a] = p]
    PROVE  Slotted' = Slotted
BY DEF Types, Slotted, Actors

LEMMA EngineKept ==
    ASSUME SlotsExact, UNCHANGED <<engine, capacity, active>>, Slotted' = Slotted
    PROVE  SlotsExact'
<1>1. Holding' = Holding /\ Counted' = Counted
  BY DEF Holding, Counted
<1> QED BY <1>1, SlotsAre, SlotsNext

\* One engine changes its state.
LEMMA EngineMoves ==
    ASSUME Types, NEW e \in Engines, NEW v \in States, engine' = [engine EXCEPT ![e] = v]
    PROVE  /\ engine[e] # "none" /\ v # "none" => Holding' = Holding
           /\ engine[e] = "none" /\ v # "none" =>
                Holding' = Holding \cup {e} /\ Cardinality(Holding') = Cardinality(Holding) + 1
           /\ engine[e] # "none" /\ v = "none" =>
                Holding' = Holding \ {e} /\ Cardinality(Holding') = Cardinality(Holding) - 1
           /\ (engine[e] \in {"none", "uncounted"} <=> v \in {"none", "uncounted"})
                => Counted' = Counted
           /\ engine[e] \in {"none", "uncounted"} /\ v \notin {"none", "uncounted"} =>
                Cardinality(Counted') = Cardinality(Counted) + 1
           /\ engine[e] \notin {"none", "uncounted"} /\ v \in {"none", "uncounted"} =>
                Cardinality(Counted') = Cardinality(Counted) - 1
<1>1. engine'[e] = v /\ \A d \in Engines \ {e} : engine'[d] = engine[d]
  BY DEF Types
<1>2. engine[e] # "none" /\ v # "none" => Holding' = Holding
  BY <1>1 DEF Holding
<1>3. engine[e] = "none" /\ v # "none" => Holding' = Holding \cup {e} /\ e \notin Holding
  BY <1>1 DEF Holding
<1>4. engine[e] # "none" /\ v = "none" => Holding' = Holding \ {e} /\ e \in Holding
  BY <1>1 DEF Holding
<1>5. (engine[e] \in {"none", "uncounted"} <=> v \in {"none", "uncounted"}) => Counted' = Counted
  BY <1>1 DEF Counted
<1>6. engine[e] \in {"none", "uncounted"} /\ v \notin {"none", "uncounted"} =>
        Counted' = Counted \cup {e} /\ e \notin Counted
  BY <1>1 DEF Counted
<1>7. engine[e] \notin {"none", "uncounted"} /\ v \in {"none", "uncounted"} =>
        Counted' = Counted \ {e} /\ e \in Counted
  BY <1>1 DEF Counted
<1>8. /\ Cardinality(Holding \cup {e}) = IF e \in Holding THEN Cardinality(Holding)
                                          ELSE Cardinality(Holding) + 1
      /\ Cardinality(Holding \ {e}) = IF e \in Holding THEN Cardinality(Holding) - 1
                                      ELSE Cardinality(Holding)
      /\ Cardinality(Counted \cup {e}) = IF e \in Counted THEN Cardinality(Counted)
                                          ELSE Cardinality(Counted) + 1
      /\ Cardinality(Counted \ {e}) = IF e \in Counted THEN Cardinality(Counted) - 1
                                      ELSE Cardinality(Counted)
  BY SlotsFinite, FS_AddElement, FS_RemoveElement
<1> QED BY <1>2, <1>3, <1>4, <1>5, <1>6, <1>7, <1>8

----------------------------------------------------------------------------
(* Steps *)

\* What a thread with a list, or a session, or an engine in hand can rely on.
LEMMA HeadHeld ==
    ASSUME Types, OwnInv, HeldInv, NEW a \in Actors, todo[a] # <<>>
    PROVE  /\ Head(todo[a]) \in Engines /\ Tail(todo[a]) \in Seq(Engines)
           /\ Head(todo[a]) \in Hand(a) /\ engine[Head(todo[a])] # "none"
           /\ IsInjective(Tail(todo[a])) /\ ToSet(Tail(todo[a])) = ToSet(todo[a]) \ {Head(todo[a])}
<1>1. todo[a] \in Seq(Engines) /\ IsInjective(todo[a])
  BY DEF Types, OwnInv
<1> QED BY <1>1, HeadOfList DEF HeldInv, Hand

LEMMA StartingHolds ==
    ASSUME Types, PlaceInv, NEW t \in Threads, pc[t] = "starting"
    PROVE  /\ todo[t] # <<>> /\ todo[t] = <<Head(todo[t])>> /\ Head(todo[t]) \in Engines
           /\ engine[Head(todo[t])] = "starting"
<1>1. todo[t] \in Seq(Engines) /\ Len(todo[t]) = 1 /\ engine[Head(todo[t])] = "starting"
  BY DEF Types, PlaceInv, Placed, Actors
<1> QED BY <1>1

LEMMA RaisesTypes ==
    ASSUME Types, NEW t \in Threads, Raises(t)
    PROVE  /\ pool_lock' \in Threads \cup {None} /\ pc' \in [Actors -> Places]
           /\ who' \in [Actors -> Sessions \cup {None}]
           /\ snapshots' \in [Threads -> SUBSET Sessions]
BY DEF Types, Raises, Onward, Places, Actors

LEMMA ReturnsTypes ==
    ASSUME Types, NEW t \in Threads, Returns(t)
    PROVE  /\ pool_lock' \in Threads \cup {None} /\ pc' \in [Actors -> Places]
           /\ who' \in [Actors -> Sessions \cup {None}]
BY DEF Types, Returns, Places, Actors

LEMMA TypesStep ==
    ASSUME Types, PlaceInv, OwnInv, HeldInv, SlotsExact, [Next]_vars
    PROVE  Types'
<1> USE DEF Types, Places, States
<1>1. CASE UNCHANGED vars
  BY <1>1 DEF vars, sessionVars, poolVars, slotVars, threadVars
<1>2. ASSUME NEW s \in Sessions, connect(s) \/ collect(s) PROVE Types'
  BY <1>2 DEF connect, collect, poolVars, slotVars, threadVars
<1>3. ASSUME NEW e \in Engines, engine_dies(e) PROVE Types'
  BY <1>3 DEF engine_dies, sessionVars, poolVars, threadVars
<1>4. ASSUME NEW t \in Threads, get(t) PROVE Types'
  <2>1. EnginesOf(Stale) \in Seq(Engines)
    BY EnginesOfIs DEF Stale
  <2>2. entries' \in [Keys -> Records \cup {NoEntry}]
    BY <1>4, DroppedIs DEF get
  <2> QED BY <1>4, <2>1, <2>2 DEF get, sessionVars, slotVars, Actors
<1>5. ASSUME NEW t \in Threads, preserve_sessions(t) PROVE Types'
  <2>1. EnginesOf(Pooled) \in Seq(Engines)
    BY EnginesOfIs
  <2>2. entries' \in [Keys -> Records \cup {NoEntry}]
    BY <1>5, DroppedIs DEF preserve_sessions
  <2>3. {entries[k].session : k \in {l \in Pooled \ Stale : engine[entries[l].engine] = "up"}}
          \in SUBSET Sessions
    BY EntryIs DEF Pooled
  <2> QED BY <1>5, <2>1, <2>2, <2>3 DEF preserve_sessions, sessionVars, slotVars, Actors
<1>6. ASSUME NEW t \in Threads, run_levers(t) PROVE Types'
  BY <1>6 DEF run_levers, sessionVars, poolVars, slotVars, Actors
<1>7. ASSUME NEW t \in Threads, acquire_slot(t) PROVE Types'
  BY <1>7 DEF acquire_slot, sessionVars, poolVars, Actors
<1>8. ASSUME NEW t \in Threads, refuse_slot(t) PROVE Types'
  BY <1>8, RaisesTypes DEF refuse_slot, sessionVars, slotVars, Actors
<1>9. ASSUME NEW t \in Threads, count_slot(t) PROVE Types'
  <2> DEFINE e == CHOOSE e \in Engines : engine[e] = "none"
  <2>1. e \in Engines
    BY <1>9, FreshEngine DEF count_slot
  <2> HIDE DEF e
  <2>2. <<e>> \in Seq(Engines)
    BY <2>1
  <2>3. /\ engine' = [engine EXCEPT ![e] = "starting"] /\ todo' = [todo EXCEPT ![t] = <<e>>]
        /\ active' = active + 1 /\ pc' = [pc EXCEPT ![t] = "starting"]
        /\ UNCHANGED <<sessionVars, poolVars, capacity, who, extras, snapshots, nested>>
    BY <1>9 DEF count_slot, e
  <2> QED BY <2>1, <2>2, <2>3 DEF sessionVars, poolVars, Actors
<1>10. ASSUME NEW t \in Threads, start_engine(t) PROVE Types'
  <2>1. Head(todo[t]) \in Engines
    BY <1>10, StartingHolds DEF start_engine
  <2>2. <<>> \in Seq(Engines) /\ Append(extras[t], Head(todo[t])) \in Seq(Engines)
    BY <2>1, AppendedList
  <2>3. pool_lock = t => who[t] \in Sessions
    BY <1>10 DEF start_engine, PlaceInv, Placed
  <2>4. pool_lock = t => [session |-> who[t], engine |-> Head(todo[t])] \in Records
    BY <2>1, <2>3 DEF Records
  <2>5. engine' \in [Engines -> States] /\ todo' \in [Actors -> Seq(Engines)]
    BY <1>10, <2>1, <2>2 DEF start_engine, Actors
  <2>6. CASE pool_lock = t
    <3>1. entries' \in [Keys -> Records \cup {NoEntry}] /\ Returns(t) /\ UNCHANGED extras
      BY <1>10, <2>4, <2>6 DEF start_engine
    <3> QED BY <1>10, <2>5, <3>1, ReturnsTypes DEF start_engine, sessionVars
  <2>7. CASE pool_lock # t
    <3>1. /\ extras' = [extras EXCEPT ![t] = Append(@, Head(todo[t]))]
          /\ pc' = [pc EXCEPT ![t] = "optimizing"] /\ UNCHANGED <<poolVars, who>>
      BY <1>10, <2>7 DEF start_engine
    <3> QED BY <1>10, <2>2, <2>5, <3>1 DEF start_engine, sessionVars, poolVars, Actors
  <2> QED BY <2>6, <2>7
<1>11. ASSUME NEW t \in Threads, start_fails(t) PROVE Types'
  BY <1>11, StartingHolds DEF start_fails, sessionVars, poolVars, Actors
<1>12. ASSUME NEW t \in Threads, start_failed(t) PROVE Types'
  <2>1. <<>> \in Seq(Engines)
    OBVIOUS
  <2>2. UNCHANGED <<sessionVars, entries, slotVars, todo, nested>>
    BY <1>12 DEF start_failed
  <2>3. CASE Raises(t) /\ UNCHANGED extras
    BY <2>2, <2>3, RaisesTypes DEF sessionVars, slotVars
  <2>4. ASSUME NEW p \in Places, pc' = [pc EXCEPT ![t] = p],
               UNCHANGED <<pool_lock, who, snapshots>>,
               UNCHANGED extras \/ extras' = [extras EXCEPT ![t] = <<>>]
        PROVE  Types'
    BY <2>1, <2>2, <2>4 DEF sessionVars, slotVars, Actors
  <2> QED BY <1>12, <2>3, <2>4 DEF start_failed
<1>13. ASSUME NEW a \in Actors, close(a) PROVE Types'
  BY <1>13, HeadHeld DEF close, Closing, sessionVars, poolVars
<1>14. ASSUME NEW a \in Actors, release_slot(a) PROVE Types'
  BY <1>14, HeadHeld DEF release_slot, Closing, sessionVars, poolVars
<1>15. ASSUME NEW t \in Threads, close_raises(t) PROVE Types'
  <2>1. <<>> \in Seq(Engines)
    OBVIOUS
  <2> QED BY <1>15, <2>1, HeadHeld DEF close_raises, Closing, sessionVars, Actors, Onward, Unlocked
<1>16. ASSUME NEW t \in Threads, look_up(t) PROVE Types'
  <2> DEFINE e == entries[KeyOf[who[t]]]
             usable == e.session = who[t] /\ engine[e.engine] = "up"
  <2>1. who[t] \in Sessions /\ KeyOf[who[t]] \in Keys
    <3>1. who[t] \in Sessions
      BY <1>16 DEF look_up, PlaceInv, Placed
    <3> QED BY <3>1 DEF Keys
  <2>2. CASE usable
    BY <1>16, <2>2, ReturnsTypes DEF look_up, sessionVars, slotVars
  <2>3. CASE ~usable
    <3>1. entries' = Dropped({KeyOf[who[t]]})
      BY <1>16, <2>3 DEF look_up
    <3>2. entries' \in [Keys -> Records \cup {NoEntry}]
      BY <3>1, DroppedIs
    <3>3. (IF e = NoEntry THEN <<>> ELSE <<e.engine>>) \in Seq(Engines)
      BY <2>1, EntryIs DEF Pooled
    <3>4. /\ todo' = [todo EXCEPT ![t] = IF e = NoEntry THEN <<>> ELSE <<e.engine>>]
          /\ pc' = [pc EXCEPT ![t] = "replacing"] /\ UNCHANGED <<pool_lock, who>>
          /\ UNCHANGED <<sessionVars, slotVars, extras, snapshots, nested>>
      BY <1>16, <2>3 DEF look_up
    <3> HIDE DEF e
    <3> QED BY <3>2, <3>3, <3>4 DEF sessionVars, slotVars, Actors
  <2> QED BY <2>2, <2>3
<1>17. ASSUME NEW t \in Threads, create_locked(t) PROVE Types'
  BY <1>17 DEF create_locked, sessionVars, poolVars, slotVars, Actors
<1>18. ASSUME NEW t \in Threads, load(t) PROVE Types'
  <2>1. EnginesOf(Pooled \cap {KeyOf[who[t]]}) \in Seq(Engines)
    BY EnginesOfIs
  <2>2. entries' \in [Keys -> Records \cup {NoEntry}]
    BY <1>18, DroppedIs DEF load
  <2>3. UNCHANGED todo \/ todo' = [todo EXCEPT ![t] = EnginesOf(Pooled \cap {KeyOf[who[t]]})]
    BY <1>18 DEF load
  <2>4. snapshots' = [snapshots EXCEPT ![t] = @ \ {who[t]}] /\ who' = [who EXCEPT ![t] = None]
    BY <1>18 DEF load
  <2>5. \E p \in Places : pc' = [pc EXCEPT ![t] = p]
    BY <1>18 DEF load, Onward
  <2>6. UNCHANGED <<sessionVars, pool_lock, slotVars, extras, nested>>
    BY <1>18 DEF load
  <2>7. todo' \in [Actors -> Seq(Engines)] /\ pc' \in [Actors -> Places]
    <3> HIDE DEF Places
    <3> QED BY <2>1, <2>3, <2>5
  <2>8. /\ who' \in [Actors -> Sessions \cup {None}]
        /\ snapshots' \in [Threads -> SUBSET Sessions]
    BY <2>4
  <2> QED BY <2>2, <2>6, <2>7, <2>8 DEF sessionVars, slotVars
<1>19. ASSUME NEW t \in Threads, pass_over(t) PROVE Types'
  BY <1>19 DEF pass_over, sessionVars, poolVars, slotVars, Actors, Onward
<1>20. ASSUME NEW t \in Threads, close_extras(t) PROVE Types'
  <2>1. <<>> \in Seq(Engines)
    OBVIOUS
  <2> QED BY <1>20, <2>1 DEF close_extras, sessionVars, poolVars, slotVars, Actors
<1>21. ASSUME NEW t \in Threads, let_go(t) PROVE Types'
  BY <1>21 DEF let_go, sessionVars, slotVars, Actors, Onward, Unlocked
<1>22. ASSUME NEW g \in Collectors, discard_collected(g) PROVE Types'
  <2>1. PICK s \in callbacks :
          /\ callbacks' = callbacks \ {s}
          /\ nested' = [nested EXCEPT ![g] = pool_lock]
          /\ LET gone == IF IsTheirs(s) THEN {KeyOf[s]} ELSE {}
             IN  entries' = Dropped(gone) /\ todo' = [todo EXCEPT ![g] = EnginesOf(gone)]
    BY <1>22 DEF discard_collected
  <2> DEFINE gone == IF IsTheirs(s) THEN {KeyOf[s]} ELSE {}
  <2>2. gone \subseteq Pooled
    BY EntryIs DEF IsTheirs, Keys
  <2>3. EnginesOf(gone) \in Seq(Engines)
    BY <2>2, EnginesOfIs
  <2>4. entries' \in [Keys -> Records \cup {NoEntry}]
    BY <2>1, DroppedIs
  <2> QED BY <1>22, <2>1, <2>3, <2>4 DEF discard_collected, slotVars, Actors
<1>23. ASSUME NEW g \in Collectors, discarded(g) PROVE Types'
  BY <1>23 DEF discarded, sessionVars, poolVars, slotVars, Actors
<1> QED BY <1>1, <1>2, <1>3, <1>4, <1>5, <1>6, <1>7, <1>8, <1>9, <1>10, <1>11, <1>12, <1>13,
           <1>14, <1>15, <1>16, <1>17, <1>18, <1>19, <1>20, <1>21, <1>22, <1>23
        DEF Next, ThreadStep, CollectorStep, Actors

----------------------------------------------------------------------------
(* What the steps do to engines and their owners *)

Keeps == UNCHANGED <<entries, todo, extras, engine>>

\* a takes the engines of the entries K out of the pool, to close them.
Drops(a, K) ==
    /\ K \subseteq Pooled /\ todo[a] = <<>>
    /\ Pooled' = Pooled \ K /\ \A k \in Pooled' : entries'[k] = entries[k]
    /\ \E q \in Seq(Engines) :
        /\ IsInjective(q) /\ ToSet(q) = {entries[k].engine : k \in K}
        /\ Len(q) <= Cardinality(Pooled)
        /\ todo' = [todo EXCEPT ![a] = q]
    /\ UNCHANGED <<extras, engine>>

\* t starts an engine, ...
Begins(t) ==
    /\ todo[t] = <<>>
    /\ \E e \in Engines :
        /\ engine[e] = "none"
        /\ engine' = [engine EXCEPT ![e] = "starting"]
        /\ todo' = [todo EXCEPT ![t] = <<e>>]
    /\ UNCHANGED <<entries, extras>>

\* ... which becomes its session's, ...
Joins(t) ==
    /\ who[t] \in Sessions /\ KeyOf[who[t]] \in Keys \ Pooled
    /\ \E e \in Engines :
        /\ todo[t] = <<e>> /\ engine[e] = "starting"
        /\ entries' = [entries EXCEPT ![KeyOf[who[t]]] = [session |-> who[t], engine |-> e]]
        /\ engine' = [engine EXCEPT ![e] = "up"]
        /\ todo' = [todo EXCEPT ![t] = <<>>]
    /\ UNCHANGED extras

\* ... or an extra one.
Extends(t) ==
    /\ \E e \in Engines :
        /\ todo[t] = <<e>> /\ engine[e] = "starting"
        /\ extras' = [extras EXCEPT ![t] = Append(@, e)]
        /\ engine' = [engine EXCEPT ![e] = "up"]
        /\ todo' = [todo EXCEPT ![t] = <<>>]
    /\ UNCHANGED entries

\* An engine dies, or is closed but for its slot.
Changes ==
    /\ \E e \in Engines, v \in {"dead", "uncounted"} :
        /\ engine[e] # "none" /\ engine' = [engine EXCEPT ![e] = v]
        /\ v = "dead" \/ \E a \in Actors : e \in ToSet(todo[a])
        /\ engine[e] = "starting" => \E t \in Threads : pc[t] = "starting" /\ pc'[t] # "starting"
                                                         /\ todo[t] = <<e>>
    /\ UNCHANGED <<entries, todo, extras>>

\* The first engine on a's list is closed; a goes on with the rest, or gives up.
Releases(a) ==
    /\ todo[a] # <<>> /\ engine[Head(todo[a])] = "uncounted"
    /\ engine' = [engine EXCEPT ![Head(todo[a])] = "none"]
    /\ \/ todo' = [todo EXCEPT ![a] = Tail(@)]
       \/ a \in Threads /\ TRUE \in CloseRaises /\ todo' = [todo EXCEPT ![a] = <<>>]
    /\ UNCHANGED <<entries, extras>>

Cleans(t) ==
    /\ todo[t] = <<>>
    /\ todo' = [todo EXCEPT ![t] = extras[t]] /\ extras' = [extras EXCEPT ![t] = <<>>]
    /\ UNCHANGED <<entries, engine>>

Abandons(t) ==
    /\ pc[t] = "OSError" /\ "OSError" \in Errors
    /\ extras' = [extras EXCEPT ![t] = <<>>] /\ UNCHANGED <<entries, engine, todo>>

\* What the step of a thread or callback does.
Does(a) ==
    \/ Keeps \/ (\E K : Drops(a, K)) \/ Changes \/ Releases(a)
    \/ a \in Threads /\ (Begins(a) \/ Joins(a) \/ Extends(a) \/ Cleans(a) \/ Abandons(a))

LEMMA GetDrops ==
    ASSUME Types, PlaceInv, NEW t \in Threads, get(t) PROVE Drops(t, Stale)
<1>1. todo[t] = <<>>
  BY PoolTyped DEF get, PlaceInv, Placed
<1>2. /\ EnginesOf(Stale) \in Seq(Engines) /\ IsInjective(EnginesOf(Stale))
      /\ ToSet(EnginesOf(Stale)) = {entries[k].engine : k \in Stale}
      /\ Len(EnginesOf(Stale)) <= Cardinality(Pooled)
  BY EnginesOfIs DEF Stale, Types
<1>3. /\ Pooled' = Pooled \ Stale /\ \A k \in Pooled' : entries'[k] = entries[k]
  BY DroppedIs DEF Types, get
<1>4. /\ todo' = [todo EXCEPT ![t] = EnginesOf(Stale)] /\ UNCHANGED <<extras, engine>>
  BY DEF get, slotVars
<1> QED BY <1>1, <1>2, <1>3, <1>4 DEF Drops, Stale

LEMMA PreserveDrops ==
    ASSUME Types, PlaceInv, NEW t \in Threads, preserve_sessions(t) PROVE Drops(t, Pooled)
<1>1. todo[t] = <<>>
  BY PoolTyped DEF preserve_sessions, PlaceInv, Placed
<1>2. /\ EnginesOf(Pooled) \in Seq(Engines) /\ IsInjective(EnginesOf(Pooled))
      /\ ToSet(EnginesOf(Pooled)) = {entries[k].engine : k \in Pooled}
      /\ Len(EnginesOf(Pooled)) <= Cardinality(Pooled)
  BY EnginesOfIs DEF Types
<1>3. /\ Pooled' = Pooled \ Pooled /\ \A k \in Pooled' : entries'[k] = entries[k]
  BY DroppedIs DEF Types, preserve_sessions
<1>4. /\ todo' = [todo EXCEPT ![t] = EnginesOf(Pooled)] /\ UNCHANGED <<extras, engine>>
  BY DEF preserve_sessions, slotVars
<1> QED BY <1>1, <1>2, <1>3, <1>4 DEF Drops

\* look_up returns the session's engine, or drops what is filed under its id.
LEMMA LookUpDrops ==
    ASSUME Types, PlaceInv, NEW t \in Threads, look_up(t)
    PROVE  \/ /\ entries[KeyOf[who[t]]].session = who[t]
              /\ engine[entries[KeyOf[who[t]]].engine] = "up"
              /\ Returns(t) /\ UNCHANGED <<entries, todo, extras, engine>>
           \/ /\ ~(/\ entries[KeyOf[who[t]]].session = who[t]
                   /\ engine[entries[KeyOf[who[t]]].engine] = "up")
              /\ Drops(t, Pooled \cap {KeyOf[who[t]]})
              /\ entries' = Dropped({KeyOf[who[t]]})
              /\ pc' = [pc EXCEPT ![t] = "replacing"] /\ UNCHANGED <<pool_lock, who>>
<1> DEFINE k == KeyOf[who[t]]
           e == entries[k]
           usable == e.session = who[t] /\ engine[e.engine] = "up"
           K == Pooled \cap {k}
<1>1. who[t] \in Sessions /\ k \in Keys
  <2>1. who[t] \in Sessions
    BY DEF look_up, PlaceInv, Placed
  <2> QED BY <2>1 DEF Keys
<1>2. CASE usable
  BY <1>2 DEF look_up, slotVars
<1>3. CASE ~usable
  <2>1. /\ entries' = Dropped({k}) /\ todo[t] = <<>>
        /\ todo' = [todo EXCEPT ![t] = IF e = NoEntry THEN <<>> ELSE <<e.engine>>]
        /\ pc' = [pc EXCEPT ![t] = "replacing"] /\ UNCHANGED <<pool_lock, who>>
        /\ UNCHANGED <<extras, engine>>
    BY <1>3 DEF look_up, slotVars
  <2>2. Pooled' = Pooled \ K /\ \A l \in Pooled' : entries'[l] = entries[l]
    <3>1. Pooled' = Pooled \ {k} /\ \A l \in Pooled' : entries'[l] = entries[l]
      BY <2>1, DroppedIs DEF Types
    <3> QED BY <3>1
  <2> DEFINE q == IF e = NoEntry THEN <<>> ELSE <<e.engine>>
  <2>3. q \in Seq(Engines) /\ IsInjective(q) /\ ToSet(q) = {entries[l].engine : l \in K}
        /\ Len(q) <= Cardinality(Pooled)
    <3>0. IsFiniteSet(Pooled) /\ Cardinality(Pooled) \in Nat
      BY KeysFinite, FS_Subset, FS_CardinalityType DEF Pooled
    <3>1. CASE e = NoEntry
      <4>1. q = <<>> /\ K = {}
        BY <3>1 DEF Pooled
      <4> HIDE DEF q, K
      <4> QED BY <4>1, <3>0, EmptyList
    <3>2. CASE e # NoEntry
      <4>1. k \in Pooled /\ K = {k} /\ e.engine \in Engines /\ q = <<e.engine>>
        BY <1>1, <3>2, EntryIs DEF Pooled, Types
      <4>2. Cardinality(Pooled) >= 1
        BY <3>0, <4>1, FS_EmptySet
      <4>3. {entries[l].engine : l \in K} = {e.engine}
        BY <4>1
      <4> HIDE DEF q, K, e
      <4> QED BY <4>1, <4>2, <4>3, <3>0, SingleList
    <3> QED BY <3>1, <3>2
  <2>4. Drops(t, K)
    <3> HIDE DEF q
    <3>1. todo' = [todo EXCEPT ![t] = q]
      BY <2>1 DEF q
    <3> QED BY <2>1, <2>2, <2>3, <3>1 DEF Drops
  <2> QED BY <1>3, <2>1, <2>4
<1> QED BY <1>2, <1>3

LEMMA LoadDrops ==
    ASSUME Types, PlaceInv, NEW t \in Threads, load(t)
    PROVE  \/ UNCHANGED <<entries, todo, extras, engine>>
           \/ /\ Drops(t, Pooled \cap {KeyOf[who[t]]}) /\ entries' = Dropped({KeyOf[who[t]]})
              /\ pc' = [pc EXCEPT ![t] = "unloading"] /\ pool_lock = None
<1> DEFINE k == KeyOf[who[t]]
           K == Pooled \cap {k}
<1>1. todo[t] = <<>>
  BY PoolTyped DEF load, PlaceInv, Placed
<1>2. UNCHANGED <<extras, engine>>
  BY DEF load, slotVars
<1>3. UNCHANGED <<entries, todo>> \/
      /\ entries' = Dropped({k}) /\ todo' = [todo EXCEPT ![t] = EnginesOf(K)]
      /\ pc' = [pc EXCEPT ![t] = "unloading"] /\ pool_lock = None
  BY DEF load
<1>4. /\ EnginesOf(K) \in Seq(Engines) /\ IsInjective(EnginesOf(K))
      /\ ToSet(EnginesOf(K)) = {entries[l].engine : l \in K}
      /\ Len(EnginesOf(K)) <= Cardinality(Pooled)
  BY EnginesOfIs DEF Types
<1>5. ASSUME entries' = Dropped({k})
      PROVE  Pooled' = Pooled \ K /\ \A l \in Pooled' : entries'[l] = entries[l]
  <2>1. Pooled' = Pooled \ {k} /\ \A l \in Pooled' : entries'[l] = entries[l]
    BY <1>5, DroppedIs DEF Types
  <2> QED BY <2>1
<1> HIDE DEF K
<1>6. K \subseteq Pooled
  BY DEF K
<1> QED BY <1>1, <1>2, <1>3, <1>4, <1>5, <1>6 DEF Drops, K

\* A callback drops the entry of its own session, or nothing.
LEMMA DiscardDrops ==
    ASSUME Types, PlaceInv, NEW g \in Collectors, discard_collected(g)
    PROVE  \E s \in callbacks : \E K \in {{}, {KeyOf[s]}} :
             /\ callbacks' = callbacks \ {s} /\ Drops(g, K) /\ entries' = Dropped(K)
             /\ \A k \in K : entries[k].session = s
             /\ s \in Sessions /\ entries[KeyOf[s]].session = s => K = {KeyOf[s]}
<1>1. PICK s \in callbacks :
        /\ callbacks' = callbacks \ {s}
        /\ LET gone == IF IsTheirs(s) THEN {KeyOf[s]} ELSE {}
           IN  entries' = Dropped(gone) /\ todo' = [todo EXCEPT ![g] = EnginesOf(gone)]
  BY DEF discard_collected
<1> DEFINE K == IF IsTheirs(s) THEN {KeyOf[s]} ELSE {}
<1>2. K \subseteq Pooled /\ (\A k \in K : entries[k].session = s) /\ s \in Sessions
  BY EntryIs DEF IsTheirs, Keys, Types
<1>3. entries[KeyOf[s]].session = s => K = {KeyOf[s]}
  BY DEF IsTheirs
<1>4. K \in {{}, {KeyOf[s]}}
  OBVIOUS
<1>5. entries' = Dropped(K) /\ todo' = [todo EXCEPT ![g] = EnginesOf(K)]
  BY <1>1
<1> HIDE DEF K
<1>6. todo[g] = <<>> /\ UNCHANGED <<extras, engine>>
  BY DEF discard_collected, PlaceInv, slotVars
<1>7. /\ EnginesOf(K) \in Seq(Engines) /\ IsInjective(EnginesOf(K))
      /\ ToSet(EnginesOf(K)) = {entries[l].engine : l \in K}
      /\ Len(EnginesOf(K)) <= Cardinality(Pooled)
  BY <1>2, EnginesOfIs DEF Types
<1>8. Pooled' = Pooled \ K /\ \A l \in Pooled' : entries'[l] = entries[l]
  BY <1>5, DroppedIs DEF Types
<1>9. Drops(g, K)
  BY <1>2, <1>5, <1>6, <1>7, <1>8 DEF Drops
<1> QED BY <1>1, <1>2, <1>3, <1>4, <1>5, <1>9

\* Every step is one of these, of one thread or callback (or nobody's: a session
\* or an engine that goes).
LEMMA StepDoes ==
    ASSUME Types, PlaceInv, OwnInv, HeldInv, SlotsExact, [Next]_vars
    PROVE  Keeps \/ Changes \/ \E a \in Actors : Does(a)
<1>1. CASE UNCHANGED vars
  BY <1>1 DEF vars, poolVars, slotVars, threadVars, Keeps
<1>2. ASSUME NEW s \in Sessions, connect(s) \/ collect(s) PROVE Keeps
  BY <1>2 DEF connect, collect, poolVars, slotVars, threadVars, Keeps
<1>3. ASSUME NEW e \in Engines, engine_dies(e) PROVE Changes
  BY <1>3 DEF engine_dies, poolVars, threadVars, Changes
<1>4. ASSUME NEW t \in Threads, get(t) PROVE Does(t)
  BY <1>4, GetDrops DEF Does
<1>5. ASSUME NEW t \in Threads, preserve_sessions(t) PROVE Does(t)
  BY <1>5, PreserveDrops DEF Does
<1>6. ASSUME NEW t \in Threads,
             \/ run_levers(t) \/ acquire_slot(t) \/ refuse_slot(t) \/ create_locked(t)
             \/ pass_over(t) \/ let_go(t)
      PROVE  Keeps
  BY <1>6 DEF run_levers, acquire_slot, refuse_slot, create_locked, pass_over, let_go,
     poolVars, slotVars, Keeps
<1>7. ASSUME NEW t \in Threads, count_slot(t) PROVE Does(t)
  <2> DEFINE e == CHOOSE e \in Engines : engine[e] = "none"
  <2>1. e \in Engines /\ engine[e] = "none"
    BY <1>7, FreshEngine DEF count_slot
  <2>2. todo[t] = <<>>
    BY <1>7, PoolTyped DEF count_slot, PlaceInv, Placed
  <2> HIDE DEF e
  <2>3. /\ engine' = [engine EXCEPT ![e] = "starting"] /\ todo' = [todo EXCEPT ![t] = <<e>>]
        /\ UNCHANGED <<entries, extras>>
    BY <1>7 DEF count_slot, e, poolVars
  <2> QED BY <2>1, <2>2, <2>3 DEF Does, Begins
<1>8. ASSUME NEW t \in Threads, start_engine(t) PROVE Does(t)
  <2> DEFINE e == Head(todo[t])
  <2>1. e \in Engines /\ todo[t] = <<e>> /\ engine[e] = "starting"
    BY <1>8, StartingHolds DEF start_engine
  <2> HIDE DEF e
  <2>2. engine' = [engine EXCEPT ![e] = "up"] /\ todo' = [todo EXCEPT ![t] = <<>>]
    BY <1>8 DEF start_engine, e
  <2>3. CASE pool_lock = t
    <3>1. who[t] \in Sessions /\ entries[KeyOf[who[t]]] = NoEntry
      BY <1>8, <2>3 DEF start_engine, PlaceInv, Placed
    <3>2. KeyOf[who[t]] \in Keys \ Pooled
      BY <3>1 DEF Keys, Pooled
    <3>3. /\ entries' = [entries EXCEPT ![KeyOf[who[t]]] = [session |-> who[t], engine |-> e]]
          /\ UNCHANGED extras
      BY <1>8, <2>3 DEF start_engine, e
    <3> QED BY <2>1, <2>2, <3>1, <3>2, <3>3 DEF Does, Joins
  <2>4. CASE pool_lock # t
    <3>1. extras' = [extras EXCEPT ![t] = Append(@, e)] /\ UNCHANGED entries
      BY <1>8, <2>4 DEF start_engine, e, poolVars
    <3> QED BY <2>1, <2>2, <3>1 DEF Does, Extends
  <2> QED BY <2>3, <2>4
<1>9. ASSUME NEW t \in Threads, start_fails(t) PROVE Changes
  <2> DEFINE e == Head(todo[t])
  <2>1. e \in Engines /\ todo[t] = <<e>> /\ engine[e] = "starting"
    BY <1>9, StartingHolds DEF start_fails
  <2> HIDE DEF e
  <2>2. engine' = [engine EXCEPT ![e] = "dead"] /\ UNCHANGED <<entries, todo, extras>>
    BY <1>9 DEF start_fails, e, poolVars
  <2>3. pc[t] = "starting" /\ pc'[t] # "starting"
    BY <1>9, PoolTyped DEF start_fails, Types, Actors
  <2> QED BY <2>1, <2>2, <2>3 DEF Changes
<1>10. ASSUME NEW t \in Threads, start_failed(t) PROVE Does(t)
  BY <1>10, PoolTyped DEF start_failed, slotVars, Does, Keeps, Abandons
<1>11. ASSUME NEW a \in Actors, close(a) PROVE Does(a)
  <2> DEFINE e == Head(todo[a])
  <2>1. e \in Engines /\ e \in ToSet(todo[a]) /\ engine[e] \in {"up", "dead"}
    BY <1>11, HeadOfList DEF close, Closing, Types
  <2>2. active > 0
    <3>1. e \in Counted
      BY <2>1 DEF Counted
    <3> QED BY <3>1, SlotsAre, SlotsFinite, FS_EmptySet
  <2> HIDE DEF e
  <2>3. engine' = [engine EXCEPT ![e] = "uncounted"] /\ UNCHANGED <<entries, todo, extras>>
    BY <1>11, <2>2 DEF close, e, poolVars, Types
  <2> QED BY <2>1, <2>3 DEF Does, Changes
<1>12. ASSUME NEW a \in Actors, release_slot(a) PROVE Does(a)
  BY <1>12 DEF release_slot, Closing, poolVars, Does, Releases
<1>13. ASSUME NEW t \in Threads, close_raises(t) PROVE Does(t)
  BY <1>13 DEF close_raises, Closing, Does, Releases
<1>14. ASSUME NEW t \in Threads, look_up(t) PROVE Does(t)
  BY <1>14, LookUpDrops DEF Does, Keeps
<1>15. ASSUME NEW t \in Threads, load(t) PROVE Does(t)
  BY <1>15, LoadDrops DEF Does, Keeps
<1>16. ASSUME NEW t \in Threads, close_extras(t) PROVE Does(t)
  <2>1. todo[t] = <<>>
    BY <1>16, PoolTyped DEF close_extras, PlaceInv, Placed
  <2> QED BY <1>16, <2>1 DEF close_extras, poolVars, slotVars, Does, Cleans
<1>17. ASSUME NEW g \in Collectors, discard_collected(g) PROVE Does(g)
  BY <1>17, DiscardDrops DEF Does
<1>18. ASSUME NEW g \in Collectors, discarded(g) PROVE Keeps
  BY <1>18 DEF discarded, poolVars, slotVars, Keeps
<1> QED BY <1>1, <1>2, <1>3, <1>4, <1>5, <1>6, <1>7, <1>8, <1>9, <1>10, <1>11, <1>12, <1>13,
           <1>14, <1>15, <1>16, <1>17, <1>18
        DEF Next, ThreadStep, CollectorStep, Actors

----------------------------------------------------------------------------
(* Owners *)

LEMMA HandTyped ==
    ASSUME Types, NEW a \in Actors PROVE Hand(a) \subseteq Engines
<1>1. todo[a] \in Seq(Engines) /\ (a \in Threads => extras[a] \in Seq(Engines))
  BY DEF Types
<1>2. \A q \in Seq(Engines) : ToSet(q) \subseteq Engines
  BY DEF ToSet
<1> QED BY <1>1, <1>2 DEF Hand

\* Who does not act keeps what is in hand.
LEMMA HandKept ==
    ASSUME Types, NEW a \in Actors,
           \/ UNCHANGED todo \/ \E q : todo' = [todo EXCEPT ![a] = q],
           \/ UNCHANGED extras \/ (a \in Threads /\ \E x : extras' = [extras EXCEPT ![a] = x]),
           NEW b \in Actors \ {a}
    PROVE  todo'[b] = todo[b] /\ (b \in Threads => extras'[b] = extras[b]) /\ Hand(b)' = Hand(b)
<1>1. todo'[b] = todo[b] /\ (b \in Threads => extras'[b] = extras[b])
  BY DEF Types
<1> QED BY <1>1 DEF Hand

\* If a takes over only what it has, what is in the pool or what is nobody's, and
\* gives to the pool only what it has, no engine gets a second owner.
LEMMA OwnKept ==
    ASSUME OwnInv, HeldInv, NEW a \in Actors,
           \A b \in Actors \ {a} : Hand(b)' = Hand(b),
           \A e \in Hand(a)' : \/ e \in Hand(a) \/ engine[e] = "none"
                               \/ \E k \in Pooled : e = entries[k].engine,
           \A k \in Pooled' : \/ k \in Pooled /\ entries'[k] = entries[k]
                              \/ entries'[k].engine \in Hand(a),
           \A k \in Pooled' : entries'[k].engine \notin Hand(a)'
    PROVE  /\ \A b, c \in Actors : b # c => Hand(b)' \cap Hand(c)' = {}
           /\ \A b \in Actors, k \in Pooled' : entries'[k].engine \notin Hand(b)'
<1>1. \A b \in Actors \ {a} : Hand(a)' \cap Hand(b) = {}
  <2> SUFFICES ASSUME NEW b \in Actors \ {a}, NEW e \in Hand(a)', e \in Hand(b)
               PROVE  FALSE
    OBVIOUS
  <2> QED BY DEF OwnInv, HeldInv
<1>2. \A b, c \in Actors : b # c => Hand(b)' \cap Hand(c)' = {}
  <2> SUFFICES ASSUME NEW b \in Actors, NEW c \in Actors, b # c PROVE Hand(b)' \cap Hand(c)' = {}
    OBVIOUS
  <2>1. CASE b = a
    BY <1>1, <2>1
  <2>2. CASE c = a
    BY <1>1, <2>2
  <2>3. CASE b # a /\ c # a
    BY <2>3 DEF OwnInv
  <2> QED BY <2>1, <2>2, <2>3
<1>3. \A b \in Actors, k \in Pooled' : entries'[k].engine \notin Hand(b)'
  BY DEF OwnInv
<1> QED BY <1>2, <1>3

LEMMA DropsKeeps ==
    ASSUME Types, PlaceInv, OwnInv, HeldInv, NEW a \in Actors, NEW K, Drops(a, K)
    PROVE  OwnInv' /\ HeldInv'
<1>1. PICK q \in Seq(Engines) :
        /\ IsInjective(q) /\ ToSet(q) = {entries[k].engine : k \in K}
        /\ todo' = [todo EXCEPT ![a] = q]
  BY DEF Drops
<1>2. /\ K \subseteq Pooled /\ todo[a] = <<>> /\ UNCHANGED <<extras, engine>>
      /\ Pooled' = Pooled \ K /\ \A k \in Pooled' : entries'[k] = entries[k]
  BY DEF Drops
<1>3. todo'[a] = q /\ \A b \in Actors \ {a} : todo'[b] = todo[b]
  BY <1>1 DEF Types
<1>4. \A b \in Actors \ {a} : Hand(b)' = Hand(b)
  BY <1>1, <1>2, HandKept
<1>5. Hand(a)' = Hand(a) \cup {entries[k].engine : k \in K}
  BY <1>1, <1>2, <1>3, EmptyList DEF Hand
<1>6. \A k \in Pooled' : entries'[k].engine \notin Hand(a)'
  BY <1>2, <1>5 DEF OwnInv
<1>7. /\ \A b, c \in Actors : b # c => Hand(b)' \cap Hand(c)' = {}
      /\ \A b \in Actors, k \in Pooled' : entries'[k].engine \notin Hand(b)'
  BY <1>2, <1>4, <1>5, <1>6, OwnKept
<1>8. \A b \in Actors : IsInjective(todo'[b])
  BY <1>1, <1>3 DEF OwnInv
<1>9. \A t \in Threads : IsInjective(extras'[t]) /\ ToSet(todo'[t]) \cap ToSet(extras'[t]) = {}
  <2> SUFFICES ASSUME NEW t \in Threads
               PROVE  IsInjective(extras[t]) /\ ToSet(todo'[t]) \cap ToSet(extras[t]) = {}
    BY <1>2
  <2>1. CASE t = a
    BY <1>1, <1>2, <1>3, <2>1 DEF OwnInv, Hand
  <2>2. CASE t # a
    BY <1>3, <2>2 DEF OwnInv, Actors
  <2> QED BY <2>1, <2>2
<1>10. \A k, l \in Pooled' : k # l => entries'[k].engine # entries'[l].engine
  BY <1>2 DEF OwnInv
<1>11. HeldInv'
  BY <1>2, <1>4, <1>5 DEF HeldInv
<1> QED BY <1>7, <1>8, <1>9, <1>10, <1>11 DEF OwnInv

LEMMA BeginsKeeps ==
    ASSUME Types, OwnInv, HeldInv, NEW a \in Threads, Begins(a)
    PROVE  OwnInv' /\ HeldInv'
<1>1. PICK e \in Engines :
        /\ engine[e] = "none" /\ engine' = [engine EXCEPT ![e] = "starting"]
        /\ todo' = [todo EXCEPT ![a] = <<e>>]
  BY DEF Begins
<1>2. a \in Actors /\ todo[a] = <<>> /\ UNCHANGED <<entries, extras>> /\ Pooled' = Pooled
  BY DEF Begins, Actors, Pooled
<1>3. todo'[a] = <<e>> /\ \A b \in Actors \ {a} : todo'[b] = todo[b]
  BY <1>1, <1>2 DEF Types
<1>4. \A b \in Actors \ {a} : Hand(b)' = Hand(b)
  BY <1>1, <1>2, HandKept
<1>5. Hand(a)' = Hand(a) \cup {e}
  BY <1>2, <1>3, EmptyList, SingleList DEF Hand
<1>6. engine'[e] = "starting" /\ \A d \in Engines \ {e} : engine'[d] = engine[d]
  BY <1>1 DEF Types
<1>7. \A k \in Pooled : entries[k].engine # e
  BY <1>1 DEF HeldInv
<1>8. \A k \in Pooled' : entries'[k].engine \notin Hand(a)'
  BY <1>2, <1>5, <1>7 DEF OwnInv
<1>9. /\ \A b, c \in Actors : b # c => Hand(b)' \cap Hand(c)' = {}
      /\ \A b \in Actors, k \in Pooled' : entries'[k].engine \notin Hand(b)'
  BY <1>1, <1>2, <1>4, <1>5, <1>8, OwnKept
<1>10. \A b \in Actors : IsInjective(todo'[b])
  BY <1>3, SingleList DEF OwnInv
<1>11. \A t \in Threads : IsInjective(extras'[t]) /\ ToSet(todo'[t]) \cap ToSet(extras'[t]) = {}
  <2> SUFFICES ASSUME NEW t \in Threads
               PROVE  IsInjective(extras[t]) /\ ToSet(todo'[t]) \cap ToSet(extras[t]) = {}
    BY <1>2
  <2>1. e \notin Hand(a)
    BY <1>1, <1>2 DEF HeldInv
  <2>2. CASE t = a
    <3>1. e \notin ToSet(extras[a]) /\ IsInjective(extras[a])
      BY <2>1 DEF OwnInv, Hand
    <3>2. ToSet(todo'[a]) = {e}
      BY <1>3, SingleList
    <3> QED BY <2>2, <3>1, <3>2
  <2>3. CASE t # a
    BY <1>3, <2>3 DEF OwnInv, Actors
  <2> QED BY <2>2, <2>3
<1>12. HeldInv'
  <2>1. \A b \in Actors : \A d \in Hand(b)' : engine'[d] # "none"
    <3>1. \A b \in Actors : Hand(b)' \subseteq Engines
      BY HandTyped, <1>4, <1>5
    <3> QED BY <1>4, <1>5, <1>6, <3>1 DEF HeldInv
  <2>2. \A k \in Pooled : entries[k].engine \in Engines
    BY EntryIs DEF Pooled, Types
  <2>3. \A k \in Pooled' : engine'[entries'[k].engine] \in {"up", "dead"}
    BY <1>2, <1>6, <1>7, <2>2 DEF HeldInv
  <2> QED BY <2>1, <2>3 DEF HeldInv
<1> QED BY <1>2, <1>9, <1>10, <1>11, <1>12 DEF OwnInv

\* The engine in a's hand goes to the pool, or to a's extras.
LEMMA JoinsKeeps ==
    ASSUME Types, OwnInv, HeldInv, NEW a \in Threads, Joins(a)
    PROVE  OwnInv' /\ HeldInv'
<1> DEFINE k == KeyOf[who[a]]
<1>1. PICK e \in Engines :
        /\ todo[a] = <<e>>
        /\ entries' = [entries EXCEPT ![k] = [session |-> who[a], engine |-> e]]
        /\ engine' = [engine EXCEPT ![e] = "up"] /\ todo' = [todo EXCEPT ![a] = <<>>]
  BY DEF Joins
<1>2. a \in Actors /\ who[a] \in Sessions /\ k \in Keys \ Pooled /\ UNCHANGED extras
  BY DEF Joins, Actors
<1> HIDE DEF k
<1>3. todo'[a] = <<>> /\ \A b \in Actors \ {a} : todo'[b] = todo[b]
  BY <1>1, <1>2 DEF Types
<1>4. \A b \in Actors \ {a} : Hand(b)' = Hand(b)
  BY <1>1, <1>2, HandKept
<1>5. e \in Hand(a) /\ e \notin ToSet(extras[a])
  BY <1>1, <1>2, SingleList DEF Hand, OwnInv
<1>6. Hand(a)' = Hand(a) \ {e}
  BY <1>1, <1>2, <1>3, <1>5, EmptyList, SingleList DEF Hand
<1>7. engine'[e] = "up" /\ \A d \in Engines \ {e} : engine'[d] = engine[d]
  BY <1>1 DEF Types
<1>8. entries'[k].engine = e /\ entries'[k] # NoEntry /\ \A l \in Keys \ {k} : entries'[l] = entries[l]
  BY <1>1, <1>2, PoolNames DEF Types, NoEntry
<1>9. Pooled' = Pooled \cup {k}
  BY <1>2, <1>8 DEF Pooled
<1>10. \A l \in Pooled : entries[l].engine # e /\ entries[l].engine \in Engines
  BY <1>2, <1>5, EntryIs DEF OwnInv, Pooled, Types
<1>11. \A l \in Pooled' : entries'[l].engine \notin Hand(a)'
  BY <1>2, <1>6, <1>8, <1>9 DEF OwnInv, Pooled
<1>12. /\ \A b, c \in Actors : b # c => Hand(b)' \cap Hand(c)' = {}
       /\ \A b \in Actors, l \in Pooled' : entries'[l].engine \notin Hand(b)'
  BY <1>2, <1>4, <1>5, <1>6, <1>8, <1>9, <1>11, OwnKept DEF Pooled
<1>13. \A b \in Actors : IsInjective(todo'[b])
  BY <1>3, EmptyList DEF OwnInv
<1>14. \A t \in Threads : IsInjective(extras'[t]) /\ ToSet(todo'[t]) \cap ToSet(extras'[t]) = {}
  BY <1>2, <1>3, EmptyList DEF OwnInv, Actors
<1>15. \A l, m \in Pooled' : l # m => entries'[l].engine # entries'[m].engine
  BY <1>2, <1>8, <1>9, <1>10 DEF OwnInv, Pooled
<1>16. HeldInv'
  <2>1. \A b \in Actors : \A d \in Hand(b)' : engine'[d] # "none"
    <3>1. \A b \in Actors : Hand(b)' \subseteq Engines
      BY HandTyped, <1>4, <1>6
    <3> QED BY <1>4, <1>6, <1>7, <3>1 DEF HeldInv
  <2>2. \A l \in Pooled' : engine'[entries'[l].engine] \in {"up", "dead"}
    BY <1>2, <1>7, <1>8, <1>9, <1>10 DEF HeldInv, Pooled
  <2> QED BY <2>1, <2>2 DEF HeldInv
<1> QED BY <1>12, <1>13, <1>14, <1>15, <1>16 DEF OwnInv

LEMMA ExtendsKeeps ==
    ASSUME Types, OwnInv, HeldInv, NEW a \in Threads, Extends(a)
    PROVE  OwnInv' /\ HeldInv'
<1>1. PICK e \in Engines :
        /\ todo[a] = <<e>> /\ engine[e] = "starting"
        /\ extras' = [extras EXCEPT ![a] = Append(@, e)]
        /\ engine' = [engine EXCEPT ![e] = "up"] /\ todo' = [todo EXCEPT ![a] = <<>>]
  BY DEF Extends
<1>2. a \in Actors /\ UNCHANGED entries /\ Pooled' = Pooled
  BY DEF Extends, Actors, Pooled
<1>3. /\ todo'[a] = <<>> /\ \A b \in Actors \ {a} : todo'[b] = todo[b]
      /\ extras'[a] = Append(extras[a], e) /\ \A t \in Threads \ {a} : extras'[t] = extras[t]
  BY <1>1, <1>2 DEF Types
<1>4. \A b \in Actors \ {a} : Hand(b)' = Hand(b)
  BY <1>1, <1>2, HandKept
<1>5. e \in Hand(a) /\ e \notin ToSet(extras[a])
  BY <1>1, <1>2, SingleList DEF Hand, OwnInv
<1>6. /\ ToSet(extras'[a]) = ToSet(extras[a]) \cup {e} /\ IsInjective(extras'[a])
  BY <1>3, <1>5, AppendedList DEF Types, OwnInv
<1>7. Hand(a)' = Hand(a)
  BY <1>1, <1>2, <1>3, <1>6, EmptyList, SingleList DEF Hand
<1>8. engine'[e] = "up" /\ \A d \in Engines \ {e} : engine'[d] = engine[d]
  BY <1>1 DEF Types
<1>9. \A k \in Pooled' : entries'[k].engine \notin Hand(a)'
  BY <1>2, <1>7 DEF OwnInv
<1>10. /\ \A b, c \in Actors : b # c => Hand(b)' \cap Hand(c)' = {}
       /\ \A b \in Actors, k \in Pooled' : entries'[k].engine \notin Hand(b)'
  BY <1>2, <1>4, <1>7, <1>9, OwnKept
<1>11. \A b \in Actors : IsInjective(todo'[b])
  BY <1>3, EmptyList DEF OwnInv
<1>12. \A t \in Threads : IsInjective(extras'[t]) /\ ToSet(todo'[t]) \cap ToSet(extras'[t]) = {}
  BY <1>3, <1>6, EmptyList DEF OwnInv, Actors
<1>13. \A k, l \in Pooled' : k # l => entries'[k].engine # entries'[l].engine
  BY <1>2 DEF OwnInv
<1>14. HeldInv'
  <2>1. \A b \in Actors : \A d \in Hand(b) : engine'[d] # "none"
    BY <1>8, HandTyped DEF HeldInv
  <2>2. \A k \in Pooled : engine'[entries[k].engine] \in {"up", "dead"}
    BY <1>8, EntryIs DEF HeldInv, Pooled, Types
  <2> QED BY <1>2, <1>4, <1>7, <2>1, <2>2 DEF HeldInv
<1> QED BY <1>10, <1>11, <1>12, <1>13, <1>14 DEF OwnInv

LEMMA ChangesKeeps ==
    ASSUME Types, OwnInv, HeldInv, Changes
    PROVE  OwnInv' /\ HeldInv'
<1>1. PICK e \in Engines, v \in {"dead", "uncounted"} :
        /\ engine[e] # "none" /\ engine' = [engine EXCEPT ![e] = v]
        /\ v = "dead" \/ \E a \in Actors : e \in ToSet(todo[a])
  BY DEF Changes
<1>2. UNCHANGED <<entries, todo, extras>> /\ Pooled' = Pooled
  BY DEF Changes, Pooled
<1>3. \A b \in Actors : Hand(b)' = Hand(b)
  BY <1>2 DEF Hand
<1>4. OwnInv'
  BY <1>2, <1>3 DEF OwnInv
<1>5. engine'[e] = v /\ \A d \in Engines \ {e} : engine'[d] = engine[d]
  BY <1>1 DEF Types
<1>6. \A b \in Actors : \A d \in Hand(b) : engine'[d] # "none"
  BY <1>1, <1>5, HandTyped DEF HeldInv
<1>7. \A k \in Pooled : engine'[entries[k].engine] \in {"up", "dead"}
  <2> SUFFICES ASSUME NEW k \in Pooled PROVE engine'[entries[k].engine] \in {"up", "dead"}
    OBVIOUS
  <2>1. entries[k].engine \in Engines /\ engine[entries[k].engine] \in {"up", "dead"}
    BY EntryIs DEF HeldInv, Pooled, Types
  <2>2. CASE entries[k].engine = e
    <3>1. v = "dead"
      BY <1>1, <2>2 DEF OwnInv, Hand
    <3> QED BY <1>5, <2>2, <3>1
  <2> QED BY <1>5, <2>1, <2>2
<1> QED BY <1>2, <1>3, <1>4, <1>6, <1>7 DEF HeldInv

LEMMA ReleasesKeeps ==
    ASSUME Types, OwnInv, HeldInv, NEW a \in Actors, Releases(a)
    PROVE  OwnInv' /\ HeldInv'
<1> DEFINE e == Head(todo[a])
<1>1. /\ todo[a] # <<>> /\ engine' = [engine EXCEPT ![e] = "none"]
      /\ todo' = [todo EXCEPT ![a] = Tail(@)] \/ todo' = [todo EXCEPT ![a] = <<>>]
      /\ UNCHANGED <<entries, extras>> /\ Pooled' = Pooled
  BY DEF Releases, Pooled
<1>2. /\ e \in Engines /\ e \in Hand(a) /\ e \in ToSet(todo[a])
      /\ IsInjective(Tail(todo[a])) /\ ToSet(Tail(todo[a])) = ToSet(todo[a]) \ {e}
  BY <1>1, HeadHeld, HeadOfList DEF Types
<1> HIDE DEF e
<1>3. /\ IsInjective(todo'[a]) /\ ToSet(todo'[a]) \subseteq ToSet(todo[a]) \ {e}
      /\ \A b \in Actors \ {a} : todo'[b] = todo[b]
  <2>1. todo'[a] = Tail(todo[a]) \/ todo'[a] = <<>>
    BY <1>1 DEF Types
  <2> QED BY <1>1, <1>2, <2>1, EmptyList DEF Types
<1>4. \A b \in Actors \ {a} : Hand(b)' = Hand(b)
  BY <1>1, HandKept
<1>5. Hand(a)' \subseteq Hand(a) \ {e}
  BY <1>1, <1>2, <1>3 DEF Hand, OwnInv
<1>6. engine'[e] = "none" /\ \A d \in Engines \ {e} : engine'[d] = engine[d]
  BY <1>1, <1>2 DEF Types
<1>7. \A k \in Pooled' : entries'[k].engine \notin Hand(a)'
  BY <1>1, <1>5 DEF OwnInv
<1>8. /\ \A b, c \in Actors : b # c => Hand(b)' \cap Hand(c)' = {}
      /\ \A b \in Actors, k \in Pooled' : entries'[k].engine \notin Hand(b)'
  BY <1>1, <1>4, <1>5, <1>7, OwnKept
<1>9. \A b \in Actors : IsInjective(todo'[b])
  BY <1>3 DEF OwnInv
<1>10. \A t \in Threads : IsInjective(extras'[t]) /\ ToSet(todo'[t]) \cap ToSet(extras'[t]) = {}
  <2> SUFFICES ASSUME NEW t \in Threads
               PROVE  IsInjective(extras[t]) /\ ToSet(todo'[t]) \cap ToSet(extras[t]) = {}
    BY <1>1
  <2>1. ToSet(todo'[t]) \subseteq ToSet(todo[t])
    BY <1>3 DEF Actors
  <2> QED BY <2>1 DEF OwnInv
<1>11. \A k, l \in Pooled' : k # l => entries'[k].engine # entries'[l].engine
  BY <1>1 DEF OwnInv
<1>12. HeldInv'
  <2>1. \A b \in Actors : \A d \in Hand(b)' : engine'[d] # "none"
    <3> SUFFICES ASSUME NEW b \in Actors, NEW d \in Hand(b)' PROVE engine'[d] # "none"
      OBVIOUS
    <3>1. d \in Hand(b) /\ d # e
      BY <1>2, <1>4, <1>5 DEF OwnInv
    <3>2. d \in Engines /\ engine[d] # "none"
      BY <3>1, HandTyped DEF HeldInv
    <3> QED BY <1>6, <3>1, <3>2
  <2>2. \A k \in Pooled : entries[k].engine # e /\ entries[k].engine \in Engines
    BY <1>2, EntryIs DEF OwnInv, Pooled, Types
  <2>3. \A k \in Pooled' : engine'[entries'[k].engine] \in {"up", "dead"}
    BY <1>1, <1>6, <2>2 DEF HeldInv
  <2> QED BY <2>1, <2>3 DEF HeldInv
<1> QED BY <1>8, <1>9, <1>10, <1>11, <1>12 DEF OwnInv

\* The extras become the list to close, or are let go.
LEMMA CleansKeeps ==
    ASSUME Types, OwnInv, HeldInv, NEW a \in Threads, Cleans(a) \/ Abandons(a)
    PROVE  OwnInv' /\ HeldInv'
<1>1. a \in Actors /\ UNCHANGED <<entries, engine>> /\ Pooled' = Pooled
  BY DEF Cleans, Abandons, Actors, Pooled
<1>2. extras' = [extras EXCEPT ![a] = <<>>]
  BY DEF Cleans, Abandons
<1>3. \/ todo[a] = <<>> /\ todo' = [todo EXCEPT ![a] = extras[a]]
      \/ todo' = todo
  BY DEF Cleans, Abandons
<1>4. /\ extras'[a] = <<>> /\ \A t \in Threads \ {a} : extras'[t] = extras[t]
      /\ todo'[a] = extras[a] \/ todo'[a] = todo[a]
      /\ \A b \in Actors \ {a} : todo'[b] = todo[b]
  BY <1>1, <1>2, <1>3 DEF Types
<1>5. \A b \in Actors \ {a} : Hand(b)' = Hand(b)
  BY <1>1, <1>2, <1>3, HandKept
<1>6. Hand(a)' \subseteq Hand(a)
  BY <1>4, EmptyList DEF Hand
<1>7. \A k \in Pooled' : entries'[k].engine \notin Hand(a)'
  BY <1>1, <1>6 DEF OwnInv
<1>8. /\ \A b, c \in Actors : b # c => Hand(b)' \cap Hand(c)' = {}
      /\ \A b \in Actors, k \in Pooled' : entries'[k].engine \notin Hand(b)'
  BY <1>1, <1>5, <1>6, <1>7, OwnKept
<1>9. \A b \in Actors : IsInjective(todo'[b])
  BY <1>4 DEF OwnInv
<1>10. \A t \in Threads : IsInjective(extras'[t]) /\ ToSet(todo'[t]) \cap ToSet(extras'[t]) = {}
  BY <1>4, EmptyList DEF OwnInv, Actors
<1>11. \A k, l \in Pooled' : k # l => entries'[k].engine # entries'[l].engine
  BY <1>1 DEF OwnInv
<1>12. HeldInv'
  BY <1>1, <1>5, <1>6 DEF HeldInv
<1> QED BY <1>8, <1>9, <1>10, <1>11, <1>12 DEF OwnInv

LEMMA OwnStep ==
    ASSUME Types, PlaceInv, OwnInv, HeldInv, SlotsExact, [Next]_vars
    PROVE  OwnInv' /\ HeldInv'
<1>1. CASE Keeps
  <2>1. UNCHANGED <<entries, todo, extras, engine>> /\ Pooled' = Pooled
    BY <1>1 DEF Keeps, Pooled
  <2>2. \A a \in Actors : Hand(a)' = Hand(a)
    BY <2>1 DEF Hand
  <2> QED BY <2>1, <2>2 DEF OwnInv, HeldInv
<1>2. CASE Changes
  BY <1>2, ChangesKeeps
<1>3. ASSUME NEW a \in Actors, Does(a)
      PROVE  OwnInv' /\ HeldInv'
  BY <1>1, <1>2, <1>3, DropsKeeps, ReleasesKeeps, BeginsKeeps, JoinsKeeps, ExtendsKeeps, CleansKeeps
     DEF Does
<1> QED BY <1>1, <1>2, <1>3, StepDoes

----------------------------------------------------------------------------
(* The slots are exact *)

\* A thread goes somewhere else than for a slot.
LEMMA NotSlotted ==
    ASSUME Types, NEW t \in Threads, pc[t] # "slotted", NEW p, p # "slotted",
           pc' = [pc EXCEPT ![t] = p]
    PROVE  Slotted' = Slotted
BY SlottedKept DEF Actors

LEMMA SlotsStep ==
    ASSUME Types, PlaceInv, OwnInv, HeldInv, SlotsExact, [Next]_vars
    PROVE  SlotsExact'
<1> DEFINE H == Cardinality(Holding)
           C == Cardinality(Counted)
           S == Cardinality(Slotted)
<1>0. /\ capacity \in Nat /\ active \in Nat /\ MaxSlots \in Nat
      /\ H \in Nat /\ C \in Nat /\ S \in Nat
      /\ capacity = MaxSlots - H - S /\ active = C
  BY SlotsAre, SlotsFinite, PoolTyped DEF Types
<1> HIDE DEF H, C, S
<1>1. CASE UNCHANGED vars
  BY <1>1, EngineKept DEF vars, slotVars, threadVars, Slotted
<1>2. ASSUME NEW s \in Sessions, connect(s) \/ collect(s) PROVE SlotsExact'
  BY <1>2, EngineKept DEF connect, collect, slotVars, threadVars, Slotted
<1>3. ASSUME NEW e \in Engines, engine_dies(e) PROVE SlotsExact'
  <2>1. engine' = [engine EXCEPT ![e] = "dead"] /\ engine[e] = "up" /\ "dead" \in States
        /\ UNCHANGED <<capacity, active>> /\ Slotted' = Slotted
    BY <1>3 DEF engine_dies, threadVars, Slotted, States
  <2>2. Holding' = Holding /\ Counted' = Counted
    BY <2>1, EngineMoves
  <2> QED BY <2>1, <2>2, SlotsAre, SlotsNext
<1>4. ASSUME NEW t \in Threads,
             get(t) \/ preserve_sessions(t) \/ run_levers(t) \/ create_locked(t) \/ close_extras(t)
      PROVE  SlotsExact'
  <2>1. PICK p : p # "slotted" /\ pc' = [pc EXCEPT ![t] = p]
    BY <1>4 DEF get, preserve_sessions, run_levers, create_locked, close_extras
  <2>2. pc[t] # "slotted" /\ UNCHANGED <<engine, capacity, active>>
    BY <1>4 DEF get, preserve_sessions, run_levers, create_locked, close_extras, slotVars
  <2> QED BY <2>1, <2>2, NotSlotted, EngineKept
<1>5. ASSUME NEW t \in Threads, acquire_slot(t) PROVE SlotsExact'
  <2>1. /\ capacity > 0 /\ capacity' = capacity - 1 /\ UNCHANGED <<engine, active>>
        /\ pc' = [pc EXCEPT ![t] = "slotted"] /\ pc[t] # "slotted"
    BY <1>5 DEF acquire_slot, Starts
  <2>2. Slotted' = Slotted \cup {t} /\ t \notin Slotted
    BY <2>1 DEF Slotted, Types, Actors
  <2>3. Cardinality(Slotted') = S + 1
    BY <2>2, SlotsFinite, FS_AddElement DEF S
  <2>4. Holding' = Holding /\ Counted' = Counted
    BY <2>1 DEF Holding, Counted
  <2> QED BY <1>0, <2>1, <2>3, <2>4, SlotsNext DEF H, C
<1>6. ASSUME NEW t \in Threads, refuse_slot(t) PROVE SlotsExact'
  <2>1. pc[t] # "slotted" /\ UNCHANGED <<engine, capacity, active>>
    BY <1>6 DEF refuse_slot, Starts, slotVars
  <2>2. PICK p : p # "slotted" /\ pc' = [pc EXCEPT ![t] = p]
    BY <1>6 DEF refuse_slot, Raises, Onward
  <2> QED BY <2>1, <2>2, NotSlotted, EngineKept
<1>7. ASSUME NEW t \in Threads, count_slot(t) PROVE SlotsExact'
  <2> DEFINE e == CHOOSE e \in Engines : engine[e] = "none"
  <2>1. e \in Engines /\ engine[e] = "none" /\ "starting" \in States
    BY <1>7, FreshEngine DEF count_slot, States
  <2> HIDE DEF e
  <2>2. /\ engine' = [engine EXCEPT ![e] = "starting"] /\ active' = active + 1
        /\ pc[t] = "slotted" /\ pc' = [pc EXCEPT ![t] = "starting"] /\ UNCHANGED capacity
    BY <1>7 DEF count_slot, e
  <2>3. Slotted' = Slotted \ {t} /\ t \in Slotted
    BY <2>2 DEF Slotted, Types, Actors
  <2>4. Cardinality(Slotted') = S - 1
    BY <2>3, SlotsFinite, FS_RemoveElement DEF S
  <2>5. Cardinality(Holding') = H + 1 /\ Cardinality(Counted') = C + 1
    BY <2>1, <2>2, EngineMoves DEF H, C
  <2> QED BY <1>0, <2>2, <2>4, <2>5, SlotsNext
<1>8. ASSUME NEW t \in Threads, start_engine(t) PROVE SlotsExact'
  <2> DEFINE e == Head(todo[t])
  <2>1. e \in Engines /\ engine[e] = "starting" /\ "up" \in States
    BY <1>8, StartingHolds DEF start_engine, States
  <2>2. engine' = [engine EXCEPT ![e] = "up"] /\ pc[t] = "starting" /\ UNCHANGED <<capacity, active>>
    BY <1>8 DEF start_engine
  <2>3. PICK p : p # "slotted" /\ pc' = [pc EXCEPT ![t] = p]
    BY <1>8 DEF start_engine, Returns
  <2>4. Slotted' = Slotted
    BY <2>2, <2>3, NotSlotted
  <2>5. Holding' = Holding /\ Counted' = Counted
    BY <2>1, <2>2, EngineMoves
  <2> QED BY <2>2, <2>4, <2>5, SlotsAre, SlotsNext
<1>9. ASSUME NEW t \in Threads, start_fails(t) PROVE SlotsExact'
  <2> DEFINE e == Head(todo[t])
  <2>1. e \in Engines /\ engine[e] = "starting" /\ "dead" \in States
    BY <1>9, StartingHolds DEF start_fails, States
  <2>2. engine' = [engine EXCEPT ![e] = "dead"] /\ pc[t] = "starting" /\ UNCHANGED <<capacity, active>>
    BY <1>9 DEF start_fails
  <2>3. PICK p : p # "slotted" /\ pc' = [pc EXCEPT ![t] = p]
    BY <1>9, PoolTyped DEF start_fails
  <2>4. Slotted' = Slotted
    BY <2>2, <2>3, NotSlotted
  <2>5. Holding' = Holding /\ Counted' = Counted
    BY <2>1, <2>2, EngineMoves
  <2> QED BY <2>2, <2>4, <2>5, SlotsAre, SlotsNext
<1>10. ASSUME NEW t \in Threads, start_failed(t) PROVE SlotsExact'
  <2>1. pc[t] # "slotted" /\ UNCHANGED <<engine, capacity, active>>
    BY <1>10, PoolTyped DEF start_failed, slotVars
  <2>2. PICK p : p # "slotted" /\ pc' = [pc EXCEPT ![t] = p]
    BY <1>10 DEF start_failed, Raises, Onward
  <2> QED BY <2>1, <2>2, NotSlotted, EngineKept
<1>11. ASSUME NEW a \in Actors, close(a) PROVE SlotsExact'
  <2> DEFINE e == Head(todo[a])
  <2>1. e \in Engines /\ engine[e] \in {"up", "dead"} /\ "uncounted" \in States
    BY <1>11, HeadHeld DEF close, Closing, States
  <2>2. active > 0
    <3>1. e \in Counted
      BY <2>1 DEF Counted
    <3> QED BY <1>0, <3>1, SlotsFinite, FS_EmptySet DEF C
  <2>3. /\ engine' = [engine EXCEPT ![e] = "uncounted"] /\ active' = active - 1
        /\ UNCHANGED <<capacity, pc>>
    BY <1>11, <2>2 DEF close
  <2>4. Slotted' = Slotted
    BY <2>3 DEF Slotted
  <2>5. Holding' = Holding /\ Cardinality(Counted') = C - 1
    BY <2>1, <2>3, EngineMoves DEF C
  <2> QED BY <1>0, <2>2, <2>3, <2>4, <2>5, SlotsNext DEF H, S
<1>12. ASSUME NEW a \in Actors, release_slot(a) \/ (a \in Threads /\ close_raises(a))
       PROVE  SlotsExact'
  <2> DEFINE e == Head(todo[a])
  <2>1. e \in Engines /\ engine[e] = "uncounted" /\ "none" \in States
    BY <1>12, HeadHeld DEF release_slot, close_raises, Closing, States
  <2>2. /\ engine' = [engine EXCEPT ![e] = "none"] /\ capacity' = capacity + 1 /\ UNCHANGED active
    BY <1>12 DEF release_slot, close_raises
  <2>3. Slotted' = Slotted
    <3>1. CASE release_slot(a)
      BY <3>1 DEF release_slot, Slotted
    <3>2. CASE a \in Threads /\ close_raises(a)
      <4>1. PICK p : p # "slotted" /\ pc' = [pc EXCEPT ![a] = p]
        BY <3>2 DEF close_raises, Onward
      <4>2. pc[a] # "slotted"
        BY <3>2, PoolTyped DEF close_raises, Closing, PlaceInv, Placed
      <4> QED BY <3>2, <4>1, <4>2, NotSlotted
    <3> QED BY <1>12, <3>1, <3>2
  <2>4. Cardinality(Holding') = H - 1 /\ Counted' = Counted
    BY <2>1, <2>2, EngineMoves DEF H
  <2> QED BY <1>0, <2>2, <2>3, <2>4, SlotsNext DEF C, S
<1>13. ASSUME NEW t \in Threads, look_up(t) \/ load(t) \/ pass_over(t) \/ let_go(t)
       PROVE  SlotsExact'
  <2>1. pc[t] # "slotted" /\ UNCHANGED <<engine, capacity, active>>
    BY <1>13 DEF look_up, load, pass_over, let_go, slotVars
  <2>2. PICK p : p # "slotted" /\ pc' = [pc EXCEPT ![t] = p]
    BY <1>13 DEF look_up, load, pass_over, let_go, Returns, Onward
  <2> QED BY <2>1, <2>2, NotSlotted, EngineKept
<1>14. ASSUME NEW g \in Collectors, discard_collected(g) \/ discarded(g) PROVE SlotsExact'
  <2>1. UNCHANGED <<engine, capacity, active>> /\ g \in Actors /\ g \notin Threads
    BY <1>14, PoolNames DEF discard_collected, discarded, slotVars, Actors
  <2>2. PICK p : pc' = [pc EXCEPT ![g] = p]
    BY <1>14 DEF discard_collected, discarded
  <2> QED BY <2>1, <2>2, SlottedKept, EngineKept
<1> QED BY <1>1, <1>2, <1>3, <1>4, <1>5, <1>6, <1>7, <1>8, <1>9, <1>10, <1>11, <1>12, <1>13,
           <1>14
        DEF Next, ThreadStep, CollectorStep, Actors

----------------------------------------------------------------------------
(* Where the threads are *)

\* What the step of a leaves alone.
Aside(a) ==
    /\ \A b \in Actors \ {a} : /\ pc'[b] = pc[b] /\ who'[b] = who[b] /\ todo'[b] = todo[b]
                               /\ b \in Threads => extras'[b] = extras[b]
    /\ UNCHANGED session
    /\ \/ pool_lock' = pool_lock
       \/ pool_lock = None /\ pool_lock' = a
       \/ pool_lock = a /\ pool_lock' = None
    /\ \A k \in Keys : entries[k] = NoEntry => entries'[k] = NoEntry \/ pool_lock = a
    /\ \A e \in Engines : engine[e] = "starting" => engine'[e] = "starting" \/ e \in Hand(a)

LEMMA AsidePlaced ==
    ASSUME Types, PlaceInv, OwnInv, HeldInv, NEW a \in Actors, Aside(a),
           a \in Threads => Placed(a)',
           a \in Collectors => /\ pc'[a] \in {"idle", "discarding"} /\ who'[a] = None
                               /\ todo'[a] # <<>> => pc'[a] = "discarding"
    PROVE  PlaceInv'
<1>1. ASSUME NEW u \in Threads, u # a PROVE Placed(u)'
  <2>1. /\ pc'[u] = pc[u] /\ who'[u] = who[u] /\ todo'[u] = todo[u] /\ extras'[u] = extras[u]
        /\ UNCHANGED session /\ Placed(u) /\ u \in Actors
    BY <1>1 DEF Aside, PlaceInv, Actors
  <2>2. pool_lock' = u => pool_lock = u
    BY <1>1, PoolNames DEF Aside
  <2>3. pool_lock = u => pool_lock' = u
    BY <1>1, PoolNames DEF Aside
  <2>4. pool_lock' = u /\ pc[u] \notin {"pruning", "swapping"} =>
          entries'[KeyOf[who[u]]] = NoEntry
    <3> SUFFICES ASSUME pool_lock' = u, pc[u] \notin {"pruning", "swapping"}
                 PROVE  entries'[KeyOf[who[u]]] = NoEntry
      OBVIOUS
    <3>1. who[u] \in Sessions /\ entries[KeyOf[who[u]]] = NoEntry
      BY <2>1, <2>2, PoolTyped DEF Placed
    <3>2. KeyOf[who[u]] \in Keys
      BY <3>1 DEF Keys
    <3> QED BY <1>1, <2>2, <3>1, <3>2 DEF Aside
  <2>5. pc[u] = "starting" => engine'[Head(todo[u])] = "starting"
    <3> SUFFICES ASSUME pc[u] = "starting" PROVE engine'[Head(todo[u])] = "starting"
      OBVIOUS
    <3>1. /\ todo[u] # <<>> /\ Head(todo[u]) \in Engines /\ engine[Head(todo[u])] = "starting"
      BY StartingHolds
    <3>2. Head(todo[u]) \in Hand(u)
      BY <2>1, <3>1, HeadHeld
    <3>3. Head(todo[u]) \notin Hand(a)
      BY <1>1, <2>1, <3>2 DEF OwnInv
    <3> QED BY <3>1, <3>3 DEF Aside
  <2> QED BY <2>1, <2>2, <2>3, <2>4, <2>5 DEF Placed
<1>2. ASSUME NEW g \in Collectors, g # a
      PROVE  /\ pc'[g] \in {"idle", "discarding"} /\ who'[g] = None
             /\ todo'[g] # <<>> => pc'[g] = "discarding"
  BY <1>2 DEF Aside, PlaceInv, Actors
<1> QED BY <1>1, <1>2 DEF PlaceInv

\* get returns, or raises: either way the thread is without the lock.
LEMMA GetEnds ==
    ASSUME Types, PlaceInv, NEW t \in Threads, pool_lock = t, Raises(t) \/ Returns(t),
           UNCHANGED <<session, extras>>, todo'[t] = <<>>, \A b \in Actors \ {t} : todo'[b] = todo[b],
           \A e \in Engines : engine[e] = "starting" => engine'[e] = "starting" \/ e \in Hand(t)
    PROVE  Aside(t) /\ Placed(t)'
<1>1. /\ t \in Actors /\ Placed(t)
      /\ \A b \in Actors \ {t} : pc'[b] = pc[b] /\ who'[b] = who[b]
      /\ pc'[t] \in {"idle", "swapped", "loading"} /\ who'[t] \in {None, who[t]} /\ pool_lock' = None
  BY DEF Types, PlaceInv, Raises, Returns, Onward, Actors
<1>2. Aside(t)
  BY <1>1 DEF Aside
<1>3. extras'[t] = <<>> /\ pool_lock' # t
  BY <1>1, PoolNames DEF Placed
<1>4. who'[t] \in Sessions => session'[who'[t]] = "live"
  BY <1>1, PoolNames DEF Placed
<1> QED BY <1>1, <1>2, <1>3, <1>4, PoolTyped DEF Placed

LEMMA PlaceStep ==
    ASSUME Types, PlaceInv, OwnInv, HeldInv, SlotsExact, [Next]_vars
    PROVE  PlaceInv'
<1>1. CASE UNCHANGED vars
  BY <1>1 DEF vars, sessionVars, poolVars, slotVars, threadVars, PlaceInv, Placed
<1>2. ASSUME NEW s \in Sessions, connect(s) \/ collect(s) PROVE PlaceInv'
  <2>1. /\ UNCHANGED <<entries, pool_lock, engine, pc, who, todo, extras>>
        /\ \A d \in Sessions : session[d] = "live" /\ (\E a \in Actors : who[a] = d)
                                 => session'[d] = "live"
    BY <1>2 DEF connect, collect, poolVars, slotVars, threadVars, Types
  <2>2. \A t \in Threads : Placed(t)'
    BY <2>1 DEF PlaceInv, Placed, Actors
  <2> QED BY <2>1, <2>2 DEF PlaceInv
<1>3. ASSUME NEW e \in Engines, engine_dies(e) PROVE PlaceInv'
  <2>1. /\ UNCHANGED <<session, entries, pool_lock, pc, who, todo, extras>>
        /\ engine[e] = "up" /\ engine' = [engine EXCEPT ![e] = "dead"]
    BY <1>3 DEF engine_dies, sessionVars, poolVars, threadVars
  <2>2. \A d \in Engines : engine[d] = "starting" => engine'[d] = "starting"
    BY <2>1 DEF Types
  <2>3. ASSUME NEW t \in Threads PROVE Placed(t)'
    <3>1. pc[t] = "starting" => engine'[Head(todo[t])] = "starting"
      BY <2>2, StartingHolds
    <3> QED BY <2>1, <3>1 DEF PlaceInv, Placed
  <2> QED BY <2>1, <2>3 DEF PlaceInv
<1>4. ASSUME NEW t \in Threads, Aside(t), Placed(t)'
      PROVE  PlaceInv'
  BY <1>4, AsidePlaced, PoolNames DEF Actors
<1>5. ASSUME NEW g \in Collectors, CollectorStep(g)
      PROVE  PlaceInv'
  <2>0. g \in Actors /\ g \notin Threads
    BY PoolNames DEF Actors
  <2>1. CASE discard_collected(g)
    <3>1. \A k \in Keys : entries[k] = NoEntry => entries'[k] = NoEntry
      BY <2>1, DiscardDrops, DroppedIs DEF Types
    <3>2. Aside(g)
      BY <2>0, <2>1, <3>1 DEF discard_collected, Aside, slotVars, Types
    <3>3. pc'[g] = "discarding" /\ who'[g] = who[g]
      BY <2>0, <2>1 DEF discard_collected, Types
    <3> QED BY <2>0, <3>2, <3>3, AsidePlaced DEF PlaceInv
  <2>2. CASE discarded(g)
    <3>1. Aside(g)
      BY <2>0, <2>2 DEF discarded, Aside, sessionVars, poolVars, slotVars, Types
    <3>2. pc'[g] = "idle" /\ who'[g] = who[g] /\ todo'[g] = <<>>
      BY <2>0, <2>2 DEF discarded, Types
    <3> QED BY <2>0, <3>1, <3>2, AsidePlaced DEF PlaceInv
  <2>3. CASE close(g) \/ release_slot(g)
    <3> DEFINE e == Head(todo[g])
    <3>1. e \in Engines /\ e \in Hand(g) /\ todo[g] # <<>>
      BY <2>0, <2>3, HeadHeld DEF close, release_slot, Closing
    <3>2. /\ UNCHANGED <<session, entries, pool_lock, pc, who, extras>>
          /\ \A d \in Engines \ {e} : engine'[d] = engine[d]
          /\ \A b \in Actors \ {g} : todo'[b] = todo[b]
      BY <2>0, <2>3 DEF close, release_slot, sessionVars, poolVars, Types
    <3>3. Aside(g)
      BY <3>1, <3>2 DEF Aside
    <3> QED BY <2>0, <3>1, <3>2, <3>3, AsidePlaced DEF PlaceInv
  <2> QED BY <1>5, <2>1, <2>2, <2>3 DEF CollectorStep
<1>6. ASSUME NEW t \in Threads, get(t) PROVE Aside(t) /\ Placed(t)'
  <2>1. /\ \A k \in Keys : entries[k] = NoEntry => entries'[k] = NoEntry
    BY <1>6, DroppedIs DEF get, Types
  <2>2. pc'[t] = "pruning" /\ pool_lock' = t /\ extras'[t] = <<>> /\ who'[t] \in Sessions
        /\ session'[who'[t]] = "live"
    <3>1. PICK s \in Sessions : session[s] = "live" /\ who' = [who EXCEPT ![t] = s]
      BY <1>6 DEF get
    <3>2. extras[t] = <<>>
      BY <1>6, PoolTyped DEF get, PlaceInv, Placed
    <3> QED BY <1>6, <3>1, <3>2 DEF get, sessionVars, Types, Actors
  <2>3. Aside(t)
    BY <1>6, <2>1 DEF get, Aside, sessionVars, slotVars, Types, Actors
  <2> QED BY <2>2, <2>3, PoolTyped DEF Placed
<1>7. ASSUME NEW t \in Threads, preserve_sessions(t) PROVE Aside(t) /\ Placed(t)'
  <2>1. /\ \A k \in Keys : entries[k] = NoEntry => entries'[k] = NoEntry
    BY <1>7, DroppedIs DEF preserve_sessions, Types
  <2>2. /\ pc'[t] = "swapping" /\ pool_lock' = t /\ extras'[t] = <<>> /\ who'[t] = who[t]
        /\ UNCHANGED session
    BY <1>7, PoolTyped DEF preserve_sessions, sessionVars, PlaceInv, Placed, Types, Actors
  <2>3. Aside(t)
    BY <1>7, <2>1 DEF preserve_sessions, Aside, sessionVars, slotVars, Types, Actors
  <2> QED BY <2>2, <2>3, PoolTyped DEF Placed, PlaceInv
<1>8. ASSUME NEW t \in Threads, run_levers(t) PROVE Aside(t) /\ Placed(t)'
  <2>1. /\ UNCHANGED <<session, entries, pool_lock, engine, who, todo, extras>>
        /\ pc[t] = "idle" /\ pc'[t] = "optimizing" /\ \A b \in Actors \ {t} : pc'[b] = pc[b]
    BY <1>8 DEF run_levers, sessionVars, poolVars, slotVars, Types, Actors
  <2> QED BY <2>1, PoolTyped DEF Aside, Placed, PlaceInv
<1>9. ASSUME NEW t \in Threads, acquire_slot(t) PROVE Aside(t) /\ Placed(t)'
  <2>1. /\ UNCHANGED <<session, entries, pool_lock, engine, who, todo, extras>>
        /\ pc[t] \in {"creating", "optimizing"} /\ pc'[t] = "slotted"
        /\ \A b \in Actors \ {t} : pc'[b] = pc[b]
    BY <1>9 DEF acquire_slot, Starts, sessionVars, poolVars, slotVars, Types, Actors
  <2> QED BY <2>1, PoolTyped DEF Aside, Placed, PlaceInv
<1>10. ASSUME NEW t \in Threads, refuse_slot(t) PROVE Aside(t) /\ Placed(t)'
  <2>1. /\ UNCHANGED <<session, entries, engine, todo, extras>>
        /\ pc[t] \in {"creating", "optimizing"} /\ todo[t] = <<>>
    BY <1>10, PoolTyped DEF refuse_slot, Starts, sessionVars, slotVars, PlaceInv, Placed
  <2>2. CASE pool_lock = t
    BY <1>10, <2>1, <2>2, GetEnds DEF refuse_slot
  <2>3. CASE pool_lock # t
    <3>1. /\ UNCHANGED <<pool_lock, who>> /\ pc'[t] = "measuring" /\ pc[t] = "optimizing"
          /\ \A b \in Actors \ {t} : pc'[b] = pc[b]
      BY <1>10, <2>1, <2>3 DEF refuse_slot, PlaceInv, Placed, Types, Actors
    <3> QED BY <2>1, <2>3, <3>1, PoolTyped DEF Aside, Placed, PlaceInv
  <2> QED BY <2>2, <2>3
<1>11. ASSUME NEW t \in Threads, count_slot(t) PROVE Aside(t) /\ Placed(t)'
  <2> DEFINE e == CHOOSE e \in Engines : engine[e] = "none"
  <2>1. e \in Engines /\ engine[e] = "none"
    BY <1>11, FreshEngine DEF count_slot
  <2> HIDE DEF e
  <2>2. /\ engine' = [engine EXCEPT ![e] = "starting"] /\ todo' = [todo EXCEPT ![t] = <<e>>]
        /\ pc[t] = "slotted" /\ pc' = [pc EXCEPT ![t] = "starting"]
        /\ UNCHANGED <<session, entries, pool_lock, who, extras>>
    BY <1>11 DEF count_slot, e, sessionVars, poolVars
  <2>3. /\ pc'[t] = "starting" /\ todo'[t] = <<e>> /\ engine'[e] = "starting" /\ t \in Actors
        /\ \A b \in Actors \ {t} : pc'[b] = pc[b] /\ todo'[b] = todo[b]
        /\ \A d \in Engines \ {e} : engine'[d] = engine[d]
    BY <2>1, <2>2 DEF Types, Actors
  <2>4. Aside(t)
    BY <2>1, <2>2, <2>3 DEF Aside
  <2>5. Len(todo'[t]) = 1 /\ engine'[Head(todo'[t])] = "starting"
    BY <2>3
  <2> QED BY <2>2, <2>3, <2>4, <2>5, PoolTyped DEF Placed, PlaceInv
<1>12. ASSUME NEW t \in Threads, start_engine(t) PROVE Aside(t) /\ Placed(t)'
  <2> DEFINE e == Head(todo[t])
  <2>1. e \in Engines /\ todo[t] # <<>> /\ e \in Hand(t) /\ t \in Actors
    BY <1>12, StartingHolds, HeadHeld DEF start_engine, Actors
  <2>2. /\ engine' = [engine EXCEPT ![e] = "up"] /\ todo' = [todo EXCEPT ![t] = <<>>]
        /\ pc[t] = "starting" /\ UNCHANGED session
    BY <1>12 DEF start_engine, sessionVars
  <2>3. /\ todo'[t] = <<>> /\ \A b \in Actors \ {t} : todo'[b] = todo[b]
        /\ \A d \in Engines : engine[d] = "starting" => engine'[d] = "starting" \/ d \in Hand(t)
    BY <2>1, <2>2 DEF Types
  <2>4. CASE pool_lock = t
    BY <1>12, <2>2, <2>3, <2>4, GetEnds DEF start_engine
  <2>5. CASE pool_lock # t
    <3>1. /\ UNCHANGED <<entries, pool_lock, who>> /\ pc'[t] = "optimizing"
          /\ \A b \in Actors \ {t} : pc'[b] = pc[b]
          /\ \A u \in Threads \ {t} : extras'[u] = extras[u]
      BY <1>12, <2>1, <2>5 DEF start_engine, poolVars, Types
    <3>2. Aside(t)
      BY <2>2, <2>3, <3>1 DEF Aside, Actors
    <3> QED BY <2>2, <2>3, <2>5, <3>1, <3>2, PoolTyped DEF Placed, PlaceInv
  <2> QED BY <2>4, <2>5
<1>13. ASSUME NEW t \in Threads, start_fails(t) PROVE Aside(t) /\ Placed(t)'
  <2> DEFINE e == Head(todo[t])
  <2>1. e \in Engines /\ todo[t] # <<>> /\ e \in Hand(t) /\ t \in Actors
    BY <1>13, StartingHolds, HeadHeld DEF start_fails, Actors
  <2>2. /\ pc[t] = "starting" /\ pc'[t] \in Errors /\ \A b \in Actors \ {t} : pc'[b] = pc[b]
        /\ \A d \in Engines \ {e} : engine'[d] = engine[d]
        /\ UNCHANGED <<session, entries, pool_lock, who, todo, extras>>
    BY <1>13, <2>1 DEF start_fails, sessionVars, poolVars, Types
  <2>3. Aside(t)
    BY <2>1, <2>2 DEF Aside
  <2> QED BY <2>2, <2>3, PoolTyped DEF Placed, PlaceInv
<1>14. ASSUME NEW t \in Threads, start_failed(t) PROVE Aside(t) /\ Placed(t)'
  <2>1. pc[t] \in Errors /\ todo[t] = <<>> /\ UNCHANGED <<session, entries, engine, todo>>
    BY <1>14 DEF start_failed, sessionVars, slotVars
  <2>2. CASE pool_lock = t
    BY <1>14, <2>1, <2>2, GetEnds DEF start_failed
  <2>3. CASE pool_lock # t
    <3>1. /\ UNCHANGED <<pool_lock, who>>
          /\ \A b \in Actors \ {t} : pc'[b] = pc[b]
          /\ \A u \in Threads \ {t} : extras'[u] = extras[u]
          /\ \/ pc'[t] = "measuring" /\ extras'[t] = extras[t]
             \/ pc'[t] = "idle" /\ extras'[t] = <<>>
      BY <1>14, <2>1, <2>3 DEF start_failed, Types, Actors
    <3>2. Aside(t)
      BY <2>1, <3>1 DEF Aside
    <3> QED BY <2>1, <2>3, <3>1, <3>2, PoolTyped DEF Placed, PlaceInv
  <2> QED BY <2>2, <2>3
<1>15. ASSUME NEW t \in Threads, close(t) \/ release_slot(t) PROVE Aside(t) /\ Placed(t)'
  <2> DEFINE e == Head(todo[t])
  <2>1. e \in Engines /\ e \in Hand(t) /\ todo[t] # <<>> /\ t \in Actors /\ pc[t] # "starting"
    BY <1>15, HeadHeld DEF close, release_slot, Closing, Actors
  <2>2. /\ UNCHANGED <<session, entries, pool_lock, pc, who, extras>>
        /\ \A d \in Engines \ {e} : engine'[d] = engine[d]
        /\ \A b \in Actors \ {t} : todo'[b] = todo[b]
    BY <1>15, <2>1 DEF close, release_slot, sessionVars, poolVars, Types
  <2>3. Aside(t)
    BY <2>1, <2>2 DEF Aside
  <2> QED BY <2>1, <2>2, <2>3 DEF Placed, PlaceInv
<1>16. ASSUME NEW t \in Threads, close_raises(t) PROVE Aside(t) /\ Placed(t)'
  <2> DEFINE e == Head(todo[t])
  <2>1. e \in Engines /\ e \in Hand(t) /\ todo[t] # <<>> /\ t \in Actors
    BY <1>16, HeadHeld DEF close_raises, Closing, Actors
  <2>2. /\ UNCHANGED <<session, entries, extras>>
        /\ \A d \in Engines \ {e} : engine'[d] = engine[d]
        /\ \A b \in Actors \ {t} : todo'[b] = todo[b] /\ pc'[b] = pc[b] /\ who'[b] = who[b]
        /\ todo'[t] = <<>> /\ who'[t] = None /\ pc'[t] \in {"idle", "swapped"}
        /\ pool_lock' = Unlocked(t)
    BY <1>16, <2>1 DEF close_raises, sessionVars, Types, Onward
  <2>3. Aside(t)
    BY <2>1, <2>2 DEF Aside, Unlocked
  <2>4. extras[t] = <<>>
    BY <1>16, <2>1, PoolTyped DEF close_raises, Closing, PlaceInv, Placed
  <2> QED BY <2>2, <2>3, <2>4, PoolNames, PoolTyped DEF Placed, PlaceInv, Unlocked
<1>17. ASSUME NEW t \in Threads, look_up(t) PROVE Aside(t) /\ Placed(t)'
  <2>1. pool_lock = t /\ todo[t] = <<>> /\ UNCHANGED <<session, extras, engine>> /\ pc[t] = "pruning"
        /\ t \in Actors /\ who[t] \in Sessions
    BY <1>17 DEF look_up, PlaceInv, Placed, sessionVars, slotVars, Actors
  <2>2. CASE Returns(t) /\ UNCHANGED <<entries, todo, extras, engine>>
    BY <2>1, <2>2, GetEnds
  <2>3. CASE /\ Drops(t, Pooled \cap {KeyOf[who[t]]}) /\ entries' = Dropped({KeyOf[who[t]]})
             /\ pc' = [pc EXCEPT ![t] = "replacing"] /\ UNCHANGED <<pool_lock, who>>
    <3>1. /\ \A k \in Keys : entries[k] = NoEntry => entries'[k] = NoEntry
          /\ entries'[KeyOf[who[t]]] = NoEntry
      <4> DEFINE l == KeyOf[who[t]]
      <4>1. l \in {l} \cap Keys
        BY <2>1 DEF Keys
      <4>2. entries' = Dropped({l}) /\ entries \in [Keys -> Records \cup {NoEntry}]
        BY <2>3 DEF Types
      <4> HIDE DEF l
      <4>3. /\ \A k \in Keys : entries[k] = NoEntry => entries'[k] = NoEntry
            /\ entries'[l] = NoEntry
        BY <4>1, <4>2, DroppedIs
      <4> QED BY <4>3 DEF l
    <3>2. /\ \A b \in Actors \ {t} : pc'[b] = pc[b] /\ todo'[b] = todo[b]
          /\ pc'[t] = "replacing"
      BY <2>1, <2>3 DEF Types, Drops
    <3>3. Aside(t)
      BY <2>1, <2>3, <3>1, <3>2 DEF Aside
    <3> QED BY <2>1, <2>3, <3>1, <3>2, <3>3, PoolTyped DEF Placed, PlaceInv
  <2> QED BY <1>17, <2>2, <2>3, LookUpDrops
<1>18. ASSUME NEW t \in Threads, create_locked(t) PROVE Aside(t) /\ Placed(t)'
  <2>1. /\ UNCHANGED <<session, entries, pool_lock, engine, who, todo, extras>> /\ todo[t] = <<>>
        /\ pc[t] = "replacing" /\ pc'[t] = "creating" /\ \A b \in Actors \ {t} : pc'[b] = pc[b]
    BY <1>18 DEF create_locked, sessionVars, poolVars, slotVars, Types, Actors
  <2> QED BY <2>1, PoolTyped DEF Aside, Placed, PlaceInv
<1>19. ASSUME NEW t \in Threads, load(t) PROVE Aside(t) /\ Placed(t)'
  <2>1. /\ UNCHANGED <<session, pool_lock, engine, extras>> /\ pc[t] = "loading" /\ t \in Actors
        /\ \A b \in Actors \ {t} : pc'[b] = pc[b] /\ who'[b] = who[b] /\ todo'[b] = todo[b]
        /\ who'[t] = None /\ todo[t] = <<>>
        /\ \/ pc'[t] \in {"idle", "swapped"} /\ UNCHANGED todo
           \/ pc'[t] = "unloading"
    <3>1. todo[t] = <<>>
      BY <1>19, PoolTyped DEF load, PlaceInv, Placed
    <3>2. who'[t] = None /\ \A b \in Actors \ {t} : who'[b] = who[b]
      BY <1>19 DEF load, Types, Actors
    <3>3. /\ \A b \in Actors \ {t} : pc'[b] = pc[b] /\ todo'[b] = todo[b]
          /\ \/ pc'[t] \in {"idle", "swapped"} /\ UNCHANGED todo
             \/ pc'[t] = "unloading"
      BY <1>19 DEF load, Types, Onward, Actors
    <3> QED BY <1>19, <3>1, <3>2, <3>3 DEF load, sessionVars, slotVars, Actors
  <2>2. \A k \in Keys : entries[k] = NoEntry => entries'[k] = NoEntry
    BY <1>19, LoadDrops, DroppedIs DEF Types
  <2>3. Aside(t)
    BY <2>1, <2>2 DEF Aside
  <2> QED BY <2>1, <2>3, PoolNames, PoolTyped DEF Placed, PlaceInv
<1>20. ASSUME NEW t \in Threads, pass_over(t) PROVE Aside(t) /\ Placed(t)'
  <2>1. /\ UNCHANGED <<session, entries, pool_lock, engine, who, todo, extras>>
        /\ pc[t] = "swapped" /\ pc'[t] \in {"idle", "swapped"} /\ \A b \in Actors \ {t} : pc'[b] = pc[b]
    BY <1>20 DEF pass_over, sessionVars, poolVars, slotVars, Types, Actors, Onward
  <2> QED BY <2>1, PoolTyped DEF Aside, Placed, PlaceInv
<1>21. ASSUME NEW t \in Threads, close_extras(t) PROVE Aside(t) /\ Placed(t)'
  <2>1. /\ UNCHANGED <<session, entries, pool_lock, engine, who>>
        /\ pc[t] \in {"measuring", "optimizing"} /\ pc'[t] = "cleaning" /\ extras'[t] = <<>>
        /\ \A b \in Actors \ {t} : pc'[b] = pc[b] /\ todo'[b] = todo[b]
        /\ \A u \in Threads \ {t} : extras'[u] = extras[u]
    BY <1>21 DEF close_extras, sessionVars, poolVars, slotVars, Types, Actors
  <2> QED BY <2>1, PoolTyped DEF Aside, Placed, PlaceInv
<1>22. ASSUME NEW t \in Threads, let_go(t) PROVE Aside(t) /\ Placed(t)'
  <2>1. /\ UNCHANGED <<session, entries, engine, who, todo, extras>>
        /\ pc[t] \in {"cleaning", "unloading", "swapping"} /\ pc'[t] \in {"idle", "swapped"}
        /\ \A b \in Actors \ {t} : pc'[b] = pc[b]
        /\ todo[t] = <<>> /\ pool_lock' = Unlocked(t)
    BY <1>22 DEF let_go, sessionVars, slotVars, Types, Actors, Onward
  <2>2. Aside(t)
    BY <2>1 DEF Aside, Unlocked
  <2> QED BY <2>1, <2>2, PoolNames, PoolTyped DEF Placed, PlaceInv, Unlocked
<1> QED BY <1>1, <1>2, <1>3, <1>4, <1>5, <1>6, <1>7, <1>8, <1>9, <1>10, <1>11, <1>12, <1>13,
           <1>14, <1>15, <1>16, <1>17, <1>18, <1>19, <1>20, <1>21, <1>22
        DEF Next, ThreadStep

----------------------------------------------------------------------------
(* Entries *)

\* The pool loses entries, and changes none.
Shrinks == Pooled' \subseteq Pooled /\ \A k \in Pooled' : entries'[k] = entries[k]

\* Only an engine that starts under the pool's lock joins the pool.
LEMMA EntriesStep ==
    ASSUME Types, PlaceInv, OwnInv, HeldInv, SlotsExact, [Next]_vars
    PROVE  Shrinks \/ \E t \in Threads : start_engine(t) /\ pool_lock = t /\ Joins(t) /\ Placed(t)
<1>1. UNCHANGED entries => Shrinks
  BY DEF Shrinks, Pooled
<1>2. \A a \in Actors : (\E K : Drops(a, K)) => Shrinks
  BY DEF Drops, Shrinks
<1>3. CASE UNCHANGED vars
  BY <1>1, <1>3 DEF vars, poolVars
<1>4. ASSUME NEW s \in Sessions, connect(s) \/ collect(s) PROVE Shrinks
  BY <1>1, <1>4 DEF connect, collect, poolVars
<1>5. ASSUME NEW e \in Engines, engine_dies(e) PROVE Shrinks
  BY <1>1, <1>5 DEF engine_dies, poolVars
<1>6. ASSUME NEW t \in Threads,
             \/ get(t) \/ preserve_sessions(t) \/ look_up(t) \/ load(t)
      PROVE  Shrinks
  BY <1>1, <1>2, <1>6, GetDrops, PreserveDrops, LookUpDrops, LoadDrops DEF Actors
<1>7. ASSUME NEW t \in Threads,
             \/ run_levers(t) \/ acquire_slot(t) \/ refuse_slot(t) \/ count_slot(t)
             \/ start_fails(t) \/ start_failed(t) \/ close_raises(t)
             \/ create_locked(t) \/ pass_over(t) \/ close_extras(t) \/ let_go(t)
      PROVE  Shrinks
  <2>1. UNCHANGED entries
    BY <1>7 DEF run_levers, acquire_slot, refuse_slot, count_slot, start_fails, start_failed,
       close_raises, create_locked, pass_over, close_extras, let_go, poolVars
  <2> QED BY <1>1, <2>1
<1>8. ASSUME NEW a \in Actors, close(a) \/ release_slot(a) PROVE Shrinks
  BY <1>1, <1>8 DEF close, release_slot, poolVars
<1>9. ASSUME NEW g \in Collectors, discard_collected(g) \/ discarded(g) PROVE Shrinks
  BY <1>1, <1>2, <1>9, DiscardDrops DEF discarded, poolVars, Actors
<1>10. ASSUME NEW t \in Threads, start_engine(t)
       PROVE  \/ Shrinks
              \/ start_engine(t) /\ pool_lock = t /\ Joins(t) /\ Placed(t)
  <2> DEFINE e == Head(todo[t])
  <2>1. CASE pool_lock # t
    <3>1. UNCHANGED entries
      BY <1>10, <2>1 DEF start_engine, poolVars
    <3> QED BY <1>1, <3>1
  <2>2. CASE pool_lock = t
    <3>1. e \in Engines /\ todo[t] = <<e>> /\ engine[e] = "starting"
      BY <1>10, StartingHolds DEF start_engine
    <3>2. who[t] \in Sessions /\ entries[KeyOf[who[t]]] = NoEntry /\ Placed(t)
      BY <1>10, <2>2 DEF start_engine, PlaceInv, Placed
    <3>3. KeyOf[who[t]] \in Keys \ Pooled
      BY <3>2 DEF Keys, Pooled
    <3>4. /\ engine' = [engine EXCEPT ![e] = "up"] /\ todo' = [todo EXCEPT ![t] = <<>>]
          /\ entries' = [entries EXCEPT ![KeyOf[who[t]]] = [session |-> who[t], engine |-> e]]
          /\ UNCHANGED extras
      BY <1>10, <2>2 DEF start_engine
    <3> HIDE DEF e
    <3>5. Joins(t)
      BY <3>1, <3>2, <3>3, <3>4 DEF Joins
    <3> QED BY <1>10, <2>2, <3>2, <3>5
  <2> QED BY <2>1, <2>2
<1> QED BY <1>3, <1>4, <1>5, <1>6, <1>7, <1>8, <1>9, <1>10
        DEF Next, ThreadStep, CollectorStep, Actors

\* What joins the pool is the engine of a session that is there.
LEMMA JoinsIs ==
    ASSUME Types, NEW t \in Threads, Joins(t), Placed(t)
    PROVE  /\ Pooled' = Pooled \cup {KeyOf[who[t]]} /\ KeyOf[who[t]] \notin Pooled
           /\ \A k \in Pooled : entries'[k] = entries[k]
           /\ entries'[KeyOf[who[t]]].session = who[t]
           /\ who[t] \in Sessions /\ session[who[t]] = "live"
<1> DEFINE k == KeyOf[who[t]]
<1>1. PICK e \in Engines : entries' = [entries EXCEPT ![k] = [session |-> who[t], engine |-> e]]
  BY DEF Joins
<1>2. who[t] \in Sessions /\ session[who[t]] = "live" /\ k \in Keys \ Pooled
  BY DEF Joins, Placed
<1> HIDE DEF k
<1>3. /\ entries'[k].session = who[t] /\ entries'[k] # NoEntry
      /\ \A l \in Keys \ {k} : entries'[l] = entries[l]
  BY <1>1, <1>2, PoolNames DEF Types, NoEntry
<1>4. Pooled' = Pooled \cup {k} /\ \A l \in Pooled : entries'[l] = entries[l]
  BY <1>2, <1>3 DEF Pooled
<1> QED BY <1>2, <1>3, <1>4 DEF k

\* Sessions and callbacks change by connecting, collecting and discarding only.
LEMMA SessionsStep ==
    ASSUME [Next]_vars
    PROVE  \/ UNCHANGED <<session, callbacks>>
           \/ \E s \in Sessions : connect(s) \/ collect(s)
           \/ \E g \in Collectors : discard_collected(g)
<1>1. CASE UNCHANGED vars
  BY <1>1 DEF vars, sessionVars
<1>2. ASSUME NEW e \in Engines, engine_dies(e) PROVE UNCHANGED <<session, callbacks>>
  BY <1>2 DEF engine_dies, sessionVars
<1>3. ASSUME NEW t \in Threads,
             \/ get(t) \/ preserve_sessions(t) \/ run_levers(t)
             \/ acquire_slot(t) \/ refuse_slot(t) \/ count_slot(t) \/ start_engine(t)
             \/ start_fails(t) \/ start_failed(t) \/ close_raises(t)
      PROVE  UNCHANGED <<session, callbacks>>
  BY <1>3 DEF get, preserve_sessions, run_levers, acquire_slot, refuse_slot, count_slot,
     start_engine, start_fails, start_failed, close_raises, sessionVars
<1>4. ASSUME NEW t \in Threads,
             \/ look_up(t) \/ create_locked(t) \/ load(t) \/ pass_over(t)
             \/ close_extras(t) \/ let_go(t)
      PROVE  UNCHANGED <<session, callbacks>>
  BY <1>4 DEF look_up, create_locked, load, pass_over, close_extras, let_go, sessionVars
<1>5. ASSUME NEW a, close(a) \/ release_slot(a) \/ discarded(a)
      PROVE  UNCHANGED <<session, callbacks>>
  BY <1>5 DEF close, release_slot, discarded, sessionVars
<1> QED BY <1>1, <1>2, <1>3, <1>4, <1>5 DEF Next, ThreadStep, CollectorStep

LEMMA KeyStep ==
    ASSUME Types, PlaceInv, OwnInv, HeldInv, SlotsExact, KeyInv, PendingInv, [Next]_vars
    PROVE  KeyInv' /\ PendingInv'
<1>0. \A k \in Pooled : entries[k].session \in Sessions
  BY EntryIs DEF Pooled, Types
<1>1. ASSUME NEW s \in Sessions, connect(s) PROVE KeyInv' /\ PendingInv'
  <2>1. /\ session[s] = "new" /\ session' = [session EXCEPT ![s] = "live"]
        /\ \A d \in Sessions \ {s} : KeyOf[d] = KeyOf[s] => session[d] # "live"
        /\ UNCHANGED <<callbacks, entries>> /\ Pooled' = Pooled
    BY <1>1 DEF connect, poolVars, Pooled
  <2>2. session'[s] = "live" /\ \A d \in Sessions \ {s} : session'[d] = session[d]
    BY <2>1 DEF Types
  <2>3. KeyInv'
    BY <1>0, <2>1, <2>2 DEF KeyInv, Types
  <2>4. Stale' \subseteq Stale
    BY <1>0, <2>1, <2>2 DEF Stale
  <2> QED BY <2>1, <2>3, <2>4 DEF PendingInv
<1>2. ASSUME NEW s \in Sessions, collect(s) PROVE KeyInv' /\ PendingInv'
  <2>1. /\ session[s] = "live" /\ session' = [session EXCEPT ![s] = "gone"]
        /\ callbacks' = IF entries[KeyOf[s]].session = s THEN callbacks \cup {s} ELSE callbacks
        /\ UNCHANGED entries /\ Pooled' = Pooled
    BY <1>2 DEF collect, poolVars, Pooled
  <2>2. session'[s] = "gone" /\ \A d \in Sessions \ {s} : session'[d] = session[d]
    BY <2>1 DEF Types
  <2>3. callbacks' \subseteq Sessions
    BY <2>1 DEF Types
  <2>4. KeyInv'
    BY <1>0, <2>1, <2>2, <2>3 DEF KeyInv, Types
  <2>5. ASSUME NEW k \in Stale' PROVE entries[k].session \in callbacks'
    <3>1. k \in Pooled /\ session'[entries[k].session] = "gone" /\ KeyOf[entries[k].session] = k
      BY <2>1, <2>5 DEF Stale, KeyInv
    <3>2. CASE entries[k].session = s
      BY <2>1, <3>1, <3>2
    <3>3. CASE entries[k].session # s
      BY <1>0, <2>1, <2>2, <3>1, <3>3 DEF PendingInv, Stale
    <3> QED BY <3>2, <3>3
  <2> QED BY <2>1, <2>4, <2>5 DEF PendingInv
<1>3. ASSUME NEW g \in Collectors, discard_collected(g) PROVE KeyInv' /\ PendingInv'
  <2>0. PICK s \in callbacks : \E K \in {{}, {KeyOf[s]}} :
          /\ callbacks' = callbacks \ {s} /\ Drops(g, K)
          /\ s \in Sessions /\ entries[KeyOf[s]].session = s => K = {KeyOf[s]}
    BY <1>3, DiscardDrops
  <2>1. PICK K \in {{}, {KeyOf[s]}} :
          /\ callbacks' = callbacks \ {s} /\ Drops(g, K)
          /\ s \in Sessions /\ entries[KeyOf[s]].session = s => K = {KeyOf[s]}
    BY <2>0
  <2>2. /\ Pooled' = Pooled \ K /\ \A k \in Pooled' : entries'[k] = entries[k]
        /\ s \in Sessions /\ UNCHANGED session
    BY <1>3, <2>1 DEF Drops, Types, discard_collected
  <2>3. KeyInv'
    BY <2>1, <2>2 DEF KeyInv
  <2>4. ASSUME NEW k \in Stale' PROVE entries'[k].session \in callbacks'
    <3>1. k \in Stale /\ k \in Pooled' /\ entries'[k] = entries[k] /\ KeyOf[entries[k].session] = k
      BY <2>2, <2>4 DEF Stale, KeyInv
    <3>2. entries[k].session # s
      BY <2>1, <2>2, <3>1
    <3> QED BY <2>1, <3>1, <3>2 DEF PendingInv
  <2> QED BY <2>3, <2>4 DEF PendingInv
<1>4. CASE UNCHANGED <<session, callbacks>> /\ Shrinks
  <2>1. Stale' \subseteq Stale
    BY <1>4 DEF Stale, Shrinks
  <2>2. \A k \in Stale' : entries'[k] = entries[k]
    BY <1>4 DEF Stale, Shrinks
  <2>3. KeyInv'
    BY <1>4 DEF KeyInv, Shrinks
  <2> QED BY <1>4, <2>1, <2>2, <2>3 DEF PendingInv
<1>5. ASSUME UNCHANGED <<session, callbacks>>, NEW t \in Threads, Joins(t), Placed(t)
      PROVE  KeyInv' /\ PendingInv'
  <2> DEFINE k == KeyOf[who[t]]
  <2>1. /\ Pooled' = Pooled \cup {k} /\ \A l \in Pooled : entries'[l] = entries[l]
        /\ entries'[k].session = who[t] /\ session[who[t]] = "live" /\ KeyOf[who[t]] = k
        /\ k \notin Pooled
    BY <1>5, JoinsIs
  <2> HIDE DEF k
  <2>2. KeyInv'
    BY <1>5, <2>1 DEF KeyInv
  <2>3. \A l \in Stale' : l \in Stale /\ entries'[l] = entries[l]
    BY <1>5, <2>1 DEF Stale
  <2> QED BY <1>5, <2>2, <2>3 DEF PendingInv
<1> QED BY <1>1, <1>2, <1>3, <1>4, <1>5, SessionsStep, EntriesStep

\* Who has the pool's lock and a slot has had both, or takes the slot now.
LEMMA SlottedBy ==
    ASSUME Types, PlaceInv, [Next]_vars, NEW t \in Threads, pool_lock' = t,
           pc'[t] \in {"slotted", "starting"}
    PROVE  \/ pool_lock = t /\ pc[t] \in {"slotted", "starting"}
           \/ acquire_slot(t) \/ count_slot(t)
<1>0. pool_lock' # None /\ t \in Actors
  BY PoolNames DEF Actors
<1>1. CASE UNCHANGED <<pool_lock, pc>>
  BY <1>1
<1>2. ASSUME NEW u \in Threads, ThreadStep(u) \/ get(u) \/ preserve_sessions(u) \/ run_levers(u),
             u # t
      PROVE  pool_lock = t /\ pc[t] \in {"slotted", "starting"}
  <2>1. pool_lock' \in {pool_lock, None, u}
    BY <1>2 DEF ThreadStep, get, preserve_sessions, run_levers, acquire_slot, refuse_slot,
       count_slot, start_engine, start_fails, start_failed, close, release_slot, close_raises,
       look_up, create_locked, load, pass_over, close_extras, let_go, Raises, Returns, Unlocked,
       poolVars
  <2>2. pc'[t] = pc[t]
    BY <1>0, <1>2 DEF ThreadStep, get, preserve_sessions, run_levers, acquire_slot, refuse_slot,
       count_slot, start_engine, start_fails, start_failed, close, release_slot, close_raises,
       look_up, create_locked, load, pass_over, close_extras, let_go, Raises, Returns, Types
  <2> QED BY <1>0, <1>2, <2>1, <2>2
<1>3. ASSUME NEW g \in Collectors, CollectorStep(g)
      PROVE  pool_lock' = pool_lock /\ pc'[t] = pc[t]
  BY <1>0, <1>3, PoolNames DEF CollectorStep, discard_collected, discarded, close, release_slot,
     poolVars, Types
<1>4. ASSUME \/ get(t) \/ preserve_sessions(t) \/ run_levers(t) \/ refuse_slot(t)
             \/ start_engine(t) \/ start_fails(t) \/ start_failed(t) \/ close_raises(t)
      PROVE  FALSE
  BY <1>0, <1>4, PoolTyped DEF get, preserve_sessions, run_levers, refuse_slot, start_engine,
     start_fails, start_failed, close_raises, Raises, Returns, Onward, Types
<1>5. ASSUME \/ look_up(t) \/ create_locked(t) \/ load(t) \/ pass_over(t) \/ close_extras(t)
             \/ let_go(t)
      PROVE  FALSE
  BY <1>0, <1>5, PoolTyped DEF look_up, create_locked, load, pass_over, close_extras, let_go,
     Returns, Onward, Types
<1>6. ASSUME close(t) \/ release_slot(t)
      PROVE  UNCHANGED <<pool_lock, pc>>
  BY <1>6 DEF close, release_slot, poolVars
<1>7. ASSUME NEW s \in Sessions, connect(s) \/ collect(s) PROVE UNCHANGED <<pool_lock, pc>>
  BY <1>7 DEF connect, collect, poolVars, threadVars
<1>8. ASSUME NEW e \in Engines, engine_dies(e) PROVE UNCHANGED <<pool_lock, pc>>
  BY <1>8 DEF engine_dies, poolVars, threadVars
<1>9. CASE UNCHANGED vars
  BY <1>9, <1>1 DEF vars, poolVars, threadVars
<1>10. ASSUME ThreadStep(t) \/ get(t) \/ preserve_sessions(t) \/ run_levers(t)
       PROVE  \/ pool_lock = t /\ pc[t] \in {"slotted", "starting"}
              \/ acquire_slot(t) \/ count_slot(t)
  BY <1>1, <1>4, <1>5, <1>6, <1>10 DEF ThreadStep
<1> QED BY <1>1, <1>2, <1>3, <1>7, <1>8, <1>9, <1>10 DEF Next

LEMMA RoomStep ==
    ASSUME Types, PlaceInv, OwnInv, HeldInv, SlotsExact, RoomInv, [Next]_vars
    PROVE  RoomInv'
<1> DEFINE n == Cardinality(Pooled)
<1>0. IsFiniteSet(Pooled) /\ n \in Nat /\ MaxPool \in Nat
  BY KeysFinite, FS_Subset, FS_CardinalityType, PoolTyped DEF Pooled
<1>1. CASE Shrinks
  <2>1. Cardinality(Pooled') \in Nat /\ Cardinality(Pooled') <= n
    BY <1>0, <1>1, FS_Subset, FS_CardinalityType DEF Shrinks
  <2>2. ASSUME NEW t \in Threads, pool_lock' = t, pc'[t] \in {"slotted", "starting"}
        PROVE  n < MaxPool
    <3>1. CASE pool_lock = t /\ pc[t] \in {"slotted", "starting"}
      BY <3>1 DEF RoomInv
    <3>2. CASE acquire_slot(t)
      <4>1. pool_lock = t /\ ~PoolFull(t)
        BY <2>2, <3>2 DEF acquire_slot, poolVars
      <4> QED BY <1>0, <4>1 DEF PoolFull
    <3>3. CASE count_slot(t)
      BY <2>2, <3>3 DEF RoomInv, count_slot, poolVars
    <3> QED BY <2>2, <3>1, <3>2, <3>3, SlottedBy
  <2> QED BY <1>0, <2>1, <2>2 DEF RoomInv
<1>2. ASSUME NEW t \in Threads, start_engine(t), pool_lock = t, Joins(t), Placed(t)
      PROVE  RoomInv'
  <2>1. n < MaxPool
    BY <1>2 DEF RoomInv, start_engine
  <2>2. Pooled' = Pooled \cup {KeyOf[who[t]]} /\ KeyOf[who[t]] \notin Pooled
    BY <1>2, JoinsIs
  <2>3. Cardinality(Pooled') = n + 1
    BY <1>0, <2>2, FS_AddElement
  <2>4. pool_lock' = None
    BY <1>2 DEF start_engine, Returns
  <2> QED BY <1>0, <2>1, <2>3, <2>4, PoolNames DEF RoomInv
<1> QED BY <1>1, <1>2, EntriesStep

----------------------------------------------------------------------------
(* The pool is sound *)

LEMMA PoolStarts == Init => IInv
<1> SUFFICES ASSUME Init PROVE IInv
  OBVIOUS
<1> USE DEF Init
<1>1. Types
  <2>1. MaxSlots \in Nat /\ <<>> \in Seq(Engines)
    BY PoolTyped
  <2> QED BY <2>1 DEF Types, Places, States
<1>2. PlaceInv
  BY PoolNames, PoolTyped DEF PlaceInv, Placed, Actors
<1>3. Pooled = {} /\ Stale = {}
  BY DEF Pooled, Stale
<1>4. KeyInv /\ PendingInv
  BY <1>3 DEF KeyInv, PendingInv
<1>5. \A a \in Actors : Hand(a) = {} /\ IsInjective(todo[a])
  BY EmptyList DEF Hand, Actors
<1>6. OwnInv /\ HeldInv
  BY <1>3, <1>5, EmptyList DEF OwnInv, HeldInv, Actors
<1>7. RoomInv
  BY <1>3, FS_EmptySet, PoolTyped, PoolNames DEF RoomInv
<1>8. Holding = {} /\ Counted = {} /\ Slotted = {}
  BY DEF Holding, Counted, Slotted, Actors
<1>9. SlotsExact
  BY <1>8, SlotsAre, FS_EmptySet, PoolTyped
<1> QED BY <1>1, <1>2, <1>4, <1>6, <1>7, <1>9 DEF IInv

LEMMA PoolStep == IInv /\ [Next]_vars => IInv'
BY TypesStep, PlaceStep, KeyStep, OwnStep, RoomStep, SlotsStep DEF IInv

LEMMA PoolInvariant == Spec => []IInv
BY PoolStarts, PoolStep, PTL DEF Spec

\* For every number of threads, sessions, callbacks and engines, semaphore and
\* counter account for exactly the engines that hold a slot, through starts,
\* failed starts and closings that threads and callbacks cut into each other
\* (_acquire_engine_slot, _release_engine_slot).
THEOREM PoolIsSound == Spec => []PoolSound
<1>1. IInv => PoolSound
  <2> SUFFICES ASSUME IInv PROVE TypeOK
    BY DEF IInv, PoolSound
  <2>1. Types /\ SlotsExact
    BY DEF IInv
  <2>2. capacity \in 0 .. MaxSlots /\ active \in 0 .. MaxSlots
    BY <2>1, SlotsBounded
  <2>3. \A k \in Keys : entries[k] = NoEntry \/
          (entries[k].session \in Sessions /\ entries[k].engine \in Engines)
    BY <2>1, EntryIs DEF Types
  <2> QED BY <2>1, <2>2, <2>3 DEF Types, TypeOK, Places, States
<1> QED BY <1>1, PoolInvariant, PTL

\* The pool keeps its limit, and whatever callback, prune, swap or replacement
\* runs in between, it never hands out an engine that somebody is closing, nor
\* one engine to two sessions.
THEOREM PooledEnginesAreOpen == Spec => []PooledEngineOpen
<1>1. IInv => PooledEngineOpen
  <2> SUFFICES ASSUME IInv PROVE PooledEngineOpen
    OBVIOUS
  <2>1. OwnInv /\ HeldInv /\ RoomInv
    BY DEF IInv
  <2>2. \A a \in Actors : ToSet(todo[a]) \subseteq Hand(a)
    BY DEF Hand
  <2>3. \A k, l \in Pooled : k # l => entries[k].engine # entries[l].engine
    BY <2>1 DEF OwnInv
  <2>4. \A a \in Actors, k \in Pooled : entries[k].engine \notin ToSet(todo[a])
    BY <2>1, <2>2 DEF OwnInv
  <2> QED BY <2>1, <2>3, <2>4 DEF PooledEngineOpen, HeldInv, RoomInv
<1> QED BY <1>1, PoolInvariant, PTL

\* The sentence inside LiveSessionKeepsEngine.
EngineStays ==
    \A k \in Pooled :
        LET e == entries[k]
        IN  session[e.session] = "live" /\ engine[e.engine] = "up" /\ entries'[k] # e
              => \E t \in Threads : pc'[t] \in {"swapping", "unloading"} /\ pc[t] # pc'[t]

\* A running engine leaves its session only in a swap of the runtime, or when its
\* build cannot be loaded after one: callbacks and prunes take engines of
\* sessions that are gone, and get never takes one that runs, since no two
\* sessions that are there have one id.
THEOREM LiveSessionsKeepEngines == Spec => LiveSessionKeepsEngine
<1>1. ASSUME IInv, [Next]_vars PROVE EngineStays
  <2> SUFFICES ASSUME NEW k \in Pooled, session[entries[k].session] = "live",
                      engine[entries[k].engine] = "up", entries'[k] # entries[k]
               PROVE  \E t \in Threads : pc'[t] \in {"swapping", "unloading"} /\ pc[t] # pc'[t]
    BY DEF EngineStays
  <2>1. /\ Types /\ PlaceInv /\ OwnInv /\ HeldInv /\ SlotsExact /\ KeyInv
        /\ KeyOf[entries[k].session] = k /\ entries[k].session \in Sessions
        /\ k \in Keys /\ k \notin Stale
    <3>1. Types /\ PlaceInv /\ OwnInv /\ HeldInv /\ SlotsExact /\ KeyInv
      BY <1>1 DEF IInv
    <3>2. k \in Keys
      BY DEF Pooled
    <3>3. entries[k].session \in Sessions
      BY <3>1, <3>2, EntryIs DEF Types
    <3> QED BY <3>1, <3>2, <3>3 DEF KeyInv, Stale
  <2>2. \A K : entries' = Dropped(K) => k \in K
    BY <2>1 DEF Dropped
  <2>3. ~UNCHANGED vars /\ \A a : ~(close(a) \/ release_slot(a) \/ discarded(a))
    BY DEF vars, poolVars, close, release_slot, discarded
  <2>4. \A s \in Sessions : ~(connect(s) \/ collect(s))
    BY DEF connect, collect, poolVars
  <2>5. \A e \in Engines : ~engine_dies(e)
    BY DEF engine_dies, poolVars
  <2>6. ASSUME NEW t \in Threads,
               \/ run_levers(t) \/ acquire_slot(t) \/ refuse_slot(t) \/ count_slot(t)
               \/ start_fails(t) \/ start_failed(t) \/ close_raises(t)
               \/ create_locked(t) \/ pass_over(t) \/ close_extras(t) \/ let_go(t)
        PROVE  FALSE
    BY <2>6 DEF run_levers, acquire_slot, refuse_slot, count_slot, start_fails, start_failed,
       close_raises, create_locked, pass_over, close_extras, let_go, poolVars
  <2>7. ASSUME NEW t \in Threads, get(t) PROVE FALSE
    BY <2>1, <2>2, <2>7 DEF get
  <2>8. ASSUME NEW t \in Threads, look_up(t) PROVE FALSE
    <3>1. /\ ~(/\ entries[KeyOf[who[t]]].session = who[t]
               /\ engine[entries[KeyOf[who[t]]].engine] = "up")
          /\ entries' = Dropped({KeyOf[who[t]]})
      BY <2>1, <2>8, LookUpDrops
    <3>2. k = KeyOf[who[t]]
      BY <2>2, <3>1
    <3>3. who[t] \in Sessions /\ session[who[t]] = "live"
      BY <2>1, <2>8 DEF look_up, PlaceInv, Placed
    <3>4. entries[k].session = who[t]
      BY <2>1, <3>2, <3>3 DEF KeyInv
    <3> QED BY <3>1, <3>2, <3>4
  <2>9. ASSUME NEW t \in Threads, start_engine(t) PROVE FALSE
    <3>1. pool_lock = t
      BY <2>9 DEF start_engine, poolVars
    <3>2. entries[KeyOf[who[t]]] = NoEntry
      BY <2>1, <2>9, <3>1 DEF start_engine, PlaceInv, Placed
    <3>3. k # KeyOf[who[t]]
      BY <3>2 DEF Pooled
    <3> QED BY <2>1, <2>9, <3>1, <3>3 DEF start_engine, Types
  <2>10. ASSUME NEW g \in Collectors, discard_collected(g) PROVE FALSE
    <3>1. PICK s \in callbacks : \E K : entries' = Dropped(K) /\ \A l \in K : entries[l].session = s
      BY <2>1, <2>10, DiscardDrops
    <3>2. entries[k].session = s
      BY <2>2, <3>1
    <3> QED BY <2>1, <3>2 DEF KeyInv
  <2>11. ASSUME NEW t \in Threads, preserve_sessions(t) \/ load(t)
         PROVE  pc'[t] \in {"swapping", "unloading"} /\ pc[t] # pc'[t]
    <3>1. CASE preserve_sessions(t)
      BY <2>1, <3>1 DEF preserve_sessions, Types, Actors
    <3>2. CASE load(t)
      <4>1. pc[t] = "loading" /\ pc' = [pc EXCEPT ![t] = "unloading"]
        BY <2>1, <3>2, LoadDrops DEF load
      <4> QED BY <2>1, <4>1 DEF Types, Actors
    <3> QED BY <2>11, <3>1, <3>2
  <2> QED BY <1>1, <2>3, <2>4, <2>5, <2>6, <2>7, <2>8, <2>9, <2>10, <2>11
          DEF Next, ThreadStep, CollectorStep
<1>2. IInv /\ [Next]_vars => [EngineStays]_vars
  BY <1>1
<1> QED BY <1>2, PoolInvariant, PTL DEF Spec, LiveSessionKeepsEngine, EngineStays

----------------------------------------------------------------------------
(* No engine is lost *)

\* A close that raises skips the rest of its list, and an OSError the extra
\* engines; neither leaves anything out if lists have one engine at most.
NothingSkipped ==
    /\ TRUE \in CloseRaises => MaxPool = 1 /\ MaxExtras <= 1
    /\ "OSError" \in Errors => MaxExtras <= 1

\* The extras stay within their number, also when the one that starts joins.
ExtrasInv ==
    \A t \in Threads :
        /\ Len(extras[t]) <= MaxExtras
        /\ pc[t] \in {"slotted", "starting"} \cup Errors /\ pool_lock # t =>
             Len(extras[t]) < MaxExtras

ListsInv == MaxPool = 1 /\ MaxExtras <= 1 => \A a \in Actors : Len(todo[a]) <= 1

\* An engine that holds a slot has an owner.
Owned ==
    \A e \in Engines : engine[e] # "none" =>
        \/ \E k \in Pooled : entries[k].engine = e
        \/ \E a \in Actors : e \in Hand(a)

OwnedInv == NothingSkipped => Owned

\* What happens to the extras of a thread.
LEMMA ExtrasStep ==
    ASSUME Types, PlaceInv, SlotsExact, ExtrasInv, [Next]_vars
    PROVE  ExtrasInv'
<1>1. SUFFICES ASSUME NEW t \in Threads
               PROVE  /\ Len(extras'[t]) <= MaxExtras
                      /\ pc'[t] \in {"slotted", "starting"} \cup Errors /\ pool_lock' # t =>
                           Len(extras'[t]) < MaxExtras
  BY DEF ExtrasInv
<1> DEFINE Good == /\ Len(extras'[t]) <= MaxExtras
                   /\ pc'[t] \in {"slotted", "starting"} \cup Errors /\ pool_lock' # t =>
                        Len(extras'[t]) < MaxExtras
<1>0. /\ t \in Actors /\ MaxExtras \in Nat /\ Len(extras[t]) \in Nat /\ Len(extras[t]) <= MaxExtras
      /\ pc[t] \in {"slotted", "starting"} \cup Errors /\ pool_lock # t => Len(extras[t]) < MaxExtras
      /\ Len(<<>>) = 0
  BY PoolTyped DEF Types, ExtrasInv, Actors
<1>2. CASE UNCHANGED <<pool_lock, extras>> /\ pc'[t] = pc[t]
  BY <1>0, <1>2
<1>3. ASSUME extras'[t] = extras[t], pc'[t] \notin {"slotted", "starting"} \cup Errors
      PROVE  Good
  BY <1>0, <1>3
<1>4. ASSUME NEW u \in Threads, u # t,
             ThreadStep(u) \/ get(u) \/ preserve_sessions(u) \/ run_levers(u)
      PROVE  Good
  <2>1. extras'[t] = extras[t] /\ pc'[t] = pc[t]
    BY <1>0, <1>4 DEF ThreadStep, get, preserve_sessions, run_levers, acquire_slot, refuse_slot,
       count_slot, start_engine, start_fails, start_failed, close, release_slot, close_raises,
       look_up, create_locked, load, pass_over, close_extras, let_go, Raises, Returns, Types
  <2>2. pool_lock = t => pool_lock' = t
    <3>1. CASE get(u) \/ preserve_sessions(u)
      BY <3>1, PoolNames DEF get, preserve_sessions
    <3>2. CASE run_levers(u) \/ acquire_slot(u) \/ count_slot(u) \/ start_fails(u) \/ close(u)
                 \/ release_slot(u) \/ create_locked(u) \/ load(u) \/ pass_over(u) \/ close_extras(u)
      BY <3>2 DEF run_levers, acquire_slot, count_slot, start_fails, close, release_slot,
         create_locked, load, pass_over, close_extras, poolVars
    <3>3. CASE refuse_slot(u) \/ start_engine(u) \/ start_failed(u) \/ close_raises(u) \/ let_go(u)
      BY <1>4, <3>3 DEF refuse_slot, start_engine, start_failed, close_raises, let_go, Unlocked,
         poolVars
    <3>4. CASE look_up(u)
      BY <1>4, <3>4 DEF look_up, PlaceInv, Placed
    <3> QED BY <1>4, <3>1, <3>2, <3>3, <3>4 DEF ThreadStep
  <2> QED BY <1>0, <2>1, <2>2
<1>5. ASSUME NEW g \in Collectors, CollectorStep(g)
      PROVE  Good
  <2>1. UNCHANGED <<pool_lock, extras>> /\ pc'[t] = pc[t]
    BY <1>0, <1>5, PoolNames DEF CollectorStep, discard_collected, discarded, close, release_slot,
       poolVars, Types
  <2> QED BY <1>2, <2>1
<1>6. ASSUME NEW s \in Sessions, connect(s) \/ collect(s) PROVE Good
  BY <1>2, <1>6 DEF connect, collect, poolVars, threadVars
<1>7. ASSUME NEW e \in Engines, engine_dies(e) PROVE Good
  BY <1>2, <1>7 DEF engine_dies, poolVars, threadVars
<1>8. CASE UNCHANGED vars
  BY <1>2, <1>8 DEF vars, poolVars, threadVars
<1>9. CASE get(t) \/ preserve_sessions(t) \/ run_levers(t) \/ look_up(t) \/ create_locked(t)
             \/ load(t) \/ pass_over(t) \/ let_go(t) \/ refuse_slot(t)
  <2>1. extras'[t] = extras[t] /\ pc'[t] \notin {"slotted", "starting"} \cup Errors
    BY <1>0, <1>9, PoolTyped DEF get, preserve_sessions, run_levers, look_up, create_locked, load,
       pass_over, let_go, refuse_slot, Raises, Returns, Onward, Types
  <2> QED BY <1>3, <2>1
<1>10. CASE close(t) \/ release_slot(t)
  BY <1>2, <1>10 DEF close, release_slot, poolVars
<1>11. CASE close_raises(t)
  <2>1. extras'[t] = extras[t] /\ pc'[t] \notin {"slotted", "starting"} \cup Errors
    BY <1>0, <1>11, PoolTyped DEF close_raises, Onward, Types
  <2> QED BY <1>3, <2>1
<1>12. CASE acquire_slot(t)
  <2>1. UNCHANGED <<extras, pool_lock>>
    BY <1>12 DEF acquire_slot, poolVars
  <2>2. pool_lock # t => Len(extras[t]) < MaxExtras
    BY <1>12 DEF acquire_slot, Starts, PlaceInv, Placed
  <2> QED BY <1>0, <2>1, <2>2
<1>13. CASE count_slot(t) \/ start_fails(t)
  <2>1. UNCHANGED <<extras, pool_lock>> /\ pc[t] \in {"slotted", "starting"}
    BY <1>13 DEF count_slot, start_fails, poolVars
  <2> QED BY <1>0, <2>1
<1>14. CASE start_engine(t)
  <2>1. pc'[t] \in {"idle", "loading", "optimizing"} /\ pc[t] = "starting"
    BY <1>0, <1>14 DEF start_engine, Returns, Types
  <2>2. CASE pool_lock = t
    BY <1>0, <1>14, <2>1, <2>2, PoolTyped DEF start_engine
  <2>3. CASE pool_lock # t
    <3>1. extras' = [extras EXCEPT ![t] = Append(@, Head(todo[t]))]
      BY <1>14, <2>3 DEF start_engine
    <3>2. Head(todo[t]) \in Engines
      BY <2>1, StartingHolds
    <3>3. extras'[t] = Append(extras[t], Head(todo[t])) /\ extras[t] \in Seq(Engines)
      BY <3>1 DEF Types
    <3>4. Len(extras'[t]) = Len(extras[t]) + 1
      BY <3>2, <3>3
    <3> QED BY <1>0, <2>1, <2>3, <3>4, PoolTyped
  <2> QED BY <2>2, <2>3
<1>15. CASE start_failed(t) \/ close_extras(t)
  <2>1. /\ extras'[t] = extras[t] \/ extras'[t] = <<>>
        /\ pc'[t] \notin {"slotted", "starting"} \cup Errors
    BY <1>0, <1>15, PoolTyped DEF start_failed, close_extras, Raises, Onward, Types
  <2> QED BY <1>0, <2>1
<1> QED BY <1>1, <1>4, <1>5, <1>6, <1>7, <1>8, <1>9, <1>10, <1>11, <1>12, <1>13, <1>14, <1>15
        DEF Next, ThreadStep

LEMMA ListsStep ==
    ASSUME IInv, ExtrasInv, ListsInv, [Next]_vars
    PROVE  ListsInv'
<1> SUFFICES ASSUME MaxPool = 1, MaxExtras <= 1, NEW b \in Actors
             PROVE  Len(todo'[b]) <= 1
  BY DEF ListsInv
<1>0. /\ Types /\ PlaceInv /\ OwnInv /\ HeldInv /\ SlotsExact /\ RoomInv
      /\ \A a \in Actors : Len(todo[a]) <= 1 /\ todo[a] \in Seq(Engines)
      /\ Len(<<>>) = 0 /\ \A e : Len(<<e>>) = 1
  BY DEF IInv, ListsInv, Types
<1>1. CASE UNCHANGED todo
  BY <1>0, <1>1
<1>2. ASSUME NEW a \in Actors, NEW q, todo' = [todo EXCEPT ![a] = q], Len(q) <= 1
      PROVE  Len(todo'[b]) <= 1
  BY <1>0, <1>2 DEF Types
<1>3. ASSUME NEW a \in Actors, NEW K, Drops(a, K) PROVE Len(todo'[b]) <= 1
  <2>1. PICK q \in Seq(Engines) : Len(q) <= Cardinality(Pooled) /\ todo' = [todo EXCEPT ![a] = q]
    BY <1>3 DEF Drops
  <2>2. Cardinality(Pooled) <= 1 /\ Cardinality(Pooled) \in Nat
    BY <1>0, KeysFinite, FS_Subset, FS_CardinalityType DEF RoomInv, Pooled
  <2>3. Len(q) <= 1
    BY <2>1, <2>2
  <2> HIDE <1>3
  <2> QED BY <1>2, <2>1, <2>3
<1>4. ASSUME NEW a \in Actors, Releases(a) PROVE Len(todo'[b]) <= 1
  <2>1. todo[a] \in Seq(Engines) /\ todo[a] # <<>> /\ Len(todo[a]) <= 1
    BY <1>0, <1>4 DEF Releases
  <2>2. Len(Tail(todo[a])) <= 1
    BY <2>1
  <2>3. todo' = [todo EXCEPT ![a] = Tail(todo[a])] \/ todo' = [todo EXCEPT ![a] = <<>>]
    BY <1>4 DEF Releases
  <2>4. Len(<<>>) <= 1
    BY <1>0
  <2> QED BY <1>2, <2>2, <2>3, <2>4
<1>5. ASSUME NEW t \in Threads, Cleans(t) PROVE Len(todo'[b]) <= 1
  <2>1. Len(extras[t]) <= 1
    BY <1>0, PoolTyped DEF ExtrasInv, Types
  <2> QED BY <1>2, <1>5, <2>1 DEF Cleans, Actors
<1>6. ASSUME NEW t \in Threads, Begins(t) \/ Joins(t) \/ Extends(t) PROVE Len(todo'[b]) <= 1
  <2>1. \/ todo' = [todo EXCEPT ![t] = <<>>]
        \/ \E e : todo' = [todo EXCEPT ![t] = <<e>>]
    BY <1>6 DEF Begins, Joins, Extends
  <2>2. t \in Actors /\ Len(<<>>) <= 1 /\ \A e : Len(<<e>>) <= 1
    BY <1>0 DEF Actors
  <2> QED BY <1>2, <2>1, <2>2
<1>7. ASSUME NEW a, Keeps \/ Changes \/ Abandons(a) PROVE UNCHANGED todo
  BY <1>7 DEF Keeps, Changes, Abandons
<1> QED BY <1>0, <1>1, <1>3, <1>4, <1>5, <1>6, <1>7, StepDoes DEF Does

\* If what a or the pool gives up goes to the other or has no slot any more, and
\* what gets a slot is in a's hands, every engine keeps an owner.
LEMMA OwnedKept ==
    ASSUME Types, Owned, NEW a \in Actors,
           \A b \in Actors \ {a} : Hand(b)' = Hand(b),
           \A e \in Hand(a) : \/ e \in Hand(a)' \/ engine'[e] = "none"
                              \/ \E k \in Pooled' : entries'[k].engine = e,
           \A k \in Pooled : \/ k \in Pooled' /\ entries'[k] = entries[k]
                             \/ entries[k].engine \in Hand(a)',
           \A e \in Engines : engine[e] = "none" => engine'[e] = "none" \/ e \in Hand(a)'
    PROVE  Owned'
<1> SUFFICES ASSUME NEW e \in Engines, engine'[e] # "none"
             PROVE  \/ \E k \in Pooled' : entries'[k].engine = e
                    \/ \E b \in Actors : e \in Hand(b)'
  BY DEF Owned
<1>1. CASE engine[e] = "none"
  BY <1>1
<1>2. ASSUME NEW k \in Pooled, entries[k].engine = e
      PROVE  \/ \E l \in Pooled' : entries'[l].engine = e
             \/ e \in Hand(a)'
  BY <1>2
<1>3. ASSUME NEW b \in Actors, e \in Hand(b)
      PROVE  \/ \E l \in Pooled' : entries'[l].engine = e
             \/ \E c \in Actors : e \in Hand(c)'
  BY <1>3
<1> QED BY <1>1, <1>2, <1>3 DEF Owned

LEMMA OwnedByDrops ==
    ASSUME Types, PlaceInv, Owned, NEW a \in Actors, NEW K, Drops(a, K)
    PROVE  Owned'
<1>1. PICK q \in Seq(Engines) :
        /\ ToSet(q) = {entries[k].engine : k \in K}
        /\ todo' = [todo EXCEPT ![a] = q]
  BY DEF Drops
<1>2. /\ K \subseteq Pooled /\ todo[a] = <<>> /\ UNCHANGED <<extras, engine>>
      /\ Pooled' = Pooled \ K /\ \A k \in Pooled' : entries'[k] = entries[k]
  BY DEF Drops
<1>3. todo'[a] = q
  BY <1>1 DEF Types
<1>4. \A b \in Actors \ {a} : Hand(b)' = Hand(b)
  BY <1>1, <1>2, HandKept
<1>5. Hand(a)' = Hand(a) \cup {entries[k].engine : k \in K}
  BY <1>1, <1>2, <1>3, EmptyList DEF Hand
<1> QED BY <1>2, <1>4, <1>5, OwnedKept

LEMMA OwnedByBegins ==
    ASSUME Types, Owned, NEW a \in Threads, Begins(a)
    PROVE  Owned'
<1>1. PICK e \in Engines :
        /\ engine[e] = "none" /\ engine' = [engine EXCEPT ![e] = "starting"]
        /\ todo' = [todo EXCEPT ![a] = <<e>>]
  BY DEF Begins
<1>2. a \in Actors /\ todo[a] = <<>> /\ UNCHANGED <<entries, extras>> /\ Pooled' = Pooled
  BY DEF Begins, Actors, Pooled
<1>3. todo'[a] = <<e>>
  BY <1>1, <1>2 DEF Types
<1>4. \A b \in Actors \ {a} : Hand(b)' = Hand(b)
  BY <1>1, <1>2, HandKept
<1>5. Hand(a)' = Hand(a) \cup {e}
  BY <1>2, <1>3, EmptyList, SingleList DEF Hand
<1>6. \A d \in Engines \ {e} : engine'[d] = engine[d]
  BY <1>1 DEF Types
<1> QED BY <1>2, <1>4, <1>5, <1>6, OwnedKept

LEMMA OwnedByJoins ==
    ASSUME Types, Owned, NEW a \in Threads, Joins(a)
    PROVE  Owned'
<1> DEFINE k == KeyOf[who[a]]
<1>1. PICK e \in Engines :
        /\ todo[a] = <<e>> /\ engine[e] = "starting"
        /\ entries' = [entries EXCEPT ![k] = [session |-> who[a], engine |-> e]]
        /\ engine' = [engine EXCEPT ![e] = "up"] /\ todo' = [todo EXCEPT ![a] = <<>>]
  BY DEF Joins
<1>2. a \in Actors /\ who[a] \in Sessions /\ k \in Keys \ Pooled /\ UNCHANGED extras
  BY DEF Joins, Actors
<1> HIDE DEF k
<1>3. todo'[a] = <<>>
  BY <1>1, <1>2 DEF Types
<1>4. \A b \in Actors \ {a} : Hand(b)' = Hand(b)
  BY <1>1, <1>2, HandKept
<1>5. \A d \in Hand(a) : d = e \/ d \in Hand(a)'
  BY <1>1, <1>2, <1>3, EmptyList, SingleList DEF Hand
<1>6. \A d \in Engines : engine[d] = "none" => engine'[d] = "none"
  BY <1>1 DEF Types
<1>7. entries'[k].engine = e /\ entries'[k] # NoEntry /\ \A l \in Keys \ {k} : entries'[l] = entries[l]
  BY <1>1, <1>2, PoolNames DEF Types, NoEntry
<1>8. Pooled' = Pooled \cup {k}
  BY <1>2, <1>7 DEF Pooled
<1>9. \A l \in Pooled : l \in Pooled' /\ entries'[l] = entries[l]
  BY <1>2, <1>7, <1>8 DEF Pooled
<1>10. \A d \in Hand(a) : d \in Hand(a)' \/ \E l \in Pooled' : entries'[l].engine = d
  BY <1>5, <1>7, <1>8
<1> QED BY <1>2, <1>4, <1>6, <1>9, <1>10, OwnedKept

LEMMA OwnedByExtends ==
    ASSUME Types, Owned, NEW a \in Threads, Extends(a)
    PROVE  Owned'
<1>1. PICK e \in Engines :
        /\ todo[a] = <<e>> /\ engine[e] = "starting"
        /\ extras' = [extras EXCEPT ![a] = Append(@, e)]
        /\ engine' = [engine EXCEPT ![e] = "up"] /\ todo' = [todo EXCEPT ![a] = <<>>]
  BY DEF Extends
<1>2. a \in Actors /\ UNCHANGED entries /\ Pooled' = Pooled
  BY DEF Extends, Actors, Pooled
<1>3. todo'[a] = <<>> /\ extras'[a] = Append(extras[a], e)
  BY <1>1, <1>2 DEF Types
<1>4. \A b \in Actors \ {a} : Hand(b)' = Hand(b)
  BY <1>1, <1>2, HandKept
<1>5. ToSet(extras'[a]) = ToSet(extras[a]) \cup {e}
  BY <1>3, AppendedList DEF Types
<1>6. Hand(a)' = Hand(a)
  BY <1>1, <1>2, <1>3, <1>5, EmptyList, SingleList DEF Hand
<1>7. \A d \in Engines : engine[d] = "none" => engine'[d] = "none"
  BY <1>1 DEF Types
<1> QED BY <1>2, <1>4, <1>6, <1>7, OwnedKept

LEMMA OwnedByChanges ==
    ASSUME Types, Owned, Changes
    PROVE  Owned'
<1>1. PICK e \in Engines, v \in {"dead", "uncounted"} :
        engine[e] # "none" /\ engine' = [engine EXCEPT ![e] = v]
  BY DEF Changes
<1>2. UNCHANGED <<entries, todo, extras>> /\ Pooled' = Pooled
  BY DEF Changes, Pooled
<1>3. \A b \in Actors : Hand(b)' = Hand(b)
  BY <1>2 DEF Hand
<1>4. \A d \in Engines : engine[d] = "none" => engine'[d] = "none"
  BY <1>1 DEF Types
<1> QED BY <1>2, <1>3, <1>4 DEF Owned

\* A close that raises skips nothing: its list had no other engine.
LEMMA OwnedByReleases ==
    ASSUME Types, OwnInv, HeldInv, ListsInv, NothingSkipped, Owned,
           NEW a \in Actors, Releases(a)
    PROVE  Owned'
<1> DEFINE e == Head(todo[a])
<1>1. /\ todo[a] # <<>> /\ engine' = [engine EXCEPT ![e] = "none"]
      /\ UNCHANGED <<entries, extras>> /\ Pooled' = Pooled
  BY DEF Releases, Pooled
<1>2. /\ e \in Engines /\ e \in ToSet(todo[a])
      /\ ToSet(Tail(todo[a])) = ToSet(todo[a]) \ {e}
  BY <1>1, HeadHeld, HeadOfList DEF Types
<1>3. \A b \in Actors \ {a} : Hand(b)' = Hand(b)
  BY <1>1, HandKept DEF Releases
<1>4. \A d \in ToSet(todo[a]) : d = e \/ d \in ToSet(todo'[a])
  <2>1. CASE todo' = [todo EXCEPT ![a] = Tail(@)]
    <3>1. todo'[a] = Tail(todo[a])
      BY <2>1 DEF Types
    <3> QED BY <1>2, <3>1
  <2>2. CASE TRUE \in CloseRaises
    <3>1. Len(todo[a]) <= 1
      BY <2>2 DEF NothingSkipped, ListsInv
    <3>2. todo[a] \in Seq(Engines)
      BY DEF Types
    <3>3. \A d \in ToSet(todo[a]) : d = Head(todo[a])
      BY <1>1, <3>1, <3>2 DEF ToSet
    <3> QED BY <3>3
  <2> QED BY <2>1, <2>2 DEF Releases
<1> HIDE DEF e
<1>5. engine'[e] = "none" /\ \A d \in Engines \ {e} : engine'[d] = engine[d]
  BY <1>1, <1>2 DEF Types
<1>6. \A d \in Hand(a) : d \in Hand(a)' \/ engine'[d] = "none"
  BY <1>1, <1>4, <1>5 DEF Hand
<1>7. \A d \in Engines : engine[d] = "none" => engine'[d] = "none"
  BY <1>5
<1>8. \A k \in Pooled : k \in Pooled' /\ entries'[k] = entries[k]
  BY <1>1
<1> QED BY <1>3, <1>6, <1>7, <1>8, OwnedKept

\* Neither does the error that lets the extras go: there are none.
LEMMA OwnedByCleans ==
    ASSUME Types, PlaceInv, ExtrasInv, NothingSkipped, Owned,
           NEW a \in Threads, Cleans(a) \/ Abandons(a)
    PROVE  Owned'
<1>1. a \in Actors /\ UNCHANGED <<entries, engine>> /\ Pooled' = Pooled
  BY DEF Cleans, Abandons, Actors, Pooled
<1>2. Hand(a) \subseteq Hand(a)'
  <2>1. CASE Cleans(a)
    <3>1. todo[a] = <<>> /\ todo'[a] = extras[a]
      BY <1>1, <2>1 DEF Cleans, Types
    <3> QED BY <3>1, EmptyList DEF Hand
  <2>2. CASE Abandons(a)
    <3>1. extras[a] = <<>>
      <4>1. pc[a] = "OSError" /\ "OSError" \in Errors /\ MaxExtras <= 1
        BY <2>2 DEF Abandons, NothingSkipped
      <4>2. CASE pool_lock = a
        BY <4>2 DEF PlaceInv, Placed
      <4>3. CASE pool_lock # a
        <5>1. Len(extras[a]) < MaxExtras
          BY <4>1, <4>3 DEF ExtrasInv
        <5>2. extras[a] \in Seq(Engines) /\ MaxExtras \in Nat
          BY PoolTyped DEF Types
        <5> QED BY <4>1, <5>1, <5>2
      <4> QED BY <4>2, <4>3
    <3>2. UNCHANGED todo
      BY <2>2 DEF Abandons
    <3> QED BY <3>1, <3>2, EmptyList DEF Hand
  <2> QED BY <2>1, <2>2
<1>3. \/ todo' = [todo EXCEPT ![a] = extras[a]]
      \/ todo' = todo
  BY DEF Cleans, Abandons
<1>4. extras' = [extras EXCEPT ![a] = <<>>]
  BY DEF Cleans, Abandons
<1>5. \A b \in Actors \ {a} : Hand(b)' = Hand(b)
  BY <1>1, <1>3, <1>4, HandKept
<1> QED BY <1>1, <1>2, <1>5, OwnedKept

LEMMA OwnedStep ==
    ASSUME IInv, ExtrasInv, ListsInv, OwnedInv, [Next]_vars
    PROVE  OwnedInv'
<1> SUFFICES ASSUME NothingSkipped PROVE Owned'
  BY DEF OwnedInv, NothingSkipped
<1>0. Types /\ PlaceInv /\ OwnInv /\ HeldInv /\ SlotsExact /\ Owned
  BY DEF IInv, OwnedInv
<1>1. CASE Keeps
  <2>1. UNCHANGED <<entries, todo, extras, engine>> /\ Pooled' = Pooled
    BY <1>1 DEF Keeps, Pooled
  <2>2. \A a \in Actors : Hand(a)' = Hand(a)
    BY <2>1 DEF Hand
  <2> QED BY <1>0, <2>1, <2>2 DEF Owned
<1>2. CASE Changes
  BY <1>0, <1>2, OwnedByChanges
<1>3. ASSUME NEW a \in Actors, Does(a) PROVE Owned'
  BY <1>0, <1>1, <1>2, <1>3, OwnedByDrops, OwnedByReleases, OwnedByBegins, OwnedByJoins,
     OwnedByExtends, OwnedByCleans DEF Does
<1> QED BY <1>0, <1>1, <1>2, <1>3, StepDoes

LEMMA OwnedInvariant == Spec => [](IInv /\ ExtrasInv /\ ListsInv /\ OwnedInv)
<1>1. Init => ExtrasInv /\ ListsInv /\ OwnedInv
  <2> SUFFICES ASSUME Init PROVE ExtrasInv /\ ListsInv /\ Owned
    BY DEF OwnedInv
  <2>1. Len(<<>>) = 0 /\ MaxExtras \in Nat
    BY PoolTyped
  <2>2. ExtrasInv
    BY <2>1, PoolTyped DEF Init, ExtrasInv, Actors
  <2>3. ListsInv
    BY <2>1 DEF Init, ListsInv
  <2>4. Owned
    BY DEF Init, Owned
  <2> QED BY <2>2, <2>3, <2>4
<1>2. IInv /\ ExtrasInv /\ ListsInv /\ OwnedInv /\ [Next]_vars
        => IInv' /\ ExtrasInv' /\ ListsInv' /\ OwnedInv'
  <2> SUFFICES ASSUME IInv, ExtrasInv, ListsInv, OwnedInv, [Next]_vars
               PROVE  IInv' /\ ExtrasInv' /\ ListsInv' /\ OwnedInv'
    OBVIOUS
  <2>1. Types /\ PlaceInv /\ SlotsExact
    BY DEF IInv
  <2> QED BY <2>1, PoolStep, ExtrasStep, ListsStep, OwnedStep
<1> QED BY <1>1, <1>2, PoolStarts, PTL DEF Spec

\* Capacity comes back: an engine that holds a slot is in the pool, for a session
\* that is there or whose callback has still to run, or in the hands of a thread
\* or a callback that will close it.  What the hypothesis excludes does lose
\* engines: a close that raises (PobEngine.close) ends the loop over a list of
\* several, and an error other than PobEngineError leaves _run_levers with the
\* engines it had started.
THEOREM NoEngineIsLost == ASSUME NothingSkipped PROVE Spec => []NoEngineLost
<1>1. IInv /\ OwnedInv => NoEngineLost
  <2> SUFFICES ASSUME IInv, Owned, NEW e \in Engines, engine[e] # "none"
               PROVE  \/ \E k \in Pooled : /\ entries[k].engine = e
                                           /\ k \in Stale => entries[k].session \in callbacks
                      \/ \E a \in Actors : e \in ToSet(todo[a])
                      \/ \E t \in Threads : e \in ToSet(extras[t])
    BY DEF NoEngineLost, OwnedInv
  <2>1. CASE \E k \in Pooled : entries[k].engine = e
    BY <2>1 DEF IInv, PendingInv
  <2>2. CASE \E a \in Actors : e \in Hand(a)
    BY <2>2 DEF Hand
  <2> QED BY <2>1, <2>2 DEF Owned
<1> QED BY <1>1, OwnedInvariant, PTL
=============================================================================
