----------------------- MODULE LearningCampaignProofs -----------------------
(***************************************************************************)
(* What LearningCampaign keeps for every number of cases, agents, lessons  *)
(* and failed appends.  The memory file and the campaign share no          *)
(* variable, so each has an invariant of its own (MemoryInv, CampaignInv)  *)
(* and every step changes one of the two.                                  *)
(***************************************************************************)
EXTENDS LearningCampaign, SequenceTheorems, FiniteSetTheorems, WellFoundedInduction, TLAPS

----------------------------------------------------------------------------
(* The memory *)

\* Events that are in order: none refers to a later one, and replacements end.
InOrder(E) ==
    /\ \A e \in E : e.target <= e.id /\ (e.action = "lesson" => e.target = e.id)
    /\ ReplacementsEnd(E)

Lost == acknowledged \ {e.id : e \in Events}

\* A last line without its end is still read, until the next append spoils it:
\* nobody was told of it, and the memory is in order without it.
OpenInv ==
    tail = "open" =>
        /\ lines # None /\ Len(lines) > 0
        /\ lines[Len(lines)].id \notin acknowledged
        /\ InOrder(EventsOf(SubSeq(lines, 1, Len(lines) - 1)))

\* An append that failed has cost nothing as long as its line is the last one.
MemoryInv ==
    /\ MemoryTypeOK
    /\ acknowledged \subseteq 1 .. issued
    /\ \A e \in Events : e.id <= issued
    /\ InOrder(Events)
    /\ OpenInv
    /\ lines = None => acknowledged = {} /\ tail = "whole" /\ torn = 0 /\ issued = Len(Seed)
    /\ Cardinality(Lost) <= torn - (IF tail = "whole" THEN 0 ELSE 1)

----------------------------------------------------------------------------
LEMMA EventNumbers ==
    \A e \in Event : /\ e.id \in Id /\ e.id \in Nat /\ e.target \in Id /\ e.target \in Nat
                     /\ e.action \in Actions \cup {"lesson"}
BY MemoryConstants DEF Event, Id

\* Some event of a set is its last one.
LEMMA LastExists ==
    ASSUME NEW S \in SUBSET Event, S # {}
    PROVE  LastOf(S) \in S /\ \A f \in S : f.id <= LastOf(S).id
<1> DEFINE T == {MaxEvents - e.id : e \in S}
<1>0. MaxEvents \in Nat /\ \A e \in S : e.id \in 1 .. MaxEvents
  BY MemoryConstants DEF Event, Id
<1>1. T \subseteq Nat /\ T # {}
  BY <1>0
<1>2. PICK x \in T : \A y \in T : ~ (<<y, x>> \in OpToRel(<, Nat))
  BY <1>1, WFMin, NatLessThanWellFounded
<1>3. \A y \in T : ~ (y < x)
  BY <1>1, <1>2 DEF OpToRel
<1>4. PICK e \in S : x = MaxEvents - e.id
  OBVIOUS
<1>5. \A f \in S : f.id <= e.id
  <2>1. TAKE f \in S
  <2>2. MaxEvents - f.id \in T
    OBVIOUS
  <2>3. ~ (MaxEvents - f.id < MaxEvents - e.id)
    BY <1>3, <1>4, <2>2
  <2>4. f.id \in Int /\ e.id \in Int
    BY <1>0
  <2>. QED  BY <1>0, <2>3, <2>4
<1>6. \E g \in S : \A f \in S : f.id <= g.id
  BY <1>5
<1>. QED  BY <1>6 DEF LastOf

\* The event that is written last is the last one of its lesson.
LEMMA LastAdded ==
    ASSUME NEW S \in SUBSET Event, NEW e \in Event, \A f \in S : f.id < e.id
    PROVE  LastOf(S \cup {e}) = e
<1> DEFINE T == S \cup {e}
<1>0. T \in SUBSET Event /\ T # {}
  OBVIOUS
<1>1. LastOf(T) \in T /\ \A f \in T : f.id <= LastOf(T).id
  BY <1>0, LastExists
<1>2. e.id <= LastOf(T).id
  BY <1>1
<1>3. ASSUME LastOf(T) \in S  PROVE FALSE
  <2>1. LastOf(T).id < e.id /\ LastOf(T).id \in Nat /\ e.id \in Nat
    BY <1>3, EventNumbers
  <2>. QED  BY <1>2, <2>1
<1>. QED  BY <1>1, <1>3

\* An event that may be added: a new lesson, or what append_correction allows.
Addable(E, e) ==
    /\ e \in Event /\ \A f \in E : f.id < e.id
    /\ \/ e.action = "lesson" /\ e.target = e.id
       \/ /\ e.action \in Actions /\ e.target \in EffectiveIn(E)
          /\ e.action = "supersede" =>
                e.replacement \in EffectiveIn(E) /\ e.replacement # e.target

\* The history of a lesson is what the events say of it.
LEMMA HistoryFacts ==
    ASSUME NEW E \in SUBSET Event, InOrder(E), NEW i \in LessonsIn(E)
    PROVE  /\ i \in Id /\ HistoryIn(E, i) \in SUBSET E
           /\ LastOf(HistoryIn(E, i)) \in E
           /\ LastOf(HistoryIn(E, i)).target = i
           /\ StatusIn(E, i) \in {"active", "narrowed", "superseded", "deprecated"}
           /\ StatusIn(E, i) = "superseded" <=> LastOf(HistoryIn(E, i)).action = "supersede"
<1>1. PICK e \in E : e.action = "lesson" /\ e.id = i
  BY DEF LessonsIn
<1>2. e \in HistoryIn(E, i) /\ HistoryIn(E, i) \in SUBSET E
  BY <1>1 DEF InOrder, HistoryIn
<1>3. HistoryIn(E, i) \in SUBSET Event
  BY <1>2
<1>4. LastOf(HistoryIn(E, i)) \in HistoryIn(E, i)
  BY <1>2, <1>3, LastExists
<1>5. LastOf(HistoryIn(E, i)).target = i /\ LastOf(HistoryIn(E, i)) \in E
  BY <1>4 DEF HistoryIn
<1>6. LastOf(HistoryIn(E, i)).action \in Actions \cup {"lesson"}
  BY <1>5 DEF Event
<1>7. i \in Id
  BY <1>1 DEF Event
<1>. QED  BY <1>2, <1>5, <1>6, <1>7 DEF StatusIn, StatusAfter, Actions

\* An event that is added changes the history of its own lesson, whose last event
\* it becomes, and of no other.
LEMMA HistoryAfter ==
    ASSUME NEW E \in SUBSET Event, InOrder(E), NEW e, Addable(E, e), NEW i \in Id
    PROVE  /\ i # e.target => HistoryIn(E \cup {e}, i) = HistoryIn(E, i)
           /\ i = e.target => LastOf(HistoryIn(E \cup {e}, i)) = e
<1>1. CASE i # e.target
  BY <1>1 DEF HistoryIn
<1>2. CASE i = e.target
  <2>1. HistoryIn(E \cup {e}, i) = HistoryIn(E, i) \cup {e}
    BY <1>2 DEF HistoryIn
  <2>2. HistoryIn(E, i) \in SUBSET Event /\ \A f \in HistoryIn(E, i) : f.id < e.id
    BY DEF HistoryIn, Addable
  <2>3. e \in Event
    BY DEF Addable
  <2>4. LastOf(HistoryIn(E, i) \cup {e}) = e
    BY <2>2, <2>3, LastAdded
  <2>. QED  BY <1>2, <2>1, <2>4
<1>. QED  BY <1>1, <1>2

\* Adding an event keeps the events in order.
LEMMA AddKeepsOrder ==
    ASSUME NEW E \in SUBSET Event, InOrder(E), NEW e, Addable(E, e)
    PROVE  InOrder(E \cup {e})
<1> DEFINE F == E \cup {e}
<1>e. e \in Event /\ e.id \in Id /\ e.target \in Id
  BY DEF Addable, Event
<1>0. LessonsIn(E) \subseteq LessonsIn(F)
  BY DEF LessonsIn
<1>1. \A f \in F : f.target <= f.id /\ (f.action = "lesson" => f.target = f.id)
  <2>1. ASSUME e.action \in Actions, e.target \in EffectiveIn(E)
        PROVE  e.target <= e.id /\ e.action # "lesson"
    <3>1. PICK f \in E : f.id = e.target
      BY <2>1 DEF EffectiveIn, LessonsIn
    <3>2. f.id < e.id
      BY DEF Addable
    <3>. QED  BY <1>e, <2>1, <3>1, <3>2, MemoryConstants DEF Actions, Id
  <2>2. e.action = "lesson" /\ e.target = e.id => e.target <= e.id
    BY <1>e, MemoryConstants DEF Id
  <2>. QED  BY <2>1, <2>2 DEF InOrder, Addable
<1>2. ASSUME NEW i \in LessonsIn(F), StatusIn(F, i) = "superseded"
      PROVE  LET j == LastOf(HistoryIn(F, i)).replacement IN
             /\ j \in LessonsIn(F)
             /\ j \in EffectiveIn(F) \/ LastOf(HistoryIn(F, j)).id > LastOf(HistoryIn(F, i)).id
  <2>i. i \in Id
    BY <1>e DEF LessonsIn, Event
  <2>e. \A j \in EffectiveIn(E) : j # e.target => j \in EffectiveIn(F)
    <3>1. TAKE j \in EffectiveIn(E)
    <3>2. HAVE j # e.target
    <3>3. j \in LessonsIn(E) /\ j \in Id
      BY HistoryFacts DEF EffectiveIn
    <3>4. HistoryIn(F, j) = HistoryIn(E, j)
      BY <3>2, <3>3, HistoryAfter
    <3>. QED  BY <1>0, <3>3, <3>4 DEF EffectiveIn, StatusIn
  <2>1. CASE i = e.target
    <3>1. LastOf(HistoryIn(F, i)) = e
      BY <2>1, <2>i, HistoryAfter
    <3>2. e.action = "supersede"
      <4>1. StatusAfter[e.action] = "superseded"
        BY <1>2, <3>1 DEF StatusIn
      <4>2. e.action \in Actions \cup {"lesson"}
        BY <1>e DEF Event
      <4>. QED  BY <4>1, <4>2 DEF StatusAfter, Actions
    <3>3. e.replacement \in EffectiveIn(E) /\ e.replacement # e.target
      BY <3>2 DEF Addable, Actions
    <3>. QED  BY <1>0, <2>e, <3>1, <3>3 DEF EffectiveIn
  <2>2. CASE i # e.target
    <3>1. HistoryIn(F, i) = HistoryIn(E, i)
      BY <2>2, <2>i, HistoryAfter
    <3>2. i \in LessonsIn(E)
      BY <2>2 DEF LessonsIn, Addable, Actions
    <3>3. StatusIn(E, i) = "superseded"
      BY <1>2, <3>1 DEF StatusIn
    <3> DEFINE j == LastOf(HistoryIn(E, i)).replacement
    <3>4. /\ j \in LessonsIn(E)
          /\ j \in EffectiveIn(E) \/ LastOf(HistoryIn(E, j)).id > LastOf(HistoryIn(E, i)).id
      BY <3>2, <3>3 DEF InOrder, ReplacementsEnd
    <3>5. j \in Id
      BY <3>4, HistoryFacts
    <3>6. CASE j = e.target
      <4>1. LastOf(HistoryIn(F, j)) = e
        BY <3>5, <3>6, HistoryAfter
      <4>2. LastOf(HistoryIn(E, i)).id < e.id
        BY <3>2, HistoryFacts DEF Addable
      <4>3. LastOf(HistoryIn(E, i)).id \in Int /\ e.id \in Int
        BY <1>e, <3>2, HistoryFacts, MemoryConstants DEF Event, Id
      <4>. HIDE DEF j
      <4>. QED  BY <1>0, <3>1, <3>4, <4>1, <4>2, <4>3 DEF j
    <3>7. CASE j # e.target
      <4>1. HistoryIn(F, j) = HistoryIn(E, j)
        BY <3>5, <3>7, HistoryAfter
      <4>. QED  BY <1>0, <2>e, <3>1, <3>4, <3>7, <4>1
    <3>. QED  BY <3>6, <3>7
  <2>. QED  BY <2>1, <2>2
<1>. QED  BY <1>1, <1>2 DEF InOrder, ReplacementsEnd

\* What the sequences of events keep when a line is added or the last one goes.
LEMMA AppendEvents ==
    ASSUME NEW s \in Seq(Event), NEW e \in Event
    PROVE  /\ Append(s, e) \in Seq(Event) /\ Append(s, e) # None
           /\ Len(Append(s, e)) = Len(s) + 1 /\ Append(s, e)[Len(s) + 1] = e
           /\ EventsOf(Append(s, e)) = EventsOf(s) \cup {e}
           /\ EventsOf(SubSeq(Append(s, e), 1, Len(s))) = EventsOf(s)
<1> DEFINE t == Append(s, e)
<1>1. /\ t \in Seq(Event) /\ Len(t) = Len(s) + 1
      /\ \A n \in 1 .. Len(s) : t[n] = s[n]
      /\ t[Len(s) + 1] = e /\ Len(s) \in Nat
  BY AppendProperties, LenProperties
<1>2. \A n \in 1 .. Len(s) : s[n] \in Event
  BY ElementOfSeq
<1> HIDE DEF t
<1>3. EventsOf(t) = EventsOf(s) \cup {e}
  <2>1. 1 .. Len(t) = 1 .. Len(s) \cup {Len(s) + 1}
    BY <1>1
  <2>. QED  BY <1>1, <2>1 DEF EventsOf
<1>4. \A n \in 1 .. Len(s) : t[n] \in Event
  BY <1>1, <1>2
<1> DEFINE u == SubSeq(t, 1, Len(s))
<1>5. Len(u) = Len(s) /\ \A n \in 1 .. Len(s) : u[n] = s[n]
  <2>1. Len(u) = IF 1 <= Len(s) THEN Len(s) - 1 + 1 ELSE 0
    BY <1>1, <1>4, SubSeqProperties
  <2>2. \A n \in 1 .. Len(s) - 1 + 1 : u[n] = t[1 + n - 1]
    BY <1>1, <1>4, SubSeqProperties
  <2>3. Len(u) = Len(s)
    BY <1>1, <2>1
  <2>4. ASSUME NEW n \in 1 .. Len(s)  PROVE u[n] = s[n]
    <3>1. n \in 1 .. Len(s) - 1 + 1 /\ 1 + n - 1 = n
      BY <1>1
    <3>2. u[n] = t[1 + n - 1]
      BY <2>2, <3>1
    <3>. QED  BY <1>1, <3>1, <3>2
  <2>. QED  BY <2>3, <2>4
<1> HIDE DEF u
<1>6. EventsOf(u) = EventsOf(s)
  BY <1>5 DEF EventsOf
<1>7. t # None
  BY <1>1, MemoryConstants
<1>. QED  BY <1>1, <1>3, <1>6, <1>7 DEF t, u

LEMMA DropEvent ==
    ASSUME NEW s \in Seq(Event), Len(s) > 0
    PROVE  LET t == SubSeq(s, 1, Len(s) - 1) IN
           /\ t \in Seq(Event) /\ t # None
           /\ EventsOf(t) \subseteq EventsOf(s)
           /\ EventsOf(s) \subseteq EventsOf(t) \cup {s[Len(s)]}
<1> DEFINE t == SubSeq(s, 1, Len(s) - 1)
<1>0. Len(s) \in Nat \ {0}
  BY LenProperties
<1>1. Len(s) \in Nat /\ \A n \in 1 .. Len(s) : s[n] \in Event
  BY LenProperties, ElementOfSeq
<1>2. \A n \in 1 .. Len(s) - 1 : s[n] \in Event
  BY <1>1
<1>3. /\ t \in Seq(Event)
      /\ Len(t) = IF 1 <= Len(s) - 1 THEN (Len(s) - 1) - 1 + 1 ELSE 0
      /\ \A n \in 1 .. (Len(s) - 1) - 1 + 1 : t[n] = s[1 + n - 1]
  <2>1. 1 \in Int /\ Len(s) - 1 \in Int
    BY <1>1
  <2>. QED  BY <1>2, <2>1, SubSeqProperties
<1> HIDE DEF t
<1>4. Len(t) = Len(s) - 1
  <2>1. \A m \in Nat \ {0} : (IF 1 <= m - 1 THEN (m - 1) - 1 + 1 ELSE 0) = m - 1
    OBVIOUS
  <2>. QED  BY <1>0, <1>3, <2>1
<1>5. \A n \in 1 .. Len(t) : t[n] = s[n] /\ n \in 1 .. Len(s)
  <2>1. TAKE n \in 1 .. Len(t)
  <2>2. n \in 1 .. (Len(s) - 1) - 1 + 1 /\ 1 + n - 1 = n /\ n \in 1 .. Len(s)
    BY <1>1, <1>4
  <2>. QED  BY <1>3, <2>2
<1>6. EventsOf(t) \subseteq EventsOf(s)
  BY <1>5 DEF EventsOf
<1>7. EventsOf(s) \subseteq EventsOf(t) \cup {s[Len(s)]}
  <2>1. ASSUME NEW n \in 1 .. Len(s)  PROVE s[n] \in EventsOf(t) \cup {s[Len(s)]}
    <3>1. CASE n = Len(s)
      BY <3>1
    <3>2. CASE n # Len(s)
      <4>1. n \in 1 .. Len(t)
        BY <1>1, <1>4, <3>2
      <4>. QED  BY <1>5, <4>1 DEF EventsOf
    <3>. QED  BY <3>1, <3>2
  <2>. QED  BY <2>1 DEF EventsOf
<1>. QED  BY <1>3, <1>6, <1>7, MemoryConstants DEF t

LEMMA LostFinite ==
    ASSUME NEW n \in Nat, NEW A \in SUBSET (1 .. n), NEW B
    PROVE  IsFiniteSet(A \ B) /\ Cardinality(A \ B) \in Nat
<1>1. IsFiniteSet(1 .. n)
  BY FS_Interval
<1>2. A \ B \in SUBSET (1 .. n)
  OBVIOUS
<1>. QED  BY <1>1, <1>2, FS_Subset, FS_CardinalityType

----------------------------------------------------------------------------
IdsOf(E) == {e.id : e \in E}

\* What is left of the lines when the next append ends the last one: it is in
\* order, and nothing that anybody was told of goes.
LEMMA KeptFacts ==
    ASSUME MemoryInv, lines # None,
           NEW kept, kept = IF tail = "open" THEN SubSeq(lines, 1, Len(lines) - 1) ELSE lines
    PROVE  /\ kept \in Seq(Event) /\ kept # None
           /\ EventsOf(kept) \subseteq Events /\ Events \in SUBSET Event
           /\ InOrder(EventsOf(kept))
           /\ acknowledged \ IdsOf(EventsOf(kept)) \subseteq Lost
<1>0. lines \in Seq(Event) /\ Events = EventsOf(lines)
  BY DEF MemoryInv, MemoryTypeOK, Events
<1>1. Events \in SUBSET Event
  BY <1>0, ElementOfSeq DEF EventsOf
<1>2. CASE tail = "open"
  <2>0. Len(lines) > 0 /\ lines[Len(lines)].id \notin acknowledged /\ InOrder(EventsOf(kept))
    BY <1>2 DEF MemoryInv, OpenInv
  <2>1. /\ kept \in Seq(Event) /\ kept # None /\ EventsOf(kept) \subseteq Events
        /\ Events \subseteq EventsOf(kept) \cup {lines[Len(lines)]}
    BY <1>0, <1>2, <2>0, DropEvent
  <2>2. acknowledged \ IdsOf(EventsOf(kept)) \subseteq Lost
    BY <2>0, <2>1 DEF IdsOf, Lost
  <2>. QED  BY <1>1, <2>0, <2>1, <2>2
<1>3. CASE tail # "open"
  BY <1>0, <1>1, <1>3 DEF MemoryInv, IdsOf, Lost
<1>. QED  BY <1>2, <1>3

\* An append keeps the invariant, however it ends.
LEMMA AppendKeeps ==
    ASSUME MemoryInv, lines # None, NEW e, e.id = issued + 1, Addable(Events, e),
           append_event(e)
    PROVE  MemoryInv'
<1> DEFINE kept == IF tail = "open" THEN SubSeq(lines, 1, Len(lines) - 1) ELSE lines
<1>0. /\ lines \in Seq(Event) /\ Events = EventsOf(lines) /\ e \in Event
      /\ issued \in Nat /\ issued + 1 \in Id /\ issued' = issued + 1
      /\ tail \in {"whole", "torn", "open"} /\ installing \subseteq Servers
      /\ torn \in 0 .. MaxTorn /\ MaxTorn \in Nat /\ acknowledged \in SUBSET (1 .. issued)
      /\ acknowledged \subseteq Id /\ installing' = installing
  BY MemoryConstants DEF MemoryInv, MemoryTypeOK, Events, Addable, Id, append_event
<1>1. /\ kept \in Seq(Event) /\ kept # None
      /\ EventsOf(kept) \subseteq Events /\ Events \in SUBSET Event
      /\ InOrder(EventsOf(kept)) /\ InOrder(Events)
      /\ acknowledged \ IdsOf(EventsOf(kept)) \subseteq Lost
  BY KeptFacts DEF MemoryInv
<1>2. IsFiniteSet(Lost) /\ Cardinality(Lost) \in Nat
  BY <1>0, LostFinite DEF Lost
<1>3. Cardinality(Lost) <= torn - (IF tail = "whole" THEN 0 ELSE 1)
  BY DEF MemoryInv
<1>4. e.id \notin acknowledged /\ acknowledged' \subseteq 1 .. issued' /\ acknowledged' \subseteq Id
  BY <1>0 DEF append_event, Id
<1>5. \A f \in Events : f.id \in Nat /\ f.id <= issued
  BY <1>1, EventNumbers DEF MemoryInv
<1> HIDE DEF kept
<1>6. InOrder(EventsOf(lines) \cup {e})
  BY <1>0, <1>1, AddKeepsOrder
\* The event is the last line; or it is lost with what the last line was; or it is
\* the last line, without its end.
<1>7. CASE /\ tail = "whole" /\ lines' = Append(lines, e) /\ tail' = "whole"
           /\ acknowledged' = acknowledged \cup {e.id} /\ torn' = torn
  <2>1. /\ lines' \in Seq(Event) /\ lines' # None /\ Events' = Events \cup {e}
    BY <1>0, <1>7, AppendEvents DEF Events
  <2>2. Lost' \subseteq Lost
    BY <1>7, <2>1 DEF Lost
  <2>3. Cardinality(Lost') <= Cardinality(Lost) /\ Cardinality(Lost') \in Nat
    BY <1>2, <2>2, FS_Subset, FS_CardinalityType
  <2>4. InOrder(Events)'
    BY <1>0, <1>6, <2>1
  <2>5. Cardinality(Lost') <= torn' - (IF tail' = "whole" THEN 0 ELSE 1)
    BY <1>0, <1>2, <1>3, <1>7, <2>3
  <2>6. \A f \in Events' : f.id <= issued'
    BY <1>0, <1>5, <2>1
  <2>7. MemoryTypeOK'
    BY <1>0, <1>4, <1>7, <2>1 DEF MemoryTypeOK
  <2>8. OpenInv'
    BY <1>7 DEF OpenInv
  <2>. QED  BY <1>4, <2>1, <2>4, <2>5, <2>6, <2>7, <2>8 DEF MemoryInv
<1>8. CASE /\ lines' = kept /\ tail' \in {"whole", "torn"}
           /\ \/ /\ tail # "whole" /\ tail' = "whole"
                 /\ acknowledged' = acknowledged \cup {e.id} /\ torn' = torn
              \/ /\ tail' = "torn" /\ acknowledged' = acknowledged
                 /\ torn < MaxTorn /\ torn' = torn + 1
  <2>1. lines' \in Seq(Event) /\ lines' # None /\ Events' = EventsOf(kept)
    BY <1>1, <1>8 DEF Events
  <2>2. Lost' \subseteq Lost \cup {e.id} /\ (acknowledged' = acknowledged => Lost' \subseteq Lost)
    BY <1>1, <1>8, <2>1 DEF Lost, IdsOf
  <2>3. IsFiniteSet(Lost \cup {e.id}) /\ Cardinality(Lost \cup {e.id}) <= Cardinality(Lost) + 1
    <3>1. /\ IsFiniteSet(Lost \cup {e.id})
          /\ Cardinality(Lost \cup {e.id}) =
                IF e.id \in Lost THEN Cardinality(Lost) ELSE Cardinality(Lost) + 1
      BY <1>2, FS_AddElement
    <3>. QED  BY <1>2, <3>1
  <2>4. /\ Cardinality(Lost') \in Nat /\ Cardinality(Lost') <= Cardinality(Lost) + 1
        /\ acknowledged' = acknowledged => Cardinality(Lost') <= Cardinality(Lost)
    <3>1. Cardinality(Lost') <= Cardinality(Lost \cup {e.id}) /\ IsFiniteSet(Lost')
      BY <2>2, <2>3, FS_Subset
    <3>2. Cardinality(Lost') \in Nat /\ Cardinality(Lost \cup {e.id}) \in Nat
      BY <2>3, <3>1, FS_CardinalityType
    <3>3. acknowledged' = acknowledged => Cardinality(Lost') <= Cardinality(Lost)
      BY <1>2, <2>2, FS_Subset
    <3>. QED  BY <1>2, <2>3, <3>1, <3>2, <3>3
  <2>5. Cardinality(Lost') <= torn' - (IF tail' = "whole" THEN 0 ELSE 1)
    <3>1. CASE tail # "whole" /\ tail' = "whole" /\ torn' = torn
      BY <1>0, <1>2, <1>3, <2>4, <3>1
    <3>2. CASE tail' = "torn" /\ acknowledged' = acknowledged /\ torn' = torn + 1
      BY <1>0, <1>2, <1>3, <2>4, <3>2
    <3>. QED  BY <1>8, <3>1, <3>2
  <2>6. \A f \in Events' : f.id <= issued'
    BY <1>0, <1>1, <1>5, <2>1
  <2>7. MemoryTypeOK'
    BY <1>0, <1>4, <1>8, <2>1 DEF MemoryTypeOK
  <2>8. OpenInv'
    BY <1>8 DEF OpenInv
  <2>9. InOrder(Events)'
    BY <1>1, <2>1
  <2>. QED  BY <1>4, <2>1, <2>5, <2>6, <2>7, <2>8, <2>9 DEF MemoryInv
<1>9. CASE /\ tail = "whole" /\ tail' = "open" /\ lines' = Append(lines, e)
           /\ acknowledged' = acknowledged /\ torn < MaxTorn /\ torn' = torn + 1
  <2>1. /\ lines' \in Seq(Event) /\ lines' # None /\ Events' = Events \cup {e}
        /\ Len(lines') = Len(lines) + 1 /\ lines'[Len(lines')] = e /\ Len(lines) \in Nat
        /\ EventsOf(SubSeq(lines', 1, Len(lines') - 1)) = Events
    <3>1. Len(lines) \in Nat /\ Len(lines') = Len(lines) + 1
      BY <1>0, <1>9, AppendEvents, LenProperties
    <3>2. Len(lines') - 1 = Len(lines)
      BY <3>1
    <3>. QED  BY <1>0, <1>9, <3>1, <3>2, AppendEvents DEF Events
  <2>2. Lost' \subseteq Lost
    BY <1>9, <2>1 DEF Lost
  <2>3. Cardinality(Lost') <= Cardinality(Lost) /\ Cardinality(Lost') \in Nat
    BY <1>2, <2>2, FS_Subset, FS_CardinalityType
  <2>4. InOrder(Events)'
    BY <1>0, <1>6, <2>1
  <2>5. Cardinality(Lost') <= torn' - (IF tail' = "whole" THEN 0 ELSE 1)
    BY <1>0, <1>2, <1>3, <1>9, <2>3
  <2>6. \A f \in Events' : f.id <= issued'
    BY <1>0, <1>5, <2>1
  <2>7. MemoryTypeOK'
    BY <1>0, <1>4, <1>9, <2>1 DEF MemoryTypeOK
  <2>8. OpenInv'
    <3>1. Len(lines') > 0 /\ lines'[Len(lines')].id \notin acknowledged'
      BY <1>4, <1>9, <2>1
    <3>. QED  BY <1>1, <2>1, <3>1 DEF OpenInv
  <2>. QED  BY <1>4, <2>1, <2>4, <2>5, <2>6, <2>7, <2>8 DEF MemoryInv
<1>. QED  BY <1>0, <1>7, <1>8, <1>9 DEF append_event, kept

LEMMA MemoryStarts == ASSUME MemoryInit  PROVE MemoryInv
<1>1. MemoryTypeOK
  BY MemoryConstants DEF MemoryInit, MemoryTypeOK
<1>2. Events = {} /\ Lost = {}
  BY DEF MemoryInit, Events, Lost
<1>3. Cardinality(Lost) = 0
  BY <1>2, FS_EmptySet
<1>4. InOrder(Events)
  BY <1>2 DEF InOrder, ReplacementsEnd, LessonsIn
<1>. QED  BY <1>1, <1>2, <1>3, <1>4, MemoryConstants DEF MemoryInit, MemoryInv, OpenInv

LEMMA MemoryStutters == ASSUME MemoryInv, UNCHANGED memoryVars  PROVE MemoryInv'
<1>1. Events' = Events /\ Lost' = Lost
  BY DEF memoryVars, Events, Lost
<1>2. InOrder(Events)'
  <2>1. InOrder(Events)
    BY DEF MemoryInv
  <2>. QED  BY <1>1, <2>1
<1>3. OpenInv'
  BY DEF MemoryInv, OpenInv, memoryVars
<1>4. MemoryTypeOK'
  BY DEF MemoryInv, MemoryTypeOK, memoryVars
<1>. QED  BY <1>1, <1>2, <1>3, <1>4 DEF MemoryInv, memoryVars

\* Linking the seed changes nothing once the file is there.
LEMMA SeedKeeps ==
    ASSUME MemoryInv, NEW s \in Servers, install_seed(s) \/ link_seed(s)
    PROVE  MemoryInv'
<1>1. CASE lines' = lines
  <2>1. /\ tail' = tail /\ issued' = issued /\ acknowledged' = acknowledged /\ torn' = torn
        /\ installing' \subseteq Servers
    BY DEF install_seed, link_seed, MemoryInv, MemoryTypeOK
  <2>2. Events' = Events /\ Lost' = Lost
    BY <1>1, <2>1 DEF Events, Lost
  <2>3. InOrder(Events)'
    <3>1. InOrder(Events)
      BY DEF MemoryInv
    <3>. QED  BY <2>2, <3>1
  <2>4. OpenInv'
    BY <1>1, <2>1 DEF MemoryInv, OpenInv
  <2>5. MemoryTypeOK'
    BY <1>1, <2>1 DEF MemoryInv, MemoryTypeOK
  <2>. QED  BY <1>1, <2>1, <2>2, <2>3, <2>4, <2>5 DEF MemoryInv
<1>2. CASE lines' # lines
  <2>1. /\ lines = None /\ lines' = Seed /\ tail' = "whole" /\ acknowledged' = {}
        /\ torn' = 0 /\ issued' = Len(Seed) /\ installing' \subseteq Servers
    BY <1>2 DEF install_seed, link_seed, MemoryInv, MemoryTypeOK
  <2>2. Seed # None
    BY MemoryConstants
  <2>3. Events' = EventsOf(Seed) /\ Lost' = {}
    BY <2>1, <2>2 DEF Events, Lost
  <2>4. InOrder(Events)'
    <3>1. InOrder(EventsOf(Seed))
      BY SeedInOrder DEF InOrder
    <3>. QED  BY <2>3, <3>1
  <2>5. Cardinality(Lost') = 0
    BY <2>3, FS_EmptySet
  <2>6. \A e \in Events' : e.id <= issued'
    BY <2>1, <2>3, MemoryConstants DEF EventsOf, Id
  <2>7. MemoryTypeOK'
    BY <2>1, MemoryConstants DEF MemoryTypeOK
  <2>8. OpenInv'
    BY <2>1 DEF OpenInv
  <2>. QED  BY <2>1, <2>2, <2>4, <2>5, <2>6, <2>7, <2>8 DEF MemoryInv
<1>. QED  BY <1>1, <1>2

LEMMA EventsBefore ==
    ASSUME MemoryInv, NEW e, e.id = issued + 1
    PROVE  Events \in SUBSET Event /\ \A f \in Events : f.id < e.id
<1>1. Events \in SUBSET Event
  BY ElementOfSeq DEF MemoryInv, MemoryTypeOK, Events, EventsOf
<1>2. issued \in Nat /\ \A f \in Events : f.id \in Nat /\ f.id <= issued
  BY <1>1, EventNumbers, MemoryConstants DEF MemoryInv, MemoryTypeOK, Id
<1>. QED  BY <1>1, <1>2

LEMMA ProposeKeeps ==
    ASSUME MemoryInv, NEW text \in Texts, NEW cites \in BOOLEAN, propose_lesson(text, cites)
    PROVE  MemoryInv'
<1> DEFINE e == Lesson(issued + 1, text)
<1>1. lines # None /\ append_event(e) /\ issued + 1 \in Id
  BY MemoryConstants DEF propose_lesson, append_event, MemoryInv, MemoryTypeOK, Id
<1>2. /\ e \in Event /\ e.id = issued + 1 /\ e.action = "lesson" /\ e.target = e.id
  BY <1>1 DEF Lesson, Event
<1> HIDE DEF e
<1>3. Addable(Events, e)
  BY <1>2, EventsBefore DEF Addable
<1>. QED  BY <1>1, <1>2, <1>3, AppendKeeps

LEMMA CorrectKeeps ==
    ASSUME MemoryInv, NEW i \in Effective, NEW a \in Actions, NEW text \in Texts \cup {None},
           NEW r \in Lessons \cup {0}, append_correction(i, a, text, r)
    PROVE  MemoryInv'
<1> DEFINE e == Correction(issued + 1, a, i, text, r)
<1>1. append_event(e) /\ issued + 1 \in Id
  BY MemoryConstants DEF append_correction, append_event, MemoryInv, MemoryTypeOK, Id
<1>2. lines # None
  BY DEF Effective, EffectiveIn, LessonsIn, Events
<1>3. InOrder(Events) /\ Events \in SUBSET Event
  BY ElementOfSeq DEF MemoryInv, MemoryTypeOK, Events, EventsOf
<1>4. i \in Id /\ r \in Id \cup {0} /\ i \in EffectiveIn(Events)
  <2>1. LessonsIn(Events) \subseteq Id
    BY <1>3, EventNumbers DEF LessonsIn
  <2>. QED  BY <2>1 DEF Effective, EffectiveIn, Lessons
<1>5. a = "supersede" => r \in EffectiveIn(Events) /\ r # i
  BY DEF append_correction, CanReplace, Effective
<1>6. /\ e \in Event /\ e.id = issued + 1 /\ e.action = a /\ e.target = i /\ e.replacement = r
  BY <1>1, <1>4 DEF Correction, Event
<1> HIDE DEF e
<1>7. Addable(Events, e)
  BY <1>4, <1>5, <1>6, EventsBefore DEF Addable
<1>. QED  BY <1>1, <1>2, <1>6, <1>7, AppendKeeps

----------------------------------------------------------------------------
(* The campaign *)

Finished(c) == c.state = "completed" \/ c.terminal

\* A case has what the phases before its own hand on; who works in it is known,
\* and the only thread that has loaded its reference is not the one that creates.
CaseOK(c, st, seen) ==
    /\ c.at # "profile" => c.target
    /\ c.at \in {"compare", "learn", "rereview"} <=> c.generated
    /\ c.at \in {"learn", "rereview"} <=> c.comparison
    /\ c.state = "running" <=> c.claim
    /\ c.state = "running" => st = "active"
    /\ c.state = "paused" => st = "paused"
    /\ c.consumed <=> c.generated \/ c.terminal
    /\ c.terminal => c.state = "failed"
    /\ c.state = "running" /\ c.at # "create" => c.profileComparator # None
    /\ c.create # None => /\ c.profileComparator # None
                          /\ c.create[2] # c.profileComparator[2]
    /\ seen \subseteq (IF c.profileComparator = None THEN {} ELSE {c.profileComparator[2]})

CampaignTypeOK ==
    /\ status \in {"active", "paused", "completed"}
    /\ cases \in Seq(CaseRecord) /\ Len(cases) <= CaseLimit
    /\ loaded \in [Case -> SUBSET {b[2] : b \in Bindings}]

\* The active case is the last one, and the only one that is not finished.
CampaignInv ==
    /\ CampaignTypeOK
    /\ active \in {0, Len(cases)}
    /\ \A k \in 1 .. Len(cases) : /\ CaseOK(cases[k], status, loaded[k])
                                  /\ k = active <=> ~Finished(cases[k])
    /\ \A k \in Case : k > Len(cases) => loaded[k] = {}
    /\ status = "completed" => active = 0 /\ Len(cases) = CaseLimit

Late == [call : Call, current : BOOLEAN, claimed : BOOLEAN,
         applied : 0 .. 2, age : 0 .. LogLimit]

\* A late call that was applied does not name the current revision any more.
LateInv ==
    late # None =>
        /\ late \in Late
        /\ late.applied = 0 \/ (late.applied = 1 /\ ~late.current)
        /\ late.call.name = "claim_phase" => late.call.by \in Bindings

IInv == MemoryInv /\ CampaignInv /\ LateInv

----------------------------------------------------------------------------
\* _commit applies a late call once, for it has to name the current revision.
LEMMA CommitKeeps ==
    ASSUME LateInv, NEW q \in Call, NEW again \in BOOLEAN, again => late # None,
           load_for_mutation(again), commit(q, again),
           q.name = "claim_phase" => q.by \in Bindings
    PROVE  LateInv'
<1> DEFINE valid == late.claimed /\ Running(cases, late.call.case) /\ Running(cases', late.call.case)
<1>1. CASE again
  <2>1. late # None /\ late \in Late /\ late.applied = 0
    BY <1>1 DEF LateInv, load_for_mutation
  <2>2. late.call.name = "claim_phase" => late.call.by \in Bindings
    BY <2>1 DEF LateInv
  <2>3. late' = [late EXCEPT !.current = FALSE, !.claimed = valid, !.applied = 1, !.age = 0]
    <3>1. late' = [late EXCEPT !.current = FALSE, !.claimed = valid,
                               !.applied = late.applied + 1, !.age = 0]
      BY <1>1 DEF commit
    <3>2. late.applied + 1 = 1
      BY <2>1
    <3>. QED  BY <3>1, <3>2
  <2>4. valid \in BOOLEAN
    BY DEF Running
  <2> HIDE DEF valid
  <2>5. late' \in Late /\ late'.applied = 1 /\ late'.current = FALSE /\ late'.call = late.call
    <3>1. 0 \in 0 .. LogLimit /\ 1 \in 0 .. 2
      BY CampaignConstants
    <3>. QED  BY <2>1, <2>3, <2>4, <3>1 DEF Late
  <2>. QED  BY <2>2, <2>5 DEF LateInv
<1>2. CASE ~again /\ late # None
  <2>1. /\ late \in Late /\ (late.applied = 0 \/ late.applied = 1)
        /\ late.call.name = "claim_phase" => late.call.by \in Bindings
    BY <1>2 DEF LateInv
  <2> DEFINE age == IF late.age < LogLimit THEN late.age + 1 ELSE late.age
  <2>2. late' = [late EXCEPT !.current = FALSE, !.claimed = valid, !.age = age]
    BY <1>2 DEF commit
  <2>3. valid \in BOOLEAN
    BY DEF Running
  <2>4. age \in 0 .. LogLimit
    BY <2>1, CampaignConstants DEF Late
  <2> HIDE DEF valid, age
  <2>5. /\ late' \in Late /\ late'.applied = late.applied /\ ~late'.current
        /\ late'.call = late.call
    BY <2>1, <2>2, <2>3, <2>4 DEF Late
  <2>. QED  BY <2>1, <2>5 DEF LateInv
<1>3. CASE ~again /\ late = None
  <2> DEFINE claimed == Running(cases, q.case)
             new == [call |-> q, current |-> FALSE, claimed |-> Running(cases', q.case),
                     applied |-> 1, age |-> 0]
  <2>1. late' \in {None, new}
    BY <1>3 DEF commit
  <2>2. Running(cases', q.case) \in BOOLEAN
    BY DEF Running
  <2>3. new \in Late /\ new.applied = 1 /\ ~new.current /\ new.call = q
    BY <2>2, CampaignConstants DEF Late
  <2> HIDE DEF new
  <2>. QED  BY <2>1, <2>3 DEF LateInv
<1>. QED  BY <1>1, <1>2, <1>3

\* Another value for the active case, which may end it.
LEMMA ActiveKeeps ==
    ASSUME CampaignInv, active # 0, NEW c \in CaseRecord,
           cases' = [cases EXCEPT ![active] = c], loaded' = loaded,
           status' \in {"active", "paused", "completed"},
           CaseOK(c, status', loaded[active]),
           \/ active' = active /\ ~Finished(c)
           \/ active' = 0 /\ Finished(c),
           status' = "completed" => active' = 0 /\ Len(cases) = CaseLimit
    PROVE  CampaignInv'
<1>0. /\ cases \in Seq(CaseRecord) /\ Len(cases) \in Nat /\ active = Len(cases)
      /\ active \in 1 .. Len(cases) /\ Len(cases) <= CaseLimit
  BY LenProperties DEF CampaignInv, CampaignTypeOK
<1>1. /\ cases' \in Seq(CaseRecord) /\ Len(cases') = Len(cases)
      /\ \A j \in 1 .. Len(cases) : cases'[j] = IF j = active THEN c ELSE cases[j]
  BY <1>0, ExceptSeq
<1>2. CampaignTypeOK'
  BY <1>0, <1>1 DEF CampaignInv, CampaignTypeOK
<1>3. ASSUME NEW k \in 1 .. Len(cases')
      PROVE  CaseOK(cases[k], status, loaded[k])' /\ (k = active <=> ~Finished(cases[k]))'
  <2>1. CASE k = active
    <3>1. cases'[k] = c /\ loaded'[k] = loaded[active]
      BY <1>1, <2>1
    <3>2. active' = k <=> ~Finished(c)
      BY <1>0, <2>1
    <3>. QED  BY <3>1, <3>2 DEF CaseOK, Finished
  <2>2. CASE k # active
    <3>1. cases'[k] = cases[k] /\ loaded'[k] = loaded[k] /\ k \in 1 .. Len(cases)
      BY <1>1, <2>2
    <3>2. CaseOK(cases[k], status, loaded[k]) /\ Finished(cases[k])
      BY <2>2, <3>1 DEF CampaignInv
    <3>3. cases[k].state # "running" /\ cases[k].state # "paused"
      BY <3>2 DEF CaseOK, Finished
    <3>4. k # active'
      BY <1>0, <2>2, <3>1
    <3>. QED  BY <3>1, <3>2, <3>3, <3>4 DEF CaseOK, Finished
  <2>. QED  BY <2>1, <2>2
<1>4. active' \in {0, Len(cases')}
  BY <1>0, <1>1
<1>5. \A k \in Case : k > Len(cases') => loaded'[k] = {}
  BY <1>1 DEF CampaignInv
<1>. QED  BY <1>1, <1>2, <1>3, <1>4, <1>5 DEF CampaignInv

----------------------------------------------------------------------------
(* Submissions *)

LEMMA ActiveFacts ==
    ASSUME CampaignInv, NEW k \in 1 .. Len(cases), ~Finished(cases[k])
    PROVE  /\ k = active /\ active # 0 /\ active = Len(cases) /\ active \in 1 .. Len(cases)
           /\ cases[k] \in CaseRecord /\ CaseOK(cases[k], status, loaded[k])
           /\ status \in {"active", "paused"} /\ k \in Case
<1>1. cases \in Seq(CaseRecord) /\ Len(cases) \in Nat /\ Len(cases) <= CaseLimit
  BY LenProperties DEF CampaignInv, CampaignTypeOK
<1>2. cases[k] \in CaseRecord
  BY <1>1, ElementOfSeq
<1>3. k = active /\ active # 0 /\ active = Len(cases)
  BY <1>1 DEF CampaignInv
<1>4. k \in Case
  BY <1>1, CampaignConstants DEF Case
<1>. QED  BY <1>1, <1>2, <1>3, <1>4 DEF CampaignInv, CampaignTypeOK

LEMMA ClaimFacts ==
    ASSUME CampaignInv, NEW k, NEW p, NEW by, ClaimValid(k, p, by)
    PROVE  /\ k = active /\ active # 0 /\ active \in 1 .. Len(cases)
           /\ cases[k] \in CaseRecord /\ CaseOK(cases[k], status, loaded[k])
           /\ status = "active" /\ k \in Case
           /\ cases[k].at = p /\ cases[k].state = "running" /\ cases[k].claim
           /\ ~cases[k].terminal
<1>1. /\ k \in 1 .. Len(cases) /\ cases[k].at = p /\ cases[k].state = "running"
      /\ cases[k].claim
  BY DEF ClaimValid, InPhase
<1>2. CaseOK(cases[k], status, loaded[k])
  BY <1>1 DEF CampaignInv
<1>3. ~cases[k].terminal /\ status = "active"
  BY <1>1, <1>2 DEF CaseOK
<1>4. ~Finished(cases[k])
  BY <1>1, <1>3 DEF Finished
<1>. QED  BY <1>1, <1>2, <1>3, <1>4, ActiveFacts

\* A submission gives the active case one of its results.
LEMMA SubmitsFacts ==
    ASSUME CampaignInv, NEW q, NEW again, NEW name, NEW p, NEW results,
           Submits(q, again, name, p, results)
    PROVE  /\ Of(q) \in CaseRecord /\ CaseOK(Of(q), status, loaded[active])
           /\ Of(q).at = p /\ Of(q).state = "running" /\ ~Of(q).terminal
           /\ active # 0 /\ status = "active" /\ q.case = active
           /\ \E c \in results : cases' = [cases EXCEPT ![active] = c]
<1>1. ClaimValid(q.case, p, q.by) /\ \E c \in results : Update(q.case, c)
  BY DEF Submits
<1>. QED  BY <1>1, ClaimFacts DEF Of, Update

LEMMA MovesFields ==
    ASSUME NEW c \in CaseRecord, NEW p \in Phase
    PROVE  /\ Moves(c, p) \in CaseRecord
           /\ Moves(c, p).at = p /\ Moves(c, p).state = "pending" /\ ~Moves(c, p).claim
           /\ Moves(c, p).profileComparator = c.profileComparator
           /\ Moves(c, p).create = c.create
           /\ Moves(c, p).target = c.target /\ Moves(c, p).consumed = c.consumed
           /\ Moves(c, p).generated = c.generated /\ Moves(c, p).comparison = c.comparison
           /\ Moves(c, p).terminal = c.terminal
BY DEF Moves, CaseRecord

LEMMA EndsFields ==
    ASSUME NEW c \in CaseRecord, NEW s \in {"failed", "paused", "completed"}
    PROVE  /\ Ends(c, s) \in CaseRecord
           /\ Ends(c, s).at = c.at /\ Ends(c, s).state = s /\ ~Ends(c, s).claim
           /\ Ends(c, s).profileComparator = c.profileComparator
           /\ Ends(c, s).create = c.create
           /\ Ends(c, s).target = c.target /\ Ends(c, s).consumed = c.consumed
           /\ Ends(c, s).generated = c.generated /\ Ends(c, s).comparison = c.comparison
           /\ Ends(c, s).terminal = c.terminal
BY DEF Ends, CaseRecord

LEMMA Phases5 == Phase = {"profile", "create", "compare", "learn", "rereview"}
<1>1. 1 .. 5 = {1, 2, 3, 4, 5}
  OBVIOUS
<1>. QED  BY <1>1 DEF Phase, Phases

LEMMA SubmitProfileKeeps ==
    ASSUME CampaignInv, NEW q, NEW again, submit_profile(q, again)
    PROVE  CampaignInv'
<1> DEFINE m == Moves(Of(q), "create")
           t == [m EXCEPT !.target = TRUE]
           f == Ends(Of(q), "failed")
<1>1. /\ Of(q) \in CaseRecord /\ CaseOK(Of(q), status, loaded[active])
      /\ Of(q).at = "profile" /\ Of(q).state = "running" /\ ~Of(q).terminal
      /\ active # 0 /\ status = "active"
      /\ \E c \in {t, f} : cases' = [cases EXCEPT ![active] = c]
  BY SubmitsFacts DEF submit_profile
<1>2. loaded' = loaded /\ status' = status /\ active' = active
  BY DEF submit_profile
<1>3. CASE cases' = [cases EXCEPT ![active] = t]
  <2>1. /\ m \in CaseRecord /\ m.at = "create" /\ m.state = "pending" /\ ~m.claim
        /\ m.profileComparator = Of(q).profileComparator /\ m.create = Of(q).create
        /\ m.consumed = Of(q).consumed /\ m.generated = Of(q).generated
        /\ m.comparison = Of(q).comparison /\ m.terminal = Of(q).terminal
    BY <1>1, Phases5, MovesFields
  <2> HIDE DEF m
  <2>2. /\ t \in CaseRecord /\ t.at = "create" /\ t.state = "pending" /\ ~t.claim /\ t.target
        /\ t.profileComparator = m.profileComparator /\ t.create = m.create
        /\ t.consumed = m.consumed /\ t.generated = m.generated
        /\ t.comparison = m.comparison /\ t.terminal = m.terminal
    BY <2>1 DEF CaseRecord
  <2> HIDE DEF t
  <2>3. CaseOK(t, status', loaded[active]) /\ ~Finished(t)
    BY <1>1, <1>2, <2>1, <2>2 DEF CaseOK, Finished
  <2>. QED  BY <1>1, <1>2, <1>3, <2>2, <2>3, ActiveKeeps
<1>4. CASE cases' = [cases EXCEPT ![active] = f]
  <2>1. f \in CaseRecord /\ CaseOK(f, status', loaded[active]) /\ ~Finished(f)
    BY <1>1, <1>2, EndsFields DEF CaseOK, Finished
  <2>. QED  BY <1>1, <1>2, <1>4, <2>1, ActiveKeeps
<1>. QED  BY <1>1, <1>3, <1>4

LEMMA QueryMemoryKeeps ==
    ASSUME CampaignInv, NEW q, NEW again, query_memory_for_create(q, again)
    PROVE  CampaignInv'
<1> DEFINE t == [Of(q) EXCEPT !.receipt = TRUE]
<1>1. /\ Of(q) \in CaseRecord /\ CaseOK(Of(q), status, loaded[active])
      /\ Of(q).at = "create" /\ Of(q).state = "running" /\ ~Of(q).terminal
      /\ active # 0 /\ status = "active"
      /\ \E c \in {t} : cases' = [cases EXCEPT ![active] = c]
  BY SubmitsFacts DEF query_memory_for_create
<1>2. loaded' = loaded /\ status' = status /\ active' = active
  BY DEF query_memory_for_create
<1>3. /\ t \in CaseRecord /\ t.at = Of(q).at /\ t.state = Of(q).state /\ t.claim = Of(q).claim
      /\ t.target = Of(q).target /\ t.profileComparator = Of(q).profileComparator
      /\ t.create = Of(q).create /\ t.consumed = Of(q).consumed
      /\ t.generated = Of(q).generated /\ t.comparison = Of(q).comparison
      /\ t.terminal = Of(q).terminal
  BY <1>1 DEF CaseRecord
<1>4. cases' = [cases EXCEPT ![active] = t]
  BY <1>1
<1> HIDE DEF t
<1>5. CaseOK(t, status', loaded[active]) /\ ~Finished(t)
  BY <1>1, <1>2, <1>3 DEF CaseOK, Finished
<1>. QED  BY <1>1, <1>2, <1>3, <1>4, <1>5, ActiveKeeps

LEMMA SubmitCreateKeeps ==
    ASSUME CampaignInv, NEW q, NEW again, submit_create_result(q, again)
    PROVE  CampaignInv'
<1> DEFINE m == Moves(Of(q), "compare")
           t == [m EXCEPT !.consumed = TRUE, !.generated = TRUE]
<1>1. /\ Of(q) \in CaseRecord /\ CaseOK(Of(q), status, loaded[active])
      /\ Of(q).at = "create" /\ Of(q).state = "running" /\ ~Of(q).terminal
      /\ active # 0 /\ status = "active"
      /\ \E c \in {t} : cases' = [cases EXCEPT ![active] = c]
  BY SubmitsFacts DEF submit_create_result
<1>2. loaded' = loaded /\ status' = status /\ active' = active
  BY DEF submit_create_result
<1>3. /\ m \in CaseRecord /\ m.at = "compare" /\ m.state = "pending" /\ ~m.claim
      /\ m.profileComparator = Of(q).profileComparator /\ m.create = Of(q).create
      /\ m.target = Of(q).target /\ m.comparison = Of(q).comparison
      /\ m.terminal = Of(q).terminal
  BY <1>1, Phases5, MovesFields
<1> HIDE DEF m
<1>4. /\ t \in CaseRecord /\ t.at = "compare" /\ t.state = "pending" /\ ~t.claim
      /\ t.profileComparator = m.profileComparator /\ t.create = m.create
      /\ t.target = m.target /\ t.comparison = m.comparison /\ t.terminal = m.terminal
      /\ t.consumed /\ t.generated
  BY <1>3 DEF CaseRecord
<1>5. cases' = [cases EXCEPT ![active] = t]
  BY <1>1
<1> HIDE DEF t
<1>6. CaseOK(t, status', loaded[active]) /\ ~Finished(t)
  BY <1>1, <1>2, <1>3, <1>4 DEF CaseOK, Finished
<1>. QED  BY <1>1, <1>2, <1>4, <1>5, <1>6, ActiveKeeps

LEMMA SubmitComparisonKeeps ==
    ASSUME CampaignInv, NEW q, NEW again, submit_comparison(q, again)
    PROVE  CampaignInv'
<1> DEFINE m == Moves(Of(q), "learn")
           t == [m EXCEPT !.comparison = TRUE]
<1>1. /\ Of(q) \in CaseRecord /\ CaseOK(Of(q), status, loaded[active])
      /\ Of(q).at = "compare" /\ Of(q).state = "running" /\ ~Of(q).terminal
      /\ active # 0 /\ status = "active"
      /\ \E c \in {t} : cases' = [cases EXCEPT ![active] = c]
  BY SubmitsFacts DEF submit_comparison
<1>2. loaded' = loaded /\ status' = status /\ active' = active
  BY DEF submit_comparison
<1>3. /\ m \in CaseRecord /\ m.at = "learn" /\ m.state = "pending" /\ ~m.claim
      /\ m.profileComparator = Of(q).profileComparator /\ m.create = Of(q).create
      /\ m.target = Of(q).target /\ m.generated = Of(q).generated
      /\ m.consumed = Of(q).consumed /\ m.terminal = Of(q).terminal
  BY <1>1, Phases5, MovesFields
<1> HIDE DEF m
<1>4. /\ t \in CaseRecord /\ t.at = "learn" /\ t.state = "pending" /\ ~t.claim
      /\ t.profileComparator = m.profileComparator /\ t.create = m.create
      /\ t.target = m.target /\ t.generated = m.generated /\ t.consumed = m.consumed
      /\ t.terminal = m.terminal /\ t.comparison
  BY <1>3 DEF CaseRecord
<1>5. cases' = [cases EXCEPT ![active] = t]
  BY <1>1
<1> HIDE DEF t
<1>6. CaseOK(t, status', loaded[active]) /\ ~Finished(t)
  BY <1>1, <1>2, <1>3, <1>4 DEF CaseOK, Finished
<1>. QED  BY <1>1, <1>2, <1>4, <1>5, <1>6, ActiveKeeps

LEMMA LearningChangesKeep ==
    ASSUME CampaignInv, NEW q, NEW again, complete_learning_with_changes(q, again)
    PROVE  CampaignInv'
<1> DEFINE m == Moves(Of(q), "rereview")
<1>1. /\ Of(q) \in CaseRecord /\ CaseOK(Of(q), status, loaded[active])
      /\ Of(q).at = "learn" /\ Of(q).state = "running" /\ ~Of(q).terminal
      /\ active # 0 /\ status = "active"
      /\ \E c \in {m} : cases' = [cases EXCEPT ![active] = c]
  BY SubmitsFacts DEF complete_learning_with_changes
<1>2. loaded' = loaded /\ status' = status /\ active' = active
  BY DEF complete_learning_with_changes
<1>3. m \in CaseRecord /\ CaseOK(m, status', loaded[active]) /\ ~Finished(m)
  BY <1>1, <1>2, Phases5, MovesFields DEF CaseOK, Finished
<1>4. cases' = [cases EXCEPT ![active] = m]
  BY <1>1
<1>. QED  BY <1>1, <1>2, <1>3, <1>4, ActiveKeeps

LEMMA MismatchKeeps ==
    ASSUME CampaignInv, NEW q, NEW again, submit_create_mismatch(q, again)
    PROVE  CampaignInv'
<1> DEFINE m == Ends(Of(q), "failed")
           t == [m EXCEPT !.consumed = TRUE, !.terminal = TRUE]
<1>1. /\ Of(q) \in CaseRecord /\ CaseOK(Of(q), status, loaded[active])
      /\ Of(q).at = "create" /\ Of(q).state = "running" /\ ~Of(q).terminal
      /\ active # 0 /\ status = "active"
      /\ \E c \in {t} : cases' = [cases EXCEPT ![active] = c]
  BY SubmitsFacts DEF submit_create_mismatch
<1>2. loaded' = loaded /\ status' = AfterLastCase /\ active' = 0
  BY DEF submit_create_mismatch
<1>3. /\ m \in CaseRecord /\ m.at = "create" /\ m.state = "failed" /\ ~m.claim
      /\ m.profileComparator = Of(q).profileComparator /\ m.create = Of(q).create
      /\ m.target = Of(q).target /\ m.generated = Of(q).generated
      /\ m.comparison = Of(q).comparison
  BY <1>1, EndsFields
<1> HIDE DEF m
<1>4. /\ t \in CaseRecord /\ t.at = "create" /\ t.state = "failed" /\ ~t.claim
      /\ t.profileComparator = m.profileComparator /\ t.create = m.create
      /\ t.target = m.target /\ t.generated = m.generated /\ t.comparison = m.comparison
      /\ t.consumed /\ t.terminal
  BY <1>3 DEF CaseRecord
<1>5. cases' = [cases EXCEPT ![active] = t]
  BY <1>1
<1> HIDE DEF t
<1>6. CaseOK(t, status', loaded[active]) /\ Finished(t)
  BY <1>1, <1>3, <1>4 DEF CaseOK, Finished
<1>7. /\ status' \in {"active", "paused", "completed"}
      /\ status' = "completed" => Len(cases) = CaseLimit
  BY <1>1, <1>2, CampaignConstants, LenProperties
     DEF AfterLastCase, CampaignInv, CampaignTypeOK
<1>. QED  BY <1>1, <1>2, <1>4, <1>5, <1>6, <1>7, ActiveKeeps

\* Every submission that ends its case, or stops it.
LEMMA EndsKeeps ==
    ASSUME CampaignInv, NEW q, NEW again, NEW name, NEW p,
           NEW s \in {"failed", "paused", "completed"},
           Submits(q, again, name, p, {Ends(Of(q), s)}), loaded' = loaded,
           \/ s = "failed" /\ status' = status /\ active' = active
           \/ s = "paused" /\ status' = "paused" /\ active' = active
           \/ s = "completed" /\ status' = AfterLastCase /\ active' = 0
    PROVE  CampaignInv'
<1> DEFINE t == Ends(Of(q), s)
<1>1. /\ Of(q) \in CaseRecord /\ CaseOK(Of(q), status, loaded[active])
      /\ Of(q).at = p /\ Of(q).state = "running" /\ ~Of(q).terminal
      /\ active # 0 /\ status = "active"
      /\ \E c \in {t} : cases' = [cases EXCEPT ![active] = c]
  BY SubmitsFacts
<1>2. cases' = [cases EXCEPT ![active] = t]
  BY <1>1
<1>3. /\ t \in CaseRecord /\ t.at = p /\ t.state = s /\ ~t.claim
      /\ t.profileComparator = Of(q).profileComparator /\ t.create = Of(q).create
      /\ t.target = Of(q).target /\ t.generated = Of(q).generated
      /\ t.comparison = Of(q).comparison /\ t.consumed = Of(q).consumed /\ ~t.terminal
  BY <1>1, EndsFields
<1> HIDE DEF t
<1>4. CaseOK(t, status', loaded[active])
  BY <1>1, <1>3 DEF CaseOK
<1>5. (s = "completed" => Finished(t)) /\ (s # "completed" => ~Finished(t))
  BY <1>3 DEF Finished
<1>6. AfterLastCase \in {"active", "completed"} /\ (AfterLastCase = "completed" => Len(cases) = CaseLimit)
  BY <1>1, CampaignConstants, LenProperties
     DEF AfterLastCase, CampaignInv, CampaignTypeOK
<1>7. /\ status' \in {"active", "paused", "completed"}
      /\ status' = "completed" => active' = 0 /\ Len(cases) = CaseLimit
      /\ (active' = active /\ ~Finished(t)) \/ (active' = 0 /\ Finished(t))
  <2>0. status = "active"
    BY <1>1
  <2>1. CASE s = "failed" /\ status' = status /\ active' = active
    BY <1>5, <2>0, <2>1
  <2>2. CASE s = "paused" /\ status' = "paused" /\ active' = active
    BY <1>5, <2>2
  <2>3. CASE s = "completed" /\ status' = AfterLastCase /\ active' = 0
    BY <1>1, <1>5, <1>6, <2>3
  <2>. QED  BY <2>1, <2>2, <2>3
<1>. QED  BY <1>1, <1>2, <1>3, <1>4, <1>7, ActiveKeeps

----------------------------------------------------------------------------
(* Cases *)

LEMMA NewCaseOK ==
    ASSUME NEW s \in Sources, NEW st
    PROVE  NewCase(s) \in CaseRecord /\ CaseOK(NewCase(s), st, {}) /\ ~Finished(NewCase(s))
<1> DEFINE c == NewCase(s)
<1>1. /\ c \in CaseRecord /\ c.at = "profile" /\ c.state = "pending" /\ c.claim = FALSE
      /\ c.profileComparator = None /\ c.create = None /\ c.generated = FALSE
      /\ c.comparison = FALSE /\ c.consumed = FALSE /\ c.terminal = FALSE
  BY Phases5 DEF NewCase, CaseRecord
<1> HIDE DEF c
<1>2. CaseOK(c, st, {}) /\ ~Finished(c)
  BY <1>1 DEF CaseOK, Finished
<1>. QED  BY <1>1, <1>2 DEF c

LEMMA IntakeKeeps ==
    ASSUME CampaignInv, NEW q, NEW again, intake_case(q, again)
    PROVE  CampaignInv'
<1>1. /\ status = "active" /\ active = 0 /\ Len(cases) < CaseLimit /\ status' = status
      /\ active' = Len(cases) + 1 /\ loaded' = loaded
  BY DEF intake_case
<1>2. PICK s \in Sources : cases' = Append(cases, NewCase(s))
  BY DEF intake_case
<1>3. NewCase(s) \in CaseRecord /\ CaseOK(NewCase(s), "active", {}) /\ ~Finished(NewCase(s))
  BY NewCaseOK
<1>4. cases \in Seq(CaseRecord) /\ Len(cases) \in Nat
  BY LenProperties DEF CampaignInv, CampaignTypeOK
<1>5. /\ cases' \in Seq(CaseRecord) /\ Len(cases') = Len(cases) + 1
      /\ \A k \in 1 .. Len(cases) : cases'[k] = cases[k]
      /\ cases'[Len(cases) + 1] = NewCase(s)
  BY <1>2, <1>3, <1>4, AppendProperties
<1>6. CampaignTypeOK'
  <2>1. Len(cases') <= CaseLimit
    BY <1>1, <1>4, <1>5, CampaignConstants
  <2>. QED  BY <1>1, <1>5, <2>1 DEF CampaignInv, CampaignTypeOK
<1>7. ASSUME NEW k \in 1 .. Len(cases')
      PROVE  CaseOK(cases[k], status, loaded[k])' /\ (k = active <=> ~Finished(cases[k]))'
  <2>1. CASE k = Len(cases) + 1
    <3>1. k \in Case /\ k > Len(cases)
      BY <1>1, <1>4, <2>1, CampaignConstants DEF Case
    <3>2. loaded'[k] = {} /\ cases'[k] = NewCase(s) /\ status' = "active" /\ active' = k
      BY <1>1, <1>5, <2>1, <3>1 DEF CampaignInv
    <3>. QED  BY <1>3, <3>2 DEF CaseOK, Finished
  <2>2. CASE k # Len(cases) + 1
    <3>1. k \in 1 .. Len(cases)
      BY <1>4, <1>5, <2>2
    <3>2. cases'[k] = cases[k] /\ loaded'[k] = loaded[k] /\ status' = status
      BY <1>1, <1>5, <3>1
    <3>3. CaseOK(cases[k], status, loaded[k]) /\ Finished(cases[k])
      BY <1>1, <3>1 DEF CampaignInv
    <3>4. k # active'
      BY <1>1, <2>2
    <3>. QED  BY <3>2, <3>3, <3>4 DEF CaseOK, Finished
  <2>. QED  BY <2>1, <2>2
<1>8. \A k \in Case : k > Len(cases') => loaded'[k] = {}
  <2>1. \A k \in Case : k > Len(cases') => k > Len(cases)
    BY <1>4, <1>5 DEF Case
  <2>. QED  BY <1>1, <2>1 DEF CampaignInv
<1>9. active' \in {0, Len(cases')} /\ status' # "completed"
  BY <1>1, <1>5
<1>. QED  BY <1>6, <1>7, <1>8, <1>9 DEF CampaignInv

LEMMA DiscardKeeps ==
    ASSUME CampaignInv, NEW q, NEW again, discard_duplicate_pending_case(q, again)
    PROVE  CampaignInv'
<1> DEFINE n == Len(cases)
           m == q.case
<1>1. /\ status = "active" /\ status' = status /\ active' = 0 /\ loaded' = loaded
      /\ m = active /\ m \in 1 .. n /\ cases[m].profileComparator = None
      /\ cases' = SubSeq(cases, 1, m - 1) \o SubSeq(cases, m + 1, n)
  BY DEF discard_duplicate_pending_case, InPhase
<1>2. /\ cases \in Seq(CaseRecord) /\ n \in Nat /\ n <= CaseLimit /\ m = n
      /\ \A k \in 1 .. n : cases[k] \in CaseRecord
  BY <1>1, LenProperties, ElementOfSeq DEF CampaignInv, CampaignTypeOK
<1>3. SubSeq(cases, m + 1, n) = <<>>
  BY <1>2, SubSeqEmpty
<1> DEFINE t == SubSeq(cases, 1, m - 1)
<1>4. /\ t \in Seq(CaseRecord) /\ Len(t) = n - 1
      /\ \A k \in 1 .. n - 1 : t[k] = cases[k]
  <2>1. \A k \in 1 .. m - 1 : cases[k] \in CaseRecord
    BY <1>2
  <2>2. 1 \in Int /\ m - 1 \in Int
    BY <1>2
  <2>3. /\ t \in Seq(CaseRecord)
        /\ Len(t) = IF 1 <= m - 1 THEN (m - 1) - 1 + 1 ELSE 0
        /\ \A k \in 1 .. (m - 1) - 1 + 1 : t[k] = cases[1 + k - 1]
    BY <2>1, <2>2, SubSeqProperties
  <2>4. m \in Nat \ {0}
    BY <1>1, <1>2
  <2>5. \A j \in Nat \ {0} : (IF 1 <= j - 1 THEN (j - 1) - 1 + 1 ELSE 0) = j - 1
    OBVIOUS
  <2>6. Len(t) = n - 1
    BY <1>2, <2>3, <2>4, <2>5
  <2>7. ASSUME NEW k \in 1 .. n - 1  PROVE t[k] = cases[k]
    <3>1. k \in 1 .. (m - 1) - 1 + 1 /\ 1 + k - 1 = k
      BY <1>2
    <3>. QED  BY <2>3, <3>1
  <2>. QED  BY <2>3, <2>6, <2>7
<1> HIDE DEF t
<1>5. cases' = t
  BY <1>1, <1>3, <1>4, ConcatEmptySeq DEF t
<1>6. loaded[n] = {}
  BY <1>1, <1>2 DEF CampaignInv, CaseOK
<1>7. CampaignTypeOK'
  BY <1>1, <1>2, <1>4, <1>5, CampaignConstants DEF CampaignInv, CampaignTypeOK
<1>8. ASSUME NEW k \in 1 .. Len(cases')
      PROVE  CaseOK(cases[k], status, loaded[k])' /\ (k = active <=> ~Finished(cases[k]))'
  <2>1. k \in 1 .. n - 1 /\ k \in 1 .. n /\ k # active /\ k # 0
    BY <1>1, <1>2, <1>4, <1>5
  <2>2. CaseOK(cases[k], status, loaded[k]) /\ Finished(cases[k])
    BY <2>1 DEF CampaignInv
  <2>3. cases'[k] = cases[k] /\ loaded'[k] = loaded[k] /\ status' = status /\ active' # k
    BY <1>1, <1>4, <1>5, <2>1
  <2>. QED  BY <2>2, <2>3 DEF CaseOK, Finished
<1>9. ASSUME NEW k \in Case, k > Len(cases')  PROVE loaded'[k] = {}
  <2>1. k = n \/ k > n
    BY <1>2, <1>4, <1>5, <1>9 DEF Case
  <2>. QED  BY <1>1, <1>6, <2>1 DEF CampaignInv
<1>. QED  BY <1>1, <1>7, <1>8, <1>9 DEF CampaignInv

\* The agent that claims a phase is the one that profiled, or for creating one in
\* another thread.
LEMMA ClaimKeeps ==
    ASSUME CampaignInv, NEW q \in Call, NEW again, claim_phase(q, again), q.by \in Bindings
    PROVE  CampaignInv'
<1> DEFINE k == q.case
           p == q.phase
           c == cases[k]
           pc == IF p = "profile" THEN q.by ELSE c.profileComparator
           cr == IF p = "create" THEN q.by ELSE c.create
           t == [c EXCEPT !.state = "running", !.claim = TRUE,
                          !.profileComparator = pc, !.create = cr]
<1>1. /\ status = "active" /\ status' = status /\ active' = active /\ loaded' = loaded
      /\ k \in 1 .. Len(cases) /\ c.at = p /\ c.state = "pending" /\ CanBind(c, p, q.by)
      /\ cases' = [cases EXCEPT ![k] = t]
  BY DEF claim_phase, InPhase, Update
<1>2. CaseOK(c, status, loaded[k])
  BY <1>1 DEF CampaignInv
<1>3. ~c.terminal /\ ~Finished(c)
  BY <1>1, <1>2 DEF CaseOK, Finished
<1>4. k = active /\ active # 0 /\ c \in CaseRecord
  BY <1>1, <1>3, ActiveFacts
<1>5. q.by # None /\ pc \in Bindings \cup {None} /\ cr \in Bindings \cup {None}
  BY <1>4, CampaignConstants DEF CaseRecord
<1> HIDE DEF c
<1>6. /\ p # "create" => pc = q.by /\ c.profileComparator \in {None, q.by}
      /\ p = "create" => /\ pc = c.profileComparator /\ pc # None /\ cr = q.by
                         /\ pc[2] # q.by[2]
      /\ p # "create" => cr = c.create
  <2>1. CanBind(c, p, q.by)
    BY <1>1
  <2>. QED  BY <2>1 DEF CanBind
<1> HIDE DEF pc, cr
<1>7. /\ t \in CaseRecord /\ t.at = p /\ t.state = "running" /\ t.claim
      /\ t.profileComparator = pc /\ t.create = cr /\ t.target = c.target
      /\ t.generated = c.generated /\ t.comparison = c.comparison
      /\ t.consumed = c.consumed /\ t.terminal = c.terminal
  BY <1>1, <1>4, <1>5 DEF CaseRecord
<1> HIDE DEF t
<1>8. t.create # None => t.profileComparator # None /\ t.create[2] # t.profileComparator[2]
  BY <1>2, <1>5, <1>6, <1>7 DEF CaseOK
<1>9. loaded[k] \subseteq IF t.profileComparator = None THEN {} ELSE {t.profileComparator[2]}
  BY <1>2, <1>5, <1>6, <1>7 DEF CaseOK
<1>10. CaseOK(t, status', loaded[active]) /\ ~Finished(t)
  BY <1>1, <1>2, <1>3, <1>4, <1>5, <1>6, <1>7, <1>8, <1>9 DEF CaseOK, Finished
<1>. QED  BY <1>1, <1>4, <1>7, <1>10, ActiveKeeps

\* What the three calls that reset a state do to the active case.
LEMMA ResetKeeps ==
    ASSUME CampaignInv, NEW k \in 1 .. Len(cases), ~Finished(cases[k]),
           NEW t \in CaseRecord,
           t = [cases[k] EXCEPT !.state = "pending"]
               \/ t = [cases[k] EXCEPT !.state = "pending", !.claim = FALSE],
           ~t.claim, cases' = [cases EXCEPT ![k] = t],
           loaded' = loaded, active' = active, status' \in {"active", "paused"}
    PROVE  CampaignInv'
<1> DEFINE c == cases[k]
<1>1. /\ k = active /\ active # 0 /\ c \in CaseRecord
      /\ CaseOK(c, status, loaded[active])
  BY ActiveFacts
<1>2. /\ t.at = c.at /\ t.state = "pending" /\ t.profileComparator = c.profileComparator
      /\ t.create = c.create /\ t.target = c.target /\ t.generated = c.generated
      /\ t.comparison = c.comparison /\ t.consumed = c.consumed /\ t.terminal = c.terminal
  BY <1>1 DEF CaseRecord
<1> HIDE DEF c
<1>3. CaseOK(t, status', loaded[active]) /\ ~Finished(t)
  BY <1>1, <1>2 DEF CaseOK, Finished, c
<1>. QED  BY <1>1, <1>3, ActiveKeeps

LEMMA RetryKeeps ==
    ASSUME CampaignInv, NEW q, NEW again, retry_failed_phase(q, again)
    PROVE  CampaignInv'
<1> DEFINE k == q.case
           t == [cases[k] EXCEPT !.state = "pending"]
<1>1. /\ k \in 1 .. Len(cases) /\ cases[k].state = "failed" /\ ~cases[k].terminal
      /\ cases' = [cases EXCEPT ![k] = t]
      /\ status' = status /\ active' = active /\ loaded' = loaded
  BY DEF retry_failed_phase, Update
<1>2. ~Finished(cases[k])
  BY <1>1 DEF Finished
<1>3. cases[k] \in CaseRecord /\ CaseOK(cases[k], status, loaded[k]) /\ status' \in {"active", "paused"}
  BY <1>1, <1>2, ActiveFacts
<1>4. ~cases[k].claim
  BY <1>1, <1>3 DEF CaseOK
<1>5. t \in CaseRecord /\ ~t.claim
  BY <1>3, <1>4 DEF CaseRecord
<1>. QED  BY <1>1, <1>2, <1>3, <1>5, ResetKeeps

\* The campaign's status alone changes.
LEMMA StatusKeeps ==
    ASSUME CampaignInv, status' \in {"active", "paused"}, status # "completed",
           cases' = cases, active' = active, loaded' = loaded,
           active # 0 => cases[active].state \notin {"running", "paused"}
    PROVE  CampaignInv'
<1>1. ASSUME NEW k \in 1 .. Len(cases')
      PROVE  CaseOK(cases[k], status, loaded[k])' /\ (k = active <=> ~Finished(cases[k]))'
  <2>1. CaseOK(cases[k], status, loaded[k]) /\ (k = active <=> ~Finished(cases[k]))
    BY DEF CampaignInv
  <2>2. cases[k].state \notin {"running", "paused"}
    <3>1. CASE k = active
      BY <3>1
    <3>2. CASE k # active
      BY <2>1, <3>2 DEF CaseOK, Finished
    <3>. QED  BY <3>1, <3>2
  <2>. QED  BY <2>1, <2>2 DEF CaseOK, Finished
<1>2. CampaignTypeOK'
  BY DEF CampaignInv, CampaignTypeOK
<1>. QED  BY <1>1, <1>2 DEF CampaignInv

LEMMA PauseKeeps ==
    ASSUME CampaignInv, NEW q, NEW again, pause_campaign(q, again)
    PROVE  CampaignInv'
<1>1. status = "active" /\ status' = "paused" /\ active' = active /\ loaded' = loaded
  BY DEF pause_campaign
<1>2. CASE active = 0
  BY <1>1, <1>2, StatusKeeps DEF pause_campaign
<1>3. CASE active # 0
  <2> DEFINE c == cases[active]
  <2>1. active \in 1 .. Len(cases)
    BY <1>3, LenProperties DEF CampaignInv, CampaignTypeOK
  <2>2. ~Finished(c) /\ CaseOK(c, status, loaded[active])
    BY <2>1 DEF CampaignInv
  <2>3. c \in CaseRecord
    BY <2>1, <2>2, ActiveFacts
  <2>4. CASE c.state = "running"
    <3> DEFINE t == [c EXCEPT !.state = "pending", !.claim = FALSE]
    <3>1. cases' = [cases EXCEPT ![active] = t]
      BY <1>3, <2>4 DEF pause_campaign, Update, Unclaimed
    <3>2. t \in CaseRecord /\ ~t.claim
      BY <2>3 DEF CaseRecord
    <3>. QED  BY <1>1, <2>1, <2>2, <3>1, <3>2, ResetKeeps
  <2>5. CASE c.state # "running"
    <3>1. cases' = [cases EXCEPT ![active] = c]
      BY <1>3, <2>5 DEF pause_campaign, Update, Unclaimed
    <3>2. cases' = cases
      BY <2>1, <3>1, LenProperties DEF CampaignInv, CampaignTypeOK
    <3>3. c.state # "paused"
      BY <1>1, <2>2 DEF CaseOK
    <3>. QED  BY <1>1, <2>5, <3>2, <3>3, StatusKeeps
  <2>. QED  BY <2>4, <2>5
<1>. QED  BY <1>2, <1>3

LEMMA ResumeKeeps ==
    ASSUME CampaignInv, NEW q, NEW again, resume_campaign(q, again)
    PROVE  CampaignInv'
<1>1. status = "paused" /\ status' = "active" /\ active' = active /\ loaded' = loaded
  BY DEF resume_campaign
<1> DEFINE c == cases[active]
<1>2. ASSUME active # 0
      PROVE  active \in 1 .. Len(cases) /\ ~Finished(c) /\ c \in CaseRecord /\ c.state # "running" /\ ~c.claim
  <2>1. active \in 1 .. Len(cases)
    BY <1>2, LenProperties DEF CampaignInv, CampaignTypeOK
  <2>2. ~Finished(c) /\ CaseOK(c, status, loaded[active])
    BY <2>1 DEF CampaignInv
  <2>3. c \in CaseRecord
    BY <2>1, <2>2, ActiveFacts
  <2>4. c.state # "running" /\ ~c.claim
    BY <1>1, <2>2 DEF CaseOK
  <2>. QED  BY <2>1, <2>2, <2>3, <2>4
<1>3. CASE active # 0 /\ c.state = "paused"
  <2> DEFINE t == [c EXCEPT !.state = "pending"]
  <2>1. cases' = [cases EXCEPT ![active] = t]
    BY <1>3 DEF resume_campaign, Update
  <2>2. t \in CaseRecord /\ ~t.claim
    BY <1>2, <1>3 DEF CaseRecord
  <2>. QED  BY <1>1, <1>2, <1>3, <2>1, <2>2, ResetKeeps
<1>4. CASE ~(active # 0 /\ c.state = "paused")
  <2>1. cases' = cases
    BY <1>4 DEF resume_campaign
  <2>2. active # 0 => c.state \notin {"running", "paused"}
    BY <1>2, <1>4
  <2>. QED  BY <1>1, <2>1, <2>2, StatusKeeps
<1>. QED  BY <1>3, <1>4

\* The thread that loads the reference is the one that profiled.
LEMMA LoadKeeps ==
    ASSUME CampaignInv, NEW k \in 1 .. Len(cases), NEW by \in Bindings,
           load_reference_into_engine(k, by)
    PROVE  CampaignInv'
<1>1. PICK p \in {"profile", "compare"} : ClaimValid(k, p, by)
  BY DEF load_reference_into_engine
<1>2. /\ k = active /\ cases[k] \in CaseRecord /\ CaseOK(cases[k], status, loaded[k])
      /\ k \in Case /\ cases[k].at = p /\ cases[k].state = "running"
  BY <1>1, ClaimFacts
<1>3. by[2] = cases[k].profileComparator[2]
  BY <1>1 DEF ClaimValid
<1>4. cases[k].profileComparator # None
  BY <1>1, <1>2 DEF CaseOK
<1>5. /\ loaded' = [loaded EXCEPT ![k] = loaded[k] \cup {by[2]}]
      /\ status' = status /\ active' = active /\ cases' = cases
  BY DEF load_reference_into_engine
<1>6. loaded \in [Case -> SUBSET {b[2] : b \in Bindings}]
  BY DEF CampaignInv, CampaignTypeOK
<1>7. /\ loaded' \in [Case -> SUBSET {b[2] : b \in Bindings}]
      /\ loaded'[k] = loaded[k] \cup {by[2]} /\ \A j \in Case : j # k => loaded'[j] = loaded[j]
  BY <1>2, <1>5, <1>6
<1>8. CampaignTypeOK'
  BY <1>5, <1>7 DEF CampaignInv, CampaignTypeOK
<1>9. ASSUME NEW j \in 1 .. Len(cases')
      PROVE  CaseOK(cases[j], status, loaded[j])' /\ (j = active <=> ~Finished(cases[j]))'
  <2>0. j \in 1 .. Len(cases) /\ j \in Case
    BY <1>5, LenProperties, CampaignConstants DEF CampaignInv, CampaignTypeOK, Case
  <2>1. CaseOK(cases[j], status, loaded[j]) /\ (j = active <=> ~Finished(cases[j]))
    BY <2>0 DEF CampaignInv
  <2>2. CASE j = k
    <3>1. loaded'[j] \subseteq {cases[j].profileComparator[2]}
      BY <1>2, <1>3, <1>4, <1>7, <2>2 DEF CaseOK
    <3>. QED  BY <1>4, <1>5, <2>1, <2>2, <3>1 DEF CaseOK, Finished
  <2>3. CASE j # k
    BY <1>5, <1>7, <2>0, <2>1, <2>3 DEF CaseOK, Finished
  <2>. QED  BY <2>2, <2>3
<1>10. \A j \in Case : j > Len(cases') => loaded'[j] = {}
  <2>1. \A j \in Case : j > Len(cases) => j # k
    BY <1>2, LenProperties DEF CampaignInv, CampaignTypeOK, Case
  <2>. QED  BY <1>5, <1>7, <2>1 DEF CampaignInv
<1>. QED  BY <1>5, <1>8, <1>9, <1>10 DEF CampaignInv

----------------------------------------------------------------------------
(* The steps *)

LEMMA MutatesCommits ==
    ASSUME NEW q, NEW again, Mutates(q, again)
    PROVE  UNCHANGED memoryVars /\ load_for_mutation(again) /\ commit(q, again)
<1>1. CASE \/ intake_case(q, again) \/ discard_duplicate_pending_case(q, again)
           \/ retry_failed_phase(q, again) \/ pause_campaign(q, again)
           \/ resume_campaign(q, again) \/ claim_phase(q, again)
  BY <1>1 DEF intake_case, discard_duplicate_pending_case, retry_failed_phase, pause_campaign,
              resume_campaign, claim_phase
<1>2. CASE \/ submit_profile(q, again) \/ query_memory_for_create(q, again)
           \/ submit_create_mismatch(q, again) \/ submit_create_result(q, again)
           \/ submit_comparison(q, again) \/ complete_learning(q, again)
           \/ complete_learning_with_changes(q, again)
  BY <1>2 DEF submit_profile, query_memory_for_create, submit_create_mismatch,
              submit_create_result, submit_comparison, complete_learning,
              complete_learning_with_changes, Submits
<1>3. CASE \/ complete_learning_with_backlog(q, again) \/ submit_rereview(q, again)
           \/ submit_rereview_rejected(q, again) \/ fail_phase(q, again)
  BY <1>3 DEF complete_learning_with_backlog, submit_rereview, submit_rereview_rejected,
              fail_phase, PausesCase, Submits
<1>. QED  BY <1>1, <1>2, <1>3 DEF Mutates

LEMMA MutatesKeeps ==
    ASSUME IInv, NEW q \in Call, NEW again \in BOOLEAN, again => late # None,
           q.name = "claim_phase" => q.by \in Bindings, Mutates(q, again)
    PROVE  IInv'
<1>1. UNCHANGED memoryVars /\ load_for_mutation(again) /\ commit(q, again)
  BY MutatesCommits
<1>2. MemoryInv' /\ LateInv'
  BY <1>1, MemoryStutters, CommitKeeps DEF IInv
<1>c. CampaignInv
  BY DEF IInv
<1>3. CASE \/ intake_case(q, again) \/ discard_duplicate_pending_case(q, again)
           \/ retry_failed_phase(q, again) \/ pause_campaign(q, again)
           \/ resume_campaign(q, again)
  BY <1>2, <1>3, <1>c, IntakeKeeps, DiscardKeeps, RetryKeeps, PauseKeeps, ResumeKeeps DEF IInv
<1>4. CASE claim_phase(q, again)
  <2>1. q.by \in Bindings
    BY <1>4 DEF claim_phase
  <2>. QED  BY <1>2, <1>4, <1>c, <2>1, ClaimKeeps DEF IInv
<1>5. CASE \/ submit_profile(q, again) \/ query_memory_for_create(q, again)
           \/ submit_create_mismatch(q, again) \/ submit_create_result(q, again)
           \/ submit_comparison(q, again) \/ complete_learning_with_changes(q, again)
  BY <1>2, <1>5, <1>c, SubmitProfileKeeps, QueryMemoryKeeps, MismatchKeeps, SubmitCreateKeeps,
     SubmitComparisonKeeps, LearningChangesKeep DEF IInv
<1>6. CASE complete_learning(q, again)
  <2>1. CampaignInv'
    BY <1>6, <1>c, EndsKeeps DEF complete_learning
  <2>. QED  BY <1>2, <2>1 DEF IInv
<1>7. CASE submit_rereview(q, again)
  <2>1. CampaignInv'
    BY <1>7, <1>c, EndsKeeps DEF submit_rereview
  <2>. QED  BY <1>2, <2>1 DEF IInv
<1>8. CASE complete_learning_with_backlog(q, again) \/ submit_rereview_rejected(q, again)
  <2>1. ASSUME NEW name, NEW p, PausesCase(q, again, name, p)  PROVE CampaignInv'
    BY <1>c, <2>1, EndsKeeps DEF PausesCase
  <2>2. CampaignInv'
    BY <1>8, <2>1 DEF complete_learning_with_backlog, submit_rereview_rejected
  <2>. QED  BY <1>2, <2>2 DEF IInv
<1>9. CASE fail_phase(q, again)
  <2>1. PICK p \in Phase : Submits(q, again, "fail_phase", p, {Ends(Of(q), "failed")})
    BY <1>9 DEF fail_phase
  <2>2. loaded' = loaded /\ status' = status /\ active' = active
    BY <1>9 DEF fail_phase
  <2>3. CampaignInv'
    BY <1>c, <2>1, <2>2, EndsKeeps
  <2>. QED  BY <1>2, <2>3 DEF IInv
<1>. QED  BY <1>3, <1>4, <1>5, <1>6, <1>7, <1>8, <1>9 DEF Mutates

LEMMA CampaignStutters ==
    ASSUME CampaignInv, UNCHANGED <<status, active, cases, loaded>>
    PROVE  CampaignInv'
BY DEF CampaignInv, CampaignTypeOK, CaseOK, Finished

\* Calls that may be asked for are calls, and those that claim name an agent.
LEMMA AskedFacts ==
    ASSUME CampaignInv, NEW q \in Asked
    PROVE  q \in Call /\ (q.name = "claim_phase" => q.by \in Bindings)
<1>1. Len(cases) \in 0 .. CaseLimit
  BY LenProperties DEF CampaignInv, CampaignTypeOK
<1>2. CASE \E name \in Plain : q = Ask(name, None, None)
  BY <1>1, <1>2 DEF Ask, Call, Plain
<1>3. CASE \E name \in Claimed, b \in Bindings : q = Ask(name, None, b)
  BY <1>1, <1>3 DEF Ask, Call, Claimed
<1>4. CASE \E p \in Phase, b \in Bindings : q = Ask("claim_phase", p, b)
  BY <1>1, <1>4 DEF Ask, Call
<1>. QED  BY <1>2, <1>3, <1>4 DEF Asked

LEMMA SendKeeps ==
    ASSUME IInv, NEW q \in Asked, send_late(q)
    PROVE  IInv'
<1> DEFINE new == [call |-> q, current |-> TRUE, claimed |-> Running(cases, q.case),
                   applied |-> 0, age |-> 0]
<1>1. /\ UNCHANGED memoryVars /\ late' = new /\ UNCHANGED <<status, active, cases, loaded>>
  BY DEF send_late
<1>2. q \in Call /\ (q.name = "claim_phase" => q.by \in Bindings)
  BY AskedFacts DEF IInv
<1>3. Running(cases, q.case) \in BOOLEAN
  BY DEF Running
<1>4. new \in Late /\ new.applied = 0 /\ new.call = q
  BY <1>2, <1>3, CampaignConstants DEF Late
<1> HIDE DEF new
<1>5. LateInv'
  BY <1>1, <1>2, <1>4 DEF LateInv
<1>. QED  BY <1>1, <1>5, MemoryStutters, CampaignStutters DEF IInv

LEMMA InitInv == ASSUME Init  PROVE IInv
<1>1. MemoryInv /\ LateInv
  BY MemoryStarts DEF Init, LateInv
<1>2. CASE cases = <<>> /\ active = 0
  <2>1. Len(cases) = 0 /\ cases \in Seq(CaseRecord)
    BY <1>2, EmptySeq
  <2>. QED  BY <1>1, <1>2, <2>1, CampaignConstants
            DEF Init, IInv, CampaignInv, CampaignTypeOK, Case
<1>3. ASSUME CaseLimit > 1, active = 2, NEW s \in Sources, NEW b \in Bindings, NEW d \in Bindings,
             b[2] # d[2], cases = <<Failed(s, b, d), NewCase(s)>>
      PROVE  IInv
  <2> DEFINE n == NewCase(s)
             f == Failed(s, b, d)
  <2>1. n \in CaseRecord /\ CaseOK(n, status, {}) /\ ~Finished(n)
    BY NewCaseOK
  <2>2. n.claim = FALSE /\ n.generated = FALSE /\ n.comparison = FALSE
    BY DEF NewCase
  <2>3. f = [n EXCEPT !.at = "create", !.state = "failed", !.target = TRUE, !.consumed = TRUE,
                      !.terminal = TRUE, !.profileComparator = b, !.create = d]
    BY DEF Failed
  <2> HIDE DEF n, f
  <2>4. /\ f \in CaseRecord /\ f.at = "create" /\ f.state = "failed" /\ f.target /\ f.consumed
        /\ f.terminal /\ f.profileComparator = b /\ f.create = d /\ f.claim = FALSE
        /\ f.generated = FALSE /\ f.comparison = FALSE
    BY <2>1, <2>2, <2>3, Phases5 DEF CaseRecord
  <2>5. CaseOK(f, status, {}) /\ Finished(f)
    BY <1>3, <2>4, CampaignConstants DEF CaseOK, Finished
  <2>6. cases = <<f, n>>
    BY <1>3 DEF n, f
  <2>7. cases \in Seq(CaseRecord) /\ Len(cases) = 2 /\ cases[1] = f /\ cases[2] = n
    BY <2>1, <2>4, <2>6
  <2>8. loaded = [k \in Case |-> {}] /\ status = "active"
    BY DEF Init
  <2>9. CampaignTypeOK
    BY <1>3, <2>7, <2>8, CampaignConstants DEF CampaignTypeOK
  <2>10. \A k \in 1 .. Len(cases) : CaseOK(cases[k], status, loaded[k])
                                    /\ (k = active <=> ~Finished(cases[k]))
    <3>1. 1 .. 2 = {1, 2} /\ 1 \in Case /\ 2 \in Case
      BY <1>3, CampaignConstants DEF Case
    <3>. QED  BY <1>3, <2>1, <2>5, <2>7, <2>8, <3>1
  <2>. QED  BY <1>1, <1>3, <2>7, <2>8, <2>9, <2>10 DEF IInv, CampaignInv
<1>. QED  BY <1>2, <1>3 DEF Init

LEMMA NextInv == ASSUME IInv, [Next]_vars  PROVE IInv'
<1>1. CASE UNCHANGED vars
  <2>1. LateInv'
    BY <1>1 DEF IInv, LateInv, vars
  <2>2. UNCHANGED memoryVars /\ UNCHANGED <<status, active, cases, loaded>>
    BY <1>1 DEF vars
  <2>. QED  BY <2>1, <2>2, MemoryStutters, CampaignStutters DEF IInv
<1>2. ASSUME NEW q \in Asked, Mutates(q, FALSE)  PROVE IInv'
  BY <1>2, AskedFacts, MutatesKeeps DEF IInv
<1>3. ASSUME NEW q \in Asked, send_late(q)  PROVE IInv'
  BY <1>3, SendKeeps
<1>4. CASE late # None /\ Mutates(late.call, TRUE)
  <2>1. late.call \in Call /\ (late.call.name = "claim_phase" => late.call.by \in Bindings)
    BY <1>4 DEF IInv, LateInv, Late
  <2>. QED  BY <1>4, <2>1, MutatesKeeps
<1>5. CASE give_up
  <2>1. UNCHANGED memoryVars /\ UNCHANGED <<status, active, cases, loaded>> /\ late' = None
    BY <1>5 DEF give_up
  <2>2. LateInv'
    BY <2>1 DEF LateInv
  <2>. QED  BY <2>1, <2>2, MemoryStutters, CampaignStutters DEF IInv
<1>6. ASSUME NEW k \in 1 .. Len(cases), NEW b \in Bindings,
             \/ load_reference_into_engine(k, b)
             \/ propose_memory_lesson(k, b) \/ correct_memory_lesson(k, b)
      PROVE  IInv'
  <2>1. CASE load_reference_into_engine(k, b)
    <3>1. UNCHANGED memoryVars /\ late' = late
      BY <2>1 DEF load_reference_into_engine
    <3>2. LateInv'
      BY <3>1 DEF IInv, LateInv
    <3>. QED  BY <2>1, <3>1, <3>2, LoadKeeps, MemoryStutters DEF IInv
  <2>2. CASE propose_memory_lesson(k, b)
    <3>1. UNCHANGED <<status, active, cases, loaded>> /\ late' = late
      BY <2>2 DEF propose_memory_lesson
    <3>2. LateInv' /\ CampaignInv'
      BY <3>1, CampaignStutters DEF IInv, LateInv
    <3>3. MemoryInv'
      BY <2>2, ProposeKeeps DEF propose_memory_lesson, IInv
    <3>. QED  BY <3>2, <3>3 DEF IInv
  <2>3. CASE correct_memory_lesson(k, b)
    <3>1. UNCHANGED <<status, active, cases, loaded>> /\ late' = late
      BY <2>3 DEF correct_memory_lesson
    <3>2. LateInv' /\ CampaignInv'
      BY <3>1, CampaignStutters DEF IInv, LateInv
    <3>3. MemoryInv'
      BY <2>3, CorrectKeeps DEF correct_memory_lesson, IInv
    <3>. QED  BY <3>2, <3>3 DEF IInv
  <2>. QED  BY <1>6, <2>1, <2>2, <2>3
<1>7. ASSUME NEW s \in Servers, install_seed(s) \/ link_seed(s),
             UNCHANGED <<status, active, cases, late, loaded>>
      PROVE  IInv'
  <2>1. LateInv' /\ CampaignInv'
    BY <1>7, CampaignStutters DEF IInv, LateInv
  <2>2. MemoryInv'
    BY <1>7, SeedKeeps DEF IInv
  <2>. QED  BY <2>1, <2>2 DEF IInv
<1>. QED  BY <1>1, <1>2, <1>3, <1>4, <1>5, <1>6, <1>7 DEF Next

----------------------------------------------------------------------------
(* The theorems *)

LEMMA Invariance == Spec => []IInv
<1>1. Init => IInv
  BY InitInv
<1>2. IInv /\ [Next]_vars => IInv'
  BY NextInv
<1>. QED  BY <1>1, <1>2, PTL DEF Spec

\* A campaign is strictly serial and every stage of a case is backed by the ones
\* before it, whatever fails, pauses, is retried or arrives late (service.py).
THEOREM CampaignIsSound == Spec => []CampaignSound
<1>1. ASSUME IInv  PROVE CampaignSound
  <2>1. CampaignInv /\ LateInv /\ MemoryTypeOK
    BY <1>1 DEF IInv, MemoryInv
  <2>2. TypeOK
    <3>1. active \in 0 .. Len(cases)
      BY <2>1, LenProperties DEF CampaignInv, CampaignTypeOK
    <3>. QED  BY <2>1, <3>1 DEF TypeOK, CampaignInv, CampaignTypeOK, LateInv, Late
  <2>3. StrictlySerial
    BY <2>1 DEF CampaignInv, StrictlySerial, Finished
  <2>4. StagesBacked
    BY <2>1 DEF CampaignInv, StagesBacked, CaseOK
  <2>. QED  BY <2>2, <2>3, <2>4 DEF CampaignSound
<1>. QED  BY <1>1, Invariance, PTL

\* The thread that creates never had the reference loaded, for any set of agents,
\* those that share a task or a thread included (_bind_task, _claim_error).
THEOREM CreatorsAreBlind == Spec => []CreatorBlind
<1>1. ASSUME IInv, NEW k \in 1 .. Len(cases), cases[k].create # None
      PROVE  cases[k].create[2] \notin loaded[k]
  <2>1. CaseOK(cases[k], status, loaded[k])
    BY <1>1 DEF IInv, CampaignInv
  <2>. QED  BY <1>1, <2>1 DEF CaseOK
<1>2. IInv => CreatorBlind
  BY <1>1 DEF CreatorBlind
<1>. QED  BY <1>2, Invariance, PTL

\* A call is applied once, however small the log of operations is: what guards
\* against a second time is the revision (_load_for_mutation, _commit).
THEOREM CallsAreAppliedOnce == Spec => []AppliedOnce
<1>1. IInv => AppliedOnce
  BY DEF IInv, LateInv, AppliedOnce
<1>. QED  BY <1>1, Invariance, PTL

\* Every acknowledged event that is not in the file is paid for by an append that
\* failed in the middle (_append_event, _read_events, memory_path).
THEOREM LossIsBounded == Spec => []LossBounded
<1>1. ASSUME IInv  PROVE LossBounded
  <2>1. /\ Cardinality(Lost) <= torn - (IF tail = "whole" THEN 0 ELSE 1)
        /\ torn \in Nat /\ issued \in Nat /\ acknowledged \in SUBSET (1 .. issued)
    BY <1>1, MemoryConstants DEF IInv, MemoryInv, MemoryTypeOK, Id
  <2>2. Cardinality(Lost) \in Nat
    BY <2>1, LostFinite DEF Lost
  <2>3. Cardinality(Lost) <= torn
    BY <2>1, <2>2
  <2>. QED  BY <2>3 DEF LossBounded, Lost
<1>. QED  BY <1>1, Invariance, PTL

\* Replacements end, for any seed that is in order and any sequence of lessons,
\* corrections and failed appends (_materialize, append_correction).
THEOREM ReplacementsEndAlways == Spec => []SupersessionEnds
<1>1. IInv => SupersessionEnds
  BY DEF IInv, MemoryInv, InOrder, SupersessionEnds
<1>. QED  BY <1>1, Invariance, PTL
=============================================================================
