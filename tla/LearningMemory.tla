--------------------------- MODULE LearningMemory ---------------------------
(***************************************************************************)
(* server/learning/memory.py: the JSON-lines file of lessons and their     *)
(* corrections that every learning server of the user appends to, under    *)
(* one file lock.  The file starts as a copy of the released seed, put in  *)
(* place by whichever server needs it first.  Lessons and corrections are  *)
(* known by the number of their event; a text is a model value and stands  *)
(* for its normalised hash (_lesson_key).                                  *)
(*                                                                         *)
(* An append may fail with part of its line written: the next event then   *)
(* continues that line, and _read_events skips what does not parse.        *)
(***************************************************************************)
EXTENDS Integers, FiniteSets, Sequences

CONSTANTS Texts,         \* what a lesson may say
          Seed,          \* the events of the released seed, numbered in order
          Servers,       \* processes that may install the seed
          MaxEvents,     \* bound: events written, the seed's included
          MaxTorn,       \* bound: appends that fail in the middle
          None

Id == 1 .. MaxEvents

Actions == {"narrow", "revise", "supersede", "deprecate"}
Event == [id : Id, action : Actions \cup {"lesson"}, target : Id,
          text : Texts \cup {None}, replacement : Id \cup {0}]

ASSUME MemoryConstants ==
    /\ MaxEvents \in Nat \ {0} /\ MaxTorn \in Nat
    /\ None \notin Texts /\ None \notin Seq(Event)
    /\ Seed \in Seq(Event) /\ Len(Seed) \in Id
    /\ \A n \in 1 .. Len(Seed) : Seed[n].id = n

VARIABLES lines,         \* the file's events, in order; None before it exists
          tail,          \* its last line: "whole", "torn", or "open": only its end is missing
          installing,    \* servers that have found no file and copied the seed
          issued,        \* event ids given out
          acknowledged,  \* (history) events that a caller was told are written
          torn           \* appends that failed in the middle

memoryVars == <<lines, tail, installing, issued, acknowledged, torn>>

Lesson(i, text) == [id |-> i, action |-> "lesson", target |-> i, text |-> text, replacement |-> 0]
Correction(i, action, target, text, r) ==
    [id |-> i, action |-> action, target |-> target, text |-> text, replacement |-> r]

MemoryTypeOK ==
    /\ lines \in Seq(Event) \cup {None}
    /\ tail \in {"whole", "torn", "open"}
    /\ installing \subseteq Servers
    /\ issued \in Id /\ acknowledged \subseteq Id /\ torn \in 0 .. MaxTorn

MemoryInit ==
    /\ lines = None /\ tail = "whole" /\ installing = {}
    /\ issued = Len(Seed) /\ acknowledged = {} /\ torn = 0

----------------------------------------------------------------------------
(* The state that _materialize folds out of events.  An event refers to    *)
(* earlier ones only.                                                      *)

EventsOf(s) == {s[n] : n \in 1 .. Len(s)}
LessonsIn(E) == {e.id : e \in {e \in E : e.action = "lesson"}}
HistoryIn(E, i) == {e \in E : e.target = i}     \* the lesson and its corrections
LastOf(S) == CHOOSE e \in S : \A f \in S : f.id <= e.id

StatusAfter == [lesson |-> "active", revise |-> "active", narrow |-> "narrowed",
                supersede |-> "superseded", deprecate |-> "deprecated"]
StatusIn(E, i) == StatusAfter[LastOf(HistoryIn(E, i)).action]

EffectiveIn(E) == {i \in LessonsIn(E) : StatusIn(E, i) \in {"active", "narrowed"}}

\* The lesson that superseded another is in memory, and was withdrawn itself only
\* later: a chain of replacements never comes back to a withdrawn lesson.
ReplacementsEnd(E) ==
    \A i \in LessonsIn(E) : StatusIn(E, i) = "superseded" =>
        LET j == LastOf(HistoryIn(E, i)).replacement IN
        /\ j \in LessonsIn(E)
        /\ j \in EffectiveIn(E) \/ LastOf(HistoryIn(E, j)).id > LastOf(HistoryIn(E, i)).id

\* The released seed is in order.
ASSUME SeedInOrder ==
    /\ \A e \in EventsOf(Seed) : e.target <= e.id /\ (e.action = "lesson" => e.target = e.id)
    /\ ReplacementsEnd(EventsOf(Seed))

Events == IF lines = None THEN {} ELSE EventsOf(lines)
Lessons == LessonsIn(Events)
History(i) == HistoryIn(Events, i)
Effective == EffectiveIn(Events)

\* _entry_lesson_keys: every text the lesson has or had.
LessonKeys(i) == {e.text : e \in History(i)} \ {None}

----------------------------------------------------------------------------
\* _append_event: the line is written, or part of it; after a line without an
\* end the new event is lost with it, and nobody is told.
append_event(e) ==
    /\ issued < MaxEvents /\ issued' = issued + 1
    /\ \/ /\ lines' = CASE tail = "whole" -> Append(lines, e)
                       [] tail = "torn" -> lines
                       [] tail = "open" -> SubSeq(lines, 1, Len(lines) - 1)
          /\ tail' = "whole"
          /\ acknowledged' = acknowledged \cup {e.id}
          /\ UNCHANGED torn
       \/ /\ torn < MaxTorn /\ torn' = torn + 1
          /\ \/ tail' = "torn" /\ lines' = IF tail = "open" THEN SubSeq(lines, 1, Len(lines) - 1)
                                           ELSE lines
             \/ tail = "whole" /\ tail' = "open" /\ lines' = Append(lines, e)
          /\ UNCHANGED acknowledged
    /\ UNCHANGED installing

\* memory_path: a server that finds no file copies the seed aside ...
install_seed(s) ==
    /\ lines = None /\ s \notin installing
    /\ installing' = installing \cup {s}
    /\ UNCHANGED <<lines, tail, issued, acknowledged, torn>>

\* Mutant: the copy is moved over whatever is there by now.
link_seed_replacing(s) ==
    /\ s \in installing
    /\ installing' = installing \ {s}
    /\ lines' = Seed /\ tail' = "whole"
    /\ UNCHANGED <<issued, acknowledged, torn>>

\* ... and links it to the file's name, unless the name is taken by now.
link_seed(s) ==
    /\ s \in installing
    /\ installing' = installing \ {s}
    /\ lines' = IF lines = None THEN Seed ELSE lines
    /\ UNCHANGED <<tail, issued, acknowledged, torn>>

\* A text that some lesson has or had is taken, unless the lesson was corrected
\* and the proposal cites a correction and new evidence.
propose_lesson(text, cites) ==
    LET equivalents == {i \in Lessons : text \in LessonKeys(i)} IN
    /\ lines # None
    /\ equivalents # {} => cites /\ \E i \in equivalents : Cardinality(History(i)) > 1
    /\ append_event(Lesson(issued + 1, text))

\* Mutant: the lesson that replaces another may have been replaced itself.
CanReplace_anything(r, i) == r \in Lessons /\ r # i

CanReplace(r, i) == r \in Effective /\ r # i

\* A lesson in effect gets another text, that no other one in effect has or
\* had; or it is superseded by another one in effect, or deprecated.
append_correction(i, action, text, r) ==
    /\ i \in Effective
    /\ \/ /\ action \in {"narrow", "revise"} /\ r = 0
          /\ text \in Texts /\ \A j \in Effective \ {i} : text \notin LessonKeys(j)
       \/ action = "supersede" /\ text = None /\ CanReplace(r, i)
       \/ action = "deprecate" /\ text = None /\ r = 0
    /\ append_event(Correction(issued + 1, action, i, text, r))

----------------------------------------------------------------------------
(* Properties *)

\* A failed append costs at most one event that a caller was told is written
\* ("availableForNextCreate"), and nothing else does: no later append, no late
\* installation of the seed by another server.
LossBounded == Cardinality(acknowledged \ {e.id : e \in Events}) <= torn

\* In whatever order lessons are corrected, and whichever of the events a failed
\* append takes with it, replacements end (see ReplacementsEnd).
SupersessionEnds == ReplacementsEnd(Events)
=============================================================================
