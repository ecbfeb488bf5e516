------------------------ MODULE GenerationRunProofs ------------------------
(***************************************************************************)
(* What GenerationRun promises, for any number of calls, processes,        *)
(* builds, attempts, failures and overtaken locks.                         *)
(*                                                                         *)
(* The inductive invariant has two halves.  The first holds whatever       *)
(* overtakes what: a save works on an attempt that passed, and an          *)
(* evaluation that has written its receipt but not the latest one keeps    *)
(* every strict read from succeeding (BackedInv), until the artifact is    *)
(* delivered and nothing selects it any more (Settled).  The second        *)
(* (LeaseInv) holds as long as no call has outlived its lease: the calls   *)
(* past their lock hold it, and every receipt but an unfollowed last one   *)
(* was answered.                                                           *)
(***************************************************************************)
EXTENDS GenerationRun, FiniteSetTheorems, TLAPS

Where == {"idle", "bound", "judging", "written", "saving", "selecting",
          "reviewing", "review_locked", "result_written"}
Holding == {"judging", "written", "saving", "selecting"}
Reviewing == {"reviewing", "review_locked", "result_written"}

CallState == [pc : Where, process : Processes \cup {None}, index : Index,
              build : Builds \cup {None}, seen : Index \cup Outcome \cup Chain \cup {None}]

\* What a call remembers fits where it is.
GoodCall == {k \in CallState :
    /\ k.pc # "idle" => k.process \in Processes
    /\ k.pc = "written" => k.seen \in Index
    /\ k.pc \in {"saving", "selecting"} => k.seen \in Outcome /\ k.build \in Builds
    /\ k.pc \in Reviewing => k.seen \in Chain}

CallInv == call \in [Calls -> GoodCall]

ShapeInv ==
    /\ run.manifest => run.dir
    /\ \A i \in Index : run.attempts[i] # None => run.attempts[i].index = i

NamesArtifact(i, b, o) ==
    artifact # None /\ artifact.index = i /\ artifact.build = b /\ artifact.outcome = o

\* The selection receipt names the artifact, and so does the one call that is
\* about to write it.
SelectionInv ==
    run.manifest =>
        /\ run.selection # None =>
               NamesArtifact(run.selection.index, run.selection.build, run.selection.outcome)
        /\ \A c \in Calls : call[c].pc = "selecting" =>
               /\ run.selection = None
               /\ NamesArtifact(call[c].index, call[c].build, call[c].seen)
               /\ \A d \in Calls \ {c} : call[d].pc # "selecting"

\* The artifact is delivered and nobody is left to take it back.
Settled == /\ artifact # None /\ artifact.delivered
           /\ \A c \in Calls : call[c].pc # "selecting"

Passed(i, b) == run.attempts[i] = [index |-> i, build |-> b, passed |-> TRUE]

\* The receipt of c is the last one, the latest has not followed it, and no
\* save is about it.
Unfollowed(c) ==
    /\ run.attempts[call[c].seen] # None
    /\ run.latest # run.attempts[call[c].seen]
    /\ \A i \in Index : i > call[c].seen => run.attempts[i] = None
    /\ artifact # None => artifact.index # call[c].seen
    /\ \A d \in Calls \ {c} : /\ call[d].pc # "written"
                              /\ call[d].pc = "saving" => call[d].index # call[c].seen

BackedInv ==
    run.manifest /\ ~Settled =>
        /\ artifact # None => Passed(artifact.index, artifact.build)
        /\ \A c \in Calls : call[c].pc = "saving" => Passed(call[c].index, call[c].build)
        /\ \A c \in Calls : call[c].pc = "written" => Unfollowed(c)

OnlyAnswered(chain) == \A i \in Index : chain[i] # None => i \in answered

\* An unanswered receipt is the last one, and the latest is another.
NextToLatest(i) ==
    /\ run.latest # run.attempts[i]
    /\ \A j \in Index : j > i => run.attempts[j] = None

InLease(c) ==
    /\ call[c].pc \in Holding => lock = c /\ run.dir
    /\ call[c].pc \in {"judging", "written"} => run.selection = None
    /\ call[c].pc = "judging" =>
           \A i \in Index : run.attempts[i] # None <=> i < call[c].index
    /\ call[c].pc = "written" =>
           call[c].seen = call[c].index /\ run.attempts[call[c].seen] # None
    /\ call[c].pc = "saving" => artifact = None
    /\ call[c].pc \in {"saving", "selecting"} => run.manifest
    /\ call[c].pc \in Reviewing => OnlyAnswered(call[c].seen)

LeaseInv ==
    overtakes = 0 =>
        /\ ~run.dir => run = NoRun
        /\ run.result # None => OnlyAnswered(run.result)
        /\ \A i \in Index : run.attempts[i] # None => i \in answered \/ NextToLatest(i)
        /\ \A c \in Calls : InLease(c)

\* One reviewer at a time is past the review-lock, and the run is not consumed.
ReviewInv ==
    \A c \in Calls : call[c].pc \in {"review_locked", "result_written"} =>
        /\ run.reviewLock /\ ~run.consumed
        /\ \A d \in Calls \ {c} : call[d].pc \notin {"review_locked", "result_written"}

IInv == TypeOK /\ CallInv /\ ShapeInv /\ SelectionInv /\ BackedInv /\ LeaseInv /\ ReviewInv

----------------------------------------------------------------------------
(* The chain of receipts *)

LEMMA ReceiptsHaveFields ==
    ASSUME TypeOK, NEW i \in Index, run.attempts[i] # None
    PROVE  /\ run.attempts[i] \in Receipt
           /\ run.attempts[i].index \in Index /\ run.attempts[i].build \in Builds
           /\ run.attempts[i].passed \in BOOLEAN
<1>1. run.attempts \in [Index -> Receipt \cup {None}]
  BY DEF TypeOK, Run, Chain
<1>2. run.attempts[i] \in Receipt
  BY <1>1
<1> QED
  BY <1>2 DEF Receipt

\* There is no value among the receipts.
LEMMA NoneIsNoReceipt == None \notin Receipt /\ None \notin Chain /\ None \notin Selection
                         /\ None \notin Artifact /\ None \notin Builds
  BY GenerationConstants

LEMMA PassedIsReceipt ==
    ASSUME NEW i \in Index, NEW b \in Builds, Passed(i, b)
    PROVE  run.attempts[i] # None
<1>1. [index |-> i, build |-> b, passed |-> TRUE] \in Receipt
  BY DEF Receipt
<1> QED
  BY <1>1, NoneIsNoReceipt DEF Passed

LEMMA LengthIsNatural == Length \in Nat
<1>1. MaxAttempts \in Nat
  BY GenerationConstants
<1>2. IsFiniteSet(Index)
  BY <1>1, FS_Interval DEF Index
<1>3. IsFiniteSet(Written)
  BY <1>2, FS_Subset DEF Written
<1> QED
  BY <1>3, FS_CardinalityType DEF Length

\* A strict read finds the receipts below Length and no other, and the latest
\* is the last one.
LEMMA StrictRead ==
    ASSUME TypeOK, read_trusted_evaluations_strict
    PROVE  /\ Length \in Nat /\ Length <= MaxAttempts
           /\ \A i \in Index : run.attempts[i] # None <=> i < Length
           /\ Length = 0 => run.latest = None
           /\ Length > 0 => Length - 1 \in Index /\ run.latest = run.attempts[Length - 1]
<1>1. Length \in Nat /\ MaxAttempts \in Nat /\ MaxAttempts > 0
  BY LengthIsNatural, GenerationConstants
<1>2. Written = 0 .. Length - 1
  BY DEF read_trusted_evaluations_strict
<1>3. \A i \in Index : run.attempts[i] # None <=> i < Length
  BY <1>1, <1>2 DEF Written, Index
<1>4. Length > 0 => Length - 1 \in Written
  BY <1>1, <1>2
<1>5. Length > 0 => Length - 1 \in Index /\ Written # {}
  BY <1>4 DEF Written
<1>6. Length <= MaxAttempts
  BY <1>1, <1>5 DEF Index
<1>7. Length = 0 => Written = {}
  BY <1>2
<1>8. run.latest = IF Written = {} THEN None ELSE run.attempts[Length - 1]
  BY DEF read_trusted_evaluations_strict
<1> QED
  BY <1>1, <1>3, <1>5, <1>6, <1>7, <1>8

\* No strict read succeeds while a receipt waits for the latest to follow it.
LEMMA NotStrict ==
    ASSUME TypeOK, CallInv, BackedInv, run.manifest, ~Settled,
           read_trusted_evaluations_strict, NEW d \in Calls
    PROVE  call[d].pc # "written"
<1> SUFFICES ASSUME call[d].pc = "written" PROVE FALSE
  OBVIOUS
<1>1. Unfollowed(d)
  BY DEF BackedInv
<1>2. call[d].seen \in Index
  BY DEF CallInv, GoodCall
<1> DEFINE n == call[d].seen
<1>3. /\ run.attempts[n] # None /\ run.latest # run.attempts[n]
      /\ \A i \in Index : i > n => run.attempts[i] = None
  BY <1>1 DEF Unfollowed
<1>4. n \in Index
  BY <1>2
<1> HIDE DEF n
<1>5. Length \in Nat /\ n < Length /\ Length - 1 \in Index
  BY <1>3, <1>4, StrictRead DEF Index
<1>6. run.attempts[Length - 1] # None
  BY <1>5, StrictRead
<1>7. Length - 1 = n
  BY <1>3, <1>4, <1>5, <1>6 DEF Index
<1> QED
  BY <1>3, <1>5, <1>7, StrictRead DEF Index

\* While no lock was overtaken a strict read finds answered attempts only.
LEMMA StrictAnswered ==
    ASSUME TypeOK, LeaseInv, overtakes = 0, read_trusted_evaluations_strict
    PROVE  OnlyAnswered(run.attempts)
<1> SUFFICES ASSUME NEW i \in Index, run.attempts[i] # None, i \notin answered PROVE FALSE
  BY DEF OnlyAnswered
<1>1. NextToLatest(i)
  BY DEF LeaseInv
<1>2. Length \in Nat /\ i < Length /\ Length - 1 \in Index
  BY StrictRead DEF Index
<1>3. run.attempts[Length - 1] # None
  BY <1>2, StrictRead
<1>4. Length - 1 = i
  BY <1>1, <1>2, <1>3 DEF NextToLatest, Index
<1> QED
  BY <1>1, <1>2, <1>4, StrictRead DEF NextToLatest, Index

----------------------------------------------------------------------------
(* What leaves the parts of the invariant as they are *)

LEMMA NewCall ==
    ASSUME CallInv, NEW c \in Calls, NEW s \in GoodCall, call' = [call EXCEPT ![c] = s]
    PROVE  CallInv' /\ call'[c] = s /\ \A d \in Calls \ {c} : call'[d] = call[d]
  BY DEF CallInv

LEMMA ReviewKeeps ==
    ASSUME ReviewInv, run'.reviewLock = run.reviewLock, run'.consumed = run.consumed,
           \A d \in Calls : call'[d].pc \in {"review_locked", "result_written"} =>
                call[d].pc \in {"review_locked", "result_written"}
    PROVE  ReviewInv'
  BY DEF ReviewInv

\* The artifact stays, delivered or not.
SameArtifact ==
    /\ artifact' = None <=> artifact = None
    /\ artifact # None =>
           /\ artifact'.index = artifact.index /\ artifact'.build = artifact.build
           /\ artifact'.outcome = artifact.outcome
           /\ artifact.delivered => artifact'.delivered

LEMMA SelectionKeeps ==
    ASSUME SelectionInv, run'.manifest => run.manifest, run'.selection = run.selection,
           SameArtifact,
           \A d \in Calls : call'[d].pc = "selecting" => call'[d] = call[d]
    PROVE  SelectionInv'
<1>1. \A i, b, o : NamesArtifact(i, b, o) => NamesArtifact(i, b, o)'
  BY DEF NamesArtifact, SameArtifact
<1> QED
  BY <1>1 DEF SelectionInv

LEMMA SettledStays ==
    ASSUME SameArtifact,
           \A d \in Calls : call'[d].pc = "selecting" => call[d].pc = "selecting",
           Settled
    PROVE  Settled'
  BY DEF Settled, SameArtifact

LEMMA BackedKeeps ==
    ASSUME BackedInv, run'.manifest => run.manifest, run'.attempts = run.attempts,
           run'.latest = run.latest, SameArtifact,
           \A d \in Calls : call'[d].pc \in {"saving", "written", "selecting"} =>
                call'[d] = call[d]
    PROVE  BackedInv'
<1>1. SUFFICES ASSUME run'.manifest, ~Settled'
               PROVE  /\ artifact' # None => Passed(artifact.index, artifact.build)'
                      /\ \A c \in Calls : (call[c].pc = "saving" =>
                             Passed(call[c].index, call[c].build))'
                      /\ \A c \in Calls : (call[c].pc = "written" => Unfollowed(c))'
  BY DEF BackedInv
<1>2. run.manifest /\ ~Settled
  BY <1>1, SettledStays
<1>3. \A i, b : Passed(i, b) => Passed(i, b)'
  BY DEF Passed
<1>4. artifact' # None => Passed(artifact.index, artifact.build)'
  BY <1>2, <1>3 DEF BackedInv, SameArtifact
<1>5. \A c \in Calls : (call[c].pc = "saving" => Passed(call[c].index, call[c].build))'
  BY <1>2, <1>3 DEF BackedInv
<1>6. \A c \in Calls : call'[c].pc = "written" => Unfollowed(c)'
  BY <1>2 DEF BackedInv, Unfollowed, SameArtifact
<1> QED
  BY <1>4, <1>5, <1>6

LEMMA LeaseKeeps ==
    ASSUME LeaseInv, SameArtifact,
           run'.dir = run.dir, run'.manifest = run.manifest, run'.attempts = run.attempts,
           run'.latest = run.latest, run'.selection = run.selection,
           answered' = answered, overtakes' = 0 => overtakes = 0,
           overtakes = 0 /\ ~run.dir => run' = run,
           overtakes = 0 => run'.result = None \/ OnlyAnswered(run'.result),
           \A d \in Calls :
                \/ call'[d] = call[d]
                \/ call'[d].pc \in {"idle", "bound"}
                \/ /\ call'[d].pc \in Reviewing
                   /\ overtakes = 0 => OnlyAnswered(call'[d].seen)
                \/ overtakes' = 0 => InLease(d)',
           overtakes' = 0 => \A d \in Calls : call'[d].pc \in Holding => lock' = d
    PROVE  LeaseInv'
<1>1. SUFFICES ASSUME overtakes' = 0
               PROVE  /\ ~run'.dir => run' = NoRun
                      /\ run'.result # None => OnlyAnswered(run.result)'
                      /\ \A i \in Index : run'.attempts[i] # None =>
                             i \in answered' \/ NextToLatest(i)'
                      /\ \A c \in Calls : InLease(c)'
  BY DEF LeaseInv
<1>2. overtakes = 0
  BY <1>1
<1>3. \A x : OnlyAnswered(x) => OnlyAnswered(x)'
  BY DEF OnlyAnswered
<1>4. ~run'.dir => run' = NoRun
  BY <1>2 DEF LeaseInv
<1>5. run'.result # None => OnlyAnswered(run.result)'
  BY <1>2, <1>3
<1>6. \A i \in Index : run'.attempts[i] # None => i \in answered' \/ NextToLatest(i)'
  BY <1>2 DEF LeaseInv, NextToLatest
<1>7. ASSUME NEW c \in Calls PROVE InLease(c)'
  <2>1. CASE call'[c] = call[c]
    <3>1. InLease(c)
      BY <1>2 DEF LeaseInv
    <3>2. call'[c].pc \in Holding => lock' = c /\ run'.dir
      BY <1>1, <2>1, <3>1 DEF InLease
    <3>3. artifact = None => artifact' = None
      BY DEF SameArtifact
    <3>4. call'[c].pc \in Reviewing => OnlyAnswered(call[c].seen)'
      BY <2>1, <3>1, <1>3 DEF InLease
    <3> QED
      BY <2>1, <3>1, <3>2, <3>3, <3>4 DEF InLease
  <2>2. CASE call'[c].pc \in {"idle", "bound"}
    BY <2>2 DEF InLease, Holding, Reviewing
  <2>3. CASE call'[c].pc \in Reviewing /\ OnlyAnswered(call'[c].seen)
    BY <2>3, <1>3 DEF InLease, Holding, Reviewing
  <2> QED
    BY <1>1, <1>2, <2>1, <2>2, <2>3
<1> QED
  BY <1>4, <1>5, <1>6, <1>7

\* The run's files that evaluations and saves are about stay, whatever calls
\* end, begin or review.
LEMMA FrameKeeps ==
    ASSUME IInv, TypeOK', CallInv', ReviewInv', SameArtifact,
           run'.dir = run.dir, run'.manifest = run.manifest, run'.attempts = run.attempts,
           run'.latest = run.latest, run'.selection = run.selection,
           answered' = answered, overtakes' = 0 => overtakes = 0,
           overtakes = 0 /\ ~run.dir => run' = run,
           overtakes = 0 => run'.result = None \/ OnlyAnswered(run'.result),
           \A d \in Calls :
                \/ call'[d] = call[d]
                \/ call'[d].pc \in {"idle", "bound"}
                \/ /\ call'[d].pc \in Reviewing
                   /\ overtakes = 0 => OnlyAnswered(call'[d].seen),
           overtakes' = 0 => \A d \in Calls : call'[d].pc \in Holding => lock' = d
    PROVE  IInv'
<1>1. ShapeInv'
  BY DEF IInv, ShapeInv
<1>2. SelectionInv'
  BY SelectionKeeps DEF IInv, Reviewing
<1>3. BackedInv'
  BY BackedKeeps DEF IInv, Reviewing
<1>4. LeaseInv'
  BY LeaseKeeps DEF IInv
<1> QED
  BY <1>1, <1>2, <1>3, <1>4 DEF IInv

\* The run and the artifact stay altogether.
LEMMA QuietKeeps ==
    ASSUME IInv, TypeOK', CallInv', run' = run, artifact' = artifact, answered' = answered,
           overtakes' = 0 => overtakes = 0,
           \A d \in Calls :
                \/ call'[d] = call[d]
                \/ call'[d].pc \in {"idle", "bound"}
                \/ /\ call'[d].pc = "reviewing"
                   /\ overtakes = 0 => OnlyAnswered(call'[d].seen),
           overtakes' = 0 => \A d \in Calls : call'[d].pc \in Holding => lock' = d
    PROVE  IInv'
<1>1. ReviewInv'
  BY ReviewKeeps DEF IInv
<1>2. SameArtifact
  BY DEF SameArtifact
<1>3. overtakes = 0 => run'.result = None \/ OnlyAnswered(run'.result)
  BY DEF IInv, LeaseInv
<1> QED
  BY <1>1, <1>2, <1>3, FrameKeeps DEF Reviewing

----------------------------------------------------------------------------
(* The calls that end, begin or are dropped *)

LEMMA IdleIsGood == Idle \in GoodCall /\ Idle.pc = "idle"
<1>1. 0 \in Index
  BY GenerationConstants DEF Index
<1> QED
  BY <1>1 DEF Idle, GoodCall, CallState, Where, Holding, Reviewing

LEMMA OtherKeeps ==
    ASSUME CallInv, NEW c \in Calls, Ends(c)
    PROVE  /\ CallInv' /\ call'[c] = Idle /\ call'[c].pc = "idle"
           /\ \A d \in Calls \ {c} : call'[d] = call[d]
<1>1. call' = [call EXCEPT ![c] = Idle]
  BY DEF Ends
<1> QED
  BY <1>1, IdleIsGood, NewCall

\* Only one call is past the lock, as long as no lock was overtaken.
LEMMA OneHolder ==
    ASSUME LeaseInv, overtakes = 0, NEW c \in Calls, call[c].pc \in Holding
    PROVE  lock = c /\ \A d \in Calls \ {c} : call[d].pc \notin Holding
  BY DEF LeaseInv, InLease

LEMMA LocksFollowHolders ==
    ASSUME LeaseInv, overtakes = 0, lock' = lock, 
           \A d \in Calls : call'[d] = call[d] \/ call'[d].pc \notin Holding
    PROVE  \A d \in Calls : call'[d].pc \in Holding => lock' = d
  BY DEF LeaseInv, InLease

LEMMA CallsTyped ==
    ASSUME CallInv PROVE \A c \in Calls : call[c].pc \in Where
  BY DEF CallInv, GoodCall, CallState

LEMMA ForgetTyped ==
    ASSUME TypeOK, CallInv, NEW c \in Calls, call[c].pc \in Holding,
           NEW i \in Index, NEW b \in Builds \cup {None},
           memory' = [memory EXCEPT ![call[c].process][i] = b]
    PROVE  memory' \in [Processes -> [Index -> Builds \cup {None}]]
<1>1. call[c].process \in Processes
  BY DEF CallInv, GoodCall, Holding
<1> QED
  BY <1>1 DEF TypeOK

LEMMA ForgetAllTyped ==
    ASSUME TypeOK, NEW p \in Processes, memory' = [memory EXCEPT ![p] = [i \in Index |-> None]]
    PROVE  memory' \in [Processes -> [Index -> Builds \cup {None}]]
<1>1. [i \in Index |-> None] \in [Index -> Builds \cup {None}]
  OBVIOUS
<1> QED
  BY <1>1 DEF TypeOK

LEMMA RejectedKeeps ==
    ASSUME IInv, NEW c \in Calls, rejected(c) PROVE IInv'
<1>1. CallInv' /\ call'[c].pc = "idle" /\ \A d \in Calls \ {c} : call'[d] = call[d]
  BY OtherKeeps DEF IInv, rejected
<1>2. TypeOK'
  BY <1>1, CallsTyped DEF IInv, rejected, TypeOK, release_generation_lock, faults, Where,
     CallInv, GoodCall, CallState
<1>3. overtakes = 0 => \A d \in Calls : call'[d].pc \in Holding => lock' = d
  BY <1>1, OneHolder DEF IInv, rejected, UnderLock, Holding
<1> QED
  BY <1>1, <1>2, <1>3, QuietKeeps DEF rejected, faults

LEMMA TakeoverKeeps ==
    ASSUME IInv, NEW c \in Calls, rejected_after_takeover(c) PROVE IInv'
<1>1. CallInv'
  BY DEF IInv, rejected_after_takeover, CallInv
<1>2. overtakes \in Nat /\ overtakes' \in 0 .. MaxOvertakes /\ (overtakes' = 0 => overtakes = 0)
  BY GenerationConstants DEF IInv, TypeOK, rejected_after_takeover
<1>3. TypeOK'
  BY <1>2 DEF IInv, rejected_after_takeover, TypeOK, release_generation_lock
<1>4. ASSUME overtakes' = 0, NEW d \in Calls, call'[d].pc \in Holding PROVE FALSE
  <2>1. lock \notin Calls
    BY <1>4, <1>2 DEF rejected_after_takeover
  <2>2. lock = d
    BY <1>4, <1>2, OneHolder DEF IInv, rejected_after_takeover
  <2> QED
    BY <2>1, <2>2
<1> QED
  BY <1>1, <1>2, <1>3, <1>4, QuietKeeps DEF rejected_after_takeover

LEMMA RefusedKeeps ==
    ASSUME IInv, NEW c \in Calls, evaluation_refused(c) PROVE IInv'
<1>1. CallInv' /\ call'[c].pc = "idle" /\ \A d \in Calls \ {c} : call'[d] = call[d]
  BY OtherKeeps DEF IInv, evaluation_refused
<1>2. TypeOK'
  BY <1>1 DEF IInv, evaluation_refused, TypeOK, faults, Where, CallInv, GoodCall, CallState
<1>3. overtakes = 0 => \A d \in Calls : call'[d].pc \in Holding => lock' = d
  BY <1>1, LocksFollowHolders DEF IInv, evaluation_refused, Holding
<1> QED
  BY <1>1, <1>2, <1>3, QuietKeeps DEF evaluation_refused, faults

LEMMA NotRecordedKeeps ==
    ASSUME IInv, NEW c \in Calls, evaluation_not_recorded(c) PROVE IInv'
<1>1. CallInv' /\ call'[c].pc = "idle" /\ \A d \in Calls \ {c} : call'[d] = call[d]
  BY OtherKeeps DEF IInv, evaluation_not_recorded
<1>2. call[c].index \in Index
  BY DEF IInv, CallInv, GoodCall, CallState
<1>3. memory' \in [Processes -> [Index -> Builds \cup {None}]]
  BY <1>2, ForgetTyped DEF IInv, evaluation_not_recorded, Forget, Holding
<1>4. failures' \in 0 .. MaxFailures
  BY GenerationConstants DEF IInv, TypeOK, evaluation_not_recorded, Fails
<1>5. TypeOK'
  BY <1>1, <1>3, <1>4 DEF IInv, evaluation_not_recorded, TypeOK, release_generation_lock,
     Where, CallInv, GoodCall, CallState
<1>6. overtakes = 0 => \A d \in Calls : call'[d].pc \in Holding => lock' = d
  BY <1>1, OneHolder DEF IInv, evaluation_not_recorded, Holding
<1> QED
  BY <1>1, <1>5, <1>6, QuietKeeps DEF evaluation_not_recorded

LEMMA EvictKeeps ==
    ASSUME IInv, NEW p \in Processes, NEW i \in Index, evict(p, i) PROVE IInv'
<1>1. CallInv'
  BY DEF IInv, CallInv, evict
<1>2. TypeOK'
  BY DEF IInv, TypeOK, evict, faults
<1>3. overtakes = 0 => \A d \in Calls : call'[d].pc \in Holding => lock' = d
  BY OneHolder DEF IInv, evict
<1> QED
  BY <1>1, <1>2, <1>3, QuietKeeps DEF evict, faults

LEMMA BoundKeeps ==
    ASSUME IInv, NEW c \in Calls, NEW p \in Processes, evaluate_generation_candidate(c, p)
    PROVE  IInv'
<1> DEFINE s == [Idle EXCEPT !.pc = "bound", !.process = p]
<1>1. s \in GoodCall /\ s.pc = "bound"
  BY IdleIsGood DEF Idle, GoodCall, CallState, Where, Holding, Reviewing
<1>2. call' = [call EXCEPT ![c] = s]
  BY DEF evaluate_generation_candidate
<1> HIDE DEF s
<1>3. CallInv' /\ call'[c].pc = "bound" /\ \A d \in Calls \ {c} : call'[d] = call[d]
  BY <1>1, <1>2, NewCall DEF IInv
<1>4. TypeOK'
  BY <1>3 DEF IInv, evaluate_generation_candidate, TypeOK, faults, Where, CallInv, GoodCall,
     CallState
<1>5. overtakes = 0 => \A d \in Calls : call'[d].pc \in Holding => lock' = d
  BY <1>3, LocksFollowHolders DEF IInv, evaluate_generation_candidate, Holding
<1> QED
  BY <1>3, <1>4, <1>5, QuietKeeps DEF evaluate_generation_candidate, faults

LEMMA ReviewPacketKeeps ==
    ASSUME IInv, NEW c \in Calls, NEW p \in Processes, review_packet(c, p)
    PROVE  IInv'
<1> DEFINE s == [Idle EXCEPT !.pc = "reviewing", !.process = p, !.seen = run.attempts]
<1>1. run.attempts \in Chain
  BY DEF IInv, TypeOK, Run
<1>2. s \in GoodCall /\ s.pc = "reviewing" /\ s.seen = run.attempts
  BY <1>1, IdleIsGood DEF Idle, GoodCall, CallState, Where, Holding, Reviewing
<1>3. call' = [call EXCEPT ![c] = s]
  BY DEF review_packet
<1> HIDE DEF s
<1>4. /\ CallInv' /\ call'[c].pc = "reviewing" /\ call'[c].seen = run.attempts
      /\ \A d \in Calls \ {c} : call'[d] = call[d]
  BY <1>2, <1>3, NewCall DEF IInv
<1>5. TypeOK'
  BY <1>4 DEF IInv, review_packet, TypeOK, faults, Where, CallInv, GoodCall, CallState
<1>6. overtakes = 0 => \A d \in Calls : call'[d].pc \in Holding => lock' = d
  BY <1>4, LocksFollowHolders DEF IInv, review_packet, Holding
<1>7. overtakes = 0 => OnlyAnswered(call'[c].seen)
  BY <1>4, StrictAnswered DEF IInv, review_packet
<1> QED
  BY <1>4, <1>5, <1>6, <1>7, QuietKeeps DEF review_packet, faults

LEMMA CrashKeeps ==
    ASSUME IInv, NEW p \in Processes, crash(p) PROVE IInv'
<1>1. \A d \in Calls : call'[d] = IF call[d].process = p THEN Idle ELSE call[d]
  BY DEF crash
<1>2. CallInv'
  BY <1>1, IdleIsGood DEF IInv, CallInv, crash
<1>3. memory' \in [Processes -> [Index -> Builds \cup {None}]]
  BY ForgetAllTyped DEF IInv, crash
<1>4. failures' \in 0 .. MaxFailures
  BY GenerationConstants DEF IInv, TypeOK, crash, Fails
<1>5. lock' \in Calls \cup {Dead, None}
  BY DEF IInv, TypeOK, crash
<1>6. TypeOK'
  BY <1>2, <1>3, <1>4, <1>5 DEF IInv, crash, TypeOK, Where, CallInv, GoodCall, CallState
<1>7. ASSUME overtakes = 0, NEW d \in Calls, call'[d].pc \in Holding PROVE lock' = d
  <2>1. call[d].process # p /\ call'[d] = call[d]
    BY <1>1, <1>7, IdleIsGood DEF Holding
  <2>2. lock = d
    BY <1>7, <2>1, OneHolder DEF IInv
  <2> QED
    BY <2>1, <2>2 DEF crash
<1> QED
  BY <1>1, <1>2, <1>6, <1>7, IdleIsGood, QuietKeeps DEF crash

----------------------------------------------------------------------------
(* The review *)

LEMMA MovedCall ==
    ASSUME CallInv, NEW c \in Calls, call[c].pc \in Reviewing, NEW w \in Reviewing,
           call' = [call EXCEPT ![c].pc = w]
    PROVE  /\ CallInv' /\ call'[c].pc = w /\ call'[c].seen = call[c].seen
           /\ \A d \in Calls \ {c} : call'[d] = call[d]
<1> DEFINE s == [call[c] EXCEPT !.pc = w]
<1>1. call[c] \in GoodCall
  BY DEF CallInv
<1>2. s \in GoodCall /\ s.pc = w /\ s.seen = call[c].seen
  BY <1>1 DEF GoodCall, CallState, Where, Holding, Reviewing
<1>3. call' = [call EXCEPT ![c] = s]
  OBVIOUS
<1> HIDE DEF s
<1> QED
  BY <1>2, <1>3, NewCall

\* A review step changes the review's three files at most.
LEMMA ReviewStepKeeps ==
    ASSUME IInv, TypeOK', ReviewInv', NEW c \in Calls, call[c].pc \in Reviewing,
           NEW l \in BOOLEAN, NEW r, NEW b \in BOOLEAN,
           run' = [run EXCEPT !.reviewLock = l, !.result = r, !.consumed = b] \/ run' = run,
           overtakes = 0 => \/ run' = run
                            \/ run.dir /\ r \in {None, run.result, call[c].seen},
           Ends(c) \/ \E w \in Reviewing : call' = [call EXCEPT ![c].pc = w],
           UNCHANGED <<lock, artifact, answered, overtakes>>
    PROVE  IInv'
<1>1. /\ CallInv'
      /\ call'[c].pc = "idle" \/ (call'[c].pc \in Reviewing /\ call'[c].seen = call[c].seen)
      /\ \A d \in Calls \ {c} : call'[d] = call[d]
  BY OtherKeeps, MovedCall DEF IInv
<1>2. run \in Run
  BY DEF IInv, TypeOK
<1>3. /\ run'.dir = run.dir /\ run'.manifest = run.manifest /\ run'.attempts = run.attempts
      /\ run'.latest = run.latest /\ run'.selection = run.selection
      /\ run'.result = r \/ run' = run
  BY <1>2 DEF Run
<1>4. ASSUME overtakes = 0
      PROVE  /\ OnlyAnswered(call[c].seen)
             /\ run.result = None \/ OnlyAnswered(run.result)
  BY <1>4 DEF IInv, LeaseInv, InLease
<1>5. SameArtifact
  BY DEF SameArtifact
<1>6. overtakes = 0 /\ ~run.dir => run' = run
  OBVIOUS
<1>7. overtakes = 0 => run'.result = None \/ OnlyAnswered(run'.result)
  BY <1>3, <1>4
<1>8. overtakes = 0 => \A d \in Calls : call'[d].pc \in Holding => lock' = d
  BY <1>1, LocksFollowHolders DEF IInv, Holding, Reviewing
<1>9. \A d \in Calls :
          \/ call'[d] = call[d]
          \/ call'[d].pc \in {"idle", "bound"}
          \/ /\ call'[d].pc \in Reviewing
             /\ overtakes = 0 => OnlyAnswered(call'[d].seen)
  BY <1>1, <1>4
<1> QED
  BY <1>1, <1>3, <1>5, <1>6, <1>7, <1>8, <1>9, FrameKeeps

LEMMA TakeReviewLockKeeps ==
    ASSUME IInv, NEW c \in Calls, take_review_lock(c) PROVE IInv'
<1>1. run \in Run
  BY DEF IInv, TypeOK
<1>2. CASE run.reviewLock \/ run.consumed \/ ~run.dir
  <2>1. Ends(c) /\ run' = run
    BY <1>2 DEF take_review_lock
  <2>2. CallInv' /\ call'[c].pc = "idle" /\ \A d \in Calls \ {c} : call'[d] = call[d]
    BY <2>1, OtherKeeps DEF IInv
  <2>3. ReviewInv'
    BY <2>1, <2>2, ReviewKeeps DEF IInv
  <2>4. TypeOK'
    BY <2>1, <2>2 DEF IInv, TypeOK, take_review_lock, faults, Where, CallInv, GoodCall,
       CallState
  <2> QED
    BY <2>1, <2>3, <2>4, ReviewStepKeeps DEF take_review_lock, faults, Reviewing
<1>3. CASE ~run.reviewLock /\ ~run.consumed /\ run.dir
  <2>1. run' = [run EXCEPT !.reviewLock = TRUE] /\ call' = [call EXCEPT ![c].pc = "review_locked"]
    BY <1>3 DEF take_review_lock
  <2>2. /\ CallInv' /\ call'[c].pc = "review_locked"
        /\ \A d \in Calls \ {c} : call'[d] = call[d]
    BY <2>1, MovedCall DEF IInv, take_review_lock, Reviewing
  <2>3. run' \in Run /\ run'.reviewLock /\ ~run'.consumed
    BY <1>1, <1>3, <2>1 DEF Run
  <2>4. ReviewInv'
    BY <1>3, <2>2, <2>3 DEF IInv, ReviewInv
  <2>5. TypeOK'
    BY <2>2, <2>3 DEF IInv, TypeOK, take_review_lock, faults, Where, CallInv, GoodCall,
       CallState
  <2>6. run' = [run EXCEPT !.reviewLock = TRUE, !.result = run.result,
                           !.consumed = run.consumed]
    BY <1>1, <2>1 DEF Run
  <2>7. run.consumed \in BOOLEAN
    BY <1>1 DEF Run
  <2>8. \E w \in Reviewing : call' = [call EXCEPT ![c].pc = w]
    BY <2>1 DEF Reviewing
  <2> QED
    BY <1>3, <2>4, <2>5, <2>6, <2>7, <2>8, ReviewStepKeeps
    DEF take_review_lock, faults, Reviewing
<1> QED
  BY <1>2, <1>3

\* What is past the review-lock is past it alone, and the run is there.
LEMMA PastReviewLock ==
    ASSUME IInv, NEW c \in Calls, call[c].pc \in {"review_locked", "result_written"}
    PROVE  /\ run.reviewLock /\ ~run.consumed
           /\ \A d \in Calls \ {c} : call[d].pc \notin {"review_locked", "result_written"}
           /\ overtakes = 0 => run.dir
           /\ call[c].seen \in Chain
<1>1. call[c].seen \in Chain
  BY DEF IInv, CallInv, GoodCall, Reviewing
<1>2. NoRun.reviewLock = FALSE
  BY DEF NoRun
<1> QED
  BY <1>1, <1>2 DEF IInv, ReviewInv, LeaseInv

LEMMA WriteReviewResultKeeps ==
    ASSUME IInv, NEW c \in Calls, write_review_result(c) PROVE IInv'
<1>1. run \in Run
  BY DEF IInv, TypeOK
<1>2. /\ run.reviewLock /\ ~run.consumed
      /\ \A d \in Calls \ {c} : call[d].pc \notin {"review_locked", "result_written"}
      /\ overtakes = 0 => run.dir
      /\ call[c].seen \in Chain
  BY PastReviewLock DEF write_review_result
<1>3. failures' \in 0 .. MaxFailures
  BY GenerationConstants DEF IInv, TypeOK, write_review_result, Fails
<1>4. CASE run' = [run EXCEPT !.result = call[c].seen]
           /\ call' = [call EXCEPT ![c].pc = "result_written"]
  <2>1. /\ CallInv' /\ call'[c].pc = "result_written"
        /\ \A d \in Calls \ {c} : call'[d] = call[d]
    BY <1>4, MovedCall DEF IInv, write_review_result, Reviewing
  <2>2. run' \in Run /\ run'.reviewLock /\ ~run'.consumed
    BY <1>1, <1>2, <1>4 DEF Run
  <2>3. ReviewInv'
    BY <1>2, <2>1, <2>2 DEF ReviewInv
  <2>4. TypeOK'
    BY <1>3, <2>1, <2>2 DEF IInv, TypeOK, write_review_result, Where, CallInv, GoodCall,
       CallState
  <2>5. run' = [run EXCEPT !.reviewLock = run.reviewLock, !.result = call[c].seen,
                           !.consumed = run.consumed]
    BY <1>1, <1>4 DEF Run
  <2>6. run.consumed \in BOOLEAN /\ run.reviewLock \in BOOLEAN
    BY <1>1 DEF Run
  <2>7. \E w \in Reviewing : call' = [call EXCEPT ![c].pc = w]
    BY <1>4 DEF Reviewing
  <2> QED
    BY <1>2, <2>3, <2>4, <2>5, <2>6, <2>7, ReviewStepKeeps
    DEF write_review_result, Reviewing
<1>5. CASE run' = [run EXCEPT !.reviewLock = FALSE] /\ Ends(c)
  <2>1. CallInv' /\ call'[c].pc = "idle" /\ \A d \in Calls \ {c} : call'[d] = call[d]
    BY <1>5, OtherKeeps DEF IInv
  <2>2. run' \in Run
    BY <1>1, <1>5 DEF Run
  <2>3. ReviewInv'
    BY <1>2, <2>1 DEF ReviewInv
  <2>4. TypeOK'
    BY <1>3, <2>1, <2>2 DEF IInv, TypeOK, write_review_result, Where, CallInv, GoodCall,
       CallState
  <2>5. run' = [run EXCEPT !.reviewLock = FALSE, !.result = run.result,
                           !.consumed = run.consumed]
    BY <1>1, <1>5 DEF Run
  <2>6. run.consumed \in BOOLEAN
    BY <1>1 DEF Run
  <2> QED
    BY <1>2, <1>5, <2>3, <2>4, <2>5, <2>6, ReviewStepKeeps
    DEF write_review_result, Reviewing
<1> QED
  BY <1>4, <1>5 DEF write_review_result

LEMMA ConsumeKeeps ==
    ASSUME IInv, NEW c \in Calls, consume_run(c) PROVE IInv'
<1>1. run \in Run
  BY DEF IInv, TypeOK
<1>2. /\ \A d \in Calls \ {c} : call[d].pc \notin {"review_locked", "result_written"}
      /\ overtakes = 0 => run.dir
  BY PastReviewLock DEF consume_run
<1>3. failures' \in 0 .. MaxFailures
  BY GenerationConstants DEF IInv, TypeOK, consume_run, Fails
<1>4. CallInv' /\ call'[c].pc = "idle" /\ \A d \in Calls \ {c} : call'[d] = call[d]
  BY OtherKeeps DEF IInv, consume_run
<1>5. ReviewInv'
  BY <1>2, <1>4 DEF ReviewInv
<1>6. PICK r \in {run.result, None}, b \in BOOLEAN :
          run' = [run EXCEPT !.reviewLock = FALSE, !.result = r, !.consumed = b]
  <2>1. run.consumed \in BOOLEAN
    BY <1>1 DEF Run
  <2>2. CASE run' = [run EXCEPT !.reviewLock = FALSE, !.consumed = TRUE]
    <3>1. run' = [run EXCEPT !.reviewLock = FALSE, !.result = run.result, !.consumed = TRUE]
      BY <1>1, <2>2 DEF Run
    <3> QED
      BY <3>1
  <2>3. CASE run' = [run EXCEPT !.reviewLock = FALSE, !.result = None]
    <3>1. run' = [run EXCEPT !.reviewLock = FALSE, !.result = None, !.consumed = run.consumed]
      BY <1>1, <2>3 DEF Run
    <3> QED
      BY <2>1, <3>1
  <2> QED
    BY <2>2, <2>3 DEF consume_run
<1>7. run' \in Run
  BY <1>1, <1>6 DEF Run
<1>8. TypeOK'
  BY <1>3, <1>4, <1>7 DEF IInv, TypeOK, consume_run, Where, CallInv, GoodCall, CallState
<1> QED
  BY <1>2, <1>5, <1>6, <1>8, ReviewStepKeeps DEF consume_run, Reviewing

----------------------------------------------------------------------------
(* Delivery and cleanup *)

LEMMA DeliveryKeeps ==
    ASSUME IInv, mark_final_build_delivery_complete PROVE IInv'
<1>1. artifact \in Artifact /\ artifact' = [artifact EXCEPT !.delivered = TRUE]
  BY DEF IInv, TypeOK, mark_final_build_delivery_complete
<1>2. /\ artifact' \in Artifact /\ artifact'.index = artifact.index
      /\ artifact'.build = artifact.build /\ artifact'.outcome = artifact.outcome
      /\ artifact'.delivered
  BY <1>1 DEF Artifact
<1>3. SameArtifact
  BY <1>1, <1>2, NoneIsNoReceipt DEF SameArtifact
<1>4. TypeOK'
  BY <1>2 DEF IInv, TypeOK, mark_final_build_delivery_complete, faults
<1>5. CallInv'
  BY DEF IInv, CallInv, mark_final_build_delivery_complete
<1>6. ReviewInv'
  BY ReviewKeeps DEF IInv, mark_final_build_delivery_complete
<1>7. overtakes = 0 => run.result = None \/ OnlyAnswered(run.result)
  BY DEF IInv, LeaseInv
<1>8. overtakes = 0 => \A d \in Calls : call'[d].pc \in Holding => lock' = d
  BY LocksFollowHolders DEF IInv, mark_final_build_delivery_complete
<1> QED
  BY <1>3, <1>4, <1>5, <1>6, <1>7, <1>8, FrameKeeps
  DEF mark_final_build_delivery_complete, faults

\* A removal takes whole files away, the directory last.
Removes ==
    /\ run'.manifest => run.manifest
    /\ run'.attempts \in {run.attempts, NoReceipts}
    /\ run'.latest \in {run.latest, None}
    /\ run'.selection \in {run.selection, None}
    /\ run'.result \in {run.result, None}
    /\ run'.dir \/ run' = NoRun

Removable == /\ artifact # None /\ artifact.delivered
             /\ run.dir /\ run.consumed /\ run.selection # None

\* A run that is removed has no call past its lock.
LEMMA RemovedAlone ==
    ASSUME IInv, Removable, NEW c \in Calls
    PROVE  /\ call[c].pc \notin {"review_locked", "result_written"}
           /\ run.manifest => call[c].pc # "selecting"
           /\ overtakes = 0 => call[c].pc \notin Holding
<1>1. call[c].pc \notin {"review_locked", "result_written"}
  BY PastReviewLock DEF Removable
<1>2. run.manifest => call[c].pc # "selecting"
  BY DEF IInv, SelectionInv, Removable
<1>3. overtakes = 0 => InLease(c)
  BY DEF IInv, LeaseInv
<1>4. overtakes = 0 => call[c].pc \notin Holding
  BY <1>2, <1>3 DEF InLease, Holding, Removable
<1> QED
  BY <1>1, <1>2, <1>4

LEMMA RemovalKeeps ==
    ASSUME IInv, TypeOK', Removable, Removes,
           UNCHANGED <<artifact, call, answered, overtakes>>
    PROVE  IInv'
<1>1. CallInv'
  BY DEF IInv, CallInv
<1>2. \A i \in Index : NoReceipts[i] = None
  BY DEF NoReceipts
<1>3. ShapeInv'
  <2>1. NoRun.manifest = FALSE
    BY DEF NoRun
  <2> QED
    BY <2>1, <1>2 DEF IInv, ShapeInv, Removes
<1>4. SelectionInv'
  BY RemovedAlone DEF IInv, SelectionInv, Removes, NamesArtifact
<1>5. BackedInv'
  <2>1. SUFFICES ASSUME run'.manifest PROVE Settled'
    BY DEF BackedInv
  <2>2. \A c \in Calls : call[c].pc # "selecting"
    BY <2>1, RemovedAlone DEF Removes
  <2> QED
    BY <2>2 DEF Settled, Removable
<1>6. ReviewInv'
  BY RemovedAlone DEF ReviewInv
<1>7. ASSUME overtakes' = 0
      PROVE  /\ ~run'.dir => run' = NoRun
             /\ run'.result # None => OnlyAnswered(run.result)'
             /\ \A i \in Index : run'.attempts[i] # None =>
                    i \in answered' \/ NextToLatest(i)'
             /\ \A c \in Calls : InLease(c)'
  <2>1. overtakes = 0 /\ LeaseInv
    BY <1>7 DEF IInv
  <2>2. \A x : OnlyAnswered(x) => OnlyAnswered(x)'
    BY DEF OnlyAnswered
  <2>3. run'.result # None => OnlyAnswered(run.result)'
    BY <2>1, <2>2 DEF LeaseInv, Removes
  <2>4. ASSUME NEW i \in Index, run'.attempts[i] # None, i \notin answered
        PROVE  NextToLatest(i)'
    <3>1. run'.attempts = run.attempts
      BY <2>4, <1>2 DEF Removes
    <3>2. NextToLatest(i)
      BY <2>1, <2>4, <3>1 DEF LeaseInv
    <3> QED
      BY <2>4, <3>1, <3>2 DEF NextToLatest, Removes
  <2>5. ASSUME NEW c \in Calls PROVE InLease(c)'
    <3>1. call[c].pc \notin Holding /\ InLease(c)
      BY <2>1, RemovedAlone DEF LeaseInv
    <3> QED
      BY <3>1, <2>2 DEF InLease, Holding
  <2> QED
    BY <2>3, <2>4, <2>5 DEF Removes
<1>8. LeaseInv'
  BY <1>7 DEF LeaseInv
<1> QED
  BY <1>1, <1>3, <1>4, <1>5, <1>6, <1>8 DEF IInv

LEMMA NoRunIsRun == NoRun \in Run
<1>1. NoReceipts \in Chain
  BY DEF NoReceipts, Chain
<1> QED
  BY <1>1 DEF NoRun, Run

LEMMA RemoveRunKeeps ==
    ASSUME IInv, NEW p \in Processes, remove_run(p) PROVE IInv'
<1>1. run' = NoRun
  BY DEF remove_run
<1>2. memory' \in [Processes -> [Index -> Builds \cup {None}]]
  BY ForgetAllTyped DEF IInv, remove_run
<1>3. TypeOK'
  BY <1>1, <1>2, NoRunIsRun DEF IInv, TypeOK, remove_run, faults
<1>4. Removes
  BY <1>1 DEF Removes, NoRun
<1> QED
  BY <1>3, <1>4, RemovalKeeps DEF remove_run, Removable, faults

LEMMA RemoveRunFailsKeeps ==
    ASSUME IInv, NEW p \in Processes, remove_run_fails(p) PROVE IInv'
<1>1. run \in Run
  BY DEF IInv, TypeOK
<1>2. PICK left \in SUBSET DOMAIN run :
          run' = [f \in DOMAIN run |-> IF f \in left \cup {"dir"} THEN run[f] ELSE NoRun[f]]
  BY DEF remove_run_fails
<1>3. DOMAIN run = {"dir", "manifest", "attempts", "latest", "selection", "reviewLock",
                    "result", "consumed"}
  BY <1>1 DEF Run
<1>4. /\ run'.dir = run.dir
      /\ run'.manifest \in {run.manifest, FALSE} /\ run'.attempts \in {run.attempts, NoReceipts}
      /\ run'.latest \in {run.latest, None} /\ run'.selection \in {run.selection, None}
      /\ run'.reviewLock \in {run.reviewLock, FALSE} /\ run'.result \in {run.result, None}
      /\ run'.consumed \in {run.consumed, FALSE}
  BY <1>2, <1>3 DEF NoRun
<1>5. run' = [dir |-> run'.dir, manifest |-> run'.manifest, attempts |-> run'.attempts,
              latest |-> run'.latest, selection |-> run'.selection,
              reviewLock |-> run'.reviewLock, result |-> run'.result,
              consumed |-> run'.consumed]
  BY <1>2, <1>3
<1>6. run' \in Run
  <2>1. NoReceipts \in Chain
    BY DEF NoReceipts, Chain
  <2>2. /\ run.dir \in BOOLEAN /\ run.manifest \in BOOLEAN /\ run.attempts \in Chain
        /\ run.latest \in Receipt \cup {None} /\ run.selection \in Selection \cup {None}
        /\ run.reviewLock \in BOOLEAN /\ run.result \in Chain \cup {None}
        /\ run.consumed \in BOOLEAN
    BY <1>1 DEF Run
  <2>3. /\ run'.dir \in BOOLEAN /\ run'.manifest \in BOOLEAN /\ run'.attempts \in Chain
        /\ run'.latest \in Receipt \cup {None} /\ run'.selection \in Selection \cup {None}
        /\ run'.reviewLock \in BOOLEAN /\ run'.result \in Chain \cup {None}
        /\ run'.consumed \in BOOLEAN
    BY <2>1, <2>2, <1>4
  <2> QED
    BY <1>5, <2>3 DEF Run
<1>7. memory' \in [Processes -> [Index -> Builds \cup {None}]]
  BY ForgetAllTyped DEF IInv, remove_run_fails
<1>8. failures' \in 0 .. MaxFailures
  BY GenerationConstants DEF IInv, TypeOK, remove_run_fails, Fails
<1>9. TypeOK'
  BY <1>6, <1>7, <1>8 DEF IInv, TypeOK, remove_run_fails
<1>10. Removes
  BY <1>4 DEF Removes, remove_run_fails
<1> QED
  BY <1>9, <1>10, RemovalKeeps DEF remove_run_fails, Removable

LEMMA RemoveArtifactKeeps ==
    ASSUME IInv, remove_artifact PROVE IInv'
<1>1. TypeOK' /\ CallInv'
  BY DEF IInv, TypeOK, CallInv, remove_artifact, faults
<1>2. ShapeInv' /\ ~run'.manifest
  BY DEF IInv, ShapeInv, remove_artifact
<1>3. SelectionInv' /\ BackedInv'
  BY <1>2 DEF SelectionInv, BackedInv
<1>4. ReviewInv'
  BY ReviewKeeps DEF IInv, remove_artifact
<1>5. UNCHANGED <<run, lock, call, answered, overtakes>> /\ artifact' = None
  BY DEF remove_artifact, faults
<1>6. \A c \in Calls : InLease(c) => InLease(c)'
  BY <1>5 DEF InLease, OnlyAnswered
<1>7. LeaseInv'
  BY <1>5, <1>6 DEF IInv, LeaseInv, OnlyAnswered, NextToLatest
<1> QED
  BY <1>1, <1>2, <1>3, <1>4, <1>7 DEF IInv

----------------------------------------------------------------------------
(* Evaluations *)

\* Who makes the lock file without overtaking anyone finds no one past it.
LEMMA Acquired ==
    ASSUME IInv, NEW c \in Calls, acquire_generation_lock(c)
    PROVE  /\ lock' = c /\ run.dir
           /\ overtakes' \in 0 .. MaxOvertakes
           /\ overtakes' = 0 => overtakes = 0 /\ \A d \in Calls : call[d].pc \notin Holding
<1>1. overtakes \in Nat /\ overtakes' \in 0 .. MaxOvertakes /\ (overtakes' = 0 => overtakes = 0)
  BY GenerationConstants DEF IInv, TypeOK, acquire_generation_lock
<1>2. ASSUME overtakes' = 0, NEW d \in Calls, call[d].pc \in Holding PROVE FALSE
  <2>1. lock \notin Calls
    BY <1>2, <1>1 DEF acquire_generation_lock
  <2>2. lock = d
    BY <1>2, <1>1, OneHolder DEF IInv
  <2> QED
    BY <2>1, <2>2
<1> QED
  BY <1>1, <1>2 DEF acquire_generation_lock

LEMMA BeginJudgingKeeps ==
    ASSUME IInv, NEW c \in Calls, begin_judging(c) PROVE IInv'
<1>1. /\ lock' = c /\ run.dir
      /\ overtakes' \in 0 .. MaxOvertakes
      /\ overtakes' = 0 => overtakes = 0 /\ \A d \in Calls : call[d].pc \notin Holding
  BY Acquired DEF begin_judging
<1>2. /\ Length \in Index
      /\ \A i \in Index : run.attempts[i] # None <=> i < Length
  BY StrictRead, GenerationConstants DEF IInv, begin_judging, Index
<1> DEFINE s == [call[c] EXCEPT !.pc = "judging", !.index = Length]
<1>3. call[c] \in GoodCall /\ call[c].pc = "bound"
  BY DEF IInv, CallInv, begin_judging
<1>4. s \in GoodCall /\ s.pc = "judging" /\ s.index = Length
  BY <1>2, <1>3 DEF GoodCall, CallState, Where, Holding, Reviewing
<1>5. call' = [call EXCEPT ![c] = s]
  BY <1>3 DEF IInv, CallInv, begin_judging
<1> HIDE DEF s
<1>6. /\ CallInv' /\ call'[c].pc = "judging" /\ call'[c].index = Length
      /\ \A d \in Calls \ {c} : call'[d] = call[d]
  BY <1>4, <1>5, NewCall DEF IInv
<1>7. UNCHANGED <<run, artifact, memory, answered, failures>> /\ run.selection = None
  BY DEF begin_judging
<1>8. SameArtifact
  BY <1>7 DEF SameArtifact
<1>9. TypeOK'
  BY <1>1, <1>6, <1>7 DEF IInv, TypeOK, Where, CallInv, GoodCall, CallState
<1>10. ShapeInv' /\ ReviewInv'
  BY <1>6, <1>7, ReviewKeeps DEF IInv, ShapeInv
<1>11. SelectionInv' /\ BackedInv'
  BY <1>6, <1>7, <1>8, SelectionKeeps, BackedKeeps DEF IInv
<1>12. InLease(c)'
  BY <1>1, <1>2, <1>6, <1>7 DEF InLease, Holding, Reviewing
<1>13. overtakes' = 0 => \A d \in Calls : call'[d].pc \in Holding => lock' = d
  BY <1>1, <1>6
<1>14. \A d \in Calls : call'[d] = call[d] \/ (overtakes' = 0 => InLease(d)')
  BY <1>6, <1>12
<1>15. overtakes = 0 => run.result = None \/ OnlyAnswered(run.result)
  BY DEF IInv, LeaseInv
<1>16. LeaseInv'
  BY <1>1, <1>7, <1>8, <1>13, <1>14, <1>15, LeaseKeeps DEF IInv
<1> QED
  BY <1>6, <1>9, <1>10, <1>11, <1>16 DEF IInv

\* A judged call's receipt is the next one, and nothing in the chain moves.
LEMMA WriteAttemptKeeps ==
    ASSUME IInv, NEW c \in Calls, NEW b \in Builds, NEW passed \in BOOLEAN,
           write_attempt(c, b, passed)
    PROVE  IInv'
<1> DEFINE r == [index |-> Length, build |-> b, passed |-> passed]
<1>1. /\ Length \in Index /\ Length \in Nat
      /\ \A i \in Index : run.attempts[i] # None <=> i < Length
      /\ Length = 0 => run.latest = None
      /\ Length > 0 => Length - 1 \in Index /\ run.latest = run.attempts[Length - 1]
  BY StrictRead, GenerationConstants DEF IInv, write_attempt, Index
<1>2. r \in Receipt /\ r # None /\ r.index = Length
  BY <1>1, NoneIsNoReceipt DEF Receipt
<1>3. run' = [run EXCEPT !.dir = TRUE, !.attempts[Length] = r]
  BY DEF write_attempt
<1> HIDE DEF r
<1>4. run \in Run /\ run.attempts \in Chain
  BY DEF IInv, TypeOK, Run
<1>5. /\ run'.dir /\ run'.manifest = run.manifest /\ run'.latest = run.latest
      /\ run'.selection = run.selection /\ run'.result = run.result
      /\ run'.reviewLock = run.reviewLock /\ run'.consumed = run.consumed
      /\ run'.attempts = [run.attempts EXCEPT ![Length] = r]
      /\ run' \in Run
  BY <1>1, <1>2, <1>3, <1>4 DEF Run, Chain
<1>6. run'.attempts[Length] = r /\ \A i \in Index \ {Length} : run'.attempts[i] = run.attempts[i]
  BY <1>1, <1>4, <1>5 DEF Chain
<1>7. run.latest # r
  BY <1>1, <1>2 DEF IInv, ShapeInv
<1> DEFINE s == [call[c] EXCEPT !.pc = "written", !.seen = Length]
<1>8. call[c] \in GoodCall /\ call[c].pc = "judging"
  BY DEF IInv, CallInv, write_attempt
<1>9. /\ s \in GoodCall /\ s.pc = "written" /\ s.seen = Length
      /\ s.index = call[c].index
  BY <1>1, <1>8 DEF GoodCall, CallState, Where, Holding, Reviewing
<1>10. call' = [call EXCEPT ![c] = s]
  BY <1>8 DEF IInv, CallInv, write_attempt
<1> HIDE DEF s
<1>11. /\ CallInv' /\ call'[c].pc = "written" /\ call'[c].seen = Length
       /\ call'[c].index = call[c].index
       /\ \A d \in Calls \ {c} : call'[d] = call[d]
  BY <1>9, <1>10, NewCall DEF IInv
<1>12. UNCHANGED <<lock, artifact, answered, overtakes, failures>>
  BY DEF write_attempt, faults
<1>13. memory' \in [Processes -> [Index -> Builds \cup {None}]]
  <2>1. call[c].index \in Index
    BY <1>8 DEF GoodCall, CallState
  <2> QED
    BY <1>8, <2>1, ForgetTyped DEF IInv, write_attempt, Holding
<1>14. TypeOK'
  BY <1>5, <1>11, <1>12, <1>13 DEF IInv, TypeOK, Where, CallInv, GoodCall, CallState
<1>15. SameArtifact
  BY <1>12 DEF SameArtifact
<1>16. ShapeInv'
  BY <1>1, <1>2, <1>5, <1>6 DEF IInv, ShapeInv
<1>17. ReviewInv' /\ SelectionInv'
  BY <1>5, <1>11, <1>15, ReviewKeeps, SelectionKeeps DEF IInv
<1>18. BackedInv'
  <2>1. SUFFICES ASSUME run'.manifest, ~Settled'
                 PROVE  /\ artifact' # None => Passed(artifact.index, artifact.build)'
                        /\ \A d \in Calls : (call[d].pc = "saving" =>
                               Passed(call[d].index, call[d].build))'
                        /\ \A d \in Calls : (call[d].pc = "written" => Unfollowed(d))'
    BY DEF BackedInv
  <2>2. run.manifest /\ ~Settled
    BY <2>1, <1>5, <1>11, <1>15, SettledStays
  <2>3. \A d \in Calls : call[d].pc # "written"
    BY <2>2, NotStrict DEF IInv, write_attempt
  <2>4. ASSUME NEW i \in Index, NEW x \in Builds, Passed(i, x)
        PROVE  i < Length /\ Passed(i, x)'
    <3>1. run.attempts[i] # None
      BY <2>4, PassedIsReceipt
    <3>2. i < Length
      BY <3>1, <1>1
    <3>3. i # Length
      BY <3>2, <1>1
    <3>4. run'.attempts[i] = run.attempts[i]
      BY <3>3, <1>6
    <3> QED
      BY <2>4, <3>2, <3>4 DEF Passed
  <2>5. artifact # None => /\ artifact.index \in Index /\ artifact.build \in Builds
                           /\ Passed(artifact.index, artifact.build)
    BY <2>2 DEF IInv, BackedInv, TypeOK, Artifact
  <2>6. \A d \in Calls : call[d].pc = "saving" =>
            /\ call[d].index \in Index /\ call[d].build \in Builds
            /\ Passed(call[d].index, call[d].build)
    BY <2>2 DEF IInv, BackedInv, CallInv, GoodCall, CallState
  <2>7. artifact' # None => Passed(artifact.index, artifact.build)'
    BY <2>4, <2>5, <1>12
  <2>8. \A d \in Calls : (call[d].pc = "saving" => Passed(call[d].index, call[d].build))'
    BY <2>4, <2>6, <1>11
  <2>9. \A d \in Calls : call'[d].pc = "written" => d = c
    BY <2>3, <1>11
  <2>10. artifact' # None => artifact'.index # Length
    BY <2>4, <2>5, <1>1, <1>12
  <2>11. \A d \in Calls \ {c} :
             call'[d].pc # "written" /\ (call'[d].pc = "saving" => call'[d].index # Length)
    BY <2>3, <2>4, <2>6, <1>1, <1>11
  <2>12. \A i \in Index : i > Length => run'.attempts[i] = None
    BY <1>1, <1>6 DEF Index
  <2>13. Unfollowed(c)'
    BY <2>10, <2>11, <2>12, <1>2, <1>5, <1>6, <1>7, <1>11 DEF Unfollowed
  <2> QED
    BY <2>7, <2>8, <2>9, <2>13
<1>19. ASSUME overtakes' = 0
       PROVE  /\ ~run'.dir => run' = NoRun
              /\ run'.result # None => OnlyAnswered(run.result)'
              /\ \A i \in Index : run'.attempts[i] # None =>
                     i \in answered' \/ NextToLatest(i)'
              /\ \A d \in Calls : InLease(d)'
  <2>1. overtakes = 0 /\ LeaseInv /\ InLease(c)
    BY <1>12, <1>19 DEF IInv, LeaseInv
  <2>2. lock = c /\ \A d \in Calls \ {c} : call[d].pc \notin Holding
    BY <2>1, <1>8, OneHolder DEF Holding
  <2>3. \A x : OnlyAnswered(x) => OnlyAnswered(x)'
    BY <1>12 DEF OnlyAnswered
  <2>4. run'.result # None => OnlyAnswered(run.result)'
    BY <2>1, <2>3, <1>5 DEF LeaseInv
  <2>5. OnlyAnswered(run.attempts)
    BY <2>1, StrictAnswered DEF IInv, write_attempt
  <2>6. ASSUME NEW i \in Index, run'.attempts[i] # None, i \notin answered
        PROVE  NextToLatest(i)'
    <3>1. i = Length
      BY <2>5, <2>6, <1>6 DEF OnlyAnswered
    <3> QED
      BY <3>1, <1>1, <1>5, <1>6, <1>7 DEF NextToLatest, Index
  <2>7. ASSUME NEW d \in Calls \ {c} PROVE InLease(d)'
    <3>1. InLease(d) /\ call'[d] = call[d] /\ call[d].pc \notin Holding
      BY <2>1, <2>2, <1>11 DEF LeaseInv
    <3> QED
      BY <3>1, <2>3 DEF InLease, Holding
  <2>8. call[c].index = Length
    <3>1. call[c].index \in Index
      BY <1>8 DEF GoodCall, CallState
    <3>2. \A i \in Index : run.attempts[i] # None <=> i < call[c].index
      BY <2>1, <1>8 DEF InLease
    <3>3. ~(Length < call[c].index)
      BY <3>2, <1>1
    <3>4. ~(call[c].index < Length)
      BY <3>1, <3>2, <1>1 DEF Index
    <3> QED
      BY <3>1, <3>3, <3>4, <1>1 DEF Index
  <2>9. InLease(c)'
    BY <2>1, <2>2, <2>8, <1>2, <1>5, <1>6, <1>8, <1>11, <1>12 DEF InLease, Holding, Reviewing
  <2> QED
    BY <2>4, <2>6, <2>7, <2>9, <1>5, <1>12
<1>20. LeaseInv'
  BY <1>19 DEF LeaseInv
<1> QED
  BY <1>11, <1>14, <1>16, <1>17, <1>18, <1>20 DEF IInv

\* What a call that has written its receipt holds, and what is true of others.
LEMMA AfterReceipt ==
    ASSUME IInv, NEW c \in Calls, call[c].pc = "written"
    PROVE  /\ call[c].seen \in Index /\ call[c].index \in Index
           /\ run \in Run /\ run.attempts \in Chain
           /\ run.manifest /\ ~Settled => Unfollowed(c)
           /\ overtakes = 0 =>
                  /\ lock = c /\ run.dir /\ run.selection = None
                  /\ call[c].seen = call[c].index /\ run.attempts[call[c].seen] # None
                  /\ \A d \in Calls \ {c} : call[d].pc \notin Holding
<1>1. call[c].seen \in Index /\ call[c].index \in Index
  BY DEF IInv, CallInv, GoodCall, CallState
<1>2. run \in Run /\ run.attempts \in Chain
  BY DEF IInv, TypeOK, Run
<1>3. run.manifest /\ ~Settled => Unfollowed(c)
  BY DEF IInv, BackedInv
<1>4. ASSUME overtakes = 0
      PROVE  /\ lock = c /\ run.dir /\ run.selection = None
             /\ call[c].seen = call[c].index /\ run.attempts[call[c].seen] # None
             /\ \A d \in Calls \ {c} : call[d].pc \notin Holding
  <2>1. InLease(c)
    BY <1>4 DEF IInv, LeaseInv
  <2>2. lock = c /\ \A d \in Calls \ {c} : call[d].pc \notin Holding
    BY <1>4, OneHolder DEF IInv, Holding
  <2> QED
    BY <2>1, <2>2 DEF InLease, Holding
<1> QED
  BY <1>1, <1>2, <1>3, <1>4

\* The call ends, and its receipt is followed or gone: what the saves and the
\* artifact are about is another receipt.
LEMMA ReceiptDoneBacks ==
    ASSUME IInv, CallInv', NEW c \in Calls, call[c].pc = "written", call'[c].pc = "idle",
           \A d \in Calls \ {c} : call'[d] = call[d], artifact' = artifact,
           run'.manifest = run.manifest,
           \A i \in Index \ {call[c].seen} : run'.attempts[i] = run.attempts[i]
    PROVE  BackedInv'
<1>1. SUFFICES ASSUME run'.manifest, ~Settled'
               PROVE  /\ artifact' # None => Passed(artifact.index, artifact.build)'
                      /\ \A d \in Calls : (call[d].pc = "saving" =>
                             Passed(call[d].index, call[d].build))'
                      /\ \A d \in Calls : call'[d].pc # "written"
  BY DEF BackedInv
<1>2. run.manifest /\ ~Settled
  BY <1>1, SettledStays DEF SameArtifact
<1>3. Unfollowed(c)
  BY <1>2, AfterReceipt
<1>4. ASSUME NEW i \in Index, NEW b, i # call[c].seen, Passed(i, b) PROVE Passed(i, b)'
  BY <1>4 DEF Passed
<1>5. artifact' # None => Passed(artifact.index, artifact.build)'
  <2>1. artifact # None => /\ artifact.index \in Index /\ artifact.index # call[c].seen
                           /\ Passed(artifact.index, artifact.build)
    BY <1>2, <1>3 DEF IInv, BackedInv, TypeOK, Artifact, Unfollowed
  <2> QED
    BY <2>1, <1>4
<1>6. \A d \in Calls : (call[d].pc = "saving" => Passed(call[d].index, call[d].build))'
  <2>1. \A d \in Calls \ {c} : call[d].pc = "saving" =>
            /\ call[d].index \in Index /\ call[d].index # call[c].seen
            /\ Passed(call[d].index, call[d].build)
    BY <1>2, <1>3 DEF IInv, BackedInv, CallInv, GoodCall, CallState, Unfollowed
  <2> QED
    BY <2>1, <1>4
<1>7. \A d \in Calls : call'[d].pc # "written"
  BY <1>3 DEF Unfollowed
<1> QED
  BY <1>5, <1>6, <1>7

\* No other call is past its lock, so what the others hold is not disturbed.
LEMMA OthersInLease ==
    ASSUME LeaseInv, overtakes = 0, answered \subseteq answered', NEW c \in Calls,
           \A d \in Calls \ {c} : call'[d] = call[d] /\ call[d].pc \notin Holding,
           call'[c].pc = "idle", NEW d \in Calls
    PROVE  InLease(d)'
<1>1. \A x : OnlyAnswered(x) => OnlyAnswered(x)'
  BY DEF OnlyAnswered
<1>2. CASE d = c
  BY <1>2 DEF InLease, Holding, Reviewing
<1>3. CASE d # c
  <2>1. InLease(d) /\ call'[d] = call[d] /\ call[d].pc \notin Holding
    BY <1>3 DEF LeaseInv
  <2> QED
    BY <2>1, <1>1 DEF InLease, Holding
<1> QED
  BY <1>2, <1>3

LEMMA WriteLatestKeeps ==
    ASSUME IInv, NEW c \in Calls, write_latest(c) PROVE IInv'
<1> DEFINE n == call[c].seen
<1>1. call[c].pc = "written" /\ n \in Index /\ call[c].index \in Index
  BY AfterReceipt DEF write_latest
<1>2. run \in Run /\ run.attempts \in Chain
  BY <1>1, AfterReceipt
<1>3. run' = [run EXCEPT !.latest = run.attempts[n], !.dir = TRUE]
  BY DEF write_latest
<1>4. overtakes = 0 => /\ lock = c /\ n = call[c].index /\ run.attempts[n] # None
                       /\ \A d \in Calls \ {c} : call[d].pc \notin Holding
  BY <1>1, AfterReceipt
<1>5. /\ answered \subseteq answered' /\ answered' \subseteq Index
      /\ n = call[c].index => n \in answered'
  BY <1>1 DEF write_latest, IInv, TypeOK
<1>6. memory' \in [Processes -> [Index -> Builds \cup {None}]]
  <2>1. CASE memory' = memory
    BY <2>1 DEF IInv, TypeOK
  <2>2. CASE memory' = Forget(c, call[c].index)
    BY <1>1, <2>2, ForgetTyped DEF IInv, Forget, Holding
  <2> QED
    BY <2>1, <2>2 DEF write_latest
<1>7. CallInv' /\ call'[c].pc = "idle" /\ \A d \in Calls \ {c} : call'[d] = call[d]
  BY OtherKeeps DEF IInv, write_latest
<1>8. UNCHANGED <<artifact, overtakes, failures>> /\ lock' = None
  BY DEF write_latest, faults, release_generation_lock
<1>9. \A i \in Index \ {n} : run'.attempts[i] = run.attempts[i]
  BY <1>2, <1>3 DEF Run
<1>10. /\ run'.dir /\ run'.manifest = run.manifest /\ run'.attempts = run.attempts
       /\ run'.latest = run.attempts[n] /\ run'.selection = run.selection
       /\ run'.result = run.result /\ run'.reviewLock = run.reviewLock
       /\ run'.consumed = run.consumed /\ run' \in Run
  BY <1>1, <1>2, <1>3 DEF Run, Chain
<1>11. BackedInv'
  BY <1>1, <1>7, <1>8, <1>9, <1>10, ReceiptDoneBacks
<1> HIDE DEF n
<1>12. TypeOK'
  BY <1>5, <1>6, <1>7, <1>8, <1>10 DEF IInv, TypeOK, Where, CallInv, GoodCall, CallState
<1>13. ShapeInv'
  BY <1>10 DEF IInv, ShapeInv
<1>14. SameArtifact
  BY <1>8 DEF SameArtifact
<1>15. ReviewInv' /\ SelectionInv'
  BY <1>7, <1>10, <1>14, ReviewKeeps, SelectionKeeps DEF IInv
<1>16. ASSUME overtakes' = 0
       PROVE  /\ ~run'.dir => run' = NoRun
              /\ run'.result # None => OnlyAnswered(run.result)'
              /\ \A i \in Index : run'.attempts[i] # None =>
                     i \in answered' \/ NextToLatest(i)'
              /\ \A d \in Calls : InLease(d)'
  <2>1. overtakes = 0 /\ LeaseInv
    BY <1>8, <1>16 DEF IInv
  <2>2. run'.result # None => OnlyAnswered(run.result)'
    BY <2>1, <1>5, <1>10 DEF LeaseInv, OnlyAnswered
  <2>3. ASSUME NEW i \in Index, run'.attempts[i] # None, i \notin answered'
        PROVE  NextToLatest(i)'
    <3>1. i # n /\ i \notin answered /\ run.attempts[i] # None
      BY <2>1, <2>3, <1>4, <1>5, <1>10
    <3>2. run.attempts[i].index = i /\ run.attempts[n].index = n
      BY <3>1, <2>1, <1>1, <1>4 DEF IInv, ShapeInv
    <3>3. NextToLatest(i)
      BY <3>1, <2>1 DEF LeaseInv
    <3> QED
      BY <3>1, <3>2, <3>3, <1>10 DEF NextToLatest
  <2>4. \A d \in Calls : InLease(d)'
    BY <2>1, <1>4, <1>5, <1>7, OthersInLease
  <2> QED
    BY <2>2, <2>3, <2>4, <1>10
<1>17. LeaseInv'
  BY <1>16 DEF LeaseInv
<1> QED
  BY <1>7, <1>11, <1>12, <1>13, <1>15, <1>17 DEF IInv

LEMMA WriteLatestFailsKeeps ==
    ASSUME IInv, NEW c \in Calls, write_latest_fails(c) PROVE IInv'
<1> DEFINE n == call[c].seen
<1>1. call[c].pc = "written" /\ n \in Index /\ call[c].index \in Index
  BY AfterReceipt DEF write_latest_fails
<1>2. run \in Run /\ run.attempts \in Chain
  BY <1>1, AfterReceipt
<1>3. run' = [run EXCEPT !.attempts[n] = None]
  BY DEF write_latest_fails
<1>4. overtakes = 0 => run.dir /\ \A d \in Calls \ {c} : call[d].pc \notin Holding
  BY <1>1, AfterReceipt
<1>5. memory' \in [Processes -> [Index -> Builds \cup {None}]]
  BY <1>1, ForgetTyped DEF IInv, write_latest_fails, Forget, Holding
<1>6. CallInv' /\ call'[c].pc = "idle" /\ \A d \in Calls \ {c} : call'[d] = call[d]
  BY OtherKeeps DEF IInv, write_latest_fails
<1>7. UNCHANGED <<artifact, answered, overtakes>> /\ lock' = None
  BY DEF write_latest_fails, release_generation_lock
<1>8. failures' \in 0 .. MaxFailures
  BY GenerationConstants DEF IInv, TypeOK, write_latest_fails, Fails
<1>9. run'.attempts = [run.attempts EXCEPT ![n] = None]
  BY <1>2, <1>3 DEF Run
<1>10. run'.attempts[n] = None /\ \A i \in Index \ {n} : run'.attempts[i] = run.attempts[i]
  BY <1>1, <1>2, <1>9 DEF Chain
<1>11. /\ run'.dir = run.dir /\ run'.manifest = run.manifest /\ run'.latest = run.latest
       /\ run'.selection = run.selection /\ run'.result = run.result
       /\ run'.reviewLock = run.reviewLock /\ run'.consumed = run.consumed /\ run' \in Run
  BY <1>1, <1>2, <1>3, <1>9 DEF Run, Chain
<1>12. BackedInv'
  BY <1>1, <1>6, <1>7, <1>10, <1>11, ReceiptDoneBacks
<1> HIDE DEF n
<1>13. TypeOK'
  BY <1>5, <1>6, <1>7, <1>8, <1>11 DEF IInv, TypeOK, Where, CallInv, GoodCall, CallState
<1>14. ShapeInv'
  BY <1>10, <1>11 DEF IInv, ShapeInv
<1>15. SameArtifact
  BY <1>7 DEF SameArtifact
<1>16. ReviewInv' /\ SelectionInv'
  BY <1>6, <1>11, <1>15, ReviewKeeps, SelectionKeeps DEF IInv
<1>17. ASSUME overtakes' = 0
       PROVE  /\ ~run'.dir => run' = NoRun
              /\ run'.result # None => OnlyAnswered(run.result)'
              /\ \A i \in Index : run'.attempts[i] # None =>
                     i \in answered' \/ NextToLatest(i)'
              /\ \A d \in Calls : InLease(d)'
  <2>1. overtakes = 0 /\ LeaseInv
    BY <1>7, <1>17 DEF IInv
  <2>2. run'.result # None => OnlyAnswered(run.result)'
    BY <2>1, <1>7, <1>11 DEF LeaseInv, OnlyAnswered
  <2>3. \A i \in Index : run'.attempts[i] # None => i \in answered' \/ NextToLatest(i)'
    BY <2>1, <1>7, <1>10, <1>11 DEF LeaseInv, NextToLatest
  <2>4. \A d \in Calls : InLease(d)'
    BY <2>1, <1>4, <1>6, <1>7, OthersInLease
  <2> QED
    BY <2>1, <2>2, <2>3, <2>4, <1>4, <1>11
<1>18. LeaseInv'
  BY <1>17 DEF LeaseInv
<1> QED
  BY <1>6, <1>12, <1>13, <1>14, <1>16, <1>18 DEF IInv

----------------------------------------------------------------------------
(* Saves *)

LEMMA SaveKeeps ==
    ASSUME IInv, NEW c \in Calls, NEW p \in Processes, NEW i \in Index,
           NEW regressed \in BOOLEAN, NEW reason \in BOOLEAN,
           save_final_build_artifact(c, p, i, regressed, reason)
    PROVE  IInv'
<1>1. /\ lock' = c /\ run.dir
      /\ overtakes' \in 0 .. MaxOvertakes
      /\ overtakes' = 0 => overtakes = 0 /\ \A d \in Calls : call[d].pc \notin Holding
  BY Acquired DEF save_final_build_artifact
<1>2. /\ run.manifest /\ read_trusted_evaluations_strict /\ artifact = None
      /\ run.attempts[i].passed /\ memory[p][i] = run.attempts[i].build /\ i < Length
      /\ UNCHANGED <<run, artifact, memory, answered, failures>>
  BY DEF save_final_build_artifact, load_bound_run
<1>3. run.attempts[i] # None
  BY <1>2, StrictRead DEF IInv
<1>4. run.attempts[i] \in Receipt /\ run.attempts[i].index = i
  BY <1>3, ReceiptsHaveFields DEF IInv, ShapeInv
<1>5. Passed(i, memory[p][i]) /\ memory[p][i] \in Builds
  BY <1>2, <1>4 DEF Passed, Receipt
<1>6. SelectionOutcome(i, regressed) \in Outcome
  BY DEF SelectionOutcome, Outcome
<1> DEFINE s == [pc |-> "saving", process |-> p, index |-> i,
                 build |-> memory[p][i], seen |-> SelectionOutcome(i, regressed)]
<1>7. s \in GoodCall /\ s.pc = "saving" /\ s.index = i /\ s.build = memory[p][i]
  BY <1>5, <1>6 DEF GoodCall, CallState, Where, Holding, Reviewing
<1>8. call' = [call EXCEPT ![c] = s]
  BY DEF save_final_build_artifact
<1> HIDE DEF s
<1>9. /\ CallInv' /\ call'[c].pc = "saving" /\ call'[c].index = i
      /\ call'[c].build = memory[p][i]
      /\ \A d \in Calls \ {c} : call'[d] = call[d]
  BY <1>7, <1>8, NewCall DEF IInv
<1>10. SameArtifact
  BY <1>2 DEF SameArtifact
<1>11. TypeOK'
  BY <1>1, <1>2, <1>9 DEF IInv, TypeOK, Where, CallInv, GoodCall, CallState
<1>12. ShapeInv' /\ ReviewInv' /\ SelectionInv'
  BY <1>2, <1>9, <1>10, ReviewKeeps, SelectionKeeps DEF IInv, ShapeInv
<1>13. BackedInv'
  <2>1. ~Settled
    BY <1>2 DEF Settled
  <2>2. \A d \in Calls : call[d].pc # "written"
    BY <2>1, <1>2, NotStrict DEF IInv
  <2>3. \A j, b : Passed(j, b) => Passed(j, b)'
    BY <1>2 DEF Passed
  <2>4. \A d \in Calls \ {c} : call[d].pc = "saving" => Passed(call[d].index, call[d].build)
    BY <2>1, <1>2 DEF IInv, BackedInv
  <2>5. \A d \in Calls : (call[d].pc = "saving" => Passed(call[d].index, call[d].build))'
    BY <2>3, <2>4, <1>5, <1>9
  <2>6. \A d \in Calls : call'[d].pc # "written"
    BY <2>2, <1>9
  <2> QED
    BY <2>5, <2>6, <1>2 DEF BackedInv
<1>14. InLease(c)'
  BY <1>1, <1>2, <1>9 DEF InLease, Holding, Reviewing
<1>15. overtakes' = 0 => \A d \in Calls : call'[d].pc \in Holding => lock' = d
  BY <1>1, <1>9
<1>16. \A d \in Calls : call'[d] = call[d] \/ (overtakes' = 0 => InLease(d)')
  BY <1>9, <1>14
<1>17. overtakes = 0 => run.result = None \/ OnlyAnswered(run.result)
  BY DEF IInv, LeaseInv
<1>18. LeaseInv'
  BY <1>1, <1>2, <1>10, <1>15, <1>16, <1>17, LeaseKeeps DEF IInv
<1> QED
  BY <1>9, <1>11, <1>12, <1>13, <1>18 DEF IInv

\* A call that holds the lock, as long as it was not overtaken.
LEMMA Saver ==
    ASSUME IInv, NEW c \in Calls, call[c].pc \in {"saving", "selecting"}
    PROVE  /\ call[c].index \in Index /\ call[c].build \in Builds /\ call[c].seen \in Outcome
           /\ call[c].process \in Processes
           /\ overtakes = 0 =>
                  /\ lock = c /\ run.dir /\ run.manifest /\ InLease(c)
                  /\ \A d \in Calls \ {c} : call[d].pc \notin Holding
<1>1. /\ call[c].index \in Index /\ call[c].build \in Builds /\ call[c].seen \in Outcome
      /\ call[c].process \in Processes
  BY DEF IInv, CallInv, GoodCall, CallState
<1>2. overtakes = 0 => InLease(c) /\ lock = c /\ \A d \in Calls \ {c} : call[d].pc \notin Holding
  BY OneHolder DEF IInv, LeaseInv, Holding
<1> QED
  BY <1>1, <1>2 DEF InLease, Holding

LEMMA PublishKeeps ==
    ASSUME IInv, NEW c \in Calls, publish_artifact(c) PROVE IInv'
<1>1. call[c].pc = "saving" /\ artifact = None
  BY DEF publish_artifact
<1>2. /\ call[c].index \in Index /\ call[c].build \in Builds /\ call[c].seen \in Outcome
      /\ overtakes = 0 => /\ lock = c /\ run.dir /\ run.manifest
                          /\ \A d \in Calls \ {c} : call[d].pc \notin Holding
  BY <1>1, Saver
<1>3. artifact' = [index |-> call[c].index, build |-> call[c].build,
                   outcome |-> call[c].seen, delivered |-> FALSE]
  BY DEF publish_artifact
<1>4. artifact' \in Artifact
  BY <1>2, <1>3 DEF Artifact
<1>5. artifact' # None
  BY <1>4, NoneIsNoReceipt
<1>6. /\ artifact'.index = call[c].index /\ artifact'.build = call[c].build
      /\ artifact'.outcome = call[c].seen
  BY <1>3
<1> DEFINE s == [call[c] EXCEPT !.pc = "selecting"]
<1>7. call[c] \in GoodCall
  BY DEF IInv, CallInv
<1>8. /\ s \in GoodCall /\ s.pc = "selecting" /\ s.index = call[c].index
      /\ s.build = call[c].build /\ s.seen = call[c].seen
  BY <1>1, <1>7 DEF GoodCall, CallState, Where, Holding, Reviewing
<1>9. call' = [call EXCEPT ![c] = s]
  BY DEF publish_artifact
<1> HIDE DEF s
<1>10. /\ CallInv' /\ call'[c].pc = "selecting" /\ call'[c].index = call[c].index
       /\ call'[c].build = call[c].build /\ call'[c].seen = call[c].seen
       /\ \A d \in Calls \ {c} : call'[d] = call[d]
  BY <1>8, <1>9, NewCall DEF IInv
<1>11. UNCHANGED <<run, lock, memory, answered, overtakes, failures>>
  BY DEF publish_artifact, faults
<1>12. TypeOK'
  BY <1>4, <1>10, <1>11 DEF IInv, TypeOK, Where, CallInv, GoodCall, CallState
<1>13. ShapeInv' /\ ReviewInv'
  BY <1>10, <1>11, ReviewKeeps DEF IInv, ShapeInv
<1>14. \A d \in Calls : run.manifest => call[d].pc # "selecting"
  BY <1>1 DEF IInv, SelectionInv, NamesArtifact
<1>15. run.manifest => run.selection = None
  BY <1>1 DEF IInv, SelectionInv, NamesArtifact
<1>16. SelectionInv'
  <2>1. NamesArtifact(call[c].index, call[c].build, call[c].seen)'
    BY <1>5, <1>6, <1>10 DEF NamesArtifact
  <2> QED
    BY <2>1, <1>10, <1>11, <1>14, <1>15 DEF SelectionInv
<1>17. BackedInv'
  <2>1. ~Settled
    BY <1>1 DEF Settled
  <2>2. ASSUME run.manifest
        PROVE  /\ Passed(artifact.index, artifact.build)'
               /\ \A d \in Calls : (call[d].pc = "saving" =>
                      Passed(call[d].index, call[d].build))'
               /\ \A d \in Calls : (call[d].pc = "written" => Unfollowed(d))'
    <3>1. \A j, b : Passed(j, b) => Passed(j, b)'
      BY <1>11 DEF Passed
    <3>2. /\ \A d \in Calls : call[d].pc = "saving" => Passed(call[d].index, call[d].build)
          /\ \A d \in Calls : call[d].pc = "written" => Unfollowed(d)
      BY <2>1, <2>2 DEF IInv, BackedInv
    <3>3. Passed(artifact.index, artifact.build)'
      BY <3>1, <3>2, <1>1, <1>6
    <3>4. \A d \in Calls : (call[d].pc = "saving" => Passed(call[d].index, call[d].build))'
      BY <3>1, <3>2, <1>10
    <3>5. ASSUME NEW d \in Calls, call'[d].pc = "written" PROVE Unfollowed(d)'
      <4>1. d # c /\ Unfollowed(d) /\ call'[d] = call[d]
        BY <3>2, <3>5, <1>10
      <4>2. call[c].index # call[d].seen
        BY <4>1, <1>1 DEF Unfollowed
      <4> QED
        BY <4>1, <4>2, <1>6, <1>10, <1>11 DEF Unfollowed
    <3> QED
      BY <3>3, <3>4, <3>5
  <2> QED
    BY <2>2, <1>11 DEF BackedInv
<1>18. ASSUME overtakes' = 0 PROVE \A d \in Calls : InLease(d)'
  <2>1. overtakes = 0
    BY <1>11, <1>18
  <2>2. InLease(c)'
    BY <2>1, <1>2, <1>10, <1>11 DEF InLease, Holding, Reviewing
  <2>3. ASSUME NEW d \in Calls \ {c} PROVE InLease(d)'
    <3>1. InLease(d) /\ call'[d] = call[d] /\ call[d].pc \notin Holding
      BY <2>1, <1>2, <1>10 DEF IInv, LeaseInv
    <3> QED
      BY <3>1, <1>11 DEF InLease, Holding, OnlyAnswered
  <2> QED
    BY <2>2, <2>3
<1>19. LeaseInv'
  BY <1>11, <1>18 DEF IInv, LeaseInv, OnlyAnswered, NextToLatest
<1> QED
  BY <1>10, <1>12, <1>13, <1>16, <1>17, <1>19 DEF IInv

LEMMA WriteSelectionKeeps ==
    ASSUME IInv, NEW c \in Calls, write_artifact_selection(c) PROVE IInv'
<1>1. call[c].pc = "selecting" /\ run.selection = None
  BY DEF write_artifact_selection
<1>2. /\ call[c].index \in Index /\ call[c].build \in Builds /\ call[c].seen \in Outcome
      /\ call[c].process \in Processes
      /\ overtakes = 0 => /\ run.dir
                          /\ \A d \in Calls \ {c} : call[d].pc \notin Holding
  BY <1>1, Saver
<1> DEFINE r == [index |-> call[c].index, build |-> call[c].build, outcome |-> call[c].seen]
<1>3. /\ r \in Selection /\ r.index = call[c].index /\ r.build = call[c].build
      /\ r.outcome = call[c].seen
  BY <1>2 DEF Selection
<1>4. run' = [run EXCEPT !.dir = TRUE, !.selection = r]
  BY DEF write_artifact_selection
<1> HIDE DEF r
<1>5. run \in Run
  BY DEF IInv, TypeOK
<1>6. /\ run'.dir /\ run'.manifest = run.manifest /\ run'.attempts = run.attempts
      /\ run'.latest = run.latest /\ run'.selection = r /\ run'.result = run.result
      /\ run'.reviewLock = run.reviewLock /\ run'.consumed = run.consumed /\ run' \in Run
  BY <1>3, <1>4, <1>5 DEF Run
<1>7. CallInv' /\ call'[c].pc = "idle" /\ \A d \in Calls \ {c} : call'[d] = call[d]
  BY OtherKeeps DEF IInv, write_artifact_selection
<1>8. UNCHANGED <<artifact, answered, overtakes, failures>> /\ lock' = None
  BY DEF write_artifact_selection, faults, release_generation_lock
<1>9. memory' \in [Processes -> [Index -> Builds \cup {None}]]
  BY <1>2, ForgetAllTyped DEF IInv, write_artifact_selection
<1>10. TypeOK'
  BY <1>6, <1>7, <1>8, <1>9 DEF IInv, TypeOK, Where, CallInv, GoodCall, CallState
<1>11. SameArtifact
  BY <1>8 DEF SameArtifact
<1>12. ShapeInv' /\ ReviewInv'
  BY <1>6, <1>7, ReviewKeeps DEF IInv, ShapeInv
<1>13. BackedInv'
  BY <1>6, <1>7, <1>11, BackedKeeps DEF IInv
<1>14. SelectionInv'
  <2>1. SUFFICES ASSUME run'.manifest
                 PROVE  /\ NamesArtifact(run.selection.index, run.selection.build,
                                         run.selection.outcome)'
                        /\ \A d \in Calls : call'[d].pc # "selecting"
    BY DEF SelectionInv
  <2>2. /\ NamesArtifact(call[c].index, call[c].build, call[c].seen)
        /\ \A d \in Calls \ {c} : call[d].pc # "selecting"
    BY <2>1, <1>1, <1>6 DEF IInv, SelectionInv
  <2> QED
    BY <2>2, <1>3, <1>6, <1>7, <1>8 DEF NamesArtifact
<1>15. ASSUME overtakes' = 0 PROVE \A d \in Calls : InLease(d)'
  BY <1>2, <1>7, <1>8, <1>15, OthersInLease DEF IInv
<1>16. LeaseInv'
  BY <1>6, <1>8, <1>15 DEF IInv, LeaseInv, OnlyAnswered, NextToLatest
<1> QED
  BY <1>7, <1>10, <1>12, <1>13, <1>14, <1>16 DEF IInv

LEMMA WriteSelectionFailsKeeps ==
    ASSUME IInv, NEW c \in Calls, write_artifact_selection_fails(c) PROVE IInv'
<1>1. call[c].pc = "selecting" /\ artifact' = None
  BY DEF write_artifact_selection_fails
<1>2. overtakes = 0 => \A d \in Calls \ {c} : call[d].pc \notin Holding
  BY <1>1, Saver
<1>3. CallInv' /\ call'[c].pc = "idle" /\ \A d \in Calls \ {c} : call'[d] = call[d]
  BY OtherKeeps DEF IInv, write_artifact_selection_fails
<1>4. UNCHANGED <<run, memory, answered, overtakes>> /\ lock' = None
  BY DEF write_artifact_selection_fails, release_generation_lock
<1>5. failures' \in 0 .. MaxFailures
  BY GenerationConstants DEF IInv, TypeOK, write_artifact_selection_fails, Fails
<1>6. TypeOK'
  BY <1>1, <1>3, <1>4, <1>5 DEF IInv, TypeOK, Where, CallInv, GoodCall, CallState
<1>7. ShapeInv' /\ ReviewInv'
  BY <1>3, <1>4, ReviewKeeps DEF IInv, ShapeInv
<1>8. SelectionInv'
  BY <1>1, <1>3, <1>4 DEF IInv, SelectionInv
<1>9. BackedInv'
  <2>1. ~Settled
    BY <1>1 DEF Settled
  <2>2. \A j, b : Passed(j, b) => Passed(j, b)'
    BY <1>4 DEF Passed
  <2>3. run.manifest => \A d \in Calls : (call[d].pc = "saving" =>
            Passed(call[d].index, call[d].build))'
    BY <2>1, <2>2, <1>3 DEF IInv, BackedInv
  <2>4. run.manifest => \A d \in Calls : (call[d].pc = "written" => Unfollowed(d))'
    BY <2>1, <1>1, <1>3, <1>4 DEF IInv, BackedInv, Unfollowed
  <2> QED
    BY <2>3, <2>4, <1>1, <1>4 DEF BackedInv
<1>10. ASSUME overtakes' = 0 PROVE \A d \in Calls : InLease(d)'
  BY <1>2, <1>3, <1>4, <1>10, OthersInLease DEF IInv
<1>11. LeaseInv'
  BY <1>4, <1>10 DEF IInv, LeaseInv, OnlyAnswered, NextToLatest
<1> QED
  BY <1>3, <1>6, <1>7, <1>8, <1>9, <1>11 DEF IInv

----------------------------------------------------------------------------
(* The invariant and what follows *)

LEMMA Initial == Init => IInv
<1> SUFFICES ASSUME Init PROVE IInv
  OBVIOUS
<1>1. run = [NoRun EXCEPT !.dir = TRUE, !.manifest = TRUE]
  BY DEF Init
<1>2. /\ run.dir /\ run.manifest /\ run.attempts = NoReceipts /\ run.latest = None
      /\ run.selection = None /\ run.result = None /\ ~run.consumed
      /\ run \in Run
  BY <1>1, NoRunIsRun DEF NoRun, Run
<1>3. \A i \in Index : run.attempts[i] = None
  BY <1>2 DEF NoReceipts
<1>4. CallInv /\ \A c \in Calls : call[c].pc = "idle"
  BY IdleIsGood DEF Init, CallInv
<1>5. 0 \in 0 .. MaxOvertakes /\ 0 \in 0 .. MaxFailures
  BY GenerationConstants
<1>6. memory \in [Processes -> [Index -> Builds \cup {None}]]
  BY DEF Init
<1>7. TypeOK
  BY <1>2, <1>4, <1>5, <1>6 DEF Init, TypeOK
<1>8. ShapeInv
  BY <1>2, <1>3 DEF ShapeInv
<1>9. SelectionInv /\ BackedInv
  BY <1>2, <1>4 DEF Init, SelectionInv, BackedInv
<1>10. \A c \in Calls : InLease(c)
  BY <1>4 DEF InLease, Holding, Reviewing
<1>11. LeaseInv /\ ReviewInv
  BY <1>2, <1>3, <1>4, <1>10 DEF LeaseInv, ReviewInv
<1> QED
  BY <1>4, <1>7, <1>8, <1>9, <1>11 DEF IInv

LEMMA StutterKeeps ==
    ASSUME IInv, UNCHANGED vars PROVE IInv'
<1>1. UNCHANGED <<run, lock, artifact, call, memory, answered, overtakes, failures>>
  BY DEF vars
<1>2. TypeOK' /\ CallInv'
  BY <1>1 DEF IInv, TypeOK, CallInv
<1>3. overtakes = 0 => \A d \in Calls : call'[d].pc \in Holding => lock' = d
  BY <1>1, LocksFollowHolders DEF IInv
<1> QED
  BY <1>1, <1>2, <1>3, QuietKeeps

LEMMA StepKeeps ==
    ASSUME IInv, NEW c \in Calls, Step(c) PROVE IInv'
<1>1. ASSUME NEW p \in Processes, evaluate_generation_candidate(c, p) PROVE IInv'
  BY <1>1, BoundKeeps
<1>2. ASSUME NEW p \in Processes, review_packet(c, p) PROVE IInv'
  BY <1>2, ReviewPacketKeeps
<1>3. ASSUME NEW p \in Processes, NEW i \in Index, NEW regressed \in BOOLEAN,
             NEW reason \in BOOLEAN, save_final_build_artifact(c, p, i, regressed, reason)
      PROVE  IInv'
  BY <1>3, SaveKeeps
<1>4. ASSUME NEW b \in Builds, NEW passed \in BOOLEAN, write_attempt(c, b, passed) PROVE IInv'
  BY <1>4, WriteAttemptKeeps
<1>5. CASE begin_judging(c)
  BY <1>5, BeginJudgingKeeps
<1>6. CASE evaluation_refused(c)
  BY <1>6, RefusedKeeps
<1>7. CASE evaluation_not_recorded(c)
  BY <1>7, NotRecordedKeeps
<1>8. CASE write_latest(c)
  BY <1>8, WriteLatestKeeps
<1>9. CASE write_latest_fails(c)
  BY <1>9, WriteLatestFailsKeeps
<1>10. CASE publish_artifact(c)
  BY <1>10, PublishKeeps
<1>11. CASE write_artifact_selection(c)
  BY <1>11, WriteSelectionKeeps
<1>12. CASE write_artifact_selection_fails(c)
  BY <1>12, WriteSelectionFailsKeeps
<1>13. CASE take_review_lock(c)
  BY <1>13, TakeReviewLockKeeps
<1>14. CASE write_review_result(c)
  BY <1>14, WriteReviewResultKeeps
<1>15. CASE consume_run(c)
  BY <1>15, ConsumeKeeps
<1>16. CASE rejected(c)
  BY <1>16, RejectedKeeps
<1>17. CASE rejected_after_takeover(c)
  BY <1>17, TakeoverKeeps
<1> QED
  BY <1>1, <1>2, <1>3, <1>4, <1>5, <1>6, <1>7, <1>8, <1>9, <1>10, <1>11, <1>12, <1>13, <1>14,
     <1>15, <1>16, <1>17 DEF Step

LEMMA NextKeeps == IInv /\ [Next]_vars => IInv'
<1> SUFFICES ASSUME IInv, [Next]_vars PROVE IInv'
  OBVIOUS
<1>1. ASSUME NEW c \in Calls, Step(c) PROVE IInv'
  BY <1>1, StepKeeps
<1>2. CASE mark_final_build_delivery_complete
  BY <1>2, DeliveryKeeps
<1>3. CASE remove_artifact
  BY <1>3, RemoveArtifactKeeps
<1>4. ASSUME NEW p \in Processes, remove_run(p) \/ remove_run_fails(p) \/ crash(p) PROVE IInv'
  BY <1>4, RemoveRunKeeps, RemoveRunFailsKeeps, CrashKeeps
<1>5. ASSUME NEW p \in Processes, NEW i \in Index, evict(p, i) PROVE IInv'
  BY <1>5, EvictKeeps
<1>6. CASE UNCHANGED vars
  BY <1>6, StutterKeeps
<1> QED
  BY <1>1, <1>2, <1>3, <1>4, <1>5, <1>6 DEF Next

\* Every reachable state of a generation run satisfies the inductive invariant.
THEOREM GenerationInvariant == Spec => []IInv
<1>1. Init => IInv
  BY Initial
<1>2. IInv /\ [Next]_vars => IInv'
  BY NextKeeps
<1> QED
  BY <1>1, <1>2, PTL DEF Spec

\* The final artifact is the very build that the receipt of its attempt passed,
\* and the selection receipt names it, whatever crashed, failed or overtook
\* (server/generation/artifacts.py, run_store.py).
THEOREM RunIsSound == Spec => []RunSound
<1>1. IInv => RunSound
  <2> SUFFICES ASSUME IInv PROVE RunSound
    OBVIOUS
  <2>1. artifact # None /\ ~artifact.delivered => ~Settled
    BY DEF Settled
  <2>2. artifact # None /\ ~artifact.delivered /\ run.manifest =>
            Passed(artifact.index, artifact.build)
    BY <2>1 DEF IInv, BackedInv
  <2>3. ASSUME run.selection # None, run.manifest
        PROVE  /\ artifact # None
               /\ run.selection = [index |-> artifact.index, build |-> artifact.build,
                                    outcome |-> artifact.outcome]
    <3>1. NamesArtifact(run.selection.index, run.selection.build, run.selection.outcome)
      BY <2>3 DEF IInv, SelectionInv
    <3>2. run.selection \in Selection
      BY <2>3 DEF IInv, TypeOK, Run
    <3>3. run.selection = [index |-> run.selection.index, build |-> run.selection.build,
                           outcome |-> run.selection.outcome]
      BY <3>2 DEF Selection
    <3> QED
      BY <3>1, <3>3 DEF NamesArtifact
  <2>4. ArtifactBacked
    BY <2>2, <2>3 DEF ArtifactBacked, Passed
  <2> QED
    BY <2>4 DEF IInv, RunSound
<1> QED
  BY <1>1, GenerationInvariant, PTL

\* A review reports no attempt whose evaluation was not answered, as long as no
\* call outlives its lease: a receipt that the latest one has not followed makes
\* the strict read fail (run_store.py, scripts/create_build.py).
THEOREM ReviewsReportAnswered == Spec => []ReviewReportsAnswered
<1>1. IInv => ReviewReportsAnswered
  BY DEF IInv, LeaseInv, OnlyAnswered, ReviewReportsAnswered
<1> QED
  BY <1>1, GenerationInvariant, PTL

\* No call is past its lock when the run's directory is removed, so that none of
\* them brings it back (runtime/task_cleanup.py).
THEOREM CleanupsAreAlone == Spec => []CleanupAlone
<1>1. IInv => CleanupAlone
  <2> SUFFICES ASSUME IInv, overtakes = 0, ~run.dir
               PROVE  /\ run = NoRun
                      /\ \A c \in Calls : call[c].pc \in {"idle", "bound", "reviewing"}
    BY DEF CleanupAlone
  <2>1. run = NoRun /\ \A c \in Calls : InLease(c)
    BY DEF IInv, LeaseInv
  <2>2. ASSUME NEW c \in Calls PROVE call[c].pc \in {"idle", "bound", "reviewing"}
    <3>1. call[c].pc \notin Holding
      BY <2>1 DEF InLease
    <3>2. call[c].pc \notin {"review_locked", "result_written"}
      BY PastReviewLock
    <3>3. call[c].pc \in Where
      BY CallsTyped DEF IInv
    <3> QED
      BY <3>1, <3>2, <3>3 DEF Where, Holding
  <2> QED
    BY <2>1, <2>2
<1> QED
  BY <1>1, GenerationInvariant, PTL

----------------------------------------------------------------------------
(* What no step does *)

KeepsChain == \A i \in Index : run'.attempts[i] # run.attempts[i] => run'.attempts[i] = None
KeepsReview == run.consumed /\ run'.consumed => run'.result \in {run.result, None}

\* While no lock was overtaken a selected run has no evaluation past its lock.
LEMMA SelectedIsNotJudged ==
    ASSUME IInv, overtakes = 0, run.selection # None, NEW c \in Calls
    PROVE  call[c].pc \notin {"judging", "written"}
  BY DEF IInv, LeaseInv, InLease

LEMMA StepOfRun ==
    ASSUME IInv, NEW c \in Calls, Step(c)
    PROVE  /\ run.selection # None /\ overtakes' = 0 => KeepsChain
           /\ KeepsReview
<1>1. run \in Run /\ run.attempts \in Chain
  BY DEF IInv, TypeOK, Run
<1>2. CASE run' = run
  BY <1>2 DEF KeepsChain, KeepsReview
<1>3. ASSUME NEW b \in Builds, NEW passed \in BOOLEAN, write_attempt(c, b, passed)
      PROVE  /\ run.selection # None /\ overtakes' = 0 => KeepsChain
             /\ KeepsReview
  <2>1. call[c].pc = "judging" /\ overtakes' = overtakes
    BY <1>3 DEF write_attempt, faults
  <2>2. run'.result = run.result
    BY <1>1, <1>3 DEF write_attempt, Run
  <2> QED
    BY <2>1, <2>2, SelectedIsNotJudged DEF KeepsReview
<1>4. CASE write_latest(c) \/ write_latest_fails(c)
  <2>1. call[c].pc = "written" /\ overtakes' = overtakes
    BY <1>4 DEF write_latest, write_latest_fails, faults
  <2>2. run'.result = run.result
    BY <1>1, <1>4 DEF write_latest, write_latest_fails, Run
  <2> QED
    BY <2>1, <2>2, SelectedIsNotJudged DEF KeepsReview
<1>5. CASE write_artifact_selection(c)
  <2>1. run'.attempts = run.attempts /\ run'.result = run.result
    BY <1>1, <1>5 DEF write_artifact_selection, Run
  <2> QED
    BY <2>1 DEF KeepsChain, KeepsReview
<1>6. CASE take_review_lock(c)
  <2>1. run'.attempts = run.attempts /\ run'.result = run.result
    BY <1>1, <1>6 DEF take_review_lock, Run
  <2> QED
    BY <2>1 DEF KeepsChain, KeepsReview
<1>7. CASE write_review_result(c) \/ consume_run(c)
  <2>1. run'.attempts = run.attempts
    BY <1>1, <1>7 DEF write_review_result, consume_run, Run
  <2>2. ~run.consumed
    BY <1>7, PastReviewLock DEF write_review_result, consume_run
  <2> QED
    BY <2>1, <2>2 DEF KeepsChain, KeepsReview
<1>8. run' = run \/ (\E b \in Builds, passed \in BOOLEAN : write_attempt(c, b, passed))
      \/ write_latest(c) \/ write_latest_fails(c) \/ write_artifact_selection(c)
      \/ take_review_lock(c) \/ write_review_result(c) \/ consume_run(c)
  BY DEF Step, evaluate_generation_candidate, review_packet, save_final_build_artifact,
     begin_judging, evaluation_refused, evaluation_not_recorded, publish_artifact,
     write_artifact_selection_fails, rejected, rejected_after_takeover
<1> QED
  BY <1>2, <1>3, <1>4, <1>5, <1>6, <1>7, <1>8

LEMMA RemovalOfRun ==
    ASSUME IInv, NEW p \in Processes, remove_run(p) \/ remove_run_fails(p)
    PROVE  KeepsChain /\ KeepsReview
<1>1. run \in Run
  BY DEF IInv, TypeOK
<1>2. DOMAIN run = {"dir", "manifest", "attempts", "latest", "selection", "reviewLock",
                    "result", "consumed"}
  BY <1>1 DEF Run
<1>3. run'.attempts \in {run.attempts, NoReceipts} /\ run'.result \in {run.result, None}
  <2>1. CASE remove_run(p)
    BY <2>1 DEF remove_run, NoRun
  <2>2. CASE remove_run_fails(p)
    <3>1. PICK left \in SUBSET DOMAIN run :
              run' = [f \in DOMAIN run |->
                          IF f \in left \cup {"dir"} THEN run[f] ELSE NoRun[f]]
      BY <2>2 DEF remove_run_fails
    <3> QED
      BY <3>1, <1>2 DEF NoRun
  <2> QED
    BY <2>1, <2>2
<1>4. \A i \in Index : NoReceipts[i] = None
  BY DEF NoReceipts
<1> QED
  BY <1>3, <1>4 DEF KeepsChain, KeepsReview

LEMMA NextOfRun ==
    ASSUME IInv, [Next]_vars
    PROVE  /\ run.selection # None /\ overtakes' = 0 => KeepsChain
           /\ KeepsReview
<1>1. CASE run' = run
  BY <1>1 DEF KeepsChain, KeepsReview
<1>2. run' = run \/ (\E c \in Calls : Step(c))
      \/ (\E p \in Processes : remove_run(p) \/ remove_run_fails(p))
  BY DEF Next, vars, mark_final_build_delivery_complete, remove_artifact, crash, evict
<1> QED
  BY <1>1, <1>2, StepOfRun, RemovalOfRun

\* Once the selection receipt is there no receipt appears or changes, as long as
\* no call outlives its lease: evaluation-lock freezes the chain (run_store.py).
THEOREM ChainIsFrozenInLease == Spec => ChainFrozenInLease
<1>1. IInv /\ [Next]_vars =>
          [run.selection # None /\ overtakes' = 0 =>
               \A i \in Index : run'.attempts[i] # run.attempts[i] => run'.attempts[i] = None]_vars
  BY NextOfRun DEF KeepsChain
<1> QED
  BY <1>1, GenerationInvariant, PTL DEF Spec, ChainFrozenInLease

\* A consumed run keeps its review: no second reviewer replaces the result
\* (scripts/create_build.py).
THEOREM ReviewsHappenOnce == Spec => ReviewOnce
<1>1. IInv /\ [Next]_vars =>
          [run.consumed /\ run'.consumed => run'.result \in {run.result, None}]_vars
  BY NextOfRun DEF KeepsReview
<1> QED
  BY <1>1, GenerationInvariant, PTL DEF Spec, ReviewOnce
=============================================================================
