---------------------------- MODULE GenerationRun ----------------------------
(***************************************************************************)
(* One generation run of server/generation: its directory (run_store.py),  *)
(* the evaluations that append receipts to it (evaluation.py), the save of *)
(* the selected attempt (artifacts.py), the review that consumes the run   *)
(* (scripts/create_build.py), the delivery and the cleanup                 *)
(* (runtime/task_cleanup.py).  Calls run in several server processes; the  *)
(* evaluation-lock file is the only thing that keeps evaluations and saves *)
(* apart, the review and the cleanup do not take it, and a process may die *)
(* at any point.  The XML an evaluation judged is kept in the memory of    *)
(* its process only (evaluation_snapshots.py).                             *)
(*                                                                         *)
(* A build is a model value; what a call may find wrong with it (draft,    *)
(* mechanism, preflight, round trip, lifecycle) is a rejection at any      *)
(* point under the lock.                                                   *)
(***************************************************************************)
EXTENDS Integers, FiniteSets

CONSTANTS Calls,          \* tool calls that may be in progress at once
          Processes,      \* server processes
          Builds,         \* what an engine may hold when it is judged
          MaxAttempts,    \* receipts a run may have: 3 in the code
          MaxFailures,    \* bound: process deaths and failed writes and removals
          MaxOvertakes,   \* bound: calls that outlive the lease of their lock
          None, Dead      \* no value; the lock of a call that died

Index == 0 .. MaxAttempts - 1
Receipt == [index : Index, build : Builds, passed : BOOLEAN]
Chain == [Index -> Receipt \cup {None}]
Outcome == {"latest", "earlier", "restored"}
Selection == [index : Index, build : Builds, outcome : Outcome]
Artifact == [index : Index, build : Builds, outcome : Outcome, delivered : BOOLEAN]

ASSUME GenerationConstants ==
    /\ MaxAttempts \in Nat \ {0}
    /\ MaxFailures \in Nat /\ MaxOvertakes \in Nat
    /\ None \notin Builds \cup Calls \cup Receipt \cup Chain \cup Selection \cup Artifact
    /\ Dead \notin Calls \cup {None}

VARIABLES run,            \* the run directory
          lock,           \* evaluation-lock: the call that made the file
          artifact,       \* the final artifact's directory
          call,           \* each call: where it is and what it has read
          memory,         \* evaluation snapshots of each process
          answered,       \* (history) attempts a caller was told of
          overtakes, failures

vars == <<run, lock, artifact, call, memory, answered, overtakes,
          failures>>
faults == <<overtakes, failures>>

NoReceipts == [i \in Index |-> None]
NoRun == [dir |-> FALSE, manifest |-> FALSE, attempts |-> NoReceipts, latest |-> None,
          selection |-> None, reviewLock |-> FALSE, result |-> None, consumed |-> FALSE]
Idle == [pc |-> "idle", process |-> None, index |-> 0, build |-> None, seen |-> None]

Run == [dir : BOOLEAN, manifest : BOOLEAN, attempts : Chain, latest : Receipt \cup {None},
        selection : Selection \cup {None}, reviewLock : BOOLEAN, result : Chain \cup {None},
        consumed : BOOLEAN]

TypeOK ==
    /\ run \in Run
    /\ lock \in Calls \cup {Dead, None}
    /\ artifact \in Artifact \cup {None}
    /\ \A c \in Calls : call[c].pc \in {"idle", "bound", "judging", "written", "saving",
                           "selecting", "reviewing", "review_locked", "result_written"}
    /\ memory \in [Processes -> [Index -> Builds \cup {None}]]
    /\ answered \subseteq Index
    /\ overtakes \in 0 .. MaxOvertakes /\ failures \in 0 .. MaxFailures

Init ==
    /\ run = [NoRun EXCEPT !.dir = TRUE, !.manifest = TRUE]     \* _start_run
    /\ lock = None /\ artifact = None
    /\ call = [c \in Calls |-> Idle]
    /\ memory = [p \in Processes |-> [i \in Index |-> None]]
    /\ answered = {}
    /\ overtakes = 0 /\ failures = 0

----------------------------------------------------------------------------
(* The run directory *)

\* A call on a run older than RUN_TTL is refused, as if it had not been made.
load_bound_run == run.manifest

Written == {i \in Index : run.attempts[i] # None}
Length == Cardinality(Written)

\* Mutant: the chain is read without comparing it with the latest receipt.
read_trusted_evaluations_lenient == Written = 0 .. Length - 1

\* The chain is complete and the latest receipt is its last one.
read_trusted_evaluations_strict ==
    /\ Written = 0 .. Length - 1
    /\ run.latest = IF Written = {} THEN None ELSE run.attempts[Length - 1]

\* The lock file is made, or the one of a call that died or that takes longer
\* than the lease is moved away and made again.
acquire_generation_lock(c) ==
    /\ run.dir
    /\ lock \in Calls => overtakes < MaxOvertakes
    /\ overtakes' = IF lock \in Calls THEN overtakes + 1 ELSE overtakes
    /\ lock' = c

\* Whatever lock file is there is removed.
release_generation_lock == lock' = None

Ends(c) == call' = [call EXCEPT ![c] = Idle]

Fails == failures < MaxFailures /\ failures' = failures + 1

UnderLock == {"judging", "saving"}

\* A call that is rejected under the lock before it writes anything.
rejected(c) ==
    /\ call[c].pc \in UnderLock
    /\ release_generation_lock
    /\ Ends(c)
    /\ UNCHANGED <<run, artifact, memory, answered, faults>>

\* A call that moves a stale lock away and is then rejected.
rejected_after_takeover(c) ==
    /\ call[c].pc = "idle" /\ load_bound_run
    /\ lock # None /\ run.dir
    /\ lock \in Calls => overtakes < MaxOvertakes
    /\ overtakes' = IF lock \in Calls THEN overtakes + 1 ELSE overtakes
    /\ release_generation_lock
    /\ UNCHANGED <<run, artifact, call, memory, answered, failures>>

----------------------------------------------------------------------------
(* evaluate_generation_candidate *)

\* The run is read, and found unconsumed, before the lock is taken.
evaluate_generation_candidate(c, p) ==
    /\ call[c].pc = "idle"
    /\ load_bound_run /\ ~run.consumed
    /\ call' = [call EXCEPT ![c] = [Idle EXCEPT !.pc = "bound", !.process = p]]
    /\ UNCHANGED <<run, lock, artifact, memory, answered, faults>>

\* Mutant: the selection is not looked at.
begin_judging_unfrozen(c) ==
    /\ call[c].pc = "bound"
    /\ read_trusted_evaluations_strict /\ Length < MaxAttempts
    /\ acquire_generation_lock(c)
    /\ call' = [call EXCEPT ![c].pc = "judging", ![c].index = Length]
    /\ UNCHANGED <<run, artifact, memory, answered, failures>>

\* Under the lock: nothing is selected yet, the chain is whole and not full.
begin_judging(c) ==
    /\ call[c].pc = "bound"
    /\ run.selection = None
    /\ read_trusted_evaluations_strict /\ Length < MaxAttempts
    /\ acquire_generation_lock(c)
    /\ call' = [call EXCEPT ![c].pc = "judging", ![c].index = Length]
    /\ UNCHANGED <<run, artifact, memory, answered, failures>>

\* The lock is held by another call, or one of the checks fails.
evaluation_refused(c) ==
    /\ call[c].pc = "bound"
    /\ Ends(c)
    /\ UNCHANGED <<run, lock, artifact, memory, answered, faults>>

Forget(c, i) == [memory EXCEPT ![call[c].process][i] = None]

\* The Judge has answered, but the snapshot or the receipt is refused: another
\* snapshot has the index, the chain is no longer whole or full, or the file
\* cannot be written.  The snapshot of the index is dropped, whoever made it.
evaluation_not_recorded(c) ==
    /\ call[c].pc = "judging"
    /\ \/ /\ \/ memory[call[c].process][call[c].index] # None
             \/ ~read_trusted_evaluations_strict
             \/ Length >= MaxAttempts
          /\ UNCHANGED failures
       \/ Fails
    /\ memory' = Forget(c, call[c].index)
    /\ release_generation_lock
    /\ Ends(c)
    /\ UNCHANGED <<run, artifact, answered, overtakes>>

\* The snapshot is remembered under the index read at the start, and the
\* receipt is written under the one read now.
write_attempt(c, b, passed) ==
    /\ call[c].pc = "judging"
    /\ memory[call[c].process][call[c].index] = None
    /\ read_trusted_evaluations_strict /\ Length < MaxAttempts
    /\ memory' = [memory EXCEPT ![call[c].process][call[c].index] = b]
    /\ run' = [run EXCEPT !.dir = TRUE, !.attempts[Length] =
                   [index |-> Length, build |-> b, passed |-> passed]]
    /\ call' = [call EXCEPT ![c].pc = "written", ![c].seen = Length]
    /\ UNCHANGED <<lock, artifact, answered, faults>>

\* trusted-evaluation.json follows and the caller is answered; an index other
\* than the expected one is a rejection, though the receipt stays.
write_latest(c) ==
    /\ call[c].pc = "written"
    /\ run' = [run EXCEPT !.latest = run.attempts[call[c].seen], !.dir = TRUE]
    /\ IF call[c].seen = call[c].index
         THEN answered' = answered \cup {call[c].seen} /\ UNCHANGED memory
         ELSE memory' = Forget(c, call[c].index) /\ UNCHANGED answered
    /\ release_generation_lock
    /\ Ends(c)
    /\ UNCHANGED <<artifact, faults>>

\* It cannot be written: the receipt is removed again.
write_latest_fails(c) ==
    /\ call[c].pc = "written"
    /\ Fails
    /\ run' = [run EXCEPT !.attempts[call[c].seen] = None]
    /\ memory' = Forget(c, call[c].index)
    /\ release_generation_lock
    /\ Ends(c)
    /\ UNCHANGED <<artifact, answered, overtakes>>

\* Snapshots are dropped after two hours, or when 32 newer ones came.
evict(p, i) ==
    /\ memory[p][i] # None
    /\ memory' = [memory EXCEPT ![p][i] = None]
    /\ UNCHANGED <<run, lock, artifact, call, answered, faults>>

----------------------------------------------------------------------------
(* save_final_build_artifact *)

\* regressed: the active build, or the mechanism draft, is no longer the one
\* that was judged.
SelectionOutcome(i, regressed) ==
    LET historical == i # Length - 1
        laterRegressed == \E j \in Written : j > i /\ ~run.attempts[j].passed
    IN  IF (historical /\ laterRegressed) \/ regressed THEN "restored"
        ELSE IF historical THEN "earlier" ELSE "latest"

\* Mutant: an attempt that did not pass may be saved.
save_final_build_artifact_unjudged(c, p, i, regressed, reason) ==
    /\ call[c].pc = "idle"
    /\ load_bound_run /\ read_trusted_evaluations_strict
    /\ i < Length /\ artifact = None
    /\ (i # Length - 1 \/ regressed) => reason
    /\ memory[p][i] = run.attempts[i].build
    /\ acquire_generation_lock(c)
    /\ call' = [call EXCEPT ![c] = [pc |-> "saving", process |-> p, index |-> i,
                    build |-> memory[p][i], seen |-> SelectionOutcome(i, regressed)]]
    /\ UNCHANGED <<run, artifact, memory, answered, failures>>

\* The chosen attempt passed, its snapshot is still in this process, nothing
\* has been saved, and an attempt other than the latest, or one the active
\* build has moved away from, comes with a reason.  A consumed run is no bar.
save_final_build_artifact(c, p, i, regressed, reason) ==
    /\ call[c].pc = "idle"
    /\ load_bound_run /\ read_trusted_evaluations_strict
    /\ i < Length /\ artifact = None
    /\ (i # Length - 1 \/ regressed) => reason
    /\ run.attempts[i].passed
    /\ memory[p][i] = run.attempts[i].build
    /\ acquire_generation_lock(c)
    /\ call' = [call EXCEPT ![c] = [pc |-> "saving", process |-> p, index |-> i,
                    build |-> memory[p][i], seen |-> SelectionOutcome(i, regressed)]]
    /\ UNCHANGED <<run, artifact, memory, answered, failures>>

\* After the round trip through PoB the directory is moved into place, which
\* fails when there is one.
publish_artifact(c) ==
    /\ call[c].pc = "saving" /\ artifact = None
    /\ artifact' = [index |-> call[c].index, build |-> call[c].build,
                    outcome |-> call[c].seen, delivered |-> FALSE]
    /\ call' = [call EXCEPT ![c].pc = "selecting"]
    /\ UNCHANGED <<run, lock, memory, answered, faults>>

\* The selection receipt follows, and the run's snapshots are dropped.
write_artifact_selection(c) ==
    /\ call[c].pc = "selecting" /\ run.selection = None
    /\ run' = [run EXCEPT !.dir = TRUE, !.selection =
                   [index |-> call[c].index, build |-> call[c].build, outcome |-> call[c].seen]]
    /\ memory' = [memory EXCEPT ![call[c].process] = [i \in Index |-> None]]
    /\ release_generation_lock
    /\ Ends(c)
    /\ UNCHANGED <<artifact, answered, faults>>

\* There is a selection, or it cannot be written: the artifact is removed.
write_artifact_selection_fails(c) ==
    /\ call[c].pc = "selecting"
    /\ (run.selection # None /\ UNCHANGED failures) \/ Fails
    /\ artifact' = None
    /\ release_generation_lock
    /\ Ends(c)
    /\ UNCHANGED <<run, memory, answered, overtakes>>

----------------------------------------------------------------------------
(* _run_review_packet: it takes the review-lock only, and only to write *)

review_packet(c, p) ==
    /\ call[c].pc = "idle"
    /\ load_bound_run /\ ~run.consumed /\ read_trusted_evaluations_strict
    /\ call' = [call EXCEPT ![c] = [Idle EXCEPT !.pc = "reviewing", !.process = p,
                                                 !.seen = run.attempts]]
    /\ UNCHANGED <<run, lock, artifact, memory, answered, faults>>

\* Mutant: the marker is not looked at again under the lock.
take_review_lock_once(c) ==
    /\ call[c].pc = "reviewing"
    /\ IF run.reviewLock \/ ~run.dir
         THEN Ends(c) /\ UNCHANGED run
         ELSE /\ run' = [run EXCEPT !.reviewLock = TRUE]
              /\ call' = [call EXCEPT ![c].pc = "review_locked"]
    /\ UNCHANGED <<lock, artifact, memory, answered, faults>>

\* A run whose lock is taken, or whose marker has appeared, is left alone.
take_review_lock(c) ==
    /\ call[c].pc = "reviewing"
    /\ IF run.reviewLock \/ run.consumed \/ ~run.dir
         THEN Ends(c) /\ UNCHANGED run
         ELSE /\ run' = [run EXCEPT !.reviewLock = TRUE]
              /\ call' = [call EXCEPT ![c].pc = "review_locked"]
    /\ UNCHANGED <<lock, artifact, memory, answered, faults>>

write_review_result(c) ==
    /\ call[c].pc = "review_locked"
    /\ \/ /\ run' = [run EXCEPT !.result = call[c].seen]
          /\ call' = [call EXCEPT ![c].pc = "result_written"]
          /\ UNCHANGED failures
       \/ /\ Fails
          /\ run' = [run EXCEPT !.reviewLock = FALSE]
          /\ Ends(c)
    /\ UNCHANGED <<lock, artifact, memory, answered, overtakes>>

\* The lock file becomes the marker.
consume_run(c) ==
    /\ call[c].pc = "result_written"
    /\ \/ /\ run' = [run EXCEPT !.reviewLock = FALSE, !.consumed = TRUE]
          /\ UNCHANGED failures
       \/ /\ Fails
          /\ run' = [run EXCEPT !.reviewLock = FALSE, !.result = None]
    /\ Ends(c)
    /\ UNCHANGED <<lock, artifact, memory, answered, overtakes>>

----------------------------------------------------------------------------
(* Delivery and cleanup *)

\* Every file was exported and the share published.
mark_final_build_delivery_complete ==
    /\ artifact # None /\ ~artifact.delivered
    /\ artifact' = [artifact EXCEPT !.delivered = TRUE]
    /\ UNCHANGED <<run, lock, call, memory, answered, faults>>

\* Mutant: the selection receipt is not asked for.
remove_run_unselected(p) ==
    /\ artifact # None /\ artifact.delivered
    /\ run.dir /\ run.consumed
    /\ run' = NoRun /\ lock' = None
    /\ memory' = [memory EXCEPT ![p] = [i \in Index |-> None]]
    /\ UNCHANGED <<artifact, call, answered, faults>>

\* A delivered, reviewed and selected run is removed.
remove_run(p) ==
    /\ artifact # None /\ artifact.delivered
    /\ run.dir /\ run.consumed /\ run.selection # None
    /\ run' = NoRun /\ lock' = None
    /\ memory' = [memory EXCEPT ![p] = [i \in Index |-> None]]
    /\ UNCHANGED <<artifact, call, answered, faults>>

\* Its removal fails on a file in use: some of the others are gone.
remove_run_fails(p) ==
    /\ artifact # None /\ artifact.delivered
    /\ run.dir /\ run.consumed /\ run.selection # None
    /\ Fails
    /\ \E left \in SUBSET DOMAIN run :
           run' = [f \in DOMAIN run |->
                       IF f \in left \cup {"dir"} THEN run[f] ELSE NoRun[f]]
    /\ lock' \in {lock, None}
    /\ memory' = [memory EXCEPT ![p] = [i \in Index |-> None]]
    /\ UNCHANGED <<artifact, call, answered, overtakes>>

\* Then the artifact; a cleanup that stopped between the two resumes here.
remove_artifact ==
    /\ artifact # None /\ artifact.delivered /\ ~run.dir
    /\ artifact' = None
    /\ UNCHANGED <<run, lock, call, memory, answered, faults>>

----------------------------------------------------------------------------

\* A server process dies: its calls, snapshots and nothing else.
crash(p) ==
    /\ Fails
    /\ lock' = IF lock \in Calls /\ call[lock].process = p THEN Dead ELSE lock
    /\ call' = [c \in Calls |-> IF call[c].process = p THEN Idle ELSE call[c]]
    /\ memory' = [memory EXCEPT ![p] = [i \in Index |-> None]]
    /\ UNCHANGED <<run, artifact, answered, overtakes>>

Step(c) ==
    \/ \E p \in Processes : evaluate_generation_candidate(c, p) \/ review_packet(c, p)
    \/ \E p \in Processes, i \in Index, regressed, reason \in BOOLEAN :
           save_final_build_artifact(c, p, i, regressed, reason)
    \/ begin_judging(c) \/ evaluation_refused(c)
    \/ \E b \in Builds, passed \in BOOLEAN : write_attempt(c, b, passed)
    \/ evaluation_not_recorded(c) \/ write_latest(c) \/ write_latest_fails(c)
    \/ publish_artifact(c) \/ write_artifact_selection(c) \/ write_artifact_selection_fails(c)
    \/ take_review_lock(c) \/ write_review_result(c) \/ consume_run(c)
    \/ rejected(c) \/ rejected_after_takeover(c)

Next ==
    \/ \E c \in Calls : Step(c)
    \/ mark_final_build_delivery_complete \/ remove_artifact
    \/ \E p \in Processes : remove_run(p) \/ remove_run_fails(p) \/ crash(p)
    \/ \E p \in Processes, i \in Index : evict(p, i)

Spec == Init /\ [][Next]_vars

----------------------------------------------------------------------------
(* Properties *)

\* save_final_build_artifact persists "exactly one hard-valid, unchanged PoB
\* snapshot": until the run is cleaned up, the artifact is the very build that
\* the receipt of its attempt passed, whatever crashed, failed to be written or
\* overtook; and the selection receipt never names another artifact or none.
ArtifactBacked ==
    /\ artifact # None /\ ~artifact.delivered /\ run.manifest =>
           run.attempts[artifact.index] =
               [index |-> artifact.index, build |-> artifact.build, passed |-> TRUE]
    /\ run.selection # None /\ run.manifest =>
           /\ artifact # None
           /\ run.selection = [index |-> artifact.index, build |-> artifact.build,
                                outcome |-> artifact.outcome]

\* The stores of a run are well formed and its artifacts backed.
RunSound == TypeOK /\ ArtifactBacked

\* Once the selection receipt is there no receipt appears or changes: the lock
\* evaluation and save share is there "to freeze the attempt chain"
\* (run_store.py).  It does, as long as no call outlives the lease of its lock:
\* an evaluation that a save has overtaken still writes its receipt.
ChainFrozenInLease ==
    [][run.selection # None /\ overtakes' = 0 =>
           \A i \in Index : run'.attempts[i] # run.attempts[i] => run'.attempts[i] = None]_vars

\* A review reads the chain without the lock, yet reports no attempt whose
\* evaluation was not answered (as long as no call outlives its lease): the
\* strict read refuses a receipt that the latest one has not followed.
ReviewReportsAnswered ==
    overtakes = 0 /\ run.result # None =>
        \A i \in Index : run.result[i] # None => i \in answered

\* A consumed run keeps its review: a second reviewer that read the run before
\* it was consumed cannot replace the result.
ReviewOnce == [][run.consumed /\ run'.consumed => run'.result \in {run.result, None}]_vars

\* Cleanup takes no lock, yet no call is past its lock when the run's directory
\* is removed, so that none of them brings it back: only a selected run is
\* removed, and what is selected under the lock nothing else works on.
CleanupAlone ==
    overtakes = 0 /\ ~run.dir =>
        /\ run = NoRun
        /\ \A c \in Calls : call[c].pc \in {"idle", "bound", "reviewing"}
=============================================================================
