---------------------------- MODULE ResearchQueue ----------------------------
(***************************************************************************)
(* The research queues of scripts/research_mature_builds.py, the intake    *)
(* ledger (server/knowledge/research_intake_ledger.py) that reserves a     *)
(* character for the run that collected it, and the write receipt by which *)
(* research memory (server/knowledge/research_memory.py) knows that a case *)
(* is already in it.  A case is collected, leased to a researcher, its     *)
(* review saved and accepted: memory, ledger and queue are three databases *)
(* updated one after the other.  Calls run in several processes, and any   *)
(* of them may fail between two of its writes.                             *)
(*                                                                         *)
(* Acceptance and cleanup hold one lock for the whole memory; claim,       *)
(* collection and the saving of a review do not take it.  A review is a    *)
(* model value and stands for its hash; the packet's hash does not change. *)
(* A run whose retention has expired is one that nobody claims from any    *)
(* more and that is cleaned up as if it were abandoned.                    *)
(***************************************************************************)
EXTENDS Integers, FiniteSets

CONSTANTS Calls,          \* calls that may be in progress at once
          Runs, Characters,
          LastCase,       \* cases are 1 .. LastCase, in the order of their ids
          RunOf,          \* the run each case is collected for
          CharacterOf,    \* the character each case studies
          Reviews,        \* what a researcher may write
          Workers,        \* requestedWorkerCount
          MaxLeases,      \* bound: claims of one case
          MaxFailures,    \* bound: calls that fail between two writes
          None, Skeleton  \* no value; the review file that init_review makes

Case == 1 .. LastCase
Lease == 1 .. MaxLeases

Attempt == [review : Reviews \cup {Skeleton}, origin : {"claimed", "acceptance_rejected"}]
Reservation == [owner : Case, status : {"queued", "accepted"}]

ASSUME ResearchConstants ==
    /\ LastCase \in Nat \ {0} /\ MaxLeases \in Nat \ {0}
    /\ Workers \in Nat \ {0} /\ MaxFailures \in Nat
    /\ RunOf \in [Case -> Runs] /\ CharacterOf \in [Case -> Characters]
    /\ None \notin Reviews \cup Calls \cup Runs \cup Attempt \cup Reservation \cup {Skeleton}
    /\ Skeleton \notin Reviews

VARIABLES queue,          \* each case's row in its run's queue
          files,          \* review files, one for each lease of a case
          directory,      \* each run's directory
          ledger,         \* intake_records: each character's row
          receipt,        \* write receipts of research memory
          lock,           \* the accept lock of the memory
          call,           \* each call: where it is and what it has read
          interrupted,    \* (history) runs whose cleanup a crash cut short
          failures

vars == <<queue, files, directory, ledger, receipt, lock, call, interrupted,
          failures>>
faults == <<interrupted, failures>>

Row == [status : {"absent", "registered", "recovery", "queued", "claimed", "accepting",
                  "accepted", "acceptance_rejected", "gone"},
        lease : 0 .. MaxLeases, live : BOOLEAN, leases : 0 .. MaxLeases,
        attempt : Attempt \cup {None}]
CallState == [pc : {"idle", "saving", "read", "begun", "committed", "finalized",
                    "releasing", "removing"},
              case : 0 .. LastCase, file : 0 .. MaxLeases, attempt : Attempt \cup {None},
              run : Runs \cup {None}, todo : SUBSET Case, released : SUBSET Case]

NewRow == [status |-> "absent", lease |-> 0, live |-> FALSE, leases |-> 0, attempt |-> None]
Idle == [pc |-> "idle", case |-> 0, file |-> 0, attempt |-> None,
         run |-> None, todo |-> {}, released |-> {}]

TypeOK ==
    /\ queue \in [Case -> Row]
    /\ \A k \in Case :
        /\ queue[k].lease <= queue[k].leases
        /\ queue[k].live => queue[k].lease # 0
        /\ queue[k].status \in {"claimed", "accepting"} =>
               queue[k].lease # 0 \/ queue[k].attempt.origin = "acceptance_rejected"
    /\ files \in [Case -> [Lease -> Reviews \cup {Skeleton, None}]]
    /\ directory \in [Runs -> {"present", "staged", "removed"}]
    /\ ledger \in [Characters -> Reservation \cup {None}]
    /\ receipt \in [Case -> Attempt \cup {None}]
    /\ lock \in Calls \cup {None}
    /\ call \in [Calls -> CallState]
    /\ interrupted \subseteq Runs /\ failures \in 0 .. MaxFailures

Init ==
    /\ queue = [k \in Case |-> NewRow]
    /\ files = [k \in Case |-> [t \in Lease |-> None]]
    /\ directory = [r \in Runs |-> "present"]
    /\ ledger = [h \in Characters |-> None]
    /\ receipt = [k \in Case |-> None]
    /\ lock = None
    /\ call = [c \in Calls |-> Idle]
    /\ interrupted = {} /\ failures = 0

\* _connect_queue: the run's queue is where its calls look for it.
Open(k) == directory[RunOf[k]] = "present"

Status(k, s) == queue' = [queue EXCEPT ![k].status = s]
Ends(c) == call' = [call EXCEPT ![c] = Idle]
Unlocks(c) == lock' = IF lock = c THEN None ELSE lock
Fails == failures < MaxFailures /\ failures' = failures + 1

----------------------------------------------------------------------------
(* Collection: _insert_online_case_with_intake, under the league's lock.  *)

Collecting == \E k \in Case : queue[k].status = "registered"

\* The character is in nobody's ledger row; the run's own is recorded.
record_case(k) ==
    /\ queue[k].status = "absent" /\ Open(k) /\ ~Collecting
    /\ ledger[CharacterOf[k]] = None
    /\ ledger' = [ledger EXCEPT ![CharacterOf[k]] = [owner |-> k, status |-> "queued"]]
    /\ Status(k, "registered")
    /\ UNCHANGED <<files, directory, receipt, lock, call, faults>>

insert_case(k) ==
    /\ queue[k].status = "registered" /\ Open(k)
    /\ Status(k, "queued")
    /\ UNCHANGED <<files, directory, ledger, receipt, lock, call, faults>>

\* Mutant: the row is looked for by its character, whoever recorded it.
Owns_by_character(k) ==
    ledger[CharacterOf[k]] # None /\ ledger[CharacterOf[k]].status = "queued"

\* The ledger row that case k recorded, if it is still there and only queued.
Owns(k) == ledger[CharacterOf[k]] = [owner |-> k, status |-> "queued"]

\* The ledger after case k's registration is released: only its own row goes.
release_queued_case(k) ==
    IF Owns(k) THEN [ledger EXCEPT ![CharacterOf[k]] = None] ELSE ledger

\* The insert fails: the row is released again, or it is left (the process
\* died, the queue is gone) or left with a note in the run's metadata.
insert_case_fails(k) ==
    /\ queue[k].status = "registered" /\ Fails
    /\ \/ Open(k) /\ Status(k, "gone") /\ ledger' = release_queued_case(k)
       \/ Status(k, "gone") /\ UNCHANGED ledger
       \/ Open(k) /\ Status(k, "recovery") /\ UNCHANGED ledger
    /\ UNCHANGED <<files, directory, receipt, lock, call, interrupted>>

----------------------------------------------------------------------------
(* Leases *)

Active(k) == queue[k].status = "accepting" \/ (queue[k].status = "claimed" /\ queue[k].live)
Claimable(k) == queue[k].status = "queued" \/ (queue[k].status = "claimed" /\ ~queue[k].live)
CasesOf(r) == {k \in Case : RunOf[k] = r}
NotInUse(r) == \A c \in Calls : call[c].run # r      \* no cleanup holds the run lock

\* The run's first claimable case, if a worker is free; the run lock keeps a
\* cleanup of the same run out.
Offered(k) ==
    /\ Open(k) /\ NotInUse(RunOf[k])
    /\ Cardinality({j \in CasesOf(RunOf[k]) : Active(j)}) < Workers
    /\ Claimable(k) /\ \A j \in CasesOf(RunOf[k]) : Claimable(j) => k <= j

\* The offered case gets a new token.
claim_case(k) ==
    /\ Offered(k) /\ queue[k].leases < MaxLeases
    /\ LET token == queue[k].leases + 1 IN
       queue' = [queue EXCEPT ![k] = [@ EXCEPT !.status = "claimed", !.live = TRUE,
                                          !.lease = token, !.leases = token]]
    /\ UNCHANGED <<files, directory, ledger, receipt, lock, call, faults>>

\* Its packet cannot be made: the case is queued again, without a lease.
claim_packet_failed(k) ==
    /\ Offered(k) /\ queue[k].status = "claimed"
    /\ queue' = [queue EXCEPT ![k] = [@ EXCEPT !.status = "queued", !.lease = 0]]
    /\ UNCHANGED <<files, directory, ledger, receipt, lock, call, faults>>

\* The lease's time passes, whatever the case is in.
expire_lease(k) ==
    /\ queue[k].live
    /\ queue' = [queue EXCEPT ![k].live = FALSE]
    /\ UNCHANGED <<files, directory, ledger, receipt, lock, call, faults>>

ValidLease(k) == Open(k) /\ queue[k].status = "claimed" /\ queue[k].live

\* A review file is made for the lease, unless it is there.
init_review(k) ==
    /\ ValidLease(k) /\ files[k][queue[k].lease] = None
    /\ files' = [files EXCEPT ![k][queue[k].lease] = Skeleton]
    /\ UNCHANGED <<queue, directory, ledger, receipt, lock, call, faults>>

ReviewFiles(k) == {t \in Lease : files[k][t] # None}

\* The row is looked at: a valid lease for save_review_payload, a rejected case
\* with one review file for save_rejected_review_payload.  (With an attempt in
\* flight both only compare the review with it.)
save_review_payload(c, k, r) ==
    /\ call[c].pc = "idle"
    /\ \E t \in ReviewFiles(k) :
        /\ \/ ValidLease(k) /\ t = queue[k].lease
           \/ Open(k) /\ queue[k].status = "acceptance_rejected" /\ ReviewFiles(k) = {t}
        /\ call' = [call EXCEPT ![c] = [Idle EXCEPT !.pc = "saving", !.case = k, !.file = t,
                        !.attempt = [review |-> r, origin |-> "claimed"]]]
    /\ UNCHANGED <<queue, files, directory, ledger, receipt, lock, faults>>

\* ... and the file is replaced, whatever has become of the case since.
replace_review(c) ==
    /\ call[c].pc = "saving"
    /\ files' = IF Open(call[c].case)
                THEN [files EXCEPT ![call[c].case][call[c].file] = call[c].attempt.review]
                ELSE files
    /\ Ends(c)
    /\ UNCHANGED <<queue, directory, ledger, receipt, lock, faults>>

----------------------------------------------------------------------------
(* Acceptance *)

\* The review that a call submits is read before the lock is taken: accept_case
\* reads the lease's file, retry_accept_case any file of a rejected case.
Submits(c, k, t, origin) ==
    /\ call[c].pc = "idle" /\ t \in ReviewFiles(k)
    /\ call' = [call EXCEPT ![c] = [Idle EXCEPT !.pc = "read", !.case = k, !.file = t,
                    !.attempt = [review |-> files[k][t], origin |-> origin]]]
    /\ UNCHANGED <<queue, files, directory, ledger, receipt, lock, faults>>

accept_case(c, k) == ValidLease(k) /\ Submits(c, k, queue[k].lease, "claimed")

retry_accept_case(c, k, t) ==
    /\ Open(k) /\ queue[k].status = "acceptance_rejected"
    /\ Submits(c, k, t, "acceptance_rejected")

\* A submitted review is refused, or its row is not what it was.
rejected(c) ==
    /\ call[c].pc = "read"
    /\ Ends(c)
    /\ UNCHANGED <<queue, files, directory, ledger, receipt, lock, faults>>

\* The row goes to accepting if it is still the lease's (_begin_accepting) or
\* still rejected (_begin_retry_accepting); the lock is held from here on.
begin_accepting(c) ==
    LET k == call[c].case IN
    /\ call[c].pc = "read" /\ lock = None
    /\ IF call[c].attempt.origin = "claimed"
       THEN ValidLease(k) /\ queue[k].lease = call[c].file
       ELSE Open(k) /\ queue[k].status = "acceptance_rejected"
    /\ queue' = [queue EXCEPT ![k] = [@ EXCEPT !.status = "accepting",
                                          !.attempt = call[c].attempt]]
    /\ lock' = c
    /\ call' = [call EXCEPT ![c].pc = "begun"]
    /\ UNCHANGED <<files, directory, ledger, receipt, faults>>

\* One transaction of research memory writes the case's knowledge and its
\* receipt; with the receipt there, it writes nothing and says the same.
accept_research_unit(c) ==
    LET k == call[c].case IN
    /\ call[c].pc = "begun" /\ call[c].attempt.review # Skeleton
    /\ receipt[k] \in {None, call[c].attempt}
    /\ receipt' = [receipt EXCEPT ![k] = call[c].attempt]
    /\ call' = [call EXCEPT ![c].pc = "committed"]
    /\ UNCHANGED <<queue, files, directory, ledger, lock, faults>>

\* The review is refused under the lock: the case is rejected, its lease ends.
acceptance_rejected(c) ==
    /\ call[c].pc = "begun"
    /\ queue' = [queue EXCEPT ![call[c].case] = [@ EXCEPT !.status = "acceptance_rejected",
                                                 !.lease = 0, !.live = FALSE]]
    /\ Unlocks(c) /\ Ends(c)
    /\ UNCHANGED <<files, directory, ledger, receipt, faults>>

\* Mutant: the exception is taken for a proof that nothing was written.
finish_accepting_after_any_exception(c) ==
    /\ call[c].pc \in {"begun", "committed"} /\ Fails
    /\ Status(call[c].case, call[c].attempt.origin)
    /\ Unlocks(c) /\ Ends(c)
    /\ UNCHANGED <<files, directory, ledger, receipt, interrupted>>

\* An exception before the commit: the row goes back to where it was.
finish_accepting_after_exception(c) ==
    /\ call[c].pc = "begun" /\ Fails
    /\ receipt[call[c].case] # call[c].attempt
    /\ Status(call[c].case, call[c].attempt.origin)
    /\ Unlocks(c) /\ Ends(c)
    /\ UNCHANGED <<files, directory, ledger, receipt, interrupted>>

\* The character's ledger row becomes accepted, and is made again if it is gone.
finalize_accepted(c) ==
    LET k == call[c].case
        h == CharacterOf[k] IN
    /\ call[c].pc = "committed"
    /\ ledger' = [ledger EXCEPT ![h] =
                      [owner |-> IF @ = None THEN k ELSE @.owner, status |-> "accepted"]]
    /\ call' = [call EXCEPT ![c].pc = "finalized"]
    /\ UNCHANGED <<queue, files, directory, receipt, lock, faults>>

\* The row becomes accepted; an accepted lease keeps its token, for the replay.
accepted(c) ==
    /\ call[c].pc = "finalized"
    /\ LET k == call[c].case
           token == IF call[c].attempt.origin = "claimed" THEN queue[k].lease ELSE 0
       IN  queue' = [queue EXCEPT ![k] = [@ EXCEPT !.status = "accepted", !.lease = token,
                                                   !.live = FALSE]]
    /\ Unlocks(c) /\ Ends(c)
    /\ UNCHANGED <<files, directory, ledger, receipt, faults>>

----------------------------------------------------------------------------
(* Recovery of an attempt that ended between two of its writes *)

\* The accept or the retry is made again, with the review of the attempt in
\* the file it names; any other review is refused.
Replayed(k) ==
    /\ lock = None /\ Open(k) /\ queue[k].status = "accepting"
    /\ \E t \in ReviewFiles(k) :
        /\ files[k][t] = queue[k].attempt.review
        /\ queue[k].attempt.origin = "claimed" => t = queue[k].lease

\* No receipt: nothing was written, and the row goes back to where it was.
recover_uncommitted(k) ==
    /\ Replayed(k) /\ receipt[k] = None
    /\ Status(k, queue[k].attempt.origin)
    /\ UNCHANGED <<files, directory, ledger, receipt, lock, call, faults>>

\* The attempt's receipt: ledger and queue are brought up to it.
recover_committed(c, k) ==
    /\ call[c].pc = "idle" /\ Replayed(k) /\ receipt[k] = queue[k].attempt
    /\ lock' = c
    /\ call' = [call EXCEPT ![c] = [Idle EXCEPT !.pc = "committed", !.case = k,
                                        !.attempt = queue[k].attempt]]
    /\ UNCHANGED <<queue, files, directory, ledger, receipt, faults>>

----------------------------------------------------------------------------
(* cleanup_completed_run, under the accept lock and the run lock *)

\* A run that an interrupted removal left in the staging directory comes back.
restore_staged(r) ==
    /\ lock = None /\ directory[r] = "staged"
    /\ directory' = [directory EXCEPT ![r] = "present"]
    /\ UNCHANGED <<queue, files, ledger, receipt, lock, call, faults>>

Rows(r) == {k \in CasesOf(r) : queue[k].status \notin {"absent", "registered", "recovery", "gone"}}
Unreleased(r) == {k \in CasesOf(r) : queue[k].status \in
                      {"recovery", "queued", "claimed", "acceptance_rejected"}}

Cleans(c, r) ==
    /\ call[c].pc = "idle" /\ lock = None
    /\ directory[r] = "present"
    /\ lock' = c

\* A run nobody works on is abandoned, or its retention has expired: what it
\* has reserved is to be released first.
abandon_incomplete(c, r) ==
    /\ Cleans(c, r) /\ \A k \in CasesOf(r) : ~Active(k)
    /\ call' = [call EXCEPT ![c] = [Idle EXCEPT !.pc = "releasing", !.run = r,
                                        !.todo = Unreleased(r)]]
    /\ UNCHANGED <<queue, files, directory, ledger, receipt, faults>>

\* A run is complete: every case accepted or, if the caller allows it, rejected.
\* A removal that failed before is tried again under the same conditions.
cleanup_completed_run(c, r) ==
    /\ Cleans(c, r)
    /\ \A k \in CasesOf(r) : queue[k].status # "recovery"
    /\ \A k \in Rows(r) : queue[k].status \in {"accepted", "acceptance_rejected"}
    /\ \E k \in Rows(r) : queue[k].status = "accepted"
    /\ call' = [call EXCEPT ![c] = [Idle EXCEPT !.pc = "releasing", !.run = r]]
    /\ UNCHANGED <<queue, files, directory, ledger, receipt, faults>>

Foreign(k) == /\ ledger[CharacterOf[k]] # None /\ ~Owns(k)
              /\ ledger[CharacterOf[k]].status = "queued"

\* _release_abandoned_intake_rows, one row at a time, in the queue's order.
release_abandoned_intake_row(c) ==
    \E k \in call[c].todo :
        /\ call[c].pc = "releasing"
        /\ \A j \in call[c].todo : k <= j
        /\ ~Foreign(k)
        /\ ledger' = release_queued_case(k)
        /\ call' = [call EXCEPT ![c].todo = @ \ {k},
                                ![c].released = IF Owns(k) THEN @ \cup {k} ELSE @]
        /\ UNCHANGED <<queue, files, directory, receipt, lock, faults>>

\* The ledger with the rows of cases S put back where nobody has taken them.
restore_released_intake_rows(S) ==
    [h \in Characters |->
        IF ledger[h] = None /\ \E k \in S : CharacterOf[k] = h
        THEN [owner |-> CHOOSE k \in S : CharacterOf[k] = h, status |-> "queued"]
        ELSE ledger[h]]

\* A row is another run's by now: nothing is removed.
release_refused(c) ==
    /\ call[c].pc = "releasing"
    /\ \E k \in call[c].todo : (\A j \in call[c].todo : k <= j) /\ Foreign(k)
    /\ ledger' = restore_released_intake_rows(call[c].released)
    /\ Unlocks(c) /\ Ends(c)
    /\ UNCHANGED <<queue, files, directory, receipt, faults>>

\* _delete_run_directory: the directory is moved aside ...
stage_run(c) ==
    /\ call[c].pc = "releasing" /\ call[c].todo = {}
    /\ directory' = [directory EXCEPT ![call[c].run] = "staged"]
    /\ call' = [call EXCEPT ![c].pc = "removing"]
    /\ UNCHANGED <<queue, files, ledger, receipt, lock, faults>>

\* ... and removed, with its queue and its reviews.
remove_run(c) ==
    /\ call[c].pc = "removing"
    /\ directory' = [directory EXCEPT ![call[c].run] = "removed"]
    /\ queue' = [k \in Case |-> IF k \in CasesOf(call[c].run) /\ queue[k].status # "registered"
                                THEN [NewRow EXCEPT !.status = "gone"] ELSE queue[k]]
    /\ files' = [k \in Case |-> IF k \in CasesOf(call[c].run)
                                THEN [t \in Lease |-> None] ELSE files[k]]
    /\ Unlocks(c) /\ Ends(c)
    /\ UNCHANGED <<ledger, receipt, faults>>

\* Mutant: a removal that fails leaves the released rows released.
delete_run_directory_unrestored(c) ==
    /\ call[c].pc = "removing" /\ Fails
    /\ directory' = [directory EXCEPT ![call[c].run] = "present"]
    /\ Unlocks(c) /\ Ends(c)
    /\ UNCHANGED <<queue, files, ledger, receipt, interrupted>>

\* The directory cannot be moved or removed: it is moved back with its queue,
\* if that works, and the released rows are restored.
delete_run_directory_fails(c) ==
    /\ \/ call[c].pc = "releasing" /\ call[c].todo = {} /\ UNCHANGED directory
       \/ call[c].pc = "removing" /\ UNCHANGED directory
       \/ call[c].pc = "removing"
          /\ directory' = [directory EXCEPT ![call[c].run] = "present"]
    /\ Fails
    /\ ledger' = restore_released_intake_rows(call[c].released)
    /\ Unlocks(c) /\ Ends(c)
    /\ UNCHANGED <<queue, files, receipt, interrupted>>

----------------------------------------------------------------------------
\* A call that holds the lock dies, or fails after the commit: the lock is
\* free again, and what it has written stays.
crash(c) ==
    /\ lock = c /\ Fails
    /\ interrupted' = interrupted \cup ({call[c].run} \ {None})
    /\ Unlocks(c) /\ Ends(c)
    /\ UNCHANGED <<queue, files, directory, ledger, receipt>>

Next ==
    \/ \E k \in Case :
        \/ record_case(k) \/ insert_case(k) \/ insert_case_fails(k)
        \/ claim_case(k) \/ claim_packet_failed(k) \/ expire_lease(k) \/ init_review(k)
        \/ recover_uncommitted(k)
        \/ \E c \in Calls :
            \/ \E r \in Reviews : save_review_payload(c, k, r)
            \/ accept_case(c, k) \/ recover_committed(c, k)
            \/ \E t \in Lease : retry_accept_case(c, k, t)
    \/ \E r \in Runs :
        \/ restore_staged(r)
        \/ \E c \in Calls : abandon_incomplete(c, r) \/ cleanup_completed_run(c, r)
    \/ \E c \in Calls :
        \/ replace_review(c) \/ rejected(c) \/ begin_accepting(c)
        \/ accept_research_unit(c) \/ acceptance_rejected(c)
        \/ finish_accepting_after_exception(c)
        \/ finalize_accepted(c) \/ accepted(c)
        \/ release_abandoned_intake_row(c) \/ release_refused(c)
        \/ stage_run(c) \/ remove_run(c) \/ delete_run_directory_fails(c)
        \/ crash(c)

Spec == Init /\ [][Next]_vars

----------------------------------------------------------------------------
(* Properties *)

\* The row an acceptance works on stays in its attempt until that acceptance
\* ends: no claim, recovery, save or cleanup takes it away meanwhile.
AttemptInFlight ==
    \A c \in Calls : call[c].pc \in {"begun", "committed", "finalized"} =>
        /\ lock = c
        /\ queue[call[c].case].status = "accepting"
        /\ queue[call[c].case].attempt = call[c].attempt

AcceptedInLedger(k) ==
    /\ ledger[CharacterOf[k]] # None
    /\ ledger[CharacterOf[k]].status = "accepted"

\* What memory, ledger and queue say of a case agrees, however often its
\* acceptance was cut short, replayed or retried: a receipt belongs to the
\* attempt the row names, which is in flight or accepted, so that a second
\* review is never written over it; and a case is accepted only with its
\* receipt and with its character accepted in the ledger.  Nor is a run removed
\* with knowledge in memory that the ledger does not know of, for which the
\* character would be researched again.
StoresAgree ==
    /\ AttemptInFlight
    /\ \A k \in Case :
        /\ receipt[k] # None /\ directory[RunOf[k]] = "removed" => AcceptedInLedger(k)
        /\ receipt[k] # None /\ queue[k].status # "gone" =>
               /\ queue[k].status \in {"accepting", "accepted"}
               /\ queue[k].attempt = receipt[k]
        /\ queue[k].status = "accepted" => receipt[k] # None /\ AcceptedInLedger(k)

\* The rows of all three stores are well formed and agree.
QueueSound == TypeOK /\ StoresAgree

\* A reservation is dropped only by the collection that made it or by the
\* cleanup of its run, and accepted history is never undone.
ReservationOfRun ==
    [][\A h \in Characters : ledger[h] # None /\ ledger'[h] # ledger[h] =>
        /\ ledger[h].status = "queued"
        /\ \/ ledger'[h] # None /\ ledger'[h].status = "accepted" /\ ledger'[h].owner = ledger[h].owner
           \/ /\ ledger'[h] = None
              /\ \/ queue[ledger[h].owner].status = "registered"
                 \/ ~NotInUse(RunOf[ledger[h].owner])]_vars

\* While a run is there its unfinished cases keep their characters reserved: a
\* cleanup that could not remove it has put back what it had released.  (Not
\* if the cleanup died, or if another run has collected the character since.)
ReservationKept ==
    \A k \in Case :
        /\ queue[k].status \in {"queued", "claimed", "accepting", "acceptance_rejected"}
        /\ Open(k) /\ NotInUse(RunOf[k]) /\ RunOf[k] \notin interrupted
        /\ \A j \in Case \ {k} : CharacterOf[j] = CharacterOf[k] => queue[j].status = "absent"
        => ledger[CharacterOf[k]] # None /\ ledger[CharacterOf[k]].owner = k
=============================================================================
