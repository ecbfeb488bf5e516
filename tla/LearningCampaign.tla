-------------------------- MODULE LearningCampaign --------------------------
(***************************************************************************)
(* server/learning/service.py: a campaign that works through reference     *)
(* builds one at a time.  Each case goes through five phases (profile,     *)
(* create, compare, learn, rereview), each claimed by an external agent    *)
(* that then submits its result.  The agent that creates must not be the   *)
(* one that has seen the reference.                                        *)
(*                                                                         *)
(* The campaign is one JSON file, read, checked and replaced under a file  *)
(* lock, so a call is one action; a write that fails changes nothing.      *)
(* Every mutating call names an operation id and the revision it expects.  *)
(* Answers get lost and calls arrive late or again: `late` is one such     *)
(* call.  Of revision and claim it keeps what is compared, whether they    *)
(* are the current ones (neither ever comes back), and of the log of       *)
(* operations how many were logged after its own.                          *)
(***************************************************************************)
EXTENDS LearningMemory

CONSTANTS Bindings,      \* the <<task, thread>> pairs that agents work under
          Sources,       \* reference builds
          CaseLimit,     \* cases of a campaign (10)
          LogLimit       \* operations the log keeps (200)

Case == 1 .. CaseLimit
Phases == <<"profile", "create", "compare", "learn", "rereview">>
Phase == {Phases[n] : n \in 1 .. 5}

ASSUME CampaignConstants ==
    /\ CaseLimit \in Nat \ {0} /\ LogLimit \in Nat \ {0}
    /\ None \notin Bindings

VARIABLES status,        \* the campaign's status
          active,        \* activeCaseId, or 0
          cases,         \* the cases, in the order of their ordinals
          late,          \* a call whose answer was lost or that is under way
          loaded         \* (history) for each case the threads that loaded its reference

vars == <<memoryVars, status, active, cases, late, loaded>>

\* A case is at a phase, which is pending, running or failed; or the case is
\* paused or completed in it.
NewCase(s) == [at |-> "profile", state |-> "pending", source |-> s, claim |-> FALSE,
               profileComparator |-> None, create |-> None, target |-> FALSE,
               receipt |-> FALSE, consumed |-> FALSE, generated |-> FALSE,
               comparison |-> FALSE, terminal |-> FALSE]

CaseRecord ==
    [at : Phase, state : {"pending", "running", "failed", "paused", "completed"},
     source : Sources, claim : BOOLEAN,
     profileComparator : Bindings \cup {None}, create : Bindings \cup {None},
     target : BOOLEAN, receipt : BOOLEAN, consumed : BOOLEAN, generated : BOOLEAN,
     comparison : BOOLEAN, terminal : BOOLEAN]

\* Calls that name no claim, and those that an agent makes under its claim.
Plain == {"intake_case", "discard", "retry", "pause", "resume"}
Claimed == {"submit_profile", "query_memory", "submit_create", "submit_comparison",
            "complete_learning", "submit_rereview", "fail_phase"}
Call == [name : Plain \cup Claimed \cup {"claim_phase"}, case : 0 .. CaseLimit,
         phase : Phase \cup {None}, by : Bindings \cup {None}]

TypeOK ==
    /\ MemoryTypeOK
    /\ status \in {"active", "paused", "completed"}
    /\ cases \in Seq(CaseRecord) /\ Len(cases) <= CaseLimit /\ active \in 0 .. Len(cases)
    /\ late = None \/ late \in [call : Call, current : BOOLEAN, claimed : BOOLEAN,
                                applied : 0 .. 2, age : 0 .. LogLimit]
    /\ loaded \in [Case -> SUBSET {b[2] : b \in Bindings}]

\* A case whose build was of another family.
Failed(s, b, d) ==
    [NewCase(s) EXCEPT !.at = "create", !.state = "failed", !.target = TRUE, !.consumed = TRUE,
                       !.terminal = TRUE, !.profileComparator = b, !.create = d]

\* A new campaign, or one that an earlier release left with a second intake of
\* a build it already has.
Init ==
    /\ MemoryInit
    /\ status = "active" /\ late = None /\ loaded = [k \in Case |-> {}]
    /\ \/ cases = <<>> /\ active = 0
       \/ /\ CaseLimit > 1 /\ active = 2
          /\ \E s \in Sources, b, d \in Bindings :
                 b[1] # d[1] /\ b[2] # d[2] /\ cases = <<Failed(s, b, d), NewCase(s)>>

----------------------------------------------------------------------------
(* Delivery *)

\* Mutant: an operation that the log no longer has is taken for a new one,
\* whatever its revision.
load_for_mutation_unversioned(again) ==
    again => ~(late.applied > 0 /\ late.age < LogLimit)

\* _load_for_mutation: an operation in the log is only answered again, and any
\* other has to name the current revision.
load_for_mutation(again) ==
    again => ~(late.applied > 0 /\ late.age < LogLimit) /\ late.current

Running(cs, k) == k \in 1 .. Len(cs) /\ cs[k].claim

\* _commit: the revision changes, the operation is logged.  The call may become
\* the late one, its answer lost.  A claim that is over is never valid again.
commit(q, again) ==
    LET valid == late.claimed /\ Running(cases, late.call.case) /\ Running(cases', late.call.case) IN
    IF again
    THEN late' = [late EXCEPT !.current = FALSE, !.claimed = valid, !.applied = @ + 1, !.age = 0]
    ELSE IF late # None
    THEN late' = [late EXCEPT !.current = FALSE, !.claimed = valid,
                              !.age = IF @ < LogLimit THEN @ + 1 ELSE @]
    ELSE late' \in {None, [call |-> q, current |-> FALSE, claimed |-> Running(cases', q.case),
                           applied |-> 1, age |-> 0]}

----------------------------------------------------------------------------
(* Cases *)

Update(k, c) == cases' = [cases EXCEPT ![k] = c]
InPhase(k, p, s) == k \in 1 .. Len(cases) /\ cases[k].at = p /\ cases[k].state = s

\* case_store.intake_reference_source refuses a build the campaign has; the
\* quarantine directory it makes is only there for the case.
intake_case(q, again) ==
    /\ q.name = "intake_case" /\ load_for_mutation(again)
    /\ status = "active" /\ active = 0 /\ Len(cases) < CaseLimit
    /\ \E s \in Sources \ {cases[k].source : k \in 1 .. Len(cases)} :
           cases' = Append(cases, NewCase(s))
    /\ active' = Len(cases) + 1
    /\ commit(q, again)
    /\ UNCHANGED <<memoryVars, status, loaded>>

\* A second intake of a build is dropped before anybody has worked on it.
discard_duplicate_pending_case(q, again) ==
    /\ q.name = "discard" /\ load_for_mutation(again)
    /\ status = "active" /\ active = q.case /\ InPhase(q.case, "profile", "pending")
    /\ cases[q.case].profileComparator = None
    /\ \E k \in 1 .. Len(cases) \ {q.case} : cases[k].source = cases[q.case].source
    /\ cases' = SubSeq(cases, 1, q.case - 1) \o SubSeq(cases, q.case + 1, Len(cases))
    /\ active' = 0
    /\ commit(q, again)
    /\ UNCHANGED <<memoryVars, status, loaded>>

\* Mutant: only the task has to be another one.
CanBind_same_thread(c, p, b) ==
    CASE p = "profile" -> c.profileComparator \in {None, b}
      [] p = "create" -> /\ c.profileComparator # None /\ c.profileComparator[1] # b[1]
                         /\ c.create \in {None, b}
      [] OTHER -> c.profileComparator = b

\* _bind_task: one agent profiles, compares and learns, another one creates.
CanBind(c, p, b) ==
    CASE p = "profile" -> c.profileComparator \in {None, b}
      [] p = "create" -> /\ c.profileComparator # None
                         /\ c.profileComparator[1] # b[1] /\ c.profileComparator[2] # b[2]
                         /\ c.create \in {None, b}
      [] OTHER -> c.profileComparator = b

claim_phase(q, again) ==
    /\ q.name = "claim_phase" /\ load_for_mutation(again)
    /\ status = "active" /\ InPhase(q.case, q.phase, "pending")
    /\ LET c == cases[q.case] IN
       /\ CanBind(c, q.phase, q.by)
       /\ Update(q.case,
              [c EXCEPT !.state = "running", !.claim = TRUE,
                        !.profileComparator = IF q.phase = "profile" THEN q.by ELSE @,
                        !.create = IF q.phase = "create" THEN q.by ELSE @])
    /\ commit(q, again)
    /\ UNCHANGED <<memoryVars, status, active, loaded>>

\* _claim_error: the phase is running, under this claim and in this thread.
ClaimValid(k, p, by) ==
    /\ InPhase(k, p, "running") /\ cases[k].claim
    /\ by[2] = (IF p = "create" THEN cases[k].create ELSE cases[k].profileComparator)[2]

\* The reference goes into the agent's engine while it profiles or compares.
load_reference_into_engine(k, by) ==
    /\ \E p \in {"profile", "compare"} : ClaimValid(k, p, by)
    /\ loaded' = [loaded EXCEPT ![k] = @ \cup {by[2]}]
    /\ UNCHANGED <<memoryVars, status, active, cases, late>>

Of(q) == cases[q.case]

\* A submission under a valid claim that turns its case into one of results.
Submits(q, again, name, p, results) ==
    /\ q.name = name /\ load_for_mutation(again)
    /\ ClaimValid(q.case, p, q.by) /\ (again => late.claimed)
    /\ \E c \in results : Update(q.case, c)
    /\ commit(q, again)

Moves(c, p) == [c EXCEPT !.at = p, !.state = "pending", !.claim = FALSE]
Ends(c, s) == [c EXCEPT !.state = s, !.claim = FALSE]

\* The profile is accepted, or no family can be told from it.
submit_profile(q, again) ==
    /\ Submits(q, again, "submit_profile", "profile",
           {[Moves(Of(q), "create") EXCEPT !.target = TRUE], Ends(Of(q), "failed")})
    /\ UNCHANGED <<memoryVars, status, active, loaded>>

query_memory_for_create(q, again) ==
    /\ Submits(q, again, "query_memory", "create",
           {[Of(q) EXCEPT !.receipt = TRUE]})
    /\ lines # None
    /\ UNCHANGED <<memoryVars, status, active, loaded>>

AfterLastCase == IF Len(cases) >= CaseLimit THEN "completed" ELSE status

\* The build is of another family or level, or of none: the case is over.
submit_create_mismatch(q, again) ==
    /\ Submits(q, again, "submit_create", "create",
           {[Ends(Of(q), "failed") EXCEPT !.consumed = TRUE, !.terminal = TRUE]})
    /\ ~cases[q.case].consumed
    /\ active' = 0 /\ status' = AfterLastCase
    /\ UNCHANGED <<memoryVars, loaded>>

\* The build is accepted, with what memory was asked for before.
submit_create_result(q, again) ==
    /\ Submits(q, again, "submit_create", "create",
           {[Moves(Of(q), "compare") EXCEPT !.consumed = TRUE, !.generated = TRUE]})
    /\ ~cases[q.case].consumed /\ cases[q.case].receipt
    /\ UNCHANGED <<memoryVars, status, active, loaded>>

submit_comparison(q, again) ==
    /\ Submits(q, again, "submit_comparison", "compare",
           {[Moves(Of(q), "learn") EXCEPT !.comparison = TRUE]})
    /\ cases[q.case].target /\ cases[q.case].generated
    /\ UNCHANGED <<memoryVars, status, active, loaded>>

\* Nothing was learned: the case is complete.
complete_learning(q, again) ==
    /\ Submits(q, again, "complete_learning", "learn", {Ends(Of(q), "completed")})
    /\ active' = 0 /\ status' = AfterLastCase
    /\ UNCHANGED <<memoryVars, loaded>>

\* Something was, in memory (whose events it may name) or elsewhere: it is
\* reviewed again.
complete_learning_with_changes(q, again) ==
    /\ Submits(q, again, "complete_learning", "learn", {Moves(Of(q), "rereview")})
    /\ UNCHANGED <<memoryVars, status, active, loaded>>

\* A person has to decide something first.
PausesCase(q, again, name, p) ==
    /\ Submits(q, again, name, p, {Ends(Of(q), "paused")})
    /\ status' = "paused"
    /\ UNCHANGED <<memoryVars, active, loaded>>

complete_learning_with_backlog(q, again) == PausesCase(q, again, "complete_learning", "learn")

submit_rereview_rejected(q, again) == PausesCase(q, again, "submit_rereview", "rereview")

submit_rereview(q, again) ==
    /\ Submits(q, again, "submit_rereview", "rereview", {Ends(Of(q), "completed")})
    /\ active' = 0 /\ status' = AfterLastCase
    /\ UNCHANGED <<memoryVars, loaded>>

\* Memory is written under the claim, without operation id or revision.
LearnClaimValid(k, by) == ClaimValid(k, "learn", by) /\ cases[k].comparison

propose_memory_lesson(k, by) ==
    /\ LearnClaimValid(k, by)
    /\ \E text \in Texts, cites \in BOOLEAN : propose_lesson(text, cites)
    /\ UNCHANGED <<status, active, cases, late, loaded>>

correct_memory_lesson(k, by) ==
    /\ LearnClaimValid(k, by)
    /\ \E i \in Effective, a \in Actions, text \in Texts \cup {None}, r \in Lessons \cup {0} :
           append_correction(i, a, text, r)
    /\ UNCHANGED <<status, active, cases, late, loaded>>

\* The agent reports that it cannot finish its phase.
fail_phase(q, again) ==
    /\ \E p \in Phase : Submits(q, again, "fail_phase", p, {Ends(Of(q), "failed")})
    /\ UNCHANGED <<memoryVars, status, active, loaded>>

\* Mutant: a case that is over may be tried again.
retry_failed_phase_of_any(q, again) ==
    /\ q.name = "retry" /\ load_for_mutation(again)
    /\ q.case \in 1 .. Len(cases) /\ cases[q.case].state = "failed"
    /\ Update(q.case, [cases[q.case] EXCEPT !.state = "pending"])
    /\ commit(q, again)
    /\ UNCHANGED <<memoryVars, status, active, loaded>>

retry_failed_phase(q, again) ==
    /\ q.name = "retry" /\ load_for_mutation(again)
    /\ q.case \in 1 .. Len(cases) /\ cases[q.case].state = "failed" /\ ~cases[q.case].terminal
    /\ ~(cases[q.case].at = "create" /\ cases[q.case].consumed)
    /\ Update(q.case, [cases[q.case] EXCEPT !.state = "pending"])
    /\ commit(q, again)
    /\ UNCHANGED <<memoryVars, status, active, loaded>>

Unclaimed(c) == IF c.state = "running" THEN [c EXCEPT !.state = "pending", !.claim = FALSE] ELSE c

\* The active case's claim is taken back.
pause_campaign(q, again) ==
    /\ q.name = "pause" /\ load_for_mutation(again)
    /\ status = "active" /\ status' = "paused"
    /\ IF active = 0 THEN UNCHANGED cases ELSE Update(active, Unclaimed(cases[active]))
    /\ commit(q, again)
    /\ UNCHANGED <<memoryVars, active, loaded>>

resume_campaign(q, again) ==
    /\ q.name = "resume" /\ load_for_mutation(again)
    /\ status = "paused" /\ status' = "active"
    /\ IF active # 0 /\ cases[active].state = "paused"
       THEN Update(active, [cases[active] EXCEPT !.state = "pending"]) ELSE UNCHANGED cases
    /\ commit(q, again)
    /\ UNCHANGED <<memoryVars, active, loaded>>

----------------------------------------------------------------------------
\* The phases in which a call may be made under the claim.
PhasesOf(name) ==
    CASE name = "submit_profile" -> {"profile"}
      [] name \in {"query_memory", "submit_create"} -> {"create"}
      [] name = "submit_comparison" -> {"compare"}
      [] name = "complete_learning" -> {"learn"}
      [] name = "submit_rereview" -> {"rereview"}
      [] name = "fail_phase" -> Phase

\* A call that the server would now accept is sent, and is slow.
send_late(q) ==
    /\ late = None
    /\ q.name = "claim_phase" => InPhase(q.case, q.phase, "pending")
                                 /\ CanBind(cases[q.case], q.phase, q.by)
    /\ q.name \in Claimed => \E p \in PhasesOf(q.name) : ClaimValid(q.case, p, q.by)
    /\ late' = [call |-> q, current |-> TRUE, claimed |-> Running(cases, q.case),
                applied |-> 0, age |-> 0]
    /\ UNCHANGED <<memoryVars, status, active, cases, loaded>>

\* Nobody sends it again.
give_up ==
    /\ late # None /\ late' = None
    /\ UNCHANGED <<memoryVars, status, active, cases, loaded>>

\* A mutating call, the late one again or another one.
Mutates(q, again) ==
    \/ intake_case(q, again) \/ discard_duplicate_pending_case(q, again)
    \/ retry_failed_phase(q, again) \/ pause_campaign(q, again) \/ resume_campaign(q, again)
    \/ claim_phase(q, again)
    \/ q.name \in Claimed /\
        \/ submit_profile(q, again) \/ query_memory_for_create(q, again)
        \/ submit_create_mismatch(q, again) \/ submit_create_result(q, again)
        \/ submit_comparison(q, again) \/ complete_learning(q, again)
        \/ complete_learning_with_changes(q, again)
        \/ complete_learning_with_backlog(q, again) \/ submit_rereview(q, again)
        \/ submit_rereview_rejected(q, again) \/ fail_phase(q, again)

\* What may be asked for: it is about the last case, which the active one is.
\* Without a claim, or a phase that is pending, a call would only be refused.
Ask(name, phase, by) == [name |-> name, case |-> Len(cases), phase |-> phase, by |-> by]
Asked ==
    {Ask(name, None, None) : name \in Plain}
    \cup {Ask(name, None, b) : name \in {n \in Claimed : Running(cases, Len(cases))},
                              b \in Bindings}
    \cup {Ask("claim_phase", p, b) : p \in {p \in Phase : InPhase(Len(cases), p, "pending")},
                                    b \in Bindings}

Next ==
    \/ \E q \in Asked : Mutates(q, FALSE) \/ send_late(q)
    \/ late # None /\ Mutates(late.call, TRUE)
    \/ give_up
    \/ \E k \in 1 .. Len(cases), b \in Bindings :
        \/ load_reference_into_engine(k, b)
        \/ propose_memory_lesson(k, b)
        \/ correct_memory_lesson(k, b)
    \/ /\ \E s \in Servers : install_seed(s) \/ link_seed(s)
       /\ UNCHANGED <<status, active, cases, late, loaded>>

Spec == Init /\ [][Next]_vars

----------------------------------------------------------------------------
(* Properties *)

\* Only the active case is unfinished, whatever fails, pauses or is retried.
StrictlySerial ==
    \A k \in 1 .. Len(cases) : k # active <=> cases[k].state = "completed" \/ cases[k].terminal

\* A case has what the phases before its own have to hand on, it has a claim
\* exactly while it is worked on, its build was created once, and nobody works
\* in a campaign that is paused or complete.
StagesBacked ==
    /\ \A k \in 1 .. Len(cases) : LET c == cases[k] IN
        /\ c.at # "profile" => c.target
        /\ c.at \in {"compare", "learn", "rereview"} <=> c.generated
        /\ c.at \in {"learn", "rereview"} <=> c.comparison
        /\ c.state = "running" <=> c.claim
        /\ c.state = "running" => status = "active"
        /\ c.state = "paused" => status = "paused"
        /\ c.consumed <=> c.generated \/ c.terminal
    /\ status = "completed" => active = 0 /\ Len(cases) = CaseLimit

\* The campaign is well formed, strictly serial, and every stage of a case is
\* backed by the ones before it.
CampaignSound == TypeOK /\ StrictlySerial /\ StagesBacked

\* The thread that creates a case's build has never had its reference loaded,
\* in whatever order phases were claimed, failed and claimed again.
CreatorBlind ==
    \A k \in 1 .. Len(cases) : cases[k].create # None => cases[k].create[2] \notin loaded[k]

\* A call that arrives again is applied once, even when the log of operations
\* no longer has it.
AppliedOnce == late # None => late.applied <= 1
=============================================================================
