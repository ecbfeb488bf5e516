--------------------------- MODULE FreshnessCache ---------------------------
(***************************************************************************)
(* The cache of one live freshness source: run_cached, RefreshCoordinator, *)
(* RefreshAttemptThrottle and FileCacheStore (server/freshness/cache.py),  *)
(* as the service (service.py) calls them.  A report takes the time first  *)
(* (now), then queues a task in its process; what the task does later is   *)
(* done with that time.  The tasks of a process share one coordinator and  *)
(* one throttle; processes share the file only.                            *)
(*                                                                         *)
(* What the source holds is a version, which the project's sites replace   *)
(* by the next one at any time.  A file that cannot be read or is of       *)
(* another source is no file.  A task may wait for a worker, for a flight  *)
(* and for the network as long as it likes: the ages the policy compares   *)
(* are minutes, and no timeout bounds them all.                            *)
(***************************************************************************)
EXTENDS Integers

CONSTANTS Calls,            \* provider tasks of this source, each run once
          Processes, ProcessOf,
          RefreshAfter, RejectAfter, MinForce,   \* CachePolicy
          MaxTime,          \* bound: clock ticks
          MaxVersion,       \* bound: versions of the source
          MaxRestarts,      \* bound: processes that end and start again
          None

ASSUME CachePolicy ==
    /\ RefreshAfter \in Nat /\ RejectAfter \in Nat /\ MinForce \in Nat \ {0}
    /\ RejectAfter >= RefreshAfter
    /\ ProcessOf \in [Calls -> Processes]
    /\ MaxTime \in Nat /\ MaxVersion \in Nat \ {0} /\ MaxRestarts \in Nat
    /\ None \notin Calls

VARIABLES clock,
          upstream,         \* the version the source holds
          until,            \* (history) when each version was replaced
          file,             \* the envelope on disk
          flights,          \* each process's flight: the task that leads it
          last,             \* each process's last attempt
          call,             \* each task
          restarts

vars == <<clock, upstream, until, file, flights, last, call, restarts>>
world == <<clock, upstream, until, restarts>>

Time == 0 .. MaxTime
Version == 1 .. MaxVersion
NotYet == MaxTime + 1
Envelope == [payload : Version, checked : Time, validator : BOOLEAN]
State == {"fresh", "refreshed", "fallback", "missing"}
Result == [state : State, envelope : Envelope \cup {None}, hardStale : BOOLEAN]
Task == [pc : {"idle", "queued", "expired", "waiting", "leading", "fetching", "saving",
               "landing", "done"},
         now : Time, force : BOOLEAN, envelope : Envelope \cup {None},
         leader : Calls \cup {None}, refreshed : Envelope \cup {None},
         result : Result \cup {None}]
Idle == [pc |-> "idle", now |-> 0, force |-> FALSE, envelope |-> None,
         leader |-> None, refreshed |-> None, result |-> None]

Init ==
    /\ clock = 0 /\ upstream = 1 /\ until = [v \in Version |-> NotYet]
    /\ file = None
    /\ flights = [p \in Processes |-> None] /\ last = [p \in Processes |-> None]
    /\ call = [c \in Calls |-> Idle]
    /\ restarts = 0

----------------------------------------------------------------------------
(* Time and the source *)

tick ==
    /\ clock < MaxTime /\ clock' = clock + 1
    /\ UNCHANGED <<upstream, until, file, flights, last, call, restarts>>

publish ==
    /\ upstream < MaxVersion /\ upstream' = upstream + 1
    /\ until' = [until EXCEPT ![upstream] = clock]
    /\ UNCHANGED <<clock, file, flights, last, call, restarts>>

----------------------------------------------------------------------------
(* Reports *)

To(c, pc) == call' = [call EXCEPT ![c].pc = pc]
Ends(c, pc, r) == call' = [call EXCEPT ![c] =
    [Idle EXCEPT !.pc = pc, !.now = call[c].now, !.result = r]]
Flight(c) == flights[ProcessOf[c]]

Age(c, e) == call[c].now - e.checked

\* _fallback_result: what there is, marked when it is too old to be believed.
Fallback(c, e) ==
    IF e = None THEN [state |-> "missing", envelope |-> None, hardStale |-> FALSE]
    ELSE [state |-> "fallback", envelope |-> e, hardStale |-> Age(c, e) >= RejectAfter]

\* Mutant: an attempt that is not made answers as if the cache were young.
Suppressed_as_fresh(c, e) ==
    IF e # None THEN [state |-> "fresh", envelope |-> e, hardStale |-> FALSE]
    ELSE Fallback(c, e)

\* _suppressed_attempt_result, which is _fresh_result for a young envelope.
Suppressed(c, e) ==
    IF e # None /\ Age(c, e) < RefreshAfter
    THEN [state |-> "fresh", envelope |-> e, hardStale |-> FALSE]
    ELSE Fallback(c, e)

\* _load_available_cache: an envelope checked after the report's time is ignored.
Available(c) == IF file # None /\ file.checked <= call[c].now THEN file ELSE None

\* Nothing is to be fetched: the envelope is young enough for this report.
Suffices(c, e) == e # None /\ Age(c, e) < (IF call[c].force THEN MinForce ELSE RefreshAfter)

\* get_freshness_report takes the time and submits the source's task.
get_freshness_report(c, force) ==
    /\ call[c].pc = "idle"
    /\ call' = [call EXCEPT ![c] = [Idle EXCEPT !.pc = "queued", !.now = clock, !.force = force]]
    /\ UNCHANGED <<world, file, flights, last>>

\* The report's budget is over before a worker was free: the task is cancelled.
\* (A task that runs goes on, and the report does without it.)
cancel(c) ==
    /\ call[c].pc = "queued"
    /\ Ends(c, "done", Fallback(c, None))
    /\ UNCHANGED <<world, file, flights, last>>

----------------------------------------------------------------------------
(* run_cached *)

run_cached(c) ==
    /\ call[c].pc = "queued"
    /\ LET e == Available(c) IN
       IF Suffices(c, e) THEN Ends(c, "done", Suppressed(c, e))
       ELSE call' = [call EXCEPT ![c].pc = "expired", ![c].envelope = e]
    /\ UNCHANGED <<world, file, flights, last>>

\* flight: the first task of its process leads, the others wait for its event.
flight(c) ==
    /\ call[c].pc = "expired"
    /\ IF Flight(c) = None
       THEN To(c, "leading") /\ flights' = [flights EXCEPT ![ProcessOf[c]] = c]
       ELSE /\ call' = [call EXCEPT ![c].pc = "waiting", ![c].leader = Flight(c)]
            /\ UNCHANGED flights
    /\ UNCHANGED <<world, file, last>>

\* The waiter answers with what it had read.
refresh_wait_timed_out(c) ==
    /\ call[c].pc = "waiting"
    /\ Ends(c, "done", Fallback(c, call[c].envelope))
    /\ UNCHANGED <<world, file, flights, last>>

\* The flight it waited for has landed.
reload(c) ==
    /\ call[c].pc = "waiting" /\ Flight(c) # call[c].leader
    /\ Ends(c, "done", Suppressed(c, Available(c)))
    /\ UNCHANGED <<world, file, flights, last>>

\* RefreshAttemptThrottle.claim: an earlier time than the last one restarts it.
Claims(c) ==
    LET previous == last[ProcessOf[c]] IN
    \/ previous = None
    \/ call[c].now < previous
    \/ call[c].now - previous >= MinForce

\* The leader reads again, and fetches if that is not enough and it is not too
\* soon; the attempt counts whatever becomes of it.
lead(c) ==
    /\ call[c].pc = "leading"
    /\ LET e == Available(c) IN
       IF Suffices(c, e) \/ ~Claims(c)
       THEN Ends(c, "landing", Suppressed(c, e)) /\ UNCHANGED last
       ELSE /\ call' = [call EXCEPT ![c].pc = "fetching", ![c].envelope = e]
            /\ last' = [last EXCEPT ![ProcessOf[c]] = call[c].now]
    /\ UNCHANGED <<world, file, flights>>

Fetched(c, e) == call' = [call EXCEPT ![c].pc = "saving", ![c].refreshed = e]

\* 200: the source's version is parsed, with a validator if it sent one.
fetch(c, validator) ==
    /\ call[c].pc = "fetching"
    /\ Fetched(c, [payload |-> upstream, checked |-> call[c].now, validator |-> validator])
    /\ UNCHANGED <<world, file, flights, last>>

\* Mutant: a 304 confirms whatever the file holds by then.
revalidate_file(c) ==
    /\ call[c].pc = "fetching" /\ call[c].envelope # None /\ file # None
    /\ call[c].envelope.validator /\ call[c].envelope.payload = upstream
    /\ Fetched(c, [file EXCEPT !.checked = call[c].now])
    /\ UNCHANGED <<world, file, flights, last>>

\* 304: the version of the validator that was sent is still the source's.
revalidate(c) ==
    /\ call[c].pc = "fetching" /\ call[c].envelope # None
    /\ call[c].envelope.validator /\ call[c].envelope.payload = upstream
    /\ Fetched(c, [call[c].envelope EXCEPT !.checked = call[c].now])
    /\ UNCHANGED <<world, file, flights, last>>

\* No answer, an error, a payload that cannot be parsed, or a 304 that no
\* validator asked for.
fetch_fails(c) ==
    /\ call[c].pc = "fetching"
    /\ Ends(c, "landing", Fallback(c, call[c].envelope))
    /\ UNCHANGED <<world, file, flights, last>>

\* FileCacheStore.save replaces the file, whoever wrote it meanwhile (the answer
\* is "refreshed" here after a 304 too, which the code calls "revalidated").
save(c) ==
    /\ call[c].pc = "saving"
    /\ file' = call[c].refreshed
    /\ Ends(c, "landing", [state |-> "refreshed", envelope |-> call[c].refreshed,
                           hardStale |-> FALSE])
    /\ UNCHANGED <<world, flights, last>>

save_fails(c) ==
    /\ call[c].pc = "saving"
    /\ Ends(c, "landing", Fallback(c, call[c].envelope))
    /\ UNCHANGED <<world, file, flights, last>>

\* The end of flight: it is removed and its event is set.
land(c) ==
    /\ call[c].pc = "landing"
    /\ To(c, "done")
    /\ flights' = [flights EXCEPT ![ProcessOf[c]] = None]
    /\ UNCHANGED <<world, file, last>>

----------------------------------------------------------------------------
\* A process ends, with its tasks, and starts again with an empty memory.
restart(p) ==
    /\ restarts < MaxRestarts /\ restarts' = restarts + 1
    /\ call' = [c \in Calls |-> IF ProcessOf[c] = p /\ call[c].pc # "idle"
                                THEN [Idle EXCEPT !.pc = "done"] ELSE call[c]]
    /\ flights' = [flights EXCEPT ![p] = None] /\ last' = [last EXCEPT ![p] = None]
    /\ UNCHANGED <<clock, upstream, until, file>>

Next ==
    \/ tick \/ publish
    \/ \E c \in Calls :
        \/ \E force \in BOOLEAN : get_freshness_report(c, force)
        \/ cancel(c) \/ run_cached(c) \/ flight(c)
        \/ refresh_wait_timed_out(c) \/ reload(c) \/ lead(c)
        \/ \E validator \in BOOLEAN : fetch(c, validator)
        \/ revalidate(c) \/ fetch_fails(c) \/ save(c) \/ save_fails(c) \/ land(c)
    \/ \E p \in Processes : restart(p)

Spec == Init /\ [][Next]_vars

----------------------------------------------------------------------------
(* Properties *)

TypeOK ==
    /\ clock \in Time /\ upstream \in Version /\ until \in [Version -> 0 .. NotYet]
    /\ file \in Envelope \cup {None}
    /\ flights \in [Processes -> Calls \cup {None}]
    /\ last \in [Processes -> Time \cup {None}]
    /\ call \in [Calls -> Task]
    /\ restarts \in 0 .. MaxRestarts

InFlight == {"leading", "fetching", "saving", "landing"}

\* The source still had the envelope's version at the time it is stamped with.
Honest(e) == until[e.payload] >= e.checked

\* A process has one flight per source, led by the task that is in it until it
\* lands, whatever waits or gives up; and the file, whichever process wrote it
\* last and however long its task took, never says that a version was confirmed
\* when it had already been replaced.
CacheSound ==
    /\ TypeOK
    /\ \A c \in Calls : call[c].pc \in InFlight <=> Flight(c) = c
    /\ file # None => Honest(file)

\* What a report is told, it may believe: a refreshed version was the source's
\* at the time of the report, a fresh one less than RefreshAfter before, and a
\* fallback that is not marked hard-stale, on which the gate still passes, less
\* than RejectAfter before.
AnswerHonest ==
    \A c \in Calls : call[c].result # None /\ call[c].result.envelope # None =>
        LET r == call[c].result
            replaced == until[r.envelope.payload]
        IN  /\ r.state = "refreshed" => replaced >= call[c].now
            /\ r.state = "fresh" => replaced > call[c].now - RefreshAfter
            /\ r.state = "fallback" /\ ~r.hardStale => replaced > call[c].now - RejectAfter
=============================================================================
