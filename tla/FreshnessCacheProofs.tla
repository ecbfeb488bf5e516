------------------------ MODULE FreshnessCacheProofs ------------------------
(***************************************************************************)
(* Proofs about the freshness cache (FreshnessCache) for every set of      *)
(* tasks and processes and every policy that CachePolicy admits: a process *)
(* has one flight, the file never claims too much, and no report is told   *)
(* something younger than it is.                                           *)
(***************************************************************************)
EXTENDS FreshnessCache, TLAPS

----------------------------------------------------------------------------
(* The inductive invariant *)

\* An envelope that may be believed: it was confirmed in the past, and when it
\* was the source still had its version.
Trusted(e) == e # None => Honest(e) /\ e.checked <= clock

\* A version that was not replaced yet has no end.
SourceInv == \A v \in Version : v >= upstream => until[v] = NotYet

\* What a task has read is no younger than its report, what it has fetched is
\* stamped with the report's time.
TaskInv(c) ==
    /\ call[c].now <= clock
    /\ Trusted(call[c].envelope) /\ Trusted(call[c].refreshed)
    /\ call[c].envelope # None => call[c].envelope.checked <= call[c].now
    /\ call[c].refreshed # None => call[c].refreshed.checked = call[c].now

\* The answer r to a report of time now states an age that follows from the
\* time its envelope was confirmed.
Justified(r, now) ==
    r # None /\ r.envelope # None =>
        /\ Trusted(r.envelope) /\ r.envelope.checked <= now
        /\ r.state = "refreshed" => r.envelope.checked = now
        /\ r.state = "fresh" => r.envelope.checked > now - RefreshAfter
        /\ r.state = "fallback" /\ ~r.hardStale => r.envelope.checked > now - RejectAfter

AnswerInv(c) == Justified(call[c].result, call[c].now)

FlightInv == \A c \in Calls : call[c].pc \in InFlight <=> Flight(c) = c

IInv ==
    /\ TypeOK /\ FlightInv /\ SourceInv
    /\ Trusted(file)
    /\ \A c \in Calls : TaskInv(c) /\ AnswerInv(c)

----------------------------------------------------------------------------
(* What the invariant gives *)

\* An envelope that is trusted is an envelope or none, and the numbers in it
\* can be compared.
LEMMA EnvelopeNumbers ==
    ASSUME TypeOK, NEW e \in Envelope
    PROVE  /\ e.payload \in Version /\ e.checked \in Int /\ e.checked >= 0
           /\ e.checked <= MaxTime /\ e.validator \in BOOLEAN
           /\ until[e.payload] \in Int /\ clock \in Int /\ clock <= MaxTime
BY CachePolicy DEF TypeOK, Envelope, Time, Version, NotYet

\* What the invariant says is what the run checks.
LEMMA InvariantImplies == IInv => CacheSound /\ AnswerHonest
<1> SUFFICES ASSUME IInv PROVE CacheSound /\ AnswerHonest
  OBVIOUS
<1>1. CacheSound
  BY DEF IInv, CacheSound, FlightInv, Trusted
<1>2. AnswerHonest
  <2> SUFFICES ASSUME NEW c \in Calls, call[c].result # None,
                      call[c].result.envelope # None
               PROVE  LET r == call[c].result
                          replaced == until[r.envelope.payload]
                      IN  /\ r.state = "refreshed" => replaced >= call[c].now
                          /\ r.state = "fresh" => replaced > call[c].now - RefreshAfter
                          /\ r.state = "fallback" /\ ~r.hardStale =>
                                 replaced > call[c].now - RejectAfter
    BY DEF AnswerHonest
  <2> DEFINE r == call[c].result
  <2>1. call[c] \in Task /\ call[c].now \in Int
    BY CachePolicy DEF IInv, TypeOK, Task, Time
  <2>2. r.envelope \in Envelope
    BY <2>1 DEF Task, Result
  <2>3. until[r.envelope.payload] >= r.envelope.checked
    BY DEF IInv, AnswerInv, Justified, Trusted, Honest
  <2>4. Justified(r, call[c].now)
    BY DEF IInv, AnswerInv
  <2> QED
    BY <2>1, <2>2, <2>3, <2>4, EnvelopeNumbers, CachePolicy DEF IInv, Justified
<1> QED BY <1>1, <1>2

----------------------------------------------------------------------------
(* Time and the source *)

\* Neither the clock nor a new version takes the trust from an envelope: the
\* version it names is replaced, if at all, after it was confirmed.
LEMMA TrustKept ==
    ASSUME IInv, tick \/ publish, NEW e \in Envelope \cup {None}, Trusted(e)
    PROVE  Trusted(e)'
<1> USE CachePolicy
<1> SUFFICES ASSUME e # None PROVE until'[e.payload] >= e.checked /\ e.checked <= clock'
  BY DEF Trusted, Honest
<1>1. until[e.payload] >= e.checked /\ e.checked <= clock
  BY DEF Trusted, Honest
<1>2. e.payload \in Version /\ e.checked \in Int /\ clock \in Int
  BY EnvelopeNumbers DEF IInv
<1>3. CASE tick
  BY <1>1, <1>2, <1>3 DEF tick
<1>4. CASE publish
  BY <1>1, <1>2, <1>4 DEF publish, IInv, TypeOK
<1> QED BY <1>3, <1>4

LEMMA WorldKeeps == ASSUME IInv, tick \/ publish PROVE IInv'
<1> USE CachePolicy
<1>1. UNCHANGED <<file, flights, last, call, restarts>> /\ clock' >= clock
  BY DEF tick, publish, IInv, TypeOK, Time
<1>2. TypeOK'
  <2>1. clock' \in Time /\ upstream' \in Version /\ clock \in 0 .. NotYet
    BY DEF tick, publish, IInv, TypeOK, Time, Version, NotYet
  <2>2. until' \in [Version -> 0 .. NotYet]
    BY <2>1 DEF tick, publish, IInv, TypeOK
  <2> QED BY <1>1, <2>1, <2>2 DEF IInv, TypeOK
<1>3. SourceInv'
  BY DEF tick, publish, IInv, TypeOK, SourceInv, Version
<1>4. FlightInv'
  BY <1>1 DEF IInv, FlightInv, Flight
<1>5. Trusted(file)'
  BY <1>1, TrustKept DEF IInv, TypeOK, Trusted, Honest
<1>6. ASSUME NEW c \in Calls PROVE (TaskInv(c) /\ AnswerInv(c))'
  <2>1. call[c] \in Task /\ call[c].now \in Int /\ clock \in Int /\ clock' \in Int
    BY <1>2 DEF IInv, TypeOK, Task, Time
  <2>2. TaskInv(c) /\ AnswerInv(c) /\ call'[c] = call[c]
    BY <1>1 DEF IInv
  <2>3. Trusted(call[c].envelope)' /\ Trusted(call[c].refreshed)'
    BY <1>1, <2>1, <2>2, TrustKept DEF Task, TaskInv, Trusted, Honest
  <2>4. ASSUME call[c].result # None, call[c].result.envelope # None
        PROVE  Trusted(call[c].result.envelope)'
    BY <1>1, <2>1, <2>2, <2>4, TrustKept DEF Task, Result, AnswerInv, Justified, Trusted, Honest
  <2>5. TaskInv(c)'
    BY <1>1, <2>1, <2>2, <2>3 DEF TaskInv
  <2>6. AnswerInv(c)'
    BY <1>1, <2>1, <2>2, <2>4 DEF AnswerInv, Justified
  <2> QED BY <2>5, <2>6
<1> QED BY <1>2, <1>3, <1>4, <1>5, <1>6 DEF IInv
----------------------------------------------------------------------------
(* Tasks *)

\* A step of one task, which replaces its record and may move its process's
\* flight and the file, keeps the invariant if the new record and the new file
\* are what the invariant asks of them.
LEMMA TaskKeeps ==
    ASSUME IInv, NEW c \in Calls, NEW t \in Task,
           call' = [call EXCEPT ![c] = t],
           UNCHANGED world,
           last' \in [Processes -> Time \cup {None}],
           file' \in Envelope \cup {None}, Trusted(file'),
           \/ flights' = flights /\ (t.pc \in InFlight <=> call[c].pc \in InFlight)
           \/ /\ flights' = [flights EXCEPT ![ProcessOf[c]] = c]
              /\ t.pc \in InFlight /\ Flight(c) = None
           \/ /\ flights' = [flights EXCEPT ![ProcessOf[c]] = None]
              /\ t.pc \notin InFlight /\ Flight(c) = c,
           t.now <= clock,
           Trusted(t.envelope), Trusted(t.refreshed),
           t.envelope # None => t.envelope.checked <= t.now,
           t.refreshed # None => t.refreshed.checked = t.now,
           Justified(t.result, t.now)
    PROVE  IInv'
<1> USE CachePolicy
<1>0. UNCHANGED <<clock, upstream, until, restarts>>
  BY DEF world
<1>1. TypeOK'
  BY <1>0 DEF IInv, TypeOK
<1>2. SourceInv'
  BY <1>0 DEF IInv, SourceInv
<1>3. Trusted(file)'
  BY <1>0 DEF Trusted, Honest
<1>4. FlightInv'
  BY <1>1 DEF IInv, TypeOK, FlightInv, Flight, InFlight
<1>5. ASSUME NEW d \in Calls PROVE (TaskInv(d) /\ AnswerInv(d))'
  <2>1. CASE d = c
    BY <1>0, <2>1 DEF IInv, TypeOK, TaskInv, AnswerInv, Justified, Trusted, Honest
  <2>2. CASE d # c
    BY <1>0, <2>2 DEF IInv, TypeOK, TaskInv, AnswerInv, Justified, Trusted, Honest
  <2> QED BY <2>1, <2>2
<1> QED BY <1>1, <1>2, <1>3, <1>4, <1>5 DEF IInv

\* What _load_available_cache returns may be believed, and is no younger than
\* the report.
LEMMA AvailableTrusted ==
    ASSUME IInv, NEW c \in Calls
    PROVE  /\ Available(c) \in Envelope \cup {None} /\ Trusted(Available(c))
           /\ Available(c) # None => Available(c).checked <= call[c].now
BY DEF IInv, TypeOK, Available, Trusted

\* _fallback_result and _suppressed_attempt_result say no more of an envelope
\* than its age allows.
LEMMA AnswersJustified ==
    ASSUME IInv, NEW c \in Calls, NEW e \in Envelope \cup {None}, Trusted(e),
           e # None => e.checked <= call[c].now
    PROVE  /\ Fallback(c, e) \in Result /\ Justified(Fallback(c, e), call[c].now)
           /\ Suppressed(c, e) \in Result /\ Justified(Suppressed(c, e), call[c].now)
<1> USE CachePolicy
<1>1. call[c].now \in Int /\ (e # None => e.checked \in Int)
  BY EnvelopeNumbers DEF IInv, TypeOK, Task, Time
<1>2. ASSUME NEW s \in State, NEW h \in BOOLEAN
      PROVE  [state |-> s, envelope |-> e, hardStale |-> h] \in Result
  BY DEF Result
<1>2a. Fallback(c, e) \in Result
  <2>1. CASE e = None
    BY <1>2, <2>1 DEF Fallback, State
  <2>2. CASE e # None
    <3>1. (Age(c, e) >= RejectAfter) \in BOOLEAN
      BY <1>1 DEF Age
    <3> QED BY <1>2, <2>2, <3>1, Zenon DEF Fallback, State
  <2> QED BY <2>1, <2>2
<1>2b. Suppressed(c, e) \in Result
  BY <1>2, <1>2a DEF Suppressed, State
<1>3. Justified(Fallback(c, e), call[c].now)
  <2>1. CASE e = None
    BY <2>1 DEF Fallback, Justified
  <2>2. CASE e # None
    <3>1. CASE Age(c, e) >= RejectAfter
      BY <1>1, <2>2, <3>1 DEF Fallback, Age, Justified
    <3>2. CASE ~(Age(c, e) >= RejectAfter)
      BY <1>1, <2>2, <3>2 DEF Fallback, Age, Justified
    <3> QED BY <3>1, <3>2
  <2> QED BY <2>1, <2>2
<1>4. Justified(Suppressed(c, e), call[c].now)
  BY <1>1, <1>3 DEF Suppressed, Age, Justified
<1> QED BY <1>2a, <1>2b, <1>3, <1>4

\* A task that has not started has read and answered nothing.
LEMMA IdleTask ==
    Idle \in Task /\ Idle.envelope = None /\ Idle.refreshed = None /\ Idle.result = None
<1>1. 0 \in Time
  BY CachePolicy DEF Time
<1> QED BY <1>1 DEF Idle, Task

\* The record that Ends makes: the task keeps its time, drops what it has read
\* and has its answer.
LEMMA EndsKeeps ==
    ASSUME IInv, NEW c \in Calls, NEW pc \in {"landing", "done"}, NEW r \in Result,
           Ends(c, pc, r), Justified(r, call[c].now),
           pc \in InFlight <=> call[c].pc \in InFlight,
           UNCHANGED <<world, flights>>,
           last' \in [Processes -> Time \cup {None}],
           file' \in Envelope \cup {None}, Trusted(file')
    PROVE  IInv'
<1> DEFINE t == [Idle EXCEPT !.pc = pc, !.now = call[c].now, !.result = r]
<1>1. call[c].now \in Time /\ call[c].now <= clock
  BY DEF IInv, TypeOK, Task, TaskInv
<1>2. /\ t \in Task /\ t.pc = pc /\ t.now = call[c].now /\ t.result = r
      /\ t.envelope = None /\ t.refreshed = None
  BY <1>1, IdleTask DEF Task
<1>4. call' = [call EXCEPT ![c] = t]
  BY DEF Ends
<1>5. Trusted(t.envelope) /\ Trusted(t.refreshed)
  BY <1>2 DEF Trusted
<1> HIDE DEF t
<1> QED BY <1>1, <1>2, <1>4, <1>5, TaskKeeps

\* A step that changes the place of a task, what it has read or what it has
\* fetched, and leaves its time and its answer alone.
LEMMA MovesKeeps ==
    ASSUME IInv, NEW c \in Calls, NEW t \in Task,
           call' = [call EXCEPT ![c] = t],
           t.now = call[c].now, t.result = call[c].result,
           Trusted(t.envelope), t.envelope # None => t.envelope.checked <= t.now,
           Trusted(t.refreshed), t.refreshed # None => t.refreshed.checked = t.now,
           UNCHANGED <<world, file, flights>>,
           last' \in [Processes -> Time \cup {None}],
           t.pc \in InFlight <=> call[c].pc \in InFlight
    PROVE  IInv'
<1>1. call[c] \in Task /\ TaskInv(c) /\ AnswerInv(c)
  BY DEF IInv, TypeOK
<1>2. file' \in Envelope \cup {None} /\ Trusted(file')
  BY DEF IInv, TypeOK
<1> QED BY <1>1, <1>2, TaskKeeps DEF TaskInv, AnswerInv

----------------------------------------------------------------------------
(* One lemma per operation *)

\* The facts about a task that its steps use.
LEMMA TaskFacts ==
    ASSUME IInv, NEW c \in Calls
    PROVE  /\ call[c] \in Task /\ TaskInv(c) /\ AnswerInv(c)
           /\ call[c].now \in Time /\ call[c].envelope \in Envelope \cup {None}
           /\ call[c].refreshed \in Envelope \cup {None}
           /\ call[c].leader \in Calls \cup {None}
           /\ last \in [Processes -> Time \cup {None}]
           /\ file \in Envelope \cup {None} /\ Trusted(file)
           /\ flights \in [Processes -> Calls \cup {None}] /\ Flight(c) \in Calls \cup {None}
           /\ call[c].pc \in InFlight <=> Flight(c) = c
BY CachePolicy DEF IInv, TypeOK, Task, Flight, FlightInv

LEMMA ReportKeeps ==
    ASSUME IInv, NEW c \in Calls, NEW force \in BOOLEAN, get_freshness_report(c, force)
    PROVE  IInv'
<1> DEFINE t == [Idle EXCEPT !.pc = "queued", !.now = clock, !.force = force]
<1>1. clock \in Time /\ clock <= clock
  BY CachePolicy DEF IInv, TypeOK, Time
<1>2. /\ t \in Task /\ t.pc = "queued" /\ t.now = clock /\ t.result = None
      /\ t.envelope = None /\ t.refreshed = None
  BY <1>1, IdleTask DEF Task
<1>3. call' = [call EXCEPT ![c] = t] /\ UNCHANGED <<world, file, flights, last>>
  BY DEF get_freshness_report
<1>4. Trusted(t.envelope) /\ Trusted(t.refreshed) /\ Justified(t.result, t.now)
  BY <1>2 DEF Trusted, Justified
<1>5. call[c].pc \notin InFlight /\ t.pc \notin InFlight
  BY <1>2 DEF get_freshness_report, InFlight
<1> HIDE DEF t
<1> QED BY <1>1, <1>2, <1>3, <1>4, <1>5, TaskFacts, TaskKeeps

\* The steps that only answer, from what the task has read.
LEMMA AnswerKeeps ==
    ASSUME IInv, NEW c \in Calls,
           \/ cancel(c) \/ refresh_wait_timed_out(c) \/ reload(c)
           \/ fetch_fails(c) \/ save_fails(c)
    PROVE  IInv'
<1> USE TaskFacts, AnswersJustified, AvailableTrusted
<1>1. CASE cancel(c)
  <2>1. Trusted(None)
    BY DEF Trusted
  <2> QED BY <1>1, <2>1, EndsKeeps DEF cancel, InFlight
<1>2. CASE refresh_wait_timed_out(c)
  BY <1>2, EndsKeeps DEF refresh_wait_timed_out, InFlight, TaskInv
<1>3. CASE reload(c)
  BY <1>3, EndsKeeps DEF reload, InFlight
<1>4. CASE fetch_fails(c)
  BY <1>4, EndsKeeps DEF fetch_fails, InFlight, TaskInv
<1>5. CASE save_fails(c)
  BY <1>5, EndsKeeps DEF save_fails, InFlight, TaskInv
<1> QED BY <1>1, <1>2, <1>3, <1>4, <1>5

\* run_cached answers from a young file, or goes on with what it has read.
LEMMA RunCachedKeeps == ASSUME IInv, NEW c \in Calls, run_cached(c) PROVE IInv'
<1> DEFINE e == Available(c)
<1> USE TaskFacts, AvailableTrusted
<1>1. call[c].pc = "queued" /\ UNCHANGED <<world, file, flights, last>>
  BY DEF run_cached
<1>2. CASE Suffices(c, e)
  <2>1. Ends(c, "done", Suppressed(c, e))
    BY <1>2 DEF run_cached
  <2> QED BY <1>1, <2>1, AnswersJustified, EndsKeeps DEF InFlight
<1>3. CASE ~Suffices(c, e)
  <2> DEFINE t == [call[c] EXCEPT !.pc = "expired", !.envelope = e]
  <2>1. call' = [call EXCEPT ![c] = t]
    BY <1>3 DEF run_cached
  <2>2. /\ t \in Task /\ t.pc = "expired" /\ t.now = call[c].now /\ t.envelope = e
        /\ t.refreshed = call[c].refreshed /\ t.result = call[c].result
    BY DEF Task
  <2>3. t.pc \in InFlight <=> call[c].pc \in InFlight
    BY <1>1, <2>2 DEF InFlight
  <2>4. /\ Trusted(t.envelope) /\ (t.envelope # None => t.envelope.checked <= t.now)
        /\ Trusted(t.refreshed) /\ (t.refreshed # None => t.refreshed.checked = t.now)
    BY <2>2 DEF TaskInv
  <2> HIDE DEF t, e
  <2> QED BY <1>1, <2>1, <2>2, <2>3, <2>4, MovesKeeps
<1> QED BY <1>2, <1>3

\* flight: the task becomes the leader of its process, or waits for the leader.
LEMMA FlightKeeps == ASSUME IInv, NEW c \in Calls, flight(c) PROVE IInv'
<1> USE TaskFacts
<1>1. call[c].pc = "expired" /\ UNCHANGED <<world, file, last>>
  BY DEF flight
<1>2. CASE Flight(c) = None
  <2> DEFINE t == [call[c] EXCEPT !.pc = "leading"]
  <2>1. /\ call' = [call EXCEPT ![c] = t]
        /\ flights' = [flights EXCEPT ![ProcessOf[c]] = c]
    BY <1>2 DEF flight, To
  <2>2. /\ t \in Task /\ t.pc = "leading" /\ t.now = call[c].now
        /\ t.envelope = call[c].envelope
        /\ t.refreshed = call[c].refreshed /\ t.result = call[c].result
    BY DEF Task
  <2>3. t.pc \in InFlight
    BY <1>1, <2>2 DEF InFlight
  <2>4. /\ Trusted(t.envelope) /\ (t.envelope # None => t.envelope.checked <= t.now)
        /\ Trusted(t.refreshed) /\ (t.refreshed # None => t.refreshed.checked = t.now)
    BY <2>2 DEF TaskInv
  <2>5. t.now <= clock /\ Justified(t.result, t.now)
    BY <2>2 DEF TaskInv, AnswerInv
  <2> HIDE DEF t
  <2> QED BY <1>1, <1>2, <2>1, <2>2, <2>3, <2>4, <2>5, TaskKeeps
<1>3. CASE Flight(c) # None
  <2> DEFINE t == [call[c] EXCEPT !.pc = "waiting", !.leader = Flight(c)]
  <2>1. call' = [call EXCEPT ![c] = t] /\ UNCHANGED flights
    BY <1>3 DEF flight
  <2>2. /\ t \in Task /\ t.pc = "waiting" /\ t.now = call[c].now
        /\ t.envelope = call[c].envelope
        /\ t.refreshed = call[c].refreshed /\ t.result = call[c].result
    BY DEF Task
  <2>3. t.pc \in InFlight <=> call[c].pc \in InFlight
    BY <1>1, <2>2 DEF InFlight
  <2>4. /\ Trusted(t.envelope) /\ (t.envelope # None => t.envelope.checked <= t.now)
        /\ Trusted(t.refreshed) /\ (t.refreshed # None => t.refreshed.checked = t.now)
    BY <2>2 DEF TaskInv
  <2> HIDE DEF t
  <2> QED BY <1>1, <2>1, <2>2, <2>3, <2>4, MovesKeeps
<1> QED BY <1>2, <1>3

\* The leader reads again, and answers or fetches.
LEMMA LeadKeeps == ASSUME IInv, NEW c \in Calls, lead(c) PROVE IInv'
<1> DEFINE e == Available(c)
<1> USE TaskFacts, AvailableTrusted
<1>1. call[c].pc = "leading" /\ UNCHANGED <<world, file, flights>>
  BY DEF lead
<1>2. CASE Suffices(c, e) \/ ~Claims(c)
  <2>1. Ends(c, "landing", Suppressed(c, e)) /\ UNCHANGED last
    BY <1>2 DEF lead
  <2> QED BY <1>1, <2>1, AnswersJustified, EndsKeeps DEF InFlight
<1>3. CASE ~(Suffices(c, e) \/ ~Claims(c))
  <2> DEFINE t == [call[c] EXCEPT !.pc = "fetching", !.envelope = e]
  <2>1. /\ call' = [call EXCEPT ![c] = t]
        /\ last' = [last EXCEPT ![ProcessOf[c]] = call[c].now]
    BY <1>3 DEF lead
  <2>2. /\ t \in Task /\ t.pc = "fetching" /\ t.now = call[c].now /\ t.envelope = e
        /\ t.refreshed = call[c].refreshed /\ t.result = call[c].result
    BY DEF Task
  <2>3. t.pc \in InFlight <=> call[c].pc \in InFlight
    BY <1>1, <2>2 DEF InFlight
  <2>4. /\ Trusted(t.envelope) /\ (t.envelope # None => t.envelope.checked <= t.now)
        /\ Trusted(t.refreshed) /\ (t.refreshed # None => t.refreshed.checked = t.now)
    BY <2>2 DEF TaskInv
  <2>5. last' \in [Processes -> Time \cup {None}]
    BY <2>1
  <2> HIDE DEF t, e
  <2> QED BY <1>1, <2>1, <2>2, <2>3, <2>4, <2>5, MovesKeeps
<1> QED BY <1>2, <1>3

\* What was fetched or confirmed while the source had it carries the report's
\* time, which is past: it was the source's version then, or later.
LEMMA FetchKeeps ==
    ASSUME IInv, NEW c \in Calls,
           revalidate(c) \/ \E validator \in BOOLEAN : fetch(c, validator)
    PROVE  IInv'
<1> USE TaskFacts, CachePolicy
<1>1. PICK f \in Envelope : /\ f.payload = upstream /\ f.checked = call[c].now
                            /\ Fetched(c, f)
  <2>1. CASE revalidate(c)
    <3> DEFINE f == [call[c].envelope EXCEPT !.checked = call[c].now]
    <3>1. call[c].envelope \in Envelope /\ call[c].envelope.payload = upstream
      BY <2>1 DEF revalidate
    <3>2. f \in Envelope /\ f.payload = upstream /\ f.checked = call[c].now
      BY <3>1 DEF Envelope
    <3> QED BY <2>1, <3>2 DEF revalidate
  <2>2. ASSUME NEW validator \in BOOLEAN, fetch(c, validator)
        PROVE  \E f \in Envelope : f.payload = upstream /\ f.checked = call[c].now
                                   /\ Fetched(c, f)
    <3> DEFINE f == [payload |-> upstream, checked |-> call[c].now, validator |-> validator]
    <3>1. f \in Envelope /\ f.payload = upstream /\ f.checked = call[c].now
      BY DEF Envelope, IInv, TypeOK
    <3> QED BY <2>2, <3>1 DEF fetch
  <2> QED BY <2>1, <2>2
<1>2. call[c].pc = "fetching" /\ UNCHANGED <<world, file, flights, last>>
  BY DEF revalidate, fetch
<1>3. Trusted(f)
  <2>1. until[upstream] = NotYet /\ upstream \in Version
    BY DEF IInv, SourceInv, TypeOK, Version
  <2>2. call[c].now <= clock /\ call[c].now \in Int /\ call[c].now <= MaxTime
    BY DEF TaskInv, Time
  <2> QED BY <1>1, <2>1, <2>2 DEF Trusted, Honest, NotYet
<1> DEFINE t == [call[c] EXCEPT !.pc = "saving", !.refreshed = f]
<1>4. call' = [call EXCEPT ![c] = t]
  BY <1>1 DEF Fetched
<1>5. /\ t \in Task /\ t.pc = "saving" /\ t.now = call[c].now
      /\ t.envelope = call[c].envelope
      /\ t.refreshed = f /\ t.result = call[c].result
  <2>1. call[c] \in Task /\ f \in Envelope
    OBVIOUS
  <2> HIDE TaskFacts, CachePolicy
  <2> QED BY <2>1 DEF Task
<1> HIDE DEF t
<1> QED BY <1>1, <1>2, <1>3, <1>4, <1>5, MovesKeeps DEF InFlight, TaskInv

\* The file becomes what the task has fetched, whoever wrote it meanwhile.
LEMMA SaveKeeps == ASSUME IInv, NEW c \in Calls, save(c) PROVE IInv'
<1> DEFINE r == [state |-> "refreshed", envelope |-> call[c].refreshed, hardStale |-> FALSE]
<1> USE TaskFacts
<1>1. call[c].pc = "saving" /\ file' = call[c].refreshed /\ Ends(c, "landing", r)
      /\ UNCHANGED <<world, flights, last>>
  BY DEF save
<1>2. r \in Result
  BY DEF Result, State
<1>3. Justified(r, call[c].now)
  <2>1. /\ Trusted(call[c].refreshed)
        /\ call[c].refreshed # None => call[c].refreshed.checked = call[c].now
    BY DEF TaskInv
  <2>2. call[c].now \in Int /\ call[c].now <= call[c].now
    BY CachePolicy DEF Time
  <2> QED BY <2>1, <2>2 DEF Justified
<1>4. file' \in Envelope \cup {None} /\ Trusted(file')
  BY <1>1 DEF TaskInv
<1> HIDE DEF r
<1> QED BY <1>1, <1>2, <1>3, <1>4, EndsKeeps DEF InFlight

\* The leader lands, and its process has no flight.
LEMMA LandKeeps == ASSUME IInv, NEW c \in Calls, land(c) PROVE IInv'
<1> DEFINE t == [call[c] EXCEPT !.pc = "done"]
<1> USE TaskFacts
<1>1. /\ call[c].pc = "landing" /\ call' = [call EXCEPT ![c] = t]
      /\ flights' = [flights EXCEPT ![ProcessOf[c]] = None]
      /\ UNCHANGED <<world, file, last>>
  BY DEF land, To
<1>2. /\ t \in Task /\ t.pc = "done" /\ t.now = call[c].now /\ t.envelope = call[c].envelope
      /\ t.refreshed = call[c].refreshed /\ t.result = call[c].result
  BY DEF Task
<1>3. t.pc \notin InFlight /\ Flight(c) = c
  BY <1>1, <1>2 DEF InFlight
<1>4. /\ Trusted(t.envelope) /\ (t.envelope # None => t.envelope.checked <= t.now)
      /\ Trusted(t.refreshed) /\ (t.refreshed # None => t.refreshed.checked = t.now)
      /\ t.now <= clock /\ Justified(t.result, t.now)
  BY <1>2 DEF TaskInv, AnswerInv
<1> HIDE DEF t
<1> QED BY <1>1, <1>2, <1>3, <1>4, TaskKeeps

\* A process that starts again has no flight and no attempt, and its tasks are
\* gone; the file stays.
LEMMA RestartKeeps == ASSUME IInv, NEW p \in Processes, restart(p) PROVE IInv'
<1> USE CachePolicy
<1> DEFINE dead == [Idle EXCEPT !.pc = "done"]
<1>1. /\ UNCHANGED <<clock, upstream, until, file>>
      /\ call' = [c \in Calls |-> IF ProcessOf[c] = p /\ call[c].pc # "idle"
                                  THEN dead ELSE call[c]]
      /\ flights' = [flights EXCEPT ![p] = None] /\ last' = [last EXCEPT ![p] = None]
      /\ restarts' \in 0 .. MaxRestarts
  BY DEF restart, IInv, TypeOK
<1>2. /\ dead \in Task /\ dead.pc = "done" /\ dead.now = 0 /\ dead.envelope = None
      /\ dead.refreshed = None /\ dead.result = None
  <2>1. Idle.now = 0
    BY DEF Idle
  <2> QED BY <2>1, IdleTask DEF Task
<1> HIDE DEF dead
<1>3. TypeOK'
  BY <1>1, <1>2 DEF IInv, TypeOK
<1>4. SourceInv' /\ Trusted(file)'
  BY <1>1 DEF IInv, SourceInv, Trusted, Honest
<1>5. FlightInv'
  <2> SUFFICES ASSUME NEW c \in Calls PROVE (call[c].pc \in InFlight <=> Flight(c) = c)'
    BY DEF FlightInv
  <2>0. call[c].pc \in InFlight <=> Flight(c) = c
    BY DEF IInv, FlightInv
  <2>1. CASE ProcessOf[c] = p
    <3>1. call'[c].pc \notin InFlight
      BY <1>1, <1>2, <2>1 DEF InFlight
    <3>2. Flight(c)' = None /\ None # c
      BY <1>1, <2>1 DEF Flight, IInv, TypeOK
    <3> QED BY <3>1, <3>2
  <2>2. CASE ProcessOf[c] # p
    BY <1>1, <2>0, <2>2 DEF Flight, IInv, TypeOK
  <2> QED BY <2>1, <2>2
<1>6. ASSUME NEW c \in Calls PROVE (TaskInv(c) /\ AnswerInv(c))'
  <2>0. TaskInv(c) /\ AnswerInv(c) /\ clock \in Int /\ clock >= 0
    BY DEF IInv, TypeOK, Time
  <2>1. CASE call'[c] = dead
    BY <1>1, <1>2, <2>0, <2>1 DEF TaskInv, AnswerInv, Justified, Trusted
  <2>2. CASE call'[c] = call[c]
    BY <1>1, <2>0, <2>2 DEF TaskInv, AnswerInv, Justified, Trusted, Honest
  <2> QED BY <1>1, <2>1, <2>2
<1> QED BY <1>3, <1>4, <1>5, <1>6 DEF IInv

----------------------------------------------------------------------------
(* The theorems *)

LEMMA InitInv == Init => IInv
<1> SUFFICES ASSUME Init PROVE IInv
  OBVIOUS
<1> USE CachePolicy
<1>1. TypeOK
  <2>1. 0 \in Time /\ 1 \in Version /\ NotYet \in 0 .. NotYet /\ 0 \in 0 .. MaxRestarts
    BY DEF Time, Version, NotYet
  <2> QED BY <2>1, IdleTask DEF Init, TypeOK
<1>2. FlightInv
  BY DEF Init, FlightInv, Flight, InFlight, Idle
<1>3. SourceInv /\ Trusted(file)
  BY DEF Init, SourceInv, Trusted
<1>4. ASSUME NEW c \in Calls PROVE TaskInv(c) /\ AnswerInv(c)
  BY DEF Init, Idle, TaskInv, AnswerInv, Trusted, Justified
<1> QED BY <1>1, <1>2, <1>3, <1>4 DEF IInv

LEMMA NextInv == IInv /\ [Next]_vars => IInv'
<1> SUFFICES ASSUME IInv, [Next]_vars PROVE IInv'
  OBVIOUS
<1>1. CASE UNCHANGED vars
  BY <1>1 DEF vars, IInv, TypeOK, FlightInv, Flight, SourceInv, Trusted, Honest, TaskInv,
              AnswerInv, Justified
<1>2. CASE tick \/ publish
  BY <1>2, WorldKeeps
<1>3. ASSUME NEW c \in Calls,
             \/ \E force \in BOOLEAN : get_freshness_report(c, force)
             \/ cancel(c) \/ run_cached(c) \/ flight(c)
             \/ refresh_wait_timed_out(c) \/ reload(c) \/ lead(c)
             \/ \E validator \in BOOLEAN : fetch(c, validator)
             \/ revalidate(c) \/ fetch_fails(c) \/ save(c) \/ save_fails(c) \/ land(c)
      PROVE  IInv'
  BY <1>3, ReportKeeps, AnswerKeeps, RunCachedKeeps, FlightKeeps, LeadKeeps, FetchKeeps,
     SaveKeeps, LandKeeps
<1>4. ASSUME NEW p \in Processes, restart(p) PROVE IInv'
  BY <1>4, RestartKeeps
<1> QED BY <1>1, <1>2, <1>3, <1>4 DEF Next

\* Whatever its tasks, processes and restarts, the file of a source never says
\* that a version was confirmed when it had already been replaced, and every
\* process has one flight, led by the task that is in it.
THEOREM CacheIsSound == Spec => []CacheSound
<1>1. IInv => CacheSound
  BY InvariantImplies
<1> QED BY <1>1, InitInv, NextInv, PTL DEF Spec

\* No report is told that a version is younger than it is, for every policy
\* that CachePolicy accepts, the one that never believes anything included.
THEOREM AnswersAreHonest == Spec => []AnswerHonest
<1>1. IInv => AnswerHonest
  BY InvariantImplies
<1> QED BY <1>1, InitInv, NextInv, PTL DEF Spec
=============================================================================
