------------------------ MODULE ResearchQueueProofs ------------------------
(***************************************************************************)
(* What ResearchQueue keeps for any number of runs, characters, calls,     *)
(* leases and failures: the three stores agree (QueueSound), reservations  *)
(* are dropped by their own run only (ReservationOfRun) and kept while it  *)
(* is there (ReservationKept).                                             *)
(***************************************************************************)
EXTENDS ResearchQueue, FiniteSetTheorems, TLAPS

InFlight == {"begun", "committed", "finalized"}
Cleaning == {"releasing", "removing"}

\* The lock is held from the first write to the last one, and a cleanup is the
\* only call with a run.
LockInv ==
    \A c \in Calls :
        /\ call[c].pc \in InFlight \cup Cleaning => lock = c
        /\ call[c].run # None <=> call[c].pc \in Cleaning
        /\ call[c].pc \in InFlight \cup {"saving", "read"} =>
               call[c].case \in Case /\ call[c].attempt \in Attempt
        /\ call[c].pc = "saving" => call[c].file \in Lease /\ call[c].attempt.review \in Reviews

\* What an acceptance has written so far is what the stores say.
FlightInv ==
    \A c \in Calls : LET k == call[c].case IN
        /\ call[c].pc \in InFlight =>
               queue[k].status = "accepting" /\ queue[k].attempt = call[c].attempt
        /\ call[c].pc = "begun" => receipt[k] = None
        /\ call[c].pc \in {"committed", "finalized"} => receipt[k] = call[c].attempt
        /\ call[c].pc = "finalized" => AcceptedInLedger(k)

\* A cleanup has found no attempt in flight, and releases what its run has
\* collected.
CleanInv ==
    \A c \in Calls : call[c].pc \in Cleaning =>
        /\ \A k \in CasesOf(call[c].run) : queue[k].status # "accepting"
        /\ call[c].todo \cup call[c].released \subseteq
               {k \in CasesOf(call[c].run) : queue[k].status \notin {"absent", "registered"}}

\* A run whose directory is gone has no rows; only those of cases that a
\* collection has yet to insert are still to come, and fail.
StoreInv ==
    \A k \in Case :
        /\ queue[k].status = "accepting" => queue[k].attempt # None
        /\ queue[k].status = "accepted" => receipt[k] # None /\ AcceptedInLedger(k)
        /\ receipt[k] # None =>
               \/ queue[k].status \in {"accepting", "accepted"} /\ queue[k].attempt = receipt[k]
               \/ queue[k].status = "gone" /\ AcceptedInLedger(k)
        /\ directory[RunOf[k]] = "removed" => queue[k].status \in {"registered", "gone"}

Waiting == {"queued", "claimed", "accepting", "acceptance_rejected"}
Reserved(k) == ledger[CharacterOf[k]] # None /\ ledger[CharacterOf[k]].owner = k

\* A case that nobody else has collected is reserved, or a cleanup of its run
\* has released it and knows that it has.
ReservedInv ==
    \A k \in Case :
        /\ queue[k].status = "registered" => Reserved(k)
        /\ /\ queue[k].status \in Waiting /\ RunOf[k] \notin interrupted
           /\ \A j \in Case \ {k} : CharacterOf[j] = CharacterOf[k] => queue[j].status = "absent"
           => \/ Reserved(k)
              \/ /\ ledger[CharacterOf[k]] = None
                 /\ \E c \in Calls : call[c].run = RunOf[k] /\ k \in call[c].released

IInv == TypeOK /\ LockInv /\ FlightInv /\ CleanInv /\ StoreInv /\ ReservedInv

----------------------------------------------------------------------------
(* Steps that change one row of a queue only *)

RowOK(row) ==
    /\ row \in Row /\ row.lease <= row.leases
    /\ row.live => row.lease # 0
    /\ row.status \in {"claimed", "accepting"} =>
           row.lease # 0 \/ row.attempt.origin = "acceptance_rejected"

\* A row may change in what no store speaks of; or a case without a receipt goes
\* from waiting to waiting, or is inserted, while no call has it in flight.
LEMMA RowKeeps ==
    ASSUME IInv, NEW k \in Case, NEW row, RowOK(row), queue' = [queue EXCEPT ![k] = row],
           UNCHANGED <<files, directory, ledger, receipt, lock, call, faults>>,
           \/ row.status = queue[k].status /\ row.attempt = queue[k].attempt
           \/ /\ queue[k].status \in Waiting \cup {"registered"}
              /\ row.status \in {"queued", "claimed", "acceptance_rejected"}
              /\ queue[k].status = "accepting" => lock = None
              /\ receipt[k] = None /\ directory[RunOf[k]] # "removed"
    PROVE  IInv'
<1> USE DEF IInv
<1>0. /\ queue \in [Case -> Row] /\ queue'[k] = row
      /\ \A j \in Case : j # k => queue'[j] = queue[j]
      /\ RunOf \in [Case -> Runs]
  BY ResearchConstants DEF TypeOK
<1>1. TypeOK'
  BY <1>0 DEF TypeOK, RowOK, faults
<1>2. LockInv'
  BY DEF LockInv
<1>3. FlightInv'
  <2>1. ASSUME NEW c \in Calls, call[c].pc \in InFlight
        PROVE  /\ call[c].case \in Case /\ queue'[call[c].case].status = "accepting"
               /\ queue'[call[c].case].attempt = call[c].attempt
    <3>1. /\ lock = c /\ call[c].case \in Case /\ queue[call[c].case].status = "accepting"
          /\ queue[call[c].case].attempt = call[c].attempt /\ c # None
      BY <2>1, ResearchConstants DEF LockInv, FlightInv
    <3>. QED  BY <1>0, <3>1
  <2>. QED  BY <2>1 DEF FlightInv, AcceptedInLedger, InFlight
<1>4. CleanInv'
  <2>1. \A j \in Case : /\ queue'[j].status = "accepting" => queue[j].status = "accepting"
                        /\ queue[j].status \notin {"absent", "registered"} =>
                               queue'[j].status \notin {"absent", "registered"}
    BY <1>0
  <2>. QED  BY <2>1 DEF CleanInv, CasesOf
<1>5. StoreInv'
  BY <1>0 DEF StoreInv, AcceptedInLedger
<1>6. ReservedInv'
  <2>1. \A j \in Case : queue'[j].status = "absent" <=> queue[j].status = "absent"
    BY <1>0 DEF Waiting
  <2>2. \A j \in Case : Reserved(j)' <=> Reserved(j)
    BY DEF Reserved
  <2>3. \A j \in Case : /\ queue'[j].status = "registered" => queue[j].status = "registered"
                        /\ queue'[j].status \in Waiting =>
                               queue[j].status \in Waiting \cup {"registered"}
    BY <1>0 DEF Waiting
  <2>. QED  BY <2>1, <2>2, <2>3 DEF ReservedInv, faults
<1>. QED  BY <1>1, <1>2, <1>3, <1>4, <1>5, <1>6

LEMMA InsertKeeps == ASSUME IInv, NEW k \in Case, insert_case(k)  PROVE IInv'
<1> DEFINE row == [queue[k] EXCEPT !.status = "queued"]
<1>1. /\ queue' = [queue EXCEPT ![k] = row] /\ queue[k].status = "registered"
      /\ directory[RunOf[k]] # "removed"
      /\ UNCHANGED <<files, directory, ledger, receipt, lock, call, faults>>
  BY DEF insert_case, Status, Open
<1>2. queue[k] \in Row /\ RowOK(queue[k])
  BY DEF IInv, TypeOK, RowOK
<1>3. /\ row \in Row /\ row.status = "queued" /\ row.lease = queue[k].lease
      /\ row.live = queue[k].live /\ row.leases = queue[k].leases
  BY <1>2 DEF Row
<1>4. receipt[k] = None
  BY <1>1 DEF IInv, StoreInv
<1> HIDE DEF row
<1>5. RowOK(row)
  BY <1>2, <1>3 DEF RowOK
<1>. QED  BY <1>1, <1>3, <1>4, <1>5, RowKeeps

LEMMA OfferedFacts ==
    ASSUME IInv, NEW k \in Case, Offered(k)
    PROVE  /\ queue[k].status \in {"queued", "claimed"} /\ directory[RunOf[k]] # "removed"
           /\ queue[k].status = "claimed" => ~queue[k].live
           /\ receipt[k] = None /\ RowOK(queue[k])
BY DEF IInv, TypeOK, StoreInv, Offered, Claimable, Open, RowOK

LEMMA ClaimKeeps == ASSUME IInv, NEW k \in Case, claim_case(k)  PROVE IInv'
<1> DEFINE n == queue[k].leases + 1
           row == [queue[k] EXCEPT !.status = "claimed", !.live = TRUE, !.lease = n, !.leases = n]
<1>1. /\ queue' = [queue EXCEPT ![k] = row] /\ queue[k].leases < MaxLeases
      /\ UNCHANGED <<files, directory, ledger, receipt, lock, call, faults>>
  BY DEF claim_case
<1>2. /\ queue[k].status \in {"queued", "claimed"} /\ directory[RunOf[k]] # "removed"
      /\ receipt[k] = None /\ queue[k] \in Row
  BY OfferedFacts DEF claim_case, RowOK
<1>3. n \in 1 .. MaxLeases /\ n \in 0 .. MaxLeases
  BY <1>1, <1>2, ResearchConstants DEF Row
<1> HIDE DEF n
<1>4. /\ row \in Row /\ row.status = "claimed" /\ row.lease = n /\ row.leases = n
  BY <1>2, <1>3 DEF Row
<1> HIDE DEF row
<1>5. RowOK(row)
  BY <1>3, <1>4 DEF RowOK
<1>. QED  BY <1>1, <1>2, <1>4, <1>5, RowKeeps DEF Waiting

LEMMA PacketFailedKeeps == ASSUME IInv, NEW k \in Case, claim_packet_failed(k)  PROVE IInv'
<1> DEFINE row == [queue[k] EXCEPT !.status = "queued", !.lease = 0]
<1>1. /\ queue' = [queue EXCEPT ![k] = row] /\ Offered(k) /\ queue[k].status = "claimed"
      /\ UNCHANGED <<files, directory, ledger, receipt, lock, call, faults>>
  BY DEF claim_packet_failed
<1>2. /\ ~queue[k].live /\ directory[RunOf[k]] # "removed"
      /\ receipt[k] = None /\ queue[k] \in Row
  BY <1>1, OfferedFacts DEF RowOK
<1>3. /\ row \in Row /\ row.status = "queued" /\ row.lease = 0 /\ ~row.live
      /\ row.leases \in Nat
  <2>1. 0 \in 0 .. MaxLeases /\ queue[k].leases \in Nat
    BY <1>2, ResearchConstants DEF Row
  <2>2. row \in Row /\ row.status = "queued" /\ row.lease = 0 /\ row.leases = queue[k].leases
    BY <1>2, <2>1 DEF Row
  <2>3. row.live = queue[k].live
    BY <1>2 DEF Row
  <2> HIDE DEF row
  <2>. QED  BY <1>2, <2>1, <2>2, <2>3
<1> HIDE DEF row
<1>4. RowOK(row)
  BY <1>3 DEF RowOK
<1>. QED  BY <1>1, <1>2, <1>3, <1>4, RowKeeps DEF Waiting

LEMMA ExpireKeeps == ASSUME IInv, NEW k \in Case, expire_lease(k)  PROVE IInv'
<1> DEFINE row == [queue[k] EXCEPT !.live = FALSE]
<1>1. /\ queue' = [queue EXCEPT ![k] = row]
      /\ UNCHANGED <<files, directory, ledger, receipt, lock, call, faults>>
  BY DEF expire_lease
<1>2. RowOK(queue[k])
  BY DEF IInv, TypeOK, RowOK
<1>3. /\ row \in Row /\ row.status = queue[k].status /\ row.attempt = queue[k].attempt
      /\ row.lease = queue[k].lease /\ ~row.live /\ row.leases = queue[k].leases
  BY <1>2 DEF Row, RowOK
<1> HIDE DEF row
<1>4. RowOK(row)
  BY <1>2, <1>3 DEF RowOK
<1>. QED  BY <1>1, <1>3, <1>4, RowKeeps

\* An attempt goes back to where it came from, in a row that is well formed there.
LEMMA BackToOrigin ==
    ASSUME IInv, NEW k \in Case, queue[k].status = "accepting"
    PROVE  /\ RowOK([queue[k] EXCEPT !.status = queue[k].attempt.origin])
           /\ queue[k].attempt \in Attempt
           /\ queue[k].attempt.origin \in {"claimed", "acceptance_rejected"}
           /\ [queue[k] EXCEPT !.status = queue[k].attempt.origin].status = queue[k].attempt.origin
<1> DEFINE o == queue[k].attempt.origin
           row == [queue[k] EXCEPT !.status = o]
<1>1. RowOK(queue[k])
  BY DEF IInv, TypeOK, RowOK
<1>2. queue[k].attempt \in Attempt
  BY <1>1 DEF IInv, StoreInv, RowOK, Row
<1>3. o \in {"claimed", "acceptance_rejected"}
  BY <1>2 DEF Attempt
<1>4. o = "acceptance_rejected" \/ queue[k].lease # 0
  BY <1>1 DEF RowOK
<1> HIDE DEF o
<1>5. /\ row \in Row /\ row.status = o /\ row.lease = queue[k].lease
      /\ row.live = queue[k].live /\ row.leases = queue[k].leases
      /\ row.attempt = queue[k].attempt
  BY <1>1, <1>3 DEF Row, RowOK
<1> HIDE DEF row
<1>6. RowOK(row)
  BY <1>1, <1>3, <1>4, <1>5 DEF RowOK
<1>. QED  BY <1>2, <1>3, <1>5, <1>6 DEF row, o

LEMMA RecoverUncommittedKeeps ==
    ASSUME IInv, NEW k \in Case, recover_uncommitted(k)
    PROVE  IInv'
<1> DEFINE row == [queue[k] EXCEPT !.status = queue[k].attempt.origin]
<1>1. /\ queue' = [queue EXCEPT ![k] = row] /\ lock = None /\ queue[k].status = "accepting"
      /\ receipt[k] = None /\ directory[RunOf[k]] # "removed"
      /\ UNCHANGED <<files, directory, ledger, receipt, lock, call, faults>>
  BY DEF recover_uncommitted, Replayed, Status, Open
<1>2. RowOK(row) /\ row.status \in {"claimed", "acceptance_rejected"}
  BY <1>1, BackToOrigin
<1> HIDE DEF row
<1>. QED  BY <1>1, <1>2, RowKeeps DEF Waiting

----------------------------------------------------------------------------
(* Collection *)

LEMMA RecordKeeps == ASSUME IInv, NEW k \in Case, record_case(k)  PROVE IInv'
<1> DEFINE h == CharacterOf[k]
           row == [queue[k] EXCEPT !.status = "registered"]
           own == [owner |-> k, status |-> "queued"]
<1>1. /\ queue' = [queue EXCEPT ![k] = row] /\ queue[k].status = "absent"
      /\ ledger[h] = None /\ ledger' = [ledger EXCEPT ![h] = own]
      /\ directory[RunOf[k]] # "removed"
      /\ UNCHANGED <<files, directory, receipt, lock, call, faults>>
  BY DEF record_case, Status, Open
<1>2. /\ RowOK(queue[k]) /\ queue \in [Case -> Row] /\ h \in Characters
      /\ ledger \in [Characters -> Reservation \cup {None}]
  BY ResearchConstants DEF IInv, TypeOK, RowOK
<1>3. /\ row \in Row /\ row.status = "registered" /\ row.lease = queue[k].lease
      /\ row.live = queue[k].live /\ row.leases = queue[k].leases
      /\ row.attempt = queue[k].attempt
  BY <1>2 DEF Row, RowOK
<1>4. own \in Reservation /\ own # None /\ own.owner = k /\ own.status = "queued"
  BY ResearchConstants DEF Reservation
<1> HIDE DEF row, own, h
<1>5. /\ queue'[k] = row /\ \A j \in Case : j # k => queue'[j] = queue[j]
      /\ ledger'[h] = own /\ \A g \in Characters : g # h => ledger'[g] = ledger[g]
      /\ CharacterOf \in [Case -> Characters]
  BY <1>1, <1>2, ResearchConstants
<1>6. TypeOK'
  BY <1>1, <1>2, <1>3, <1>4 DEF IInv, TypeOK, RowOK, faults
<1>7. LockInv'
  BY <1>1 DEF IInv, LockInv
<1>a. \A j \in Case : AcceptedInLedger(j) => AcceptedInLedger(j)'
  BY <1>1, <1>5 DEF AcceptedInLedger
<1>8. FlightInv'
  <2>1. ASSUME NEW c \in Calls, call[c].pc \in InFlight
        PROVE  /\ call[c].case \in Case /\ call[c].case # k
               /\ queue'[call[c].case] = queue[call[c].case]
    <3>1. call[c].case \in Case /\ queue[call[c].case].status = "accepting"
      BY <2>1 DEF IInv, LockInv, FlightInv
    <3>. QED  BY <1>1, <1>5, <3>1
  <2>. QED  BY <1>1, <1>a, <2>1 DEF IInv, FlightInv, InFlight
<1>9. CleanInv'
  BY <1>1, <1>3, <1>5 DEF IInv, CleanInv, CasesOf
<1>10. StoreInv'
  BY <1>1, <1>3, <1>5, <1>a DEF IInv, StoreInv
<1>11. ReservedInv'
  <2>1. ASSUME NEW j \in Case, j # k, CharacterOf[j] # h
        PROVE  /\ Reserved(j)' <=> Reserved(j)
               /\ ledger'[CharacterOf[j]] = ledger[CharacterOf[j]]
    BY <1>5, <2>1 DEF Reserved
  <2>2. ASSUME NEW j \in Case, j # k, CharacterOf[j] = h
        PROVE  ~Reserved(j) /\ queue'[k].status # "absent" /\ CharacterOf[k] = h
    BY <1>1, <1>3, <1>5, <2>2 DEF Reserved, h
  <2>3. Reserved(k)'
    BY <1>4, <1>5 DEF Reserved, h
  <2>. QED  BY <1>1, <1>3, <1>5, <2>1, <2>2, <2>3 DEF IInv, ReservedInv, Waiting, faults
<1>. QED  BY <1>6, <1>7, <1>8, <1>9, <1>10, <1>11 DEF IInv

LEMMA InsertFailsKeeps == ASSUME IInv, NEW k \in Case, insert_case_fails(k)  PROVE IInv'
<1> DEFINE h == CharacterOf[k]
<1>1. /\ queue[k].status = "registered" /\ failures' \in 0 .. MaxFailures
      /\ UNCHANGED <<files, directory, receipt, lock, call, interrupted>>
  BY ResearchConstants DEF insert_case_fails, Fails, IInv, TypeOK
<1>2. PICK s \in {"gone", "recovery"} :
          /\ queue' = [queue EXCEPT ![k] = [queue[k] EXCEPT !.status = s]]
          /\ s = "recovery" => directory[RunOf[k]] # "removed"
  BY DEF insert_case_fails, Status, Open
<1>3. /\ RowOK(queue[k]) /\ queue \in [Case -> Row] /\ h \in Characters
      /\ ledger \in [Characters -> Reservation \cup {None}]
      /\ CharacterOf \in [Case -> Characters]
  BY ResearchConstants DEF IInv, TypeOK, RowOK
<1> DEFINE row == [queue[k] EXCEPT !.status = s]
<1>4. /\ row \in Row /\ row.status = s /\ row.lease = queue[k].lease
      /\ row.live = queue[k].live /\ row.leases = queue[k].leases
  BY <1>3 DEF Row, RowOK
<1>5. queue'[k] = row /\ \A j \in Case : j # k => queue'[j] = queue[j]
  BY <1>2, <1>3
<1> HIDE DEF row, h
<1>6. ledger' = ledger \/ (Owns(k) /\ ledger' = [ledger EXCEPT ![h] = None])
  BY DEF insert_case_fails, release_queued_case, h
<1>7. /\ ledger' \in [Characters -> Reservation \cup {None}]
      /\ \A g \in Characters : ledger'[g] # ledger[g] => g = h /\ Owns(k) /\ ledger'[g] = None
  BY <1>3, <1>6
<1>8. Owns(k) => ledger[h] # None /\ ledger[h].owner = k /\ ledger[h].status = "queued"
  BY ResearchConstants DEF Owns, h, Reservation
<1>9. TypeOK'
  BY <1>1, <1>2, <1>3, <1>4, <1>5, <1>7 DEF IInv, TypeOK, RowOK
<1>10. LockInv'
  BY <1>1 DEF IInv, LockInv
<1>a. \A j \in Case : AcceptedInLedger(j) => AcceptedInLedger(j)'
  BY <1>3, <1>7, <1>8 DEF AcceptedInLedger
<1>11. FlightInv'
  <2>1. ASSUME NEW c \in Calls, call[c].pc \in InFlight
        PROVE  /\ call[c].case \in Case /\ call[c].case # k
               /\ queue'[call[c].case] = queue[call[c].case]
    <3>1. call[c].case \in Case /\ queue[call[c].case].status = "accepting"
      BY <2>1 DEF IInv, LockInv, FlightInv
    <3>. QED  BY <1>1, <1>5, <3>1
  <2>. QED  BY <1>1, <1>a, <2>1 DEF IInv, FlightInv, InFlight
<1>12. CleanInv'
  BY <1>1, <1>4, <1>5 DEF IInv, CleanInv, CasesOf
<1>13. StoreInv'
  BY <1>1, <1>2, <1>4, <1>5, <1>a DEF IInv, StoreInv
<1>14. ReservedInv'
  <2>1. ASSUME NEW j \in Case, j # k  PROVE Reserved(j) => Reserved(j)'
    <3>1. CharacterOf[j] \in Characters
      BY <1>3
    <3>. QED  BY <1>7, <1>8, <2>1, <3>1 DEF Reserved, h
  <2>2. ASSUME NEW j \in Case, ledger[CharacterOf[j]] = None  PROVE ledger'[CharacterOf[j]] = None
    <3>1. CharacterOf[j] \in Characters
      BY <1>3
    <3>. QED  BY <1>7, <1>8, <2>2, <3>1
  <2>3. \A j \in Case : queue'[j].status = "absent" <=> queue[j].status = "absent"
    BY <1>1, <1>4, <1>5
  <2>4. \A j \in Case : queue'[j].status \in Waiting \cup {"registered"} => j # k
    BY <1>4, <1>5 DEF Waiting
  <2>5. \A j \in Case : j # k => queue'[j] = queue[j]
    BY <1>5
  <2>. QED  BY <1>1, <2>1, <2>2, <2>3, <2>4, <2>5 DEF IInv, ReservedInv
<1>. QED  BY <1>9, <1>10, <1>11, <1>12, <1>13, <1>14 DEF IInv

----------------------------------------------------------------------------
(* Calls that hold nothing *)

Reading == {"idle", "saving", "read"}

CallOK(s) ==
    /\ s \in CallState
    /\ s.pc \in {"saving", "read"} => s.case \in Case /\ s.attempt \in Attempt
    /\ s.pc = "saving" => s.file \in Lease /\ s.attempt.review \in Reviews

\* A call that looks at things, and one that replaces a review file.
LEMMA ReadingKeeps ==
    ASSUME IInv, NEW c \in Calls, NEW s, CallOK(s), s.pc \in Reading, s.run = None,
           call[c].pc \in Reading, call' = [call EXCEPT ![c] = s],
           files' \in [Case -> [Lease -> Reviews \cup {Skeleton, None}]],
           UNCHANGED <<queue, directory, ledger, receipt, lock, faults>>
    PROVE  IInv'
<1>1. /\ call \in [Calls -> CallState] /\ call'[c] = s
      /\ \A d \in Calls : d # c => call'[d] = call[d]
  BY DEF IInv, TypeOK
<1>2. TypeOK'
  BY <1>1 DEF IInv, TypeOK, CallOK, faults
<1>3. LockInv'
  BY <1>1 DEF IInv, LockInv, CallOK, Reading, InFlight, Cleaning
<1>4. FlightInv'
  BY <1>1 DEF IInv, FlightInv, Reading, InFlight, AcceptedInLedger
<1>5. CleanInv'
  BY <1>1 DEF IInv, CleanInv, Reading, Cleaning, CasesOf
<1>6. StoreInv'
  BY DEF IInv, StoreInv, AcceptedInLedger
<1>7. ReservedInv'
  <2>1. \A d \in Calls : call[d].run # None => d # c /\ call'[d] = call[d]
    BY <1>1 DEF IInv, LockInv, Reading, Cleaning
  <2>2. \A k \in Case : RunOf[k] # None
    BY ResearchConstants
  <2>3. ASSUME NEW k \in Case, NEW d \in Calls, call[d].run = RunOf[k], k \in call[d].released
        PROVE  call'[d].run = RunOf[k] /\ k \in call'[d].released
    BY <2>1, <2>2, <2>3
  <2>. QED  BY <2>3 DEF IInv, ReservedInv, Reserved, faults
<1>. QED  BY <1>2, <1>3, <1>4, <1>5, <1>6, <1>7 DEF IInv

LEMMA IdleOK == Idle \in CallState /\ CallOK(Idle) /\ Idle.pc = "idle" /\ Idle.run = None
<1>1. 0 \in 0 .. LastCase /\ 0 \in 0 .. MaxLeases
  BY ResearchConstants
<1>2. Idle \in CallState
  BY <1>1 DEF Idle, CallState
<1>3. Idle.pc = "idle" /\ Idle.run = None
  BY DEF Idle
<1>. QED  BY <1>2, <1>3 DEF CallOK

\* A call that has just begun and has a case.
Begun(pc, k, t, a) == [pc |-> pc, case |-> k, file |-> t, attempt |-> a,
                       run |-> None, todo |-> {}, released |-> {}]

LEMMA BegunIs ==
    ASSUME NEW p, NEW k, NEW t, NEW a
    PROVE  [Idle EXCEPT !.pc = p, !.case = k, !.file = t, !.attempt = a] = Begun(p, k, t, a)
<1>1. ASSUME NEW s, s = [Idle EXCEPT !.pc = p, !.case = k, !.file = t, !.attempt = a]
      PROVE  s = [pc |-> p, case |-> k, file |-> t, attempt |-> a,
                  run |-> None, todo |-> {}, released |-> {}]
  BY <1>1 DEF Idle
<1>. QED  BY <1>1 DEF Begun

LEMMA BegunCall ==
    ASSUME NEW p \in {"saving", "read", "committed"}, NEW k \in Case, NEW t \in 0 .. MaxLeases,
           NEW a \in Attempt
    PROVE  /\ Begun(p, k, t, a) \in CallState
           /\ Begun(p, k, t, a).pc = p /\ Begun(p, k, t, a).case = k
           /\ Begun(p, k, t, a).file = t /\ Begun(p, k, t, a).attempt = a
           /\ Begun(p, k, t, a).run = None
<1>1. k \in 0 .. LastCase
  BY ResearchConstants DEF Case
<1>2. Begun(p, k, t, a) \in CallState
  BY <1>1 DEF CallState, Begun
<1>. QED  BY <1>2 DEF Begun

LEMMA SaveKeeps ==
    ASSUME IInv, NEW c \in Calls, NEW k \in Case, NEW r \in Reviews, save_review_payload(c, k, r)
    PROVE  IInv'
<1> DEFINE a == [review |-> r, origin |-> "claimed"]
           s(t) == [Idle EXCEPT !.pc = "saving", !.case = k, !.file = t, !.attempt = a]
<1>1. PICK t \in ReviewFiles(k) : call' = [call EXCEPT ![c] = s(t)]
  BY DEF save_review_payload
<1>2. /\ call[c].pc = "idle" /\ UNCHANGED <<queue, files, directory, ledger, receipt, lock, faults>>
  BY DEF save_review_payload
<1>3. a \in Attempt /\ a.review = r
  BY DEF Attempt
<1>4. t \in Lease /\ t \in 0 .. MaxLeases
  BY ResearchConstants DEF ReviewFiles, Lease
<1>5. s(t) = Begun("saving", k, t, a)
  BY BegunIs
<1> HIDE DEF a, s
<1>6. /\ s(t) \in CallState /\ s(t).pc = "saving" /\ s(t).case = k /\ s(t).file = t
      /\ s(t).attempt = a /\ s(t).run = None
  BY <1>3, <1>4, <1>5, BegunCall
<1>7. CallOK(s(t))
  BY <1>3, <1>4, <1>6 DEF CallOK
<1>8. files' \in [Case -> [Lease -> Reviews \cup {Skeleton, None}]]
  BY <1>2 DEF IInv, TypeOK
<1>. QED  BY <1>1, <1>2, <1>6, <1>7, <1>8, ReadingKeeps DEF Reading

LEMMA ReplaceKeeps == ASSUME IInv, NEW c \in Calls, replace_review(c)  PROVE IInv'
<1>1. /\ call[c].pc = "saving" /\ call' = [call EXCEPT ![c] = Idle]
      /\ UNCHANGED <<queue, directory, ledger, receipt, lock, faults>>
  BY DEF replace_review, Ends
<1>2. /\ call[c].case \in Case /\ call[c].file \in Lease /\ call[c].attempt.review \in Reviews
      /\ files \in [Case -> [Lease -> Reviews \cup {Skeleton, None}]]
  BY <1>1 DEF IInv, LockInv, TypeOK
<1>3. files' \in [Case -> [Lease -> Reviews \cup {Skeleton, None}]]
  BY <1>2 DEF replace_review
<1>. QED  BY <1>1, <1>3, IdleOK, ReadingKeeps DEF Reading

LEMMA SubmitsKeeps ==
    ASSUME IInv, NEW c \in Calls, NEW k \in Case, NEW t,
           NEW origin \in {"claimed", "acceptance_rejected"}, Submits(c, k, t, origin)
    PROVE  IInv'
<1> DEFINE a == [review |-> files[k][t], origin |-> origin]
           s == [Idle EXCEPT !.pc = "read", !.case = k, !.file = t, !.attempt = a]
<1>1. /\ call[c].pc = "idle" /\ t \in ReviewFiles(k) /\ call' = [call EXCEPT ![c] = s]
      /\ UNCHANGED <<queue, files, directory, ledger, receipt, lock, faults>>
  BY DEF Submits
<1>2. t \in Lease /\ t \in 0 .. MaxLeases /\ files[k][t] \in Reviews \cup {Skeleton}
  BY <1>1, ResearchConstants DEF ReviewFiles, Lease, IInv, TypeOK
<1>3. a \in Attempt
  BY <1>2 DEF Attempt
<1>4. s = Begun("read", k, t, a)
  BY BegunIs
<1> HIDE DEF a, s
<1>5. s \in CallState /\ s.pc = "read" /\ s.case = k /\ s.attempt = a /\ s.run = None
  BY <1>2, <1>3, <1>4, BegunCall
<1>6. CallOK(s)
  BY <1>3, <1>5 DEF CallOK
<1>7. files' \in [Case -> [Lease -> Reviews \cup {Skeleton, None}]]
  BY <1>1 DEF IInv, TypeOK
<1>. QED  BY <1>1, <1>5, <1>6, <1>7, ReadingKeeps DEF Reading

LEMMA RejectedKeeps == ASSUME IInv, NEW c \in Calls, rejected(c)  PROVE IInv'
<1>1. /\ call[c].pc = "read" /\ call' = [call EXCEPT ![c] = Idle]
      /\ UNCHANGED <<queue, files, directory, ledger, receipt, lock, faults>>
  BY DEF rejected, Ends
<1>2. files' \in [Case -> [Lease -> Reviews \cup {Skeleton, None}]]
  BY <1>1 DEF IInv, TypeOK
<1>. QED  BY <1>1, <1>2, IdleOK, ReadingKeeps DEF Reading

\* What the invariant does not speak of: a review file that is made.
LEMMA FilesKeep ==
    ASSUME IInv, files' \in [Case -> [Lease -> Reviews \cup {Skeleton, None}]],
           directory' \in [Runs -> {"present", "staged", "removed"}],
           \A r \in Runs : directory'[r] = "removed" => directory[r] = "removed",
           UNCHANGED <<queue, ledger, receipt, lock, call, faults>>
    PROVE  IInv'
<1>1. TypeOK'
  BY DEF IInv, TypeOK, faults
<1>2. LockInv' /\ FlightInv' /\ CleanInv' /\ ReservedInv'
  BY DEF IInv, LockInv, FlightInv, CleanInv, ReservedInv, Reserved, AcceptedInLedger, CasesOf,
         faults
<1>3. StoreInv'
  BY ResearchConstants DEF IInv, StoreInv, AcceptedInLedger
<1>. QED  BY <1>1, <1>2, <1>3 DEF IInv

LEMMA InitReviewKeeps == ASSUME IInv, NEW k \in Case, init_review(k)  PROVE IInv'
<1>1. files' = [files EXCEPT ![k][queue[k].lease] = Skeleton]
      /\ UNCHANGED <<queue, directory, ledger, receipt, lock, call, faults>>
  BY DEF init_review
<1>2. files' \in [Case -> [Lease -> Reviews \cup {Skeleton, None}]]
  BY <1>1 DEF IInv, TypeOK
<1>3. directory' \in [Runs -> {"present", "staged", "removed"}]
  BY <1>1 DEF IInv, TypeOK
<1>. QED  BY <1>1, <1>2, <1>3, FilesKeep

LEMMA RestoreStagedKeeps == ASSUME IInv, NEW r \in Runs, restore_staged(r)  PROVE IInv'
<1>1. directory' = [directory EXCEPT ![r] = "present"]
      /\ UNCHANGED <<queue, files, ledger, receipt, lock, call, faults>>
  BY DEF restore_staged
<1>2. /\ files' \in [Case -> [Lease -> Reviews \cup {Skeleton, None}]]
      /\ directory' \in [Runs -> {"present", "staged", "removed"}]
      /\ \A q \in Runs : directory'[q] = "removed" => directory[q] = "removed"
  BY <1>1 DEF IInv, TypeOK
<1>. QED  BY <1>1, <1>2, FilesKeep

----------------------------------------------------------------------------
(* Steps of the call that holds the lock, or takes it *)

LEMMA OnlyHolder ==
    ASSUME IInv, NEW c \in Calls, lock \in {c, None}
    PROVE  /\ \A d \in Calls : d # c => call[d].pc \in Reading /\ call[d].run = None
           /\ lock = None => call[c].pc \in Reading
<1>1. \A d \in Calls : call[d].pc \in Reading \cup InFlight \cup Cleaning
  BY DEF IInv, TypeOK, CallState, Reading, InFlight, Cleaning
<1>2. \A d \in Calls : call[d].pc \in InFlight \cup Cleaning => lock = d
  BY DEF IInv, LockInv
<1>3. None \notin Calls
  BY ResearchConstants
<1>4. \A d \in Calls : d # c => call[d].pc \in Reading
  BY <1>1, <1>2, <1>3
<1>5. \A d \in Calls : call[d].pc \in Reading => call[d].run = None
  BY DEF IInv, LockInv, Reading, Cleaning
<1>. QED  BY <1>1, <1>2, <1>3, <1>4, <1>5

\* What the holder's next state must be for the lock to be kept as it should.
HolderOK(c, s) ==
    /\ s \in CallState /\ s.pc \in InFlight \cup Cleaning \cup {"idle"}
    /\ s.pc # "idle" => lock' = c
    /\ s.run # None <=> s.pc \in Cleaning
    /\ s.pc \in InFlight => s.case \in Case /\ s.attempt \in Attempt

LEMMA HolderKeeps ==
    ASSUME IInv, NEW c \in Calls, lock \in {c, None}, lock' \in {c, None}, NEW s, HolderOK(c, s),
           call' = [call EXCEPT ![c] = s]
    PROVE  /\ LockInv' /\ call' \in [Calls -> CallState] /\ call'[c] = s
           /\ \A d \in Calls : d # c => /\ call'[d] = call[d] /\ call[d].pc \in Reading
                                        /\ call[d].run = None
<1>1. /\ call \in [Calls -> CallState] /\ call'[c] = s
      /\ \A d \in Calls : d # c => call'[d] = call[d]
  BY DEF IInv, TypeOK
<1>2. \A d \in Calls : d # c => call[d].pc \in Reading /\ call[d].run = None
  BY OnlyHolder
<1>3. call' \in [Calls -> CallState]
  BY <1>1 DEF HolderOK
<1>4. LockInv'
  BY <1>1, <1>2 DEF IInv, LockInv, HolderOK, Reading, InFlight, Cleaning
<1>. QED  BY <1>1, <1>2, <1>3, <1>4

\* An acceptance moves on, or ends, with the row and the stores it has come to.
LEMMA AcceptStepKeeps ==
    ASSUME IInv, NEW c \in Calls, lock \in {c, None}, lock' \in {c, None},
           call[c].run = None,
           NEW s, HolderOK(c, s), s.run = None, call' = [call EXCEPT ![c] = s],
           NEW k \in Case, NEW row, RowOK(row), queue' = [queue EXCEPT ![k] = row],
           queue[k].status \in Waiting, row.status \in Waiting \cup {"accepted"},
           receipt' \in [Case -> Attempt \cup {None}], \A j \in Case : j # k => receipt'[j] = receipt[j],
           ledger' \in [Characters -> Reservation \cup {None}],
           \A j \in Case : AcceptedInLedger(j) => AcceptedInLedger(j)',
           \A j \in Case : Reserved(j) => Reserved(j)',
           UNCHANGED <<files, directory, interrupted>>, failures' \in 0 .. MaxFailures,
           s.pc \in InFlight => s.case = k /\ row.status = "accepting" /\ row.attempt = s.attempt,
           s.pc = "begun" => receipt'[k] = None,
           s.pc \in {"committed", "finalized"} => receipt'[k] = s.attempt,
           s.pc = "finalized" => AcceptedInLedger(k)',
           row.status = "accepting" => row.attempt # None,
           row.status = "accepted" => receipt'[k] # None /\ AcceptedInLedger(k)',
           receipt'[k] # None => /\ row.status \in {"accepting", "accepted"}
                                 /\ row.attempt = receipt'[k]
    PROVE  IInv'
<1>1. /\ LockInv' /\ call' \in [Calls -> CallState] /\ call'[c] = s
      /\ \A d \in Calls : d # c => /\ call'[d] = call[d] /\ call[d].pc \in Reading
                                   /\ call[d].run = None
  BY HolderKeeps
<1>2. /\ queue \in [Case -> Row] /\ queue'[k] = row
      /\ \A j \in Case : j # k => queue'[j] = queue[j]
  BY DEF IInv, TypeOK
<1>3. TypeOK'
  BY <1>1, <1>2 DEF IInv, TypeOK, RowOK
<1>4. FlightInv'
  BY <1>1, <1>2 DEF FlightInv, Reading, InFlight
<1>5. CleanInv'
  BY <1>1 DEF CleanInv, HolderOK, Reading, Cleaning
<1>6. StoreInv'
  BY <1>2 DEF IInv, StoreInv, Waiting
<1>7. ReservedInv'
  <2>1. \A j \in Case : /\ queue'[j].status = "registered" => queue[j].status = "registered"
                        /\ queue'[j].status \in Waiting => queue[j].status \in Waiting
                        /\ queue'[j].status = "absent" <=> queue[j].status = "absent"
    BY <1>2 DEF Waiting
  <2>2. \A j \in Case, d \in Calls : call[d].run # RunOf[j]
    BY <1>1, ResearchConstants
  <2>. QED  BY <2>1, <2>2 DEF IInv, ReservedInv
<1>. QED  BY <1>1, <1>3, <1>4, <1>5, <1>6, <1>7 DEF IInv

LEMMA BeginKeeps == ASSUME IInv, NEW c \in Calls, begin_accepting(c)  PROVE IInv'
<1> DEFINE k == call[c].case
           a == call[c].attempt
           row == [queue[k] EXCEPT !.status = "accepting", !.attempt = a]
           s == [call[c] EXCEPT !.pc = "begun"]
<1>1. /\ call[c].pc = "read" /\ lock = None /\ lock' = c
      /\ queue' = [queue EXCEPT ![k] = row] /\ call' = [call EXCEPT ![c] = s]
      /\ UNCHANGED <<files, directory, ledger, receipt, faults>>
  BY DEF begin_accepting
<1>2. /\ queue[k].status \in {"claimed", "acceptance_rejected"}
      /\ a.origin = "claimed" => queue[k].status = "claimed" /\ queue[k].live
  BY DEF begin_accepting, ValidLease
<1>3. k \in Case /\ a \in Attempt /\ call[c].run = None /\ call[c] \in CallState
  BY <1>1 DEF IInv, TypeOK, LockInv, InFlight, Cleaning
<1>4. a # None /\ a.origin \in {"claimed", "acceptance_rejected"}
  BY <1>3, ResearchConstants DEF Attempt
<1>5. RowOK(queue[k]) /\ receipt[k] = None
  BY <1>2, <1>3 DEF IInv, TypeOK, StoreInv, RowOK
<1>6. a.origin = "claimed" => queue[k].lease # 0
  BY <1>2, <1>5 DEF RowOK
<1>7. s \in CallState /\ s.pc = "begun" /\ s.case = k /\ s.attempt = a /\ s.run = None
  BY <1>3 DEF CallState
<1> HIDE DEF k, a, s
<1>8. /\ row \in Row /\ row.status = "accepting" /\ row.attempt = a /\ row.lease = queue[k].lease
      /\ row.live = queue[k].live /\ row.leases = queue[k].leases
  BY <1>3, <1>5 DEF Row, RowOK
<1> HIDE DEF row
<1>9. RowOK(row)
  BY <1>4, <1>5, <1>6, <1>8 DEF RowOK
<1>10. HolderOK(c, s)
  BY <1>1, <1>3, <1>7 DEF HolderOK, InFlight, Cleaning
<1>11. /\ receipt' \in [Case -> Attempt \cup {None}] /\ failures' \in 0 .. MaxFailures
       /\ ledger' \in [Characters -> Reservation \cup {None}]
       /\ \A j \in Case : receipt'[j] = receipt[j]
       /\ \A j \in Case : Reserved(j) => Reserved(j)'
       /\ \A j \in Case : AcceptedInLedger(j) => AcceptedInLedger(j)'
       /\ UNCHANGED <<files, directory, interrupted>>
  BY <1>1 DEF IInv, TypeOK, faults, Reserved, AcceptedInLedger
<1>12. queue[k].status \in Waiting /\ row.status \in Waiting \cup {"accepted"}
  BY <1>2, <1>8 DEF Waiting, k
<1>. QED
  BY <1>1, <1>3, <1>4, <1>5, <1>7, <1>8, <1>9, <1>10, <1>11, <1>12, AcceptStepKeeps DEF InFlight

\* A call with an attempt in flight, and its row.
LEMMA InFlightFacts ==
    ASSUME IInv, NEW c \in Calls, call[c].pc \in InFlight
    PROVE  /\ lock = c /\ call[c].run = None /\ call[c] \in CallState
           /\ call[c].case \in Case /\ call[c].attempt \in Attempt /\ call[c].attempt # None
           /\ RowOK(queue[call[c].case]) /\ queue[call[c].case].status = "accepting"
           /\ queue[call[c].case].attempt = call[c].attempt
           /\ call[c].pc = "begun" => receipt[call[c].case] = None
           /\ call[c].pc \in {"committed", "finalized"} => receipt[call[c].case] = call[c].attempt
           /\ call[c].pc = "finalized" => AcceptedInLedger(call[c].case)
<1>1. /\ lock = c /\ call[c].case \in Case /\ call[c].attempt \in Attempt /\ call[c].run = None
  BY DEF IInv, LockInv, InFlight, Cleaning
<1>2. call[c].attempt # None
  BY <1>1, ResearchConstants
<1>3. RowOK(queue[call[c].case])
  BY <1>1 DEF IInv, TypeOK, RowOK
<1>. QED  BY <1>1, <1>2, <1>3 DEF IInv, FlightInv, TypeOK

LEMMA AcceptUnitKeeps == ASSUME IInv, NEW c \in Calls, accept_research_unit(c)  PROVE IInv'
<1> DEFINE k == call[c].case
           a == call[c].attempt
           s == [call[c] EXCEPT !.pc = "committed"]
           row == queue[k]
<1>1. /\ call[c].pc = "begun" /\ receipt' = [receipt EXCEPT ![k] = a]
      /\ call' = [call EXCEPT ![c] = s]
      /\ UNCHANGED <<queue, files, directory, ledger, lock, faults>>
  BY DEF accept_research_unit
<1>2. /\ lock = c /\ call[c].run = None /\ call[c] \in CallState
      /\ k \in Case /\ a \in Attempt /\ a # None
      /\ RowOK(row) /\ row.status = "accepting" /\ row.attempt = a
  BY <1>1, InFlightFacts DEF InFlight
<1>3. s \in CallState /\ s.pc = "committed" /\ s.case = k /\ s.attempt = a /\ s.run = None
  BY <1>2 DEF CallState
<1> HIDE DEF k, a, s
<1>4. /\ receipt' \in [Case -> Attempt \cup {None}] /\ receipt'[k] = a
      /\ \A j \in Case : j # k => receipt'[j] = receipt[j]
  BY <1>1, <1>2 DEF IInv, TypeOK
<1>5. HolderOK(c, s) /\ lock' = c
  BY <1>1, <1>2, <1>3 DEF HolderOK, InFlight, Cleaning
<1>6. queue[k].status \in Waiting /\ row.status \in Waiting /\ UNCHANGED <<files, directory, interrupted>>
  BY <1>1, <1>2 DEF Waiting, faults
<1>7. /\ failures' \in 0 .. MaxFailures /\ ledger' \in [Characters -> Reservation \cup {None}]
      /\ \A j \in Case : Reserved(j) => Reserved(j)'
      /\ \A j \in Case : AcceptedInLedger(j) => AcceptedInLedger(j)'
      /\ queue' = [queue EXCEPT ![k] = row]
  BY <1>1, <1>2 DEF IInv, TypeOK, Reserved, AcceptedInLedger, faults
<1> HIDE DEF row
<1>8. call' = [call EXCEPT ![c] = s]
  BY <1>1
<1>. QED
  BY <1>2, <1>3, <1>4, <1>5, <1>6, <1>7, <1>8, AcceptStepKeeps DEF InFlight

LEMMA AcceptanceRejectedKeeps == ASSUME IInv, NEW c \in Calls, acceptance_rejected(c)  PROVE IInv'
<1> DEFINE k == call[c].case
           row == [queue[k] EXCEPT !.status = "acceptance_rejected", !.lease = 0, !.live = FALSE]
<1>1. /\ call[c].pc = "begun" /\ queue' = [queue EXCEPT ![k] = row]
      /\ call' = [call EXCEPT ![c] = Idle] /\ lock' = IF lock = c THEN None ELSE lock
      /\ UNCHANGED <<files, directory, ledger, receipt, faults>>
  BY DEF acceptance_rejected, Unlocks, Ends
<1>2. /\ lock = c /\ call[c].run = None /\ k \in Case
      /\ RowOK(queue[k]) /\ queue[k].status = "accepting" /\ receipt[k] = None
  BY <1>1, InFlightFacts DEF InFlight
<1> HIDE DEF k
<1>3. 0 \in 0 .. MaxLeases /\ queue[k] \in Row /\ queue[k].leases \in Nat
  BY <1>2, ResearchConstants DEF RowOK, Row
<1>4. /\ row \in Row /\ row.status = "acceptance_rejected" /\ row.lease = 0
      /\ row.live = FALSE /\ row.leases = queue[k].leases
  BY <1>3 DEF Row
<1> HIDE DEF row
<1>5. RowOK(row)
  BY <1>3, <1>4 DEF RowOK
<1>6. HolderOK(c, Idle) /\ lock' = None
  BY <1>1, <1>2, IdleOK DEF HolderOK, InFlight, Cleaning
<1>7. /\ queue[k].status \in Waiting /\ row.status \in Waiting
      /\ UNCHANGED <<files, directory, interrupted>>
  BY <1>1, <1>2, <1>4 DEF Waiting, faults
<1>8. /\ failures' \in 0 .. MaxFailures /\ ledger' \in [Characters -> Reservation \cup {None}]
      /\ \A j \in Case : Reserved(j) => Reserved(j)'
      /\ \A j \in Case : AcceptedInLedger(j) => AcceptedInLedger(j)'
      /\ receipt' \in [Case -> Attempt \cup {None}] /\ \A j \in Case : receipt'[j] = receipt[j]
  BY <1>1 DEF IInv, TypeOK, Reserved, AcceptedInLedger, faults
<1>. QED
  BY <1>1, <1>2, <1>4, <1>5, <1>6, <1>7, <1>8, IdleOK, AcceptStepKeeps DEF InFlight

LEMMA FinishKeeps ==
    ASSUME IInv, NEW c \in Calls, finish_accepting_after_exception(c)  PROVE IInv'
<1> DEFINE k == call[c].case
           a == call[c].attempt
           row == [queue[k] EXCEPT !.status = a.origin]
<1>1. /\ call[c].pc = "begun" /\ queue' = [queue EXCEPT ![k] = row]
      /\ call' = [call EXCEPT ![c] = Idle] /\ lock' = (IF lock = c THEN None ELSE lock)
      /\ Fails /\ UNCHANGED <<files, directory, ledger, receipt, interrupted>>
  BY DEF finish_accepting_after_exception, Unlocks, Ends, Status
<1>2. /\ lock = c /\ call[c].run = None /\ k \in Case /\ queue[k].attempt = a
      /\ queue[k].status = "accepting" /\ receipt[k] = None
  BY <1>1, InFlightFacts DEF InFlight
<1>3. RowOK(row) /\ row.status \in {"claimed", "acceptance_rejected"}
  BY <1>2, BackToOrigin
<1> HIDE DEF k, a, row
<1>4. HolderOK(c, Idle) /\ lock' = None
  BY <1>1, <1>2, IdleOK DEF HolderOK, InFlight, Cleaning
<1>5. /\ queue[k].status \in Waiting /\ row.status \in Waiting
      /\ UNCHANGED <<files, directory, interrupted>>
  BY <1>1, <1>2, <1>3 DEF Waiting
<1>6. /\ failures' \in 0 .. MaxFailures /\ ledger' \in [Characters -> Reservation \cup {None}]
      /\ \A j \in Case : Reserved(j) => Reserved(j)'
      /\ \A j \in Case : AcceptedInLedger(j) => AcceptedInLedger(j)'
      /\ receipt' \in [Case -> Attempt \cup {None}] /\ \A j \in Case : receipt'[j] = receipt[j]
  BY <1>1, ResearchConstants DEF IInv, TypeOK, Reserved, AcceptedInLedger, Fails
<1>7. call' = [call EXCEPT ![c] = Idle] /\ queue' = [queue EXCEPT ![k] = row]
  BY <1>1
<1>. QED
  BY <1>2, <1>3, <1>4, <1>5, <1>6, <1>7, IdleOK, AcceptStepKeeps DEF InFlight

LEMMA FinalizeKeeps == ASSUME IInv, NEW c \in Calls, finalize_accepted(c)  PROVE IInv'
<1>0. PICK k : k = call[c].case
  OBVIOUS
<1> DEFINE h == CharacterOf[k]
           a == call[c].attempt
           s == [call[c] EXCEPT !.pc = "finalized"]
           row == queue[k]
           own == [owner |-> IF ledger[h] = None THEN k ELSE ledger[h].owner, status |-> "accepted"]
<1>1. /\ call[c].pc = "committed" /\ ledger' = [ledger EXCEPT ![h] = own]
      /\ call' = [call EXCEPT ![c] = s]
      /\ UNCHANGED <<queue, files, directory, receipt, lock, faults>>
  BY <1>0 DEF finalize_accepted
<1>2. /\ lock = c /\ call[c].run = None /\ call[c] \in CallState
      /\ k \in Case /\ a \in Attempt /\ a # None /\ receipt[k] = a
      /\ RowOK(row) /\ row.status = "accepting" /\ row.attempt = a
  BY <1>0, <1>1, InFlightFacts DEF InFlight
<1>3. s \in CallState /\ s.pc = "finalized" /\ s.case = k /\ s.attempt = a /\ s.run = None
  BY <1>0, <1>2 DEF CallState
<1>4. h \in Characters /\ ledger \in [Characters -> Reservation \cup {None}]
      /\ CharacterOf \in [Case -> Characters]
  BY <1>2, ResearchConstants DEF IInv, TypeOK
<1>5. /\ own \in Reservation /\ own.status = "accepted"
      /\ ledger[h] # None => own.owner = ledger[h].owner
  BY <1>2, <1>4 DEF Reservation
<1>6. own # None
  BY <1>5, ResearchConstants
<1> HIDE DEF own
<1>7. /\ ledger'[h] = own /\ ledger' \in [Characters -> Reservation \cup {None}]
      /\ \A g \in Characters : g # h => ledger'[g] = ledger[g]
  BY <1>1, <1>4, <1>5
<1>8. /\ \A j \in Case : Reserved(j) => Reserved(j)'
      /\ \A j \in Case : AcceptedInLedger(j) => AcceptedInLedger(j)'
      /\ AcceptedInLedger(k)'
  <2> HIDE DEF h
  <2>1. ASSUME NEW j \in Case
        PROVE  (Reserved(j) => Reserved(j)') /\ (AcceptedInLedger(j) => AcceptedInLedger(j)')
    <3>1. CharacterOf[j] \in Characters
      BY <1>4
    <3>. QED  BY <1>5, <1>6, <1>7, <3>1 DEF Reserved, AcceptedInLedger
  <2>2. AcceptedInLedger(k)'
    BY <1>5, <1>6, <1>7 DEF AcceptedInLedger, h
  <2>. QED  BY <2>1, <2>2
<1> HIDE DEF a, s
<1>9. HolderOK(c, s) /\ lock' = c
  BY <1>1, <1>2, <1>3 DEF HolderOK, InFlight, Cleaning
<1>10. queue[k].status \in Waiting /\ row.status \in Waiting
       /\ UNCHANGED <<files, directory, interrupted>>
  BY <1>1, <1>2 DEF Waiting, faults
<1>11. /\ failures' \in 0 .. MaxFailures /\ queue' = [queue EXCEPT ![k] = row]
       /\ receipt' \in [Case -> Attempt \cup {None}] /\ \A j \in Case : receipt'[j] = receipt[j]
       /\ call' = [call EXCEPT ![c] = s]
  BY <1>1, <1>2 DEF IInv, TypeOK, faults
<1>12. ledger' \in [Characters -> Reservation \cup {None}]
  BY <1>7
<1> HIDE DEF row, h
<1>13. /\ lock \in {c, None} /\ lock' \in {c, None} /\ k \in Case /\ RowOK(row) /\ s.run = None
       /\ call[c].run = None
  BY <1>2, <1>3, <1>9
<1>14. /\ s.pc \in InFlight => s.case = k /\ row.status = "accepting" /\ row.attempt = s.attempt
       /\ s.pc # "begun" /\ row.attempt # None /\ row.status = "accepting"
       /\ receipt'[k] = s.attempt /\ row.attempt = receipt'[k]
  BY <1>2, <1>3, <1>11
<1>. QED
  BY <1>13, <1>14, <1>12, <1>8, <1>9, <1>10, <1>11, AcceptStepKeeps DEF InFlight

LEMMA AcceptedKeeps == ASSUME IInv, NEW c \in Calls, accepted(c)  PROVE IInv'
<1>1. PICK k \in Case : k = call[c].case
  BY InFlightFacts DEF accepted, InFlight
<1> DEFINE a == call[c].attempt
           t == IF a.origin = "claimed" THEN queue[k].lease ELSE 0
           row == [queue[k] EXCEPT !.status = "accepted", !.lease = t, !.live = FALSE]
<1>2. /\ call[c].pc = "finalized" /\ queue' = [queue EXCEPT ![k] = row]
      /\ call' = [call EXCEPT ![c] = Idle] /\ lock' = (IF lock = c THEN None ELSE lock)
      /\ UNCHANGED <<files, directory, ledger, receipt, faults>>
  BY <1>1 DEF accepted, Unlocks, Ends
<1>3. /\ lock = c /\ call[c].run = None /\ a # None /\ receipt[k] = a
      /\ RowOK(queue[k]) /\ queue[k].status = "accepting" /\ queue[k].attempt = a
      /\ AcceptedInLedger(k)
  BY <1>1, <1>2, InFlightFacts DEF InFlight
<1>4. /\ t \in 0 .. MaxLeases /\ queue[k] \in Row /\ queue[k].leases \in Nat
      /\ t <= queue[k].leases
  BY <1>3, ResearchConstants DEF RowOK, Row
<1> HIDE DEF t, a
<1>5. /\ row \in Row /\ row.status = "accepted" /\ row.lease = t /\ row.live = FALSE
      /\ row.leases = queue[k].leases /\ row.attempt = queue[k].attempt
  BY <1>4 DEF Row
<1> HIDE DEF row
<1>6. RowOK(row)
  BY <1>4, <1>5 DEF RowOK
<1>7. HolderOK(c, Idle) /\ lock' = None
  BY <1>2, <1>3, IdleOK DEF HolderOK, InFlight, Cleaning
<1>8. /\ failures' \in 0 .. MaxFailures /\ ledger' \in [Characters -> Reservation \cup {None}]
      /\ \A j \in Case : Reserved(j) => Reserved(j)'
      /\ \A j \in Case : AcceptedInLedger(j) => AcceptedInLedger(j)'
      /\ receipt' \in [Case -> Attempt \cup {None}] /\ \A j \in Case : receipt'[j] = receipt[j]
  BY <1>2 DEF IInv, TypeOK, Reserved, AcceptedInLedger, faults
<1>9. /\ queue[k].status \in Waiting /\ row.status \in Waiting \cup {"accepted"}
      /\ UNCHANGED <<files, directory, interrupted>>
  BY <1>2, <1>3, <1>5 DEF Waiting, faults
<1>10. Idle.run = None /\ Idle.pc \notin InFlight
  BY IdleOK DEF InFlight
<1>11. /\ receipt'[k] = a /\ a # None /\ AcceptedInLedger(k)'
       /\ row.attempt = a /\ row.status = "accepted"
  BY <1>3, <1>5, <1>8
<1>12. call' = [call EXCEPT ![c] = Idle] /\ queue' = [queue EXCEPT ![k] = row]
  BY <1>2
<1>. QED
  BY <1>3, <1>6, <1>7, <1>8, <1>9, <1>10, <1>11, <1>12, AcceptStepKeeps DEF InFlight

LEMMA RecoverCommittedKeeps ==
    ASSUME IInv, NEW c \in Calls, NEW k \in Case, recover_committed(c, k)  PROVE IInv'
<1> DEFINE row == queue[k]
           a == row.attempt
           s == [Idle EXCEPT !.pc = "committed", !.case = k, !.attempt = a]
<1>1. /\ call[c].pc = "idle" /\ lock = None /\ lock' = c /\ receipt[k] = a
      /\ queue[k].status = "accepting" /\ call' = [call EXCEPT ![c] = s]
      /\ UNCHANGED <<queue, files, directory, ledger, receipt, faults>>
  BY DEF recover_committed, Replayed
<1>2. /\ RowOK(row) /\ row.status = "accepting" /\ a \in Attempt /\ a # None
      /\ call[c].run = None
  <2>1. RowOK(row) /\ a # None /\ call[c].run = None
    BY <1>1 DEF IInv, TypeOK, StoreInv, RowOK, LockInv, Cleaning
  <2>. QED  BY <1>1, <2>1 DEF RowOK, Row
<1>3. s \in CallState /\ s.pc = "committed" /\ s.case = k /\ s.attempt = a /\ s.run = None
  <2>1. k \in 0 .. LastCase /\ 0 \in 0 .. MaxLeases
    BY ResearchConstants DEF Case
  <2> HIDE DEF row
  <2>. QED  BY <1>2, <2>1 DEF CallState, Idle
<1> HIDE DEF a, s
<1>4. HolderOK(c, s)
  BY <1>1, <1>2, <1>3 DEF HolderOK, InFlight, Cleaning
<1>5. /\ queue[k].status \in Waiting /\ row.status \in Waiting
      /\ UNCHANGED <<files, directory, interrupted>>
  BY <1>1 DEF Waiting, faults
<1>6. /\ failures' \in 0 .. MaxFailures /\ ledger' \in [Characters -> Reservation \cup {None}]
      /\ \A j \in Case : Reserved(j) => Reserved(j)'
      /\ \A j \in Case : AcceptedInLedger(j) => AcceptedInLedger(j)'
      /\ receipt' \in [Case -> Attempt \cup {None}] /\ \A j \in Case : receipt'[j] = receipt[j]
      /\ queue' = [queue EXCEPT ![k] = row]
  BY <1>1 DEF IInv, TypeOK, Reserved, AcceptedInLedger, faults
<1>7. row.attempt = a /\ receipt[k] = a /\ lock = None /\ lock' = c
      /\ call' = [call EXCEPT ![c] = s]
  BY <1>1 DEF a
<1> HIDE DEF row
<1>. QED
  BY <1>2, <1>3, <1>4, <1>5, <1>6, <1>7, AcceptStepKeeps DEF InFlight

----------------------------------------------------------------------------
(* Cleanup *)

\* What a cleanup may be about to release, or has released.
CleanOK(s) ==
    s.pc \in Cleaning =>
        /\ \A k \in CasesOf(s.run) : queue[k].status # "accepting"
        /\ s.todo \cup s.released \subseteq
               {k \in CasesOf(s.run) : queue[k].status \notin {"absent", "registered"}}

\* A cleanup begins, moves on or ends, or any holder of the lock dies.
LEMMA CleanStepKeeps ==
    ASSUME IInv, NEW c \in Calls, lock \in {c, None}, lock' \in {c, None},
           NEW s, HolderOK(c, s), s.pc \notin InFlight, CleanOK(s), call' = [call EXCEPT ![c] = s],
           UNCHANGED <<queue, files, receipt>>,
           directory' \in [Runs -> {"present", "staged", "removed"}],
           \A r \in Runs : directory'[r] = "removed" => directory[r] = "removed",
           ledger' \in [Characters -> Reservation \cup {None}],
           \A j \in Case : AcceptedInLedger(j) => AcceptedInLedger(j)',
           interrupted' \subseteq Runs, failures' \in 0 .. MaxFailures, ReservedInv'
    PROVE  IInv'
<1>1. /\ LockInv' /\ call' \in [Calls -> CallState] /\ call'[c] = s
      /\ \A d \in Calls : d # c => /\ call'[d] = call[d] /\ call[d].pc \in Reading
                                   /\ call[d].run = None
  BY HolderKeeps
<1>2. TypeOK'
  BY <1>1 DEF IInv, TypeOK
<1>3. FlightInv'
  BY <1>1 DEF FlightInv, Reading, InFlight
<1>4. CleanInv'
  <2>1. ASSUME NEW d \in Calls, call'[d].pc \in Cleaning  PROVE d = c
    BY <1>1, <2>1 DEF Reading, Cleaning
  <2>2. s.pc \in Cleaning =>
            /\ \A k \in CasesOf(s.run) : queue'[k].status # "accepting"
            /\ s.todo \cup s.released \subseteq
                   {k \in CasesOf(s.run) : queue'[k].status \notin {"absent", "registered"}}
    BY DEF CleanOK
  <2>. QED  BY <1>1, <2>1, <2>2 DEF CleanInv, CasesOf
<1>5. StoreInv'
  BY ResearchConstants DEF IInv, StoreInv
<1>. QED  BY <1>1, <1>2, <1>3, <1>4, <1>5 DEF IInv

\* A cleanup begins: whatever is reserved is still reserved.
LEMMA BeginCleanKeeps ==
    ASSUME IInv, NEW c \in Calls, NEW r \in Runs, Cleans(c, r), NEW s \in CallState,
           s.pc = "releasing", s.run = r, CleanOK(s), call' = [call EXCEPT ![c] = s],
           UNCHANGED <<queue, files, directory, ledger, receipt, faults>>
    PROVE  IInv'
<1>1. call[c].pc = "idle" /\ lock = None /\ lock' = c /\ r # None
  BY ResearchConstants DEF Cleans
<1>2. HolderOK(c, s)
  BY <1>1 DEF HolderOK, InFlight, Cleaning
<1>3. ReservedInv'
  <2>1. \A d \in Calls : call[d].run = None
    BY <1>1, OnlyHolder DEF IInv, LockInv, Cleaning
  <2>2. \A j \in Case, d \in Calls : call[d].run # RunOf[j]
    BY <2>1, ResearchConstants
  <2>3. \A j \in Case : Reserved(j)' <=> Reserved(j)
    BY DEF Reserved
  <2>. QED  BY <2>2, <2>3 DEF IInv, ReservedInv, faults
<1>4. /\ directory' \in [Runs -> {"present", "staged", "removed"}]
      /\ \A q \in Runs : directory'[q] = "removed" => directory[q] = "removed"
      /\ ledger' \in [Characters -> Reservation \cup {None}]
      /\ \A j \in Case : AcceptedInLedger(j) => AcceptedInLedger(j)'
      /\ interrupted' \subseteq Runs /\ failures' \in 0 .. MaxFailures
  BY DEF IInv, TypeOK, AcceptedInLedger, faults
<1>5. s.pc \notin InFlight
  BY DEF InFlight
<1>. QED  BY <1>1, <1>2, <1>3, <1>4, <1>5, CleanStepKeeps

LEMMA AbandonKeeps ==
    ASSUME IInv, NEW c \in Calls, NEW r \in Runs, abandon_incomplete(c, r)  PROVE IInv'
<1> DEFINE s == [Idle EXCEPT !.pc = "releasing", !.run = r, !.todo = Unreleased(r)]
<1>1. /\ Cleans(c, r) /\ \A k \in CasesOf(r) : ~Active(k)
      /\ call' = [call EXCEPT ![c] = s]
      /\ UNCHANGED <<queue, files, directory, ledger, receipt, faults>>
  BY DEF abandon_incomplete
<1>2. /\ s \in CallState /\ s.pc = "releasing" /\ s.run = r /\ s.todo = Unreleased(r)
      /\ s.released = {}
  <2>1. 0 \in 0 .. LastCase /\ 0 \in 0 .. MaxLeases /\ Unreleased(r) \in SUBSET Case
    BY ResearchConstants DEF Unreleased, CasesOf
  <2>. QED  BY <2>1 DEF CallState, Idle
<1> HIDE DEF s
<1>3. CleanOK(s)
  BY <1>1, <1>2 DEF CleanOK, Unreleased, Active
<1>. QED  BY <1>1, <1>2, <1>3, BeginCleanKeeps

LEMMA CleanupKeeps ==
    ASSUME IInv, NEW c \in Calls, NEW r \in Runs, cleanup_completed_run(c, r)  PROVE IInv'
<1> DEFINE s == [Idle EXCEPT !.pc = "releasing", !.run = r]
<1>1. /\ Cleans(c, r) /\ call' = [call EXCEPT ![c] = s]
      /\ \A k \in Rows(r) : queue[k].status \in {"accepted", "acceptance_rejected"}
      /\ UNCHANGED <<queue, files, directory, ledger, receipt, faults>>
  BY DEF cleanup_completed_run
<1>2. s \in CallState /\ s.pc = "releasing" /\ s.run = r /\ s.todo = {} /\ s.released = {}
  <2>1. 0 \in 0 .. LastCase /\ 0 \in 0 .. MaxLeases
    BY ResearchConstants
  <2>. QED  BY <2>1 DEF CallState, Idle
<1> HIDE DEF s
<1>3. CleanOK(s)
  BY <1>1, <1>2 DEF CleanOK, Rows
<1>. QED  BY <1>1, <1>2, <1>3, BeginCleanKeeps

\* A call that cleans up holds the lock, and what it is about to release is its run's.
LEMMA CleaningFacts ==
    ASSUME IInv, NEW c \in Calls, call[c].pc \in Cleaning
    PROVE  /\ lock = c /\ call[c].run \in Runs /\ call[c].run # None /\ call[c] \in CallState
           /\ CleanOK(call[c])
BY DEF IInv, LockInv, CleanInv, TypeOK, CallState, CleanOK

LEMMA ReleaseRowKeeps ==
    ASSUME IInv, NEW c \in Calls, release_abandoned_intake_row(c)  PROVE IInv'
<1>1. PICK k \in call[c].todo :
          /\ call[c].pc = "releasing" /\ ledger' = release_queued_case(k)
          /\ call' = [call EXCEPT ![c].todo = @ \ {k},
                                  ![c].released = IF Owns(k) THEN @ \cup {k} ELSE @]
          /\ UNCHANGED <<queue, files, directory, receipt, lock, faults>>
  BY DEF release_abandoned_intake_row
<1> DEFINE h == CharacterOf[k]
           R == IF Owns(k) THEN call[c].released \cup {k} ELSE call[c].released
           s == [call[c] EXCEPT !.todo = call[c].todo \ {k}, !.released = R]
<1>2. /\ lock = c /\ call[c].run \in Runs /\ call[c].run # None /\ call[c] \in CallState
      /\ CleanOK(call[c])
  BY <1>1, CleaningFacts DEF Cleaning
<1>3. /\ k \in Case /\ RunOf[k] = call[c].run /\ queue[k].status # "registered"
      /\ k \in CasesOf(call[c].run) /\ queue[k].status # "absent"
  BY <1>1, <1>2 DEF CleanOK, Cleaning, CasesOf, CallState
<1>4. call' = [call EXCEPT ![c] = s]
  BY <1>1 DEF IInv, TypeOK
<1>5. /\ R \in SUBSET Case /\ R \subseteq call[c].released \cup {k} /\ call[c].released \subseteq R
      /\ Owns(k) => k \in R
  BY <1>2, <1>3 DEF CallState
<1> HIDE DEF R
<1>6. /\ s \in CallState /\ s.pc = "releasing" /\ s.run = call[c].run
      /\ s.todo = call[c].todo \ {k} /\ s.released = R
  <2>1. call[c].pc = "releasing"
    BY <1>1
  <2>2. call[c].todo \ {k} \in SUBSET Case
    BY <1>2 DEF CallState
  <2>. QED  BY <1>2, <1>5, <2>1, <2>2 DEF CallState
<1> HIDE DEF s
<1>7. CleanOK(s)
  <2>1. call[c].pc \in Cleaning
    BY <1>1 DEF Cleaning
  <2>2. /\ \A j \in CasesOf(call[c].run) : queue[j].status # "accepting"
        /\ call[c].todo \cup call[c].released \subseteq
               {j \in CasesOf(call[c].run) : queue[j].status \notin {"absent", "registered"}}
    BY <1>2, <2>1 DEF CleanOK
  <2>3. s.todo \cup s.released \subseteq call[c].todo \cup call[c].released
    BY <1>5, <1>6
  <2>. QED  BY <1>6, <2>2, <2>3 DEF CleanOK
<1>8. HolderOK(c, s) /\ lock' = c
  BY <1>1, <1>2, <1>6 DEF HolderOK, InFlight, Cleaning
<1>9. /\ h \in Characters /\ ledger \in [Characters -> Reservation \cup {None}]
      /\ CharacterOf \in [Case -> Characters]
  BY <1>3, ResearchConstants DEF IInv, TypeOK
<1>10. Owns(k) => ledger[h] # None /\ ledger[h].owner = k /\ ledger[h].status = "queued"
  <2>1. [owner |-> k, status |-> "queued"] \in Reservation
    BY <1>3 DEF Reservation
  <2>. QED  BY <2>1, ResearchConstants DEF Owns
<1> HIDE DEF h
<1>11. /\ ledger' \in [Characters -> Reservation \cup {None}]
       /\ \A g \in Characters : ledger'[g] # ledger[g] => g = h /\ Owns(k) /\ ledger'[g] = None
  <2>1. ledger' = ledger \/ (Owns(k) /\ ledger' = [ledger EXCEPT ![h] = None])
    BY <1>1 DEF release_queued_case, h
  <2>. QED  BY <1>9, <2>1
<1>12. \A j \in Case : AcceptedInLedger(j) => AcceptedInLedger(j)'
  BY <1>9, <1>10, <1>11 DEF AcceptedInLedger
<1>13. ASSUME NEW j \in Case
       PROVE  /\ Reserved(j) => Reserved(j)' \/ (ledger'[CharacterOf[j]] = None /\ j = k /\ Owns(k))
              /\ ledger[CharacterOf[j]] = None => ledger'[CharacterOf[j]] = None
  <2>1. CharacterOf[j] \in Characters
    BY <1>9
  <2>. QED  BY <1>10, <1>11, <2>1 DEF Reserved
<1>14. ReservedInv'
  <2>a. call'[c] = s
    BY <1>4 DEF IInv, TypeOK
  <2>1. /\ call'[c].run = call[c].run /\ call'[c].released = R
        /\ \A d \in Calls : d # c => call'[d] = call[d]
    BY <1>4, <1>6, <2>a DEF IInv, TypeOK
  <2>2. ASSUME NEW j \in Case, NEW d \in Calls, call[d].run = RunOf[j], j \in call[d].released
        PROVE  call'[d].run = RunOf[j] /\ j \in call'[d].released
    BY <1>5, <2>1, <2>2
  <2>3. Owns(k) => call'[c].run = RunOf[k] /\ k \in call'[c].released
    BY <1>3, <1>5, <2>1
  <2>4. queue' = queue /\ interrupted' = interrupted
    BY <1>1 DEF faults
  <2>5. ASSUME NEW j \in Case, queue[j].status = "registered"  PROVE Reserved(j)'
    <3>1. Reserved(j) /\ j # k
      BY <1>3, <2>5 DEF IInv, ReservedInv
    <3>. QED  BY <1>13, <3>1
  <2>6. ASSUME NEW j \in Case, queue[j].status \in Waiting, RunOf[j] \notin interrupted,
               \A i \in Case \ {j} : CharacterOf[i] = CharacterOf[j] => queue[i].status = "absent"
        PROVE  \/ Reserved(j)'
               \/ /\ ledger'[CharacterOf[j]] = None
                  /\ \E d \in Calls : call'[d].run = RunOf[j] /\ j \in call'[d].released
    <3>1. CASE Reserved(j)
      BY <1>13, <2>3, <3>1
    <3>2. CASE ~Reserved(j)
      <4>1. ledger[CharacterOf[j]] = None
        BY <2>6, <3>2 DEF IInv, ReservedInv
      <4>2. PICK d \in Calls : call[d].run = RunOf[j] /\ j \in call[d].released
        BY <2>6, <3>2 DEF IInv, ReservedInv
      <4>. QED  BY <1>13, <2>2, <4>1, <4>2
    <3>. QED  BY <3>1, <3>2
  <2>. QED  BY <2>4, <2>5, <2>6 DEF ReservedInv
<1>15. /\ directory' \in [Runs -> {"present", "staged", "removed"}]
       /\ \A q \in Runs : directory'[q] = "removed" => directory[q] = "removed"
       /\ interrupted' \subseteq Runs /\ failures' \in 0 .. MaxFailures
       /\ UNCHANGED <<queue, files, receipt>>
  BY <1>1 DEF IInv, TypeOK, faults
<1>16. s.pc \notin InFlight /\ lock \in {c, None} /\ lock' \in {c, None}
  BY <1>2, <1>6, <1>8 DEF InFlight
<1>17. ledger' \in [Characters -> Reservation \cup {None}]
  BY <1>11
<1>. QED  BY <1>4, <1>7, <1>8, <1>12, <1>14, <1>15, <1>16, <1>17, CleanStepKeeps

\* The rows that a cleanup has released are put back where nobody took them: a
\* case that is alone with its character gets its reservation back.
LEMMA RestoreKeeps ==
    ASSUME IInv, NEW c \in Calls, call[c].pc \in Cleaning, call' = [call EXCEPT ![c] = Idle],
           ledger' = restore_released_intake_rows(call[c].released),
           UNCHANGED <<queue, interrupted>>
    PROVE  /\ ledger' \in [Characters -> Reservation \cup {None}]
           /\ \A j \in Case : AcceptedInLedger(j) => AcceptedInLedger(j)'
           /\ ReservedInv'
<1> DEFINE S == call[c].released
<1>1. /\ lock = c /\ call[c].run \in Runs /\ call[c] \in CallState /\ CleanOK(call[c])
  BY CleaningFacts
<1>2. S \subseteq Case /\ \A k \in S : queue[k].status # "absent"
  BY <1>1 DEF CleanOK, CasesOf
<1>3. ledger \in [Characters -> Reservation \cup {None}] /\ CharacterOf \in [Case -> Characters]
  BY ResearchConstants DEF IInv, TypeOK
<1>4. \A h \in Characters :
          ledger'[h] = IF ledger[h] = None /\ \E k \in S : CharacterOf[k] = h
                       THEN [owner |-> CHOOSE k \in S : CharacterOf[k] = h, status |-> "queued"]
                       ELSE ledger[h]
  BY DEF restore_released_intake_rows
<1> HIDE DEF S
<1>5. ASSUME NEW h \in Characters, NEW k \in S, CharacterOf[k] = h, ledger[h] = None
      PROVE  /\ ledger'[h] # None /\ ledger'[h].owner \in S /\ CharacterOf[ledger'[h].owner] = h
             /\ ledger'[h] \in Reservation
  <2> DEFINE j == CHOOSE j \in S : CharacterOf[j] = h
  <2>1. j \in S /\ CharacterOf[j] = h
    BY <1>5
  <2>2. ledger'[h] = [owner |-> j, status |-> "queued"]
    BY <1>4, <1>5
  <2> HIDE DEF j
  <2>3. [owner |-> j, status |-> "queued"] \in Reservation
    BY <1>2, <2>1 DEF Reservation
  <2>. QED  BY <2>1, <2>2, <2>3, ResearchConstants
<1>6. \A h \in Characters : ledger[h] # None => ledger'[h] = ledger[h]
  BY <1>4
<1>7. ledger' \in [Characters -> Reservation \cup {None}]
  <2>1. ASSUME NEW h \in Characters  PROVE ledger'[h] \in Reservation \cup {None}
    BY <1>3, <1>4, <1>5
  <2>2. ledger' = [h \in Characters |-> ledger'[h]]
    BY DEF restore_released_intake_rows
  <2>. QED  BY <2>1, <2>2
<1>8. \A j \in Case : AcceptedInLedger(j) => AcceptedInLedger(j)'
  BY <1>3, <1>6 DEF AcceptedInLedger
<1>9. \A j \in Case : CharacterOf[j] \in Characters /\ (Reserved(j) => Reserved(j)')
  BY <1>3, <1>6 DEF Reserved
<1>10. ReservedInv'
  <2>1. ASSUME NEW j \in Case, queue[j].status = "registered"  PROVE Reserved(j)'
    BY <1>9, <2>1 DEF IInv, ReservedInv
  <2>2. ASSUME NEW j \in Case, queue[j].status \in Waiting, RunOf[j] \notin interrupted,
               \A i \in Case \ {j} : CharacterOf[i] = CharacterOf[j] => queue[i].status = "absent"
        PROVE  Reserved(j)'
    <3>1. CASE Reserved(j)
      BY <1>9, <3>1
    <3>2. CASE ~Reserved(j)
      <4>1. ledger[CharacterOf[j]] = None
        BY <2>2, <3>2 DEF IInv, ReservedInv
      <4>2. PICK d \in Calls : call[d].run = RunOf[j] /\ j \in call[d].released
        BY <2>2, <3>2 DEF IInv, ReservedInv
      <4>3. d = c
        BY <1>1, <4>2, OnlyHolder, ResearchConstants
      <4>4. j \in S
        BY <4>2, <4>3 DEF S
      <4>5. /\ ledger'[CharacterOf[j]] # None /\ ledger'[CharacterOf[j]].owner \in S
            /\ CharacterOf[ledger'[CharacterOf[j]].owner] = CharacterOf[j]
        BY <1>5, <1>9, <4>1, <4>4
      <4>6. ledger'[CharacterOf[j]].owner = j
        BY <1>2, <2>2, <4>5
      <4>. QED  BY <4>5, <4>6 DEF Reserved
    <3>. QED  BY <3>1, <3>2
  <2>3. queue' = queue /\ interrupted' = interrupted
    OBVIOUS
  <2>. QED  BY <2>1, <2>2, <2>3 DEF ReservedInv
<1>. QED  BY <1>7, <1>8, <1>10

LEMMA IdleHolder ==
    ASSUME NEW c \in Calls
    PROVE  HolderOK(c, Idle) /\ CleanOK(Idle) /\ Idle.pc \notin InFlight
BY IdleOK DEF HolderOK, CleanOK, InFlight, Cleaning

LEMMA ReleaseRefusedKeeps == ASSUME IInv, NEW c \in Calls, release_refused(c)  PROVE IInv'
<1>1. /\ call[c].pc \in Cleaning /\ ledger' = restore_released_intake_rows(call[c].released)
      /\ call' = [call EXCEPT ![c] = Idle] /\ lock' = (IF lock = c THEN None ELSE lock)
      /\ UNCHANGED <<queue, files, directory, receipt, faults>>
  BY DEF release_refused, Unlocks, Ends, Cleaning
<1>2. lock = c /\ lock' = None
  BY <1>1, CleaningFacts
<1>3. /\ ledger' \in [Characters -> Reservation \cup {None}] /\ ReservedInv'
      /\ \A j \in Case : AcceptedInLedger(j) => AcceptedInLedger(j)'
  BY <1>1, RestoreKeeps DEF faults
<1>4. /\ directory' \in [Runs -> {"present", "staged", "removed"}]
      /\ \A q \in Runs : directory'[q] = "removed" => directory[q] = "removed"
      /\ interrupted' \subseteq Runs /\ failures' \in 0 .. MaxFailures
  BY <1>1 DEF IInv, TypeOK, faults
<1>5. call' = [call EXCEPT ![c] = Idle] /\ UNCHANGED <<queue, files, receipt>>
  BY <1>1
<1>. QED  BY <1>2, <1>3, <1>4, <1>5, IdleHolder, CleanStepKeeps

LEMMA DeleteFailsKeeps ==
    ASSUME IInv, NEW c \in Calls, delete_run_directory_fails(c)  PROVE IInv'
<1>1. /\ call[c].pc \in Cleaning /\ ledger' = restore_released_intake_rows(call[c].released)
      /\ call' = [call EXCEPT ![c] = Idle] /\ lock' = (IF lock = c THEN None ELSE lock)
      /\ Fails /\ UNCHANGED <<queue, files, receipt, interrupted>>
      /\ directory' = directory \/ directory' = [directory EXCEPT ![call[c].run] = "present"]
  BY DEF delete_run_directory_fails, Unlocks, Ends, Cleaning
<1>2. lock = c /\ lock' = None
  BY <1>1, CleaningFacts
<1>3. /\ ledger' \in [Characters -> Reservation \cup {None}] /\ ReservedInv'
      /\ \A j \in Case : AcceptedInLedger(j) => AcceptedInLedger(j)'
  BY <1>1, RestoreKeeps
<1>4. /\ directory' \in [Runs -> {"present", "staged", "removed"}]
      /\ \A q \in Runs : directory'[q] = "removed" => directory[q] = "removed"
  <2>1. directory \in [Runs -> {"present", "staged", "removed"}]
    BY DEF IInv, TypeOK
  <2>. QED  BY <1>1, <2>1
<1>5. interrupted' \subseteq Runs /\ failures' \in 0 .. MaxFailures
  BY <1>1, ResearchConstants DEF IInv, TypeOK, Fails
<1>6. call' = [call EXCEPT ![c] = Idle] /\ UNCHANGED <<queue, files, receipt>>
  BY <1>1
<1>. QED  BY <1>2, <1>3, <1>4, <1>5, <1>6, IdleHolder, CleanStepKeeps

LEMMA StageKeeps == ASSUME IInv, NEW c \in Calls, stage_run(c)  PROVE IInv'
<1> DEFINE s == [call[c] EXCEPT !.pc = "removing"]
<1>1. /\ call[c].pc = "releasing" /\ directory' = [directory EXCEPT ![call[c].run] = "staged"]
      /\ call' = [call EXCEPT ![c] = s]
      /\ UNCHANGED <<queue, files, ledger, receipt, lock, faults>>
  BY DEF stage_run
<1>2. /\ lock = c /\ call[c].run # None /\ call[c] \in CallState /\ CleanOK(call[c])
      /\ call[c].pc \in Cleaning
  BY <1>1, CleaningFacts DEF Cleaning
<1>3. /\ s \in CallState /\ s.pc = "removing" /\ s.run = call[c].run
      /\ s.todo = call[c].todo /\ s.released = call[c].released
  BY <1>2 DEF CallState
<1> HIDE DEF s
<1>4. HolderOK(c, s) /\ lock' = c /\ s.pc \notin InFlight
  BY <1>1, <1>2, <1>3 DEF HolderOK, InFlight, Cleaning
<1>5. CleanOK(s)
  BY <1>2, <1>3 DEF CleanOK
<1>6. call' = [call EXCEPT ![c] = s] /\ UNCHANGED <<queue, files, receipt>>
  BY <1>1
<1>7. ReservedInv'
  <2>a. call'[c] = s
    BY <1>6 DEF IInv, TypeOK
  <2>1. \A d \in Calls : call'[d].run = call[d].run /\ call'[d].released = call[d].released
    BY <1>3, <1>6, <2>a DEF IInv, TypeOK
  <2>2. UNCHANGED <<queue, ledger, interrupted>>
    BY <1>1 DEF faults
  <2>. QED  BY <2>1, <2>2 DEF IInv, ReservedInv, Reserved
<1>8. /\ directory' \in [Runs -> {"present", "staged", "removed"}]
      /\ \A q \in Runs : directory'[q] = "removed" => directory[q] = "removed"
      /\ interrupted' \subseteq Runs /\ failures' \in 0 .. MaxFailures
      /\ ledger' \in [Characters -> Reservation \cup {None}]
      /\ \A j \in Case : AcceptedInLedger(j) => AcceptedInLedger(j)'
  BY <1>1 DEF IInv, TypeOK, faults, AcceptedInLedger
<1>. QED  BY <1>2, <1>4, <1>5, <1>6, <1>7, <1>8, CleanStepKeeps

LEMMA CrashKeeps == ASSUME IInv, NEW c \in Calls, crash(c)  PROVE IInv'
<1>1. /\ lock = c /\ Fails /\ interrupted' = interrupted \cup ({call[c].run} \ {None})
      /\ call' = [call EXCEPT ![c] = Idle] /\ lock' = (IF lock = c THEN None ELSE lock)
      /\ UNCHANGED <<queue, files, directory, ledger, receipt>>
  BY DEF crash, Unlocks, Ends
<1>2. lock' = None /\ call[c].run \in Runs \cup {None}
  BY <1>1 DEF IInv, TypeOK, CallState
<1>3. ReservedInv'
  <2>1. /\ UNCHANGED <<queue, ledger>> /\ interrupted \subseteq interrupted'
        /\ \A j \in Case : RunOf[j] # None
    BY <1>1, ResearchConstants
  <2>2. ASSUME NEW j \in Case, NEW d \in Calls, call[d].run = RunOf[j]
        PROVE  RunOf[j] \in interrupted'
    <3>1. d = c
      BY <1>1, <2>1, <2>2, OnlyHolder
    <3>. QED  BY <1>1, <2>1, <2>2, <3>1
  <2>3. \A j \in Case : Reserved(j)' <=> Reserved(j)
    BY <2>1 DEF Reserved
  <2>. QED  BY <2>1, <2>2, <2>3 DEF IInv, ReservedInv
<1>4. /\ directory' \in [Runs -> {"present", "staged", "removed"}]
      /\ \A q \in Runs : directory'[q] = "removed" => directory[q] = "removed"
      /\ interrupted' \subseteq Runs /\ failures' \in 0 .. MaxFailures
      /\ ledger' \in [Characters -> Reservation \cup {None}]
      /\ \A j \in Case : AcceptedInLedger(j) => AcceptedInLedger(j)'
  BY <1>1, <1>2, ResearchConstants DEF IInv, TypeOK, Fails, AcceptedInLedger
<1>5. call' = [call EXCEPT ![c] = Idle] /\ UNCHANGED <<queue, files, receipt>> /\ lock = c
  BY <1>1
<1>. QED  BY <1>2, <1>3, <1>4, <1>5, IdleHolder, CleanStepKeeps

LEMMA RemoveKeeps == ASSUME IInv, NEW c \in Calls, remove_run(c)  PROVE IInv'
<1> DEFINE r == call[c].run
           gone == [NewRow EXCEPT !.status = "gone"]
<1>1. /\ call[c].pc = "removing" /\ directory' = [directory EXCEPT ![r] = "removed"]
      /\ queue' = [k \in Case |-> IF k \in CasesOf(r) /\ queue[k].status # "registered"
                                  THEN gone ELSE queue[k]]
      /\ files' = [k \in Case |-> IF k \in CasesOf(r) THEN [t \in Lease |-> None] ELSE files[k]]
      /\ call' = [call EXCEPT ![c] = Idle] /\ lock' = (IF lock = c THEN None ELSE lock)
      /\ UNCHANGED <<ledger, receipt, faults>>
  BY DEF remove_run, Unlocks, Ends
<1>2. /\ lock = c /\ r \in Runs /\ r # None /\ CleanOK(call[c]) /\ call[c].pc \in Cleaning
  BY <1>1, CleaningFacts DEF Cleaning
<1>3. \A k \in CasesOf(r) : queue[k].status # "accepting"
  BY <1>2 DEF CleanOK
<1>4. RowOK(gone) /\ gone.status = "gone"
  <2>1. 0 \in 0 .. MaxLeases
    BY ResearchConstants
  <2>2. ASSUME NEW g, g = [NewRow EXCEPT !.status = "gone"]
        PROVE  g = [status |-> "gone", lease |-> 0, live |-> FALSE, leases |-> 0, attempt |-> None]
    BY <2>2 DEF NewRow
  <2>3. gone = [status |-> "gone", lease |-> 0, live |-> FALSE, leases |-> 0, attempt |-> None]
    BY <2>2
  <2> HIDE DEF gone
  <2>4. gone \in Row
    BY <2>1, <2>3 DEF Row
  <2>. QED  BY <2>3, <2>4 DEF RowOK
<1>5. /\ lock' = None /\ LockInv' /\ call' \in [Calls -> CallState] /\ call'[c] = Idle
      /\ \A d \in Calls : d # c => /\ call'[d] = call[d] /\ call[d].pc \in Reading
                                   /\ call[d].run = None
  <2>1. call' = [call EXCEPT ![c] = Idle] /\ lock' = None
    BY <1>1, <1>2
  <2>. QED  BY <1>2, <2>1, IdleHolder, HolderKeeps
<1> HIDE DEF gone, r
<1>6. ASSUME NEW k \in Case
      PROVE  \/ RunOf[k] = r /\ queue[k].status # "registered" /\ queue'[k].status = "gone"
             \/ /\ RunOf[k] # r \/ queue[k].status = "registered"
                /\ queue'[k] = queue[k]
  BY <1>1, <1>4 DEF CasesOf
<1>7. TypeOK'
  <2>1. /\ queue' \in [Case -> Row] /\ \A k \in Case : queue'[k] = gone \/ queue'[k] = queue[k]
    BY <1>1, <1>4 DEF IInv, TypeOK, RowOK
  <2>2. \A k \in Case : RowOK(queue'[k])
    BY <1>4, <2>1 DEF IInv, TypeOK, RowOK
  <2>3. files' \in [Case -> [Lease -> Reviews \cup {Skeleton, None}]]
    BY <1>1 DEF IInv, TypeOK
  <2>4. directory' \in [Runs -> {"present", "staged", "removed"}]
    BY <1>1 DEF IInv, TypeOK
  <2>5. lock' \in Calls \cup {None}
    BY <1>5
  <2>6. UNCHANGED <<ledger, receipt, interrupted, failures>>
    BY <1>1 DEF faults
  <2>. QED  BY <1>5, <2>1, <2>2, <2>3, <2>4, <2>5, <2>6 DEF IInv, TypeOK, RowOK
<1>8. FlightInv'
  BY <1>5, IdleOK DEF FlightInv, Reading, InFlight
<1>9. CleanInv'
  BY <1>5, IdleOK DEF CleanInv, Reading, Cleaning
<1>10. StoreInv'
  <2>1. ledger' = ledger /\ receipt' = receipt
    BY <1>1
  <2>2. ASSUME NEW k \in Case, directory'[RunOf[k]] = "removed"
        PROVE  RunOf[k] = r \/ directory[RunOf[k]] = "removed"
    BY <1>1, <2>2, ResearchConstants DEF IInv, TypeOK
  <2>3. ASSUME NEW k \in Case, RunOf[k] = r  PROVE queue[k].status # "accepting"
    BY <1>3, <2>3 DEF CasesOf
  <2>4. \A k \in Case : AcceptedInLedger(k)' <=> AcceptedInLedger(k)
    BY <2>1 DEF AcceptedInLedger
  <2>. QED  BY <1>6, <2>1, <2>2, <2>3, <2>4 DEF IInv, StoreInv
<1>11. ReservedInv'
  <2>1. \A j \in Case : Reserved(j)' <=> Reserved(j)
    BY <1>1 DEF Reserved
  <2>2. interrupted' = interrupted
    BY <1>1 DEF faults
  <2>3. ASSUME NEW j \in Case, NEW d \in Calls, call[d].run = RunOf[j]  PROVE RunOf[j] = r
    BY <1>5, <2>3, ResearchConstants DEF r
  <2>4. ASSUME NEW j \in Case, queue'[j].status \in Waiting
        PROVE  queue[j].status \in Waiting /\ RunOf[j] # r
    BY <1>6, <2>4 DEF Waiting
  <2>5. \A j \in Case : /\ queue'[j].status = "absent" => queue[j].status = "absent"
                        /\ queue'[j].status = "registered" => queue[j].status = "registered"
    BY <1>6
  <2>. QED  BY <2>1, <2>2, <2>3, <2>4, <2>5 DEF IInv, ReservedInv
<1>. QED  BY <1>5, <1>7, <1>8, <1>9, <1>10, <1>11 DEF IInv

----------------------------------------------------------------------------
(* The theorems *)

LEMMA InitInv == Init => IInv
<1> SUFFICES ASSUME Init PROVE IInv
  OBVIOUS
<1>1. NewRow \in Row /\ NewRow.status = "absent" /\ NewRow.live = FALSE /\ NewRow.lease = 0
      /\ NewRow.leases = 0
  <2>1. 0 \in 0 .. MaxLeases
    BY ResearchConstants
  <2>2. NewRow \in Row
    BY <2>1 DEF NewRow, Row
  <2>. QED  BY <2>2 DEF NewRow
<1>2. \A k \in Case : queue[k] = NewRow /\ receipt[k] = None
  BY DEF Init
<1>3. \A c \in Calls : call[c] = Idle
  BY DEF Init
<1>4. TypeOK
  <2>1. queue \in [Case -> Row] /\ call \in [Calls -> CallState]
    BY <1>1, IdleOK DEF Init
  <2>2. /\ files \in [Case -> [Lease -> Reviews \cup {Skeleton, None}]]
        /\ directory \in [Runs -> {"present", "staged", "removed"}]
        /\ ledger \in [Characters -> Reservation \cup {None}]
        /\ receipt \in [Case -> Attempt \cup {None}]
        /\ lock \in Calls \cup {None} /\ interrupted \subseteq Runs
    BY DEF Init
  <2>3. failures \in 0 .. MaxFailures
    BY ResearchConstants DEF Init
  <2>4. \A k \in Case : queue[k].lease <= queue[k].leases
    BY <1>1, <1>2
  <2>. QED  BY <1>1, <1>2, <2>1, <2>2, <2>3, <2>4 DEF TypeOK
<1>5. LockInv /\ FlightInv /\ CleanInv
  BY <1>3, IdleOK DEF LockInv, FlightInv, CleanInv, InFlight, Cleaning
<1>6. StoreInv
  BY <1>1, <1>2, ResearchConstants DEF StoreInv, Init
<1>7. ReservedInv
  BY <1>1, <1>2 DEF ReservedInv, Waiting
<1>. QED  BY <1>4, <1>5, <1>6, <1>7 DEF IInv

LEMMA NextInv == IInv /\ [Next]_vars => IInv'
<1> SUFFICES ASSUME IInv, [Next]_vars  PROVE IInv'
  OBVIOUS
<1>1. CASE UNCHANGED vars
  BY <1>1 DEF vars, IInv, TypeOK, LockInv, FlightInv, CleanInv, StoreInv, ReservedInv, Reserved,
              AcceptedInLedger, CasesOf
<1>2. ASSUME NEW k \in Case,
             \/ record_case(k) \/ insert_case(k) \/ insert_case_fails(k)
             \/ claim_case(k) \/ claim_packet_failed(k) \/ expire_lease(k) \/ init_review(k)
             \/ recover_uncommitted(k)
      PROVE  IInv'
  BY <1>2, RecordKeeps, InsertKeeps, InsertFailsKeeps, ClaimKeeps, PacketFailedKeeps,
     ExpireKeeps, InitReviewKeeps, RecoverUncommittedKeeps
<1>3. ASSUME NEW k \in Case, NEW c \in Calls,
             \/ \E r \in Reviews : save_review_payload(c, k, r)
             \/ accept_case(c, k) \/ recover_committed(c, k)
             \/ \E t \in Lease : retry_accept_case(c, k, t)
      PROVE  IInv'
  <2>1. CASE \E r \in Reviews : save_review_payload(c, k, r)
    BY <2>1, SaveKeeps
  <2>2. CASE accept_case(c, k)
    BY <2>2, SubmitsKeeps DEF accept_case
  <2>3. CASE recover_committed(c, k)
    BY <2>3, RecoverCommittedKeeps
  <2>4. CASE \E t \in Lease : retry_accept_case(c, k, t)
    BY <2>4, SubmitsKeeps DEF retry_accept_case
  <2>. QED  BY <1>3, <2>1, <2>2, <2>3, <2>4
<1>4. ASSUME NEW r \in Runs,
             \/ restore_staged(r)
             \/ \E c \in Calls : abandon_incomplete(c, r) \/ cleanup_completed_run(c, r)
      PROVE  IInv'
  BY <1>4, RestoreStagedKeeps, AbandonKeeps, CleanupKeeps
<1>5. ASSUME NEW c \in Calls,
             \/ replace_review(c) \/ rejected(c) \/ begin_accepting(c)
             \/ accept_research_unit(c) \/ acceptance_rejected(c)
             \/ finish_accepting_after_exception(c)
             \/ finalize_accepted(c) \/ accepted(c)
             \/ release_abandoned_intake_row(c) \/ release_refused(c)
             \/ stage_run(c) \/ remove_run(c) \/ delete_run_directory_fails(c)
             \/ crash(c)
      PROVE  IInv'
  BY <1>5, ReplaceKeeps, RejectedKeeps, BeginKeeps, AcceptUnitKeeps, AcceptanceRejectedKeeps,
     FinishKeeps, FinalizeKeeps, AcceptedKeeps, ReleaseRowKeeps, ReleaseRefusedKeeps, StageKeeps,
     RemoveKeeps, DeleteFailsKeeps, CrashKeeps
<1>. QED  BY <1>1, <1>2, <1>3, <1>4, <1>5 DEF Next

\* The invariant holds in every state of every behaviour.
THEOREM Invariance == Spec => []IInv
BY InitInv, NextInv, PTL DEF Spec

\* Whatever the calls and their failures, the three stores stay well formed and
\* agree: an attempt keeps its row until it ends, a case is accepted only with
\* its receipt and its ledger row, and no second review is written over one in
\* memory.
THEOREM StoresAlwaysAgree == Spec => []QueueSound
<1>1. IInv => QueueSound
  <2> SUFFICES ASSUME IInv PROVE QueueSound
    OBVIOUS
  <2>1. AttemptInFlight
    BY DEF IInv, LockInv, FlightInv, AttemptInFlight, InFlight
  <2>2. \A k \in Case : directory[RunOf[k]] = "removed" => queue[k].status \in {"registered", "gone"}
    BY DEF IInv, StoreInv
  <2>3. \A k \in Case :
          /\ receipt[k] # None /\ directory[RunOf[k]] = "removed" => AcceptedInLedger(k)
          /\ receipt[k] # None /\ queue[k].status # "gone" =>
                 /\ queue[k].status \in {"accepting", "accepted"}
                 /\ queue[k].attempt = receipt[k]
          /\ queue[k].status = "accepted" => receipt[k] # None /\ AcceptedInLedger(k)
    BY <2>2 DEF IInv, StoreInv
  <2>. QED  BY <2>1, <2>3 DEF IInv, QueueSound, StoresAgree
<1>. QED  BY <1>1, Invariance, PTL

\* As long as a run is there and nobody cleans it up, its unfinished cases keep
\* their characters reserved, also after a cleanup that failed or was refused.
THEOREM ReservationsAreKept == Spec => []ReservationKept
<1>1. IInv => ReservationKept
  BY DEF IInv, ReservedInv, ReservationKept, Waiting, Reserved, NotInUse
<1>. QED  BY <1>1, Invariance, PTL

\* What a step may do to a character's ledger row.
LedgerStep ==
    \A h \in Characters : ledger[h] # None /\ ledger'[h] # ledger[h] =>
        /\ ledger[h].status = "queued"
        /\ \/ ledger'[h] # None /\ ledger'[h].status = "accepted" /\ ledger'[h].owner = ledger[h].owner
           \/ /\ ledger'[h] = None
              /\ \/ queue[ledger[h].owner].status = "registered"
                 \/ ~NotInUse(RunOf[ledger[h].owner])

\* Only the row that case k has recorded goes when its registration is released.
LEMMA ReleaseDrops ==
    ASSUME IInv, NEW k \in Case, ledger' = release_queued_case(k)
    PROVE  \A h \in Characters : ledger'[h] # ledger[h] =>
               ledger[h].status = "queued" /\ ledger[h].owner = k /\ ledger'[h] = None
<1>1. CharacterOf[k] \in Characters /\ ledger \in [Characters -> Reservation \cup {None}]
  BY ResearchConstants DEF IInv, TypeOK
<1>2. Owns(k) => ledger[CharacterOf[k]].status = "queued" /\ ledger[CharacterOf[k]].owner = k
  BY DEF Owns
<1>. QED  BY <1>1, <1>2 DEF release_queued_case

LEMMA StepOfLedger == ASSUME IInv, Next  PROVE LedgerStep
<1>1. CASE UNCHANGED ledger
  BY <1>1 DEF LedgerStep
<1>2. ASSUME NEW k \in Case, record_case(k)  PROVE LedgerStep
  <2>1. ledger[CharacterOf[k]] = None /\ \E own : ledger' = [ledger EXCEPT ![CharacterOf[k]] = own]
    BY <1>2 DEF record_case
  <2>2. \A h \in Characters : h # CharacterOf[k] => ledger'[h] = ledger[h]
    BY <2>1 DEF IInv, TypeOK
  <2>. QED  BY <2>1, <2>2 DEF LedgerStep
<1>3. ASSUME NEW k \in Case, insert_case_fails(k)  PROVE LedgerStep
  <2>1. CASE ledger' = release_queued_case(k)
    <3>1. queue[k].status = "registered"
      BY <1>3 DEF insert_case_fails
    <3>. QED  BY <2>1, <3>1, ReleaseDrops DEF LedgerStep
  <2>. QED  BY <1>1, <1>3, <2>1 DEF insert_case_fails
<1>4. ASSUME NEW c \in Calls, finalize_accepted(c)  PROVE LedgerStep
  <2> DEFINE k == call[c].case
             h == CharacterOf[k]
             own == [owner |-> IF ledger[h] = None THEN k ELSE ledger[h].owner, status |-> "accepted"]
  <2>1. ledger' = [ledger EXCEPT ![h] = own] /\ k \in Case
    BY <1>4, InFlightFacts DEF finalize_accepted, InFlight
  <2>2. h \in Characters /\ ledger \in [Characters -> Reservation \cup {None}]
    BY <2>1, ResearchConstants DEF IInv, TypeOK
  <2>3. own # None
    <3>1. own \in Reservation
      BY <2>1, <2>2 DEF Reservation
    <3>. QED  BY <3>1, ResearchConstants
  <2>4. ledger[h] # None =>
            /\ own.status = "accepted" /\ own.owner = ledger[h].owner
            /\ own # ledger[h] => ledger[h].status = "queued"
    BY <2>2 DEF Reservation
  <2> HIDE DEF own, h
  <2>. QED  BY <2>1, <2>2, <2>3, <2>4 DEF LedgerStep
<1>5. ASSUME NEW c \in Calls, release_abandoned_intake_row(c)  PROVE LedgerStep
  <2>1. PICK k \in call[c].todo : call[c].pc = "releasing" /\ ledger' = release_queued_case(k)
    BY <1>5 DEF release_abandoned_intake_row
  <2>2. k \in Case /\ call[c].run = RunOf[k]
    BY <2>1, CleaningFacts DEF Cleaning, CleanOK, CasesOf
  <2>3. ~NotInUse(RunOf[k])
    BY <2>2 DEF NotInUse
  <2>. QED  BY <2>1, <2>2, <2>3, ReleaseDrops DEF LedgerStep
<1>6. ASSUME NEW c \in Calls, ledger' = restore_released_intake_rows(call[c].released)
      PROVE  LedgerStep
  <2>1. \A h \in Characters : ledger[h] # None => ledger'[h] = ledger[h]
    BY <1>6 DEF restore_released_intake_rows
  <2>. QED  BY <2>1 DEF LedgerStep
<1>7. ASSUME NEW k \in Case,
             \/ insert_case(k) \/ claim_case(k) \/ claim_packet_failed(k) \/ expire_lease(k)
             \/ init_review(k) \/ recover_uncommitted(k)
             \/ \E c \in Calls :
                   \/ \E r \in Reviews : save_review_payload(c, k, r)
                   \/ accept_case(c, k) \/ recover_committed(c, k)
                   \/ \E t \in Lease : retry_accept_case(c, k, t)
      PROVE  LedgerStep
  BY <1>1, <1>7 DEF insert_case, claim_case, claim_packet_failed, expire_lease, init_review,
     recover_uncommitted, save_review_payload, accept_case, recover_committed, retry_accept_case,
     Submits
<1>8. ASSUME NEW r \in Runs,
             \/ restore_staged(r)
             \/ \E c \in Calls : abandon_incomplete(c, r) \/ cleanup_completed_run(c, r)
      PROVE  LedgerStep
  BY <1>1, <1>8 DEF restore_staged, abandon_incomplete, cleanup_completed_run
<1>9. ASSUME NEW c \in Calls,
             \/ replace_review(c) \/ rejected(c) \/ begin_accepting(c)
             \/ accept_research_unit(c) \/ acceptance_rejected(c)
             \/ finish_accepting_after_exception(c) \/ accepted(c)
             \/ stage_run(c) \/ remove_run(c) \/ crash(c)
      PROVE  LedgerStep
  BY <1>1, <1>9 DEF replace_review, rejected, begin_accepting, accept_research_unit,
     acceptance_rejected, finish_accepting_after_exception, accepted, stage_run, remove_run, crash
<1>10. ASSUME NEW c \in Calls, release_refused(c) \/ delete_run_directory_fails(c)  PROVE LedgerStep
  BY <1>6, <1>10 DEF release_refused, delete_run_directory_fails
<1>. QED  BY <1>2, <1>3, <1>4, <1>5, <1>7, <1>8, <1>9, <1>10 DEF Next

\* A character's reservation is dropped only by the collection that made it or
\* by the cleanup of its run, and what is accepted stays accepted.
THEOREM ReservationsAreTheRuns == Spec => ReservationOfRun
<1>1. IInv /\ [Next]_vars => [LedgerStep]_vars
  BY StepOfLedger
<1>. QED  BY <1>1, Invariance, PTL DEF Spec, ReservationOfRun, LedgerStep
=============================================================================
