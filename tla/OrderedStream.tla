---------------------------- MODULE OrderedStream ----------------------------
(***************************************************************************)
(* The delivery protocol of the daemon: a branch worker                    *)
(* (cmd/daemon/worker.go) fetches one delivery at a time from the branch's *)
(* durable JetStream consumer and runs it through OrderedStream            *)
(* (queue/ordered_stream.go), which works on the claims (ClaimStore), the  *)
(* chain (InvoiceChain) and ZATCA.  Several workers of one branch model    *)
(* several daemon processes, or a process that hangs while another one     *)
(* takes over: they share the tenant database and the consumer and nothing *)
(* else.                                                                   *)
(*                                                                         *)
(* Every call that changes state outside the worker is a step of its own,  *)
(* and a crash may come between any two steps.  A database call may fail   *)
(* without effect, or take effect and then report an error.                *)
(***************************************************************************)
EXTENDS ClaimStore, InvoiceChain, SubmissionOutcome

CONSTANTS
  Worker,        \* branch workers
  WorkerBranch,  \* the branch each worker consumes
  MaxDeliver,    \* the consumer's delivery budget
  HeldStatus,    \* the HTTP statuses with which ZATCA answers a repeated invoice
  Fault          \* the kinds of failure of the environment that may happen

VARIABLES
  worker,    \* [Worker -> WorkerState]
  stream,    \* [Message -> delivery state], JetStream
  seen,      \* invoices sent to ZATCA
  held,      \* invoices that ZATCA has accepted
  reported   \* bills whose ambiguous outcome was alerted for reconciliation

FaultKind == {"db", "api", "build", "ack", "crash", "stop"}

ASSUME WorkerAssumption ==
  /\ WorkerBranch \in [Worker -> Branch]
  /\ MaxDeliver \in Nat \ {0}
  /\ HeldStatus \subseteq {AlreadyReported, Conflict}
  /\ Fault \subseteq FaultKind

PC == {"idle", "claim", "stored", "prepare", "book", "build", "commit", "unbook",
       "submit", "record", "complete", "refuse", "fail", "ack",
       "finStored", "finRecord", "finComplete", "finAck"}

(* The errors HandleMessage returns, as handleDelivery tells them apart.   *)
(* "inflight" stands for ErrClaimInFlight and ErrChainBusy, "input" for    *)
(* ErrRejectedInput and ErrFingerprintConflict.                            *)
Result == {"ok", "inflight", "rejected", "ambiguous", "input", "technical"}

WorkerState ==
  [pc : PC, msg : Message \cup {None}, count : Nat, booking : Booking \cup {None},
   invoice : SignedInvoice \cup {None}, outcome : Outcome \cup {None}, result : Result]

Idle ==
  [pc |-> "idle", msg |-> None, count |-> 0, booking |-> None, invoice |-> None,
   outcome |-> None, result |-> "ok"]

Delivery == [status : {"stream", "acked", "termed"}, count : Nat]

ledgerVars == <<claim, chainVars>>
outsideVars == <<stream, seen, held, reported>>
vars == <<ledgerVars, outsideVars, worker>>

StreamTypeOK ==
  /\ ClaimTypeOK
  /\ ChainTypeOK
  /\ worker \in [Worker -> WorkerState]
  /\ stream \in [Message -> Delivery]
  /\ seen \subseteq SignedInvoice
  /\ held \subseteq SignedInvoice
  /\ reported \subseteq Bill

StreamInit ==
  /\ ClaimInit
  /\ ChainInit
  /\ worker = [w \in Worker |-> Idle]
  /\ stream = [m \in Message |-> [status |-> "stream", count |-> 0]]
  /\ seen = {}
  /\ held = {}
  /\ reported = {}

------------------------------------------------------------------------------
(* Control.                                                                *)

At(w, pc) == worker[w].pc = pc

Goto(w, pc) == worker' = [worker EXCEPT ![w].pc = pc]

(* The step fails: the claim is released next, and r is returned.          *)
FailWith(w, pc, r) == worker' = [worker EXCEPT ![w].pc = pc, ![w].result = r]

(* Mutant: the delivery budget is compared off by one.                     *)
ReturnLate(w, r) ==
  /\ worker' = [worker EXCEPT ![w] =
                  IF r = "technical" /\ @.count > MaxDeliver
                    THEN [@ EXCEPT !.pc = "finStored"]
                    ELSE Idle]
  /\ reported' = IF r = "ambiguous" THEN reported \cup {worker[w].msg.bill} ELSE reported

(* HandleMessage returns r to handleDelivery.  A technical error on the    *)
(* last delivery is finalized; every other result ends the delivery.       *)
Return(w, r) ==
  /\ worker' = [worker EXCEPT ![w] =
                  IF r = "technical" /\ @.count >= MaxDeliver
                    THEN [@ EXCEPT !.pc = "finStored"]
                    ELSE Idle]
  /\ reported' = IF r = "ambiguous" THEN reported \cup {worker[w].msg.bill} ELSE reported

------------------------------------------------------------------------------
(* JetStream (external).  A first delivery follows the order of the        *)
(* stream.  A message that is not settled is delivered again once AckWait  *)
(* has passed, at most MaxDeliver times, while a slow worker may still be  *)
(* busy with it.                                                           *)

Deliverable(m) ==
  /\ stream[m].status = "stream"
  /\ stream[m].count < MaxDeliver
  /\ stream[m].count = 0 =>
       \A n \in Message : n.subject = m.subject /\ n.seq < m.seq => stream[n].count > 0

CountDelivery(m) == stream' = [stream EXCEPT ![m].count = @ + 1]

Settle(m, status) ==
  stream' = IF stream[m].status = "stream" THEN [stream EXCEPT ![m].status = status] ELSE stream

Belongs(w, m) == m.valid /\ m.branch = WorkerBranch[w]

Deliver(w, m) ==
  /\ At(w, "idle")
  /\ m.subject = WorkerBranch[w]
  /\ Deliverable(m)
  /\ Belongs(w, m)
  /\ CountDelivery(m)
  /\ worker' = [worker EXCEPT ![w] =
                  [Idle EXCEPT !.pc = "claim", !.msg = m, !.count = stream[m].count + 1]]
  /\ UNCHANGED <<ledgerVars, seen, held, reported>>

(* An envelope that can never be processed is terminated.  The error of    *)
(* Term is ignored: when it fails the delivery has only been counted.      *)
TerminateEnvelope(w, m) ==
  /\ At(w, "idle")
  /\ m.subject = WorkerBranch[w]
  /\ Deliverable(m)
  /\ ~Belongs(w, m)
  /\ \/ stream' = [stream EXCEPT ![m].count = @ + 1, ![m].status = "termed"]
     \/ "ack" \in Fault /\ CountDelivery(m)
  /\ UNCHANGED <<ledgerVars, seen, held, reported, worker>>

(* A fetch that finds nothing times out, and the worker fetches again.     *)
FetchTimeout(w) ==
  /\ At(w, "idle")
  /\ ~\E m \in Message : m.subject = WorkerBranch[w] /\ Deliverable(m)
  /\ UNCHANGED vars

------------------------------------------------------------------------------
(* HandleMessage: the claim.                                               *)

HandleDuplicate(w) ==
  /\ At(w, "claim") /\ IsDuplicate(worker[w].msg)
  /\ Goto(w, "ack")
  /\ UNCHANGED <<ledgerVars, outsideVars>>

HandleConflict(w) ==
  /\ At(w, "claim") /\ IsConflict(worker[w].msg)
  /\ FailWith(w, "ack", "input")
  /\ UNCHANGED <<ledgerVars, outsideVars>>

HandleInFlight(w) ==
  /\ At(w, "claim") /\ IsInFlight(worker[w].msg)
  /\ Return(w, "inflight")
  /\ UNCHANGED <<ledgerVars, stream, seen, held>>

HandleProcess(w) ==
  /\ At(w, "claim") /\ Claim(worker[w].msg)
  /\ Goto(w, "stored")
  /\ UNCHANGED <<chainVars, outsideVars>>

(* The claim's transaction fails, or commits and loses its answer.         *)
ClaimError(w) ==
  /\ At(w, "claim")
  /\ \/ "db" \in Fault /\ UNCHANGED claim
     \/ "db" \in Fault /\ Claim(worker[w].msg)
     \/ IsClaimable(worker[w].msg) /\ claim[worker[w].msg.request].state = "processing"
          /\ EventTaken(worker[w].msg) /\ UNCHANGED claim
  /\ Return(w, "technical")
  /\ UNCHANGED <<chainVars, stream, seen, held>>

------------------------------------------------------------------------------
(* process and invoiceFor.                                                 *)

(* checkStored: the stored invoice is the one this envelope asks for.      *)
CheckStored(inv, m) == inv.bill = m.bill /\ inv.uuid = m.uuid /\ inv.branch = m.branch

(* Mutant: the recorded outcome is not looked at.                          *)
LookupStoredOnly(w) ==
  LET m == worker[w].msg
      row == submission[m.bill]
  IN  /\ At(w, "stored")
      /\ \/ row.invoice = None /\ Goto(w, "prepare")
         \/ row.invoice # None /\ CheckStored(row.invoice, m)
              /\ worker' = [worker EXCEPT ![w].pc = "submit", ![w].invoice = row.invoice]
      /\ UNCHANGED <<ledgerVars, outsideVars>>

LookupStored(w) ==
  LET m == worker[w].msg
      row == submission[m.bill]
  IN  /\ At(w, "stored")
      /\ \/ row.invoice = None /\ Goto(w, "prepare")
         \/ row.invoice # None /\ ~CheckStored(row.invoice, m) /\ FailWith(w, "fail", "technical")
         \/ row.invoice # None /\ CheckStored(row.invoice, m) /\ row.outcome # "pending"
              /\ Goto(w, "complete")
         \/ row.invoice # None /\ CheckStored(row.invoice, m) /\ row.outcome = "pending"
              /\ worker' = [worker EXCEPT ![w].pc = "submit", ![w].invoice = row.invoice]
         \/ "db" \in Fault /\ FailWith(w, "fail", "technical")
      /\ UNCHANGED <<ledgerVars, outsideVars>>

(* Mutant: a bill that is not final, or not reportable, is accepted.       *)
VerifyBillLax(m) ==
  bill[m.bill].branch = m.branch /\ bill[m.bill].uuid \in {None, m.uuid}

(* verifyBill accepts: the bill is of this branch, is a final sale with    *)
(* reportable data, and carries no other UUID.                             *)
VerifyBill(m) ==
  /\ bill[m.bill].branch = m.branch
  /\ bill[m.bill].state >= 1
  /\ bill[m.bill].uuid \in {None, m.uuid}

Prepare(w) ==
  /\ At(w, "prepare")
  /\ \/ VerifyBill(worker[w].msg) /\ Goto(w, "book")
     \/ ~VerifyBill(worker[w].msg) /\ FailWith(w, "refuse", "input")
     \/ "db" \in Fault /\ FailWith(w, "fail", "technical")
  /\ UNCHANGED <<ledgerVars, outsideVars>>

(* FOR UPDATE NOWAIT fails while another transaction holds the row.        *)
RowLocked(w) ==
  \E v \in Worker \ {w} :
    /\ WorkerBranch[v] = WorkerBranch[w]
    /\ worker[v].pc \in {"book", "commit", "unbook"}

BookNumber(w) ==
  /\ At(w, "book") /\ Book(worker[w].msg)
  /\ worker' = [worker EXCEPT ![w].pc = "build", ![w].booking = BookingOf(worker[w].msg)]
  /\ UNCHANGED <<claim, outsideVars>>

(* Book fails.  No booking is returned, so none is released: a booking     *)
(* whose answer was lost stays until its lease is over or the request      *)
(* resumes it.                                                             *)
BookFails(w) ==
  LET m == worker[w].msg
  IN  /\ At(w, "book")
      /\ \/ RowLocked(w) /\ FailWith(w, "fail", "inflight") /\ UNCHANGED chainVars
         \/ /\ m.branch \in Configured /\ ~CannotBook(m) /\ ReservedByOther(m)
            /\ FailWith(w, "fail", "inflight") /\ UNCHANGED chainVars
         \/ m.branch \notin Configured /\ FailWith(w, "refuse", "input") /\ UNCHANGED chainVars
         \/ m.branch \in Configured /\ CannotBook(m) /\ FailWith(w, "fail", "technical")
              /\ UNCHANGED chainVars
         \/ "db" \in Fault /\ FailWith(w, "fail", "technical") /\ (UNCHANGED chainVars \/ Book(m))
      /\ UNCHANGED <<claim, outsideVars>>

(* Build signs the invoice under its booking.                              *)
BuiltInvoice(m, bk) ==
  [bill |-> m.bill, branch |-> bk.branch, uuid |-> bk.uuid, icv |-> bk.icv, pih |-> bk.pih,
   hash |-> Append(bk.pih, <<m.bill, bk.uuid>>), kind |-> BillKind[m.bill]]

CheckBuilt(inv, m, bk) ==
  /\ inv.bill = m.bill /\ inv.branch = m.branch
  /\ inv.uuid = m.uuid /\ inv.uuid = bk.uuid
  /\ inv.icv = bk.icv /\ inv.pih = bk.pih

Build(w) ==
  LET m == worker[w].msg
      bk == worker[w].booking
      inv == BuiltInvoice(m, bk)
  IN  /\ At(w, "build")
      /\ \/ CheckBuilt(inv, m, bk)
              /\ worker' = [worker EXCEPT ![w].pc = "commit", ![w].invoice = inv]
         \/ "build" \in Fault /\ Goto(w, "unbook")
      /\ UNCHANGED <<ledgerVars, outsideVars>>

CommitInvoice(w) ==
  /\ At(w, "commit") /\ Commit(worker[w].booking, worker[w].invoice)
  /\ Goto(w, "submit")
  /\ UNCHANGED <<claim, outsideVars>>

(* Mutant: an error of Commit is overlooked.                               *)
CommitOverlooked(w) ==
  /\ At(w, "commit") /\ "db" \in Fault
  /\ UNCHANGED chainVars \/ Commit(worker[w].booking, worker[w].invoice)
  /\ Goto(w, "submit")
  /\ UNCHANGED <<claim, outsideVars>>

CommitFails(w) ==
  LET bk == worker[w].booking
      inv == worker[w].invoice
  IN  /\ At(w, "commit")
      /\ \/ ~Committable(bk, inv) /\ UNCHANGED chainVars
         \/ "db" \in Fault /\ (UNCHANGED chainVars \/ Commit(bk, inv))
      /\ Goto(w, "unbook")
      /\ UNCHANGED <<claim, outsideVars>>

(* release: drop the booking after a failure before the commit.            *)
Unbook(w) ==
  /\ At(w, "unbook")
  /\ \/ ReleaseBooking(worker[w].booking)
     \/ "db" \in Fault /\ UNCHANGED chainVars
  /\ FailWith(w, "fail", "technical")
  /\ UNCHANGED <<claim, outsideVars>>

------------------------------------------------------------------------------
(* ZATCA (external): what it may answer to an invoice, and whether it      *)
(* holds the invoice afterwards.  It accepts or refuses an invoice that it *)
(* does not hold, and says so when it does.  When the network fails the    *)
(* daemon gets no answer, whatever ZATCA did.                              *)

Body(kind, status, warned) ==
  [ZeroResponse EXCEPT !.clearanceStatus = IF kind = "standard" THEN status ELSE "",
                       !.reportingStatus = IF kind = "simplified" THEN status ELSE "",
                       !.validationWarnings = warned]

AcceptingAnswers(kind) ==
  {[http |-> OK, body |-> "json", resp |-> Body(kind, SuccessStatus(kind), warned)] :
     warned \in BOOLEAN}

RefusingAnswers(kind) ==
  {[http |-> 400, body |-> "json", resp |-> ZeroResponse],
   [http |-> OK, body |-> "json", resp |-> Body(kind, "OTHER", FALSE)]}

HeldAnswers(kind) ==
  {[http |-> x[1], body |-> "json", resp |-> Body(kind, x[2], FALSE)] :
     x \in HeldStatus \X {SuccessStatus(kind), "OTHER"}}

NoAnswer == [http |-> 0, body |-> "empty", resp |-> ZeroResponse]

(* What ZATCA answers, and whether it then holds the invoice.              *)
Exchanges(inv) ==
  LET heard == IF inv \in held
                 THEN HeldAnswers(inv.kind) \X {TRUE}
                 ELSE (AcceptingAnswers(inv.kind) \X {TRUE}) \cup (RefusingAnswers(inv.kind) \X {FALSE})
      lost == {NoAnswer} \X {(inv \in held), TRUE}
  IN  IF "api" \in Fault THEN heard \cup lost ELSE heard

------------------------------------------------------------------------------
(* process, after the invoice is known.                                    *)

(* The result that an outcome makes process return.                        *)
OutcomeResult(outcome) ==
  CASE outcome = "rejected" -> "rejected"
    [] outcome = "ambiguous" -> "ambiguous"
    [] OTHER -> "ok"

Submit(w) ==
  LET inv == worker[w].invoice
  IN  /\ At(w, "submit")
      /\ \E x \in Exchanges(inv) :
           LET outcome == SubmitOutcome(inv.kind, x[1])
           IN  /\ seen' = seen \cup {inv}
               /\ held' = IF x[2] THEN held \cup {inv} ELSE held
               /\ IF outcome = Technical
                    THEN FailWith(w, "fail", "technical")
                    ELSE worker' = [worker EXCEPT ![w].pc = "record", ![w].outcome = outcome,
                                                  ![w].result = OutcomeResult(outcome)]
      /\ UNCHANGED <<ledgerVars, stream, reported>>

(* The service of the branch or the API request cannot be made: nothing is *)
(* sent.                                                                   *)
SubmitFails(w) ==
  /\ At(w, "submit") /\ "build" \in Fault
  /\ FailWith(w, "fail", "technical")
  /\ UNCHANGED <<ledgerVars, outsideVars>>

(* Mutant: an ambiguous answer is not recorded.                            *)
RecordDecided(w) ==
  /\ At(w, "record")
  /\ IF worker[w].outcome = "ambiguous"
       THEN UNCHANGED chainVars
       ELSE Record(worker[w].invoice.bill, worker[w].outcome, "provider")
  /\ Goto(w, "complete")
  /\ UNCHANGED <<claim, outsideVars>>

RecordAnswer(w) ==
  /\ At(w, "record")
  /\ Record(worker[w].invoice.bill, worker[w].outcome, "provider")
  /\ Goto(w, "complete")
  /\ UNCHANGED <<claim, outsideVars>>

(* Mutant: an error of Record is overlooked.                               *)
RecordOverlooked(w) ==
  /\ At(w, "record") /\ "db" \in Fault
  /\ UNCHANGED chainVars \/ Record(worker[w].invoice.bill, worker[w].outcome, "provider")
  /\ Goto(w, "complete")
  /\ UNCHANGED <<claim, outsideVars>>

RecordFails(w) ==
  /\ At(w, "record") /\ "db" \in Fault
  /\ UNCHANGED chainVars \/ Record(worker[w].invoice.bill, worker[w].outcome, "provider")
  /\ FailWith(w, "fail", "technical")
  /\ UNCHANGED <<claim, outsideVars>>

(* Mutant: the delivery is acknowledged without completing the claim.      *)
FinishOpen(w) ==
  At(w, "complete") /\ Goto(w, "ack") /\ UNCHANGED <<ledgerVars, outsideVars>>

(* finish: complete the claim; when that fails, the failure is technical   *)
(* whatever the outcome was.                                               *)
Finish(w) ==
  /\ At(w, "complete")
  /\ CompleteSucceeds(worker[w].msg) /\ CompleteClaim(worker[w].msg)
  /\ Goto(w, "ack")
  /\ UNCHANGED <<chainVars, outsideVars>>

FinishFails(w) ==
  /\ At(w, "complete")
  /\ \/ ~CompleteSucceeds(worker[w].msg) /\ UNCHANGED claim
     \/ "db" \in Fault /\ (UNCHANGED claim \/ CompleteClaim(worker[w].msg))
  /\ FailWith(w, "fail", "technical")
  /\ UNCHANGED <<chainVars, outsideVars>>

------------------------------------------------------------------------------
(* failed.                                                                 *)

(* A rejected input completes the claim and is acknowledged.  When the     *)
(* completion fails it is not acknowledged, and the result stays.          *)
Refuse(w) ==
  LET m == worker[w].msg
  IN  /\ At(w, "refuse")
      /\ \/ /\ CompleteSucceeds(m) /\ CompleteClaim(m)
            /\ Goto(w, "ack") /\ UNCHANGED reported
         \/ /\ ~CompleteSucceeds(m) /\ UNCHANGED claim
            /\ Return(w, worker[w].result)
         \/ /\ "db" \in Fault /\ (UNCHANGED claim \/ CompleteClaim(m))
            /\ Return(w, worker[w].result)
      /\ UNCHANGED <<chainVars, stream, seen, held>>

(* Any other failure releases the claim and leaves the delivery.  The      *)
(* error of Release is joined to the cause.                                *)
Fail(w) ==
  LET m == worker[w].msg
  IN  /\ At(w, "fail")
      /\ \/ ReleaseClaim(m)
              /\ Return(w, IF ReleaseAnswersInFlight(m) THEN "inflight" ELSE worker[w].result)
         \/ "db" \in Fault /\ UNCHANGED claim /\ Return(w, worker[w].result)
      /\ UNCHANGED <<chainVars, stream, seen, held>>

(* The acknowledgement arrives, is lost on the way, or cannot be sent.     *)
Ack(w) ==
  /\ At(w, "ack")
  /\ \/ Settle(worker[w].msg, "acked") /\ Return(w, worker[w].result)
     \/ "ack" \in Fault /\ UNCHANGED stream /\ Return(w, worker[w].result)
     \/ /\ "ack" \in Fault /\ UNCHANGED stream
        /\ Return(w, IF worker[w].result = "ok" THEN "technical" ELSE worker[w].result)
  /\ UNCHANGED <<ledgerVars, seen, held>>

------------------------------------------------------------------------------
(* FinalizePermanentFailure, on the last delivery.  When it fails,         *)
(* handleDelivery terminates the delivery.                                 *)

Abandon(w) ==
  /\ Settle(worker[w].msg, "termed") \/ ("ack" \in Fault /\ UNCHANGED stream)
  /\ worker' = [worker EXCEPT ![w] = Idle]

(* Mutant: the stored invoice is left pending.                             *)
FinalizeSkipsRecord(w) ==
  At(w, "finStored") /\ Goto(w, "finComplete") /\ UNCHANGED <<ledgerVars, outsideVars>>

FinalizeStored(w) ==
  LET row == submission[worker[w].msg.bill]
  IN  /\ At(w, "finStored")
      /\ \/ row.invoice # None /\ row.outcome = "pending" /\ Goto(w, "finRecord") /\ UNCHANGED stream
         \/ row.invoice = None /\ Goto(w, "finComplete") /\ UNCHANGED stream
         \/ row.outcome # "pending" /\ Goto(w, "finComplete") /\ UNCHANGED stream
         \/ "db" \in Fault /\ Abandon(w)
      /\ UNCHANGED <<ledgerVars, seen, held, reported>>

FinalizeRecord(w) ==
  LET b == worker[w].msg.bill
  IN  /\ At(w, "finRecord")
      /\ \/ Record(b, "terminal_failure", "local") /\ Goto(w, "finComplete") /\ UNCHANGED stream
         \/ /\ "db" \in Fault /\ (UNCHANGED chainVars \/ Record(b, "terminal_failure", "local"))
            /\ Abandon(w)
      /\ UNCHANGED <<claim, seen, held, reported>>

FinalizeComplete(w) ==
  LET m == worker[w].msg
  IN  /\ At(w, "finComplete")
      /\ \/ CompleteSucceeds(m) /\ CompleteClaim(m) /\ Goto(w, "finAck") /\ UNCHANGED stream
         \/ ~CompleteSucceeds(m) /\ UNCHANGED claim /\ Abandon(w)
         \/ "db" \in Fault /\ (UNCHANGED claim \/ CompleteClaim(m)) /\ Abandon(w)
      /\ UNCHANGED <<chainVars, seen, held, reported>>

FinalizeAck(w) ==
  /\ At(w, "finAck")
  /\ \/ Settle(worker[w].msg, "acked") /\ worker' = [worker EXCEPT ![w] = Idle]
     \/ "ack" \in Fault /\ UNCHANGED stream /\ worker' = [worker EXCEPT ![w] = Idle]
     \/ "ack" \in Fault /\ Abandon(w)
  /\ UNCHANGED <<ledgerVars, seen, held, reported>>

------------------------------------------------------------------------------
(* A worker is stopped between two deliveries, by a shutdown or because    *)
(* its branch or tenant changed, and its branch gets a worker again later. *)
(* Unsubscribe deletes the consumer that PullSubscribe created, and the    *)
(* delivery counts with it: what is not settled is delivered from the      *)
(* start.                                                                  *)
StopWorker(w) ==
  /\ "stop" \in Fault /\ At(w, "idle")
  /\ stream' = [m \in Message |->
                  IF m.subject = WorkerBranch[w] /\ stream[m].status = "stream"
                    THEN [status |-> "stream", count |-> 0]
                    ELSE stream[m]]
  /\ UNCHANGED <<ledgerVars, seen, held, reported, worker>>

(* A daemon process stops: its worker forgets everything.  The message is  *)
(* delivered again after AckWait, and the leases run out.                  *)
Crash(w) ==
  /\ "crash" \in Fault /\ ~At(w, "idle")
  /\ worker' = [worker EXCEPT ![w] = Idle]
  /\ UNCHANGED <<ledgerVars, outsideVars>>

ClaimLeaseEnds ==
  /\ \E r \in Request : ExpireClaim(r)
  /\ UNCHANGED <<chainVars, outsideVars, worker>>

BookingLeaseEnds ==
  /\ \E b \in Branch : ExpireBooking(b)
  /\ UNCHANGED <<claim, outsideVars, worker>>

(* One step of the handler that runs in worker w.                          *)
Step(w) ==
  \/ HandleDuplicate(w) \/ HandleConflict(w) \/ HandleInFlight(w) \/ HandleProcess(w)
  \/ ClaimError(w)
  \/ LookupStored(w) \/ Prepare(w)
  \/ BookNumber(w) \/ BookFails(w)
  \/ Build(w)
  \/ CommitInvoice(w) \/ CommitFails(w) \/ Unbook(w)
  \/ Submit(w) \/ SubmitFails(w)
  \/ RecordAnswer(w) \/ RecordFails(w)
  \/ Finish(w) \/ FinishFails(w)
  \/ Refuse(w) \/ Fail(w) \/ Ack(w)
  \/ FinalizeStored(w) \/ FinalizeRecord(w) \/ FinalizeComplete(w) \/ FinalizeAck(w)

StreamNext ==
  \/ \E w \in Worker, m \in Message : Deliver(w, m) \/ TerminateEnvelope(w, m)
  \/ \E w \in Worker : FetchTimeout(w) \/ Step(w) \/ StopWorker(w) \/ Crash(w)
  \/ ClaimLeaseEnds
  \/ BookingLeaseEnds

------------------------------------------------------------------------------
(* Safety.                                                                 *)

(* Whatever reached ZATCA is the committed invoice of its bill: nothing is *)
(* sent before Commit, and a retry, a takeover or a resumed booking never  *)
(* sends a rebuilt invoice ("A committed invoice is never rebuilt").       *)
SentIsCommitted ==
  \A i \in seen : submission[i.bill].invoice = i

(* A bill is marked issued (state 3) only with a recorded acceptance, and  *)
(* an acceptance recorded on the provider's word is of an invoice that     *)
(* ZATCA holds, whatever was lost, repeated or answered twice on the way.  *)
IssuedIsHeld ==
  \A b \in Bill :
    /\ bill[b].state = 3 =>
         submission[b].outcome \in {"accepted", "accepted_with_warning"}
    /\ /\ submission[b].outcome \in {"accepted", "accepted_with_warning"}
       /\ submission[b].evidence = "provider"
       => submission[b].invoice \in held

(* A delivery that holds its request's claim is acknowledged only after    *)
(* the claim is completed: an acknowledged message never leaves its claim  *)
(* open, so no bill is dropped half way.                                   *)
AckedIsCompleted ==
  \A m \in Message :
    /\ stream[m].status = "acked"
    /\ claim[m.request].event = m.event
    /\ claim[m.request].fingerprint = m.fingerprint
    => claim[m.request].state = "completed"

(* A completed request leaves no invoice waiting for an answer: the        *)
(* committed invoice it asked for, if any, has a recorded outcome          *)
(* (process, failed and FinalizePermanentFailure complete the claim last). *)
CompletedIsAnswered ==
  \A m \in Message :
    /\ claim[m.request].state = "completed"
    /\ claim[m.request].fingerprint = m.fingerprint
    /\ submission[m.bill].invoice # None /\ CheckStored(submission[m.bill].invoice, m)
    => submission[m.bill].outcome # "pending"

(* process goes on to finish, which completes the claim, only once the     *)
(* invoice of the bill is committed, is the one the request asks for and   *)
(* has an answer on its row, whoever recorded it: this delivery, an        *)
(* earlier one, another worker or an operator.                             *)
FinishedIsAnswered ==
  \A w \in Worker :
    LET m == worker[w].msg
        row == submission[m.bill]
    IN  worker[w].pc = "complete" =>
          row.invoice # None /\ CheckStored(row.invoice, m) /\ row.outcome # "pending"

(* An invoice is issued only as the backend asked for it: for a valid      *)
(* envelope on the subject of its own branch, for a reportable bill of     *)
(* that branch, under the UUID of the envelope, and never over a UUID that *)
(* the bill already carried (handleDelivery, verifyBill, checkBuilt).      *)
IssuedAsAsked ==
  \A b \in Bill : submission[b].invoice # None =>
    /\ b \in Reportable
    /\ BillUUID[b] \in {None, submission[b].invoice.uuid}
    /\ \E m \in Message :
         /\ m.valid /\ m.subject = m.branch /\ m.branch = BillBranch[b]
         /\ CheckStored(submission[b].invoice, m)

(* "checkStored refuses a stored invoice that belongs to another UUID or   *)
(* branch" (ordered_stream.go): a delivery never decides the outcome of an *)
(* invoice that is not the one its envelope asks for.                      *)
OthersInvoiceUntouched ==
  [][\A w \in Worker :
       LET m == worker[w].msg
       IN  /\ worker[w].pc \in {"record", "finRecord"}
           /\ submission'[m.bill].outcome # submission[m.bill].outcome
           => CheckStored(submission[m.bill].invoice, m)]_<<submission, worker>>

(* An invoice recorded as rejected on the provider's word is not held by   *)
(* ZATCA: a repeated submission is not mistaken for a refusal              *)
(* (rejectionOutcome: "That answer is ambiguous, not a rejection").        *)
RejectedIsNotHeld ==
  \A b \in Bill :
    submission[b].outcome = "rejected" /\ submission[b].evidence = "provider" =>
      submission[b].invoice \notin held

(* "An invoice whose answer is recorded is never sent again"               *)
(* (ordered_stream.go): a submission starts only for an invoice that is    *)
(* pending, unless an operator has recorded its answer since it was read.  *)
NeverSentAgain ==
  [][\A w \in Worker :
       worker[w].pc = "submit" /\ worker'[w].pc = "record" =>
         LET row == submission[worker[w].invoice.bill]
         IN  row.outcome = "pending" \/ row.evidence = "external"]_vars

(* The operator is asked to reconcile an invoice only once its outcome is  *)
(* recorded, so that a status request never answers "pending" to an alert, *)
(* whatever failed after the submission (process, finish, handleDelivery). *)
ReportedIsRecorded ==
  \A b \in reported : submission[b].outcome # "pending"

------------------------------------------------------------------------------
(* Liveness.                                                               *)

(* Every message is acknowledged or terminated.                            *)
EveryMessageSettles == \A m \in Message : <>(stream[m].status # "stream")

(* A committed invoice gets an outcome: ZATCA's answer, or the local       *)
(* terminal failure of an exhausted delivery.                              *)
CommittedIsAnswered ==
  \A b \in Bill : submission[b].invoice # None ~> submission[b].outcome # "pending"
==============================================================================
