------------------------ MODULE Reconciliation_proofs ------------------------
(***************************************************************************)
(* Theorems about the whole protocol, for any number of workers, messages, *)
(* bills, branches and operators, any delivery budget and any set of       *)
(* faults.                                                                 *)
(*                                                                         *)
(* The inductive invariant IInv adds to the properties what a worker knows *)
(* at each point of its handler (LocalsOK): which of its locals are set,   *)
(* that an invoice it is about to commit hashes its own contents, and that *)
(* an invoice it is about to send, or whose answer it is about to record,  *)
(* is the committed one.  Every step of a worker or of an operator is one  *)
(* operation of SQLChain or leaves the chain tables alone (ChainStep), so  *)
(* what InvoiceChain_proofs shows of the operations carries over.          *)
(***************************************************************************)
EXTENDS Reconciliation, InvoiceChain_proofs

(* What is set in a worker's locals, by the point of the handler.          *)
LocalsOK(s) ==
  /\ s.pc # "idle" => s.msg \in Message
  /\ s.pc \in {"build", "commit", "unbook"} => s.booking \in Booking
  /\ s.pc \in {"commit", "submit", "record"} => s.invoice \in SignedInvoice
  /\ s.pc = "commit" => HashesItself(s.invoice)
  /\ s.pc = "record" => s.outcome \in Outcome

(* What a worker sends or records an answer for is stored.                 *)
SendsStored ==
  \A w \in Worker :
    worker[w].pc \in {"submit", "record"} =>
      submission[worker[w].invoice.bill].invoice = worker[w].invoice

IInv ==
  /\ TypeOK
  /\ \A w \in Worker : LocalsOK(worker[w])
  /\ ChainIntact
  /\ AnswersOK
  /\ SentIsCommitted
  /\ SendsStored

------------------------------------------------------------------------------
(* The parts of an envelope are of their types.                            *)
LEMMA EnvelopeParts ==
  ASSUME NEW m \in Message
  PROVE  /\ m.bill \in Bill /\ m.branch \in Branch /\ m.request \in Request
         /\ m.event \in Event /\ m.uuid \in UUID /\ m.fingerprint \in Fingerprint
  BY MessageAssumption DEF Envelope

(* The operations on the claims keep their types.                          *)
LEMMA ClaimInitType == ClaimInit => ClaimTypeOK
  BY DEF ClaimInit, ClaimTypeOK, ClaimRow, NoClaim, Lease

(* Claim, ReleaseClaim and CompleteClaim keep the types of the claims.     *)
LEMMA ClaimTypes ==
  ASSUME ClaimTypeOK, NEW m \in Message, Claim(m) \/ ReleaseClaim(m) \/ CompleteClaim(m)
  PROVE  ClaimTypeOK'
<1>1. m.request \in Request /\ m.event \in Event /\ m.fingerprint \in Fingerprint
  BY EnvelopeParts
<1>2. claim[m.request] \in ClaimRow
  BY <1>1 DEF ClaimTypeOK
<1>3. CASE Claim(m)
  BY <1>1, <1>3 DEF Claim, ClaimTypeOK, ClaimRow, Lease
<1>4. CASE ReleaseClaim(m)
  <2>1. [claim[m.request] EXCEPT !.lease = "null"] \in ClaimRow
    BY <1>2 DEF ClaimRow, Lease
  <2> QED
    BY <1>1, <1>4, <2>1 DEF ReleaseClaim, ClaimTypeOK
<1>5. CASE CompleteClaim(m)
  <2>1. [claim[m.request] EXCEPT !.state = "completed", !.lease = "null"] \in ClaimRow
    BY <1>2 DEF ClaimRow, Lease
  <2>2. claim' \in {claim, [claim EXCEPT ![m.request] =
                              [claim[m.request] EXCEPT !.state = "completed", !.lease = "null"]]}
    BY <1>5, Zenon DEF CompleteClaim
  <2> QED
    BY <1>1, <2>1, <2>2 DEF ClaimTypeOK
<1> QED
  BY <1>3, <1>4, <1>5

(* So does the end of a lease.                                             *)
LEMMA ExpireClaimType ==
  ASSUME ClaimTypeOK, NEW r \in Request, ExpireClaim(r)
  PROVE  ClaimTypeOK'
<1>1. [claim[r] EXCEPT !.lease = "expired"] \in ClaimRow
  BY DEF ClaimTypeOK, ClaimRow, Lease
<1> QED
  BY <1>1 DEF ExpireClaim, ClaimTypeOK

(* Every answer is classified as an outcome or as a technical failure.     *)
LEMMA OutcomeTypes ==
  ASSUME NEW kind, NEW a
  PROVE  SubmitOutcome(kind, a) \in Outcome \cup {Technical}
<1>1. \A resp : ResponseOutcome(kind, resp) \in Outcome
  BY DEF ResponseOutcome, Outcome
<1>2. RejectionOutcome(kind, a) \in Outcome \cup {Technical}
  BY <1>1 DEF RejectionOutcome, Outcome, Technical
<1> QED
  BY <1>1, <1>2 DEF SubmitOutcome

------------------------------------------------------------------------------
(* Control: the worker that steps keeps its locals and moves on.           *)

PlainPC ==
  {"claim", "stored", "prepare", "book", "complete", "refuse", "fail", "ack",
   "finStored", "finRecord", "finComplete", "finAck"}

KeepsLocals(w, pc) ==
  \E s \in WorkerState :
    /\ worker' = [worker EXCEPT ![w] = s]
    /\ s.pc = pc
    /\ s.msg = worker[w].msg
    /\ s.booking = worker[w].booking
    /\ s.invoice = worker[w].invoice
    /\ s.outcome = worker[w].outcome

WorkerSafe(w) ==
  \E s \in WorkerState :
    /\ worker' = [worker EXCEPT ![w] = s]
    /\ LocalsOK(s)
    /\ s.pc \in {"submit", "record"} => submission'[s.invoice.bill].invoice = s.invoice

(* A jump keeps the locals of the handler.                                 *)
LEMMA GotoKeeps ==
  ASSUME StreamTypeOK, NEW w \in Worker, NEW pc \in PC, Goto(w, pc)
  PROVE  KeepsLocals(w, pc)
<1> DEFINE s == [worker[w] EXCEPT !.pc = pc]
<1>1. worker[w] \in WorkerState
  BY DEF StreamTypeOK
<1>2. /\ s \in WorkerState /\ s.pc = pc /\ s.msg = worker[w].msg /\ s.booking = worker[w].booking
      /\ s.invoice = worker[w].invoice /\ s.outcome = worker[w].outcome
  BY <1>1 DEF WorkerState
<1>3. worker' = [worker EXCEPT ![w] = s]
  BY DEF Goto
<1> HIDE DEF s
<1> QED
  BY <1>2, <1>3 DEF KeepsLocals

(* So does a failure, which only sets the result.                          *)
LEMMA FailKeeps ==
  ASSUME StreamTypeOK, NEW w \in Worker, NEW pc \in PC, NEW r \in Result, FailWith(w, pc, r)
  PROVE  KeepsLocals(w, pc)
<1> DEFINE s == [worker[w] EXCEPT !.pc = pc, !.result = r]
<1>1. worker[w] \in WorkerState
  BY DEF StreamTypeOK
<1>2. /\ s \in WorkerState /\ s.pc = pc /\ s.msg = worker[w].msg /\ s.booking = worker[w].booking
      /\ s.invoice = worker[w].invoice /\ s.outcome = worker[w].outcome
  BY <1>1 DEF WorkerState
<1>3. worker' = [worker EXCEPT ![w] = s]
  BY Zenon DEF FailWith
<1> HIDE DEF s
<1> QED
  BY <1>2, <1>3 DEF KeepsLocals

(* A step that ends where neither booking nor invoice is needed is safe.   *)
LEMMA PlainIsSafe ==
  ASSUME NEW w \in Worker, worker[w].msg \in Message, NEW pc \in PlainPC, KeepsLocals(w, pc)
  PROVE  WorkerSafe(w)
  BY DEF KeepsLocals, WorkerSafe, LocalsOK, PlainPC

(* A worker that forgets everything is safe.                               *)
LEMMA IdleIsSafe ==
  ASSUME NEW w \in Worker, worker' = [worker EXCEPT ![w] = Idle]
  PROVE  WorkerSafe(w)
<1>1. Idle \in WorkerState /\ Idle.pc = "idle"
  BY DEF Idle, WorkerState, PC, Result
<1>2. LocalsOK(Idle)
  BY <1>1 DEF LocalsOK
<1> QED
  BY <1>1, <1>2 DEF WorkerSafe

(* The return of HandleMessage to handleDelivery is safe.                  *)
LEMMA ReturnIsSafe ==
  ASSUME StreamTypeOK, NEW w \in Worker, worker[w].msg \in Message, NEW r, Return(w, r)
  PROVE  WorkerSafe(w) /\ reported' \subseteq Bill
<1>1. reported' \subseteq Bill
  BY EnvelopeParts DEF Return, StreamTypeOK
<1>2. CASE r = "technical" /\ worker[w].count >= MaxDeliver
  <2>1. Goto(w, "finStored")
    BY <1>2 DEF Return, Goto
  <2> QED
    BY <1>1, <2>1, GotoKeeps, PlainIsSafe DEF PC, PlainPC
<1>3. CASE ~(r = "technical" /\ worker[w].count >= MaxDeliver)
  <2>1. worker' = [worker EXCEPT ![w] = Idle]
    BY <1>3 DEF Return
  <2> QED
    BY <1>1, <2>1, IdleIsSafe
<1> QED
  BY <1>2, <1>3

------------------------------------------------------------------------------
(* One step of a worker.                                                   *)

OutsideSafe ==
  /\ stream' \in [Message -> Delivery]
  /\ held' \subseteq SignedInvoice
  /\ reported' \subseteq Bill
  /\ seen' \subseteq SignedInvoice
  /\ \A i \in seen' \ seen : submission[i.bill].invoice = i

StepSafe(w) == WorkerSafe(w) /\ ClaimTypeOK' /\ ChainStep /\ OutsideSafe

(* An acknowledgement or a termination keeps the type of the stream.       *)
LEMMA SettleType ==
  ASSUME StreamTypeOK, NEW m \in Message, NEW status \in {"acked", "termed"}, Settle(m, status)
  PROVE  stream' \in [Message -> Delivery]
<1>1. [stream[m] EXCEPT !.status = status] \in Delivery
  BY DEF StreamTypeOK, Delivery
<1> QED
  BY <1>1 DEF Settle, StreamTypeOK

(* A step that leaves the stream, ZATCA and the reports alone is safe.     *)
LEMMA OutsideUnchanged ==
  ASSUME StreamTypeOK, UNCHANGED outsideVars
  PROVE  OutsideSafe
  BY DEF outsideVars, StreamTypeOK, OutsideSafe

(* A step that leaves the tables of the chain alone is a step of it.       *)
LEMMA ChainUnchanged == UNCHANGED chainVars => ChainStep
  BY DEF ChainStep

(* A step that leaves the claims alone keeps their type.                   *)
LEMMA ClaimUnchanged == ClaimTypeOK /\ UNCHANGED claim => ClaimTypeOK'
  BY DEF ClaimTypeOK

(* An invoice built under a booking is well typed and hashes itself.       *)
LEMMA BuiltType ==
  ASSUME NEW m \in Message, NEW bk \in Booking
  PROVE  BuiltInvoice(m, bk) \in SignedInvoice /\ HashesItself(BuiltInvoice(m, bk))
<1>1. m.bill \in Bill
  BY EnvelopeParts
<1>2. bk.branch \in Branch /\ bk.uuid \in UUID /\ bk.icv \in Nat /\ bk.pih \in Seq(Bill \X UUID)
  BY DEF Booking, Hash
<1>3. Append(bk.pih, <<m.bill, bk.uuid>>) \in Hash
  BY <1>1, <1>2 DEF Hash
<1>4. BillKind[m.bill] \in {"standard", "simplified"}
  BY <1>1, ChainAssumption
<1> QED
  BY <1>1, <1>2, <1>3, <1>4 DEF BuiltInvoice, SignedInvoice, HashesItself, Hash

(* A failure before the commit keeps the booking that is released next.    *)
LEMMA UnbookIsSafe ==
  ASSUME NEW w \in Worker, worker[w].msg \in Message, worker[w].booking \in Booking,
         KeepsLocals(w, "unbook")
  PROVE  WorkerSafe(w)
  BY DEF KeepsLocals, WorkerSafe, LocalsOK

(* Every step of a handler leaves a worker that holds what its place needs *)
(* and sends only what is committed.                                       *)
LEMMA StepIsSafe ==
  ASSUME IInv, NEW w \in Worker, Step(w)
  PROVE  StepSafe(w)
<1> DEFINE m == worker[w].msg
<1>a. StreamTypeOK /\ ClaimTypeOK /\ ChainTypeOK /\ worker[w] \in WorkerState /\ LocalsOK(worker[w])
  BY DEF IInv, TypeOK, StreamTypeOK
<1>b. worker[w].pc # "idle" => m \in Message
  BY <1>a DEF LocalsOK
<1>c. PlainPC \subseteq PC
  BY DEF PlainPC, PC
<1>d. ASSUME UNCHANGED <<stream, seen, held>>, reported' \subseteq Bill PROVE OutsideSafe
  BY <1>a, <1>d DEF StreamTypeOK, OutsideSafe
<1>1. CASE HandleDuplicate(w) \/ HandleConflict(w)
  <2>1. m \in Message
    BY <1>1, <1>b DEF HandleDuplicate, HandleConflict, At
  <2>2. KeepsLocals(w, "ack")
    BY <1>1, <1>a, GotoKeeps, FailKeeps DEF HandleDuplicate, HandleConflict, PC, Result
  <2>3. UNCHANGED claim /\ UNCHANGED chainVars /\ UNCHANGED outsideVars
    BY <1>1 DEF HandleDuplicate, HandleConflict, ledgerVars
  <2> QED
    BY <1>a, <2>1, <2>2, <2>3, PlainIsSafe, OutsideUnchanged, ChainUnchanged, ClaimUnchanged
       DEF StepSafe, PlainPC
<1>2. CASE HandleInFlight(w)
  <2>1. m \in Message
    BY <1>2, <1>b DEF HandleInFlight, At
  <2>2. WorkerSafe(w) /\ reported' \subseteq Bill
    BY <1>2, <1>a, <2>1, ReturnIsSafe DEF HandleInFlight
  <2>3. UNCHANGED claim /\ UNCHANGED chainVars /\ UNCHANGED <<stream, seen, held>>
    BY <1>2 DEF HandleInFlight, ledgerVars
  <2> QED
    BY <1>a, <1>d, <2>2, <2>3, ChainUnchanged, ClaimUnchanged DEF StepSafe
<1>3. CASE HandleProcess(w)
  <2>1. m \in Message
    BY <1>3, <1>b DEF HandleProcess, At
  <2>2. KeepsLocals(w, "stored")
    BY <1>3, <1>a, GotoKeeps DEF HandleProcess, PC
  <2>3. ClaimTypeOK' /\ UNCHANGED chainVars /\ UNCHANGED outsideVars
    BY <1>3, <1>a, <2>1, ClaimTypes DEF HandleProcess
  <2> QED
    BY <1>a, <2>1, <2>2, <2>3, PlainIsSafe, OutsideUnchanged, ChainUnchanged DEF StepSafe, PlainPC
<1>4. CASE ClaimError(w)
  <2>1. m \in Message
    BY <1>4, <1>b DEF ClaimError, At
  <2>2. WorkerSafe(w) /\ reported' \subseteq Bill
    BY <1>4, <1>a, <2>1, ReturnIsSafe DEF ClaimError
  <2>3. ClaimTypeOK' /\ UNCHANGED chainVars /\ UNCHANGED <<stream, seen, held>>
    BY <1>4, <1>a, <2>1, ClaimTypes, ClaimUnchanged DEF ClaimError
  <2> QED
    BY <1>d, <2>2, <2>3, ChainUnchanged DEF StepSafe
<1>5. CASE LookupStored(w)
  <2>1. m \in Message /\ m.bill \in Bill
    BY <1>5, <1>b, EnvelopeParts DEF LookupStored, At
  <2>2. UNCHANGED claim /\ UNCHANGED chainVars /\ UNCHANGED outsideVars
    BY <1>5 DEF LookupStored, ledgerVars
  <2>3. WorkerSafe(w)
    <3>1. CASE Goto(w, "prepare") \/ Goto(w, "complete") \/ FailWith(w, "fail", "technical")
      <4>1. KeepsLocals(w, "prepare") \/ KeepsLocals(w, "complete") \/ KeepsLocals(w, "fail")
        BY <3>1, <1>a, GotoKeeps, FailKeeps DEF PC, Result
      <4> QED
        BY <4>1, <2>1, PlainIsSafe DEF PlainPC
    <3>2. CASE /\ submission[m.bill].invoice # None
               /\ CheckStored(submission[m.bill].invoice, m)
               /\ worker' = [worker EXCEPT ![w].pc = "submit", ![w].invoice = submission[m.bill].invoice]
      <4> DEFINE inv == submission[m.bill].invoice
                 s == [worker[w] EXCEPT !.pc = "submit", !.invoice = inv]
      <4>1. inv \in SignedInvoice /\ inv.bill = m.bill
        BY <3>2, <2>1, <1>a DEF ChainTypeOK, SubmissionRow, CheckStored
      <4>2. s \in WorkerState /\ s.pc = "submit" /\ s.msg = m /\ s.invoice = inv
        BY <4>1, <1>a DEF WorkerState, PC
      <4>3. worker' = [worker EXCEPT ![w] = s]
        BY <3>2, Zenon
      <4>4. submission' = submission
        BY <2>2 DEF chainVars
      <4> HIDE DEF s, inv
      <4>5. LocalsOK(s)
        BY <4>1, <4>2, <2>1 DEF LocalsOK
      <4>6. submission'[s.invoice.bill].invoice = s.invoice
        BY <4>1, <4>2, <4>4 DEF inv
      <4> QED
        BY <4>2, <4>3, <4>5, <4>6 DEF WorkerSafe
    <3> QED
      BY <1>5, <3>1, <3>2 DEF LookupStored
  <2> QED
    BY <1>a, <2>2, <2>3, OutsideUnchanged, ChainUnchanged, ClaimUnchanged DEF StepSafe
<1>6. CASE Prepare(w)
  <2>1. m \in Message
    BY <1>6, <1>b DEF Prepare, At
  <2>2. KeepsLocals(w, "book") \/ KeepsLocals(w, "refuse") \/ KeepsLocals(w, "fail")
    BY <1>6, <1>a, GotoKeeps, FailKeeps DEF Prepare, PC, Result
  <2>3. UNCHANGED claim /\ UNCHANGED chainVars /\ UNCHANGED outsideVars
    BY <1>6 DEF Prepare, ledgerVars
  <2> QED
    BY <1>a, <2>1, <2>2, <2>3, PlainIsSafe, OutsideUnchanged, ChainUnchanged, ClaimUnchanged
       DEF StepSafe, PlainPC
<1>7. CASE BookNumber(w)
  <2>1. m \in Message
    BY <1>7, <1>b DEF BookNumber, At
  <2>2. UNCHANGED claim /\ UNCHANGED outsideVars
    BY <1>7 DEF BookNumber
  <2>3. ChainStep
    BY <1>7, <2>1 DEF BookNumber, ChainStep, ChainNext
  <2> DEFINE s == [worker[w] EXCEPT !.pc = "build", !.booking = BookingOf(m)]
  <2>4. BookingOf(m) \in Booking
    BY <1>a, <2>1, BookingType
  <2>5. s \in WorkerState /\ s.pc = "build" /\ s.msg = m /\ s.booking = BookingOf(m)
    BY <2>4, <1>a DEF WorkerState, PC
  <2>6. worker' = [worker EXCEPT ![w] = s]
    BY <1>7, Zenon DEF BookNumber
  <2> HIDE DEF s
  <2>7. LocalsOK(s)
    BY <2>1, <2>4, <2>5 DEF LocalsOK
  <2>8. WorkerSafe(w)
    BY <2>5, <2>6, <2>7 DEF WorkerSafe
  <2> QED
    BY <1>a, <2>2, <2>3, <2>8, OutsideUnchanged, ClaimUnchanged DEF StepSafe
<1>8. CASE BookFails(w)
  <2>1. m \in Message
    BY <1>8, <1>b DEF BookFails, At
  <2>2. KeepsLocals(w, "refuse") \/ KeepsLocals(w, "fail")
    BY <1>8, <1>a, FailKeeps DEF BookFails, PC, Result
  <2>3. UNCHANGED claim /\ UNCHANGED outsideVars
    BY <1>8 DEF BookFails
  <2>4. ChainStep
    BY <1>8, <2>1 DEF BookFails, ChainStep, ChainNext
  <2> QED
    BY <1>a, <2>1, <2>2, <2>3, <2>4, PlainIsSafe, OutsideUnchanged, ClaimUnchanged
       DEF StepSafe, PlainPC
<1>9. CASE Build(w)
  <2>1. m \in Message /\ worker[w].booking \in Booking
    BY <1>9, <1>a, <1>b DEF Build, At, LocalsOK
  <2>2. UNCHANGED claim /\ UNCHANGED chainVars /\ UNCHANGED outsideVars
    BY <1>9 DEF Build, ledgerVars
  <2>3. WorkerSafe(w)
    <3> DEFINE inv == BuiltInvoice(m, worker[w].booking)
               s == [worker[w] EXCEPT !.pc = "commit", !.invoice = inv]
    <3>1. CASE worker' = [worker EXCEPT ![w].pc = "commit", ![w].invoice = inv]
      <4>1. inv \in SignedInvoice /\ HashesItself(inv)
        BY <2>1, BuiltType
      <4> HIDE DEF inv
      <4>2. /\ s \in WorkerState /\ s.pc = "commit" /\ s.msg = m /\ s.invoice = inv
            /\ s.booking = worker[w].booking
        BY <4>1, <1>a DEF WorkerState, PC
      <4>3. worker' = [worker EXCEPT ![w] = s]
        BY <3>1, Zenon
      <4> HIDE DEF s
      <4>4. LocalsOK(s)
        BY <2>1, <4>1, <4>2 DEF LocalsOK
      <4> QED
        BY <4>2, <4>3, <4>4 DEF WorkerSafe
    <3>2. CASE Goto(w, "unbook")
      BY <3>2, <1>a, <2>1, GotoKeeps, UnbookIsSafe DEF PC
    <3> QED
      BY <1>9, <3>1, <3>2 DEF Build
  <2> QED
    BY <1>a, <2>2, <2>3, OutsideUnchanged, ChainUnchanged, ClaimUnchanged DEF StepSafe
<1>10. CASE CommitInvoice(w)
  <2> DEFINE inv == worker[w].invoice
  <2>1. m \in Message /\ worker[w].booking \in Booking /\ inv \in SignedInvoice /\ HashesItself(inv)
    BY <1>10, <1>a, <1>b DEF CommitInvoice, At, LocalsOK
  <2>2. UNCHANGED claim /\ UNCHANGED outsideVars
    BY <1>10 DEF CommitInvoice
  <2>3. Commit(worker[w].booking, inv) /\ Goto(w, "submit")
    BY <1>10 DEF CommitInvoice
  <2>4. ChainStep
    BY <2>1, <2>3 DEF ChainStep, ChainNext
  <2>5. submission'[inv.bill].invoice = inv
    <3>1. submission'[inv.bill] = [invoice |-> inv, outcome |-> "pending", evidence |-> None]
      BY <1>a, <2>1, <2>3, CommitEffect
    <3> QED
      BY <3>1
  <2>6. KeepsLocals(w, "submit")
    BY <1>a, <2>3, GotoKeeps DEF PC
  <2>7. WorkerSafe(w)
    BY <2>1, <2>5, <2>6 DEF KeepsLocals, WorkerSafe, LocalsOK
  <2> QED
    BY <1>a, <2>2, <2>4, <2>7, OutsideUnchanged, ClaimUnchanged DEF StepSafe
<1>11. CASE CommitFails(w)
  <2> DEFINE inv == worker[w].invoice
  <2>1. m \in Message /\ worker[w].booking \in Booking /\ inv \in SignedInvoice /\ HashesItself(inv)
    BY <1>11, <1>a, <1>b DEF CommitFails, At, LocalsOK
  <2>2. UNCHANGED claim /\ UNCHANGED outsideVars
    BY <1>11 DEF CommitFails
  <2>3. ChainStep
    BY <1>11, <2>1 DEF CommitFails, ChainStep, ChainNext
  <2>4. KeepsLocals(w, "unbook")
    BY <1>11, <1>a, GotoKeeps DEF CommitFails, PC
  <2> QED
    BY <1>a, <2>1, <2>2, <2>3, <2>4, UnbookIsSafe, OutsideUnchanged, ClaimUnchanged DEF StepSafe
<1>12. CASE Unbook(w)
  <2>1. m \in Message /\ worker[w].booking \in Booking
    BY <1>12, <1>a, <1>b DEF Unbook, At, LocalsOK
  <2>2. UNCHANGED claim /\ UNCHANGED outsideVars
    BY <1>12 DEF Unbook
  <2>3. ChainStep
    BY <1>12, <2>1 DEF Unbook, ChainStep, ChainNext
  <2>4. KeepsLocals(w, "fail")
    BY <1>12, <1>a, FailKeeps DEF Unbook, PC, Result
  <2> QED
    BY <1>a, <2>1, <2>2, <2>3, <2>4, PlainIsSafe, OutsideUnchanged, ClaimUnchanged
       DEF StepSafe, PlainPC
<1>13. CASE Submit(w)
  <2> DEFINE inv == worker[w].invoice
  <2>1. m \in Message /\ inv \in SignedInvoice
    BY <1>13, <1>a, <1>b DEF Submit, At, LocalsOK
  <2>2. submission[inv.bill].invoice = inv
    BY <1>13 DEF Submit, At, IInv, SendsStored
  <2>3. UNCHANGED claim /\ UNCHANGED chainVars /\ UNCHANGED <<stream, reported>>
    BY <1>13 DEF Submit, ledgerVars
  <2>4. PICK x \in Exchanges(inv) :
          /\ seen' = seen \cup {inv}
          /\ held' = IF x[2] THEN held \cup {inv} ELSE held
          /\ IF SubmitOutcome(inv.kind, x[1]) = Technical
               THEN FailWith(w, "fail", "technical")
               ELSE worker' = [worker EXCEPT ![w].pc = "record",
                                             ![w].outcome = SubmitOutcome(inv.kind, x[1]),
                                             ![w].result = OutcomeResult(SubmitOutcome(inv.kind, x[1]))]
    BY <1>13, Zenon DEF Submit
  <2>5. OutsideSafe
    BY <1>a, <2>1, <2>2, <2>3, <2>4 DEF OutsideSafe, StreamTypeOK
  <2>6. WorkerSafe(w)
    <3>1. CASE FailWith(w, "fail", "technical")
      <4>1. KeepsLocals(w, "fail")
        BY <3>1, <1>a, FailKeeps DEF PC, Result
      <4> QED
        BY <4>1, <2>1, PlainIsSafe DEF PlainPC
    <3>2. CASE SubmitOutcome(inv.kind, x[1]) # Technical
      <4> DEFINE o == SubmitOutcome(inv.kind, x[1])
                 s == [worker[w] EXCEPT !.pc = "record", !.outcome = o, !.result = OutcomeResult(o)]
      <4>1. o \in Outcome
        BY <3>2, OutcomeTypes
      <4>2. worker' = [worker EXCEPT ![w] = s]
        BY <2>4, <3>2, Zenon
      <4>3. OutcomeResult(o) \in Result
        BY DEF OutcomeResult, Result
      <4> HIDE DEF o
      <4>4. s \in WorkerState /\ s.pc = "record" /\ s.msg = m /\ s.invoice = inv /\ s.outcome = o
        BY <4>1, <4>3, <1>a DEF WorkerState, PC
      <4>5. submission' = submission
        BY <2>3 DEF chainVars
      <4> HIDE DEF s
      <4>6. LocalsOK(s)
        BY <2>1, <4>1, <4>4 DEF LocalsOK
      <4> QED
        BY <2>2, <4>2, <4>4, <4>5, <4>6 DEF WorkerSafe
    <3> QED
      BY <2>4, <3>1, <3>2
  <2> QED
    BY <1>a, <2>3, <2>5, <2>6, ChainUnchanged, ClaimUnchanged DEF StepSafe
<1>14. CASE SubmitFails(w)
  <2>1. m \in Message
    BY <1>14, <1>b DEF SubmitFails, At
  <2>2. KeepsLocals(w, "fail")
    BY <1>14, <1>a, FailKeeps DEF SubmitFails, PC, Result
  <2>3. UNCHANGED claim /\ UNCHANGED chainVars /\ UNCHANGED outsideVars
    BY <1>14 DEF SubmitFails, ledgerVars
  <2> QED
    BY <1>a, <2>1, <2>2, <2>3, PlainIsSafe, OutsideUnchanged, ChainUnchanged, ClaimUnchanged
       DEF StepSafe, PlainPC
<1>15. CASE RecordAnswer(w) \/ RecordFails(w)
  <2>1. m \in Message /\ worker[w].invoice.bill \in Bill /\ worker[w].outcome \in Outcome
    BY <1>15, <1>a, <1>b DEF RecordAnswer, RecordFails, At, LocalsOK, SignedInvoice
  <2>2. UNCHANGED claim /\ UNCHANGED outsideVars
    BY <1>15 DEF RecordAnswer, RecordFails
  <2>3. ChainStep
    BY <1>15, <2>1 DEF RecordAnswer, RecordFails, ChainStep, ChainNext, Evidence
  <2>4. KeepsLocals(w, "complete") \/ KeepsLocals(w, "fail")
    BY <1>15, <1>a, GotoKeeps, FailKeeps DEF RecordAnswer, RecordFails, PC, Result
  <2> QED
    BY <1>a, <2>1, <2>2, <2>3, <2>4, PlainIsSafe, OutsideUnchanged, ClaimUnchanged
       DEF StepSafe, PlainPC
<1>16. CASE Finish(w) \/ FinishFails(w)
  <2>1. m \in Message
    BY <1>16, <1>b DEF Finish, FinishFails, At
  <2>2. KeepsLocals(w, "ack") \/ KeepsLocals(w, "fail")
    BY <1>16, <1>a, GotoKeeps, FailKeeps DEF Finish, FinishFails, PC, Result
  <2>3. ClaimTypeOK' /\ UNCHANGED chainVars /\ UNCHANGED outsideVars
    BY <1>16, <1>a, <2>1, ClaimTypes, ClaimUnchanged DEF Finish, FinishFails
  <2> QED
    BY <1>a, <2>1, <2>2, <2>3, PlainIsSafe, OutsideUnchanged, ChainUnchanged DEF StepSafe, PlainPC
<1>17. CASE Refuse(w)
  <2>1. m \in Message
    BY <1>17, <1>b DEF Refuse, At
  <2>2. ClaimTypeOK' /\ UNCHANGED chainVars /\ UNCHANGED <<stream, seen, held>>
    BY <1>17, <1>a, <2>1, ClaimTypes, ClaimUnchanged DEF Refuse
  <2>3. CASE Goto(w, "ack") /\ UNCHANGED reported
    <3>1. KeepsLocals(w, "ack") /\ reported' \subseteq Bill
      BY <1>a, <2>3, GotoKeeps DEF PC, StreamTypeOK
    <3> QED
      BY <1>d, <2>1, <2>2, <3>1, PlainIsSafe, ChainUnchanged DEF StepSafe, PlainPC
  <2>4. CASE Return(w, worker[w].result)
    BY <1>a, <1>d, <2>1, <2>2, <2>4, ReturnIsSafe, ChainUnchanged DEF StepSafe
  <2> QED
    BY <1>17, <2>3, <2>4 DEF Refuse
<1>18. CASE Fail(w)
  <2>1. m \in Message
    BY <1>18, <1>b DEF Fail, At
  <2>2. ClaimTypeOK' /\ UNCHANGED chainVars /\ UNCHANGED <<stream, seen, held>>
    BY <1>18, <1>a, <2>1, ClaimTypes, ClaimUnchanged DEF Fail
  <2>3. \E r : Return(w, r)
    BY <1>18 DEF Fail
  <2> QED
    BY <1>a, <1>d, <2>1, <2>2, <2>3, ReturnIsSafe, ChainUnchanged DEF StepSafe
<1>19. CASE Ack(w)
  <2>1. m \in Message
    BY <1>19, <1>b DEF Ack, At
  <2>2. UNCHANGED claim /\ UNCHANGED chainVars /\ UNCHANGED <<seen, held>>
    BY <1>19 DEF Ack, ledgerVars
  <2>3. \E r : Return(w, r)
    BY <1>19 DEF Ack
  <2>4. Settle(m, "acked") \/ UNCHANGED stream
    BY <1>19 DEF Ack
  <2>5. stream' \in [Message -> Delivery]
    BY <1>a, <2>1, <2>4, SettleType DEF StreamTypeOK
  <2>6. WorkerSafe(w) /\ reported' \subseteq Bill
    BY <1>a, <2>1, <2>3, ReturnIsSafe
  <2>7. OutsideSafe
    BY <1>a, <2>2, <2>5, <2>6 DEF OutsideSafe, StreamTypeOK
  <2> QED
    BY <1>a, <2>2, <2>6, <2>7, ChainUnchanged, ClaimUnchanged DEF StepSafe
<1>20. CASE FinalizeStored(w) \/ FinalizeRecord(w) \/ FinalizeComplete(w) \/ FinalizeAck(w)
  <2>1. m \in Message /\ m.bill \in Bill
    BY <1>20, <1>b, EnvelopeParts
       DEF FinalizeStored, FinalizeRecord, FinalizeComplete, FinalizeAck, At
  <2>2. UNCHANGED <<seen, held, reported>>
    BY <1>20 DEF FinalizeStored, FinalizeRecord, FinalizeComplete, FinalizeAck
  <2>3. Settle(m, "acked") \/ Settle(m, "termed") \/ UNCHANGED stream
    BY <1>20 DEF FinalizeStored, FinalizeRecord, FinalizeComplete, FinalizeAck, Abandon
  <2>4. OutsideSafe
    BY <1>a, <2>1, <2>2, <2>3, SettleType DEF OutsideSafe, StreamTypeOK
  <2>5. ClaimTypeOK'
    BY <1>20, <1>a, <2>1, ClaimTypes, ClaimUnchanged
       DEF FinalizeStored, FinalizeRecord, FinalizeComplete, FinalizeAck, ledgerVars
  <2>6. ChainStep
    <3>1. CASE FinalizeRecord(w)
      BY <3>1, <2>1 DEF FinalizeRecord, ChainStep, ChainNext, Outcome, Evidence
    <3>2. CASE ~FinalizeRecord(w)
      BY <1>20, <3>2 DEF FinalizeStored, FinalizeComplete, FinalizeAck, ledgerVars, ChainStep
    <3> QED
      BY <3>1, <3>2
  <2>7. \/ worker' = [worker EXCEPT ![w] = Idle]
        \/ Goto(w, "finRecord") \/ Goto(w, "finComplete") \/ Goto(w, "finAck")
    BY <1>20 DEF FinalizeStored, FinalizeRecord, FinalizeComplete, FinalizeAck, Abandon
  <2>8. WorkerSafe(w)
    BY <1>a, <2>1, <2>7, IdleIsSafe, GotoKeeps, PlainIsSafe DEF PC, PlainPC
  <2> QED
    BY <2>4, <2>5, <2>6, <2>8 DEF StepSafe
<1> QED
  BY <1>1, <1>2, <1>3, <1>4, <1>5, <1>6, <1>7, <1>8, <1>9, <1>10, <1>11, <1>12, <1>13, <1>14,
     <1>15, <1>16, <1>17, <1>18, <1>19, <1>20, Zenon DEF Step

------------------------------------------------------------------------------
(* The inductive invariant.                                                *)

(* The invariant holds before the first delivery.                          *)
LEMMA IInvInit == Init => IInv
<1> SUFFICES ASSUME Init PROVE IInv
  OBVIOUS
<1>1. ClaimTypeOK /\ ChainTypeOK /\ ChainIntact /\ AnswersOK
  BY ClaimInitType, ChainInitType, ChainInitIntact, AnswersInit DEF Init, StreamInit
<1>2. Idle \in WorkerState /\ Idle.pc = "idle"
  BY DEF Idle, WorkerState, PC, Result
<1>3. \A w \in Worker : worker[w] = Idle
  BY DEF Init, StreamInit
<1>4. /\ worker \in [Worker -> WorkerState] /\ stream \in [Message -> Delivery]
      /\ seen = {} /\ held = {} /\ reported = {}
  BY <1>2 DEF Init, StreamInit, Delivery
<1>5. TypeOK
  BY <1>1, <1>4 DEF TypeOK, StreamTypeOK, Init
<1>6. \A w \in Worker : LocalsOK(worker[w])
  BY <1>2, <1>3 DEF LocalsOK
<1>7. SentIsCommitted
  BY <1>4 DEF SentIsCommitted
<1>8. SendsStored
  BY <1>2, <1>3 DEF SendsStored
<1> QED
  BY <1>1, <1>5, <1>6, <1>7, <1>8 DEF IInv

(* A step of one worker, or of none, keeps the invariant.                  *)
LEMMA SafeStepKeeps ==
  ASSUME IInv, ClaimTypeOK', ChainStep, OutsideSafe,
         UNCHANGED worker \/ \E w \in Worker : WorkerSafe(w),
         desk' \in [Responder -> {FreeDesk} \cup [bill : Bill, state : RecordState]]
  PROVE  IInv'
<1>a. StreamTypeOK /\ ChainTypeOK /\ AnswersOK /\ ChainIntact
  BY DEF IInv, TypeOK, StreamTypeOK
<1>1. ChainTypeOK' /\ ChainIntact' /\ AnswersOK' /\ Stands
  BY <1>a, ChainTypeStep, ChainIntactStep, AnswersStep
<1>2. \A i \in SignedInvoice :
        submission[i.bill].invoice = i => submission'[i.bill].invoice = i
  BY <1>1, InvoiceAssumption DEF Stands, SignedInvoice
<1>3. worker' \in [Worker -> WorkerState] /\ \A w \in Worker : LocalsOK(worker[w])'
  <2>1. CASE UNCHANGED worker
    BY <1>a, <2>1 DEF IInv, StreamTypeOK, LocalsOK, HashesItself
  <2>2. ASSUME NEW w \in Worker, WorkerSafe(w)
        PROVE  worker' \in [Worker -> WorkerState] /\ \A v \in Worker : LocalsOK(worker[v])'
    <3>1. PICK s \in WorkerState : worker' = [worker EXCEPT ![w] = s] /\ LocalsOK(s)
      BY <2>2 DEF WorkerSafe
    <3>2. worker' \in [Worker -> WorkerState]
      BY <1>a, <3>1 DEF StreamTypeOK
    <3>3. \A v \in Worker : worker'[v] = s \/ worker'[v] = worker[v]
      BY <1>a, <3>1 DEF StreamTypeOK
    <3>4. \A v \in Worker : LocalsOK(worker'[v])
      BY <3>1, <3>3 DEF IInv
    <3> QED
      BY <3>2, <3>4 DEF LocalsOK, HashesItself
  <2> QED
    BY <2>1, <2>2
<1>4. SentIsCommitted'
  <2> SUFFICES ASSUME NEW i \in seen' PROVE submission'[i.bill].invoice = i
    BY DEF SentIsCommitted
  <2>1. i \in SignedInvoice
    BY DEF OutsideSafe
  <2>2. submission[i.bill].invoice = i
    BY DEF OutsideSafe, IInv, SentIsCommitted
  <2> QED
    BY <1>2, <2>1, <2>2
<1>5. SendsStored'
  <2>1. ASSUME NEW v \in Worker, worker'[v] = worker[v], worker[v].pc \in {"submit", "record"}
        PROVE  submission'[worker[v].invoice.bill].invoice = worker[v].invoice
    <3>1. worker[v].invoice \in SignedInvoice
      BY <2>1 DEF IInv, LocalsOK
    <3> QED
      BY <1>2, <2>1, <3>1 DEF IInv, SendsStored
  <2>2. CASE UNCHANGED worker
    BY <2>1, <2>2 DEF SendsStored
  <2>3. ASSUME NEW w \in Worker, WorkerSafe(w) PROVE SendsStored'
    <3>1. PICK s \in WorkerState :
            /\ worker' = [worker EXCEPT ![w] = s]
            /\ s.pc \in {"submit", "record"} => submission'[s.invoice.bill].invoice = s.invoice
      BY <2>3 DEF WorkerSafe
    <3>2. \A v \in Worker : worker'[v] = IF v = w THEN s ELSE worker[v]
      BY <1>a, <3>1 DEF StreamTypeOK
    <3> QED
      BY <2>1, <3>1, <3>2 DEF SendsStored
  <2> QED
    BY <2>2, <2>3
<1>6. TypeOK'
  BY <1>1, <1>3 DEF TypeOK, StreamTypeOK, OutsideSafe
<1> QED
  BY <1>1, <1>3, <1>4, <1>5, <1>6 DEF IInv

(* Every step of the protocol is one operation of SQLChain, or none, and   *)
(* keeps the invariant.                                                    *)
LEMMA IInvStep == IInv /\ [Next]_allVars => IInv' /\ ChainStep
<1> SUFFICES ASSUME IInv, [Next]_allVars PROVE IInv' /\ ChainStep
  OBVIOUS
<1>a. StreamTypeOK /\ ClaimTypeOK /\ ChainTypeOK
  BY DEF IInv, TypeOK, StreamTypeOK
<1>b. desk \in [Responder -> {FreeDesk} \cup [bill : Bill, state : RecordState]]
  BY DEF IInv, TypeOK
<1>1. CASE UNCHANGED allVars
  <2>1. UNCHANGED claim /\ UNCHANGED chainVars /\ UNCHANGED outsideVars
        /\ UNCHANGED worker /\ UNCHANGED desk
    BY <1>1 DEF allVars, vars, ledgerVars
  <2> QED
    BY <1>a, <1>b, <2>1, ClaimUnchanged, ChainUnchanged, OutsideUnchanged, SafeStepKeeps
<1>2. ASSUME StreamNext, UNCHANGED desk PROVE IInv' /\ ChainStep
  <2>a. UNCHANGED desk
    BY <1>2
  <2>1. ASSUME NEW w \in Worker, NEW m \in Message, Deliver(w, m) PROVE IInv' /\ ChainStep
    <3> DEFINE s == [Idle EXCEPT !.pc = "claim", !.msg = m, !.count = stream[m].count + 1]
    <3>1. stream[m] \in Delivery
      BY <1>a DEF StreamTypeOK
    <3>2. s \in WorkerState /\ s.pc = "claim" /\ s.msg = m
      <4>1. Idle \in WorkerState
        BY DEF Idle, WorkerState, PC, Result
      <4>2. stream[m].count + 1 \in Nat
        BY <3>1 DEF Delivery
      <4> QED
        BY <4>1, <4>2 DEF WorkerState, PC
    <3>3. worker' = [worker EXCEPT ![w] = s]
      BY <2>1 DEF Deliver
    <3>4. [stream[m] EXCEPT !.count = @ + 1] \in Delivery
      BY <3>1 DEF Delivery
    <3>5. stream' \in [Message -> Delivery]
      BY <1>a, <2>1, <3>4 DEF Deliver, CountDelivery, StreamTypeOK
    <3>6. UNCHANGED claim /\ UNCHANGED chainVars /\ UNCHANGED <<seen, held, reported>>
      BY <2>1 DEF Deliver, ledgerVars
    <3> HIDE DEF s
    <3>7. LocalsOK(s)
      BY <3>2 DEF LocalsOK
    <3>8. WorkerSafe(w)
      BY <3>2, <3>3, <3>7 DEF WorkerSafe
    <3>9. OutsideSafe
      BY <1>a, <3>5, <3>6 DEF OutsideSafe, StreamTypeOK
    <3> QED
      BY <1>a, <1>b, <2>a, <3>6, <3>8, <3>9, ClaimUnchanged, ChainUnchanged, SafeStepKeeps
  <2>2. ASSUME NEW w \in Worker, NEW m \in Message, TerminateEnvelope(w, m)
        PROVE  IInv' /\ ChainStep
    <3> DEFINE counted == [stream[m] EXCEPT !.count = @ + 1]
               termed == [stream[m] EXCEPT !.count = @ + 1, !.status = "termed"]
    <3>1. counted \in Delivery /\ termed \in Delivery
      <4>1. stream[m] \in Delivery
        BY <1>a DEF StreamTypeOK
      <4>2. stream[m].count + 1 \in Nat
        BY <4>1 DEF Delivery
      <4> QED
        BY <4>1, <4>2 DEF Delivery
    <3>2. stream' = [stream EXCEPT ![m] = counted] \/ stream' = [stream EXCEPT ![m] = termed]
      BY <2>2, Zenon DEF TerminateEnvelope, CountDelivery
    <3> HIDE DEF counted, termed
    <3>3. stream' \in [Message -> Delivery]
      BY <1>a, <3>1, <3>2 DEF StreamTypeOK
    <3>4. UNCHANGED claim /\ UNCHANGED chainVars /\ UNCHANGED <<seen, held, reported, worker>>
      BY <2>2 DEF TerminateEnvelope, ledgerVars
    <3>5. OutsideSafe
      BY <1>a, <3>3, <3>4 DEF OutsideSafe, StreamTypeOK
    <3> QED
      BY <1>a, <1>b, <2>a, <3>4, <3>5, ClaimUnchanged, ChainUnchanged, SafeStepKeeps
  <2>3. ASSUME NEW w \in Worker, FetchTimeout(w) PROVE IInv' /\ ChainStep
    <3>1. UNCHANGED claim /\ UNCHANGED chainVars /\ UNCHANGED outsideVars /\ UNCHANGED worker
      BY <2>3 DEF FetchTimeout, vars, ledgerVars
    <3> QED
      BY <1>a, <1>b, <2>a, <3>1, ClaimUnchanged, ChainUnchanged, OutsideUnchanged, SafeStepKeeps
  <2>4. ASSUME NEW w \in Worker, Step(w) PROVE IInv' /\ ChainStep
    <3>1. StepSafe(w)
      BY <2>4, StepIsSafe
    <3> QED
      BY <1>b, <2>a, <3>1, SafeStepKeeps DEF StepSafe
  <2>5. ASSUME NEW w \in Worker, Crash(w) PROVE IInv' /\ ChainStep
    <3>1. UNCHANGED claim /\ UNCHANGED chainVars /\ UNCHANGED outsideVars
      BY <2>5 DEF Crash, ledgerVars
    <3>2. WorkerSafe(w)
      BY <2>5, IdleIsSafe DEF Crash
    <3> QED
      BY <1>a, <1>b, <2>a, <3>1, <3>2, ClaimUnchanged, ChainUnchanged, OutsideUnchanged, SafeStepKeeps
  <2>6. ASSUME ClaimLeaseEnds PROVE IInv' /\ ChainStep
    <3>1. ClaimTypeOK' /\ UNCHANGED chainVars /\ UNCHANGED outsideVars /\ UNCHANGED worker
      BY <1>a, <2>6, ExpireClaimType DEF ClaimLeaseEnds
    <3> QED
      BY <1>a, <1>b, <2>a, <3>1, ChainUnchanged, OutsideUnchanged, SafeStepKeeps
  <2>7. ASSUME BookingLeaseEnds PROVE IInv' /\ ChainStep
    <3>1. UNCHANGED claim /\ UNCHANGED outsideVars /\ UNCHANGED worker
      BY <2>7 DEF BookingLeaseEnds
    <3>2. ChainStep
      BY <2>7 DEF BookingLeaseEnds, ChainStep, ChainNext
    <3> QED
      BY <1>a, <1>b, <2>a, <3>1, <3>2, ClaimUnchanged, OutsideUnchanged, SafeStepKeeps
  <2>8. ASSUME NEW w \in Worker, StopWorker(w) PROVE IInv' /\ ChainStep
    <3>1. [status |-> "stream", count |-> 0] \in Delivery
      BY DEF Delivery
    <3>2. stream' \in [Message -> Delivery]
      BY <1>a, <2>8, <3>1 DEF StopWorker, StreamTypeOK
    <3>3. UNCHANGED claim /\ UNCHANGED chainVars /\ UNCHANGED <<seen, held, reported, worker>>
      BY <2>8 DEF StopWorker, ledgerVars
    <3>4. OutsideSafe
      BY <1>a, <3>2, <3>3 DEF OutsideSafe, StreamTypeOK
    <3> QED
      BY <1>a, <1>b, <2>a, <3>3, <3>4, ClaimUnchanged, ChainUnchanged, SafeStepKeeps
  <2> QED
    BY <1>2, <2>1, <2>2, <2>3, <2>4, <2>5, <2>6, <2>7, <2>8 DEF StreamNext
<1>3. ASSUME NEW o \in Responder, NEW b \in Bill, NEW state \in RecordState,
             NEW form \in HashForms, CheckRequest(o, b, state, form)
      PROVE  IInv' /\ ChainStep
  <2>1. UNCHANGED claim /\ UNCHANGED chainVars /\ UNCHANGED outsideVars /\ UNCHANGED worker
    BY <1>3 DEF CheckRequest, vars, ledgerVars
  <2>2. desk' \in [Responder -> {FreeDesk} \cup [bill : Bill, state : RecordState]]
    BY <1>3, <1>b DEF CheckRequest
  <2> QED
    BY <1>a, <1>b, <2>1, <2>2, ClaimUnchanged, ChainUnchanged, OutsideUnchanged, SafeStepKeeps
<1>4. ASSUME NEW o \in Responder, RecordRequest(o) PROVE IInv' /\ ChainStep
  <2>1. desk[o].bill \in Bill /\ desk[o].state \in RecordState
    BY <1>4, <1>b DEF RecordRequest
  <2>2. UNCHANGED claim /\ UNCHANGED outsideVars /\ UNCHANGED worker
    BY <1>4 DEF RecordRequest
  <2>3. ChainStep
    <3>1. RecordState \subseteq Outcome
      BY DEF RecordState, Outcome
    <3> QED
      BY <1>4, <2>1, <3>1 DEF RecordRequest, ChainStep, ChainNext, Evidence
  <2>4. desk' \in [Responder -> {FreeDesk} \cup [bill : Bill, state : RecordState]]
    BY <1>4, <1>b DEF RecordRequest
  <2> QED
    BY <1>a, <2>2, <2>3, <2>4, ClaimUnchanged, OutsideUnchanged, SafeStepKeeps
<1>5. ASSUME NEW o \in Responder, RecordRequestFails(o) PROVE IInv' /\ ChainStep
  <2>1. UNCHANGED claim /\ UNCHANGED chainVars /\ UNCHANGED outsideVars /\ UNCHANGED worker
    BY <1>5 DEF RecordRequestFails, vars, ledgerVars
  <2>2. desk' \in [Responder -> {FreeDesk} \cup [bill : Bill, state : RecordState]]
    BY <1>5, <1>b DEF RecordRequestFails
  <2> QED
    BY <1>a, <2>1, <2>2, ClaimUnchanged, ChainUnchanged, OutsideUnchanged, SafeStepKeeps
<1> QED
  BY <1>1, <1>2, <1>3, <1>4, <1>5 DEF Next, ReconcileNext

------------------------------------------------------------------------------
(* The theorems.                                                           *)

(* The inductive invariant: types, the intact chain, the logged answers,   *)
(* handlers that hold what their place needs and send only what is stored. *)
THEOREM Invariance == Spec => []IInv
<1>1. Init => IInv
  BY IInvInit
<1>2. IInv /\ [Next]_allVars => IInv'
  BY IInvStep
<1> QED
  BY <1>1, <1>2, PTL DEF Spec

(* Every reachable state of the daemon is well typed: no handler reads a   *)
(* booking, an invoice or an outcome that it has not set.                  *)
THEOREM TypeCorrect == Spec => []TypeOK
<1>1. IInv => TypeOK
  BY DEF IInv
<1> QED
  BY <1>1, Invariance, PTL

(* The committed invoices of every branch form one gapless hash chain,     *)
(* with any number of workers, crashes, takeovers, redeliveries and        *)
(* operators.                                                              *)
THEOREM ChainStaysIntact == Spec => []ChainIntact
<1>1. IInv => ChainIntact
  BY DEF IInv
<1> QED
  BY <1>1, Invariance, PTL

(* Whatever ZATCA was sent is the committed invoice of its bill: no retry, *)
(* takeover or crash makes the daemon send anything else.                  *)
THEOREM OnlyCommittedIsSent == Spec => []SentIsCommitted
<1>1. IInv => SentIsCommitted
  BY DEF IInv
<1> QED
  BY <1>1, Invariance, PTL

(* The outcome log holds the recorded answer of each invoice, once.        *)
THEOREM LogMatchesAnswers == Spec => []OneAnswerLogged
<1>1. IInv => OneAnswerLogged
  BY DEF IInv, AnswersOK
<1> QED
  BY <1>1, Invariance, PTL

(* A committed invoice and a recorded answer never change.                 *)
THEOREM InvoiceAndAnswerStand == Spec => FirstInvoiceAndAnswerStand
<1>1. IInv /\ [Next]_allVars =>
        [\A b \in Bill :
           /\ submission[b].invoice # None => submission'[b].invoice = submission[b].invoice
           /\ submission[b].outcome # "pending" => submission'[b] = submission[b]]_submission
  <2> SUFFICES ASSUME IInv, [Next]_allVars PROVE Stands
    BY DEF Stands
  <2>1. ChainTypeOK /\ AnswersOK /\ ChainStep
    BY IInvStep DEF IInv, TypeOK, StreamTypeOK
  <2> QED
    BY <2>1, AnswersStep
<1> QED
  BY <1>1, Invariance, PTL DEF Spec, FirstInvoiceAndAnswerStand

(* A chain moves only by a newly committed invoice, by one number, from    *)
(* the old tip to the hash of the invoice.                                 *)
THEOREM ChainGrowsByInvoices == Spec => ChainOnlyGrows
<1>1. IInv /\ [Next]_allVars =>
        [\A b \in Branch :
           chain'[b].lastICV # chain[b].lastICV =>
             /\ chain'[b].lastICV = chain[b].lastICV + 1
             /\ \E x \in Bill :
                  /\ submission[x].invoice = None
                  /\ submission'[x].invoice # None
                  /\ submission'[x].invoice.pih = EffectivePIH(chain[b])
                  /\ EffectivePIH(chain'[b]) = submission'[x].invoice.hash]_<<chain, submission>>
  <2> SUFFICES ASSUME IInv, [Next]_allVars PROVE Grows
    BY DEF Grows
  <2>1. ChainTypeOK /\ ChainStep
    BY IInvStep DEF IInv, TypeOK, StreamTypeOK
  <2> QED
    BY <2>1, GrowsStep
<1> QED
  BY <1>1, Invariance, PTL DEF Spec, ChainOnlyGrows

------------------------------------------------------------------------------
(* The protocol implements the abstract ledger.                            *)

LedgerOf == [b \in Branch |-> EffectivePIH(chain[b])]
AnswerOf == [x \in Bill |-> IF submission[x].invoice = None THEN "none" ELSE submission[x].outcome]

(* The initial tables are an empty ledger with no answers.                 *)
LEMMA LedgerInit == Init => Ledger!Init
  BY DEF Init, StreamInit, ChainInit, NoSubmission, EffectivePIH, GenesisPIH, Ledger!Init

(* A Commit issues one invoice at the end of the ledger of its branch.     *)
LEMMA CommitIssues ==
  ASSUME ChainTypeOK, NEW bk \in Booking, NEW inv \in SignedInvoice, HashesItself(inv), Commit(bk, inv)
  PROVE  Ledger!Issue(inv.branch, inv.bill, inv.uuid)
<1>1. /\ inv.branch \in Branch /\ inv.bill \in Bill
      /\ inv.pih = EffectivePIH(chain[inv.branch])
      /\ submission[inv.bill].invoice = None
      /\ EffectivePIH(chain'[inv.branch]) = inv.hash
      /\ \A b \in Branch \ {inv.branch} : chain'[b] = chain[b]
      /\ \A x \in Bill \ {inv.bill} : submission'[x] = submission[x]
  BY CommitEffect
<1>2. submission'[inv.bill] = [invoice |-> inv, outcome |-> "pending", evidence |-> None]
  BY CommitEffect
<1>3. submission'[inv.bill].invoice # None /\ submission'[inv.bill].outcome = "pending"
  BY <1>2, InvoiceAssumption
<1>4. EffectivePIH(chain'[inv.branch]) = Append(EffectivePIH(chain[inv.branch]), <<inv.bill, inv.uuid>>)
  BY <1>1 DEF HashesItself
<1>5. LedgerOf' = [LedgerOf EXCEPT ![inv.branch] = Append(@, <<inv.bill, inv.uuid>>)]
  BY <1>1, <1>4 DEF LedgerOf
<1>6. AnswerOf[inv.bill] = "none" /\ AnswerOf' = [AnswerOf EXCEPT ![inv.bill] = "pending"]
  BY <1>1, <1>3 DEF AnswerOf
<1> QED
  BY <1>5, <1>6 DEF LedgerOf, AnswerOf, Ledger!Issue

(* A Record decides the answer of a pending invoice, or changes nothing.   *)
LEMMA RecordDecides ==
  ASSUME ChainTypeOK, NEW x \in Bill, NEW o \in Outcome, NEW e \in Evidence, Record(x, o, e)
  PROVE  LedgerOf' = LedgerOf /\ (AnswerOf' = AnswerOf \/ Ledger!Decide(x, o))
<1>1. submission[x].invoice # None /\ chain' = chain
  BY RecordEffect
<1>2. LedgerOf' = LedgerOf
  BY <1>1 DEF LedgerOf
<1>3. CASE submission' = submission
  BY <1>2, <1>3 DEF AnswerOf
<1>4. CASE /\ submission[x].outcome = "pending"
           /\ submission'[x].invoice = submission[x].invoice
           /\ submission'[x].outcome = o
           /\ \A y \in Bill \ {x} : submission'[y] = submission[y]
  <2>1. AnswerOf[x] = "pending" /\ AnswerOf' = [AnswerOf EXCEPT ![x] = o]
    BY <1>1, <1>4 DEF AnswerOf
  <2> QED
    BY <1>2, <2>1 DEF LedgerOf, AnswerOf, Ledger!Decide
<1> QED
  BY <1>3, <1>4, RecordEffect

(* Every operation of SQLChain is a step of the ledger, or leaves it alone. *)
LEMMA LedgerStep ==
  ASSUME ChainTypeOK, ChainStep
  PROVE  Ledger!Next \/ (LedgerOf' = LedgerOf /\ AnswerOf' = AnswerOf)
<1>1. ASSUME NEW bk \in Booking, NEW inv \in SignedInvoice, HashesItself(inv), Commit(bk, inv)
      PROVE  Ledger!Next
  <2>1. inv.branch \in Branch /\ inv.bill \in Bill /\ inv.uuid \in UUID
    BY DEF SignedInvoice
  <2> QED
    BY <1>1, <2>1, CommitIssues DEF Ledger!Next
<1>2. ASSUME NEW x \in Bill, NEW o \in Outcome, NEW e \in Evidence, Record(x, o, e)
      PROVE  Ledger!Next \/ (LedgerOf' = LedgerOf /\ AnswerOf' = AnswerOf)
  BY <1>2, RecordDecides DEF Ledger!Next
<1>3. CASE SameInvoices /\ submission' = submission
  BY <1>3 DEF SameInvoices, LedgerOf, AnswerOf
<1> QED
  BY <1>1, <1>2, <1>3, AnswerCases, OnlyCommitIssues

(* Every behaviour of the protocol is a behaviour of the abstract ledger:  *)
(* a branch's ledger only grows, a bill is issued once, and its answer is  *)
(* decided once.                                                           *)
THEOREM LedgerRefinement == Spec => ImplementsLedger
<1>1. Init => Ledger!Init
  BY LedgerInit
<1>2. IInv /\ [Next]_allVars =>
        [Ledger!Next]_<<[b \in Branch |-> EffectivePIH(chain[b])],
                        [x \in Bill |-> IF submission[x].invoice = None
                                          THEN "none" ELSE submission[x].outcome]>>
  <2> SUFFICES ASSUME IInv, [Next]_allVars
               PROVE  Ledger!Next \/ (LedgerOf' = LedgerOf /\ AnswerOf' = AnswerOf)
    BY DEF LedgerOf, AnswerOf
  <2>1. ChainTypeOK /\ ChainStep
    BY IInvStep DEF IInv, TypeOK, StreamTypeOK
  <2> QED
    BY <2>1, LedgerStep
<1> QED
  BY <1>1, <1>2, Invariance, PTL DEF Spec, ImplementsLedger, Ledger!Spec
==============================================================================
