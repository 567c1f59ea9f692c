--------------------------- MODULE Answers_proofs ---------------------------
(***************************************************************************)
(* More theorems about the whole protocol, for any number of workers: an   *)
(* accepted invoice is one that ZATCA holds, an invoice is issued as it    *)
(* was asked for, the operator is alerted only of a recorded answer, and a *)
(* completed request is over.                                              *)
(*                                                                         *)
(* The invariant AInv adds to IInv what a worker has learned from the      *)
(* checks it has passed (Knows), and what the bills keep of their first    *)
(* contents (BillsOK).                                                     *)
(***************************************************************************)
EXTENDS Reconciliation_proofs

Accepting == {"accepted", "accepted_with_warning"}

(* A message that handleDelivery lets through.                             *)
Proper(m) == m.valid /\ m.subject = m.branch

(* A message whose bill verifyBill has accepted.                           *)
Verified(m) == BillBranch[m.bill] = m.branch /\ m.bill \in Reportable

(* What a handler knows at its place, given the submissions and what ZATCA *)
(* holds.                                                                  *)
Knows(s, sub, h) ==
  /\ s.pc # "idle" => Proper(s.msg)
  /\ s.pc \in {"book", "build", "commit", "unbook"} => Verified(s.msg)
  /\ s.pc \in {"commit", "submit", "record"} => CheckStored(s.invoice, s.msg)
  /\ s.pc = "record" /\ s.outcome \in Accepting => s.invoice \in h
  /\ s.result = "ambiguous" /\ s.pc # "record" => s.msg.bill \in Bill /\ sub[s.msg.bill].outcome # "pending"

(* A bill keeps its branch, and a UUID that it came with; only a           *)
(* reportable bill is final.                                               *)
BillsOK ==
  \A b \in Bill :
    /\ bill[b].branch = BillBranch[b]
    /\ BillUUID[b] \in {None, bill[b].uuid}
    /\ bill[b].state >= 1 => b \in Reportable

(* A completed claim has no lease that could end.                          *)
CompletedHasNoLease ==
  \A r \in Request : claim[r].state = "completed" => claim[r].lease = "null"

AInv ==
  /\ IInv
  /\ \A w \in Worker : Knows(worker[w], submission, held)
  /\ BillsOK
  /\ IssuedAsAsked
  /\ IssuedIsHeld
  /\ ReportedIsRecorded
  /\ CompletedHasNoLease

------------------------------------------------------------------------------
(* What a step may do.                                                     *)

(* An answer stands.                                                       *)
AnswersLast ==
  \A b \in Bill : submission[b].outcome # "pending" => submission'[b].outcome # "pending"

(* And ZATCA never loses an invoice.                                       *)
Lasting == AnswersLast /\ held \subseteq held'

(* The worker that moves knows what its new place needs.                   *)
Learns(w) ==
  \E s \in WorkerState :
    worker' = [worker EXCEPT ![w] = s] /\ Knows(s, submission', held')

(* The tables change by nothing, by a commit of what a message asks for,   *)
(* or by an answer that ZATCA's holdings justify.                          *)
JustifiedChain ==
  \/ UNCHANGED <<submission, bill>>
  \/ \E m \in Message, bk \in Booking, inv \in SignedInvoice :
       Proper(m) /\ Verified(m) /\ CheckStored(inv, m) /\ Commit(bk, inv)
  \/ \E b \in Bill, o \in Outcome, e \in Evidence :
       /\ Record(b, o, e)
       /\ o \in Accepting /\ e = "provider" => submission[b].invoice \in held

(* What is newly reported has a recorded answer.                           *)
JustifiedReport == \A b \in reported' \ reported : submission[b].outcome # "pending"

(* The claims change by at most one operation of the claim store.          *)
ClaimStep ==
  \/ UNCHANGED claim
  \/ \E m \in Message : Claim(m) \/ ReleaseClaim(m) \/ CompleteClaim(m)
  \/ \E r \in Request : ExpireClaim(r)

(* All of this, for a step of worker w.                                    *)
Sound(w) ==
  Learns(w) /\ JustifiedChain /\ JustifiedReport /\ ClaimStep /\ held \subseteq held'

(* No claim that is completed changes.                                     *)
CompletedStays == \A r \in Request : claim[r].state = "completed" => claim'[r] = claim[r]

------------------------------------------------------------------------------
(* The claims.                                                             *)

(* No operation of the claim store changes a completed claim.              *)
LEMMA ClaimStepFinal ==
  ASSUME ClaimTypeOK, CompletedHasNoLease, ClaimStep
  PROVE  CompletedStays /\ CompletedHasNoLease'
<1>1. CASE UNCHANGED claim
  BY <1>1 DEF CompletedStays, CompletedHasNoLease
<1>2. ASSUME NEW m \in Message, Claim(m) PROVE CompletedStays /\ CompletedHasNoLease'
  <2>1. m.request \in Request /\ claim[m.request].state # "completed"
    BY <1>2, EnvelopeParts DEF Claim, IsClaimable
  <2>2. /\ claim'[m.request].state = "processing"
        /\ \A r \in Request \ {m.request} : claim'[r] = claim[r]
    BY <1>2, <2>1 DEF Claim, ClaimTypeOK
  <2> QED
    BY <2>1, <2>2 DEF CompletedStays, CompletedHasNoLease
<1>3. ASSUME NEW m \in Message, ReleaseClaim(m) PROVE CompletedStays /\ CompletedHasNoLease'
  <2>1. CASE claim' = claim
    BY <2>1 DEF CompletedStays, CompletedHasNoLease
  <2>2. CASE OwnsClaim(m)
    <3>1. m.request \in Request /\ claim[m.request].state = "processing"
      BY <2>2, EnvelopeParts DEF OwnsClaim
    <3>2. claim' = [claim EXCEPT ![m.request] = [claim[m.request] EXCEPT !.lease = "null"]]
      BY <1>3, <2>2, Zenon DEF ReleaseClaim
    <3>3. /\ claim'[m.request].state = "processing"
          /\ \A r \in Request \ {m.request} : claim'[r] = claim[r]
      BY <3>1, <3>2 DEF ClaimTypeOK, ClaimRow
    <3> QED
      BY <3>1, <3>3 DEF CompletedStays, CompletedHasNoLease
  <2> QED
    BY <1>3, <2>1, <2>2 DEF ReleaseClaim
<1>4. ASSUME NEW m \in Message, CompleteClaim(m) PROVE CompletedStays /\ CompletedHasNoLease'
  <2>1. CASE claim' = claim
    BY <2>1 DEF CompletedStays, CompletedHasNoLease
  <2>2. CASE OwnsClaim(m)
    <3>1. m.request \in Request /\ claim[m.request].state = "processing"
      BY <2>2, EnvelopeParts DEF OwnsClaim
    <3>2. claim' = [claim EXCEPT ![m.request] =
                      [claim[m.request] EXCEPT !.state = "completed", !.lease = "null"]]
      BY <1>4, <2>2, Zenon DEF CompleteClaim
    <3>3. /\ claim'[m.request].lease = "null"
          /\ \A r \in Request \ {m.request} : claim'[r] = claim[r]
      BY <3>1, <3>2 DEF ClaimTypeOK, ClaimRow
    <3> QED
      BY <3>1, <3>3 DEF CompletedStays, CompletedHasNoLease
  <2> QED
    BY <1>4, <2>1, <2>2 DEF CompleteClaim
<1>5. ASSUME NEW r \in Request, ExpireClaim(r) PROVE CompletedStays /\ CompletedHasNoLease'
  <2>1. claim[r].state # "completed"
    BY <1>5 DEF ExpireClaim, CompletedHasNoLease
  <2>2. /\ claim'[r].state = claim[r].state
        /\ \A q \in Request \ {r} : claim'[q] = claim[q]
    BY <1>5 DEF ExpireClaim, ClaimTypeOK, ClaimRow
  <2> QED
    BY <2>1, <2>2 DEF CompletedStays, CompletedHasNoLease
<1> QED
  BY <1>1, <1>2, <1>3, <1>4, <1>5 DEF ClaimStep

------------------------------------------------------------------------------
(* The tables.                                                             *)

(* A commit that a message asks for, or an answer that is justified, keeps *)
(* the bills and what is said of the invoices.                             *)
LEMMA JustifiedKeeps ==
  ASSUME AInv, JustifiedChain, held \subseteq held'
  PROVE  BillsOK' /\ IssuedAsAsked' /\ IssuedIsHeld'
<1>a. ChainTypeOK /\ AnswerNeedsInvoice
  BY DEF AInv, IInv, TypeOK, StreamTypeOK, AnswersOK
<1>b. BillsOK /\ IssuedAsAsked /\ IssuedIsHeld
  BY DEF AInv
<1>1. CASE UNCHANGED <<submission, bill>>
  <2>1. submission' = submission /\ bill' = bill
    BY <1>1
  <2> QED
    BY <1>b, <2>1 DEF BillsOK, IssuedAsAsked, IssuedIsHeld
<1>2. ASSUME NEW m \in Message, NEW bk \in Booking, NEW inv \in SignedInvoice,
             Proper(m), Verified(m), CheckStored(inv, m), Commit(bk, inv)
      PROVE  BillsOK' /\ IssuedAsAsked' /\ IssuedIsHeld'
  <2> DEFINE x == inv.bill
  <2>1. x \in Bill /\ inv.uuid \in UUID /\ x = m.bill
    BY <1>2 DEF SignedInvoice, CheckStored
  <2>2. /\ submission'[x] = [invoice |-> inv, outcome |-> "pending", evidence |-> None]
        /\ submission[x].invoice = None
        /\ \A b \in Bill \ {x} : submission'[b] = submission[b]
    BY <1>a, <1>2, CommitEffect
  <2>3. /\ bill[x].uuid \in {None, inv.uuid}
        /\ bill' = [bill EXCEPT ![x].uuid = inv.uuid, ![x].hash = inv.hash]
    BY <1>2, Zenon DEF Commit, Committable
  <2>4. /\ bill'[x].branch = bill[x].branch /\ bill'[x].state = bill[x].state
        /\ bill'[x].uuid = inv.uuid
        /\ \A b \in Bill \ {x} : bill'[b] = bill[b]
    BY <1>a, <2>1, <2>3 DEF ChainTypeOK, BillRow
  <2>5. BillUUID[x] \in {None, inv.uuid}
    BY <1>b, <2>1, <2>3 DEF BillsOK
  <2> HIDE DEF x
  <2>6. BillsOK'
    BY <1>b, <2>4, <2>5 DEF BillsOK
  <2>7. IssuedAsAsked'
    <3>1. /\ x \in Reportable /\ m.valid /\ m.subject = m.branch /\ m.branch = BillBranch[x]
          /\ submission'[x].invoice = inv
      BY <1>2, <2>1, <2>2 DEF Proper, Verified
    <3> QED
      BY <1>2, <1>b, <2>2, <2>5, <3>1 DEF IssuedAsAsked
  <2>8. IssuedIsHeld'
    <3>1. submission[x].outcome = "pending"
      BY <1>a, <2>1, <2>2 DEF AnswerNeedsInvoice
    <3>2. bill[x].state # 3
      BY <1>b, <2>1, <3>1 DEF IssuedIsHeld
    <3>3. submission'[x].outcome = "pending"
      BY <2>2
    <3> QED
      BY <1>b, <2>2, <2>4, <3>2, <3>3 DEF IssuedIsHeld
  <2> QED
    BY <2>6, <2>7, <2>8
<1>3. ASSUME NEW x \in Bill, NEW o \in Outcome, NEW e \in Evidence, Record(x, o, e),
             o \in Accepting /\ e = "provider" => submission[x].invoice \in held
      PROVE  BillsOK' /\ IssuedAsAsked' /\ IssuedIsHeld'
  <2>1. CASE submission[x].outcome # "pending"
    <3>1. submission' = submission /\ bill' = bill
      BY <1>3, <2>1 DEF Record
    <3> QED
      BY <1>b, <3>1 DEF BillsOK, IssuedAsAsked, IssuedIsHeld
  <2>2. CASE submission[x].outcome = "pending"
    <3>1. /\ submission[x].invoice # None
          /\ submission' = [submission EXCEPT ![x].outcome = o, ![x].evidence = e]
          /\ bill' = IF o \in Accepting THEN [bill EXCEPT ![x].state = 3] ELSE bill
      BY <1>3, <2>2, Zenon DEF Record, Accepting
    <3>2. /\ submission'[x].invoice = submission[x].invoice
          /\ submission'[x].outcome = o /\ submission'[x].evidence = e
          /\ \A b \in Bill \ {x} : submission'[b] = submission[b]
      BY <1>a, <3>1 DEF ChainTypeOK, SubmissionRow
    <3>3. x \in Reportable
      BY <1>b, <3>1 DEF IssuedAsAsked
    <3>4. /\ bill'[x].branch = bill[x].branch /\ bill'[x].uuid = bill[x].uuid
          /\ bill'[x].state = IF o \in Accepting THEN 3 ELSE bill[x].state
          /\ \A b \in Bill \ {x} : bill'[b] = bill[b]
      BY <1>a, <3>1 DEF ChainTypeOK, BillRow
    <3>5. BillsOK'
      BY <1>b, <3>3, <3>4 DEF BillsOK
    <3>6. IssuedAsAsked'
      BY <1>b, <3>2 DEF IssuedAsAsked
    <3>7. bill[x].state # 3
      BY <1>b, <2>2 DEF IssuedIsHeld
    <3>8. IssuedIsHeld'
      BY <1>3, <1>b, <3>2, <3>4, <3>7 DEF IssuedIsHeld, Accepting
    <3> QED
      BY <3>5, <3>6, <3>8
  <2> QED
    BY <2>1, <2>2
<1> QED
  BY <1>1, <1>2, <1>3 DEF JustifiedChain

------------------------------------------------------------------------------
(* Control.                                                                *)

(* The worker moves to pc with result r, and keeps the rest.               *)
Moved(w, pc, r) ==
  \E s \in WorkerState :
    /\ worker' = [worker EXCEPT ![w] = s]
    /\ s.pc = pc
    /\ s.msg = worker[w].msg
    /\ s.invoice = worker[w].invoice
    /\ s.outcome = worker[w].outcome
    /\ s.result = r

(* A jump keeps the result.                                                *)
LEMMA GotoMoves ==
  ASSUME StreamTypeOK, NEW w \in Worker, NEW pc \in PC, Goto(w, pc)
  PROVE  Moved(w, pc, worker[w].result)
<1> DEFINE s == [worker[w] EXCEPT !.pc = pc]
<1>1. worker[w] \in WorkerState
  BY DEF StreamTypeOK
<1>2. /\ s \in WorkerState /\ s.pc = pc /\ s.msg = worker[w].msg /\ s.result = worker[w].result
      /\ s.invoice = worker[w].invoice /\ s.outcome = worker[w].outcome
  BY <1>1 DEF WorkerState
<1>3. worker' = [worker EXCEPT ![w] = s]
  BY DEF Goto
<1> HIDE DEF s
<1> QED
  BY <1>2, <1>3 DEF Moved

(* A failure sets it.                                                      *)
LEMMA FailMoves ==
  ASSUME StreamTypeOK, NEW w \in Worker, NEW pc \in PC, NEW r \in Result, FailWith(w, pc, r)
  PROVE  Moved(w, pc, r)
<1> DEFINE s == [worker[w] EXCEPT !.pc = pc, !.result = r]
<1>1. worker[w] \in WorkerState
  BY DEF StreamTypeOK
<1>2. /\ s \in WorkerState /\ s.pc = pc /\ s.msg = worker[w].msg /\ s.result = r
      /\ s.invoice = worker[w].invoice /\ s.outcome = worker[w].outcome
  BY <1>1 DEF WorkerState
<1>3. worker' = [worker EXCEPT ![w] = s]
  BY Zenon DEF FailWith
<1> HIDE DEF s
<1> QED
  BY <1>2, <1>3 DEF Moved

(* The places where a handler needs neither a verified bill nor an         *)
(* invoice.                                                                *)
FreePC ==
  {"stored", "prepare", "complete", "refuse", "fail", "ack",
   "finStored", "finRecord", "finComplete", "finAck"}

(* A step to such a place teaches nothing, unless it leaves the record of  *)
(* an ambiguous answer.                                                    *)
LEMMA FreeLearns ==
  ASSUME NEW w \in Worker, Knows(worker[w], submission, held), Lasting, worker[w].pc # "idle",
         NEW pc \in FreePC, NEW r, Moved(w, pc, r),
         r = "ambiguous" => worker[w].result = "ambiguous" /\ worker[w].pc # "record"
  PROVE  Learns(w)
  BY DEF Knows, Lasting, AnswersLast, FreePC, Moved, Learns

(* A worker that forgets everything knows all it needs.                    *)
LEMMA IdleLearns ==
  ASSUME NEW w \in Worker, worker' = [worker EXCEPT ![w] = Idle]
  PROVE  Learns(w)
<1>1. Idle \in WorkerState /\ Idle.pc = "idle" /\ Idle.result = "ok"
  BY DEF Idle, WorkerState, PC, Result
<1>2. Knows(Idle, submission', held')
  BY <1>1 DEF Knows
<1> QED
  BY <1>1, <1>2 DEF Learns

(* HandleMessage returns "ambiguous" only for a recorded answer.           *)
LEMMA ReturnLearns ==
  ASSUME StreamTypeOK, NEW w \in Worker, Knows(worker[w], submission, held), Lasting,
         worker[w].pc \notin {"idle", "record"}, NEW r, Return(w, r),
         r = "ambiguous" => worker[w].result = "ambiguous"
  PROVE  Learns(w) /\ JustifiedReport
<1>1. JustifiedReport
  BY DEF Return, Knows, JustifiedReport
<1>2. CASE r = "technical" /\ worker[w].count >= MaxDeliver
  <2>1. Goto(w, "finStored")
    BY <1>2 DEF Return, Goto
  <2>2. Moved(w, "finStored", worker[w].result)
    BY <2>1, GotoMoves DEF PC
  <2> QED
    BY <1>1, <2>2, FreeLearns DEF FreePC
<1>3. CASE ~(r = "technical" /\ worker[w].count >= MaxDeliver)
  <2>1. worker' = [worker EXCEPT ![w] = Idle]
    BY <1>3 DEF Return
  <2> QED
    BY <1>1, <2>1, IdleLearns
<1> QED
  BY <1>2, <1>3

(* ZATCA holds every invoice that an answer accepts.                       *)
LEMMA AcceptedIsHeld ==
  ASSUME NEW inv \in SignedInvoice, NEW x \in Exchanges(inv),
         SubmitOutcome(inv.kind, x[1]) \in Accepting
  PROVE  x[2] = TRUE
<1>1. inv.kind \in {"standard", "simplified"}
  BY DEF SignedInvoice
<1>2. SubmitOutcome(inv.kind, NoAnswer) \notin Accepting
  <2>1. NoAnswer.http = 0
    BY DEF NoAnswer
  <2>2. SubmitOutcome(inv.kind, NoAnswer) = Technical
    BY <2>1 DEF SubmitOutcome, Is2xx
  <2> QED
    BY <2>2 DEF Technical, Accepting
<1>3. ASSUME NEW a \in RefusingAnswers(inv.kind) PROVE SubmitOutcome(inv.kind, a) \notin Accepting
  <2>1. CASE a = [http |-> 400, body |-> "json", resp |-> ZeroResponse]
    <3>1. SubmitOutcome(inv.kind, a) = RejectionOutcome(inv.kind, a)
      BY <2>1 DEF SubmitOutcome, Is2xx
    <3>2. RejectionOutcome(inv.kind, a) = "rejected"
      BY <2>1 DEF RejectionOutcome, IsInvoiceRejection, AlreadyReported, Conflict, Unauthorized,
                  Forbidden, RequestTimeout, TooManyRequests
    <3> QED
      BY <3>1, <3>2 DEF Accepting
  <2>2. CASE a = [http |-> OK, body |-> "json", resp |-> Body(inv.kind, "OTHER", FALSE)]
    <3>1. SubmitOutcome(inv.kind, a) = ResponseOutcome(inv.kind, Body(inv.kind, "OTHER", FALSE))
      BY <2>2 DEF SubmitOutcome, Is2xx, OK
    <3>2. ProviderStatus(inv.kind, Body(inv.kind, "OTHER", FALSE)) = "OTHER"
      BY <1>1 DEF ProviderStatus, Body, ZeroResponse
    <3>3. ResponseOutcome(inv.kind, Body(inv.kind, "OTHER", FALSE)) = "rejected"
      BY <3>2 DEF ResponseOutcome, SuccessStatus
    <3> QED
      BY <3>1, <3>3 DEF Accepting
  <2> QED
    BY <1>3, <2>1, <2>2 DEF RefusingAnswers
<1>4. CASE inv \in held
  BY <1>2, <1>4 DEF Exchanges
<1>5. CASE inv \notin held
  BY <1>2, <1>3, <1>5 DEF Exchanges
<1> QED
  BY <1>4, <1>5

------------------------------------------------------------------------------
(* One step of a worker.                                                   *)

(* A step that leaves the tables of the chain alone needs no reason.       *)
LEMMA QuietChain == UNCHANGED chainVars => JustifiedChain
  BY DEF chainVars, JustifiedChain

(* Every step of a handler is sound.                                       *)
LEMMA StepIsSound ==
  ASSUME AInv, AnswersLast, NEW w \in Worker, Step(w)
  PROVE  Sound(w)
<1> DEFINE m == worker[w].msg
           old == worker[w]
<1>a. /\ StreamTypeOK /\ ChainTypeOK /\ old \in WorkerState /\ LocalsOK(old)
      /\ Knows(old, submission, held) /\ BillsOK
  BY DEF AInv, IInv, TypeOK, StreamTypeOK
<1>b. old.pc # "idle" => m \in Message /\ m.bill \in Bill /\ Proper(m)
  BY <1>a, EnvelopeParts DEF LocalsOK, Knows
<1>c. ASSUME UNCHANGED held PROVE Lasting /\ held \subseteq held'
  BY <1>c DEF Lasting
<1>d. ASSUME UNCHANGED outsideVars PROVE JustifiedReport /\ Lasting /\ held \subseteq held'
  BY <1>c, <1>d DEF outsideVars, JustifiedReport
<1>e. UNCHANGED claim => ClaimStep
  BY DEF ClaimStep
<1>1. CASE HandleDuplicate(w) \/ HandleConflict(w)
  <2>1. old.pc = "claim" /\ UNCHANGED claim /\ UNCHANGED chainVars /\ UNCHANGED outsideVars
    BY <1>1 DEF HandleDuplicate, HandleConflict, At, ledgerVars
  <2>2. Moved(w, "ack", old.result) \/ Moved(w, "ack", "input")
    BY <1>1, <1>a, GotoMoves, FailMoves DEF HandleDuplicate, HandleConflict, PC, Result
  <2>3. Learns(w)
    BY <1>a, <1>d, <2>1, <2>2, FreeLearns DEF FreePC
  <2> QED
    BY <1>d, <1>e, <2>1, <2>3, QuietChain DEF Sound
<1>2. CASE HandleInFlight(w)
  <2>1. /\ old.pc = "claim" /\ UNCHANGED claim /\ UNCHANGED chainVars /\ UNCHANGED held
        /\ Return(w, "inflight")
    BY <1>2 DEF HandleInFlight, At, ledgerVars
  <2>2. Learns(w) /\ JustifiedReport
    BY <1>a, <1>c, <2>1, ReturnLearns
  <2> QED
    BY <1>c, <1>e, <2>1, <2>2, QuietChain DEF Sound
<1>3. CASE HandleProcess(w)
  <2>1. /\ old.pc = "claim" /\ Claim(m) /\ UNCHANGED chainVars /\ UNCHANGED outsideVars
        /\ Goto(w, "stored")
    BY <1>3 DEF HandleProcess, At
  <2>2. Moved(w, "stored", old.result)
    BY <1>a, <2>1, GotoMoves DEF PC
  <2>3. Learns(w)
    BY <1>a, <1>d, <2>1, <2>2, FreeLearns DEF FreePC
  <2>4. ClaimStep
    BY <1>b, <2>1 DEF ClaimStep
  <2> QED
    BY <1>d, <2>1, <2>3, <2>4, QuietChain DEF Sound
<1>4. CASE ClaimError(w)
  <2>1. /\ old.pc = "claim" /\ (UNCHANGED claim \/ Claim(m)) /\ UNCHANGED chainVars
        /\ UNCHANGED held /\ Return(w, "technical")
    BY <1>4 DEF ClaimError, At
  <2>2. Learns(w) /\ JustifiedReport
    BY <1>a, <1>c, <2>1, ReturnLearns
  <2>3. ClaimStep
    BY <1>b, <2>1 DEF ClaimStep
  <2> QED
    BY <1>c, <2>1, <2>2, <2>3, QuietChain DEF Sound
<1>5. CASE LookupStored(w)
  <2>1. old.pc = "stored" /\ UNCHANGED claim /\ UNCHANGED chainVars /\ UNCHANGED outsideVars
    BY <1>5 DEF LookupStored, At, ledgerVars
  <2>2. Learns(w)
    <3>1. CASE Goto(w, "prepare") \/ Goto(w, "complete") \/ FailWith(w, "fail", "technical")
      <4>1. \/ Moved(w, "prepare", old.result) \/ Moved(w, "complete", old.result)
            \/ Moved(w, "fail", "technical")
        BY <3>1, <1>a, GotoMoves, FailMoves DEF PC, Result
      <4> QED
        BY <4>1, <1>a, <1>d, <2>1, FreeLearns DEF FreePC
    <3>2. CASE /\ submission[m.bill].invoice # None
               /\ CheckStored(submission[m.bill].invoice, m)
               /\ worker' = [worker EXCEPT ![w].pc = "submit", ![w].invoice = submission[m.bill].invoice]
      <4> DEFINE inv == submission[m.bill].invoice
                 s == [old EXCEPT !.pc = "submit", !.invoice = inv]
      <4>1. inv \in SignedInvoice
        BY <3>2, <1>a, <1>b, <2>1 DEF ChainTypeOK, SubmissionRow
      <4>2. /\ s \in WorkerState /\ s.pc = "submit" /\ s.msg = m /\ s.invoice = inv
            /\ s.result = old.result
        BY <4>1, <1>a DEF WorkerState, PC
      <4>3. worker' = [worker EXCEPT ![w] = s]
        BY <3>2, Zenon
      <4>4. Lasting
        BY <1>d, <2>1
      <4> HIDE DEF s
      <4>5. Knows(s, submission', held')
        BY <1>a, <1>b, <2>1, <3>2, <4>2, <4>4 DEF Knows, Lasting, AnswersLast
      <4> QED
        BY <4>2, <4>3, <4>5 DEF Learns
    <3> QED
      BY <1>5, <3>1, <3>2 DEF LookupStored
  <2> QED
    BY <1>d, <1>e, <2>1, <2>2, QuietChain DEF Sound
<1>6. CASE Prepare(w)
  <2>1. old.pc = "prepare" /\ UNCHANGED claim /\ UNCHANGED chainVars /\ UNCHANGED outsideVars
    BY <1>6 DEF Prepare, At, ledgerVars
  <2>2. Learns(w)
    <3>1. CASE VerifyBill(m) /\ Goto(w, "book")
      <4>1. Moved(w, "book", old.result) /\ Verified(m) /\ Lasting
        BY <3>1, <1>a, <1>b, <1>d, <2>1, GotoMoves DEF PC, VerifyBill, Verified, BillsOK
      <4> QED
        BY <4>1, <1>a, <1>b, <2>1 DEF Moved, Learns, Knows, Lasting, AnswersLast
    <3>2. CASE FailWith(w, "refuse", "input") \/ FailWith(w, "fail", "technical")
      <4>1. Moved(w, "refuse", "input") \/ Moved(w, "fail", "technical")
        BY <3>2, <1>a, FailMoves DEF PC, Result
      <4> QED
        BY <4>1, <1>a, <1>d, <2>1, FreeLearns DEF FreePC
    <3> QED
      BY <1>6, <3>1, <3>2 DEF Prepare
  <2> QED
    BY <1>d, <1>e, <2>1, <2>2, QuietChain DEF Sound
<1>7. CASE BookNumber(w)
  <2>1. /\ old.pc = "book" /\ UNCHANGED claim /\ UNCHANGED <<submission, bill>>
        /\ UNCHANGED outsideVars
    BY <1>7 DEF BookNumber, At, Book
  <2> DEFINE s == [old EXCEPT !.pc = "build", !.booking = BookingOf(m)]
  <2>2. BookingOf(m) \in Booking
    BY <1>a, <1>b, <2>1, BookingType
  <2>3. s \in WorkerState /\ s.pc = "build" /\ s.msg = m /\ s.result = old.result
    BY <2>2, <1>a DEF WorkerState, PC
  <2>4. worker' = [worker EXCEPT ![w] = s]
    BY <1>7, Zenon DEF BookNumber
  <2>5. Lasting
    BY <1>d, <2>1
  <2> HIDE DEF s
  <2>6. Knows(s, submission', held')
    BY <1>a, <1>b, <2>1, <2>3, <2>5 DEF Knows, Lasting, AnswersLast
  <2>7. Learns(w)
    BY <2>3, <2>4, <2>6 DEF Learns
  <2> QED
    BY <1>d, <1>e, <2>1, <2>7 DEF Sound, JustifiedChain
<1>8. CASE BookFails(w)
  <2>1. old.pc = "book" /\ UNCHANGED claim /\ UNCHANGED outsideVars
    BY <1>8 DEF BookFails, At
  <2>2. UNCHANGED <<submission, bill>>
    BY <1>8 DEF BookFails, Book, chainVars
  <2>3. Moved(w, "refuse", "input") \/ Moved(w, "fail", "technical") \/ Moved(w, "fail", "inflight")
    BY <1>8, <1>a, FailMoves DEF BookFails, PC, Result
  <2>4. Learns(w)
    BY <1>a, <1>d, <2>1, <2>3, FreeLearns DEF FreePC
  <2> QED
    BY <1>d, <1>e, <2>1, <2>2, <2>4 DEF Sound, JustifiedChain
<1>9. CASE Build(w)
  <2>1. old.pc = "build" /\ UNCHANGED claim /\ UNCHANGED chainVars /\ UNCHANGED outsideVars
    BY <1>9 DEF Build, At, ledgerVars
  <2>2. Learns(w)
    <3> DEFINE inv == BuiltInvoice(m, old.booking)
               s == [old EXCEPT !.pc = "commit", !.invoice = inv]
    <3>1. CASE /\ CheckBuilt(inv, m, old.booking)
               /\ worker' = [worker EXCEPT ![w].pc = "commit", ![w].invoice = inv]
      <4>1. inv \in SignedInvoice
        BY <1>a, <1>b, <2>1, BuiltType DEF LocalsOK
      <4>2. CheckStored(inv, m)
        BY <3>1 DEF CheckBuilt, CheckStored
      <4> HIDE DEF inv
      <4>3. /\ s \in WorkerState /\ s.pc = "commit" /\ s.msg = m /\ s.invoice = inv
            /\ s.result = old.result
        BY <4>1, <1>a DEF WorkerState, PC
      <4>4. worker' = [worker EXCEPT ![w] = s]
        BY <3>1, Zenon
      <4>5. Lasting
        BY <1>d, <2>1
      <4> HIDE DEF s
      <4>6. Knows(s, submission', held')
        BY <1>a, <1>b, <2>1, <4>2, <4>3, <4>5 DEF Knows, Lasting, AnswersLast
      <4> QED
        BY <4>3, <4>4, <4>6 DEF Learns
    <3>2. CASE Goto(w, "unbook")
      <4>1. Moved(w, "unbook", old.result) /\ Lasting
        BY <3>2, <1>a, <1>d, <2>1, GotoMoves DEF PC
      <4> QED
        BY <4>1, <1>a, <1>b, <2>1 DEF Moved, Learns, Knows, Lasting, AnswersLast
    <3> QED
      BY <1>9, <3>1, <3>2 DEF Build
  <2> QED
    BY <1>d, <1>e, <2>1, <2>2, QuietChain DEF Sound
<1>10. CASE CommitInvoice(w) \/ CommitFails(w)
  <2>1. /\ old.pc = "commit" /\ UNCHANGED claim /\ UNCHANGED outsideVars
        /\ Goto(w, "submit") \/ Goto(w, "unbook")
        /\ UNCHANGED chainVars \/ Commit(old.booking, old.invoice)
    BY <1>10 DEF CommitInvoice, CommitFails, At
  <2>2. /\ old.booking \in Booking /\ old.invoice \in SignedInvoice
        /\ Verified(m) /\ CheckStored(old.invoice, m)
    BY <1>a, <2>1 DEF LocalsOK, Knows
  <2>3. JustifiedChain
    BY <1>b, <2>1, <2>2, QuietChain DEF JustifiedChain
  <2>4. (Moved(w, "submit", old.result) \/ Moved(w, "unbook", old.result)) /\ Lasting
    BY <1>a, <1>d, <2>1, GotoMoves DEF PC
  <2>5. Learns(w)
    BY <1>a, <1>b, <2>1, <2>2, <2>4 DEF Moved, Learns, Knows, Lasting, AnswersLast
  <2> QED
    BY <1>d, <1>e, <2>1, <2>3, <2>5 DEF Sound
<1>11. CASE Unbook(w)
  <2>1. old.pc = "unbook" /\ UNCHANGED claim /\ UNCHANGED outsideVars /\ UNCHANGED <<submission, bill>>
    BY <1>11 DEF Unbook, At, ReleaseBooking, chainVars
  <2>2. Moved(w, "fail", "technical")
    BY <1>11, <1>a, FailMoves DEF Unbook, PC, Result
  <2>3. Learns(w)
    BY <1>a, <1>d, <2>1, <2>2, FreeLearns DEF FreePC
  <2> QED
    BY <1>d, <1>e, <2>1, <2>3 DEF Sound, JustifiedChain
<1>12. CASE Submit(w)
  <2> DEFINE inv == old.invoice
  <2>1. old.pc = "submit" /\ UNCHANGED claim /\ UNCHANGED chainVars /\ UNCHANGED reported
    BY <1>12 DEF Submit, At, ledgerVars
  <2>2. inv \in SignedInvoice /\ CheckStored(inv, m)
    BY <1>a, <2>1 DEF LocalsOK, Knows
  <2>3. PICK x \in Exchanges(inv) :
          /\ held' = IF x[2] THEN held \cup {inv} ELSE held
          /\ IF SubmitOutcome(inv.kind, x[1]) = Technical
               THEN FailWith(w, "fail", "technical")
               ELSE worker' = [worker EXCEPT ![w].pc = "record",
                                             ![w].outcome = SubmitOutcome(inv.kind, x[1]),
                                             ![w].result = OutcomeResult(SubmitOutcome(inv.kind, x[1]))]
    BY <1>12, Zenon DEF Submit
  <2>4. held \subseteq held' /\ Lasting
    BY <2>3 DEF Lasting
  <2>5. JustifiedReport
    BY <2>1 DEF JustifiedReport
  <2>6. Learns(w)
    <3>1. CASE FailWith(w, "fail", "technical")
      <4>1. Moved(w, "fail", "technical")
        BY <3>1, <1>a, FailMoves DEF PC, Result
      <4> QED
        BY <4>1, <1>a, <2>1, <2>4, FreeLearns DEF FreePC
    <3>2. CASE SubmitOutcome(inv.kind, x[1]) # Technical
      <4> DEFINE o == SubmitOutcome(inv.kind, x[1])
                 s == [old EXCEPT !.pc = "record", !.outcome = o, !.result = OutcomeResult(o)]
      <4>1. o \in Outcome
        BY <3>2, OutcomeTypes
      <4>2. worker' = [worker EXCEPT ![w] = s]
        BY <2>3, <3>2, Zenon
      <4>3. OutcomeResult(o) \in Result
        BY DEF OutcomeResult, Result
      <4>4. o \in Accepting => inv \in held'
        BY <2>2, <2>3, AcceptedIsHeld
      <4> HIDE DEF o
      <4>5. s \in WorkerState /\ s.pc = "record" /\ s.msg = m /\ s.invoice = inv /\ s.outcome = o
        BY <4>1, <4>3, <1>a DEF WorkerState, PC
      <4> HIDE DEF s
      <4>6. Knows(s, submission', held')
        BY <1>b, <2>1, <2>2, <4>4, <4>5 DEF Knows
      <4> QED
        BY <4>2, <4>5, <4>6 DEF Learns
    <3> QED
      BY <2>3, <3>1, <3>2
  <2> QED
    BY <1>e, <2>1, <2>4, <2>5, <2>6, QuietChain DEF Sound
<1>13. CASE SubmitFails(w)
  <2>1. old.pc = "submit" /\ UNCHANGED claim /\ UNCHANGED chainVars /\ UNCHANGED outsideVars
    BY <1>13 DEF SubmitFails, At, ledgerVars
  <2>2. Moved(w, "fail", "technical")
    BY <1>13, <1>a, FailMoves DEF SubmitFails, PC, Result
  <2>3. Learns(w)
    BY <1>a, <1>d, <2>1, <2>2, FreeLearns DEF FreePC
  <2> QED
    BY <1>d, <1>e, <2>1, <2>3, QuietChain DEF Sound
<1>14. CASE RecordAnswer(w) \/ RecordFails(w)
  <2> DEFINE inv == old.invoice
  <2>1. old.pc = "record" /\ UNCHANGED claim /\ UNCHANGED outsideVars
    BY <1>14 DEF RecordAnswer, RecordFails, At
  <2>2. /\ inv \in SignedInvoice /\ inv.bill \in Bill /\ inv.bill = m.bill
        /\ old.outcome \in Outcome /\ submission[inv.bill].invoice = inv
        /\ old.outcome \in Accepting => inv \in held
    BY <1>a, <2>1 DEF LocalsOK, Knows, CheckStored, SignedInvoice, AInv, IInv, SendsStored
  <2>3. UNCHANGED chainVars \/ Record(inv.bill, old.outcome, "provider")
    BY <1>14 DEF RecordAnswer, RecordFails
  <2>4. JustifiedChain
    BY <2>2, <2>3, QuietChain DEF JustifiedChain, Evidence
  <2>5. Learns(w)
    <3>1. CASE FailWith(w, "fail", "technical")
      <4>1. Moved(w, "fail", "technical")
        BY <3>1, <1>a, FailMoves DEF PC, Result
      <4> QED
        BY <4>1, <1>a, <1>d, <2>1, FreeLearns DEF FreePC
    <3>2. CASE Goto(w, "complete") /\ Record(inv.bill, old.outcome, "provider")
      <4>1. submission'[m.bill].outcome # "pending"
        <5>1. "provider" \in Evidence
          BY DEF Evidence
        <5>2. \/ submission[m.bill].outcome # "pending" /\ submission' = submission
              \/ submission'[m.bill].outcome = old.outcome
          BY <1>a, <2>2, <3>2, <5>1, RecordEffect
        <5> QED
          BY <2>2, <5>2 DEF Outcome
      <4>2. Moved(w, "complete", old.result)
        BY <3>2, <1>a, GotoMoves DEF PC
      <4> QED
        BY <4>1, <4>2, <1>b, <2>1 DEF Moved, Learns, Knows
    <3> QED
      BY <1>14, <3>1, <3>2 DEF RecordAnswer, RecordFails
  <2> QED
    BY <1>d, <1>e, <2>1, <2>4, <2>5 DEF Sound
<1>15. CASE Finish(w) \/ FinishFails(w)
  <2>1. /\ old.pc = "complete" /\ (UNCHANGED claim \/ CompleteClaim(m))
        /\ UNCHANGED chainVars /\ UNCHANGED outsideVars
    BY <1>15 DEF Finish, FinishFails, At
  <2>2. Moved(w, "ack", old.result) \/ Moved(w, "fail", "technical")
    BY <1>15, <1>a, GotoMoves, FailMoves DEF Finish, FinishFails, PC, Result
  <2>3. Learns(w)
    BY <1>a, <1>d, <2>1, <2>2, FreeLearns DEF FreePC
  <2>4. ClaimStep
    BY <1>b, <2>1 DEF ClaimStep
  <2> QED
    BY <1>d, <2>1, <2>3, <2>4, QuietChain DEF Sound
<1>16. CASE Refuse(w)
  <2>1. /\ old.pc = "refuse" /\ (UNCHANGED claim \/ CompleteClaim(m))
        /\ UNCHANGED chainVars /\ UNCHANGED held
    BY <1>16 DEF Refuse, At
  <2>2. Learns(w) /\ JustifiedReport
    <3>1. CASE Goto(w, "ack") /\ UNCHANGED reported
      <4>1. Moved(w, "ack", old.result)
        BY <3>1, <1>a, GotoMoves DEF PC
      <4> QED
        BY <3>1, <4>1, <1>a, <1>c, <2>1, FreeLearns DEF FreePC, JustifiedReport
    <3>2. CASE Return(w, old.result)
      BY <3>2, <1>a, <1>c, <2>1, ReturnLearns
    <3> QED
      BY <1>16, <3>1, <3>2 DEF Refuse
  <2>3. ClaimStep
    BY <1>b, <2>1 DEF ClaimStep
  <2> QED
    BY <1>c, <2>1, <2>2, <2>3, QuietChain DEF Sound
<1>17. CASE Fail(w)
  <2>1. /\ old.pc = "fail" /\ (UNCHANGED claim \/ ReleaseClaim(m))
        /\ UNCHANGED chainVars /\ UNCHANGED held
        /\ Return(w, "inflight") \/ Return(w, old.result)
    BY <1>17 DEF Fail, At
  <2>2. Learns(w) /\ JustifiedReport
    BY <1>a, <1>c, <2>1, ReturnLearns
  <2>3. ClaimStep
    BY <1>b, <2>1 DEF ClaimStep
  <2> QED
    BY <1>c, <2>1, <2>2, <2>3, QuietChain DEF Sound
<1>18. CASE Ack(w)
  <2>1. /\ old.pc = "ack" /\ UNCHANGED claim /\ UNCHANGED chainVars /\ UNCHANGED held
        /\ Return(w, "technical") \/ Return(w, old.result)
    BY <1>18 DEF Ack, At, ledgerVars
  <2>2. Learns(w) /\ JustifiedReport
    BY <1>a, <1>c, <2>1, ReturnLearns
  <2> QED
    BY <1>c, <1>e, <2>1, <2>2, QuietChain DEF Sound
<1>19. CASE FinalizeStored(w) \/ FinalizeRecord(w) \/ FinalizeComplete(w) \/ FinalizeAck(w)
  <2>1. /\ old.pc \in {"finStored", "finRecord", "finComplete", "finAck"}
        /\ UNCHANGED held /\ UNCHANGED reported
    BY <1>19 DEF FinalizeStored, FinalizeRecord, FinalizeComplete, FinalizeAck, At
  <2>2. UNCHANGED claim \/ CompleteClaim(m)
    BY <1>19 DEF FinalizeStored, FinalizeRecord, FinalizeComplete, FinalizeAck, ledgerVars
  <2>3. UNCHANGED chainVars \/ Record(m.bill, "terminal_failure", "local")
    BY <1>19 DEF FinalizeStored, FinalizeRecord, FinalizeComplete, FinalizeAck, ledgerVars
  <2>4. \/ worker' = [worker EXCEPT ![w] = Idle]
        \/ Goto(w, "finRecord") \/ Goto(w, "finComplete") \/ Goto(w, "finAck")
    BY <1>19 DEF FinalizeStored, FinalizeRecord, FinalizeComplete, FinalizeAck, Abandon
  <2>5. Learns(w)
    <3>1. CASE worker' = [worker EXCEPT ![w] = Idle]
      BY <3>1, IdleLearns
    <3>2. CASE Goto(w, "finRecord") \/ Goto(w, "finComplete") \/ Goto(w, "finAck")
      <4>1. \/ Moved(w, "finRecord", old.result) \/ Moved(w, "finComplete", old.result)
            \/ Moved(w, "finAck", old.result)
        BY <3>2, <1>a, GotoMoves DEF PC
      <4> QED
        BY <4>1, <1>a, <1>c, <2>1, FreeLearns DEF FreePC
    <3> QED
      BY <2>4, <3>1, <3>2
  <2>6. JustifiedChain
    BY <1>b, <2>1, <2>3, QuietChain DEF JustifiedChain, Outcome, Evidence, Accepting
  <2>7. JustifiedReport /\ ClaimStep
    BY <1>b, <2>1, <2>2 DEF JustifiedReport, ClaimStep
  <2> QED
    BY <1>c, <2>1, <2>5, <2>6, <2>7 DEF Sound
<1> QED
  BY <1>1, <1>2, <1>3, <1>4, <1>5, <1>6, <1>7, <1>8, <1>9, <1>10, <1>11, <1>12, <1>13, <1>14,
     <1>15, <1>16, <1>17, <1>18, <1>19, Zenon DEF Step

------------------------------------------------------------------------------
(* The inductive invariant.                                                *)

(* It holds before the first delivery.                                     *)
LEMMA AInvInit == Init => AInv
<1> SUFFICES ASSUME Init PROVE AInv
  OBVIOUS
<1>1. IInv
  BY IInvInit
<1>2. /\ claim = [r \in Request |-> NoClaim]
      /\ submission = [b \in Bill |-> NoSubmission]
      /\ bill = [b \in Bill |->
                  [branch |-> BillBranch[b], uuid |-> BillUUID[b], hash |-> None,
                   state |-> IF b \in Reportable THEN 1 ELSE 0]]
      /\ worker = [w \in Worker |-> Idle]
      /\ reported = {}
  BY DEF Init, StreamInit, ClaimInit, ChainInit
<1>3. Idle.pc = "idle" /\ Idle.result = "ok"
  BY DEF Idle
<1>4. \A w \in Worker : Knows(worker[w], submission, held)
  BY <1>2, <1>3 DEF Knows
<1>5. BillsOK /\ \A b \in Bill : bill[b].state # 3
  <2> SUFFICES ASSUME NEW b \in Bill
               PROVE  /\ bill[b].branch = BillBranch[b] /\ bill[b].uuid = BillUUID[b]
                      /\ bill[b].state = IF b \in Reportable THEN 1 ELSE 0
    BY DEF BillsOK
  <2>1. bill[b] = [branch |-> BillBranch[b], uuid |-> BillUUID[b], hash |-> None,
                   state |-> IF b \in Reportable THEN 1 ELSE 0]
    BY <1>2
  <2> QED
    BY <2>1
<1>6. \A b \in Bill : submission[b].invoice = None /\ submission[b].outcome = "pending"
  BY <1>2 DEF NoSubmission
<1>7. IssuedAsAsked /\ IssuedIsHeld /\ ReportedIsRecorded
  BY <1>2, <1>5, <1>6 DEF IssuedAsAsked, IssuedIsHeld, ReportedIsRecorded
<1>8. CompletedHasNoLease
  BY <1>2 DEF CompletedHasNoLease, NoClaim
<1> QED
  BY <1>1, <1>4, <1>5, <1>7, <1>8 DEF AInv

(* A sound step of one worker, or of none, keeps the invariant.            *)
LEMMA SoundStepKeeps ==
  ASSUME AInv, IInv', Lasting, JustifiedChain, JustifiedReport, ClaimStep,
         UNCHANGED worker \/ \E w \in Worker : Learns(w)
  PROVE  AInv' /\ CompletedStays
<1>1. CompletedStays /\ CompletedHasNoLease'
  BY ClaimStepFinal DEF AInv, IInv, TypeOK, StreamTypeOK
<1>2. BillsOK' /\ IssuedAsAsked' /\ IssuedIsHeld'
  BY JustifiedKeeps DEF Lasting
<1>3. ReportedIsRecorded'
  <2>1. reported' \subseteq Bill
    BY DEF IInv, TypeOK, StreamTypeOK
  <2> QED
    BY <2>1 DEF AInv, JustifiedReport, ReportedIsRecorded, Lasting, AnswersLast
<1>4. \A v \in Worker : Knows(worker[v], submission', held')
  BY DEF AInv, Knows, Lasting, AnswersLast
<1>5. \A v \in Worker : Knows(worker'[v], submission', held')
  <2>1. CASE UNCHANGED worker
    BY <1>4, <2>1
  <2>2. ASSUME NEW w \in Worker, Learns(w)
        PROVE  \A v \in Worker : Knows(worker'[v], submission', held')
    <3>1. PICK s \in WorkerState :
            worker' = [worker EXCEPT ![w] = s] /\ Knows(s, submission', held')
      BY <2>2 DEF Learns
    <3>2. \A v \in Worker : worker'[v] = IF v = w THEN s ELSE worker[v]
      BY <3>1 DEF AInv, IInv, TypeOK, StreamTypeOK
    <3> QED
      BY <1>4, <3>1, <3>2
  <2> QED
    BY <2>1, <2>2
<1> QED
  BY <1>1, <1>2, <1>3, <1>5 DEF AInv

(* Every step of the protocol keeps it, and keeps the completed claims.    *)
LEMMA AInvStep == AInv /\ [Next]_allVars => AInv' /\ CompletedStays
<1> SUFFICES ASSUME AInv, [Next]_allVars PROVE AInv' /\ CompletedStays
  OBVIOUS
<1>a. IInv' /\ AnswersLast
  <2>1. IInv' /\ ChainStep
    BY IInvStep DEF AInv
  <2>2. Stands
    BY <2>1, AnswersStep DEF AInv, IInv, TypeOK, StreamTypeOK
  <2> QED
    BY <2>1, <2>2 DEF Stands, AnswersLast
<1>b. ASSUME UNCHANGED <<held, reported>> PROVE Lasting /\ JustifiedReport
  BY <1>a, <1>b DEF Lasting, JustifiedReport
<1>c. ASSUME UNCHANGED claim, UNCHANGED chainVars, UNCHANGED <<held, reported>>,
             UNCHANGED worker \/ \E w \in Worker : Learns(w)
      PROVE  AInv' /\ CompletedStays
  BY <1>a, <1>b, <1>c, QuietChain, SoundStepKeeps DEF ClaimStep
<1>1. CASE UNCHANGED allVars
  BY <1>c, <1>1 DEF allVars, vars, ledgerVars, outsideVars
<1>2. ASSUME StreamNext PROVE AInv' /\ CompletedStays
  <2>1. ASSUME NEW w \in Worker, NEW m \in Message, Deliver(w, m) PROVE AInv' /\ CompletedStays
    <3> DEFINE s == [Idle EXCEPT !.pc = "claim", !.msg = m, !.count = stream[m].count + 1]
    <3>1. stream[m].count + 1 \in Nat
      BY DEF AInv, IInv, TypeOK, StreamTypeOK, Delivery
    <3>2. s \in WorkerState /\ s.pc = "claim" /\ s.msg = m /\ s.result = "ok"
      BY <3>1 DEF Idle, WorkerState, PC, Result
    <3>3. worker' = [worker EXCEPT ![w] = s] /\ Proper(m)
      BY <2>1 DEF Deliver, Belongs, Proper
    <3>4. UNCHANGED claim /\ UNCHANGED chainVars /\ UNCHANGED <<held, reported>>
      BY <2>1 DEF Deliver, ledgerVars
    <3> HIDE DEF s
    <3>5. Learns(w)
      BY <3>2, <3>3 DEF Learns, Knows
    <3> QED
      BY <1>c, <3>4, <3>5
  <2>2. ASSUME NEW w \in Worker, NEW m \in Message, TerminateEnvelope(w, m)
        PROVE  AInv' /\ CompletedStays
    <3>1. UNCHANGED claim /\ UNCHANGED chainVars /\ UNCHANGED <<held, reported>> /\ UNCHANGED worker
      BY <2>2 DEF TerminateEnvelope, ledgerVars
    <3> QED
      BY <1>c, <3>1
  <2>3. ASSUME NEW w \in Worker, FetchTimeout(w) PROVE AInv' /\ CompletedStays
    <3>1. UNCHANGED claim /\ UNCHANGED chainVars /\ UNCHANGED <<held, reported>> /\ UNCHANGED worker
      BY <2>3 DEF FetchTimeout, vars, ledgerVars, outsideVars
    <3> QED
      BY <1>c, <3>1
  <2>4. ASSUME NEW w \in Worker, Step(w) PROVE AInv' /\ CompletedStays
    <3>1. Sound(w)
      BY <1>a, <2>4, StepIsSound
    <3> QED
      BY <1>a, <3>1, SoundStepKeeps DEF Sound, Lasting
  <2>5. ASSUME NEW w \in Worker, Crash(w) PROVE AInv' /\ CompletedStays
    <3>1. UNCHANGED claim /\ UNCHANGED chainVars /\ UNCHANGED <<held, reported>>
      BY <2>5 DEF Crash, ledgerVars, outsideVars
    <3>2. Learns(w)
      BY <2>5, IdleLearns DEF Crash
    <3> QED
      BY <1>c, <3>1, <3>2
  <2>6. ASSUME NEW w \in Worker, StopWorker(w) PROVE AInv' /\ CompletedStays
    <3>1. UNCHANGED claim /\ UNCHANGED chainVars /\ UNCHANGED <<held, reported>> /\ UNCHANGED worker
      BY <2>6 DEF StopWorker, ledgerVars
    <3> QED
      BY <1>c, <3>1
  <2>7. ASSUME ClaimLeaseEnds PROVE AInv' /\ CompletedStays
    <3>1. /\ UNCHANGED chainVars /\ UNCHANGED <<held, reported>> /\ UNCHANGED worker
          /\ ClaimStep
      BY <2>7 DEF ClaimLeaseEnds, outsideVars, ClaimStep
    <3> QED
      BY <1>a, <1>b, <3>1, QuietChain, SoundStepKeeps
  <2>8. ASSUME BookingLeaseEnds PROVE AInv' /\ CompletedStays
    <3>1. /\ UNCHANGED claim /\ UNCHANGED <<held, reported>> /\ UNCHANGED worker
          /\ UNCHANGED <<submission, bill>>
      BY <2>8 DEF BookingLeaseEnds, outsideVars, ExpireBooking
    <3> QED
      BY <1>a, <1>b, <3>1, SoundStepKeeps DEF JustifiedChain, ClaimStep
  <2> QED
    BY <1>2, <2>1, <2>2, <2>3, <2>4, <2>5, <2>6, <2>7, <2>8 DEF StreamNext
<1>3. ASSUME NEW o \in Responder, NEW b \in Bill, NEW state \in RecordState,
             NEW form \in HashForms, CheckRequest(o, b, state, form)
      PROVE  AInv' /\ CompletedStays
  <2>1. UNCHANGED claim /\ UNCHANGED chainVars /\ UNCHANGED <<held, reported>> /\ UNCHANGED worker
    BY <1>3 DEF CheckRequest, vars, ledgerVars, outsideVars
  <2> QED
    BY <1>c, <2>1
<1>4. ASSUME NEW o \in Responder, RecordRequestFails(o) PROVE AInv' /\ CompletedStays
  <2>1. UNCHANGED claim /\ UNCHANGED chainVars /\ UNCHANGED <<held, reported>> /\ UNCHANGED worker
    BY <1>4 DEF RecordRequestFails, vars, ledgerVars, outsideVars
  <2> QED
    BY <1>c, <2>1
<1>5. ASSUME NEW o \in Responder, RecordRequest(o) PROVE AInv' /\ CompletedStays
  <2>1. desk[o].bill \in Bill /\ desk[o].state \in RecordState
    BY <1>5 DEF RecordRequest, AInv, IInv, TypeOK
  <2>2. /\ UNCHANGED claim /\ UNCHANGED <<held, reported>> /\ UNCHANGED worker
        /\ Record(desk[o].bill, desk[o].state, "external")
    BY <1>5 DEF RecordRequest, outsideVars
  <2>3. JustifiedChain
    BY <2>1, <2>2 DEF JustifiedChain, RecordState, Outcome, Evidence
  <2> QED
    BY <1>a, <1>b, <2>2, <2>3, SoundStepKeeps DEF ClaimStep
<1> QED
  BY <1>1, <1>2, <1>3, <1>4, <1>5 DEF Next, ReconcileNext

------------------------------------------------------------------------------
(* The theorems.                                                           *)

(* The invariant: what every handler has learned, and what the tables keep *)
(* of it.                                                                  *)
THEOREM AnswersInvariance == Spec => []AInv
<1>1. Init => AInv
  BY AInvInit
<1>2. AInv /\ [Next]_allVars => AInv'
  BY AInvStep
<1> QED
  BY <1>1, <1>2, PTL DEF Spec

(* A bill is marked issued only with a recorded acceptance, and ZATCA      *)
(* holds every invoice that is recorded as accepted on its word, with any  *)
(* number of workers that repeat, lose and overtake each other's answers.  *)
THEOREM AcceptedIsHeldByZATCA == Spec => []IssuedIsHeld
<1>1. AInv => IssuedIsHeld
  BY DEF AInv
<1> QED
  BY <1>1, AnswersInvariance, PTL

(* The operator is asked to reconcile only invoices whose answer is        *)
(* recorded, whatever fails after the submission.                          *)
THEOREM AlertsFollowRecords == Spec => []ReportedIsRecorded
<1>1. AInv => ReportedIsRecorded
  BY DEF AInv
<1> QED
  BY <1>1, AnswersInvariance, PTL

(* Every invoice was asked for by a valid envelope of its own branch, for  *)
(* a reportable bill of the branch, under the UUID of the envelope.        *)
THEOREM InvoicesAreAskedFor == Spec => []IssuedAsAsked
<1>1. AInv => IssuedAsAsked
  BY DEF AInv
<1> QED
  BY <1>1, AnswersInvariance, PTL

(* A completed request is never claimed, released or completed again.      *)
THEOREM CompletionIsFinal == Spec => CompletedIsFinal
<1>1. AInv /\ [Next]_allVars =>
        [\A r \in Request : claim[r].state = "completed" => claim'[r] = claim[r]]_claim
  BY AInvStep DEF CompletedStays
<1> QED
  BY <1>1, AnswersInvariance, PTL DEF Spec, CompletedIsFinal
==============================================================================
