-------------------------- MODULE SoleWorker_proofs --------------------------
(***************************************************************************)
(* Theorems that need to know something of the deployment or of the        *)
(* backend, stated as hypotheses: that an event belongs to one request,    *)
(* that a branch has one worker (markBranchActive, in one process), that a *)
(* bill is asked for on one branch, or as one invoice, and that ZATCA does *)
(* not answer a repeated invoice with 208.  Each theorem names those that  *)
(* it needs; FinishIsAnswered needs none.                                  *)
(*                                                                         *)
(* Each group has an inductive invariant beside AInv: EInv for what is     *)
(* acknowledged, SInv and RInv for what is sent and refused.  What a       *)
(* finished request has, and whose invoice a delivery decides, follows     *)
(* from AInv, FinishedIsAnswered and StoredIsOwn.                          *)
(***************************************************************************)
EXTENDS Answers_proofs

(* "A request is unique by (pos_id, bill_request_id), and an event by      *)
(* event_id" (sql_claim_store.go).                                         *)
EventNamesRequest ==
  \A m, n \in Message : m.event = n.event => m.request = n.request

(* Two workers never serve one branch.                                     *)
SoleWorker ==
  \A v, w \in Worker : WorkerBranch[v] = WorkerBranch[w] => v = w

(* A bill is asked for on one branch.                                      *)
BillNamesBranch ==
  \A m, n \in Message : Proper(m) /\ Proper(n) /\ m.bill = n.bill => m.branch = n.branch

(* A bill is asked for as one invoice.                                     *)
BillNamesInvoice ==
  \A m, n \in Message :
    Proper(m) /\ Proper(n) /\ m.bill = n.bill => m.uuid = n.uuid /\ m.branch = n.branch

------------------------------------------------------------------------------
(* What is acknowledged.                                                   *)

(* No delivery of m will ever hold a claim again.                          *)
Closed(m) ==
  \/ claim[m.request].state = "completed"
  \/ claim[m.request].state # "absent" /\ claim[m.request].fingerprint # m.fingerprint

(* The row of a request carries an event of this request.                  *)
ClaimOrigin ==
  \A r \in Request :
    claim[r].event # None => \E m \in Message : m.request = r /\ m.event = claim[r].event

EInv ==
  /\ ClaimOrigin
  /\ \A w \in Worker : worker[w].pc \in {"ack", "finAck"} => Closed(worker[w].msg)
  /\ \A m \in Message : stream[m].status = "acked" => Closed(m)

------------------------------------------------------------------------------
(* What is sent and refused.                                               *)

StoredIsOwn ==
  \A b \in Bill : submission[b].invoice # None => submission[b].invoice.bill = b

(* A worker handles messages of its own branch.                            *)
OwnBranch == \A w \in Worker : worker[w].pc # "idle" => worker[w].msg.branch = WorkerBranch[w]

(* A row without an answer that would forbid to send its invoice.          *)
OpenRow(row) ==
  \/ row.outcome = "pending"
  \/ row.evidence = "external"
  \/ row.evidence = "local" /\ ~BillNamesBranch

SInv ==
  /\ StoredIsOwn
  /\ OwnBranch
  /\ \A w \in Worker :
       worker[w].pc \in {"submit", "record"} => OpenRow(submission[worker[w].invoice.bill])

RInv ==
  /\ \A w \in Worker :
       worker[w].pc = "record" /\ worker[w].outcome = "rejected" => worker[w].invoice \notin held
  /\ RejectedIsNotHeld

------------------------------------------------------------------------------
(* What a finished request has.                                            *)

(* The invoice that m asks for is committed.                               *)
Issued(m) ==
  submission[m.bill].invoice # None /\ CheckStored(submission[m.bill].invoice, m)

------------------------------------------------------------------------------
(* What a step does.                                                       *)

(* How the handler of worker w reaches a place.                            *)
Moves(w) ==
  LET s == worker[w]
      t == worker'[w]
      m == worker[w].msg
      row == submission[m.bill]
  IN  /\ t.pc # "claim"
      /\ t.pc # "idle" => s.pc # "idle" /\ t.msg = m
      /\ t.pc = "stored" => Claim(m)
      /\ t.pc = "prepare" => s.pc = "stored" /\ row.invoice = None
      /\ t.pc = "book" => s.pc = "prepare"
      /\ t.pc = "build" => s.pc = "book"
      /\ t.pc = "commit" => s.pc = "build"
      /\ t.pc = "unbook" => s.pc \in {"build", "commit"}
      /\ t.pc = "submit" =>
           \/ s.pc = "stored" /\ Issued(m) /\ row.outcome = "pending" /\ t.invoice = row.invoice
           \/ s.pc = "commit" /\ t.invoice = s.invoice /\ Commit(s.booking, s.invoice)
      /\ t.pc = "record" => Submit(w) /\ t.invoice = s.invoice
      /\ t.pc = "complete" =>
           \/ s.pc = "stored" /\ Issued(m) /\ row.outcome # "pending"
           \/ s.pc = "record" /\ Record(s.invoice.bill, s.outcome, "provider")
      /\ t.pc = "refuse" => s.pc \in {"prepare", "book"}
      /\ t.pc = "ack" =>
           \/ s.pc = "claim" /\ (IsDuplicate(m) \/ IsConflict(m)) /\ UNCHANGED claim
           \/ CompleteSucceeds(m) /\ CompleteClaim(m)
      /\ t.pc = "finComplete" =>
           \/ s.pc = "finStored" /\ (row.invoice = None \/ row.outcome # "pending")
           \/ s.pc = "finRecord" /\ Record(m.bill, "terminal_failure", "local")
      /\ t.pc = "finAck" => CompleteSucceeds(m) /\ CompleteClaim(m)

(* What it does to the claims, to the submissions, to what ZATCA holds and *)
(* to the stream.                                                          *)
ClaimEffect(w) ==
  LET s == worker[w]
  IN  \/ UNCHANGED claim
      \/ s.pc = "claim" /\ Claim(s.msg)
      \/ s.pc = "fail" /\ ReleaseClaim(s.msg)
      \/ s.pc \in {"complete", "refuse", "finComplete"} /\ CompleteClaim(s.msg)

RowEffect(w) ==
  LET s == worker[w]
  IN  \/ UNCHANGED submission
      \/ s.pc = "commit" /\ Commit(s.booking, s.invoice)
      \/ s.pc = "record" /\ Record(s.invoice.bill, s.outcome, "provider")
      \/ s.pc = "finRecord" /\ Record(s.msg.bill, "terminal_failure", "local")

HeldEffect(w) ==
  \/ UNCHANGED held
  \/ worker[w].pc = "submit" /\ held' = held \cup {worker[w].invoice} /\ UNCHANGED submission

AckEffect(w) ==
  \A n \in Message :
    stream'[n].status = "acked" =>
      \/ stream[n].status = "acked"
      \/ worker[w].pc \in {"ack", "finAck"} /\ n = worker[w].msg

Effect(w) ==
  /\ Moves(w) /\ ClaimEffect(w) /\ RowEffect(w) /\ HeldEffect(w) /\ AckEffect(w)
  /\ \A v \in Worker \ {w} : worker'[v] = worker[v]

(* The worker is now at pc, with the message and the invoice it had.       *)
Lands(w, pc) ==
  /\ worker'[w].pc = pc
  /\ worker'[w].msg = worker[w].msg
  /\ worker'[w].invoice = worker[w].invoice

(* A jump or a failure lands where it says.                                *)
LEMMA MovedLands ==
  ASSUME StreamTypeOK, NEW w \in Worker, NEW pc, NEW r, Moved(w, pc, r)
  PROVE  Lands(w, pc)
  BY DEF StreamTypeOK, Moved, Lands

(* HandleMessage returns to the idle worker, or to the finalization.       *)
LEMMA ReturnLands ==
  ASSUME StreamTypeOK, NEW w \in Worker, NEW r, Return(w, r)
  PROVE  worker'[w].pc = "idle" \/ Lands(w, "finStored")
<1>1. CASE r = "technical" /\ worker[w].count >= MaxDeliver
  <2>1. Goto(w, "finStored")
    BY <1>1 DEF Return, Goto
  <2>2. Moved(w, "finStored", worker[w].result)
    BY <2>1, GotoMoves DEF PC
  <2> QED
    BY <2>2, MovedLands
<1>2. CASE ~(r = "technical" /\ worker[w].count >= MaxDeliver)
  <2>1. worker' = [worker EXCEPT ![w] = Idle]
    BY <1>2 DEF Return
  <2> QED
    BY <2>1 DEF StreamTypeOK, Idle
<1> QED
  BY <1>1, <1>2

(* An acknowledgement or a termination settles one message.                *)
LEMMA SettleEffect ==
  ASSUME StreamTypeOK, NEW m \in Message, NEW status \in {"acked", "termed"}, Settle(m, status)
  PROVE  \A n \in Message :
           stream'[n].status = "acked" =>
             stream[n].status = "acked" \/ (status = "acked" /\ n = m)
<1>1. CASE stream' = stream
  BY <1>1
<1>2. CASE stream' = [stream EXCEPT ![m] = [stream[m] EXCEPT !.status = status]]
  <2>1. [stream[m] EXCEPT !.status = status].status = status
    BY DEF StreamTypeOK, Delivery
  <2> QED
    BY <1>2, <2>1 DEF StreamTypeOK
<1> QED
  BY <1>1, <1>2, Zenon DEF Settle

(* What is left alone has no effect.                                       *)
LEMMA QuietEffects ==
  ASSUME NEW w \in Worker
  PROVE  /\ UNCHANGED claim => ClaimEffect(w)
         /\ UNCHANGED chainVars => RowEffect(w)
         /\ UNCHANGED submission => RowEffect(w)
         /\ UNCHANGED held => HeldEffect(w)
         /\ UNCHANGED stream => AckEffect(w)
         /\ UNCHANGED outsideVars => HeldEffect(w) /\ AckEffect(w)
  BY DEF ClaimEffect, RowEffect, HeldEffect, AckEffect, chainVars, outsideVars

(* Every step of a handler has the effects above and no other.             *)
LEMMA StepEffect ==
  ASSUME AInv, AnswersLast, NEW w \in Worker, Step(w)
  PROVE  Effect(w)
<1> DEFINE m == worker[w].msg
           old == worker[w]
           Rest == ClaimEffect(w) /\ RowEffect(w) /\ HeldEffect(w) /\ AckEffect(w)
<1>a. /\ StreamTypeOK /\ ChainTypeOK /\ old \in WorkerState /\ LocalsOK(old)
      /\ Knows(old, submission, held)
  BY DEF AInv, IInv, TypeOK, StreamTypeOK
<1>b. old.pc # "idle" => m \in Message /\ m.bill \in Bill
  BY <1>a, EnvelopeParts DEF LocalsOK
<1>c. \A v \in Worker \ {w} : worker'[v] = worker[v]
  BY <1>a, StepIsSound DEF Sound, Learns, StreamTypeOK
<1>d. ASSUME worker'[w].pc = "idle" \/ Lands(w, "finStored"), old.pc # "idle" PROVE Moves(w)
  BY <1>d DEF Lands, Moves
<1>e. ASSUME Lands(w, "fail"), old.pc # "idle" PROVE Moves(w)
  BY <1>e DEF Lands, Moves
<1> SUFFICES Moves(w) /\ Rest
  BY <1>c DEF Effect
<1> HIDE DEF m, old
<1>1. CASE HandleDuplicate(w) \/ HandleConflict(w)
  <2>1. /\ old.pc = "claim" /\ UNCHANGED claim /\ UNCHANGED chainVars /\ UNCHANGED outsideVars
        /\ IsDuplicate(m) \/ IsConflict(m)
    BY <1>1 DEF HandleDuplicate, HandleConflict, At, ledgerVars, m, old
  <2>2. Lands(w, "ack")
    BY <1>1, <1>a, GotoMoves, FailMoves, MovedLands DEF HandleDuplicate, HandleConflict, PC, Result
  <2>3. Moves(w)
    BY <2>1, <2>2 DEF Lands, Moves, m, old
  <2> QED
    BY <2>1, <2>3, QuietEffects
<1>2. CASE HandleInFlight(w)
  <2>1. /\ old.pc = "claim" /\ UNCHANGED claim /\ UNCHANGED chainVars /\ UNCHANGED held
        /\ UNCHANGED stream /\ Return(w, "inflight")
    BY <1>2 DEF HandleInFlight, At, ledgerVars, old
  <2>2. Moves(w)
    BY <1>a, <1>d, <2>1, ReturnLands
  <2> QED
    BY <2>1, <2>2, QuietEffects
<1>3. CASE HandleProcess(w)
  <2>1. /\ old.pc = "claim" /\ Claim(m) /\ UNCHANGED chainVars /\ UNCHANGED outsideVars
        /\ Goto(w, "stored")
    BY <1>3 DEF HandleProcess, At, m, old
  <2>2. Lands(w, "stored")
    BY <1>a, <2>1, GotoMoves, MovedLands DEF PC
  <2>3. Moves(w) /\ ClaimEffect(w)
    BY <2>1, <2>2 DEF Lands, Moves, ClaimEffect, m, old
  <2> QED
    BY <2>1, <2>3, QuietEffects
<1>4. CASE ClaimError(w)
  <2>1. /\ old.pc = "claim" /\ (UNCHANGED claim \/ Claim(m)) /\ UNCHANGED chainVars
        /\ UNCHANGED held /\ UNCHANGED stream /\ Return(w, "technical")
    BY <1>4 DEF ClaimError, At, m, old
  <2>2. Moves(w)
    BY <1>a, <1>d, <2>1, ReturnLands
  <2>3. ClaimEffect(w)
    BY <2>1 DEF ClaimEffect, m, old
  <2> QED
    BY <2>1, <2>2, <2>3, QuietEffects
<1>5. CASE LookupStored(w)
  <2>1. old.pc = "stored" /\ UNCHANGED claim /\ UNCHANGED chainVars /\ UNCHANGED outsideVars
    BY <1>5 DEF LookupStored, At, ledgerVars, old
  <2>2. Moves(w)
    <3>1. CASE submission[m.bill].invoice = None /\ Goto(w, "prepare")
      <4>1. Lands(w, "prepare")
        BY <3>1, <1>a, GotoMoves, MovedLands DEF PC
      <4> QED
        BY <2>1, <3>1, <4>1 DEF Lands, Moves, m, old
    <3>2. CASE Issued(m) /\ submission[m.bill].outcome # "pending" /\ Goto(w, "complete")
      <4>1. Lands(w, "complete")
        BY <3>2, <1>a, GotoMoves, MovedLands DEF PC
      <4> QED
        BY <2>1, <3>2, <4>1 DEF Lands, Moves, m, old
    <3>3. CASE FailWith(w, "fail", "technical")
      <4>1. Lands(w, "fail")
        BY <3>3, <1>a, FailMoves, MovedLands DEF PC, Result
      <4> QED
        BY <1>e, <2>1, <4>1
    <3>4. CASE /\ Issued(m) /\ submission[m.bill].outcome = "pending"
               /\ worker' = [worker EXCEPT ![w].pc = "submit", ![w].invoice = submission[m.bill].invoice]
      <4> DEFINE s == [old EXCEPT !.pc = "submit", !.invoice = submission[m.bill].invoice]
      <4>1. s.pc = "submit" /\ s.msg = m /\ s.invoice = submission[m.bill].invoice
        BY <1>a DEF WorkerState, m, old
      <4>2. worker' = [worker EXCEPT ![w] = s]
        BY <3>4, Zenon DEF old
      <4> HIDE DEF s
      <4>3. worker'[w] = s
        BY <1>a, <4>2 DEF StreamTypeOK
      <4> QED
        BY <2>1, <3>4, <4>1, <4>3 DEF Moves, m, old
    <3> QED
      BY <1>5, <3>1, <3>2, <3>3, <3>4 DEF LookupStored, Issued, m
  <2> QED
    BY <2>1, <2>2, QuietEffects
<1>6. CASE Prepare(w)
  <2>1. old.pc = "prepare" /\ UNCHANGED claim /\ UNCHANGED chainVars /\ UNCHANGED outsideVars
    BY <1>6 DEF Prepare, At, ledgerVars, old
  <2>2. Lands(w, "book") \/ Lands(w, "refuse") \/ Lands(w, "fail")
    BY <1>6, <1>a, GotoMoves, FailMoves, MovedLands DEF Prepare, PC, Result
  <2>3. Moves(w)
    BY <2>1, <2>2 DEF Lands, Moves, old
  <2> QED
    BY <2>1, <2>3, QuietEffects
<1>7. CASE BookNumber(w)
  <2>1. /\ old.pc = "book" /\ UNCHANGED claim /\ UNCHANGED submission /\ UNCHANGED outsideVars
    BY <1>7 DEF BookNumber, At, Book, old
  <2> DEFINE s == [old EXCEPT !.pc = "build", !.booking = BookingOf(m)]
  <2>2. s.pc = "build" /\ s.msg = m
    BY <1>a DEF WorkerState, m, old
  <2>3. worker' = [worker EXCEPT ![w] = s]
    BY <1>7, Zenon DEF BookNumber, m, old
  <2> HIDE DEF s
  <2>4. worker'[w] = s
    BY <1>a, <2>3 DEF StreamTypeOK
  <2>5. Moves(w)
    BY <2>1, <2>2, <2>4 DEF Moves, m, old
  <2> QED
    BY <2>1, <2>5, QuietEffects
<1>8. CASE BookFails(w)
  <2>1. old.pc = "book" /\ UNCHANGED claim /\ UNCHANGED outsideVars
    BY <1>8 DEF BookFails, At, old
  <2>2. UNCHANGED submission
    BY <1>8 DEF BookFails, Book, chainVars
  <2>3. Lands(w, "refuse") \/ Lands(w, "fail")
    BY <1>8, <1>a, FailMoves, MovedLands DEF BookFails, PC, Result
  <2>4. Moves(w)
    BY <2>1, <2>3 DEF Lands, Moves, old
  <2> QED
    BY <2>1, <2>2, <2>4, QuietEffects
<1>9. CASE Build(w)
  <2>1. old.pc = "build" /\ UNCHANGED claim /\ UNCHANGED chainVars /\ UNCHANGED outsideVars
    BY <1>9 DEF Build, At, ledgerVars, old
  <2>2. Moves(w)
    <3> DEFINE inv == BuiltInvoice(m, old.booking)
               s == [old EXCEPT !.pc = "commit", !.invoice = inv]
    <3>1. CASE worker' = [worker EXCEPT ![w].pc = "commit", ![w].invoice = inv]
      <4> HIDE DEF inv
      <4>1. s.pc = "commit" /\ s.msg = m
        BY <1>a DEF WorkerState, m, old
      <4>2. worker' = [worker EXCEPT ![w] = s]
        BY <3>1, Zenon DEF old
      <4> HIDE DEF s
      <4>3. worker'[w] = s
        BY <1>a, <4>2 DEF StreamTypeOK
      <4> QED
        BY <2>1, <4>1, <4>3 DEF Moves, m, old
    <3>2. CASE Goto(w, "unbook")
      <4>1. Lands(w, "unbook")
        BY <3>2, <1>a, GotoMoves, MovedLands DEF PC
      <4> QED
        BY <2>1, <4>1 DEF Lands, Moves, old
    <3> QED
      BY <1>9, <3>1, <3>2 DEF Build, m, old
  <2> QED
    BY <2>1, <2>2, QuietEffects
<1>10. CASE CommitInvoice(w) \/ CommitFails(w)
  <2>1. /\ old.pc = "commit" /\ UNCHANGED claim /\ UNCHANGED outsideVars
        /\ UNCHANGED chainVars \/ Commit(old.booking, old.invoice)
        /\ \/ Goto(w, "submit") /\ Commit(old.booking, old.invoice)
           \/ Goto(w, "unbook")
    BY <1>10 DEF CommitInvoice, CommitFails, At, old
  <2>2. \/ Lands(w, "submit") /\ Commit(old.booking, old.invoice)
        \/ Lands(w, "unbook")
    BY <2>1, <1>a, GotoMoves, MovedLands DEF PC
  <2>3. Moves(w)
    BY <2>1, <2>2 DEF Lands, Moves, old
  <2>4. RowEffect(w)
    BY <2>1, QuietEffects DEF RowEffect, old
  <2> QED
    BY <2>1, <2>3, <2>4, QuietEffects
<1>11. CASE Unbook(w)
  <2>1. old.pc = "unbook" /\ UNCHANGED claim /\ UNCHANGED outsideVars /\ UNCHANGED submission
    BY <1>11 DEF Unbook, At, ReleaseBooking, chainVars, old
  <2>2. Lands(w, "fail")
    BY <1>11, <1>a, FailMoves, MovedLands DEF Unbook, PC, Result
  <2> QED
    BY <1>e, <2>1, <2>2, QuietEffects
<1>12. CASE Submit(w)
  <2> DEFINE inv == old.invoice
  <2>1. old.pc = "submit" /\ UNCHANGED claim /\ UNCHANGED chainVars /\ UNCHANGED stream
    BY <1>12 DEF Submit, At, ledgerVars, old
  <2>2. PICK x \in Exchanges(inv) :
          /\ held' = IF x[2] THEN held \cup {inv} ELSE held
          /\ IF SubmitOutcome(inv.kind, x[1]) = Technical
               THEN FailWith(w, "fail", "technical")
               ELSE worker' = [worker EXCEPT ![w].pc = "record",
                                             ![w].outcome = SubmitOutcome(inv.kind, x[1]),
                                             ![w].result = OutcomeResult(SubmitOutcome(inv.kind, x[1]))]
    BY <1>12, Zenon DEF Submit, old
  <2>3. HeldEffect(w)
    BY <2>1, <2>2 DEF HeldEffect, chainVars, old
  <2>4. Moves(w)
    <3>1. CASE FailWith(w, "fail", "technical")
      <4>1. Lands(w, "fail")
        BY <3>1, <1>a, FailMoves, MovedLands DEF PC, Result
      <4> QED
        BY <1>e, <2>1, <4>1
    <3>2. CASE SubmitOutcome(inv.kind, x[1]) # Technical
      <4> DEFINE o == SubmitOutcome(inv.kind, x[1])
                 r == OutcomeResult(o)
                 s == [old EXCEPT !.pc = "record", !.outcome = o, !.result = r]
      <4>1. worker' = [worker EXCEPT ![w] = s]
        BY <2>2, <3>2, Zenon DEF old
      <4> HIDE DEF o, r
      <4>2. s.pc = "record" /\ s.msg = m /\ s.invoice = inv
        BY <1>a DEF WorkerState, m, old
      <4> HIDE DEF s
      <4>3. worker'[w] = s
        BY <1>a, <4>1 DEF StreamTypeOK
      <4> QED
        BY <1>12, <2>1, <4>2, <4>3 DEF Moves, m, old
    <3> QED
      BY <2>2, <3>1, <3>2
  <2> QED
    BY <2>1, <2>3, <2>4, QuietEffects
<1>13. CASE SubmitFails(w)
  <2>1. old.pc = "submit" /\ UNCHANGED claim /\ UNCHANGED chainVars /\ UNCHANGED outsideVars
    BY <1>13 DEF SubmitFails, At, ledgerVars, old
  <2>2. Lands(w, "fail")
    BY <1>13, <1>a, FailMoves, MovedLands DEF SubmitFails, PC, Result
  <2> QED
    BY <1>e, <2>1, <2>2, QuietEffects
<1>14. CASE RecordAnswer(w) \/ RecordFails(w)
  <2>1. /\ old.pc = "record" /\ UNCHANGED claim /\ UNCHANGED outsideVars
        /\ UNCHANGED chainVars \/ Record(old.invoice.bill, old.outcome, "provider")
        /\ \/ Goto(w, "complete") /\ Record(old.invoice.bill, old.outcome, "provider")
           \/ FailWith(w, "fail", "technical")
    BY <1>14 DEF RecordAnswer, RecordFails, At, old
  <2>2. \/ Lands(w, "complete") /\ Record(old.invoice.bill, old.outcome, "provider")
        \/ Lands(w, "fail")
    BY <2>1, <1>a, GotoMoves, FailMoves, MovedLands DEF PC, Result
  <2>3. Moves(w)
    BY <2>1, <2>2 DEF Lands, Moves, old
  <2>4. RowEffect(w)
    BY <2>1, QuietEffects DEF RowEffect, old
  <2> QED
    BY <2>1, <2>3, <2>4, QuietEffects
<1>15. CASE Finish(w) \/ FinishFails(w)
  <2>1. /\ old.pc = "complete" /\ (UNCHANGED claim \/ CompleteClaim(m))
        /\ UNCHANGED chainVars /\ UNCHANGED outsideVars
        /\ \/ Goto(w, "ack") /\ CompleteSucceeds(m) /\ CompleteClaim(m)
           \/ FailWith(w, "fail", "technical")
    BY <1>15 DEF Finish, FinishFails, At, m, old
  <2>2. (Lands(w, "ack") /\ CompleteSucceeds(m) /\ CompleteClaim(m)) \/ Lands(w, "fail")
    BY <2>1, <1>a, GotoMoves, FailMoves, MovedLands DEF PC, Result
  <2>3. Moves(w)
    BY <2>1, <2>2 DEF Lands, Moves, m, old
  <2>4. ClaimEffect(w)
    BY <2>1 DEF ClaimEffect, m, old
  <2> QED
    BY <2>1, <2>3, <2>4, QuietEffects
<1>16. CASE Refuse(w)
  <2>1. /\ old.pc = "refuse" /\ (UNCHANGED claim \/ CompleteClaim(m))
        /\ UNCHANGED chainVars /\ UNCHANGED held /\ UNCHANGED stream
        /\ \/ Goto(w, "ack") /\ CompleteSucceeds(m) /\ CompleteClaim(m)
           \/ Return(w, old.result)
    BY <1>16 DEF Refuse, At, m, old
  <2>2. \/ Lands(w, "ack") /\ CompleteSucceeds(m) /\ CompleteClaim(m)
        \/ worker'[w].pc = "idle"
        \/ Lands(w, "finStored")
    BY <2>1, <1>a, GotoMoves, MovedLands, ReturnLands DEF PC
  <2>3. Moves(w)
    BY <2>1, <2>2 DEF Lands, Moves, m, old
  <2>4. ClaimEffect(w)
    BY <2>1 DEF ClaimEffect, m, old
  <2> QED
    BY <2>1, <2>3, <2>4, QuietEffects
<1>17. CASE Fail(w)
  <2>1. /\ old.pc = "fail" /\ (UNCHANGED claim \/ ReleaseClaim(m))
        /\ UNCHANGED chainVars /\ UNCHANGED held /\ UNCHANGED stream
        /\ Return(w, "inflight") \/ Return(w, old.result)
    BY <1>17 DEF Fail, At, m, old
  <2>2. Moves(w)
    BY <1>a, <1>d, <2>1, ReturnLands
  <2>3. ClaimEffect(w)
    BY <2>1 DEF ClaimEffect, m, old
  <2> QED
    BY <2>1, <2>2, <2>3, QuietEffects
<1>18. CASE Ack(w)
  <2>1. /\ old.pc = "ack" /\ UNCHANGED claim /\ UNCHANGED chainVars /\ UNCHANGED held
        /\ Return(w, "technical") \/ Return(w, old.result)
        /\ Settle(m, "acked") \/ UNCHANGED stream
    BY <1>18 DEF Ack, At, ledgerVars, m, old
  <2>2. Moves(w)
    BY <1>a, <1>d, <2>1, ReturnLands
  <2>3. AckEffect(w)
    <3>1. CASE Settle(m, "acked")
      BY <1>a, <1>b, <2>1, <3>1, SettleEffect DEF AckEffect, m, old
    <3> QED
      BY <2>1, <3>1, QuietEffects
  <2> QED
    BY <2>1, <2>2, <2>3, QuietEffects
<1>19. CASE FinalizeStored(w) \/ FinalizeRecord(w) \/ FinalizeComplete(w) \/ FinalizeAck(w)
  <2>1. old.pc \in {"finStored", "finRecord", "finComplete", "finAck"} /\ UNCHANGED held
    BY <1>19 DEF FinalizeStored, FinalizeRecord, FinalizeComplete, FinalizeAck, At, old
  <2>2. ClaimEffect(w)
    BY <1>19 DEF FinalizeStored, FinalizeRecord, FinalizeComplete, FinalizeAck, At, ledgerVars,
                 ClaimEffect
  <2>3. UNCHANGED chainVars \/ (old.pc = "finRecord" /\ Record(m.bill, "terminal_failure", "local"))
    BY <1>19 DEF FinalizeStored, FinalizeRecord, FinalizeComplete, FinalizeAck, At, ledgerVars,
                 m, old
  <2>4. RowEffect(w)
    BY <2>3, QuietEffects DEF RowEffect, m, old
  <2>5. \/ UNCHANGED stream \/ Settle(m, "termed")
        \/ (old.pc = "finAck" /\ Settle(m, "acked"))
    BY <1>19 DEF FinalizeStored, FinalizeRecord, FinalizeComplete, FinalizeAck, At, Abandon, m, old
  <2>6. AckEffect(w)
    <3>1. CASE UNCHANGED stream
      BY <3>1, QuietEffects
    <3>2. CASE Settle(m, "termed")
      BY <1>a, <1>b, <2>1, <3>2, SettleEffect DEF AckEffect
    <3>3. CASE old.pc = "finAck" /\ Settle(m, "acked")
      BY <1>a, <1>b, <3>3, SettleEffect DEF AckEffect, m, old
    <3> QED
      BY <2>5, <3>1, <3>2, <3>3
  <2>7. \/ worker' = [worker EXCEPT ![w] = Idle]
        \/ Goto(w, "finRecord")
        \/ /\ Goto(w, "finComplete") /\ old.pc = "finStored"
           /\ submission[m.bill].invoice = None \/ submission[m.bill].outcome # "pending"
        \/ /\ Goto(w, "finComplete") /\ old.pc = "finRecord"
           /\ Record(m.bill, "terminal_failure", "local")
        \/ Goto(w, "finAck") /\ CompleteSucceeds(m) /\ CompleteClaim(m)
    BY <1>19 DEF FinalizeStored, FinalizeRecord, FinalizeComplete, FinalizeAck, At, Abandon, m, old
  <2>8. Moves(w)
    <3>1. CASE worker' = [worker EXCEPT ![w] = Idle]
      <4>1. worker'[w].pc = "idle"
        BY <1>a, <3>1 DEF StreamTypeOK, Idle
      <4> QED
        BY <1>d, <2>1, <4>1
    <3>2. ASSUME NEW pc \in {"finRecord", "finComplete", "finAck"}, Goto(w, pc) PROVE Lands(w, pc)
      BY <1>a, <3>2, GotoMoves, MovedLands DEF PC
    <3>3. \/ worker'[w].pc = "idle"
          \/ Lands(w, "finRecord")
          \/ /\ Lands(w, "finComplete") /\ old.pc = "finStored"
             /\ submission[m.bill].invoice = None \/ submission[m.bill].outcome # "pending"
          \/ /\ Lands(w, "finComplete") /\ old.pc = "finRecord"
             /\ Record(m.bill, "terminal_failure", "local")
          \/ Lands(w, "finAck") /\ CompleteSucceeds(m) /\ CompleteClaim(m)
          \/ Moves(w)
      BY <2>7, <3>1, <3>2
    <3> QED
      BY <2>1, <3>3 DEF Lands, Moves, m, old
  <2> QED
    BY <2>1, <2>2, <2>4, <2>6, <2>8, QuietEffects
<1> QED
  BY <1>1, <1>2, <1>3, <1>4, <1>5, <1>6, <1>7, <1>8, <1>9, <1>10, <1>11, <1>12, <1>13, <1>14,
     <1>15, <1>16, <1>17, <1>18, <1>19, Zenon DEF Step

(* A step that no handler takes: a worker begins, forgets or leaves alone, *)
(* a lease ends, or an operator records.                                   *)
OuterStep ==
  /\ \A v \in Worker :
       \/ worker'[v] = worker[v]
       \/ worker'[v].pc = "idle"
       \/ /\ worker'[v].pc = "claim" /\ worker'[v].msg \in Message
          /\ worker'[v].msg.branch = WorkerBranch[v]
  /\ UNCHANGED claim \/ \E r \in Request : ExpireClaim(r)
  /\ \/ UNCHANGED submission
     \/ \E b \in Bill, o \in Outcome : Record(b, o, "external")
  /\ UNCHANGED held
  /\ \A n \in Message : stream'[n].status = "acked" => stream[n].status = "acked"

(* Every step is a step of a handler or an outer step.                     *)
LEMMA StepCases ==
  ASSUME AInv, [Next]_allVars
  PROVE  OuterStep \/ \E w \in Worker : Step(w)
<1>a. StreamTypeOK
  BY DEF AInv, IInv, TypeOK
<1>1. CASE UNCHANGED allVars
  BY <1>1 DEF allVars, vars, ledgerVars, outsideVars, chainVars, OuterStep
<1>2. ASSUME NEW w \in Worker, NEW m \in Message, Deliver(w, m) PROVE OuterStep
  <2> DEFINE s == [Idle EXCEPT !.pc = "claim", !.msg = m, !.count = stream[m].count + 1]
             d == [stream[m] EXCEPT !.count = @ + 1]
  <2>1. s.pc = "claim" /\ s.msg = m /\ d.status = stream[m].status
    BY <1>a DEF Idle, StreamTypeOK, Delivery
  <2>2. /\ worker' = [worker EXCEPT ![w] = s] /\ stream' = [stream EXCEPT ![m] = d]
        /\ m.branch = WorkerBranch[w]
        /\ UNCHANGED claim /\ UNCHANGED chainVars /\ UNCHANGED held
    BY <1>2 DEF Deliver, Belongs, CountDelivery, ledgerVars
  <2> HIDE DEF s, d
  <2>3. /\ \A v \in Worker : worker'[v] = IF v = w THEN s ELSE worker[v]
        /\ \A n \in Message : stream'[n].status = stream[n].status
    BY <1>a, <2>1, <2>2 DEF StreamTypeOK
  <2> QED
    BY <2>1, <2>2, <2>3 DEF OuterStep, chainVars
<1>3. ASSUME NEW w \in Worker, NEW m \in Message, TerminateEnvelope(w, m) PROVE OuterStep
  <2> DEFINE counted == [stream[m] EXCEPT !.count = @ + 1]
             termed == [stream[m] EXCEPT !.count = @ + 1, !.status = "termed"]
  <2>1. termed.status = "termed" /\ counted.status = stream[m].status
    BY <1>a DEF StreamTypeOK, Delivery
  <2>2. /\ stream' = [stream EXCEPT ![m] = counted] \/ stream' = [stream EXCEPT ![m] = termed]
        /\ UNCHANGED worker /\ UNCHANGED claim /\ UNCHANGED chainVars /\ UNCHANGED held
    BY <1>3, Zenon DEF TerminateEnvelope, CountDelivery, ledgerVars
  <2> HIDE DEF counted, termed
  <2>3. \A n \in Message : stream'[n].status \in {"termed", stream[n].status}
    BY <1>a, <2>1, <2>2 DEF StreamTypeOK
  <2> QED
    BY <2>2, <2>3 DEF OuterStep, chainVars
<1>4. ASSUME NEW w \in Worker, FetchTimeout(w) PROVE OuterStep
  BY <1>4 DEF FetchTimeout, vars, ledgerVars, outsideVars, chainVars, OuterStep
<1>5. ASSUME NEW w \in Worker, StopWorker(w) PROVE OuterStep
  <2>1. /\ UNCHANGED worker /\ UNCHANGED claim /\ UNCHANGED chainVars /\ UNCHANGED held
        /\ stream' = [m \in Message |->
                        IF m.subject = WorkerBranch[w] /\ stream[m].status = "stream"
                          THEN [status |-> "stream", count |-> 0]
                          ELSE stream[m]]
    BY <1>5 DEF StopWorker, ledgerVars
  <2>2. \A n \in Message : stream'[n].status = stream[n].status
    BY <2>1
  <2> QED
    BY <2>1, <2>2 DEF OuterStep, chainVars
<1>6. ASSUME NEW w \in Worker, Crash(w) PROVE OuterStep
  <2>1. /\ worker' = [worker EXCEPT ![w] = Idle] /\ Idle.pc = "idle"
        /\ UNCHANGED claim /\ UNCHANGED chainVars /\ UNCHANGED outsideVars
    BY <1>6 DEF Crash, ledgerVars, Idle
  <2>2. \A v \in Worker : worker'[v] = worker[v] \/ worker'[v].pc = "idle"
    BY <1>a, <2>1 DEF StreamTypeOK
  <2> QED
    BY <2>1, <2>2 DEF OuterStep, chainVars, outsideVars
<1>7. ASSUME ClaimLeaseEnds PROVE OuterStep
  BY <1>7 DEF ClaimLeaseEnds, outsideVars, chainVars, OuterStep
<1>8. ASSUME BookingLeaseEnds PROVE OuterStep
  BY <1>8 DEF BookingLeaseEnds, ExpireBooking, outsideVars, OuterStep
<1>9. ASSUME NEW o \in Responder, NEW b \in Bill, NEW state \in RecordState,
             NEW form \in HashForms, CheckRequest(o, b, state, form)
      PROVE  OuterStep
  BY <1>9 DEF CheckRequest, vars, ledgerVars, outsideVars, chainVars, OuterStep
<1>10. ASSUME NEW o \in Responder, RecordRequestFails(o) PROVE OuterStep
  BY <1>10 DEF RecordRequestFails, vars, ledgerVars, outsideVars, chainVars, OuterStep
<1>11. ASSUME NEW o \in Responder, RecordRequest(o) PROVE OuterStep
  <2>1. desk[o].bill \in Bill /\ desk[o].state \in Outcome
    BY <1>11 DEF RecordRequest, AInv, IInv, TypeOK, RecordState, Outcome
  <2> QED
    BY <1>11, <2>1 DEF RecordRequest, outsideVars, OuterStep
<1> QED
  BY <1>1, <1>2, <1>3, <1>4, <1>5, <1>6, <1>7, <1>8, <1>9, <1>10, <1>11
     DEF Next, StreamNext, ReconcileNext

(* With the effects of a step of a handler.                                *)
LEMMA NextEffect ==
  ASSUME AInv, [Next]_allVars
  PROVE  OuterStep \/ \E w \in Worker : Effect(w) /\ ClaimStep
<1>1. AnswersLast
  <2>1. ChainStep
    BY IInvStep DEF AInv
  <2>2. Stands
    BY <2>1, AnswersStep DEF AInv, IInv, TypeOK, StreamTypeOK
  <2> QED
    BY <2>2 DEF Stands, AnswersLast
<1>2. ASSUME NEW w \in Worker, Step(w) PROVE Effect(w) /\ ClaimStep
  BY <1>1, <1>2, StepEffect, StepIsSound DEF Sound
<1> QED
  BY <1>2, StepCases

------------------------------------------------------------------------------
(* An acknowledged message is settled, for any number of workers.          *)

(* A row keeps its fingerprint, and the event that it carries is one of    *)
(* its request.                                                            *)
LEMMA ClaimsKeepOrigin ==
  ASSUME ClaimTypeOK, ClaimOrigin, ClaimStep
  PROVE  /\ ClaimOrigin'
         /\ \A r \in Request : claim[r].state # "absent" =>
              claim'[r].state # "absent" /\ claim'[r].fingerprint = claim[r].fingerprint
<1> DEFINE Same(r) == /\ claim'[r].event = claim[r].event
                      /\ claim'[r].fingerprint = claim[r].fingerprint
                      /\ claim[r].state # "absent" => claim'[r].state # "absent"
<1>a. ASSUME \A r \in Request : Same(r)
      PROVE  /\ ClaimOrigin'
             /\ \A r \in Request : claim[r].state # "absent" =>
                  claim'[r].state # "absent" /\ claim'[r].fingerprint = claim[r].fingerprint
  BY <1>a DEF ClaimOrigin
<1>1. CASE UNCHANGED claim
  BY <1>a, <1>1
<1>2. ASSUME NEW m \in Message, Claim(m)
      PROVE  /\ ClaimOrigin'
             /\ \A r \in Request : claim[r].state # "absent" =>
                  claim'[r].state # "absent" /\ claim'[r].fingerprint = claim[r].fingerprint
  <2>1. m.request \in Request
    BY EnvelopeParts
  <2>2. /\ claim'[m.request].state = "processing" /\ claim'[m.request].event = m.event
        /\ claim'[m.request].fingerprint = m.fingerprint
        /\ \A r \in Request \ {m.request} : claim'[r] = claim[r]
    BY <1>2, <2>1 DEF Claim, ClaimTypeOK
  <2>3. claim[m.request].state = "absent" \/ claim[m.request].fingerprint = m.fingerprint
    BY <1>2 DEF Claim, IsClaimable
  <2> QED
    BY <2>1, <2>2, <2>3 DEF ClaimOrigin
<1>3. ASSUME NEW m \in Message, ReleaseClaim(m) PROVE \A r \in Request : Same(r)
  <2>1. claim' \in {claim, [claim EXCEPT ![m.request] = [claim[m.request] EXCEPT !.lease = "null"]]}
    BY <1>3, Zenon DEF ReleaseClaim
  <2> QED
    BY <2>1, EnvelopeParts DEF ClaimTypeOK, ClaimRow
<1>4. ASSUME NEW m \in Message, CompleteClaim(m) PROVE \A r \in Request : Same(r)
  <2>1. claim' \in {claim, [claim EXCEPT ![m.request] =
                              [claim[m.request] EXCEPT !.state = "completed", !.lease = "null"]]}
    BY <1>4, Zenon DEF CompleteClaim
  <2>2. m.request \in Request /\ claim[m.request] \in ClaimRow
    BY EnvelopeParts DEF ClaimTypeOK
  <2> DEFINE d == [claim[m.request] EXCEPT !.state = "completed", !.lease = "null"]
  <2>3. /\ d.event = claim[m.request].event /\ d.fingerprint = claim[m.request].fingerprint
        /\ d.state = "completed"
    BY <2>2 DEF ClaimRow
  <2> HIDE DEF d
  <2>4. claim' \in {claim, [claim EXCEPT ![m.request] = d]}
    BY <2>1 DEF d
  <2> QED
    BY <2>2, <2>3, <2>4 DEF ClaimTypeOK
<1>5. ASSUME NEW r \in Request, ExpireClaim(r) PROVE \A q \in Request : Same(q)
  <2>1. claim' = [claim EXCEPT ![r] = [claim[r] EXCEPT !.lease = "expired"]]
    BY <1>5, Zenon DEF ExpireClaim
  <2> QED
    BY <2>1 DEF ClaimTypeOK, ClaimRow
<1> HIDE DEF Same
<1> QED
  BY <1>a, <1>1, <1>2, <1>3, <1>4, <1>5 DEF ClaimStep

(* What is closed stays closed.                                            *)
LEMMA ClosedStays ==
  ASSUME ClaimTypeOK, ClaimOrigin, CompletedHasNoLease, ClaimStep, NEW m \in Message, Closed(m)
  PROVE  Closed(m)'
<1>1. m.request \in Request
  BY EnvelopeParts
<1>2. CASE claim[m.request].state = "completed"
  BY <1>1, <1>2, ClaimStepFinal DEF CompletedStays, Closed
<1>3. CASE claim[m.request].state # "absent" /\ claim[m.request].fingerprint # m.fingerprint
  BY <1>1, <1>3, ClaimsKeepOrigin DEF Closed
<1> QED
  BY <1>2, <1>3 DEF Closed

(* A completion that succeeds closes its message.                          *)
LEMMA CompleteCloses ==
  ASSUME ClaimTypeOK, NEW m \in Message, CompleteSucceeds(m), CompleteClaim(m)
  PROVE  Closed(m)'
<1>1. m.request \in Request /\ claim[m.request] \in ClaimRow
  BY EnvelopeParts DEF ClaimTypeOK
<1>2. CASE OwnsClaim(m)
  <2>1. claim' = [claim EXCEPT ![m.request] =
                    [claim[m.request] EXCEPT !.state = "completed", !.lease = "null"]]
    BY <1>2, Zenon DEF CompleteClaim
  <2>2. claim'[m.request].state = "completed"
    BY <1>1, <2>1 DEF ClaimTypeOK, ClaimRow
  <2> QED
    BY <2>2 DEF Closed
<1>3. CASE ~OwnsClaim(m)
  BY <1>3 DEF CompleteClaim, CompleteSucceeds, Closed
<1> QED
  BY <1>2, <1>3

(* A message that is refused as a duplicate or a conflict is closed, when  *)
(* no other request carries its event.                                     *)
LEMMA RefusedIsClosed ==
  ASSUME EventNamesRequest, ClaimOrigin, NEW m \in Message, IsDuplicate(m) \/ IsConflict(m)
  PROVE  Closed(m)
<1>1. ~EventTaken(m)
  <2>1. SUFFICES ASSUME NEW r \in Request \ {m.request}, claim[r].event = m.event PROVE FALSE
    BY DEF EventTaken
  <2>2. m.event # None
    BY EnvelopeParts, NoneAssumption
  <2> QED
    BY <2>1, <2>2 DEF ClaimOrigin, EventNamesRequest
<1> QED
  BY <1>1 DEF IsDuplicate, IsConflict, Closed

(* The invariant holds before the first delivery.                          *)
LEMMA EInvInit == Init => EInv
<1> SUFFICES ASSUME Init PROVE EInv
  OBVIOUS
<1>1. /\ claim = [r \in Request |-> NoClaim]
      /\ worker = [w \in Worker |-> Idle]
      /\ stream = [m \in Message |-> [status |-> "stream", count |-> 0]]
  BY DEF Init, StreamInit, ClaimInit
<1>2. Idle.pc = "idle" /\ NoClaim.event = None
  BY DEF Idle, NoClaim
<1> QED
  BY <1>1, <1>2 DEF EInv, ClaimOrigin

(* Every step keeps it.                                                    *)
LEMMA EInvStep ==
  ASSUME EventNamesRequest, AInv, EInv, [Next]_allVars
  PROVE  EInv'
<1>a. /\ ClaimTypeOK /\ CompletedHasNoLease /\ ClaimOrigin
      /\ \A w \in Worker : worker[w].pc # "idle" => worker[w].msg \in Message
  BY DEF AInv, IInv, TypeOK, StreamTypeOK, LocalsOK, EInv
<1>1. CASE OuterStep
  <2>1. ClaimStep
    BY <1>1 DEF OuterStep, ClaimStep
  <2>2. ClaimOrigin' /\ \A m \in Message : Closed(m) => Closed(m)'
    BY <1>a, <2>1, ClaimsKeepOrigin, ClosedStays
  <2>3. ASSUME NEW v \in Worker, worker'[v].pc \in {"ack", "finAck"} PROVE Closed(worker[v].msg)'
    <3>1. worker'[v] = worker[v]
      BY <1>1, <2>3 DEF OuterStep
    <3>2. PICK n \in Message : n = worker[v].msg /\ n = worker'[v].msg
      BY <1>a, <2>3, <3>1
    <3>3. Closed(n)
      BY <2>3, <3>1, <3>2 DEF EInv
    <3>4. Closed(n)'
      BY <2>2, <3>3
    <3> QED
      BY <3>2, <3>4 DEF Closed
  <2> QED
    BY <1>1, <2>2, <2>3 DEF EInv, OuterStep
<1>2. ASSUME NEW w \in Worker, Effect(w), ClaimStep PROVE EInv'
  <2>1. Effect(w) /\ ClaimStep
    BY <1>2
  <2>2. ClaimOrigin' /\ \A n \in Message : Closed(n) => Closed(n)'
    BY <1>a, <2>1, ClaimsKeepOrigin, ClosedStays
  <2>3. ASSUME NEW v \in Worker, worker'[v].pc \in {"ack", "finAck"} PROVE Closed(worker[v].msg)'
    <3>1. PICK n \in Message : n = worker[v].msg /\ n = worker'[v].msg
      BY <1>a, <2>1, <2>3 DEF Effect, Moves
    <3>2. CASE v # w
      <4>1. Closed(n)
        BY <2>1, <2>3, <3>1, <3>2 DEF Effect, EInv
      <4>2. Closed(n)'
        BY <2>2, <4>1
      <4> QED
        BY <3>1, <4>2 DEF Closed
    <3>3. CASE v = w
      <4>1. IsDuplicate(n) \/ IsConflict(n) \/ (CompleteSucceeds(n) /\ CompleteClaim(n))
        BY <2>1, <2>3, <3>1, <3>3 DEF Effect, Moves
      <4>2. Closed(n)'
        BY <1>a, <2>2, <4>1, RefusedIsClosed, CompleteCloses
      <4> QED
        BY <3>1, <4>2 DEF Closed
    <3> QED
      BY <3>2, <3>3
  <2>4. \A n \in Message : stream'[n].status = "acked" => Closed(n)'
    <3> SUFFICES ASSUME NEW n \in Message, stream'[n].status = "acked" PROVE Closed(n)
      BY <2>2
    <3> QED
      BY <2>1 DEF Effect, AckEffect, EInv
  <2> QED
    BY <2>2, <2>3, <2>4 DEF EInv
<1> QED
  BY <1>1, <1>2, NextEffect

(* An acknowledged message never leaves the claim of its delivery open,    *)
(* with any number of workers, when the backend uses an event for one      *)
(* request.                                                                *)
THEOREM AcknowledgedIsSettled ==
  ASSUME EventNamesRequest
  PROVE  Spec => []AckedIsCompleted
<1>1. Init => AInv /\ EInv
  BY AInvInit, EInvInit
<1>2. (AInv /\ EInv) /\ [Next]_allVars => (AInv /\ EInv)'
  BY AInvStep, EInvStep
<1>3. AInv /\ EInv => AckedIsCompleted
  BY DEF EInv, Closed, AckedIsCompleted
<1> QED
  BY <1>1, <1>2, <1>3, PTL DEF Spec

------------------------------------------------------------------------------
(* What one worker per branch sends, and what ZATCA refuses.               *)

(* A Record leaves an answered row alone, and answers a pending one.       *)
LEMMA RecordRow ==
  ASSUME ChainTypeOK, NEW x \in Bill, NEW o \in Outcome, NEW e \in Evidence, Record(x, o, e)
  PROVE  /\ \A y \in Bill \ {x} : submission'[y] = submission[y]
         /\ submission'[x].invoice = submission[x].invoice
         /\ \/ submission[x].outcome # "pending" /\ submission'[x] = submission[x]
            \/ submission'[x].outcome = o /\ submission'[x].evidence = e
<1>1. CASE submission[x].outcome # "pending"
  BY <1>1 DEF Record
<1>2. CASE submission[x].outcome = "pending"
  <2> DEFINE row == [submission[x] EXCEPT !.outcome = o, !.evidence = e]
  <2>1. submission' = [submission EXCEPT ![x] = row]
    BY <1>2, Zenon DEF Record
  <2>2. row.invoice = submission[x].invoice /\ row.outcome = o /\ row.evidence = e
    BY DEF ChainTypeOK, SubmissionRow
  <2> HIDE DEF row
  <2> QED
    BY <2>1, <2>2 DEF ChainTypeOK
<1> QED
  BY <1>1, <1>2

(* One invoice is in the hands of one worker.                              *)
LEMMA OneSender ==
  ASSUME SoleWorker, AInv, OwnBranch, NEW v \in Worker, NEW w \in Worker,
         worker[v].pc \in {"submit", "record"}, worker[w].pc \in {"submit", "record"},
         worker[v].invoice.bill = worker[w].invoice.bill
  PROVE  v = w
<1>1. worker[v].invoice = worker[w].invoice
  BY DEF AInv, IInv, SendsStored
<1>2. /\ worker[v].invoice.branch = worker[v].msg.branch
      /\ worker[w].invoice.branch = worker[w].msg.branch
  BY DEF AInv, Knows, CheckStored
<1>3. WorkerBranch[v] = WorkerBranch[w]
  BY <1>1, <1>2 DEF OwnBranch
<1> QED
  BY <1>3 DEF SoleWorker

(* ZATCA does not hold an invoice after an answer that is taken for a      *)
(* refusal, when it does not answer 208.                                   *)
LEMMA RefusedIsNotHeld ==
  ASSUME AlreadyReported \notin HeldStatus, NEW inv \in SignedInvoice, NEW x \in Exchanges(inv),
         SubmitOutcome(inv.kind, x[1]) = "rejected"
  PROVE  inv \notin held /\ x[2] = FALSE
<1>1. inv.kind \in {"standard", "simplified"}
  BY DEF SignedInvoice
<1>2. SubmitOutcome(inv.kind, NoAnswer) # "rejected"
  <2>1. NoAnswer.http = 0
    BY DEF NoAnswer
  <2>2. SubmitOutcome(inv.kind, NoAnswer) = Technical
    BY <2>1 DEF SubmitOutcome, Is2xx
  <2> QED
    BY <2>2 DEF Technical
<1>3. ASSUME NEW a \in AcceptingAnswers(inv.kind) PROVE SubmitOutcome(inv.kind, a) # "rejected"
  <2>1. PICK warned \in BOOLEAN :
          a = [http |-> OK, body |-> "json", resp |-> Body(inv.kind, SuccessStatus(inv.kind), warned)]
    BY <1>3 DEF AcceptingAnswers
  <2> DEFINE resp == Body(inv.kind, SuccessStatus(inv.kind), warned)
  <2>2. SubmitOutcome(inv.kind, a) = ResponseOutcome(inv.kind, resp)
    BY <2>1 DEF SubmitOutcome, Is2xx, OK
  <2>3. ProviderStatus(inv.kind, resp) = SuccessStatus(inv.kind)
    BY <1>1 DEF ProviderStatus, Body, ZeroResponse, SuccessStatus
  <2>4. resp.errors = FALSE /\ resp.validationErrors = FALSE
    BY DEF Body, ZeroResponse
  <2> HIDE DEF resp
  <2>5. ResponseOutcome(inv.kind, resp) \in Accepting
    BY <2>3, <2>4 DEF ResponseOutcome, Accepting
  <2> QED
    BY <2>2, <2>5 DEF Accepting
<1>4. ASSUME NEW a \in HeldAnswers(inv.kind) PROVE SubmitOutcome(inv.kind, a) # "rejected"
  <2>1. a.http = Conflict
    <3>1. PICK h \in HeldStatus \X {SuccessStatus(inv.kind), "OTHER"} :
            a = [http |-> h[1], body |-> "json", resp |-> Body(inv.kind, h[2], FALSE)]
      BY <1>4 DEF HeldAnswers
    <3>2. h[1] = Conflict
      BY WorkerAssumption
    <3> QED
      BY <3>1, <3>2
  <2>2. SubmitOutcome(inv.kind, a) = RejectionOutcome(inv.kind, a)
    BY <2>1 DEF SubmitOutcome, Is2xx, Conflict
  <2>3. RejectionOutcome(inv.kind, a) # "rejected"
    BY <2>1 DEF RejectionOutcome
  <2> QED
    BY <2>2, <2>3
<1>5. CASE inv \in held
  BY <1>2, <1>4, <1>5 DEF Exchanges
<1>6. CASE inv \notin held
  BY <1>2, <1>3, <1>6 DEF Exchanges
<1> QED
  BY <1>5, <1>6

(* The invariants hold before the first delivery.                          *)
LEMMA SInvInit == Init => SInv /\ RInv
<1> SUFFICES ASSUME Init PROVE SInv /\ RInv
  OBVIOUS
<1>1. /\ submission = [b \in Bill |-> NoSubmission]
      /\ worker = [w \in Worker |-> Idle]
  BY DEF Init, StreamInit, ChainInit
<1>2. Idle.pc = "idle" /\ NoSubmission.invoice = None /\ NoSubmission.outcome = "pending"
  BY DEF Idle, NoSubmission
<1> QED
  BY <1>1, <1>2 DEF SInv, RInv, StoredIsOwn, OwnBranch, RejectedIsNotHeld

(* A worker keeps to its branch.                                           *)
LEMMA OwnBranchStep ==
  ASSUME OwnBranch, OuterStep \/ \E w \in Worker : Effect(w)
  PROVE  OwnBranch'
<1>1. CASE OuterStep
  BY <1>1 DEF OwnBranch, OuterStep
<1>2. ASSUME NEW w \in Worker, Effect(w) PROVE OwnBranch'
  BY <1>2 DEF OwnBranch, Effect, Moves
<1> QED
  BY <1>1, <1>2

(* What an operator or the environment does keeps open what is sent.       *)
LEMMA SInvOuter ==
  ASSUME AInv, SInv, OuterStep
  PROVE  SInv'
<1>a. /\ ChainTypeOK
      /\ \A w \in Worker : worker[w].pc \in {"submit", "record"} => worker[w].invoice.bill \in Bill
  BY DEF AInv, IInv, TypeOK, StreamTypeOK, LocalsOK, SignedInvoice
<1>b. \A v \in Worker : worker'[v].pc \in {"submit", "record"} => worker'[v] = worker[v]
  BY DEF OuterStep
<1>c. OwnBranch'
  BY OwnBranchStep DEF SInv
<1>1. CASE UNCHANGED submission
  BY <1>1, <1>b, <1>c DEF SInv, StoredIsOwn
<1>2. ASSUME NEW b \in Bill, NEW o \in Outcome, Record(b, o, "external") PROVE SInv'
  <2>1. /\ \A y \in Bill \ {b} : submission'[y] = submission[y]
        /\ submission'[b].invoice = submission[b].invoice
        /\ submission'[b] = submission[b] \/ submission'[b].evidence = "external"
    BY <1>a, <1>2, RecordRow DEF Evidence
  <2>2. StoredIsOwn'
    BY <2>1 DEF SInv, StoredIsOwn
  <2>3. \A y \in Bill : OpenRow(submission[y]) => OpenRow(submission'[y])
    BY <2>1 DEF OpenRow
  <2>4. \A v \in Worker :
          worker'[v].pc \in {"submit", "record"} => OpenRow(submission'[worker'[v].invoice.bill])
    BY <1>a, <1>b, <2>3 DEF SInv
  <2> QED
    BY <1>c, <2>2, <2>4 DEF SInv
<1> QED
  BY <1>1, <1>2 DEF OuterStep

(* It refuses nothing on the provider's word.                              *)
LEMMA RInvOuter ==
  ASSUME AInv, RInv, OuterStep
  PROVE  RInv'
<1>a. ChainTypeOK
  BY DEF AInv, IInv, TypeOK, StreamTypeOK
<1>1. \A v \in Worker :
        worker'[v].pc = "record" /\ worker'[v].outcome = "rejected" => worker'[v].invoice \notin held'
  BY DEF RInv, OuterStep
<1>2. CASE UNCHANGED submission
  BY <1>1, <1>2 DEF RInv, RejectedIsNotHeld, OuterStep
<1>3. ASSUME NEW b \in Bill, NEW o \in Outcome, Record(b, o, "external") PROVE RInv'
  <2>1. \A y \in Bill : submission'[y] = submission[y] \/ submission'[y].evidence = "external"
    BY <1>a, <1>3, RecordRow DEF Evidence
  <2>2. RejectedIsNotHeld'
    BY <2>1 DEF RInv, RejectedIsNotHeld, OuterStep
  <2> QED
    BY <1>1, <2>2 DEF RInv
<1> QED
  BY <1>2, <1>3 DEF OuterStep

(* A step of a handler keeps open what another worker sends.               *)
LEMMA OpenForOthers ==
  ASSUME SoleWorker, AInv, SInv, NEW w \in Worker, Effect(w), NEW v \in Worker \ {w},
         worker[v].pc \in {"submit", "record"}
  PROVE  OpenRow(submission'[worker[v].invoice.bill])
<1> DEFINE b == worker[v].invoice.bill
           s == worker[w]
<1>a. /\ ChainTypeOK /\ LocalsOK(s) /\ LocalsOK(worker[v])
      /\ Knows(s, submission, held) /\ Knows(worker[v], submission, held)
  BY DEF AInv, IInv, TypeOK, StreamTypeOK
<1>b. b \in Bill /\ b = worker[v].msg.bill /\ submission[b].invoice # None
  BY <1>a, InvoiceAssumption DEF LocalsOK, SignedInvoice, Knows, CheckStored, AInv, IInv, SendsStored
<1>c. OpenRow(submission[b])
  BY DEF SInv
<1> HIDE DEF b
<1> SUFFICES OpenRow(submission'[b])
  BY DEF b
<1>1. CASE UNCHANGED submission
  BY <1>1, <1>c
<1>2. CASE s.pc = "commit" /\ Commit(s.booking, s.invoice)
  <2>1. s.booking \in Booking /\ s.invoice \in SignedInvoice
    BY <1>2, <1>a DEF LocalsOK
  <2>2. /\ submission[s.invoice.bill].invoice = None
        /\ \A y \in Bill \ {s.invoice.bill} : submission'[y] = submission[y]
    BY <1>2, <1>a, <2>1, CommitEffect
  <2> QED
    BY <1>b, <1>c, <2>2
<1>3. CASE s.pc = "record" /\ Record(s.invoice.bill, s.outcome, "provider")
  <2>1. s.invoice.bill \in Bill /\ s.outcome \in Outcome
    BY <1>3, <1>a DEF LocalsOK, SignedInvoice
  <2>2. s.invoice.bill # b
    BY <1>3, OneSender DEF SInv, b
  <2> QED
    BY <1>3, <1>a, <1>b, <1>c, <2>1, <2>2, RecordRow DEF Evidence
<1>4. CASE s.pc = "finRecord" /\ Record(s.msg.bill, "terminal_failure", "local")
  <2>1. s.msg \in Message /\ s.msg.bill \in Bill /\ "terminal_failure" \in Outcome
    BY <1>4, <1>a, EnvelopeParts DEF LocalsOK, Outcome
  <2>2. CASE s.msg.bill # b
    BY <1>4, <1>a, <1>b, <1>c, <2>1, <2>2, RecordRow DEF Evidence
  <2>3. CASE s.msg.bill = b
    <3>1. ~BillNamesBranch
      <4>1. SUFFICES ASSUME BillNamesBranch PROVE FALSE
        OBVIOUS
      <4>2. /\ Proper(s.msg) /\ Proper(worker[v].msg) /\ worker[v].msg \in Message
            /\ s.msg.bill = worker[v].msg.bill
        BY <1>4, <1>a, <1>b, <2>3 DEF Knows, LocalsOK
      <4>3. WorkerBranch[v] = WorkerBranch[w]
        BY <1>4, <2>1, <4>1, <4>2 DEF BillNamesBranch, SInv, OwnBranch
      <4> QED
        BY <4>3 DEF SoleWorker
    <3>2. submission'[b] = submission[b] \/ submission'[b].evidence = "local"
      BY <1>4, <1>a, <2>1, <2>3, RecordRow DEF Evidence
    <3> QED
      BY <1>c, <3>1, <3>2 DEF OpenRow
  <2> QED
    BY <2>2, <2>3
<1> QED
  BY <1>1, <1>2, <1>3, <1>4 DEF Effect, RowEffect

(* And what the worker itself goes on to send.                             *)
LEMMA OpenForSelf ==
  ASSUME AInv, SInv, NEW w \in Worker, Effect(w), worker'[w].pc \in {"submit", "record"}
  PROVE  OpenRow(submission'[worker'[w].invoice.bill])
<1> DEFINE s == worker[w]
           m == worker[w].msg
<1>a. ChainTypeOK /\ LocalsOK(s)
  BY DEF AInv, IInv, TypeOK, StreamTypeOK
<1>1. CASE s.pc = "stored" /\ Issued(m) /\ submission[m.bill].outcome = "pending"
           /\ worker'[w].invoice = submission[m.bill].invoice
  <2>1. UNCHANGED submission
    BY <1>1 DEF Effect, RowEffect
  <2>2. worker'[w].invoice.bill = m.bill
    BY <1>1 DEF Issued, CheckStored
  <2> QED
    BY <1>1, <2>1, <2>2 DEF OpenRow
<1>2. CASE s.pc = "commit" /\ worker'[w].invoice = s.invoice /\ Commit(s.booking, s.invoice)
  <2>1. s.booking \in Booking /\ s.invoice \in SignedInvoice
    BY <1>2, <1>a DEF LocalsOK
  <2>2. submission'[s.invoice.bill] = [invoice |-> s.invoice, outcome |-> "pending", evidence |-> None]
    BY <1>2, <1>a, <2>1, CommitEffect
  <2> QED
    BY <1>2, <2>2 DEF OpenRow
<1>3. CASE Submit(w) /\ worker'[w].invoice = s.invoice
  <2>1. s.pc = "submit"
    BY <1>3 DEF Submit, At
  <2>2. UNCHANGED submission
    BY <2>1 DEF Effect, RowEffect
  <2> QED
    BY <1>3, <2>1, <2>2 DEF SInv
<1> QED
  BY <1>1, <1>2, <1>3 DEF Effect, Moves

(* ZATCA holds no invoice that is refused or recorded as refused.          *)
LEMMA RefusalsStand ==
  ASSUME SoleWorker, AlreadyReported \notin HeldStatus, AInv, SInv, RInv, NEW w \in Worker, Effect(w)
  PROVE  /\ \A v \in Worker :
              worker'[v].pc = "record" /\ worker'[v].outcome = "rejected" =>
                worker'[v].invoice \notin held'
         /\ RejectedIsNotHeld'
<1> DEFINE s == worker[w]
<1>a. /\ ChainTypeOK /\ LocalsOK(s) /\ worker \in [Worker -> WorkerState]
      /\ s.pc \in {"submit", "record"} =>
           /\ s.invoice \in SignedInvoice /\ s.invoice.bill \in Bill
           /\ submission[s.invoice.bill].invoice = s.invoice
  BY DEF AInv, IInv, TypeOK, StreamTypeOK, LocalsOK, SendsStored, SignedInvoice
<1>1. ASSUME NEW v \in Worker, worker'[v].pc = "record", worker'[v].outcome = "rejected"
      PROVE  worker'[v].invoice \notin held'
  <2>1. CASE v # w
    <3>1. worker'[v] = worker[v]
      BY <2>1 DEF Effect
    <3>2. worker[v].invoice \notin held
      BY <1>1, <3>1 DEF RInv
    <3>3. CASE s.pc = "submit"
      <4>1. worker[v].invoice # s.invoice
        BY <1>1, <2>1, <3>1, <3>3, OneSender DEF SInv
      <4> QED
        BY <3>1, <3>2, <4>1 DEF Effect, HeldEffect
    <3>4. CASE s.pc # "submit"
      BY <3>1, <3>2, <3>4 DEF Effect, HeldEffect
    <3> QED
      BY <3>3, <3>4
  <2>2. CASE v = w
    <3>1. Submit(w) /\ worker'[w].invoice = s.invoice
      BY <1>1, <2>2 DEF Effect, Moves
    <3> DEFINE inv == s.invoice
    <3>2. PICK x \in Exchanges(inv) :
            /\ held' = IF x[2] THEN held \cup {inv} ELSE held
            /\ IF SubmitOutcome(inv.kind, x[1]) = Technical
                 THEN FailWith(w, "fail", "technical")
                 ELSE worker' = [worker EXCEPT ![w].pc = "record",
                                               ![w].outcome = SubmitOutcome(inv.kind, x[1]),
                                               ![w].result = OutcomeResult(SubmitOutcome(inv.kind, x[1]))]
      BY <3>1, Zenon DEF Submit
    <3>3. SubmitOutcome(inv.kind, x[1]) = "rejected"
      <4>1. CASE FailWith(w, "fail", "technical")
        <5>1. worker'[w].pc = "fail"
          BY <1>a, <4>1 DEF FailWith, WorkerState
        <5> QED
          BY <1>1, <2>2, <5>1
      <4>2. CASE SubmitOutcome(inv.kind, x[1]) # Technical
        <5> DEFINE o == SubmitOutcome(inv.kind, x[1])
                   r == OutcomeResult(o)
                   t == [s EXCEPT !.pc = "record", !.outcome = o, !.result = r]
        <5>1. worker' = [worker EXCEPT ![w] = t]
          BY <3>2, <4>2, Zenon
        <5> HIDE DEF o, r
        <5>2. t.outcome = o
          BY <1>a DEF WorkerState
        <5> HIDE DEF t
        <5>3. worker'[w] = t
          BY <1>a, <5>1
        <5> QED
          BY <1>1, <2>2, <5>2, <5>3 DEF o
      <4> QED
        BY <3>2, <4>1, <4>2
    <3>4. inv \in SignedInvoice
      BY <1>a, <3>1 DEF Submit, At
    <3>5. inv \notin held /\ x[2] = FALSE
      BY <3>3, <3>4, RefusedIsNotHeld
    <3> QED
      BY <2>2, <3>1, <3>2, <3>5
  <2> QED
    BY <2>1, <2>2
<1>2. ASSUME NEW b \in Bill, submission'[b].outcome = "rejected", submission'[b].evidence = "provider"
      PROVE  submission'[b].invoice \notin held'
  <2>1. CASE s.pc = "record" /\ Record(s.invoice.bill, s.outcome, "provider") /\ b = s.invoice.bill
             /\ submission'[b] # submission[b]
    <3>1. /\ submission'[b].invoice = s.invoice /\ s.outcome = "rejected"
      BY <1>2, <1>a, <2>1, RecordRow DEF LocalsOK, Evidence
    <3>2. UNCHANGED held /\ s.invoice \notin held
      BY <2>1, <3>1 DEF Effect, HeldEffect, RInv
    <3> QED
      BY <3>1, <3>2
  <2>2. CASE submission'[b] = submission[b]
    <3>1. submission[b].invoice \notin held
      BY <1>2, <2>2 DEF RInv, RejectedIsNotHeld
    <3>2. CASE s.pc = "submit"
      <4>1. submission[b].invoice # s.invoice
        <5>1. SUFFICES ASSUME submission[b].invoice = s.invoice PROVE FALSE
          OBVIOUS
        <5>2. b = s.invoice.bill
          BY <1>a, <3>2, <5>1, InvoiceAssumption DEF SInv, StoredIsOwn
        <5> QED
          BY <1>2, <2>2, <3>2, <5>2 DEF SInv, OpenRow
      <4> QED
        BY <2>2, <3>1, <4>1 DEF Effect, HeldEffect
    <3>3. CASE s.pc # "submit"
      BY <2>2, <3>1, <3>3 DEF Effect, HeldEffect
    <3> QED
      BY <3>2, <3>3
  <2>3. CASE s.pc = "record" /\ Record(s.invoice.bill, s.outcome, "provider") /\ b # s.invoice.bill
    <3>1. submission'[b] = submission[b]
      BY <2>3, <1>a, RecordRow DEF LocalsOK, Evidence
    <3> QED
      BY <2>2, <3>1
  <2>4. CASE s.pc = "commit" /\ Commit(s.booking, s.invoice)
    <3>1. s.booking \in Booking /\ s.invoice \in SignedInvoice
      BY <2>4, <1>a DEF LocalsOK
    <3>2. /\ submission'[s.invoice.bill] = [invoice |-> s.invoice, outcome |-> "pending", evidence |-> None]
          /\ \A y \in Bill \ {s.invoice.bill} : submission'[y] = submission[y]
      BY <2>4, <1>a, <3>1, CommitEffect
    <3>3. b # s.invoice.bill
      BY <1>2, <3>2
    <3> QED
      BY <2>2, <3>2, <3>3
  <2>5. CASE s.pc = "finRecord" /\ Record(s.msg.bill, "terminal_failure", "local")
    <3>1. s.msg.bill \in Bill /\ "terminal_failure" \in Outcome
      BY <2>5, <1>a, EnvelopeParts DEF LocalsOK, Outcome
    <3>2. submission'[b] = submission[b]
      BY <1>2, <2>5, <1>a, <3>1, RecordRow DEF Evidence
    <3> QED
      BY <2>2, <3>2
  <2> QED
    BY <2>1, <2>2, <2>3, <2>4, <2>5 DEF Effect, RowEffect
<1> QED
  BY <1>1, <1>2 DEF RejectedIsNotHeld

(* Only a commit stores an invoice, under the bill of the invoice.         *)
LEMMA StoredIsOwnStep ==
  ASSUME AInv, StoredIsOwn, [Next]_allVars
  PROVE  StoredIsOwn'
<1>1. ChainTypeOK /\ ChainStep
  BY IInvStep DEF AInv, IInv, TypeOK, StreamTypeOK
<1>2. CASE SameInvoices
  BY <1>2 DEF SameInvoices, StoredIsOwn
<1>3. ASSUME NEW bk \in Booking, NEW inv \in SignedInvoice, Commit(bk, inv) PROVE StoredIsOwn'
  <2>1. /\ submission'[inv.bill] = [invoice |-> inv, outcome |-> "pending", evidence |-> None]
        /\ \A x \in Bill \ {inv.bill} : submission'[x] = submission[x]
    BY <1>1, <1>3, CommitEffect
  <2> QED
    BY <2>1 DEF StoredIsOwn
<1> QED
  BY <1>1, <1>2, <1>3, OnlyCommitIssues

(* Every step keeps open what is sent.                                     *)
LEMMA SInvStep ==
  ASSUME SoleWorker, AInv, SInv, [Next]_allVars
  PROVE  SInv'
<1>1. CASE OuterStep
  BY <1>1, SInvOuter
<1>2. ASSUME NEW w \in Worker, Effect(w) PROVE SInv'
  <2>1. StoredIsOwn' /\ OwnBranch'
    BY <1>2, StoredIsOwnStep, OwnBranchStep DEF SInv
  <2>2. ASSUME NEW v \in Worker, worker'[v].pc \in {"submit", "record"}
        PROVE  OpenRow(submission'[worker'[v].invoice.bill])
    <3>1. CASE v = w
      BY <1>2, <2>2, <3>1, OpenForSelf
    <3>2. CASE v # w
      <4>1. worker'[v] = worker[v]
        BY <1>2, <3>2 DEF Effect
      <4> QED
        BY <1>2, <2>2, <3>2, <4>1, OpenForOthers
    <3> QED
      BY <3>1, <3>2
  <2> QED
    BY <2>1, <2>2 DEF SInv, OpenRow
<1> QED
  BY <1>1, <1>2, NextEffect

(* Every step keeps what is refused from being held.                       *)
LEMMA RInvStep ==
  ASSUME SoleWorker, AlreadyReported \notin HeldStatus, AInv, SInv, RInv, [Next]_allVars
  PROVE  RInv'
<1>1. CASE OuterStep
  BY <1>1, RInvOuter
<1>2. ASSUME NEW w \in Worker, Effect(w) PROVE RInv'
  BY <1>2, RefusalsStand DEF RInv
<1> QED
  BY <1>1, <1>2, NextEffect

(* A branch with one worker never sends an invoice whose answer is         *)
(* recorded, other than by an operator in the meantime, when a bill is     *)
(* asked for on one branch only.                                           *)
THEOREM AnsweredIsNotSent ==
  ASSUME SoleWorker, BillNamesBranch
  PROVE  Spec => NeverSentAgain
<1> DEFINE Unanswered(w) ==
             LET row == submission[worker[w].invoice.bill]
             IN  row.outcome = "pending" \/ row.evidence = "external"
<1>1. Init => AInv /\ SInv
  BY AInvInit, SInvInit
<1>2. (AInv /\ SInv) /\ [Next]_allVars => (AInv /\ SInv)'
  BY AInvStep, SInvStep
<1>3. SInv => [\A w \in Worker :
                 worker[w].pc = "submit" /\ worker'[w].pc = "record" => Unanswered(w)]_vars
  BY DEF SInv, OpenRow
<1> QED
  BY <1>1, <1>2, <1>3, PTL DEF Spec, NeverSentAgain

(* With one worker for each branch, ZATCA holds no invoice that is         *)
(* recorded as rejected on its word, unless it answers a repeated invoice  *)
(* with 208 (the run repeated_208 shows what happens then).                *)
THEOREM RejectionIsRefusal ==
  ASSUME SoleWorker, AlreadyReported \notin HeldStatus
  PROVE  Spec => []RejectedIsNotHeld
<1>1. Init => AInv /\ SInv /\ RInv
  BY AInvInit, SInvInit
<1>2. (AInv /\ SInv /\ RInv) /\ [Next]_allVars => (AInv /\ SInv /\ RInv)'
  BY AInvStep, SInvStep, RInvStep
<1>3. AInv /\ SInv /\ RInv => RejectedIsNotHeld
  BY DEF RInv
<1> QED
  BY <1>1, <1>2, <1>3, PTL DEF Spec

------------------------------------------------------------------------------
(* What a finished request has.                                            *)

(* The invoice that m asks for is committed and has an answer.             *)
Answered(m) == Issued(m) /\ submission[m.bill].outcome # "pending"

(* Nothing takes a committed invoice or its answer back.                   *)
LEMMA AnsweredStays ==
  ASSUME AInv, [Next]_allVars, NEW m \in Message, Answered(m)
  PROVE  Answered(m)'
<1>1. ChainStep /\ ChainTypeOK /\ AnswersOK
  BY IInvStep DEF AInv, IInv, TypeOK, StreamTypeOK
<1>2. Stands
  BY <1>1, AnswersStep
<1>3. m.bill \in Bill
  BY EnvelopeParts
<1> QED
  BY <1>2, <1>3 DEF Stands, Answered, Issued

(* The worker that finishes has found the answer or has recorded it.       *)
LEMMA FinishFindsAnswer ==
  ASSUME AInv, NEW w \in Worker, Effect(w), worker'[w].pc = "complete",
         NEW m \in Message, m = worker[w].msg
  PROVE  Answered(m)'
<1> DEFINE s == worker[w]
<1>a. /\ ChainTypeOK /\ LocalsOK(s) /\ Knows(s, submission, held) /\ SendsStored
  BY DEF AInv, IInv, TypeOK, StreamTypeOK
<1>1. CASE s.pc = "stored" /\ Answered(m)
  <2>1. UNCHANGED submission
    BY <1>1 DEF Effect, RowEffect
  <2> QED
    BY <1>1, <2>1 DEF Answered, Issued
<1>2. CASE s.pc = "record" /\ Record(s.invoice.bill, s.outcome, "provider")
  <2>1. /\ s.invoice \in SignedInvoice /\ s.outcome \in Outcome
        /\ CheckStored(s.invoice, m) /\ submission[m.bill].invoice = s.invoice
    BY <1>a, <1>2 DEF LocalsOK, Knows, SendsStored, CheckStored
  <2>2. s.invoice.bill = m.bill /\ m.bill \in Bill
    BY <2>1, EnvelopeParts DEF CheckStored
  <2>3. submission'[m.bill].invoice = s.invoice /\ submission'[m.bill].outcome # "pending"
    BY <1>a, <1>2, <2>1, <2>2, RecordRow DEF Evidence, Outcome
  <2>4. s.invoice # None
    BY <1>2, <2>1, <2>2 DEF Record
  <2> HIDE DEF s
  <2> QED
    BY <2>1, <2>3, <2>4 DEF Answered, Issued
<1> QED
  BY <1>1, <1>2 DEF Effect, Moves, Answered

(* process goes on to finish only with an answer on the row of the invoice *)
(* that its request asks for, with any number of workers, faults and       *)
(* operators.                                                              *)
THEOREM FinishIsAnswered == Spec => []FinishedIsAnswered
<1>1. Init => AInv /\ FinishedIsAnswered
  <2>1. Init => worker = [w \in Worker |-> Idle] /\ Idle.pc = "idle"
    BY DEF Init, StreamInit, Idle
  <2> QED
    BY <2>1, AInvInit DEF FinishedIsAnswered
<1>2. (AInv /\ FinishedIsAnswered) /\ [Next]_allVars => (AInv /\ FinishedIsAnswered)'
  <2> SUFFICES ASSUME AInv, FinishedIsAnswered, [Next]_allVars PROVE FinishedIsAnswered'
    BY AInvStep
  <2> SUFFICES ASSUME NEW v \in Worker, worker'[v].pc = "complete"
               PROVE  /\ submission'[worker'[v].msg.bill].invoice # None
                      /\ CheckStored(submission'[worker'[v].msg.bill].invoice, worker'[v].msg)
                      /\ submission'[worker'[v].msg.bill].outcome # "pending"
    BY DEF FinishedIsAnswered, CheckStored
  <2>1. worker[v].pc # "idle" => worker[v].msg \in Message
    BY DEF AInv, IInv, LocalsOK
  <2>2. ASSUME worker'[v] = worker[v] PROVE worker[v].msg \in Message /\ Answered(worker[v].msg)
    BY <2>1, <2>2 DEF FinishedIsAnswered, Answered, Issued
  <2>3. PICK m \in Message : m = worker'[v].msg /\ Answered(m)'
    <3>1. CASE worker'[v] = worker[v]
      BY <2>2, <3>1, AnsweredStays
    <3>2. ASSUME Effect(v) PROVE worker[v].msg \in Message /\ worker'[v].msg = worker[v].msg
      BY <2>1, <3>2 DEF Effect, Moves
    <3>3. CASE Effect(v)
      BY <3>2, <3>3, FinishFindsAnswer
    <3>4. worker'[v] = worker[v] \/ Effect(v)
      BY NextEffect DEF OuterStep, Effect
    <3> QED
      BY <3>1, <3>3, <3>4
  <2> QED
    BY <2>3 DEF Answered, Issued, CheckStored
<1> QED
  BY <1>1, <1>2, PTL DEF Spec

------------------------------------------------------------------------------
(* Whose invoice is decided.                                               *)

(* Only an invoice that was committed before the step gets an answer.      *)
LEMMA DecidedWasIssued ==
  ASSUME ChainTypeOK, AnswersOK, ChainStep,
         NEW b \in Bill, submission'[b].outcome # submission[b].outcome
  PROVE  submission[b].invoice # None
<1>1. ASSUME NEW bk \in Booking, NEW inv \in SignedInvoice, Commit(bk, inv)
      PROVE  submission'[b].outcome = submission[b].outcome
  <2>1. inv.bill \in Bill
    BY DEF SignedInvoice
  <2>2. submission[inv.bill].outcome = "pending"
    BY <1>1, <2>1 DEF Commit, Committable, AnswersOK, AnswerNeedsInvoice, HasInvoice
  <2> QED
    BY <1>1, <2>1, <2>2 DEF Commit, ChainTypeOK
<1>2. ASSUME NEW x \in Bill, NEW o \in Outcome, NEW e \in Evidence, Record(x, o, e)
      PROVE  submission[b].invoice # None
  BY <1>2, RecordEffect
<1> QED
  BY <1>1, <1>2, AnswerCases

(* Where all requests for a bill ask for the same invoice, a delivery      *)
(* decides only the invoice that its envelope asks for, on its last        *)
(* attempt too, with any number of workers, faults and operators.  The     *)
(* last attempt itself does not compare them (FinalizePermanentFailure;    *)
(* the run disputed_bill shows what happens when two requests differ).     *)
THEOREM UndisputedIsUntouched ==
  ASSUME BillNamesInvoice
  PROVE  Spec => OthersInvoiceUntouched
<1> DEFINE Own ==
             \A w \in Worker :
               LET m == worker[w].msg
               IN  /\ worker[w].pc \in {"record", "finRecord"}
                   /\ submission'[m.bill].outcome # submission[m.bill].outcome
                   => CheckStored(submission[m.bill].invoice, m)
<1>1. AInv /\ StoredIsOwn /\ [Next]_allVars => Own
  <2> SUFFICES ASSUME AInv, StoredIsOwn, [Next]_allVars, NEW w \in Worker,
                      worker[w].pc \in {"record", "finRecord"},
                      submission'[worker[w].msg.bill].outcome # submission[worker[w].msg.bill].outcome
               PROVE  CheckStored(submission[worker[w].msg.bill].invoice, worker[w].msg)
    BY Zenon
  <2> DEFINE m == worker[w].msg
  <2>1. ChainTypeOK /\ AnswersOK /\ ChainStep
    BY IInvStep DEF AInv, IInv, TypeOK, StreamTypeOK
  <2>2. m \in Message /\ Proper(m)
    BY DEF AInv, IInv, LocalsOK, Knows
  <2>3. m.bill \in Bill
    BY <2>2, EnvelopeParts
  <2>4. submission[m.bill].invoice # None
    BY <2>1, <2>3, DecidedWasIssued
  <2>5. PICK n \in Message : Proper(n) /\ CheckStored(submission[m.bill].invoice, n)
    BY <2>3, <2>4, Zenon DEF AInv, IssuedAsAsked, Proper
  <2>6. n.bill = m.bill
    BY <2>3, <2>4, <2>5 DEF CheckStored, StoredIsOwn
  <2> QED
    BY <2>2, <2>5, <2>6 DEF BillNamesInvoice, CheckStored
<1>2. Init => AInv /\ StoredIsOwn
  BY AInvInit, SInvInit DEF SInv
<1>3. (AInv /\ StoredIsOwn) /\ [Next]_allVars => (AInv /\ StoredIsOwn)'
  BY AInvStep, StoredIsOwnStep
<1>4. (AInv /\ StoredIsOwn) /\ [Next]_allVars => [Own]_<<submission, worker>>
  BY <1>1
<1> QED
  BY <1>2, <1>3, <1>4, PTL DEF Spec, OthersInvoiceUntouched
==============================================================================
