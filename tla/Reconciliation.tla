--------------------------- MODULE Reconciliation ---------------------------
(***************************************************************************)
(* The whole invoice protocol of one tenant: the deliveries                *)
(* (OrderedStream) and the operator who records ZATCA's answer by hand     *)
(* (handleReconcileRequest, cmd/daemon/reconcile.go).  A responder reads   *)
(* the stored invoice, decides, and records in a second transaction.       *)
(***************************************************************************)
EXTENDS OrderedStream

CONSTANTS
  Responder,   \* the subscriptions that answer reconcile requests
  HashForm     \* how fatoora writes a hash, and so how the stored one is written

(* The ways to write a SHA-256 hash as text.                               *)
HashForms == {"hex", "base64"}

ASSUME HashFormAssumption == HashForm \in HashForms

VARIABLE desk   \* [Responder -> the record request it is working on]

allVars == <<vars, desk>>

(* The states a record request may carry (ReconcileRequest.Validate).      *)
RecordState == {"accepted", "accepted_with_warning", "rejected"}

FreeDesk == [bill |-> None, state |-> None]

TypeOK ==
  /\ StreamTypeOK
  /\ desk \in [Responder -> {FreeDesk} \cup [bill : Bill, state : RecordState]]

Init ==
  /\ StreamInit
  /\ desk = [o \in Responder |-> FreeDesk]

(* A record request for bill b that carries its invoice's hash in a form   *)
(* passes: Validate takes 64 hex digits only, and the handler compares the *)
(* text with the stored one.                                               *)
MayRecord(b, form) ==
  /\ form = "hex"
  /\ submission[b].invoice # None
  /\ form = HashForm
  /\ submission[b].outcome \in {"pending", "ambiguous"}

(* A record request passes the checks.  Any other request is answered with *)
(* an error or with the stored state, and changes nothing.                 *)
CheckRequest(o, b, state, form) ==
  /\ desk[o] = FreeDesk
  /\ MayRecord(b, form)
  /\ desk' = [desk EXCEPT ![o] = [bill |-> b, state |-> state]]
  /\ UNCHANGED vars

(* The request is recorded and answered "accepted", or the transaction     *)
(* commits and its answer is lost.                                         *)
RecordRequest(o) ==
  /\ desk[o] # FreeDesk
  /\ Record(desk[o].bill, desk[o].state, "external")
  /\ desk' = [desk EXCEPT ![o] = FreeDesk]
  /\ UNCHANGED <<claim, outsideVars, worker>>

(* The record fails, and the reply is an error, or the process stops.      *)
RecordRequestFails(o) ==
  /\ desk[o] # FreeDesk
  /\ {"db", "crash"} \cap Fault # {}
  /\ desk' = [desk EXCEPT ![o] = FreeDesk]
  /\ UNCHANGED vars

ReconcileNext ==
  \E o \in Responder :
    \/ \E b \in Bill, state \in RecordState, form \in HashForms :
         CheckRequest(o, b, state, form)
    \/ RecordRequest(o)
    \/ RecordRequestFails(o)

Next ==
  \/ StreamNext /\ UNCHANGED desk
  \/ ReconcileNext

Spec == Init /\ [][Next]_allVars

(* The daemon's processes keep running: a worker fetches what the consumer *)
(* offers, and a handler it has begun goes on.  Nothing is assumed of      *)
(* ZATCA's answers, of the leases or of the operator.                      *)
FairSpec ==
  /\ Spec
  /\ \A w \in Worker : WF_vars(Step(w))
  /\ \A m \in Message : WF_vars(\E w \in Worker : Deliver(w, m) \/ TerminateEnvelope(w, m))

------------------------------------------------------------------------------
(* An operator can settle an invoice that the daemon leaves "ambiguous":   *)
(* "a record request must carry the exact stored invoice hash"             *)
(* (queue/reconcile.go), and one that carries it, as the status reply      *)
(* states it, passes Validate and the handler's checks.                    *)
StoredHashIsTaken ==
  \A b \in Bill : submission[b].outcome = "ambiguous" => MayRecord(b, HashForm)

(* The chain and the outcomes implement the ledger: the hash a branch      *)
(* chains from is its ledger.                                              *)
Ledger == INSTANCE InvoiceLedger WITH
  ledger <- [b \in Branch |-> EffectivePIH(chain[b])],
  answer <- [x \in Bill |-> IF submission[x].invoice = None THEN "none" ELSE submission[x].outcome]

(* Every step of the protocol, with its crashes, takeovers and operators,  *)
(* is a step of the abstract ledger or leaves it alone.                    *)
ImplementsLedger == Ledger!Spec
==============================================================================
