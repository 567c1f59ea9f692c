---------------------------- MODULE InvoiceChain ----------------------------
(***************************************************************************)
(* SQLChain (queue/chain.go): the invoice chain of each branch             *)
(* (branch_zatca_config), the committed invoices (zatca_submission), their *)
(* outcome log (zatca_submission_outcome) and the bills.  Each operation   *)
(* is one transaction and so one step.                                     *)
(*                                                                         *)
(* An invoice hash is modelled by what it commits to: the hash it chains   *)
(* from, and the bill and UUID it adds.  So a hash is the sequence of the  *)
(* invoices of its chain, and GenesisPIH the empty sequence.               *)
(***************************************************************************)
EXTENDS Envelopes, Sequences

CONSTANTS
  Configured,  \* the branches that have a row in branch_zatca_config
  BillBranch,  \* bill.branch_id
  BillUUID,    \* bill.invoice_uuid before the daemon runs: None or a UUID
  BillKind,    \* standard or simplified, which Build derives from the bill
  Reportable,  \* the bills whose data passes the checks of verifyBill
  MaxICV       \* the largest value of last_icv (uint64)

VARIABLES
  chain,       \* [Branch -> chainRow]
  submission,  \* [Bill -> row of zatca_submission]
  bill,        \* [Bill -> row of bill]
  outcomeLog   \* [Bill -> Seq(Outcome)], zatca_submission_outcome

chainVars == <<chain, submission, bill, outcomeLog>>

ASSUME ChainAssumption ==
  /\ Configured \subseteq Branch
  /\ BillBranch \in [Bill -> Branch]
  /\ BillUUID \in [Bill -> UUID \cup {None}]
  /\ BillKind \in [Bill -> {"standard", "simplified"}]
  /\ Reportable \subseteq Bill
  /\ MaxICV \in Nat

Hash == Seq(Bill \X UUID)

GenesisPIH == << >>

ASSUME HashAssumption == None \notin Hash

Booking ==
  [branch : Branch, key : Request, token : Event, uuid : UUID, icv : Nat, pih : Hash]

SignedInvoice ==
  [bill : Bill, branch : Branch, uuid : UUID, icv : Nat, pih : Hash, hash : Hash,
   kind : {"standard", "simplified"}]

ASSUME InvoiceAssumption == None \notin SignedInvoice /\ None \notin Booking

Outcome == {"accepted", "accepted_with_warning", "rejected", "ambiguous", "terminal_failure"}

Evidence == {"provider", "external", "local"}

ChainRow ==
  [lastICV : Nat, previous : Hash \cup {None}, ownerKey : Request \cup {None},
   ownerToken : Event \cup {None}, reservedICV : Nat \cup {None}, lease : Lease]

SubmissionRow ==
  [invoice : SignedInvoice \cup {None}, outcome : Outcome \cup {"pending"},
   evidence : Evidence \cup {None}]

BillRow ==
  [branch : Branch, uuid : UUID \cup {None}, hash : Hash \cup {None}, state : {0, 1, 3}]

NoSubmission == [invoice |-> None, outcome |-> "pending", evidence |-> None]

ChainTypeOK ==
  /\ chain \in [Branch -> ChainRow]
  /\ submission \in [Bill -> SubmissionRow]
  /\ bill \in [Bill -> BillRow]
  /\ outcomeLog \in [Bill -> Seq(Outcome)]

ChainInit ==
  /\ chain = [b \in Branch |->
                [lastICV |-> 0, previous |-> None, ownerKey |-> None,
                 ownerToken |-> None, reservedICV |-> None, lease |-> "null"]]
  /\ submission = [b \in Bill |-> NoSubmission]
  /\ bill = [b \in Bill |->
               [branch |-> BillBranch[b], uuid |-> BillUUID[b], hash |-> None,
                state |-> IF b \in Reportable THEN 1 ELSE 0]]
  /\ outcomeLog = [b \in Bill |-> << >>]

------------------------------------------------------------------------------
(* Mutant: a branch that has issued nothing chains from NULL.              *)
StoredPIH(row) == row.previous

EffectivePIH(row) == IF row.previous = None THEN GenesisPIH ELSE row.previous

(* Mutant: the booking is not looked at again.                             *)
HoldsUnchecked(row, bk) == TRUE

(* The row carries exactly this booking.  The lease is not looked at: a    *)
(* booking that nobody has taken over can still be committed.              *)
Holds(row, bk) ==
  /\ row.ownerKey = bk.key
  /\ row.ownerToken = bk.token
  /\ row.reservedICV = bk.icv
  /\ row.lastICV + 1 = bk.icv
  /\ EffectivePIH(row) = bk.pih

(* The row a Release or a Commit leaves behind has no reservation.         *)
ClearReservation(row) ==
  [row EXCEPT !.ownerKey = None, !.ownerToken = None, !.reservedICV = None, !.lease = "null"]

BookingOf(m) ==
  [branch |-> m.branch, key |-> m.request, token |-> m.event, uuid |-> m.uuid,
   icv |-> chain[m.branch].lastICV + 1, pih |-> EffectivePIH(chain[m.branch])]

(* ErrChainBusy: a live reservation of another request, or of another      *)
(* event of the same request.                                              *)
ReservedByOther(m) ==
  LET row == chain[m.branch]
  IN  row.lease = "live" /\ (row.ownerKey # m.request \/ row.ownerToken # m.event)

(* ErrChainConflict: no number is left, or the request's own reservation   *)
(* is not the next number.                                                 *)
CannotBook(m) ==
  LET row == chain[m.branch]
  IN  \/ row.lastICV = MaxICV
      \/ /\ ~ReservedByOther(m)
         /\ row.ownerKey = m.request
         /\ row.reservedICV \notin {None, row.lastICV + 1}

Book(m) ==
  /\ m.branch \in Configured
  /\ ~CannotBook(m)
  /\ ~ReservedByOther(m)
  /\ chain' = [chain EXCEPT ![m.branch] =
                 [lastICV |-> @.lastICV, previous |-> @.previous,
                  ownerKey |-> m.request, ownerToken |-> m.event,
                  reservedICV |-> @.lastICV + 1, lease |-> "live"]]
  /\ UNCHANGED <<submission, bill, outcomeLog>>

(* Release of a booking: it is found by branch, request and event only.    *)
ReleaseBooking(bk) ==
  /\ chain' = IF chain[bk.branch].ownerKey = bk.key /\ chain[bk.branch].ownerToken = bk.token
                THEN [chain EXCEPT ![bk.branch] = ClearReservation(@)]
                ELSE chain
  /\ UNCHANGED <<submission, bill, outcomeLog>>

(* Time passes the end of a booking's lease.                               *)
ExpireBooking(b) ==
  /\ chain[b].lease = "live"
  /\ chain' = [chain EXCEPT ![b].lease = "expired"]
  /\ UNCHANGED <<submission, bill, outcomeLog>>

(* What Commit checks under the locks of the chain row and the bill row.   *)
(* A bill has one row in zatca_submission (unique key), so the INSERT of   *)
(* a second invoice fails.                                                 *)
Committable(bk, inv) ==
  /\ inv.branch = bk.branch /\ inv.icv = bk.icv /\ inv.uuid = bk.uuid /\ inv.pih = bk.pih
  /\ Holds(chain[bk.branch], bk)
  /\ bill[inv.bill].branch = bk.branch
  /\ bill[inv.bill].uuid \in {None, inv.uuid}
  /\ bill[inv.bill].hash \in {None, inv.hash}
  /\ submission[inv.bill].invoice = None

(* Mutant: the previous hash is not advanced.                              *)
CommitKeepsHash(bk, inv) ==
  /\ Committable(bk, inv)
  /\ submission' = [submission EXCEPT ![inv.bill] =
                      [invoice |-> inv, outcome |-> "pending", evidence |-> None]]
  /\ bill' = [bill EXCEPT ![inv.bill].uuid = inv.uuid, ![inv.bill].hash = inv.hash]
  /\ chain' = [chain EXCEPT ![bk.branch] = [ClearReservation(@) EXCEPT !.lastICV = inv.icv]]
  /\ UNCHANGED outcomeLog

(* Commit stores the invoice, marks the bill, advances the chain and drops *)
(* the booking in one transaction.                                         *)
Commit(bk, inv) ==
  /\ Committable(bk, inv)
  /\ submission' = [submission EXCEPT ![inv.bill] =
                      [invoice |-> inv, outcome |-> "pending", evidence |-> None]]
  /\ bill' = [bill EXCEPT ![inv.bill].uuid = inv.uuid, ![inv.bill].hash = inv.hash]
  /\ chain' = [chain EXCEPT ![bk.branch] =
                 [lastICV |-> inv.icv, previous |-> inv.hash, ownerKey |-> None,
                  ownerToken |-> None, reservedICV |-> None, lease |-> "null"]]
  /\ UNCHANGED outcomeLog

(* Mutant: an ambiguous answer can be replaced.                            *)
RecordOverAmbiguous(b, outcome, evidence) ==
  /\ submission[b].invoice # None
  /\ IF submission[b].outcome \in {"pending", "ambiguous"}
       THEN /\ submission' = [submission EXCEPT ![b].outcome = outcome, ![b].evidence = evidence]
            /\ outcomeLog' = [outcomeLog EXCEPT ![b] = Append(@, outcome)]
       ELSE UNCHANGED <<submission, outcomeLog>>
  /\ UNCHANGED <<chain, bill>>

(* Mutant: every answer is logged and marks the bill.                      *)
RecordAlwaysLogs(b, outcome, evidence) ==
  /\ submission[b].invoice # None
  /\ submission' = IF submission[b].outcome = "pending"
                     THEN [submission EXCEPT ![b].outcome = outcome, ![b].evidence = evidence]
                     ELSE submission
  /\ outcomeLog' = [outcomeLog EXCEPT ![b] = Append(@, outcome)]
  /\ bill' = [bill EXCEPT ![b].state = 3]
  /\ UNCHANGED chain

(* Record stores the first answer, logs it, and marks an accepted bill     *)
(* issued.  A later answer changes nothing and is not an error.            *)
Record(b, outcome, evidence) ==
  /\ submission[b].invoice # None
  /\ IF submission[b].outcome = "pending"
       THEN /\ submission' = [submission EXCEPT ![b].outcome = outcome, ![b].evidence = evidence]
            /\ outcomeLog' = [outcomeLog EXCEPT ![b] = Append(@, outcome)]
            /\ bill' = IF outcome \in {"accepted", "accepted_with_warning"}
                         THEN [bill EXCEPT ![b].state = 3]
                         ELSE bill
       ELSE UNCHANGED <<submission, outcomeLog, bill>>
  /\ UNCHANGED chain

------------------------------------------------------------------------------
(* Safety.                                                                 *)

HasInvoice(x) == submission[x].invoice # None

(* x is the bill whose invoice has number i in the chain of branch b.      *)
IsNumber(x, b, i) ==
  HasInvoice(x) /\ submission[x].invoice.branch = b /\ submission[x].invoice.icv = i

(* The numbers of a branch are 1..last_icv: none is skipped.               *)
Gapless ==
  /\ \A b \in Branch : \A i \in 1..chain[b].lastICV : \E x \in Bill : IsNumber(x, b, i)
  /\ \A x \in Bill : HasInvoice(x) =>
       submission[x].invoice.icv \in 1..chain[submission[x].invoice.branch].lastICV

(* No number is issued twice.                                              *)
NoNumberTwice ==
  \A x, y \in Bill :
    /\ HasInvoice(x) /\ HasInvoice(y)
    /\ submission[x].invoice.branch = submission[y].invoice.branch
    /\ submission[x].invoice.icv = submission[y].invoice.icv
    => x = y

(* Each invoice carries the hash of the one before it, the first one the   *)
(* genesis hash.                                                           *)
Linked ==
  \A x \in Bill : HasInvoice(x) =>
    LET inv == submission[x].invoice
    IN  \/ inv.icv = 1 /\ inv.pih = GenesisPIH
        \/ \E y \in Bill :
             IsNumber(y, inv.branch, inv.icv - 1) /\ submission[y].invoice.hash = inv.pih

(* The chain row points at the last invoice.                               *)
TipIsLast ==
  \A b \in Branch :
    \/ chain[b].lastICV = 0 /\ EffectivePIH(chain[b]) = GenesisPIH
    \/ \E x \in Bill :
         IsNumber(x, b, chain[b].lastICV) /\ submission[x].invoice.hash = EffectivePIH(chain[b])

(* The committed invoices of every branch form one hash chain with the     *)
(* numbers 1..last_icv, whatever bookings were taken over, resumed,        *)
(* released late or committed with a lost answer (Book, Release, Commit).  *)
ChainIntact == Gapless /\ NoNumberTwice /\ Linked /\ TipIsLast

(* The outcome log has one entry for each answered invoice, the recorded   *)
(* outcome, and none for a pending one (Record).                           *)
OneAnswerLogged ==
  \A b \in Bill :
    outcomeLog[b] = IF submission[b].outcome = "pending" THEN << >> ELSE << submission[b].outcome >>

(* A committed invoice never changes, and the first recorded answer stands *)
(* (README section 8: "It never changes afterwards"; Record).              *)
FirstInvoiceAndAnswerStand ==
  [][\A b \in Bill :
       /\ submission[b].invoice # None => submission'[b].invoice = submission[b].invoice
       /\ submission[b].outcome # "pending" => submission'[b] = submission[b]]_submission

(* The chain only ever grows, by one invoice at a time, and a reservation  *)
(* never moves it (Book, Release, Commit).                                 *)
ChainOnlyGrows ==
  [][\A b \in Branch :
       chain'[b].lastICV # chain[b].lastICV =>
         /\ chain'[b].lastICV = chain[b].lastICV + 1
         /\ \E x \in Bill :
              /\ submission[x].invoice = None
              /\ submission'[x].invoice # None
              /\ submission'[x].invoice.pih = EffectivePIH(chain[b])
              /\ EffectivePIH(chain'[b]) = submission'[x].invoice.hash]_<<chain, submission>>
==============================================================================
