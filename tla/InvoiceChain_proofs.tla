------------------------- MODULE InvoiceChain_proofs -------------------------
(***************************************************************************)
(* What the operations of SQLChain preserve, whoever calls them and in     *)
(* whatever order.  A caller is held to one thing only: the hash of an     *)
(* invoice it commits is the hash of the invoice's own contents.           *)
(***************************************************************************)
EXTENDS InvoiceChain, TLAPS

(* The hash of an invoice covers the hash it chains from, its bill and its *)
(* UUID.                                                                   *)
HashesItself(inv) == inv.hash = Append(inv.pih, <<inv.bill, inv.uuid>>)

(* One operation of SQLChain, or the end of a lease.                       *)
ChainNext ==
  \/ \E m \in Message : Book(m)
  \/ \E bk \in Booking : ReleaseBooking(bk)
  \/ \E b \in Branch : ExpireBooking(b)
  \/ \E bk \in Booking, inv \in SignedInvoice : HashesItself(inv) /\ Commit(bk, inv)
  \/ \E x \in Bill, o \in Outcome, e \in Evidence : Record(x, o, e)

ChainStep == ChainNext \/ UNCHANGED chainVars

------------------------------------------------------------------------------
(* The genesis hash is a hash, and so is what a branch chains from.        *)
LEMMA GenesisIsHash == GenesisPIH \in Hash
  BY DEF GenesisPIH, Hash

(* The hash a branch chains from is a hash.                                *)
LEMMA EffectivePIHType ==
  ASSUME NEW row \in ChainRow
  PROVE  EffectivePIH(row) \in Hash
  BY GenesisIsHash DEF EffectivePIH, ChainRow

(* The initial database is well typed.                                     *)
LEMMA ChainInitType == ChainInit => ChainTypeOK
  BY ChainAssumption
     DEF ChainInit, ChainTypeOK, ChainRow, SubmissionRow, BillRow, NoSubmission, Lease, Outcome

(* A booking is well typed.                                                *)
LEMMA BookingType ==
  ASSUME ChainTypeOK, NEW m \in Message
  PROVE  BookingOf(m) \in Booking
<1>1. m.branch \in Branch /\ m.request \in Request /\ m.event \in Event /\ m.uuid \in UUID
  BY MessageAssumption DEF Envelope
<1>2. chain[m.branch] \in ChainRow
  BY <1>1 DEF ChainTypeOK
<1>3. chain[m.branch].lastICV + 1 \in Nat
  BY <1>2 DEF ChainRow
<1> QED
  BY <1>1, <1>2, <1>3, EffectivePIHType DEF BookingOf, Booking

(* Every operation keeps the types of the tables.                          *)
LEMMA ChainTypeStep == ChainTypeOK /\ ChainStep => ChainTypeOK'
<1> SUFFICES ASSUME ChainTypeOK, ChainStep PROVE ChainTypeOK'
  OBVIOUS
<1>1. ASSUME NEW m \in Message, Book(m) PROVE ChainTypeOK'
  <2>1. m.branch \in Branch /\ m.request \in Request /\ m.event \in Event
    BY MessageAssumption DEF Envelope
  <2> DEFINE row == [lastICV |-> chain[m.branch].lastICV, previous |-> chain[m.branch].previous,
                     ownerKey |-> m.request, ownerToken |-> m.event,
                     reservedICV |-> chain[m.branch].lastICV + 1, lease |-> "live"]
  <2>2. chain[m.branch] \in ChainRow
    BY <2>1 DEF ChainTypeOK
  <2>3. row \in ChainRow
    BY <2>1, <2>2 DEF ChainRow, Lease
  <2>4. chain' = [chain EXCEPT ![m.branch] = row]
    BY <1>1, <2>1 DEF Book
  <2> HIDE DEF row
  <2> QED
    BY <1>1, <2>3, <2>4 DEF Book, ChainTypeOK
<1>2. ASSUME NEW bk \in Booking, ReleaseBooking(bk) PROVE ChainTypeOK'
  <2>1. ASSUME NEW row \in ChainRow PROVE ClearReservation(row) \in ChainRow
    BY DEF ClearReservation, ChainRow, Lease
  <2>2. bk.branch \in Branch
    BY DEF Booking
  <2> QED
    BY <1>2, <2>1, <2>2 DEF ReleaseBooking, ChainTypeOK
<1>3. ASSUME NEW b \in Branch, ExpireBooking(b) PROVE ChainTypeOK'
  <2>1. [chain[b] EXCEPT !.lease = "expired"] \in ChainRow
    BY DEF ChainTypeOK, ChainRow, Lease
  <2> QED
    BY <1>3, <2>1 DEF ExpireBooking, ChainTypeOK
<1>4. ASSUME NEW bk \in Booking, NEW inv \in SignedInvoice, Commit(bk, inv) PROVE ChainTypeOK'
  <2>1. inv.bill \in Bill /\ inv.uuid \in UUID /\ inv.icv \in Nat /\ inv.hash \in Hash
    BY DEF SignedInvoice
  <2>2. chain' \in [Branch -> ChainRow]
    BY <1>4, <2>1 DEF Commit, ChainTypeOK, ChainRow, Lease
  <2>3. submission' \in [Bill -> SubmissionRow]
    BY <1>4 DEF Commit, ChainTypeOK, SubmissionRow
  <2>4. bill' \in [Bill -> BillRow]
    BY <1>4, <2>1 DEF Commit, ChainTypeOK, BillRow
  <2> QED
    BY <1>4, <2>2, <2>3, <2>4 DEF Commit, ChainTypeOK
<1>5. ASSUME NEW x \in Bill, NEW o \in Outcome, NEW e \in Evidence, Record(x, o, e)
      PROVE  ChainTypeOK'
  <2>1. CASE submission[x].outcome = "pending"
    <3>1. [submission[x] EXCEPT !.outcome = o, !.evidence = e] \in SubmissionRow
      BY DEF ChainTypeOK, SubmissionRow
    <3>2. submission' = [submission EXCEPT ![x] = [submission[x] EXCEPT !.outcome = o, !.evidence = e]]
      BY <1>5, <2>1, Zenon DEF Record
    <3>3. [bill[x] EXCEPT !.state = 3] \in BillRow
      BY DEF ChainTypeOK, BillRow
    <3>4. bill' \in {bill, [bill EXCEPT ![x] = [bill[x] EXCEPT !.state = 3]]}
      BY <1>5, <2>1, Zenon DEF Record
    <3>5. outcomeLog' = [outcomeLog EXCEPT ![x] = Append(outcomeLog[x], o)] /\ chain' = chain
      BY <1>5, <2>1, Zenon DEF Record
    <3>6. Append(outcomeLog[x], o) \in Seq(Outcome)
      BY DEF ChainTypeOK
    <3> QED
      BY <3>1, <3>2, <3>3, <3>4, <3>5, <3>6 DEF ChainTypeOK
  <2>2. CASE submission[x].outcome # "pending"
    BY <1>5, <2>2 DEF Record, ChainTypeOK
  <2> QED
    BY <2>1, <2>2
<1>6. ASSUME UNCHANGED chainVars PROVE ChainTypeOK'
  BY <1>6 DEF chainVars, ChainTypeOK
<1> QED
  BY <1>1, <1>2, <1>3, <1>4, <1>5, <1>6 DEF ChainStep, ChainNext

------------------------------------------------------------------------------
(* The chain of every branch and the invoice of every bill stay as they    *)
(* are.                                                                    *)
SameInvoices ==
  /\ \A b \in Branch : /\ chain'[b].lastICV = chain[b].lastICV
                       /\ EffectivePIH(chain'[b]) = EffectivePIH(chain[b])
  /\ \A x \in Bill : submission'[x].invoice = submission[x].invoice

(* Only Commit issues an invoice or moves a chain: Book, Release, Record   *)
(* and the end of a lease do not.                                          *)
LEMMA OnlyCommitIssues ==
  ASSUME ChainTypeOK, ChainStep
  PROVE  \/ SameInvoices
         \/ \E bk \in Booking, inv \in SignedInvoice : HashesItself(inv) /\ Commit(bk, inv)
<1>1. ASSUME NEW m \in Message, Book(m) PROVE SameInvoices
  <2>1. m.branch \in Branch
    BY MessageAssumption DEF Envelope
  <2> QED
    BY <1>1, <2>1 DEF Book, SameInvoices, ChainTypeOK, EffectivePIH
<1>2. ASSUME NEW bk \in Booking, ReleaseBooking(bk) PROVE SameInvoices
  <2>1. ASSUME NEW row \in ChainRow
        PROVE  /\ ClearReservation(row).lastICV = row.lastICV
               /\ EffectivePIH(ClearReservation(row)) = EffectivePIH(row)
    BY DEF ClearReservation, ChainRow, EffectivePIH
  <2>2. bk.branch \in Branch
    BY DEF Booking
  <2> QED
    BY <1>2, <2>1, <2>2 DEF ReleaseBooking, SameInvoices, ChainTypeOK
<1>3. ASSUME NEW b \in Branch, ExpireBooking(b) PROVE SameInvoices
  BY <1>3 DEF ExpireBooking, SameInvoices, ChainTypeOK, ChainRow, EffectivePIH
<1>4. ASSUME NEW x \in Bill, NEW o \in Outcome, NEW e \in Evidence, Record(x, o, e)
      PROVE  SameInvoices
  <2>1. chain' = chain
    BY <1>4 DEF Record
  <2>2. submission' \in {submission,
                         [submission EXCEPT ![x] = [submission[x] EXCEPT !.outcome = o, !.evidence = e]]}
    BY <1>4, Zenon DEF Record
  <2>3. [submission[x] EXCEPT !.outcome = o, !.evidence = e].invoice = submission[x].invoice
    BY DEF ChainTypeOK, SubmissionRow
  <2>4. \A y \in Bill : submission'[y].invoice = submission[y].invoice
    BY <2>2, <2>3 DEF ChainTypeOK
  <2> QED
    BY <2>1, <2>4 DEF SameInvoices
<1>5. ASSUME UNCHANGED chainVars PROVE SameInvoices
  BY <1>5 DEF chainVars, SameInvoices
<1> QED
  BY <1>1, <1>2, <1>3, <1>4, <1>5 DEF ChainStep, ChainNext

(* What a Commit does to the chain and to the invoices.                    *)
LEMMA CommitEffect ==
  ASSUME ChainTypeOK, NEW bk \in Booking, NEW inv \in SignedInvoice, Commit(bk, inv)
  PROVE  /\ inv.branch \in Branch /\ inv.bill \in Bill
         /\ inv.icv = chain[inv.branch].lastICV + 1
         /\ inv.pih = EffectivePIH(chain[inv.branch])
         /\ submission[inv.bill].invoice = None
         /\ chain'[inv.branch].lastICV = inv.icv
         /\ EffectivePIH(chain'[inv.branch]) = inv.hash
         /\ \A b \in Branch \ {inv.branch} : chain'[b] = chain[b]
         /\ submission'[inv.bill] = [invoice |-> inv, outcome |-> "pending", evidence |-> None]
         /\ \A x \in Bill \ {inv.bill} : submission'[x] = submission[x]
<1>1. inv.branch \in Branch /\ inv.bill \in Bill /\ inv.hash \in Hash
  BY DEF SignedInvoice
<1>2. inv.branch = bk.branch /\ inv.icv = bk.icv /\ inv.pih = bk.pih
  BY DEF Commit, Committable
<1>3. Holds(chain[inv.branch], bk) /\ submission[inv.bill].invoice = None
  BY <1>2 DEF Commit, Committable
<1>4. /\ chain' = [chain EXCEPT ![inv.branch] =
                     [lastICV |-> inv.icv, previous |-> inv.hash, ownerKey |-> None,
                      ownerToken |-> None, reservedICV |-> None, lease |-> "null"]]
      /\ submission' = [submission EXCEPT ![inv.bill] =
                          [invoice |-> inv, outcome |-> "pending", evidence |-> None]]
  BY <1>2 DEF Commit
<1>5. inv.hash # None
  BY <1>1, HashAssumption
<1> QED
  BY <1>1, <1>2, <1>3, <1>4, <1>5 DEF Holds, EffectivePIH, ChainTypeOK

(* The invoices of every branch form one gapless hash chain, and every     *)
(* operation of SQLChain keeps it so.                                      *)
LEMMA ChainInitIntact == ChainInit => ChainIntact
<1> SUFFICES ASSUME ChainInit PROVE ChainIntact
  OBVIOUS
<1>1. \A x \in Bill : ~HasInvoice(x)
  BY DEF ChainInit, NoSubmission, HasInvoice
<1>2. \A b \in Branch : chain[b].lastICV = 0 /\ EffectivePIH(chain[b]) = GenesisPIH
  BY DEF ChainInit, EffectivePIH
<1> QED
  BY <1>1, <1>2 DEF ChainIntact, Gapless, NoNumberTwice, Linked, TipIsLast

(* Every operation of SQLChain keeps the chain intact: only Commit matters, *)
(* and it adds the next number with the hash of the tip.                   *)
LEMMA ChainIntactStep == ChainTypeOK /\ ChainIntact /\ ChainStep => ChainIntact'
<1> SUFFICES ASSUME ChainTypeOK, ChainIntact, ChainStep PROVE ChainIntact'
  OBVIOUS
<1>a. ChainTypeOK'
  BY ChainTypeStep
<1>b. \A b \in Branch : chain[b].lastICV \in Nat
  BY DEF ChainTypeOK, ChainRow
<1>c. \A x \in Bill : HasInvoice(x) => submission[x].invoice \in SignedInvoice
  BY DEF ChainTypeOK, SubmissionRow, HasInvoice
<1>1. CASE SameInvoices
  <2>1. Gapless'
    BY <1>1, <1>c DEF SameInvoices, ChainIntact, Gapless, IsNumber, HasInvoice, SignedInvoice
  <2>2. NoNumberTwice'
    BY <1>1 DEF SameInvoices, ChainIntact, NoNumberTwice, HasInvoice
  <2>3. Linked'
    BY <1>1 DEF SameInvoices, ChainIntact, Linked, IsNumber, HasInvoice
  <2>4. TipIsLast'
    BY <1>1 DEF SameInvoices, ChainIntact, TipIsLast, IsNumber, HasInvoice
  <2> QED
    BY <2>1, <2>2, <2>3, <2>4 DEF ChainIntact
<1>2. ASSUME NEW bk \in Booking, NEW inv \in SignedInvoice, Commit(bk, inv) PROVE ChainIntact'
  <2>1. /\ inv.branch \in Branch /\ inv.bill \in Bill /\ inv.icv \in Nat
        /\ inv.icv = chain[inv.branch].lastICV + 1
        /\ inv.pih = EffectivePIH(chain[inv.branch])
        /\ ~HasInvoice(inv.bill)
        /\ chain'[inv.branch].lastICV = inv.icv
        /\ EffectivePIH(chain'[inv.branch]) = inv.hash
        /\ \A b \in Branch \ {inv.branch} : chain'[b] = chain[b]
        /\ submission'[inv.bill].invoice = inv
        /\ \A x \in Bill \ {inv.bill} : submission'[x] = submission[x]
    <3>1. inv.icv \in Nat
      BY DEF SignedInvoice
    <3>2. submission[inv.bill].invoice = None
      BY <1>2, CommitEffect
    <3>3. submission'[inv.bill] = [invoice |-> inv, outcome |-> "pending", evidence |-> None]
      BY <1>2, CommitEffect
    <3>4. /\ inv.branch \in Branch /\ inv.bill \in Bill
          /\ inv.icv = chain[inv.branch].lastICV + 1
          /\ inv.pih = EffectivePIH(chain[inv.branch])
          /\ chain'[inv.branch].lastICV = inv.icv
          /\ EffectivePIH(chain'[inv.branch]) = inv.hash
          /\ \A b \in Branch \ {inv.branch} : chain'[b] = chain[b]
          /\ \A x \in Bill \ {inv.bill} : submission'[x] = submission[x]
      BY <1>2, CommitEffect
    <3> QED
      BY <3>1, <3>2, <3>3, <3>4 DEF HasInvoice
  <2>2. inv # None
    BY InvoiceAssumption
  \* An invoice that was there keeps its number, and the new one has the next.
  <2>3. \A x \in Bill, b \in Branch, i \in Nat : IsNumber(x, b, i) => IsNumber(x, b, i)' /\ x # inv.bill
    BY <2>1 DEF IsNumber, HasInvoice
  <2>4. IsNumber(inv.bill, inv.branch, inv.icv)'
    BY <2>1, <2>2 DEF IsNumber, HasInvoice
  <2>5. Gapless'
    <3>1. ASSUME NEW b \in Branch, NEW i \in 1..(chain'[b].lastICV)
          PROVE  \E x \in Bill : IsNumber(x, b, i)'
      <4>1. CASE i \in 1..chain[b].lastICV
        BY <4>1, <2>3 DEF ChainIntact, Gapless
      <4>2. CASE i \notin 1..chain[b].lastICV
        <5>1. b = inv.branch /\ i = inv.icv
          BY <4>2, <2>1, <1>b
        <5> QED
          BY <5>1, <2>1, <2>4
      <4> QED
        BY <4>1, <4>2
    <3>2. ASSUME NEW x \in Bill, HasInvoice(x)'
          PROVE  submission'[x].invoice.icv \in 1..(chain'[submission'[x].invoice.branch].lastICV)
      <4>1. CASE x = inv.bill
        BY <4>1, <2>1, <1>b
      <4>2. CASE x # inv.bill
        <5>1. HasInvoice(x) /\ submission'[x] = submission[x]
          BY <4>2, <3>2, <2>1 DEF HasInvoice
        <5>2. submission[x].invoice.icv \in 1..chain[submission[x].invoice.branch].lastICV
              /\ submission[x].invoice.branch \in Branch
          BY <5>1, <1>c DEF ChainIntact, Gapless, SignedInvoice
        <5> QED
          BY <5>1, <5>2, <2>1, <1>b
      <4> QED
        BY <4>1, <4>2
    <3> QED
      BY <3>1, <3>2 DEF Gapless
  <2>6. NoNumberTwice'
    <3>1. ASSUME NEW x \in Bill, HasInvoice(x), submission[x].invoice.branch = inv.branch
          PROVE  submission[x].invoice.icv # inv.icv
      BY <3>1, <2>1, <1>b DEF ChainIntact, Gapless
    <3> QED
      BY <3>1, <2>1 DEF ChainIntact, NoNumberTwice, HasInvoice
  <2>7. Linked'
    <3> SUFFICES ASSUME NEW x \in Bill, HasInvoice(x)'
                 PROVE  \/ /\ submission'[x].invoice.icv = 1
                           /\ submission'[x].invoice.pih = GenesisPIH
                        \/ \E y \in Bill :
                             /\ IsNumber(y, submission[x].invoice.branch,
                                         submission[x].invoice.icv - 1)'
                             /\ submission'[y].invoice.hash = submission'[x].invoice.pih
      BY DEF Linked
    <3>1. CASE x = inv.bill
      <4>1. CASE chain[inv.branch].lastICV = 0 /\ EffectivePIH(chain[inv.branch]) = GenesisPIH
        BY <4>1, <3>1, <2>1
      <4>2. ASSUME NEW y \in Bill, IsNumber(y, inv.branch, chain[inv.branch].lastICV),
                   submission[y].invoice.hash = EffectivePIH(chain[inv.branch])
            PROVE  /\ IsNumber(y, inv.branch, inv.icv - 1)'
                   /\ submission'[y].invoice.hash = inv.pih
        <5>1. inv.icv - 1 = chain[inv.branch].lastICV
          BY <2>1, <1>b
        <5> QED
          BY <5>1, <4>2, <2>1, <2>3, <1>b
      <4> QED
        <5>1. \/ chain[inv.branch].lastICV = 0 /\ EffectivePIH(chain[inv.branch]) = GenesisPIH
              \/ \E y \in Bill : /\ IsNumber(y, inv.branch, chain[inv.branch].lastICV)
                                 /\ submission[y].invoice.hash = EffectivePIH(chain[inv.branch])
          BY <2>1 DEF ChainIntact, TipIsLast
        <5>2. submission'[x].invoice = inv
          BY <3>1, <2>1
        <5> QED
          BY <5>1, <5>2, <4>1, <4>2 DEF IsNumber
    <3>2. CASE x # inv.bill
      <4>1. HasInvoice(x) /\ submission'[x] = submission[x]
        BY <3>2, <2>1 DEF HasInvoice
      <4>2. submission[x].invoice.branch \in Branch /\ submission[x].invoice.icv \in 1..chain[submission[x].invoice.branch].lastICV
        BY <4>1, <1>c DEF ChainIntact, Gapless, SignedInvoice
      <4>3. submission[x].invoice.icv - 1 \in Nat
        BY <4>2, <1>b
      <4> QED
        BY <4>1, <4>2, <4>3, <2>1, <2>3 DEF ChainIntact, Linked
    <3> QED
      BY <3>1, <3>2
  <2>8. TipIsLast'
    <3> SUFFICES ASSUME NEW b \in Branch
                 PROVE  \/ chain'[b].lastICV = 0 /\ EffectivePIH(chain'[b]) = GenesisPIH
                        \/ \E x \in Bill : /\ IsNumber(x, b, chain[b].lastICV)'
                                           /\ submission'[x].invoice.hash = EffectivePIH(chain'[b])
      BY DEF TipIsLast
    <3>1. CASE b = inv.branch
      BY <3>1, <2>1, <2>4
    <3>2. CASE b # inv.branch
      BY <3>2, <2>1, <2>3, <1>b DEF ChainIntact, TipIsLast
    <3> QED
      BY <3>1, <3>2
  <2> QED
    BY <2>5, <2>6, <2>7, <2>8 DEF ChainIntact
<1> QED
  BY <1>1, <1>2, OnlyCommitIssues

------------------------------------------------------------------------------
(* A bill without an invoice has no answer either.                         *)
AnswerNeedsInvoice == \A x \in Bill : submission[x].invoice = None => submission[x].outcome = "pending"

(* The answers: at most one is logged, and it is the stored one.           *)
AnswersOK == AnswerNeedsInvoice /\ OneAnswerLogged

(* An invoice, once committed, and an answer, once recorded, stand.        *)
Stands ==
  \A x \in Bill :
    /\ submission[x].invoice # None => submission'[x].invoice = submission[x].invoice
    /\ submission[x].outcome # "pending" => submission'[x] = submission[x]

(* What a Record does to the answers.                                      *)
LEMMA RecordEffect ==
  ASSUME ChainTypeOK, NEW x \in Bill, NEW o \in Outcome, NEW e \in Evidence, Record(x, o, e)
  PROVE  /\ submission[x].invoice # None
         /\ chain' = chain
         /\ \/ submission[x].outcome # "pending" /\ submission' = submission /\ outcomeLog' = outcomeLog
            \/ /\ submission[x].outcome = "pending"
               /\ submission'[x].invoice = submission[x].invoice
               /\ submission'[x].outcome = o
               /\ outcomeLog'[x] = Append(outcomeLog[x], o)
               /\ \A y \in Bill \ {x} : submission'[y] = submission[y] /\ outcomeLog'[y] = outcomeLog[y]
<1>1. submission[x].invoice # None /\ chain' = chain
  BY DEF Record
<1>2. CASE submission[x].outcome # "pending"
  BY <1>1, <1>2 DEF Record
<1>3. CASE submission[x].outcome = "pending"
  <2>1. /\ submission' = [submission EXCEPT ![x] = [submission[x] EXCEPT !.outcome = o, !.evidence = e]]
        /\ outcomeLog' = [outcomeLog EXCEPT ![x] = Append(outcomeLog[x], o)]
    BY <1>3, Zenon DEF Record
  <2>2. /\ [submission[x] EXCEPT !.outcome = o, !.evidence = e].invoice = submission[x].invoice
        /\ [submission[x] EXCEPT !.outcome = o, !.evidence = e].outcome = o
    BY DEF ChainTypeOK, SubmissionRow
  <2> QED
    BY <1>1, <1>3, <2>1, <2>2 DEF ChainTypeOK
<1> QED
  BY <1>2, <1>3

(* A step that is neither a Commit nor a Record leaves the answers alone.  *)
LEMMA AnswerCases ==
  ASSUME ChainStep
  PROVE  \/ submission' = submission /\ outcomeLog' = outcomeLog
         \/ \E bk \in Booking, inv \in SignedInvoice : HashesItself(inv) /\ Commit(bk, inv)
         \/ \E x \in Bill, o \in Outcome, e \in Evidence : Record(x, o, e)
  BY DEF ChainStep, ChainNext, chainVars, Book, ReleaseBooking, ExpireBooking

(* At first there are no answers and an empty log.                         *)
LEMMA AnswersInit == ChainInit => AnswersOK
  BY DEF ChainInit, NoSubmission, AnswersOK, AnswerNeedsInvoice, OneAnswerLogged

(* Every operation of SQLChain keeps the log equal to the answers, and     *)
(* keeps the invoices and the answers that are there.                      *)
LEMMA AnswersStep == ChainTypeOK /\ AnswersOK /\ ChainStep => AnswersOK' /\ Stands
<1> SUFFICES ASSUME ChainTypeOK, AnswersOK, ChainStep PROVE AnswersOK' /\ Stands
  OBVIOUS
<1>1. CASE submission' = submission /\ outcomeLog' = outcomeLog
  BY <1>1 DEF AnswersOK, AnswerNeedsInvoice, OneAnswerLogged, Stands
<1>2. ASSUME NEW bk \in Booking, NEW inv \in SignedInvoice, Commit(bk, inv)
      PROVE  AnswersOK' /\ Stands
  <2>1. /\ inv.bill \in Bill
        /\ submission[inv.bill].invoice = None
        /\ submission'[inv.bill] = [invoice |-> inv, outcome |-> "pending", evidence |-> None]
        /\ \A x \in Bill \ {inv.bill} : submission'[x] = submission[x]
    BY <1>2, CommitEffect
  <2>2. outcomeLog' = outcomeLog
    BY <1>2 DEF Commit
  <2>3. submission[inv.bill].outcome = "pending" /\ submission'[inv.bill].outcome = "pending"
    BY <2>1 DEF AnswersOK, AnswerNeedsInvoice
  <2>4. AnswerNeedsInvoice'
    BY <2>1, <2>3 DEF AnswersOK, AnswerNeedsInvoice
  <2>5. OneAnswerLogged'
    BY <2>1, <2>2, <2>3 DEF AnswersOK, OneAnswerLogged
  <2>6. Stands
    BY <2>1, <2>3 DEF Stands
  <2> QED
    BY <2>4, <2>5, <2>6 DEF AnswersOK
<1>3. ASSUME NEW x \in Bill, NEW o \in Outcome, NEW e \in Evidence, Record(x, o, e)
      PROVE  AnswersOK' /\ Stands
  <2>1. o # "pending"
    BY DEF Outcome
  <2>2. CASE submission' = submission /\ outcomeLog' = outcomeLog
    BY <2>2 DEF AnswersOK, AnswerNeedsInvoice, OneAnswerLogged, Stands
  <2>3. CASE /\ submission[x].outcome = "pending"
             /\ submission'[x].invoice = submission[x].invoice
             /\ submission'[x].outcome = o
             /\ outcomeLog'[x] = Append(outcomeLog[x], o)
             /\ \A y \in Bill \ {x} : submission'[y] = submission[y] /\ outcomeLog'[y] = outcomeLog[y]
    <3>1. submission[x].invoice # None
      BY <1>3, RecordEffect
    <3>2. outcomeLog'[x] = << o >>
      <4>1. outcomeLog[x] = << >>
        BY <2>3 DEF AnswersOK, OneAnswerLogged
      <4> QED
        BY <2>3, <4>1
    <3>3. AnswerNeedsInvoice'
      BY <2>3, <3>1 DEF AnswersOK, AnswerNeedsInvoice
    <3>4. OneAnswerLogged'
      BY <2>1, <2>3, <3>2 DEF AnswersOK, OneAnswerLogged
    <3>5. Stands
      BY <2>3 DEF Stands
    <3> QED
      BY <3>3, <3>4, <3>5 DEF AnswersOK
  <2> QED
    BY <1>3, <2>2, <2>3, RecordEffect
<1> QED
  BY <1>1, <1>2, <1>3, AnswerCases

(* A chain moves only by the invoice of a bill that had none, which chains *)
(* from the old tip and becomes the new one.                               *)
Grows ==
  \A b \in Branch :
    chain'[b].lastICV # chain[b].lastICV =>
      /\ chain'[b].lastICV = chain[b].lastICV + 1
      /\ \E x \in Bill :
           /\ submission[x].invoice = None
           /\ submission'[x].invoice # None
           /\ submission'[x].invoice.pih = EffectivePIH(chain[b])
           /\ EffectivePIH(chain'[b]) = submission'[x].invoice.hash

(* Every operation of SQLChain that moves a chain is a Commit at its tip.  *)
LEMMA GrowsStep == ChainTypeOK /\ ChainStep => Grows
<1> SUFFICES ASSUME ChainTypeOK, ChainStep PROVE Grows
  OBVIOUS
<1>1. CASE SameInvoices
  BY <1>1 DEF SameInvoices, Grows
<1>2. ASSUME NEW bk \in Booking, NEW inv \in SignedInvoice, Commit(bk, inv) PROVE Grows
  <2>1. inv # None
    BY InvoiceAssumption
  <2>2. submission'[inv.bill].invoice = inv
    <3>1. submission'[inv.bill] = [invoice |-> inv, outcome |-> "pending", evidence |-> None]
      BY <1>2, CommitEffect
    <3> QED
      BY <3>1
  <2>3. /\ inv.bill \in Bill
        /\ inv.icv = chain[inv.branch].lastICV + 1
        /\ inv.pih = EffectivePIH(chain[inv.branch])
        /\ submission[inv.bill].invoice = None
        /\ chain'[inv.branch].lastICV = inv.icv
        /\ EffectivePIH(chain'[inv.branch]) = inv.hash
        /\ \A b \in Branch \ {inv.branch} : chain'[b] = chain[b]
    BY <1>2, CommitEffect
  <2> QED
    BY <2>1, <2>2, <2>3 DEF Grows
<1> QED
  BY <1>1, <1>2, OnlyCommitIssues
==============================================================================
