--------------------------- MODULE Outcome_proofs ---------------------------
(***************************************************************************)
(* Theorems about the classification of ZATCA's answers, for every HTTP    *)
(* status and not only the ones that the run enumerates: a failure that    *)
(* may pass decides no invoice, an answer that cannot be decoded accepts   *)
(* none, and only the endpoint's own status decides.  And about the        *)
(* amounts of an invoice, for any number of lines: lines, VAT subtotals    *)
(* and totals agree.                                                       *)
(*                                                                         *)
(* The argument is by cases on the status and the body.  OInv carries it   *)
(* over the behaviour: what was returned is the outcome of the answer that *)
(* was given, or the amounts of the bill that was given.                   *)
(*                                                                         *)
(* What a loop over the lines computes is shown by induction on its        *)
(* counter: if a statement fails somewhere, it fails at a least place      *)
(* (UpTo), and there the recursive definition of the loop contradicts it.  *)
(***************************************************************************)
EXTENDS PureChecks, WellFoundedInduction, FiniteSetTheorems, TLAPS

Accepted == {"accepted", "accepted_with_warning"}

(* The outcome of a decoded answer.                                        *)
LEMMA DecodedOutcome ==
  ASSUME NEW kind, NEW resp
  PROVE  ResponseOutcome(kind, resp) \in Accepted \cup {"rejected"}
BY DEF ResponseOutcome, Accepted

(* An answer without a body accepts nothing: its zero value has no status. *)
LEMMA EmptyIsRejected ==
  ASSUME NEW kind \in Kind
  PROVE  ResponseOutcome(kind, ZeroResponse) = "rejected"
<1>1. /\ ZeroResponse.clearanceStatus = "" /\ ZeroResponse.reportingStatus = ""
      /\ ZeroResponse.status = ""
  BY DEF ZeroResponse
<1>2. ProviderStatus(kind, ZeroResponse) = ""
  BY <1>1 DEF ProviderStatus
<1>3. ProviderStatus(kind, ZeroResponse) # SuccessStatus(kind)
  BY <1>2 DEF SuccessStatus
<1> QED
  BY <1>3 DEF ResponseOutcome

(* A status outside 200..299 and 400..499, or one that is about the caller *)
(* and not the invoice, is technical, whatever the body says.              *)
LEMMA PassingFailure ==
  ASSUME NEW kind \in Kind, NEW a \in Answer, SaysNothing(a.http)
  PROVE  SubmitOutcome(kind, a) = Technical
<1>1. a.http \in Nat
  BY DEF Answer
<1>2. ~Is2xx(a.http) /\ a.http \notin {AlreadyReported, Conflict} /\ ~IsInvoiceRejection(a.http)
  BY <1>1 DEF SaysNothing, Is2xx, AlreadyReported, Conflict, IsInvoiceRejection, Unauthorized, Forbidden,
              RequestTimeout, TooManyRequests
<1>3. RejectionOutcome(kind, a) = Technical
  BY <1>2 DEF RejectionOutcome
<1> QED
  BY <1>2, <1>3 DEF SubmitOutcome

(* Only a decoded answer accepts an invoice.                               *)
LEMMA AcceptedIsDecoded ==
  ASSUME NEW kind \in Kind, NEW a \in Answer, SubmitOutcome(kind, a) \in Accepted
  PROVE  a.body = "json"
<1> SUFFICES ASSUME a.body # "json" PROVE FALSE
  OBVIOUS
<1>1. a.body \in {"empty", "garbled"}
  BY DEF Answer
<1>2. RejectionOutcome(kind, a) \notin Accepted
  BY DEF RejectionOutcome, Accepted, Technical
<1> QED
  BY <1>1, <1>2, EmptyIsRejected DEF SubmitOutcome, Accepted, Technical

------------------------------------------------------------------------------
(* Answers that agree in what was found wrong and in the status that       *)
(* counts have the same outcome.                                           *)
LEMMA SameStatusSameOutcome ==
  ASSUME NEW kind, NEW a, NEW b, a.http = b.http, a.body = b.body,
         a.resp.errors = b.resp.errors, a.resp.validationErrors = b.resp.validationErrors,
         a.resp.warnings = b.resp.warnings, a.resp.validationWarnings = b.resp.validationWarnings,
         ProviderStatus(kind, a.resp) = ProviderStatus(kind, b.resp)
  PROVE  SubmitOutcome(kind, a) = SubmitOutcome(kind, b)
<1>1. ResponseOutcome(kind, a.resp) = ResponseOutcome(kind, b.resp)
  BY DEF ResponseOutcome
<1>2. RejectionOutcome(kind, a) = RejectionOutcome(kind, b)
  BY <1>1 DEF RejectionOutcome
<1> QED
  BY <1>1, <1>2 DEF SubmitOutcome

(* The other endpoint's status does not count, nor does the legacy one     *)
(* where the endpoint has its own.                                         *)
LEMMA OtherStatusIgnored ==
  ASSUME NEW kind \in Kind, NEW r \in Response, NEW s \in Response,
         kind = "standard" => r.clearanceStatus = s.clearanceStatus,
         kind = "simplified" => r.reportingStatus = s.reportingStatus,
         (IF kind = "standard" THEN r.clearanceStatus ELSE r.reportingStatus) = "" => r.status = s.status
  PROVE  ProviderStatus(kind, r) = ProviderStatus(kind, s)
BY DEF ProviderStatus, Kind

------------------------------------------------------------------------------
SubmitCall == [fn : {"submit"}, kind : Kind, answer : HeardAnswer]

(* What was returned is the outcome of the answer that was given.          *)
OInv ==
  call.fn = "submit" =>
    call \in SubmitCall /\ (result # None => result = SubmitOutcome(call.kind, call.answer))

(* OInv is an invariant of the calls.                                      *)
THEOREM OutcomeInvariance == Spec => []OInv
<1>1. Init => OInv
  <2> SUFFICES ASSUME Init, call.fn = "submit" PROVE OInv
    BY DEF OInv
  <2>1. call \in SubmitCall
    BY DEF Init, SubmitCall
  <2> QED
    BY <2>1 DEF OInv, Init
<1>2. OInv /\ [Next]_checkVars => OInv'
  <2> SUFFICES ASSUME OInv, [Next]_checkVars, call.fn = "submit" PROVE OInv'
    BY DEF OInv, Next, Classify, WriteAmounts, checkVars
  <2> QED
    BY DEF OInv, Next, Classify, WriteAmounts, checkVars
<1> QED
  BY <1>1, <1>2, PTL DEF Spec

(* What is heard is an answer.                                             *)
LEMMA HeardIsAnswer == HeardAnswer \subseteq Answer
BY CallAssumption DEF HeardAnswer, Answer

(* For every HTTP status: one that says nothing about the invoice decides  *)
(* nothing, and only a decoded answer accepts (rejectionOutcome, do).      *)
THEOREM FailuresDecideNothing == Spec => []PassingFailureDecidesNothing
<1>1. OInv => PassingFailureDecidesNothing
  <2> SUFFICES ASSUME OInv, Answered PROVE PassingFailureDecidesNothing
    BY DEF PassingFailureDecidesNothing
  <2>1. /\ call.kind \in Kind /\ call.answer \in Answer
        /\ result = SubmitOutcome(call.kind, call.answer)
    BY HeardIsAnswer DEF OInv, Answered, SubmitCall
  <2>2. SaysNothing(call.answer.http) => result = Technical
    BY <2>1, PassingFailure
  <2>3. result \in Accepted => call.answer.body = "json"
    BY <2>1, AcceptedIsDecoded
  <2> QED
    BY <2>2, <2>3 DEF PassingFailureDecidesNothing, Accepted
<1> QED
  BY <1>1, OutcomeInvariance, PTL

(* For every answer: neither the status of the other endpoint nor, where   *)
(* the endpoint has a status of its own, the legacy one changes the        *)
(* outcome (providerStatus).                                               *)
THEOREM OwnStatusAlwaysDecides == Spec => []OwnStatusDecides
<1>1. OInv => OwnStatusDecides
  <2> SUFFICES ASSUME OInv, Answered PROVE OwnStatusDecides
    BY DEF OwnStatusDecides
  <2> DEFINE kind == call.kind
             a == call.answer
             own == IF kind = "standard" THEN a.resp.clearanceStatus ELSE a.resp.reportingStatus
             other(foreign, legacy) ==
               [a.resp EXCEPT !.clearanceStatus = IF kind = "standard" THEN @ ELSE foreign,
                              !.reportingStatus = IF kind = "simplified" THEN @ ELSE foreign,
                              !.status = IF own = "" THEN @ ELSE legacy]
  <2>1. kind \in Kind /\ a \in Answer /\ result = SubmitOutcome(kind, a)
    BY HeardIsAnswer DEF OInv, Answered, SubmitCall
  <2>2. ASSUME NEW foreign \in Status, NEW legacy \in Status
        PROVE  SubmitOutcome(kind, [a EXCEPT !.resp = other(foreign, legacy)]) = result
    <3> DEFINE r == other(foreign, legacy)
               b == [a EXCEPT !.resp = r]
    <3>1. a.resp \in Response
      BY <2>1 DEF Answer
    <3>2. /\ r \in Response
          /\ r.errors = a.resp.errors /\ r.validationErrors = a.resp.validationErrors
          /\ r.warnings = a.resp.warnings /\ r.validationWarnings = a.resp.validationWarnings
          /\ kind = "standard" => a.resp.clearanceStatus = r.clearanceStatus
          /\ kind = "simplified" => a.resp.reportingStatus = r.reportingStatus
          /\ own = "" => a.resp.status = r.status
      BY <2>2, <3>1 DEF Response
    <3> HIDE DEF r
    <3>3. ProviderStatus(kind, a.resp) = ProviderStatus(kind, r)
      BY <2>1, <3>1, <3>2, OtherStatusIgnored
    <3>4. b.http = a.http /\ b.body = a.body /\ b.resp = r
      BY <2>1 DEF Answer
    <3> HIDE DEF b
    <3>5. SubmitOutcome(kind, a) = SubmitOutcome(kind, b)
      BY <3>2, <3>3, <3>4, SameStatusSameOutcome
    <3> QED
      BY <2>1, <3>5 DEF b, r
  <2> QED
    BY <2>2 DEF OwnStatusDecides
<1> QED
  BY <1>1, OutcomeInvariance, PTL

------------------------------------------------------------------------------
(* roundTo2 is off by at most half a halala, whichever way a float that    *)
(* lies between two halalas falls.                                         *)
LEMMA RoundedWithinHalf ==
  ASSUME NEW v \in Int, NEW below \in BOOLEAN
  PROVE  /\ RoundTo2(v, 10, below) \in Int /\ 10 * RoundTo2(v, 10, below) - v \in (-5)..5
         /\ RoundTo2(v, 100, below) \in Int /\ 100 * RoundTo2(v, 100, below) - v \in (-50)..50
<1> DEFINE e == IF below THEN 1 ELSE 0
<1>1. e \in 0..1
  OBVIOUS
<1> HIDE DEF e
<1>2. /\ (2 * v + 10 - e) \div 20 \in Int /\ 10 * ((2 * v + 10 - e) \div 20) - v \in (-5)..5
  BY <1>1
<1>3. /\ (2 * v + 100 - e) \div 200 \in Int /\ 100 * ((2 * v + 100 - e) \div 200) - v \in (-50)..50
  BY <1>1
<1> QED
  BY <1>2, <1>3 DEF RoundTo2, e

(* The amounts and the rate of a line are integers, NULL columns included. *)
LEMMA LineAmounts ==
  ASSUME NEW p \in ProductRow
  PROVE  /\ QuantityOrZero(p) \in Int /\ PriceOrZero(p) \in Int /\ VATOrZero(p) \in Int
         /\ p.netBelow \in BOOLEAN /\ p.taxBelow \in BOOLEAN
         /\ NetAmount(p) \in Int /\ TaxAmount(p) \in Int
<1>1. /\ p.quantity \in Quantity \cup {None} /\ p.price \in Price \cup {None} /\ p.vat \in VAT \cup {None}
      /\ p.netBelow \in BOOLEAN /\ p.taxBelow \in BOOLEAN
  BY DEF ProductRow
<1>2. /\ p.quantity # None => p.quantity \in Int
      /\ p.price # None => p.price \in Int
      /\ p.vat # None => p.vat \in Int
  BY <1>1, CallAssumption
<1>3. QuantityOrZero(p) \in Int /\ PriceOrZero(p) \in Int /\ VATOrZero(p) \in Int
  BY <1>2 DEF QuantityOrZero, PriceOrZero, VATOrZero
<1>4. QuantityOrZero(p) * PriceOrZero(p) \in Int
  BY <1>3
<1>5. NetAmount(p) \in Int
  BY <1>1, <1>4, RoundedWithinHalf DEF NetAmount
<1>6. NetAmount(p) * VATOrZero(p) \in Int
  BY <1>3, <1>5
<1>7. TaxAmount(p) \in Int
  BY <1>1, <1>6, RoundedWithinHalf DEF TaxAmount
<1> QED
  BY <1>1, <1>3, <1>5, <1>7

(* The VAT of every line is its rate of the line's rounded net amount, to  *)
(* half a halala, for all quantities, prices and rates (TaxAmount).        *)
THEOREM LineVATWithinRounding ==
  ASSUME NEW p \in ProductRow
  PROVE  100 * TaxAmount(p) - VATOrZero(p) * NetAmount(p) \in (-50)..50
<1>1. VATOrZero(p) \in Int /\ NetAmount(p) \in Int /\ p.taxBelow \in BOOLEAN
  BY LineAmounts
<1>2. NetAmount(p) * VATOrZero(p) \in Int /\ NetAmount(p) * VATOrZero(p) = VATOrZero(p) * NetAmount(p)
  BY <1>1
<1>3. 100 * TaxAmount(p) - NetAmount(p) * VATOrZero(p) \in (-50)..50
  BY <1>1, <1>2, RoundedWithinHalf DEF TaxAmount
<1> QED
  BY <1>2, <1>3

------------------------------------------------------------------------------
(* A nonempty set of naturals has a least element: the order of the        *)
(* naturals is well-founded.                                               *)
LEMMA NatMin ==
  ASSUME NEW T \in SUBSET Nat, T # {}
  PROVE  \E x \in T : \A y \in T : x <= y
<1> DEFINE R == {p \in Nat \X Nat : p[1] < p[2]}
<1>1. IsWellFoundedOn(R, Nat)
  BY NatLessThanWellFounded DEF OpToRel
<1>2. PICK x \in T : \A y \in T : <<y, x>> \notin R
  BY <1>1, WFMin
<1>3. \A y \in T : ~(y < x)
  BY <1>2
<1> QED
  BY <1>3

(* Induction up to n over a set: the least number outside the set would    *)
(* contradict the step.                                                    *)
LEMMA UpTo ==
  ASSUME NEW n \in Nat, NEW T, 0 \in T, \A i \in 0..(n - 1) : i \in T => i + 1 \in T
  PROVE  \A i \in 0..n : i \in T
<1> DEFINE Missed == {i \in 0..n : i \notin T}
<1> SUFFICES ASSUME Missed # {} PROVE FALSE
  OBVIOUS
<1>1. Missed \in SUBSET Nat
  OBVIOUS
<1> HIDE DEF Missed
<1>2. PICK x \in Missed : \A y \in Missed : x <= y
  BY <1>1, NatMin
<1>3. x \in 0..n /\ x \notin T
  BY <1>2 DEF Missed
<1>4. x - 1 \in 0..(n - 1)
  BY <1>3
<1>5. x - 1 \in T
  BY <1>2, <1>4 DEF Missed
<1> QED
  BY <1>3, <1>4, <1>5

(* What the recursion of Sum defines: f[i] is the sum after i turns of the *)
(* loop.                                                                   *)
Adds(f, s, n) == f = [i \in 0..n |-> IF i = 0 THEN 0 ELSE f[i - 1] + s[i]]

(* The loop of Sum has a result after every turn.                          *)
LEMMA RunningExists ==
  ASSUME NEW n \in Nat, NEW s
  PROVE  \E f : Adds(f, s, n)
<1> DEFINE T == {m \in 0..n : \E f : Adds(f, s, m)}
<1>1. 0 \in T
  <2>1. Adds([i \in 0..0 |-> 0], s, 0)
    BY DEF Adds
  <2> QED
    BY <2>1
<1>2. ASSUME NEW m \in 0..(n - 1), m \in T PROVE m + 1 \in T
  <2>1. PICK f : Adds(f, s, m)
    BY <1>2
  <2> DEFINE g == [i \in 0..(m + 1) |-> IF i = m + 1 THEN f[m] + s[m + 1] ELSE f[i]]
  <2>2. ASSUME NEW i \in 0..(m + 1) PROVE g[i] = IF i = 0 THEN 0 ELSE g[i - 1] + s[i]
    <3>1. CASE i = m + 1
      BY <3>1
    <3>2. CASE i # m + 1
      <4>1. i \in 0..m
        BY <3>2
      <4>2. f[i] = IF i = 0 THEN 0 ELSE f[i - 1] + s[i]
        BY <2>1, <4>1 DEF Adds
      <4>3. i # 0 => i - 1 \in 0..(m + 1) /\ i - 1 # m + 1
        BY <4>1
      <4> QED
        BY <3>2, <4>2, <4>3
    <3> QED
      BY <3>1, <3>2
  <2>3. Adds(g, s, m + 1)
    BY <2>2 DEF Adds
  <2> QED
    BY <2>3
<1> HIDE DEF T
<1>3. \A i \in 0..n : i \in T
  BY <1>1, <1>2, UpTo
<1> QED
  BY <1>3 DEF T

(* The running sums of s, as the proofs use them.                          *)
IsRunning(f, s, n) ==
  /\ f \in [0..n -> Int] /\ f[0] = 0
  /\ \A i \in 1..n : f[i] = f[i - 1] + s[i]

(* Sum of a sequence of integers is the last of its running sums.          *)
LEMMA SumIs ==
  ASSUME NEW n \in Nat, NEW s \in [1..n -> Int]
  PROVE  \E f : IsRunning(f, s, n) /\ Sum(s) = f[n]
<1>1. Len(s) = n
  OBVIOUS
<1>2. \E f : Adds(f, s, n)
  BY RunningExists
<1>3. PICK f : Adds(f, s, n) /\ Sum(s) = f[n]
  BY <1>1, <1>2 DEF Sum, Adds
<1> DEFINE T == {i \in 0..n : f[i] \in Int}
<1>4. 0 \in T
  BY <1>3 DEF Adds
<1>5. ASSUME NEW i \in 0..(n - 1), i \in T PROVE i + 1 \in T
  BY <1>3, <1>5 DEF Adds
<1> HIDE DEF T
<1>6. \A i \in 0..n : i \in T
  BY <1>4, <1>5, UpTo
<1>7. f \in [0..n -> Int]
  BY <1>3, <1>6 DEF T, Adds
<1>8. IsRunning(f, s, n)
  BY <1>3, <1>7 DEF Adds, IsRunning
<1> QED
  BY <1>3, <1>8

(* A sum of integers is one.                                               *)
LEMMA SumInt ==
  ASSUME NEW n \in Nat, NEW s \in [1..n -> Int]
  PROVE  Sum(s) \in Int
<1>1. PICK f : IsRunning(f, s, n) /\ Sum(s) = f[n]
  BY SumIs
<1> QED
  BY <1>1 DEF IsRunning

(* Whatever satisfies the recurrence of the loop ends with its sum.        *)
LEMMA RunningSum ==
  ASSUME NEW n \in Nat, NEW s \in [1..n -> Int], NEW g, IsRunning(g, s, n)
  PROVE  Sum(s) = g[n]
<1>1. PICK f : IsRunning(f, s, n) /\ Sum(s) = f[n]
  BY SumIs
<1> DEFINE T == {i \in 0..n : f[i] = g[i]}
<1>2. 0 \in T
  BY <1>1 DEF IsRunning
<1>3. ASSUME NEW i \in 0..(n - 1), i \in T PROVE i + 1 \in T
  BY <1>1, <1>3 DEF IsRunning
<1> HIDE DEF T
<1>4. \A i \in 0..n : i \in T
  BY <1>2, <1>3, UpTo
<1> QED
  BY <1>1, <1>4 DEF T

(* Two loops that add up the same lines can be run as one: what one step   *)
(* adds is added to both.                                                  *)
LEMMA SumAdds ==
  ASSUME NEW n \in Nat, NEW s \in [1..n -> Int], NEW t \in [1..n -> Int]
  PROVE  Sum([i \in 1..n |-> s[i] + t[i]]) = Sum(s) + Sum(t)
<1> DEFINE u == [i \in 1..n |-> s[i] + t[i]]
<1>1. PICK f : IsRunning(f, s, n) /\ Sum(s) = f[n]
  BY SumIs
<1>2. PICK g : IsRunning(g, t, n) /\ Sum(t) = g[n]
  BY SumIs
<1> DEFINE h == [i \in 0..n |-> f[i] + g[i]]
<1>3. u \in [1..n -> Int]
  OBVIOUS
<1>4. IsRunning(h, u, n)
  <2>1. h \in [0..n -> Int] /\ h[0] = 0
    BY <1>1, <1>2 DEF IsRunning
  <2>2. ASSUME NEW i \in 1..n PROVE h[i] = h[i - 1] + u[i]
    <3>1. i \in 0..n /\ i - 1 \in 0..n
      OBVIOUS
    <3>2. f[i] = f[i - 1] + s[i] /\ g[i] = g[i - 1] + t[i] /\ f[i - 1] \in Int /\ g[i - 1] \in Int
      BY <1>1, <1>2, <3>1 DEF IsRunning
    <3> QED
      BY <3>1, <3>2
  <2> QED
    BY <2>1, <2>2 DEF IsRunning
<1>5. h[n] = Sum(s) + Sum(t)
  BY <1>1, <1>2
<1> HIDE DEF h, u
<1>6. Sum(u) = h[n]
  BY <1>3, <1>4, RunningSum
<1> QED
  BY <1>5, <1>6 DEF u

(* Adding nothing at every turn gives nothing.                             *)
LEMMA SumOfZeros ==
  ASSUME NEW n \in Nat, NEW s \in [1..n -> {0}]
  PROVE  Sum(s) = 0
<1> DEFINE h == [i \in 0..n |-> 0]
<1>1. IsRunning(h, s, n) /\ s \in [1..n -> Int] /\ h[n] = 0
  BY DEF IsRunning
<1> HIDE DEF h
<1> QED
  BY <1>1, RunningSum

(* One turn of the loop of taxGroups: a rate that is not yet a key becomes *)
(* one, at the end.                                                        *)
Extended(keys, rate) ==
  IF \E k \in DOMAIN keys : keys[k] = rate THEN keys ELSE Append(keys, rate)

(* The keys after each turn of that loop.                                  *)
Collects(f, products, n) ==
  f = [i \in 0..n |-> IF i = 0 THEN <<>> ELSE Extended(f[i - 1], VATOrZero(products[i]))]

(* The loop of taxGroups has a result after every turn.                    *)
LEMMA CollectedExists ==
  ASSUME NEW n \in Nat, NEW products
  PROVE  \E f : Collects(f, products, n)
<1> DEFINE T == {m \in 0..n : \E f : Collects(f, products, m)}
<1>1. 0 \in T
  <2>1. Collects([i \in 0..0 |-> <<>>], products, 0)
    BY DEF Collects
  <2> QED
    BY <2>1
<1>2. ASSUME NEW m \in 0..(n - 1), m \in T PROVE m + 1 \in T
  <2>1. PICK f : Collects(f, products, m)
    BY <1>2
  <2> DEFINE last == Extended(f[m], VATOrZero(products[m + 1]))
             g == [i \in 0..(m + 1) |-> IF i = m + 1 THEN last ELSE f[i]]
  <2>2. ASSUME NEW i \in 0..(m + 1)
        PROVE  g[i] = IF i = 0 THEN <<>> ELSE Extended(g[i - 1], VATOrZero(products[i]))
    <3>1. CASE i = m + 1
      BY <3>1
    <3>2. CASE i # m + 1
      <4>1. i \in 0..m
        BY <3>2
      <4>2. f[i] = IF i = 0 THEN <<>> ELSE Extended(f[i - 1], VATOrZero(products[i]))
        BY <2>1, <4>1 DEF Collects
      <4>3. i # 0 => i - 1 \in 0..(m + 1) /\ i - 1 # m + 1
        BY <4>1
      <4> QED
        BY <3>2, <4>2, <4>3
    <3> QED
      BY <3>1, <3>2
  <2>3. Collects(g, products, m + 1)
    BY <2>2 DEF Collects
  <2> QED
    BY <2>3
<1> HIDE DEF T
<1>3. \A i \in 0..n : i \in T
  BY <1>1, <1>2, UpTo
<1> QED
  BY <1>3 DEF T

(* No key is there twice.                                                  *)
EachOnce(keys) == \A j, k \in DOMAIN keys : keys[j] = keys[k] => j = k

(* One turn keeps the keys that there are, has the rate of the line among  *)
(* them afterwards and repeats none.                                       *)
LEMMA ExtendedOnce ==
  ASSUME NEW keys \in Seq(Int), EachOnce(keys), NEW rate \in Int
  PROVE  /\ Extended(keys, rate) \in Seq(Int) /\ EachOnce(Extended(keys, rate))
         /\ \E k \in DOMAIN Extended(keys, rate) : Extended(keys, rate)[k] = rate
         /\ \A k \in DOMAIN keys : k \in DOMAIN Extended(keys, rate) /\ Extended(keys, rate)[k] = keys[k]
<1>1. CASE \E k \in DOMAIN keys : keys[k] = rate
  BY <1>1 DEF Extended
<1>2. CASE ~\E k \in DOMAIN keys : keys[k] = rate
  <2> DEFINE more == Append(keys, rate)
             n == Len(keys)
  <2>1. /\ more \in Seq(Int) /\ DOMAIN keys = 1..n /\ DOMAIN more = 1..(n + 1) /\ n \in Nat
        /\ \A k \in 1..n : more[k] = keys[k]
        /\ more[n + 1] = rate
    OBVIOUS
  <2>2. Extended(keys, rate) = more
    BY <1>2 DEF Extended
  <2> HIDE DEF more, n
  <2>3. EachOnce(more)
    <3> SUFFICES ASSUME NEW j \in 1..(n + 1), NEW k \in 1..(n + 1), more[j] = more[k] PROVE j = k
      BY <2>1 DEF EachOnce
    <3>1. CASE j \in 1..n /\ k \in 1..n
      BY <2>1, <3>1 DEF EachOnce
    <3>2. CASE j = n + 1 /\ k = n + 1
      BY <3>2
    <3>3. CASE j \in 1..n /\ k = n + 1
      BY <1>2, <2>1, <3>3
    <3>4. CASE j = n + 1 /\ k \in 1..n
      BY <1>2, <2>1, <3>4
    <3> QED
      BY <2>1, <3>1, <3>2, <3>3, <3>4
  <2>4. n + 1 \in DOMAIN more /\ \A k \in DOMAIN keys : k \in DOMAIN more
    BY <2>1
  <2> QED
    BY <2>1, <2>2, <2>3, <2>4
<1> QED
  BY <1>1, <1>2

(* The keys of taxGroups are the rates of the lines: every rate of a line  *)
(* is a key, and no key appears twice.                                     *)
LEMMA RatesAre ==
  ASSUME NEW n \in Nat, NEW products, Len(products) = n,
         \A i \in 1..n : VATOrZero(products[i]) \in Int
  PROVE  /\ Rates(products) \in Seq(Int) /\ EachOnce(Rates(products))
         /\ \A i \in 1..n : \E k \in DOMAIN Rates(products) : Rates(products)[k] = VATOrZero(products[i])
<1>1. \E f : Collects(f, products, n)
  BY CollectedExists
<1>2. PICK f : Collects(f, products, n) /\ Rates(products) = f[n]
  BY <1>1 DEF Rates, Collects, Extended
<1> DEFINE q(i) == VATOrZero(products[i])
           T == {i \in 0..n : /\ f[i] \in Seq(Int) /\ EachOnce(f[i])
                              /\ \A l \in 1..i : \E k \in DOMAIN f[i] : f[i][k] = q(l)}
<1>3. 0 \in T
  BY <1>2 DEF Collects, EachOnce
<1>4. ASSUME NEW i \in 0..(n - 1), i \in T PROVE i + 1 \in T
  <2>1. i + 1 \in 0..n /\ i + 1 # 0 /\ (i + 1) - 1 = i /\ i + 1 \in 1..n /\ q(i + 1) \in Int
    OBVIOUS
  <2>2. f[i + 1] = Extended(f[i], q(i + 1))
    BY <1>2, <2>1 DEF Collects
  <2>3. f[i] \in Seq(Int) /\ EachOnce(f[i]) /\ \A l \in 1..i : \E k \in DOMAIN f[i] : f[i][k] = q(l)
    BY <1>4
  <2>4. /\ f[i + 1] \in Seq(Int) /\ EachOnce(f[i + 1])
        /\ \E k \in DOMAIN f[i + 1] : f[i + 1][k] = q(i + 1)
        /\ \A k \in DOMAIN f[i] : k \in DOMAIN f[i + 1] /\ f[i + 1][k] = f[i][k]
    <3> DEFINE keys == f[i]
               rate == q(i + 1)
    <3>1. keys \in Seq(Int) /\ EachOnce(keys) /\ rate \in Int
      BY <2>1, <2>3
    <3> HIDE DEF keys, rate, T
    <3>2. /\ Extended(keys, rate) \in Seq(Int) /\ EachOnce(Extended(keys, rate))
          /\ \E k \in DOMAIN Extended(keys, rate) : Extended(keys, rate)[k] = rate
          /\ \A k \in DOMAIN keys : k \in DOMAIN Extended(keys, rate) /\ Extended(keys, rate)[k] = keys[k]
      BY <3>1, ExtendedOnce
    <3> QED
      BY <2>2, <3>2 DEF keys, rate
  <2>5. ASSUME NEW l \in 1..(i + 1) PROVE \E k \in DOMAIN f[i + 1] : f[i + 1][k] = q(l)
    <3>1. CASE l = i + 1
      BY <2>4, <3>1
    <3>2. CASE l \in 1..i
      BY <2>3, <2>4, <3>2
    <3> QED
      BY <3>1, <3>2
  <2> QED
    BY <2>1, <2>4, <2>5
<1> HIDE DEF T
<1>5. \A i \in 0..n : i \in T
  BY <1>3, <1>4, UpTo
<1> QED
  BY <1>2, <1>5 DEF T

(* The amounts of the lines of one rate.                                   *)
Masked(t, q, n, rate) == [i \in 1..n |-> IF q[i] = rate THEN t[i] ELSE 0]

(* The amounts of the lines whose rate is one of the first k keys.         *)
OfFirst(t, q, n, keys, k) ==
  [i \in 1..n |-> IF \E j \in 1..k : keys[j] = q[i] THEN t[i] ELSE 0]

(* The subtotal of every key.                                              *)
Subtotals(t, q, n, keys, m) == [k \in 1..m |-> Sum(Masked(t, q, n, keys[k]))]

(* The rate of every line is one of the keys.                              *)
Covers(keys, m, q, n) == \A i \in 1..n : \E k \in 1..m : keys[k] = q[i]

(* The m keys are the rates q of n lines, each once.                       *)
Keyed(n, q, m, keys) ==
  /\ n \in Nat /\ q \in [1..n -> Int] /\ m \in Nat /\ keys \in [1..m -> Int]
  /\ EachOnce(keys) /\ Covers(keys, m, q, n)

(* The subtotals of the rates add up to the total over the lines: by       *)
(* induction on the keys, since each line belongs to exactly one of them.  *)
LEMMA SubtotalsAddUp ==
  ASSUME NEW n, NEW q, NEW m, NEW keys, Keyed(n, q, m, keys), NEW t \in [1..n -> Int]
  PROVE  Sum(Subtotals(t, q, n, keys, m)) = Sum(t)
<1>k. /\ n \in Nat /\ q \in [1..n -> Int] /\ m \in Nat /\ keys \in [1..m -> Int]
      /\ EachOnce(keys) /\ Covers(keys, m, q, n)
  BY DEF Keyed
<1> USE <1>k
<1> DEFINE s == [k \in 1..m |-> Sum(Masked(t, q, n, keys[k]))]
           h == [k \in 0..m |-> Sum(OfFirst(t, q, n, keys, k))]
<1>1. ASSUME NEW rate PROVE Masked(t, q, n, rate) \in [1..n -> Int]
  BY DEF Masked
<1>2. ASSUME NEW k PROVE OfFirst(t, q, n, keys, k) \in [1..n -> Int]
  BY DEF OfFirst
<1>3. s \in [1..m -> Int] /\ h \in [0..m -> Int]
  BY <1>1, <1>2, SumInt
<1>4. h[0] = 0
  <2>1. OfFirst(t, q, n, keys, 0) \in [1..n -> {0}]
    BY DEF OfFirst
  <2> QED
    BY <2>1, SumOfZeros
<1>5. ASSUME NEW k \in 1..m PROVE h[k] = h[k - 1] + s[k]
  <2> DEFINE a == OfFirst(t, q, n, keys, k - 1)
             b == Masked(t, q, n, keys[k])
             c == OfFirst(t, q, n, keys, k)
  <2>1. a \in [1..n -> Int] /\ b \in [1..n -> Int]
    BY <1>1, <1>2
  <2>2. ASSUME NEW i \in 1..n PROVE c[i] = a[i] + b[i]
    <3>1. CASE q[i] = keys[k]
      <4>1. ~\E j \in 1..(k - 1) : keys[j] = q[i]
        BY <3>1 DEF EachOnce
      <4>2. \E j \in 1..k : keys[j] = q[i]
        BY <3>1
      <4> QED
        BY <3>1, <4>1, <4>2 DEF OfFirst, Masked
    <3>2. CASE q[i] # keys[k]
      <4>1. \A j \in 1..k : j \in 1..(k - 1) \/ j = k
        OBVIOUS
      <4>2. 1..(k - 1) \subseteq 1..k
        OBVIOUS
      <4>3. (\E j \in 1..(k - 1) : keys[j] = q[i]) <=> (\E j \in 1..k : keys[j] = q[i])
        BY <3>2, <4>1, <4>2
      <4> QED
        <5>1. c[i] = a[i]
          BY <4>3 DEF OfFirst
        <5>2. b[i] = 0 /\ a[i] \in Int
          BY <2>1, <3>2 DEF Masked
        <5> QED
          BY <5>1, <5>2
    <3> QED
      BY <3>1, <3>2
  <2>3. c = [i \in 1..n |-> c[i]]
    BY DEF OfFirst
  <2>4. k \in 0..m /\ k - 1 \in 0..m
    OBVIOUS
  <2>5. h[k] = Sum(c) /\ h[k - 1] = Sum(a) /\ s[k] = Sum(b)
    BY <2>4
  <2> HIDE DEF a, b, c, h, s
  <2>6. c = [i \in 1..n |-> a[i] + b[i]]
    BY <2>2, <2>3
  <2>7. Sum([i \in 1..n |-> a[i] + b[i]]) = Sum(a) + Sum(b)
    BY <2>1, SumAdds
  <2> QED
    BY <2>5, <2>6, <2>7
<1>6. h[m] = Sum(t)
  <2>1. OfFirst(t, q, n, keys, m) = t
    BY DEF OfFirst, Covers
  <2> QED
    BY <2>1
<1> HIDE DEF h, s
<1>7. IsRunning(h, s, m)
  BY <1>3, <1>4, <1>5 DEF IsRunning
<1>8. Sum(s) = h[m]
  BY <1>3, <1>7, RunningSum
<1> QED
  BY <1>6, <1>8 DEF s, Subtotals

(* The lines of a rate among the first k.                                  *)
Count(q, rate, k) == Cardinality({i \in 1..k : q[i] = rate})

(* A line counts for its own rate, and for no other.                       *)
LEMMA CountGrows ==
  ASSUME NEW q, NEW rate, NEW k \in Nat
  PROVE  /\ Count(q, rate, k) \in Nat
         /\ Count(q, rate, k + 1) = Count(q, rate, k) + (IF q[k + 1] = rate THEN 1 ELSE 0)
<1> DEFINE before == {i \in 1..k : q[i] = rate}
           after == {i \in 1..(k + 1) : q[i] = rate}
<1>1. IsFiniteSet(before)
  <2>1. IsFiniteSet(1..k) /\ before \subseteq 1..k
    BY FS_Interval
  <2> HIDE DEF before
  <2> QED
    BY <2>1, FS_Subset
<1>2. k + 1 \notin before
  OBVIOUS
<1>3. after = IF q[k + 1] = rate THEN before \cup {k + 1} ELSE before
  <2>1. 1..(k + 1) = (1..k) \cup {k + 1}
    OBVIOUS
  <2> QED
    BY <2>1
<1> HIDE DEF before, after
<1>4. Cardinality(before) \in Nat
  BY <1>1, FS_CardinalityType
<1>5. Cardinality(before \cup {k + 1}) = Cardinality(before) + 1
  BY <1>1, <1>2, FS_AddElement
<1>6. Cardinality(after) = Cardinality(before) + (IF q[k + 1] = rate THEN 1 ELSE 0)
  BY <1>3, <1>4, <1>5
<1> QED
  BY <1>4, <1>6 DEF before, after, Count

(* If each line's VAT is off by at most half a halala, a subtotal's is off *)
(* by at most half a halala for each of its lines: by induction on the     *)
(* lines.                                                                  *)
LEMMA SubtotalWithinRounding ==
  ASSUME NEW n \in Nat, NEW q \in [1..n -> Int], NEW t \in [1..n -> Int], NEW u \in [1..n -> Int],
         NEW rate \in Int, \A i \in 1..n : 100 * t[i] - q[i] * u[i] \in (-50)..50
  PROVE  100 * Sum(Masked(t, q, n, rate)) - rate * Sum(Masked(u, q, n, rate))
           \in (-50 * Count(q, rate, n))..(50 * Count(q, rate, n))
<1> DEFINE a == Masked(t, q, n, rate)
           b == Masked(u, q, n, rate)
<1>1. a \in [1..n -> Int] /\ b \in [1..n -> Int]
  BY DEF Masked
<1>2. ASSUME NEW i \in 1..n
      PROVE  IF q[i] = rate THEN 100 * a[i] - rate * b[i] \in (-50)..50 ELSE a[i] = 0 /\ b[i] = 0
  BY DEF Masked
<1> HIDE DEF a, b
<1>3. PICK f : IsRunning(f, a, n) /\ Sum(a) = f[n]
  BY <1>1, SumIs
<1>4. PICK g : IsRunning(g, b, n) /\ Sum(b) = g[n]
  BY <1>1, SumIs
<1> DEFINE T == {k \in 0..n : 100 * f[k] - rate * g[k] \in (-50 * Count(q, rate, k))..(50 * Count(q, rate, k))}
<1>5. 0 \in T
  <2>1. {i \in 1..0 : q[i] = rate} = {}
    OBVIOUS
  <2>2. Count(q, rate, 0) = 0
    BY <2>1, FS_EmptySet DEF Count
  <2>3. f[0] = 0 /\ g[0] = 0
    BY <1>3, <1>4 DEF IsRunning
  <2> QED
    BY <2>2, <2>3
<1>6. ASSUME NEW k \in 0..(n - 1), k \in T PROVE k + 1 \in T
  <2>1. Count(q, rate, k) \in Nat /\ Count(q, rate, k + 1) = Count(q, rate, k) + (IF q[k + 1] = rate THEN 1 ELSE 0)
    <3>1. k \in Nat
      OBVIOUS
    <3> QED
      BY <3>1, CountGrows
  <2>2. k + 1 \in 1..n /\ k + 1 \in 0..n /\ (k + 1) - 1 = k
    OBVIOUS
  <2> DEFINE x == a[k + 1]
             y == b[k + 1]
             F == f[k]
             G == g[k]
  <2>3. x \in Int /\ y \in Int /\ F \in Int /\ G \in Int /\ f[k + 1] = F + x /\ g[k + 1] = G + y
    <3>1. x \in Int /\ y \in Int
      BY <1>1, <2>2
    <3>2. F \in Int /\ f[k + 1] = F + x
      BY <1>3, <2>2 DEF IsRunning
    <3>3. G \in Int /\ g[k + 1] = G + y
      BY <1>4, <2>2 DEF IsRunning
    <3> QED
      BY <3>1, <3>2, <3>3
  <2>4. 100 * F - rate * G \in (-50 * Count(q, rate, k))..(50 * Count(q, rate, k))
    BY <1>6
  <2>5. IF q[k + 1] = rate THEN 100 * x - rate * y \in (-50)..50 ELSE x = 0 /\ y = 0
    BY <1>2, <2>2
  <2> HIDE DEF x, y, F, G
  <2>6. rate * (G + y) = rate * G + rate * y /\ rate * G \in Int /\ rate * y \in Int
    BY <2>3
  <2>7. 100 * (F + x) - rate * (G + y) = (100 * F - rate * G) + (100 * x - rate * y)
    BY <2>3, <2>6
  <2>8. CASE q[k + 1] = rate
    <3>1. Count(q, rate, k + 1) = Count(q, rate, k) + 1
      BY <2>1, <2>8
    <3>2. 100 * x - rate * y \in (-50)..50
      BY <2>5, <2>8
    <3>3. 100 * (F + x) - rate * (G + y) \in (-50 * Count(q, rate, k + 1))..(50 * Count(q, rate, k + 1))
      <4> DEFINE A == 100 * F - rate * G
                 B == 100 * x - rate * y
                 c == Count(q, rate, k)
      <4>1. A \in (-50 * c)..(50 * c) /\ B \in (-50)..50 /\ c \in Nat
        BY <2>1, <2>4, <3>2
      <4>2. A \in Int /\ B \in Int
        BY <2>3, <2>6
      <4> HIDE DEF A, B, c
      <4>3. A + B \in (-50 * (c + 1))..(50 * (c + 1))
        BY <4>1, <4>2
      <4> QED
        BY <2>7, <3>1, <4>3 DEF A, B, c
    <3> QED
      BY <2>2, <2>3, <3>3
  <2>9. CASE q[k + 1] # rate
    <3>1. Count(q, rate, k + 1) = Count(q, rate, k) /\ x = 0 /\ y = 0
      BY <2>1, <2>5, <2>9
    <3>2. F + x = F /\ G + y = G
      BY <2>3, <3>1
    <3> QED
      BY <2>2, <2>3, <2>4, <3>1, <3>2
  <2> QED
    BY <2>8, <2>9
<1> HIDE DEF T
<1>7. \A k \in 0..n : k \in T
  BY <1>5, <1>6, UpTo
<1> QED
  BY <1>3, <1>4, <1>7 DEF T, a, b

------------------------------------------------------------------------------
WriteCall(n) == [fn : {"write"}, products : [1..n -> ProductRow]]

(* What was written are the amounts of the lines that were given.          *)
WInv ==
  call.fn = "write" =>
    /\ \E n \in 1..MaxLines : call \in WriteCall(n)
    /\ result # None => result = Amounts(call.products)

(* WInv is an invariant of the calls.                                      *)
THEOREM WrittenInvariance == Spec => []WInv
<1>1. Init => WInv
  <2> SUFFICES ASSUME Init, call.fn = "write" PROVE WInv
    BY DEF WInv
  <2>1. \E n \in 1..MaxLines : call \in WriteCall(n)
    BY DEF Init, WriteCall
  <2> QED
    BY <2>1 DEF WInv, Init
<1>2. WInv /\ [Next]_checkVars => WInv'
  <2> SUFFICES ASSUME WInv, [Next]_checkVars, call.fn = "write" PROVE WInv'
    BY DEF WInv, Next, Classify, WriteAmounts, checkVars
  <2> QED
    BY DEF WInv, Next, Classify, WriteAmounts, checkVars
<1> QED
  BY <1>1, <1>2, PTL DEF Spec

(* What a written invoice states, in terms of the functions of the lemmas: *)
(* the rates, the net amounts and the taxes of its lines.                  *)
LEMMA WrittenAmounts ==
  ASSUME NEW n \in Nat, NEW products \in [1..n -> ProductRow]
  PROVE  LET q == [i \in 1..n |-> VATOrZero(products[i])]
             net == [i \in 1..n |-> NetAmount(products[i])]
             tax == [i \in 1..n |-> TaxAmount(products[i])]
             keys == Rates(products)
             out == Amounts(products)
         IN  /\ q \in [1..n -> Int] /\ net \in [1..n -> Int] /\ tax \in [1..n -> Int]
             /\ keys \in [1..Len(keys) -> Int] /\ Len(keys) \in Nat /\ EachOnce(keys)
             /\ Covers(keys, Len(keys), q, n)
             /\ out.tax = Sum(tax) /\ out.lineExtension = Sum(net) /\ out.payable = Sum(net) + Sum(tax)
             /\ out.lines = [i \in 1..n |-> [net |-> net[i], tax |-> tax[i], total |-> net[i] + tax[i]]]
             /\ out.groups = [k \in 1..Len(keys) |->
                                [percent |-> keys[k], taxable |-> Sum(Masked(net, q, n, keys[k])),
                                 tax |-> Sum(Masked(tax, q, n, keys[k]))]]
<1> DEFINE q == [i \in 1..n |-> VATOrZero(products[i])]
           net == [i \in 1..n |-> NetAmount(products[i])]
           tax == [i \in 1..n |-> TaxAmount(products[i])]
           keys == Rates(products)
           out == Amounts(products)
<1>1. q \in [1..n -> Int] /\ net \in [1..n -> Int] /\ tax \in [1..n -> Int]
  BY LineAmounts
<1>2. Len(products) = n /\ DOMAIN products = 1..n
  OBVIOUS
<1>3. /\ keys \in Seq(Int) /\ EachOnce(keys)
      /\ \A i \in 1..n : \E k \in DOMAIN keys : keys[k] = VATOrZero(products[i])
  <2>1. \A i \in 1..n : VATOrZero(products[i]) \in Int
    BY LineAmounts
  <2> QED
    BY <1>2, <2>1, RatesAre
<1> HIDE DEF keys
<1>4. DOMAIN keys = 1..Len(keys) /\ Len(keys) \in Nat /\ keys \in [1..Len(keys) -> Int]
  BY <1>3
<1>5. Covers(keys, Len(keys), q, n)
  BY <1>3, <1>4 DEF Covers
<1>6. Total(products, NetAmount) = Sum(net) /\ Total(products, TaxAmount) = Sum(tax)
  BY <1>2 DEF Total
<1>7. out.tax = Sum(tax) /\ out.lineExtension = Sum(net) /\ out.payable = Sum(net) + Sum(tax)
  BY <1>6 DEF Amounts, TotalTax
<1>8. out.lines = [i \in 1..n |-> [net |-> net[i], tax |-> tax[i], total |-> net[i] + tax[i]]]
  BY <1>2 DEF Amounts
<1>9. out.groups = [k \in 1..Len(keys) |->
                      [percent |-> keys[k], taxable |-> Sum(Masked(net, q, n, keys[k])),
                       tax |-> Sum(Masked(tax, q, n, keys[k]))]]
  <2>1. ASSUME NEW rate
        PROVE  /\ [i \in DOMAIN products |->
                     IF VATOrZero(products[i]) = rate THEN NetAmount(products[i]) ELSE 0]
                  = Masked(net, q, n, rate)
               /\ [i \in DOMAIN products |->
                     IF VATOrZero(products[i]) = rate THEN TaxAmount(products[i]) ELSE 0]
                  = Masked(tax, q, n, rate)
    BY <1>2 DEF Masked
  <2>2. out.groups = TaxGroups(products)
    BY DEF Amounts
  <2>3. TaxGroups(products) =
          [k \in 1..Len(keys) |->
             [percent |-> keys[k],
              taxable |-> Sum([i \in DOMAIN products |->
                                 IF VATOrZero(products[i]) = keys[k] THEN NetAmount(products[i]) ELSE 0]),
              tax |-> Sum([i \in DOMAIN products |->
                             IF VATOrZero(products[i]) = keys[k] THEN TaxAmount(products[i]) ELSE 0])]]
    BY <1>4 DEF TaxGroups, Total, keys
  <2> QED
    BY <2>1, <2>2, <2>3
<1> QED
  BY <1>1, <1>3, <1>4, <1>5, <1>7, <1>8, <1>9 DEF keys

(* For every bill, however many lines of whatever rates: the lines and the *)
(* VAT subtotals add up to the totals of the invoice, and what is payable  *)
(* is the sum of the line totals (TotalTax, taxGroups,                     *)
(* writeLegalMonetaryTotal).                                               *)
THEOREM InvoiceAmountsAddUp == Spec => []AmountsAddUp
<1>1. WInv => AmountsAddUp
  <2> SUFFICES ASSUME WInv, Written PROVE AmountsAddUp
    BY DEF AmountsAddUp
  <2> DEFINE products == call.products
  <2>1. PICK n \in 1..MaxLines : products \in [1..n -> ProductRow]
    BY DEF WInv, Written, WriteCall
  <2>2. n \in Nat /\ result = Amounts(products)
    BY CallAssumption DEF WInv, Written
  <2> HIDE DEF products
  <2> DEFINE q == [i \in 1..n |-> VATOrZero(products[i])]
             net == [i \in 1..n |-> NetAmount(products[i])]
             tax == [i \in 1..n |-> TaxAmount(products[i])]
             keys == Rates(products)
             m == Len(keys)
  <2>3. /\ q \in [1..n -> Int] /\ net \in [1..n -> Int] /\ tax \in [1..n -> Int]
        /\ keys \in [1..m -> Int] /\ m \in Nat /\ EachOnce(keys)
        /\ Covers(keys, m, q, n)
        /\ result.tax = Sum(tax) /\ result.lineExtension = Sum(net) /\ result.payable = Sum(net) + Sum(tax)
        /\ result.lines = [i \in 1..n |-> [net |-> net[i], tax |-> tax[i], total |-> net[i] + tax[i]]]
        /\ result.groups = [k \in 1..m |->
                              [percent |-> keys[k], taxable |-> Sum(Masked(net, q, n, keys[k])),
                               tax |-> Sum(Masked(tax, q, n, keys[k]))]]
    BY <2>1, <2>2, WrittenAmounts
  <2> HIDE DEF q, net, tax, keys, m
  <2>4. Total(result.groups, LAMBDA g : g.tax) = Sum(Subtotals(tax, q, n, keys, m))
    <3>1. [k \in DOMAIN result.groups |-> result.groups[k].tax] = Subtotals(tax, q, n, keys, m)
      BY <2>3 DEF Subtotals
    <3> QED
      BY <3>1 DEF Total
  <2>5. Total(result.groups, LAMBDA g : g.taxable) = Sum(Subtotals(net, q, n, keys, m))
    <3>1. [k \in DOMAIN result.groups |-> result.groups[k].taxable] = Subtotals(net, q, n, keys, m)
      BY <2>3 DEF Subtotals
    <3> QED
      BY <3>1 DEF Total
  <2>6. Total(result.lines, LAMBDA l : l.total) = Sum([i \in 1..n |-> net[i] + tax[i]])
    <3>1. [i \in DOMAIN result.lines |-> result.lines[i].total] = [i \in 1..n |-> net[i] + tax[i]]
      BY <2>3
    <3> QED
      BY <3>1 DEF Total
  <2>7. ASSUME NEW t \in [1..n -> Int]
        PROVE  Sum(Subtotals(t, q, n, keys, m)) = Sum(t)
    <3>1. Keyed(n, q, m, keys)
      BY <2>2, <2>3 DEF Keyed
    <3> QED
      BY <2>7, <3>1, SubtotalsAddUp
  <2>8. /\ Sum(Subtotals(tax, q, n, keys, m)) = Sum(tax)
        /\ Sum(Subtotals(net, q, n, keys, m)) = Sum(net)
    BY <2>3, <2>7
  <2>9. Sum([i \in 1..n |-> net[i] + tax[i]]) = Sum(net) + Sum(tax)
    BY <2>2, <2>3, SumAdds
  <2> QED
    BY <2>3, <2>4, <2>5, <2>6, <2>8, <2>9 DEF AmountsAddUp
<1> QED
  BY <1>1, WrittenInvariance, PTL

(* For every bill: the VAT of a subtotal is its rate of the taxable        *)
(* amount, to half a halala for each of its lines (TaxAmount, taxGroups).  *)
THEOREM SubtotalVATWithinRounding == Spec => []VATWithinRounding
<1>1. WInv => VATWithinRounding
  <2> SUFFICES ASSUME WInv, Written PROVE VATWithinRounding
    BY DEF VATWithinRounding
  <2> DEFINE products == call.products
  <2>1. PICK n \in 1..MaxLines : products \in [1..n -> ProductRow]
    BY DEF WInv, Written, WriteCall
  <2>2. n \in Nat /\ result = Amounts(products) /\ DOMAIN products = 1..n
    BY <2>1, CallAssumption DEF WInv, Written
  <2> HIDE DEF products
  <2> DEFINE q == [i \in 1..n |-> VATOrZero(products[i])]
             net == [i \in 1..n |-> NetAmount(products[i])]
             tax == [i \in 1..n |-> TaxAmount(products[i])]
             keys == Rates(products)
             m == Len(keys)
  <2>3. /\ q \in [1..n -> Int] /\ net \in [1..n -> Int] /\ tax \in [1..n -> Int]
        /\ keys \in [1..m -> Int]
        /\ result.groups = [k \in 1..m |->
                              [percent |-> keys[k], taxable |-> Sum(Masked(net, q, n, keys[k])),
                               tax |-> Sum(Masked(tax, q, n, keys[k]))]]
    BY <2>1, <2>2, WrittenAmounts
  <2>4. \A i \in 1..n : 100 * tax[i] - q[i] * net[i] \in (-50)..50
    BY <2>1, LineVATWithinRounding
  <2>5. \A rate : {i \in DOMAIN products : VATOrZero(products[i]) = rate} = {i \in 1..n : q[i] = rate}
    BY <2>2
  <2> HIDE DEF q, net, tax, keys, m
  <2> SUFFICES ASSUME NEW k \in 1..m
               PROVE  LET g == result.groups[k]
                          c == Cardinality({i \in DOMAIN products : VATOrZero(products[i]) = g.percent})
                      IN  100 * g.tax - g.percent * g.taxable \in (-50 * c)..(50 * c)
    BY <2>3 DEF VATWithinRounding, products
  <2> DEFINE rate == keys[k]
             g == result.groups[k]
  <2>6. g.percent = rate /\ g.taxable = Sum(Masked(net, q, n, rate)) /\ g.tax = Sum(Masked(tax, q, n, rate))
    BY <2>3
  <2>7. rate \in Int
    BY <2>3
  <2> HIDE DEF rate, g
  <2>8. 100 * Sum(Masked(tax, q, n, rate)) - rate * Sum(Masked(net, q, n, rate))
          \in (-50 * Count(q, rate, n))..(50 * Count(q, rate, n))
    BY <2>2, <2>3, <2>4, <2>7, SubtotalWithinRounding
  <2>9. Cardinality({i \in DOMAIN products : VATOrZero(products[i]) = g.percent}) = Count(q, rate, n)
    BY <2>5, <2>6 DEF Count
  <2> QED
    BY <2>6, <2>8, <2>9 DEF g
<1> QED
  BY <1>1, WrittenInvariance, PTL
==============================================================================
