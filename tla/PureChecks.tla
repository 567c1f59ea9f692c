----------------------------- MODULE PureChecks -----------------------------
(***************************************************************************)
(* The calculations without state, over every input that they can tell     *)
(* apart: one submission of an invoice of either kind with every           *)
(* combination of status code, body and response, or one bill of up to     *)
(* MaxLines lines whose amounts are written.                               *)
(***************************************************************************)
EXTENDS SubmissionOutcome, InvoiceTotals, FiniteSets

CONSTANTS
  Http,      \* the status codes; 0 is a call that got no answer
  Quantity, Price, VAT,   \* the values of the columns of a line
  MaxLines   \* lines of a bill

ASSUME CallAssumption ==
  /\ Http \subseteq Nat /\ Quantity \subseteq Int /\ Price \subseteq Int /\ VAT \subseteq Int
  /\ MaxLines \in Nat

VARIABLES
  call,    \* the function that is called, and its arguments
  result   \* what it returns

checkVars == <<call, result>>

HeardAnswer ==
  {a \in [http : Http, body : {"empty", "garbled", "json"}, resp : Response] :
     a.body # "json" => a.resp = ZeroResponse}

ProductRow ==
  [quantity : Quantity \cup {None}, price : Price \cup {None}, vat : VAT \cup {None},
   netBelow : BOOLEAN, taxBelow : BOOLEAN]

Init ==
  /\ \/ call \in [fn : {"submit"}, kind : Kind, answer : HeardAnswer]
     \/ \E n \in 1..MaxLines : call \in [fn : {"write"}, products : [1..n -> ProductRow]]
  /\ result = None

Classify ==
  /\ result = None /\ call.fn = "submit"
  /\ result' = SubmitOutcome(call.kind, call.answer)
  /\ UNCHANGED call

(* A bill whose lines verifyBill refuses is not written.                   *)
WriteAmounts ==
  /\ result = None /\ call.fn = "write"
  /\ VerifyLines(call.products)
  /\ result' = Amounts(call.products)
  /\ UNCHANGED call

Next == Classify \/ WriteAmounts

Spec == Init /\ [][Next]_checkVars

------------------------------------------------------------------------------
Answered == call.fn = "submit" /\ result # None

Written == call.fn = "write" /\ result # None

(* The statuses that say nothing about the invoice.                        *)
SaysNothing(http) == http \notin (200..299) \cup (400..499) \/ http \in {401, 403, 408, 429}

(* A failure that may pass (no answer, a redirect, a server error, missing *)
(* authorization, a timeout, a rate limit) never decides an invoice, and   *)
(* an answer that cannot be decoded never accepts one (rejectionOutcome:   *)
(* "Any other error is technical").                                        *)
PassingFailureDecidesNothing ==
  Answered =>
    /\ SaysNothing(call.answer.http) => result = Technical
    /\ result \in {"accepted", "accepted_with_warning"} => call.answer.body = "json"

(* Only the endpoint's own status decides: neither the status of the other *)
(* endpoint, nor the legacy status where the endpoint has one of its own,  *)
(* changes an outcome (providerStatus: "the endpoint-specific top-level    *)
(* status first").                                                         *)
OwnStatusDecides ==
  Answered =>
    LET kind == call.kind
        answer == call.answer
        own == IF kind = "standard" THEN answer.resp.clearanceStatus ELSE answer.resp.reportingStatus
    IN  \A foreign, legacy \in Status :
          LET resp == [answer.resp EXCEPT
                         !.clearanceStatus = IF kind = "standard" THEN @ ELSE foreign,
                         !.reportingStatus = IF kind = "simplified" THEN @ ELSE foreign,
                         !.status = IF own = "" THEN @ ELSE legacy]
          IN  answer.body = "json" => SubmitOutcome(kind, [answer EXCEPT !.resp = resp]) = result

(* The amounts of an invoice agree, however they were rounded: the lines   *)
(* and the VAT subtotals add up to the same totals, and what is payable is *)
(* the sum of the line totals (TotalTax, taxGroups and                     *)
(* writeLegalMonetaryTotal add the rounded amounts of the lines, each on   *)
(* its own).                                                               *)
AmountsAddUp ==
  Written =>
    /\ result.tax = Total(result.groups, LAMBDA g : g.tax)
    /\ result.lineExtension = Total(result.groups, LAMBDA g : g.taxable)
    /\ result.payable = Total(result.lines, LAMBDA l : l.total)

(* The VAT of a subtotal is its rate of the taxable amount, but for the    *)
(* rounding of its lines: half a halala each (TaxAmount rounds the tax of  *)
(* the rounded net amount).                                                *)
VATWithinRounding ==
  Written =>
    \A k \in DOMAIN result.groups :
      LET g == result.groups[k]
          n == Cardinality({i \in DOMAIN call.products : VATOrZero(call.products[i]) = g.percent})
      IN  100 * g.tax - g.percent * g.taxable \in (-50 * n)..(50 * n)
==============================================================================
