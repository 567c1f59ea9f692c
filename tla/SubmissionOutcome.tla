-------------------------- MODULE SubmissionOutcome --------------------------
(***************************************************************************)
(* How ZATCA's answer to a submitted invoice becomes an outcome: the HTTP  *)
(* client (client/client.go, do) and BillPipeline.Submit                   *)
(* (processor/bill.go).  An answer is a record of what the code looks at:  *)
(* the HTTP status, and the fields of the decoded body.                    *)
(***************************************************************************)
EXTENDS Naturals

Kind == {"standard", "simplified"}

(* The values of a status field that the classification tells apart.       *)
Status == {"", "CLEARED", "REPORTED", "OTHER"}

(* models.InvoiceResponse.                                                 *)
Response ==
  [errors : BOOLEAN, validationErrors : BOOLEAN,
   warnings : BOOLEAN, validationWarnings : BOOLEAN,
   clearanceStatus : Status, reportingStatus : Status, status : Status]

(* The zero value that an empty body leaves in the result of do.           *)
ZeroResponse ==
  [errors |-> FALSE, validationErrors |-> FALSE, warnings |-> FALSE,
   validationWarnings |-> FALSE, clearanceStatus |-> "", reportingStatus |-> "",
   status |-> ""]

(* http = 0: the call failed before an answer was read.  body says whether *)
(* there is a body that decodes, in resp.                                  *)
Answer ==
  [http : Nat, body : {"empty", "garbled", "json"}, resp : Response]

OK == 200
AlreadyReported == 208
Unauthorized == 401
Forbidden == 403
RequestTimeout == 408
Conflict == 409
TooManyRequests == 429

Technical == "technical"

------------------------------------------------------------------------------
SuccessStatus(kind) == IF kind = "standard" THEN "CLEARED" ELSE "REPORTED"

(* Mutant: the legacy field wins over the endpoint's own status.           *)
LegacyStatus(kind, resp) ==
  IF resp.status # "" THEN resp.status
  ELSE IF kind = "standard" THEN resp.clearanceStatus ELSE resp.reportingStatus

(* The endpoint's own status wins over the legacy field.                   *)
ProviderStatus(kind, resp) ==
  LET own == IF kind = "standard" THEN resp.clearanceStatus ELSE resp.reportingStatus
  IN  IF own # "" THEN own ELSE resp.status

ResponseOutcome(kind, resp) ==
  CASE \/ resp.errors
       \/ resp.validationErrors
       \/ ProviderStatus(kind, resp) # SuccessStatus(kind) -> "rejected"
    [] OTHER -> IF resp.warnings \/ resp.validationWarnings
                  THEN "accepted_with_warning"
                  ELSE "accepted"

(* Mutant: a missing authorization or a timeout rejects the invoice.       *)
IsClientError(http) == http \in 400..499

IsInvoiceRejection(http) ==
  /\ http \notin {Unauthorized, Forbidden, RequestTimeout, TooManyRequests}
  /\ http \in 400..499

(* Mutant: every 4xx, 409 included, rejects the invoice.                   *)
RejectionByStatus(kind, a) ==
  IF IsInvoiceRejection(a.http) THEN "rejected" ELSE Technical

(* The classification of an APIError.                                      *)
RejectionOutcome(kind, a) ==
  LET held == a.http \in {AlreadyReported, Conflict}
      outcome == ResponseOutcome(kind, a.resp)
  IN  CASE held /\ a.body = "json" /\ outcome \in {"accepted", "accepted_with_warning"} -> outcome
        [] held /\ ~(a.body = "json" /\ outcome \in {"accepted", "accepted_with_warning"}) -> "ambiguous"
        [] ~held /\ IsInvoiceRejection(a.http) -> "rejected"
        [] OTHER -> Technical

(* client.do returns an APIError for every status outside 200..299, and    *)
(* for no status inside it.                                                *)
Is2xx(http) == http \in 200..299

SubmitOutcome(kind, a) ==
  CASE a.http = 0 -> Technical
    [] Is2xx(a.http) /\ a.body = "garbled" -> Technical
    [] Is2xx(a.http) /\ a.body = "empty" -> ResponseOutcome(kind, ZeroResponse)
    [] Is2xx(a.http) /\ a.body = "json" -> ResponseOutcome(kind, a.resp)
    [] OTHER -> RejectionOutcome(kind, a)
==============================================================================
