---------------------------- MODULE BillSigning ----------------------------
(***************************************************************************)
(* Building and submitting bills (billDocument.Build and                   *)
(* BillPipeline.Submit, processor/bill.go) next to the onboardings of the  *)
(* same process, on the shared files of the SDK.  Build signs the invoice  *)
(* under its booked number, derives its API request, and compares the      *)
(* request's UUID with the booked one; the committed XML is sent later,    *)
(* when the request derived from it has the stored hash.                   *)
(*                                                                         *)
(* Bookings and commits are those of InvoiceChain: here a bill may be      *)
(* built again under another number until an invoice of it is committed.   *)
(***************************************************************************)
EXTENDS Onboarding

VARIABLES
  stored,    \* [Branch -> the committed invoice of its bill, or None]
  requests   \* the API requests that were sent: pairs of a branch and an XML

billVars == <<stored, requests>>
vars == <<sdkVars, onboardVars, billVars>>

(* A committed invoice: the number and credentials it was built with, and  *)
(* the XML and hash it got.  The hash of an XML leaves out its signature.  *)
Stored ==
  [icv : 1..MaxICV, key : Number, cert : Number, xml : XML, hash : Document, clean : BOOLEAN]

ASSUME StoredAssumption == None \notin Stored

TypeOK ==
  /\ SDKTypeOK
  /\ OnboardTypeOK
  /\ stored \in [Branch -> Stored \cup {None}]
  /\ requests \subseteq Branch \X XML

Init ==
  /\ SDKInit
  /\ OnboardInit
  /\ stored = [b \in Branch |-> None]
  /\ requests = {}

------------------------------------------------------------------------------
(* The invoice of the branch's bill under number n.                        *)
BillDocument(b, n) == [branch |-> b, uuid |-> b, icv |-> n]

(* The service of a registered branch.                                     *)
Service(b, task) ==
  [NoJob EXCEPT !.task = task, !.key = config[b].key, !.csr = config[b].production]

BeginBuild(b, n) ==
  /\ At(b, "none") /\ MayBegin /\ config[b].production # Empty /\ stored[b] = None
  /\ Start(b, [SignInvoice(Service(b, "build"), Unsigned(BillDocument(b, n))) EXCEPT !.icv = n])
  /\ jobs' = jobs + 1
  /\ UNCHANGED <<files, csrs, onboardVars, billVars>>

(* SignInvoice returns, and apiRequest derives the request.                *)
ReadSigned(b) ==
  /\ At(b, "output") /\ job[b].task = "build" /\ job[b].call = "sign" /\ files.signed # None
  /\ job' = [job EXCEPT ![b] = GenerateAPIRequest(job[b], files.signed)]
  /\ UNCHANGED <<files, csrs, jobs, onboardVars, billVars>>

(* Mutant: the request's UUID is not compared.                             *)
ReadRequestUnchecked(b) ==
  /\ At(b, "output") /\ job[b].task = "build" /\ job[b].call = "request" /\ files.api # None
  /\ job' = [job EXCEPT ![b].pc = "commit", ![b].hash = files.api.doc]
  /\ UNCHANGED <<files, csrs, jobs, onboardVars, billVars>>

(* The request must carry the booked UUID; its hash becomes the invoice's. *)
(* A request of fatoora always carries a hash here: the hash of the signer *)
(* that Build takes instead of an empty one, and its error when both are   *)
(* empty, do not happen.                                                   *)
ReadRequest(b) ==
  /\ At(b, "output") /\ job[b].task = "build" /\ job[b].call = "request" /\ files.api # None
  /\ IF files.api.doc.uuid = b
       THEN job' = [job EXCEPT ![b].pc = "commit", ![b].hash = files.api.doc]
       ELSE End(b)
  /\ UNCHANGED <<files, csrs, jobs, onboardVars, billVars>>

(* Commit stores the built invoice, and its submission follows, or the     *)
(* booking is lost.                                                        *)
CommitBuilt(b) ==
  /\ At(b, "commit")
  /\ \/ /\ stored' = [stored EXCEPT ![b] =
                        [icv |-> job[b].icv, key |-> job[b].key, cert |-> job[b].csr,
                         xml |-> job[b].xml, hash |-> job[b].hash, clean |-> job[b].clean]]
        /\ Start(b, GenerateAPIRequest(
                      [NoJob EXCEPT !.task = "submit", !.key = job[b].key, !.csr = job[b].csr],
                      job[b].xml))
     \/ UNCHANGED stored /\ End(b)
  /\ UNCHANGED <<files, csrs, jobs, onboardVars, requests>>

(* A later delivery submits the stored invoice again.                      *)
BeginSubmit(b) ==
  /\ At(b, "none") /\ MayBegin /\ config[b].production # Empty /\ stored[b] # None
  /\ Start(b, GenerateAPIRequest(Service(b, "submit"), stored[b].xml))
  /\ jobs' = jobs + 1
  /\ UNCHANGED <<files, csrs, onboardVars, billVars>>

(* Submit sends the request if its hash is the stored one.  (It would send *)
(* a request without a hash unchecked; fatoora gives none, as above.)      *)
SendRequest(b) ==
  /\ At(b, "output") /\ job[b].task = "submit" /\ files.api # None
  /\ requests' = IF files.api.doc = stored[b].hash THEN requests \cup {<<b, files.api>>} ELSE requests
  /\ End(b)
  /\ UNCHANGED <<files, csrs, jobs, onboardVars, stored>>

(* The process stops; the files stay.                                      *)
Crash ==
  /\ "call" \in Fault /\ \E b \in Branch : ~At(b, "none")
  /\ job' = [b \in Branch |-> NoJob]
  /\ UNCHANGED <<files, csrs, jobs, onboardVars, billVars>>

Next ==
  \/ \E b \in Branch :
       \/ ScriptStep(b) /\ UNCHANGED <<onboardVars, billVars>>
       \/ OnboardStep(b) /\ UNCHANGED billVars
       \/ \E n \in 1..MaxICV : BeginBuild(b, n)
       \/ ReadSigned(b) \/ ReadRequest(b) \/ CommitBuilt(b) \/ BeginSubmit(b) \/ SendRequest(b)
  \/ Crash

Spec == Init /\ [][Next]_vars

------------------------------------------------------------------------------
(* What is sent to ZATCA for a bill is an invoice of this bill, with the   *)
(* hash that the chain has stored, whatever fatoora left or other branches *)
(* wrote to the shared files (the UUID check of Build, the hash check of   *)
(* Submit).                                                                *)
SentIsOfItsBill ==
  \A r \in requests : r[2].doc.uuid = r[1] /\ r[2].doc = stored[r[1]].hash

(* A build whose scripts met no other script and no failure of fatoora     *)
(* gives the booked invoice, signed with its branch's key and certificate, *)
(* whatever earlier calls left in the files ("written to the SDK's         *)
(* certificate paths before each sign/QR/request command").                *)
CleanBuildIsOwn ==
  \A b \in Branch :
    LET s == stored[b]
    IN  s # None /\ s.clean =>
          /\ s.hash = BillDocument(b, s.icv)
          /\ s.xml = [doc |-> s.hash, key |-> s.key, cert |-> s.cert]

(* "It injects the branch's private key and certificate into the SDK so    *)
(* the Docker container can sign invoices for this branch"                 *)
(* (storeconfig.NewService): a committed invoice is signed with the        *)
(* credentials of its branch.                                              *)
SignedByOwnKey ==
  \A b \in Branch :
    stored[b] # None => stored[b].xml.key = stored[b].key /\ stored[b].xml.cert = stored[b].cert
==============================================================================
