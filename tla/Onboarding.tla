----------------------------- MODULE Onboarding -----------------------------
(***************************************************************************)
(* OnboardBranch (processor/onboard.go) with OnboardWithCSR                *)
(* (zatca/zatca.go): how a branch gets its key, certificates and EGS       *)
(* identity.  A new key and CSR are made for each attempt and stored, the  *)
(* CSR is exchanged for a compliance certificate, test invoices are signed *)
(* and checked, a production certificate is requested, and all credentials *)
(* are stored.  Any step may fail, and a failed attempt is started over by *)
(* the operator with a new OTP.  The onboardings of one process run side   *)
(* by side, one per branch.                                                *)
(*                                                                         *)
(* An EGS identity (TIN and computer number) is the number of the attempt  *)
(* that made it up.                                                        *)
(***************************************************************************)
EXTENDS SDKWorkspace

CONSTANT ComplianceInvoices   \* test invoices of an onboarding; 6 in the code

VARIABLES
  config,    \* [Branch -> row of branch_zatca_config]
  sent,      \* [Number -> how often the CSR was sent to ZATCA]
  devices,   \* [Branch -> the EGS identities ZATCA gave a production certificate]
  foreign    \* the branches of which an attempt was handed another CSR or key than its own

onboardVars == <<config, sent, devices, foreign>>

ASSUME OnboardingAssumption ==
  ComplianceInvoices \in 1..MaxICV

Row ==
  [csr : Number, key : Number, identity : Number, compliance : Number, production : Number]

RowOf(n) ==
  [csr |-> n, key |-> n, identity |-> n, compliance |-> n, production |-> n]

EmptyRow == RowOf(Empty)

OnboardTypeOK ==
  /\ config \in [Branch -> Row]
  /\ sent \in [Number -> Nat]
  /\ devices \in [Branch -> SUBSET Number]
  /\ foreign \subseteq Branch

OnboardInit ==
  /\ config \in {[b \in Branch |-> IF b \in R THEN RowOf(b) ELSE EmptyRow] : R \in SUBSET Branch}
  /\ sent = [n \in Number |-> IF n \in Branch /\ config[n].csr = n THEN 1 ELSE 0]
  /\ devices = [b \in Branch |-> {config[b].identity} \ {Empty}]
  /\ foreign = {}

------------------------------------------------------------------------------
(* beginOnboarding: a process runs one onboarding of a branch at a time.   *)
Begin(b) ==
  /\ At(b, "none") /\ MayBegin
  /\ job' = [job EXCEPT ![b].task = "onboard", ![b].pc = "load"]
  /\ UNCHANGED <<files, csrs, jobs, onboardVars>>

(* Mutant: every attempt registers a device of its own.                    *)
LoadNewIdentity(b) ==
  /\ At(b, "load") /\ MayBegin /\ config[b].compliance = Empty
  /\ jobs' = jobs + 1
  /\ Start(b, [job[b] EXCEPT !.pc = "props", !.attempt = jobs + 1, !.identity = jobs + 1])
  /\ UNCHANGED <<files, csrs, config, sent, devices, foreign>>

(* Mutant: a branch that has its certificates is onboarded again.          *)
LoadRegistered(b) ==
  /\ At(b, "load") /\ MayBegin
  /\ jobs' = jobs + 1
  /\ Start(b, [job[b] EXCEPT !.pc = "props", !.attempt = jobs + 1,
                             !.identity = IF config[b].identity # Empty THEN config[b].identity
                                                                        ELSE jobs + 1])
  /\ UNCHANGED <<files, csrs, config, sent, devices, foreign>>

(* Mutant: the CSR of an attempt that failed is sent again.                *)
LoadStoredCSR(b) ==
  LET row == config[b]
  IN  /\ At(b, "load") /\ MayBegin /\ row.compliance = Empty
      /\ jobs' = jobs + 1
      /\ IF row.csr # Empty
           THEN job' = [job EXCEPT ![b].pc = "save", ![b].attempt = row.csr, ![b].csr = row.csr,
                                   ![b].key = row.key, ![b].identity = row.identity]
           ELSE Start(b, [job[b] EXCEPT !.pc = "props", !.attempt = jobs + 1,
                                        !.identity = jobs + 1])
      /\ UNCHANGED <<files, csrs, config, sent, devices, foreign>>

(* loadOnboardBranch and the CSR: a branch that has its compliance         *)
(* certificate is refused.  A stored CSR is discarded, a stored identity   *)
(* is used again.                                                          *)
Load(b) ==
  /\ At(b, "load") /\ MayBegin /\ config[b].compliance = Empty
  /\ jobs' = jobs + 1
  /\ Start(b, [job[b] EXCEPT !.pc = "props", !.attempt = jobs + 1,
                             !.identity = IF config[b].identity # Empty THEN config[b].identity
                                                                        ELSE jobs + 1])
  /\ UNCHANGED <<files, csrs, config, sent, devices, foreign>>

(* The branch is refused, incomplete or cannot be read.                    *)
LoadFails(b) ==
  /\ At(b, "load")
  /\ config[b].compliance # Empty \/ ~MayBegin \/ "call" \in Fault
  /\ End(b)
  /\ UNCHANGED <<files, csrs, jobs, onboardVars>>

IsForeign(j) == j.csr # j.attempt \/ j.key # j.attempt \/ csrs[j.csr] # j.identity

StoreCSR(b) ==
  config' = [config EXCEPT ![b].csr = job[b].csr, ![b].key = job[b].key,
                           ![b].identity = job[b].identity]

(* saveOnboardCSR: stored, failed, or stored with its answer lost.         *)
SaveOnboardCSR(b) ==
  /\ At(b, "save")
  /\ \/ StoreCSR(b) /\ Move(b, "compliance")
     \/ "call" \in Fault /\ End(b) /\ (UNCHANGED config \/ StoreCSR(b))
  /\ foreign' = IF IsForeign(job[b]) THEN foreign \cup {b} ELSE foreign
  /\ UNCHANGED <<files, csrs, jobs, sent, devices>>

(* The test invoice with number n.                                         *)
ComplianceInvoice(b, n) == Unsigned([branch |-> b, uuid |-> Empty, icv |-> n])

(* ComplianceCSID sends the CSR.  ZATCA refuses it, or its answer is lost. *)
ComplianceCSID(b) ==
  /\ At(b, "compliance")
  /\ sent' = [sent EXCEPT ![job[b].csr] = @ + 1]
  /\ \/ Start(b, [SignInvoice(job[b], ComplianceInvoice(b, 1)) EXCEPT !.icv = 1])
     \/ End(b)
  /\ UNCHANGED <<files, csrs, jobs, config, devices, foreign>>

(* SignInvoice returns the signed test invoice.                            *)
ReadSignedTest(b) ==
  /\ At(b, "output") /\ job[b].task = "onboard" /\ files.signed # None
  /\ job' = [job EXCEPT ![b].pc = "check", ![b].xml = files.signed]
  /\ UNCHANGED <<files, csrs, jobs, onboardVars>>

(* Mutant: one test invoice too many.                                      *)
ComplianceCheckOneMore(b) ==
  /\ At(b, "check")
  /\ \/ job[b].icv <= ComplianceInvoices
          /\ Start(b, [SignInvoice(job[b], ComplianceInvoice(b, job[b].icv + 1)) EXCEPT !.icv = @ + 1])
     \/ job[b].icv > ComplianceInvoices
          /\ job' = [job EXCEPT ![b].pc = "production", ![b].xml = None]
     \/ End(b)
  /\ UNCHANGED <<files, csrs, jobs, onboardVars>>

(* signAndSubmitCompliance: ZATCA passes the invoice, and the next one     *)
(* follows, or it does not, and the attempt ends.                          *)
ComplianceCheck(b) ==
  /\ At(b, "check")
  /\ \/ job[b].icv < ComplianceInvoices
          /\ Start(b, [SignInvoice(job[b], ComplianceInvoice(b, job[b].icv + 1)) EXCEPT !.icv = @ + 1])
     \/ job[b].icv = ComplianceInvoices
          /\ job' = [job EXCEPT ![b].pc = "production", ![b].xml = None]
     \/ End(b)
  /\ UNCHANGED <<files, csrs, jobs, onboardVars>>

(* ProductionCSID: ZATCA registers the device that the CSR names and       *)
(* answers, registers it and the answer is lost, or refuses.               *)
ProductionCSID(b) ==
  /\ At(b, "production")
  /\ \/ /\ devices' = [devices EXCEPT ![b] = @ \cup {csrs[job[b].csr]}]
        /\ Move(b, "credentials") \/ ("call" \in Fault /\ End(b))
     \/ UNCHANGED devices /\ End(b)
  /\ UNCHANGED <<files, csrs, jobs, config, sent, foreign>>

StoreCredentials(b) ==
  config' = [config EXCEPT ![b] =
               [csr |-> job[b].csr, key |-> job[b].key, identity |-> @.identity,
                compliance |-> job[b].csr, production |-> job[b].csr]]

(* The credentials are stored in one statement, or that fails, or the      *)
(* statement takes effect and its answer is lost.                          *)
SaveCredentials(b) ==
  /\ At(b, "credentials")
  /\ StoreCredentials(b) \/ ("call" \in Fault /\ UNCHANGED config)
  /\ End(b)
  /\ UNCHANGED <<files, csrs, jobs, sent, devices, foreign>>

(* "revoke and clear branch_zatca_config to re-onboard": the operator.     *)
RevokeAndClear(b) ==
  /\ config[b].compliance # Empty
  /\ config' = [config EXCEPT ![b] = EmptyRow]
  /\ devices' = [devices EXCEPT ![b] = {}]
  /\ UNCHANGED <<sdkVars, sent, foreign>>

OnboardStep(b) ==
  \/ Begin(b) \/ Load(b) \/ LoadFails(b) \/ SaveOnboardCSR(b) \/ ComplianceCSID(b)
  \/ ReadSignedTest(b) \/ ComplianceCheck(b) \/ ProductionCSID(b) \/ SaveCredentials(b)
  \/ RevokeAndClear(b)

------------------------------------------------------------------------------
(* A branch whose attempts were all handed the CSR and key they had asked  *)
(* for has a production certificate that belongs to its stored key and     *)
(* CSR, whatever attempt failed, crashed or was repeated (saveOnboardCSR,  *)
(* the credentials write), and whatever the other branches were handed.    *)
KeyMatchesCertificate ==
  \A b \in Branch \ foreign :
    LET row == config[b]
    IN  row.production # Empty =>
          row.key = row.production /\ row.csr = row.production /\ row.compliance = row.production

(* "Reuse the EGS identity (TIN + UUID) once it has been generated, so     *)
(* retries don't register a different device with ZATCA" (OnboardBranch):  *)
(* ZATCA knows no device of such a branch but the stored one.              *)
OneDevicePerBranch ==
  \A b \in Branch \ foreign : devices[b] \subseteq {config[b].identity}

(* An attempt whose script met no other script and no failure of fatoora   *)
(* has the CSR and key that were made for it, and the CSR names its own    *)
(* identity, whatever earlier attempts and crashes left in the files       *)
(* (GenerateCSR picks the newest files it finds).                          *)
CleanAttemptIsOwn ==
  \A b \in Branch : At(b, "save") /\ job[b].clean => ~IsForeign(job[b])

(* "A CSR is single-shot at ZATCA" (OnboardBranch): no CSR is sent twice.  *)
CSRSentOnce ==
  \A n \in Number : sent[n] <= 1

(* When every attempt was handed its own CSR, no CSR is sent twice,        *)
(* whatever answers were lost (OnboardBranch discards a stored CSR).       *)
OwnCSRSentOnce ==
  foreign = {} => CSRSentOnce
==============================================================================
