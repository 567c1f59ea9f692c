# The ZATCA daemon in TLA+

The repository is a Go daemon that issues Saudi e-invoices. A backend publishes one
document envelope per bill to a NATS JetStream work queue. The daemon gives each bill
the next number (ICV) and the previous hash (PIH) of its branch's invoice chain, signs
it, stores it, sends it to ZATCA, and records ZATCA's answer. It serves many tenants,
each with a MySQL database of its own, and runs one worker per branch.

This directory models that protocol, the life of a daemon process, and the signing tool
that its branches share, checks them with TLC, and proves the safety of all three, and of the
classification of answers, with TLAPS. Paths below are under `src/`.

## 1. Inventory

| Component | State it keeps | Operations | What makes it correct |
|---|---|---|---|
| Invoice chain, `queue/chain.go` | `branch_zatca_config` (last ICV, previous hash, reservation and its lease), `zatca_submission`, `zatca_submission_outcome`, `bill` | Book, Release, Commit, Stored, Record | numbers 1..last ICV without gap or repetition, each invoice with the hash of the one before; an invoice and its first answer never change |
| Claim store, `queue/sql_claim_store.go` | `zatca_consumer_claim` | Claim, Release, Complete | one worker at a time has a request; a completed request stays completed |
| Ordered stream, `queue/ordered_stream.go` | locals of a delivery | HandleMessage, FinalizePermanentFailure | only a committed invoice is sent; the claim is completed last; an answered invoice is not sent again |
| Branch worker, `cmd/daemon/worker.go` | consumer, delivery count | fetch, ack, terminate, alert | every message is settled within its budget |
| Bill pipeline, `processor/bill.go`, `client/client.go` | none | Prepare, Build, Submit, classification of answers | a passing failure decides nothing; a repeated invoice is not taken for a refused one |
| Operator reconciliation, `cmd/daemon/reconcile.go`, `queue/reconcile.go` | none | status and record requests | an operator's answer never replaces another; a request with the stored hash is taken |
| Tenants and branches, `cmd/daemon/reconcile.go`, `tenant/tenant.go` | maps of tenants, worker handles, service caches, subscriptions, expected branches; JetStream consumers | reconcile, addTenant, removeTenant, reconcileBranches, startBranch, getService, stop, checkReadiness | no database is closed under a worker or an admitted onboarding (a reconcile request at work is not waited for, section 6); no responder outlives its database; no worker is lost; an active branch is served, or the probe says that it is not |
| Onboarding, `processor/onboard.go`, `zatca/zatca.go` | CSR, key, certificates and EGS identity in `branch_zatca_config` | OnboardBranch | key and certificate match; one device per branch; no CSR is sent twice |
| SDK wrapper, `sdk/sdk.go` | the files of the signing tool: key, certificate, invoice, signed invoice, API request, CSRs | SignInvoice, GenerateAPIRequest, GenerateCSR | a call returns what it was asked for, with the caller's credentials |
| Invoice amounts, `invoice/invoice.go`, `invoice/xml.go` | none | line amounts, VAT subtotals, totals | lines, subtotals and totals agree |

Components interact through the tenant database (workers, operators and onboarding of one
tenant share its tables), through JetStream (envelopes, redelivery), through core NATS
requests (onboarding, reconciliation), and inside a process through the reconciler's maps.

What is hard to test, and what the properties are for: a worker that hangs past its
lease while another one takes over; a transaction that commits and loses its answer; a
crash between ZATCA's answer and its record; messages delivered again or out of order; an
operator who acts while a worker submits; a tenant that is removed while it is being
onboarded; an onboarding that fails half way; two branches that sign at the same moment over
the same files; a tool that fails and leaves the output of an earlier call; a consumer that
is deleted under a new worker. `PROJECT.json` lists each hazard at its line.

## 2. Modules

| Module | Models | Uses |
|---|---|---|
| `Envelopes` | the envelope (`queue/message.go`) and the identities | |
| `ClaimStore` | `SQLClaimStore` | `Envelopes` |
| `InvoiceChain` | `SQLChain`; one transaction is one step | `Envelopes` |
| `SubmissionOutcome` | the classification of an answer: `responseOutcome`, `rejectionOutcome`, `providerStatus` | |
| `OrderedStream` | `handleDelivery` and `OrderedStream`, with JetStream and ZATCA as its surroundings | the four above |
| `Reconciliation` | the whole protocol: deliveries and operators | `OrderedStream`, `InvoiceLedger` |
| `InvoiceLedger` | the abstract promise: append-only ledgers, answers decided once | |
| `Topology` | `daemonReconciler`: tenants, workers, consumers, caches, the onboarding and the reconcile responder, shutdown, readiness | |
| `SDKWorkspace` | the SDK wrapper: scripts, command by command, over shared files | |
| `Onboarding` | `OnboardBranch` and `OnboardWithCSR` | `SDKWorkspace` |
| `BillSigning` | `Build` and `Submit` of the branches, next to the onboardings of their process | `Onboarding` |
| `InvoiceTotals` | the amounts of an invoice and their rounding | |
| `PureChecks` | enumerates answers for `SubmissionOutcome` and bills for `InvoiceTotals` | both |
| `MCReconciliation` | envelopes and bills for the runs of `Reconciliation` | |
| `MCTopology` | symmetry and a bound for the run `topology` | `Topology` |
| `InvoiceChain_proofs`, `Reconciliation_proofs`, `Answers_proofs`, `SoleWorker_proofs` | theorems and proofs about the protocol; each extends the one before | `Reconciliation` |
| `BillSigning_proofs`, `Credentials_proofs` | theorems and proofs about signing and onboarding; the second extends the first | `BillSigning` |
| `Topology_proofs` | theorems and proofs about the daemon process | `Topology` |
| `Outcome_proofs` | theorems and proofs about the classification of answers and the amounts of an invoice | `PureChecks` |

`OrderedStream` and `BillSigning` both have a Build and a Submit. The first sees a build as
one step that gives the booked invoice or fails, and looks at numbers, answers and claims.
The second looks into it, at what the tool really signs, and abstracts the chain: a bill may
be built again under another number until an invoice of it is committed.

How state and steps correspond to the code:

* **A step is what nothing can interrupt.** In the protocol that is one database
  transaction, one exchange with ZATCA, one acknowledgement. Each worker has a program
  counter (`worker[w].pc`) that names the next call of the handler. A database call may
  fail without effect, or take effect and report an error (`Fault` contains `"db"`); a
  crash may come between any two calls. In `Topology` a section under `r.mu` is one step,
  and `reconcileMu` is held by whoever moved `rec.pc` from `"idle"`.
* **Hashes are what they commit to.** The hash of an invoice is the hash it chains from
  with the bill and the UUID appended, so a hash is the history of its chain. Two invoices
  have the same hash only if they are the same bill at the same place.
* **Time** is the step that ends a lease. Nothing bounds how long a worker takes.
* **Several workers of one branch** are several processes, or a process that hangs while
  another takes over. The lock of `lockFor` orders the deliveries of one process only, so
  workers share nothing but the tables and the consumer.
* **JetStream** delivers the first time in stream order, and again, in any order, until a
  message is settled or has used up `MaxDeliver`. A message may be delivered again while a
  slow worker has it. A worker that is stopped deletes the consumer it created (this is
  what `Unsubscribe` of the client library does), and so the delivery counts (`StopWorker`).
  The seven days after which the stream drops a message are not modelled.
* **ZATCA** accepts or refuses an invoice it does not hold, and says so when it holds it
  (`HeldStatus`, 208 or 409). An answer may get lost.
* **Transactions that meet.** `FOR UPDATE NOWAIT` is `RowLocked`: Book may fail with "busy"
  while another worker is about to touch the row.
* **Operators.** A record request is taken when its hash is 64 hex digits (`Validate`) and is the
  stored text (`handleReconcileRequest`). `HashForm` says how `fatoora` writes hashes, and so how
  they are stored. It writes base64 (`invoice/invoice.go:128`), with which no record request is
  ever taken: this is the run `operator_refused`. The runs and theorems about operators are
  for both forms; `"hex"` is the instance with more behaviours, and what holds there still
  holds when `Validate` is corrected.
* In `SDKWorkspace`, a key is a number, and the CSR made with it and the certificates issued
  for that CSR are the same number, so a key that does not belong to a certificate is a
  different number. Each command of a script is a step. `fatoora` is external: it reads what
  its files hold when it runs, all of them at once, and writes one output, with the hash and
  UUID of the invoice it read. The request it derives always carries a hash, so the signer's hash
  that `Build` would take instead of an empty one, and the comparison that `Submit` would then
  leave out (`processor/bill.go:74, 253`), do not occur. No script stops when `fatoora` fails (`ToolFails`); it goes on
  and prints what is there. `clean` and `foreign` are history: they say of a build and of a
  branch whether its scripts met another script or a failure of the tool.
* In `Topology`, an element of `Ctx` is a `tenantCtx` object and an element of `Slot` a
  goroutine; both are taken again when nothing refers to them. `consumer` names the worker
  that created a branch's consumer, which is the one whose `Unsubscribe` deletes it. Without
  a consumer a worker runs, but fetches nothing. The callback of the reconcile responder is an
  actor of its own (`reconciling`): it has begun and not yet replied, while the tenant may be
  removed and its database closed.
  `Asked` says which of the two kinds of request arrive. `Ready` is what `checkReadiness` answers; it
  reads state and changes none, so it is a predicate.
* In `InvoiceTotals` an amount is a whole number of halalas. The code rounds floats, and an
  amount exactly between two halalas may fall to either side; which one is a part of the
  input, so that the properties hold for both. Sums of rounded amounts are exact.

## 3. Runs

Passing runs:

| Run | Instance | Shows |
|---|---|---|
| `takeover` | 2 workers, 2 bills of one branch and an envelope that does not decode, 1 delivery each; database, network, builds, acknowledgements, crashes | `ChainIntact`, `SentIsCommitted`, `ChainOnlyGrows`, refinement `ImplementsLedger`, `TypeOK` |
| `republished` | 1 worker, an operator, 3 envelopes for one bill: 2 requests, the first one again under a reused event, 2 deliveries; hashes in hex, so that the operator's requests are taken; database, network, crashes, stops | `OneAnswerLogged`, `IssuedIsHeld`, `ReportedIsRecorded`, `CompletedIsAnswered`, `FinishedIsAnswered`, `RejectedIsNotHeld`, `AckedIsCompleted`, `FirstInvoiceAndAnswerStand`, `NeverSentAgain`, `CompletedIsFinal` |
| `settles` | 2 branches, 1 worker each, 9 envelopes that are refused in every way there is, 1 number left; network failures | `IssuedAsAsked`; liveness `EveryMessageSettles`, `CommittedIsAnswered` |
| `pure_checks` | every HTTP status class, body and field the classification reads; every bill of 1 or 2 lines over prices, quantities and rates on and off a rounding boundary, NULL included | `PassingFailureDecidesNothing`, `OwnStatusDecides`, `AmountsAddUp`, `VATWithinRounding` |
| `topology` | 1 database, 1 branch, 2 registry contents, 2 tenantCtx, 2 goroutines; onboarding and reconcile requests; every call fails | `CacheIsOfTenant`, `NothingLost`, `NoUseAfterClose`, `ClosedTakesNoRequest`, `TypeOK` |
| `served` | the same with 1 registry content and onboarding requests only, where only `PullSubscribe` fails | liveness `ShutdownEnds`, `ServedOrUnready` |
| `onboarding` | 1 process, 2 branches, new or registered, 2 jobs (attempts, builds, submissions) and the submissions that follow a commit; the tool, every call and the process fail | `KeyMatchesCertificate`, `OneDevicePerBranch`, `OwnCSRSentOnce`, `SentIsOfItsBill`, `CleanBuildIsOwn`, `CleanAttemptIsOwn`, `TypeOK` |

Why these bounds are enough. A conflict about a number needs two requests of one branch
and two workers, and one takeover (`takeover`). `republished` has one worker because
its properties are about the order of deliveries and answers, and some of them hold only
while no other worker has the bill, see section 6; what two workers do to one bill is covered
by the theorems, which have no bound. In `Topology` two goroutines are the swept and the new
worker of a branch; a third never comes into being (`CHOOSE` would have nothing to choose).
`topology` explores no state after one in which a reconcile callback of one tenantCtx and a
callback of the other run at once (`CallbacksOfOneTenant`): they share no state. `served` has no
reconcile requests: nothing waits for their callback, so it delays neither a stop nor a worker.
Two tenantCtx are the old and the new one of a changed tenant. `Ctx` is a bound: a third would
be needed only if a tenant were added while NATS callbacks of two earlier, removed ones have
still not returned, and `OpenTenant` waits there until one has. In `onboarding` two jobs are
two attempts of one branch, two branches that meet in the files, an attempt next to a build, or
a build and its repetition; a third branch only adds another party that overwrites.
`ComplianceInvoices` is 2 instead of 6: a first, and a last that follows another. `MaxICV`,
`MaxJobs` and `MaxLines` bound counters; `MaxICV` is 1 in `settles`, so that the last number
is used up there.

Symmetry: workers and operators are interchangeable in the runs without liveness, where all
workers have the same branch; and so are the registry contents in `topology`, which are only
compared with each other.

Fairness. `Reconciliation!FairSpec` is weak fairness of each worker's handler and of the
delivery of each message: a goroutine that can run does, every call in it has an end, and
JetStream offers what is deliverable. Nothing is assumed of ZATCA's answers, of leases or
operators. `Topology!FairSpec` is weak fairness of the reconciler, of each worker, of each
NATS callback (`CallbackNext`, `AnswerReconcile`) and of each onboarding: the ticker and the scheduler go on. Nothing is
assumed of registry edits, requests or the signal. `ServedOrUnready` is conditional on a
registry row and a branch that stay as they are.

Runs that show a disagreement between the code and what the repository says of it:

| Run | The repository says | The code |
|---|---|---|
| `operator_refused` | "A record request must carry the exact stored invoice hash" (`queue/reconcile.go:16`), and the test of one that does wants "accepted external evidence" (`cmd/daemon/reconcile_test.go:100`) | the stored hash is in base64 and `Validate` takes hex only, so an operator can settle no invoice that the daemon has left ambiguous |
| `disputed_bill` | "checkStored refuses a stored invoice that belongs to another UUID or branch" (`queue/ordered_stream.go:203`) | the exhausted delivery of a second request records a terminal failure on the first one's invoice |
| `repeated_208` | 208 is ambiguous: "ZATCA already reported this invoice, so the outcome needs reconciliation" (`processor/bill.go:205`) | the client takes 208 for success, and the invoice can be recorded as rejected |
| `other_branch_key` | "It injects the branch's private key and certificate into the SDK so the Docker container can sign invoices for this branch." (`storeconfig/storeconfig.go:144`) | two branches that sign at once share the key and certificate files; an invoice can be committed and sent with the other branch's signature |
| `csr_resent` | "A CSR is single-shot at ZATCA" (`processor/onboard.go:58`) | when `fatoora` fails, the script prints the newest CSR there is, that of the attempt before, and it is sent again |

## 4. What is proved

For every set of bills, branches, messages, workers and operators, every delivery budget
and every set of faults (in `BillSigning_proofs` and `Credentials_proofs`: any number of
branches, jobs, invoice numbers and compliance invoices; in `Topology_proofs`: any sets of
databases, branches, registry contents, tenantCtx and goroutines; in `Outcome_proofs`: any
HTTP statuses, and any number of lines with any prices, quantities and rates):

| Module | Theorem | Statement |
|---|---|---|
| `Reconciliation_proofs` | `TypeCorrect` | `Spec => []TypeOK` |
| | `ChainStaysIntact` | `Spec => []ChainIntact` |
| | `OnlyCommittedIsSent` | `Spec => []SentIsCommitted` |
| | `LogMatchesAnswers` | `Spec => []OneAnswerLogged` |
| | `InvoiceAndAnswerStand` | `Spec => FirstInvoiceAndAnswerStand` |
| | `ChainGrowsByInvoices` | `Spec => ChainOnlyGrows` |
| | `LedgerRefinement` | `Spec => ImplementsLedger` |
| `Answers_proofs` | `AcceptedIsHeldByZATCA` | `Spec => []IssuedIsHeld` |
| | `AlertsFollowRecords` | `Spec => []ReportedIsRecorded` |
| | `InvoicesAreAskedFor` | `Spec => []IssuedAsAsked` |
| | `CompletionIsFinal` | `Spec => CompletedIsFinal` |
| `SoleWorker_proofs` | `AcknowledgedIsSettled` | `Spec => []AckedIsCompleted`, if `EventNamesRequest` |
| | `AnsweredIsNotSent` | `Spec => NeverSentAgain`, if `SoleWorker` and `BillNamesBranch` |
| | `RejectionIsRefusal` | `Spec => []RejectedIsNotHeld`, if `SoleWorker` and 208 is not in `HeldStatus` |
| | `FinishIsAnswered` | `Spec => []FinishedIsAnswered` |
| | `UndisputedIsUntouched` | `Spec => OthersInvoiceUntouched`, if `BillNamesInvoice` |
| `BillSigning_proofs` | `SigningTypeCorrect` | `Spec => []TypeOK` |
| | `OnlyOwnBillIsSent` | `Spec => []SentIsOfItsBill` |
| `Credentials_proofs` | `KeyBelongsToCertificate` | `Spec => []KeyMatchesCertificate` |
| | `RetriesKeepTheDevice` | `Spec => []OneDevicePerBranch` |
| | `RetriesMakeNewCSR` | `Spec => []OwnCSRSentOnce` |
| | `CleanBuildsAreOwn` | `Spec => []CleanBuildIsOwn` |
| | `CleanAttemptsAreOwn` | `Spec => []CleanAttemptIsOwn` |
| | `SerialScriptsSignOwn` | `Spec /\ []Serialised => []SignedByOwnKey`, if `fatoora` does not fail |
| | `SerialScriptsSendOnce` | `Spec /\ []Serialised => []CSRSentOnce`, if `fatoora` does not fail |
| `Topology_proofs` | `TopologyTypeCorrect` | `Spec => []TypeOK` |
| | `ClosedIsUnused` | `Spec => []NoUseAfterClose` |
| | `ClosedIsSilent` | `Spec => []ClosedTakesNoRequest` |
| | `CacheIsFresh` | `Spec => []CacheIsOfTenant` |
| | `MapsKnowEverything` | `Spec => []NothingLost` |
| `Outcome_proofs` | `FailuresDecideNothing` | `Spec => []PassingFailureDecidesNothing` |
| | `OwnStatusAlwaysDecides` | `Spec => []OwnStatusDecides` |
| | `LineVATWithinRounding` | the VAT of one line is within half a halala of its rate of the net amount |
| | `InvoiceAmountsAddUp` | `Spec => []AmountsAddUp` |
| | `SubtotalVATWithinRounding` | `Spec => []VATWithinRounding` |

**The chain.** `InvoiceChain_proofs` looks at the tables alone: each
operation of SQLChain (`ChainStep`) keeps the types, the intact chain and the log, and
moves a chain only by a commit at its tip. Its only condition is that a committed invoice
hashes its own contents. `Reconciliation_proofs` shows that every step of a worker, an
operator, JetStream or time is one such operation or leaves the tables alone.

`ChainIntact` and `SentIsCommitted` are not inductive: a worker at `"submit"` could hold
any invoice. The invariant `IInv` adds what a handler has in its locals at each place
(`LocalsOK`: a booking while it builds, an invoice that hashes itself when it commits) and
that what it is about to send or record is stored (`SendsStored`). The latter survives the
steps of all others because a stored invoice never changes (`Stands`).

**The answers.** `Answers_proofs` adds what a handler has learned (`Knows`): that its message is
valid and on its branch's subject; from `Prepare` to `Commit`, that the bill it verified is a
reportable one of its branch; at `"record"`, that an accepting outcome is of an invoice that ZATCA
holds; and when its result is "ambiguous", that an outcome is recorded. This stays true while
others go on, because ZATCA never gives up an invoice and a recorded answer stands
(`Lasting`). With it every step of a worker is `Sound`: what it writes to the chain, to the
claims and to the operator is justified by what it knows. The invariant `AInv` is `IInv`,
`Knows` of every worker, what the bills keep of their first contents (`BillsOK`), the three
invariants themselves, and that a completed claim has no lease that could end.

Note what the proofs about the chain and the answers do not use: neither claims nor leases.
The chain is safe by the checks of Commit alone; claims and leases only save work.

**Deliveries and claims.** Of the theorems of `SoleWorker_proofs` all but `FinishIsAnswered` are
false for some deployments or some backends (section 6), so each names what it needs, and only
that:

* `EventNamesRequest`: no event is shared by two requests. "A request is unique by (pos_id,
  bill_request_id), and an event by event_id" (`queue/sql_claim_store.go:18`). The envelopes
  of `republished` break it on purpose, and there `AckedIsCompleted` is checked by TLC.
* `SoleWorker`: a branch has one worker. `markBranchActive` (`cmd/daemon/worker.go:316`) ensures
  it in one process, except while a worker that was swept still runs and its branch is started
  again, and the deployment has to ensure it between processes.
* `BillNamesBranch`: the backend asks for a bill on one branch only.
* `BillNamesInvoice`: all proper requests for a bill ask for the same UUID and branch. Where it fails,
  the run `disputed_bill` has its counterexample; `UndisputedIsUntouched` shows that there is no
  other, with any number of workers.

`republished` satisfies all of these but the first, `takeover` all but the second.

`StepEffect` says once, for every step of a handler, how the worker can have come to its new
place and what the step did to claims, rows, ZATCA and the stream; the invariants are
then shown step by step from it. `EInv`: what is acknowledged, or about to be, is `Closed`,
that is, its request is completed or belongs to other content; a duplicate and a conflict are
closed because no other request has the event. `SInv`: what a worker is about to send or record
has no answer but an operator's; the one other party that could write one is another worker of
the branch. `RInv`: an outcome "rejected" in the hands of a worker is of an invoice that ZATCA
does not hold; only the same worker could make ZATCA hold it. `FinishIsAnswered` needs no
more than `AInv`: a worker comes to `"complete"` from a row it found answered, or from a record
of the invoice it sent, which is the stored one (`SendsStored`) and the one its request asks for
(`Knows`); and nobody takes an invoice or an answer back (`Stands`). It says of `process` what
`CompletedIsAnswered` says of a completed request in general. The latter is not proved:
`FinalizePermanentFailure` breaks it with two workers of a branch and two deliveries, where TLC
also finds `RejectedIsNotHeld` violated.

**Signing and onboarding.** `SentIsOfItsBill` needs to
know where the stored hash came from, so the invariant `SInv` of `BillSigning_proofs` adds what a
job has in its locals at each place (`Works`: above all, at `"commit"` the hash of an invoice with
the bill's UUID, which is the check of `ReadRequest`), that a stored hash is of its own bill
(`StoredOK`) and that a sent request has the stored hash (`RequestsOK`, the check of
`SendRequest`). Of the files it only says that they are well typed and that the tool finds an
invoice to sign: the theorem holds whatever other branches write there, and shows that the two
checks alone are enough for it.

`Credentials_proofs` adds `CInv`: an attempt in progress means that no certificate is stored, it
has the stored identity if there is one, and from `"compliance"` on its CSR and key are those of
its own number (`BranchOK`); attempts have different numbers; and a CSR that is not past the
compliance request was not sent (`SentOK`). `BInv` follows the shared files for
`CleanBuildIsOwn`: while a script is clean no other script runs (`CleanAlone`), so the files it has
written so far hold what its branch put there (`BuildOK`). `GInv` says the same of GenerateCSR: a
clean attempt has written its own properties, then made a CSR and a key under its own number, and
has read both (`AttemptOK`).

The runs `other_branch_key` and `csr_resent` refute `SignedByOwnKey` and `CSRSentOnce`, the one by
scripts that overlap, the other by a failure of `fatoora`. The theorems `SerialScripts...` show that
these are the only causes: if no two scripts of the process run at once (`Serialised`, which a mutex
around the scripts would give) and the tool does not fail, every script stays clean (`AllClean`), and
both properties hold for every branch, whatever else fails or crashes.

**The process.** Whether a database may be closed depends on goroutines that the maps have
forgotten. `TInv` says of each worker that runs who still knows it, its handle or the list that
the holder of `reconcileMu` waits for, and which tenantCtx it works for (`RunOK`); of each tenantCtx,
that it is a tenant until it stops, and if it has stopped and is open, that it is the one being
removed (`CtxOK`); of an admitted onboarding, that its database is open (`OnboardOK`); of a tenantCtx whose
subscriptions the reconciler has dropped or never kept, that neither responder receives
(`Silent`, on which `ClosedTakesNoRequest` rests); and what holds at each place of the reconciler (`RecOK`).
It says nothing of a reconcile callback at work, which nobody waits for. That `rec.waiting` has at most one worker of a
branch is why two goroutines of a branch are enough (`SlotAssumption`).

**Answers as values.** `Outcome_proofs` goes by cases on status and body; `OInv` says that what
was returned is the outcome of the answer that was given. The rounding of one line is integer
arithmetic.

**Amounts.** A total is what a loop over the lines has at its end (`Sum`, a recursive function of the
loop's counter), and so is the list of VAT rates (`Rates`). The library's induction theorems cannot be
used, but well-foundedness can: a set of counters where a statement fails has a least element
(`WFMin`), so a statement that holds at 0 and passes from i to i + 1 holds up to the end (`UpTo`). It
gives, in this order, what the loops are (`RunningSum`), that sums add (`SumAdds`), that the rates
of the lines are the keys, each once (`RatesAre`), that the subtotals of the rates add up to the
total of the lines (`SubtotalsAddUp`, on the number of rates), and that a subtotal deviates by half a
halala for each of its lines (`SubtotalWithinRounding`).

Assumptions: those named in the modules, `MessageAssumption`, `SeqAssumption`, `NoneAssumption`,
`ChainAssumption`, `HashAssumption`, `InvoiceAssumption`, `WorkerAssumption`, `HashFormAssumption`;
`WorkspaceAssumption`, `OnboardingAssumption`, `StoredAssumption` for the signing;
`TopologyAssumption`, `SlotAssumption` for the process; `CallAssumption` for the pure functions.
They say that constants are of their kinds, that NULL is no value, that an onboarding sends at least
one compliance invoice, and that a process can have two goroutines. TLC evaluates them in each run.

## 5. What is only model-checked

* Liveness, which is beyond the prover: `EveryMessageSettles` and `CommittedIsAnswered` in
  `settles`, `ShutdownEnds` and `ServedOrUnready` in `served`.
* What `SoleWorker_proofs` states under a hypothesis, where the hypothesis does not hold but the
  property does: `AckedIsCompleted` for the envelopes of `republished`, which share an event.
* `CompletedIsAnswered`, for one worker of the branch and the envelopes of `republished`.

## 6. Limits of what holds

Met while modelling. Each is a statement that one might expect and that the model refutes:

* A message whose last delivery finds a live claim of a hung or crashed worker is left: it
  is neither acknowledged, terminated nor alerted (`cmd/daemon/worker.go:175`).
  `EveryMessageSettles` is therefore stated for one worker per branch that keeps running.
* `CompletedIsAnswered` fails with two workers: on the last delivery
  `FinalizePermanentFailure` reads that no invoice is stored, a slower worker of an earlier
  delivery commits one, and the first completes the claim. If the slow one then stops, the
  invoice is pending for ever (`queue/ordered_stream.go:115`).
* `RejectedIsNotHeld` fails with two workers that submit the same invoice at once: the second
  answer may be a refusal that is recorded first.
* `AckedIsCompleted` depends on the messages: when two requests share an event, the claim of one
  can make a delivery of the other a conflict, which is acknowledged, and a request whose expired
  claim is taken over under another event frees the first event.
* Numbers do not follow the order of publication. A delivery that fails comes back after
  AckWait, and later bills of the branch are numbered first; `README.md:3` promises "strict
  per-branch ordering" (`queue/ordered_stream.go:31`). The chain is intact.
* The alert of an ambiguous outcome is lost when the process stops after `Record`.
* With an operator, an invoice may be sent once more after its answer was recorded, when
  the worker had read it as pending before. The recorded answer stands. As long as no record
  request is taken (`operator_refused`), this does not come to pass.
* Behind `operator_refused` there is a second disagreement, which it hides: for an invoice that
  is already ambiguous, `Record` changes nothing (`queue/chain.go:454-468`) and the handler still answers
  accepted with evidence "external", which `queue/reconcile.go:33` reserves for an answer that was
  "validated and persisted". It shows once `Validate` takes the stored hash.
* `removeTenant` does not wait for a reconcile request at work, and neither does `stop`: its
  callback runs with a context of its own (`cmd/daemon/reconcile.go:561`) and may meet a closed
  database (`DrainAndClose` before `AnswerReconcile` in `Topology`). The operator then gets an error. `NoUseAfterClose` is about workers and admitted onboardings.
* `EveryMessageSettles` is checked without failing acknowledgements: a `Term` that fails on the
  last delivery leaves the message in the stream, and its error is ignored
  (`cmd/daemon/worker.go:163, 168, 193`).
* The late release of a hung delivery drops the booking of its own redelivery, which has
  the same request and event (`queue/chain.go:279`). The redelivery then fails to commit
  and is delivered again; the chain is not harmed.
* A worker whose `PullSubscribe` fails is not started again, as its handle stays, and a
  worker whose consumer was deleted by the late stop of its predecessor fetches nothing.
  Both last until the tenant changes or the process restarts. The readiness probe shows
  both, which is what `ServedOrUnready` says.
* Two processes that onboard one branch at once can leave a certificate with the key of the
  other's attempt; the guard is a map of one process. `onboarding` has one process.
* Onboardings of different branches share the tool's CSR files. When they overlap, one can be
  handed the other's CSR, its key, or one of each, so `KeyMatchesCertificate` and
  `OneDevicePerBranch` are about branches to which this did not happen.
* A signed invoice is compared with its booking by UUID only. When the tool fails in a rebuild
  under another number, the signed invoice of the first build, with the old number and hash,
  passes; and two failures in a row can store another bill's XML. The check of Submit keeps
  the latter from being sent, because the request's hash is not the stored one.

## 7. What is not modelled

* Cryptography (`crypto/`): canonicalization, hashing, signing and QR codes are functions on
  bytes, and the daemon signs with the SDK instead. A hash is modelled by what it commits to.
* The markup, parties and dates of an invoice. Discounts are read from the database and
  dropped by `buildLines` (`processor/bill.go:453`); whether the prices are net of them is not
  said in the repository, so no property is about them. `taxGroups` ignores a document
  discount that `TotalTax` subtracts, and `roundTo2` truncates towards zero; no caller of the
  daemon sets a discount or a negative amount, so neither shows.
* `ReportInvoice` and `ClearInvoice` of the service, `GenerateHash` and `ValidateInvoice` of
  the SDK, renewal, and the command line tools: the daemon calls none of them.
* Encryption of secrets, connection strings, configuration, the alert email, the embedded
  NATS server, and the HTTP side of the probe: single calls or pure functions; where the
  daemon depends on one, its failure is a step of the module that calls it.

`PROJECT.json` gives the reason for each component.

## 8. Plan

Done: the protocol (chain, claims, deliveries, operators), the topology with its consumers and
the readiness probe, onboarding and signing over the shared files of the SDK, and the amounts,
each with its runs; proofs of every invariant but `CompletedIsAnswered` and of every action property
without fairness that a passing run checks, of the refinement of the ledger, and of what four of
the five disagreements above need to go away (section 4).

Next, in this order:

1. `NoUseAfterClose` and `CompletedIsAnswered` meet in the swept worker: a composition of
   `Topology` and `OrderedStream`, to state `SoleWorker` as a property of a process instead of a
   hypothesis, for the deliveries that do not overlap a sweep.
2. Two processes that share a consumer and a database: their onboardings, and the fetch errors
   after one of them deleted the consumer.
