------------------------- MODULE BillSigning_proofs -------------------------
(***************************************************************************)
(* Theorems about the signing tool's callers, for any number of branches,  *)
(* jobs and invoice numbers: every state is well typed, and what is sent   *)
(* for a bill is an invoice of this bill with the stored hash.             *)
(*                                                                         *)
(* SentIsOfItsBill is not inductive: a submission compares its request     *)
(* with the stored hash, and that hash came from a build long before.  SInv *)
(* adds what a job has in its locals at each place (Works), above all that *)
(* a job at "commit" has passed the check of the UUID, and that a stored   *)
(* invoice has the hash of an invoice of its bill (StoredOK).  It says     *)
(* nothing of the shared files but that fatoora finds an invoice to sign,  *)
(* so it holds whatever other branches write there.                        *)
(***************************************************************************)
EXTENDS BillSigning, TLAPS

(* The places of SignInvoice and GenerateAPIRequest.                       *)
Signing == {"key", "cert", "xml", "tool", "output"}

(* What the job j of branch b has in its locals, given the files and what  *)
(* is stored of the branch's bill.                                         *)
Works(b, j, f, st) ==
  /\ j.pc \in Signing \cup {"check", "commit"} => j.xml \in XML
  /\ j.pc = "tool" => f.xml \in XML
  /\ j.task = "build" => j.icv \in 1..MaxICV /\ st = None
  /\ j.pc = "commit" => j.task = "build" /\ j.hash \in Document /\ j.hash.uuid = b
  /\ j.task = "submit" => st # None

(* A stored invoice has the hash of an invoice of its bill.                *)
StoredOK == \A b \in Branch : stored[b] # None => stored[b].hash.uuid = b

(* What was sent has the stored hash.                                      *)
RequestsOK == \A r \in requests : stored[r[1]] # None /\ r[2].doc = stored[r[1]].hash

SInv ==
  /\ TypeOK
  /\ \A b \in Branch : Works(b, job[b], files, stored[b])
  /\ StoredOK
  /\ RequestsOK

------------------------------------------------------------------------------
(* How a step moves the jobs.                                              *)

(* Branch b goes on as j, but for its clean; no other job changes but for  *)
(* its clean.                                                              *)
Goes(b, j) ==
  /\ job' \in [Branch -> Job]
  /\ \E k \in BOOLEAN : job'[b] = [j EXCEPT !.clean = k]
  /\ \A c \in Branch \ {b} : job'[c] = job[c] \/ job'[c] = [job[c] EXCEPT !.clean = FALSE]

(* An assignment to job[b] lets b go on, and no other branch.              *)
LEMMA Assigned ==
  ASSUME SDKTypeOK, NEW b \in Branch, NEW j \in Job, job' = [job EXCEPT ![b] = j]
  PROVE  Goes(b, j)
<1>1. job' \in [Branch -> Job] /\ job'[b] = j /\ \A c \in Branch \ {b} : job'[c] = job[c]
  BY DEF SDKTypeOK
<1>2. j = [j EXCEPT !.clean = j.clean] /\ j.clean \in BOOLEAN
  BY DEF Job
<1> QED
  BY <1>1, <1>2 DEF Goes

(* The start of a script lets b go on, and takes from others their clean   *)
(* only.                                                                   *)
LEMMA Started ==
  ASSUME SDKTypeOK, NEW b \in Branch, NEW j \in Job, Start(b, j)
  PROVE  Goes(b, j)
<1>1. \A c \in Branch : job[c] \in Job
  BY DEF SDKTypeOK
<1> DEFINE k == j.clean /\ \A d \in Branch \ {b} : ~InScript(d)
<1>2. k \in BOOLEAN
  BY DEF Job
<1>3. job' = [c \in Branch |->
               IF c = b THEN [j EXCEPT !.clean = k]
               ELSE IF InScript(c) THEN [job[c] EXCEPT !.clean = FALSE] ELSE job[c]]
  BY DEF Start
<1> HIDE DEF k
<1>4. [j EXCEPT !.clean = k] \in Job /\ \A c \in Branch : [job[c] EXCEPT !.clean = FALSE] \in Job
  BY <1>1, <1>2 DEF Job
<1>5. job' \in [Branch -> Job]
  BY <1>1, <1>3, <1>4
<1>6. job'[b] = [j EXCEPT !.clean = k]
  BY <1>3
<1>7. \A c \in Branch \ {b} : job'[c] = job[c] \/ job'[c] = [job[c] EXCEPT !.clean = FALSE]
  BY <1>3
<1> QED
  BY <1>2, <1>5, <1>6, <1>7 DEF Goes

(* What Works says of a job does not depend on its clean.                  *)
LEMMA WorksAnyway ==
  ASSUME NEW b, NEW j \in Job, NEW k \in BOOLEAN, NEW f, NEW st, Works(b, j, f, st)
  PROVE  Works(b, [j EXCEPT !.clean = k], f, st)
BY DEF Works, Job

(* When b goes on as j, and j works, all jobs work.                        *)
LEMMA AllWork ==
  ASSUME SInv, NEW b \in Branch, NEW j \in Job, Goes(b, j),
         files.xml \in XML => files'.xml \in XML,
         \A c \in Branch \ {b} : stored'[c] = stored[c],
         Works(b, j, files', stored'[b])
  PROVE  \A c \in Branch : Works(c, job'[c], files', stored'[c])
<1> SUFFICES ASSUME NEW c \in Branch PROVE Works(c, job'[c], files', stored'[c])
  OBVIOUS
<1>1. CASE c = b
  BY <1>1, WorksAnyway DEF Goes
<1>2. CASE c # b
  <2>1. job[c] \in Job
    BY DEF SInv, TypeOK, SDKTypeOK
  <2>2. Works(c, job[c], files', stored'[c])
    BY <1>2 DEF SInv, Works
  <2>3. Works(c, [job[c] EXCEPT !.clean = FALSE], files', stored'[c])
    BY <2>1, <2>2, WorksAnyway
  <2> QED
    BY <1>2, <2>2, <2>3 DEF Goes
<1> QED
  BY <1>1, <1>2

(* A step of b that leaves the bills alone keeps the invariant.            *)
LEMMA Moved ==
  ASSUME SInv, NEW b \in Branch, NEW j \in Job,
         job' = [job EXCEPT ![b] = j] \/ Start(b, j),
         files' \in Files, files.xml \in XML => files'.xml \in XML,
         csrs' \in [Number -> Number], jobs' \in N..(N + MaxJobs),
         OnboardTypeOK', UNCHANGED billVars,
         Works(b, j, files', stored[b])
  PROVE  SInv' /\ Goes(b, j)
<1>1. stored' = stored /\ requests' = requests
  BY DEF billVars
<1>2. Goes(b, j)
  BY Assigned, Started DEF SInv, TypeOK
<1>3. \A c \in Branch : Works(c, job'[c], files', stored'[c])
  BY <1>1, <1>2, AllWork
<1>4. TypeOK'
  BY <1>1, <1>2 DEF SInv, TypeOK, SDKTypeOK, Goes
<1>5. StoredOK' /\ RequestsOK'
  BY <1>1 DEF SInv, StoredOK, RequestsOK
<1> QED
  BY <1>2, <1>3, <1>4, <1>5 DEF SInv

(* The absence of a job is well typed, and promises nothing.               *)
LEMMA NoJobWorks ==
  /\ NoJob \in Job
  /\ \A b, f, st : Works(b, NoJob, f, st)
<1>1. NoJob \in Job
  BY WorkspaceAssumption DEF NoJob, Job, Number, Empty, PC
<1>2. NoJob.pc = "none" /\ NoJob.task = "none"
  BY DEF NoJob
<1> QED
  BY <1>1, <1>2 DEF Works, Signing

(* A job that ends.                                                        *)
LEMMA Ended ==
  ASSUME SInv, NEW b \in Branch, End(b), UNCHANGED <<files, csrs, jobs, billVars>>, OnboardTypeOK'
  PROVE  SInv'
<1>1. job' = [job EXCEPT ![b] = NoJob]
  BY DEF End
<1>2. files' \in Files /\ csrs' \in [Number -> Number] /\ jobs' \in N..(N + MaxJobs)
  BY DEF SInv, TypeOK, SDKTypeOK
<1> QED
  BY <1>1, <1>2, NoJobWorks, Moved

------------------------------------------------------------------------------
(* The scripts.                                                            *)

(* Every command of a script keeps the invariant, whatever the files hold  *)
(* and whether fatoora fails or not (sdk.go).                              *)
LEMMA ScriptKeeps ==
  ASSUME SInv, NEW b \in Branch, ScriptStep(b), UNCHANGED <<onboardVars, billVars>>
  PROVE  SInv'
<1>1. /\ job \in [Branch -> Job] /\ job[b] \in Job /\ files \in Files
      /\ csrs \in [Number -> Number] /\ jobs \in N..(N + MaxJobs)
      /\ Works(b, job[b], files, stored[b])
  BY DEF SInv, TypeOK, SDKTypeOK
<1>2. OnboardTypeOK'
  BY DEF SInv, TypeOK, OnboardTypeOK, onboardVars
<1>3. CASE WriteKey(b)
  <2> DEFINE j == [job[b] EXCEPT !.pc = "cert"]
  <2>1. j \in Job /\ Works(b, j, files', stored[b])
    BY <1>1, <1>3 DEF Job, PC, Works, Signing, WriteKey, At
  <2>2. files' \in Files /\ files'.xml = files.xml
    BY <1>1, <1>3 DEF Files, Job, WriteKey
  <2>3. job' = [job EXCEPT ![b] = j] /\ UNCHANGED <<csrs, jobs>>
    BY <1>3 DEF WriteKey, Move
  <2> HIDE DEF j
  <2> QED
    BY <1>1, <1>2, <2>1, <2>2, <2>3, Moved
<1>4. CASE WriteCert(b)
  <2> DEFINE j == [job[b] EXCEPT !.pc = "xml"]
  <2>1. j \in Job /\ Works(b, j, files', stored[b])
    BY <1>1, <1>4 DEF Job, PC, Works, Signing, WriteCert, At
  <2>2. files' \in Files /\ files'.xml = files.xml
    BY <1>1, <1>4 DEF Files, Job, WriteCert
  <2>3. job' = [job EXCEPT ![b] = j] /\ UNCHANGED <<csrs, jobs>>
    BY <1>4 DEF WriteCert, Move
  <2> HIDE DEF j
  <2> QED
    BY <1>1, <1>2, <2>1, <2>2, <2>3, Moved
<1>5. CASE WriteInvoice(b)
  <2> DEFINE j == [job[b] EXCEPT !.pc = "tool"]
  <2>1. job[b].xml \in XML
    BY <1>1, <1>5 DEF Works, Signing, WriteInvoice, At
  <2>2. files' \in Files /\ files'.xml \in XML
    BY <1>1, <1>5, <2>1 DEF Files, WriteInvoice
  <2>3. j \in Job /\ Works(b, j, files', stored[b])
    BY <1>1, <1>5, <2>1, <2>2 DEF Job, PC, Works, Signing, WriteInvoice, At
  <2>4. job' = [job EXCEPT ![b] = j] /\ UNCHANGED <<csrs, jobs>>
    BY <1>5 DEF WriteInvoice, Move
  <2> HIDE DEF j
  <2> QED
    BY <1>1, <1>2, <2>2, <2>3, <2>4, Moved
<1>6. CASE RunTool(b)
  <2> DEFINE j == [job[b] EXCEPT !.pc = "output"]
  <2>1. files.xml \in XML
    BY <1>1, <1>6 DEF Works, RunTool, At
  <2>2. [files.xml EXCEPT !.key = files.key, !.cert = files.cert] \in XML
    BY <1>1, <2>1 DEF XML, Files
  <2>3. files' \in Files /\ files'.xml = files.xml
    BY <1>1, <1>6, <2>1, <2>2 DEF Files, RunTool
  <2>4. j \in Job /\ Works(b, j, files', stored[b])
    BY <1>1, <1>6 DEF Job, PC, Works, Signing, RunTool, At
  <2>5. job' = [job EXCEPT ![b] = j] /\ UNCHANGED <<csrs, jobs>>
    BY <1>6 DEF RunTool, Move
  <2> HIDE DEF j
  <2> QED
    BY <1>1, <1>2, <2>3, <2>4, <2>5, Moved
<1>7. CASE ToolFails(b)
  <2> DEFINE j == [job[b] EXCEPT !.pc = IF job[b].pc = "tool" THEN "output" ELSE "newestCSR", !.clean = FALSE]
  <2>1. j \in Job /\ Works(b, j, files', stored[b])
    BY <1>1, <1>7 DEF Job, PC, Works, Signing, ToolFails
  <2>2. job' = [job EXCEPT ![b] = j] /\ UNCHANGED <<files, csrs, jobs>>
    BY <1>7 DEF ToolFails
  <2> HIDE DEF j
  <2> QED
    BY <1>1, <1>2, <2>1, <2>2, Moved
<1>8. CASE ScriptFails(b)
  BY <1>2, <1>8, Ended DEF ScriptFails
<1>9. CASE WriteProperties(b)
  <2> DEFINE j == [job[b] EXCEPT !.pc = "generate"]
  <2>1. j \in Job /\ Works(b, j, files', stored[b])
    BY <1>1, <1>9 DEF Job, PC, Works, Signing, WriteProperties, At
  <2>2. files' \in Files /\ files'.xml = files.xml
    BY <1>1, <1>9 DEF Files, Job, WriteProperties
  <2>3. job' = [job EXCEPT ![b] = j] /\ UNCHANGED <<csrs, jobs>>
    BY <1>9 DEF WriteProperties, Move
  <2> HIDE DEF j
  <2> QED
    BY <1>1, <1>2, <2>1, <2>2, <2>3, Moved
<1>10. CASE GenerateCSR(b)
  <2> DEFINE j == [job[b] EXCEPT !.pc = "newestCSR"]
  <2>1. j \in Job /\ Works(b, j, files', stored[b])
    BY <1>1, <1>10 DEF Job, PC, Works, Signing, GenerateCSR, At
  <2>2. files' \in Files /\ files'.xml = files.xml
    BY <1>1, <1>10 DEF Files, Job, GenerateCSR
  <2>3. csrs' \in [Number -> Number]
    BY <1>1, <1>10 DEF Files, GenerateCSR
  <2>4. job' = [job EXCEPT ![b] = j] /\ UNCHANGED jobs
    BY <1>10 DEF GenerateCSR, Move
  <2> HIDE DEF j
  <2> QED
    BY <1>1, <1>2, <2>1, <2>2, <2>3, <2>4, Moved
<1>11. CASE NewestCSR(b)
  <2> DEFINE j == [job[b] EXCEPT !.pc = "newestKey", !.csr = files.csr]
  <2>1. j \in Job /\ Works(b, j, files', stored[b])
    BY <1>1, <1>11 DEF Job, PC, Files, Works, Signing, NewestCSR, At
  <2>2. job' = [job EXCEPT ![b] = j] /\ UNCHANGED <<files, csrs, jobs>>
    BY <1>11 DEF NewestCSR
  <2> HIDE DEF j
  <2> QED
    BY <1>1, <1>2, <2>1, <2>2, Moved
<1>12. CASE NewestKey(b)
  <2> DEFINE j == [job[b] EXCEPT !.pc = "save", !.key = files.pem]
  <2>1. j \in Job /\ Works(b, j, files', stored[b])
    BY <1>1, <1>12 DEF Job, PC, Files, Works, Signing, NewestKey, At
  <2>2. job' = [job EXCEPT ![b] = j] /\ UNCHANGED <<files, csrs, jobs>>
    BY <1>12 DEF NewestKey
  <2> HIDE DEF j
  <2> QED
    BY <1>1, <1>2, <2>1, <2>2, Moved
<1> QED
  BY <1>3, <1>4, <1>5, <1>6, <1>7, <1>8, <1>9, <1>10, <1>11, <1>12 DEF ScriptStep

------------------------------------------------------------------------------
(* The onboardings.                                                        *)

(* A test invoice is an XML.                                               *)
LEMMA TestInvoice ==
  ASSUME NEW b \in Branch, NEW n \in 1..MaxICV
  PROVE  ComplianceInvoice(b, n) \in XML
BY WorkspaceAssumption DEF ComplianceInvoice, Unsigned, XML, Document, Number, Empty

(* Every step of an onboarding keeps the invariant (onboard.go, zatca.go). *)
LEMMA OnboardKeeps ==
  ASSUME SInv, NEW b \in Branch, OnboardStep(b), UNCHANGED billVars
  PROVE  SInv'
<1>1. /\ job \in [Branch -> Job] /\ job[b] \in Job /\ files \in Files
      /\ csrs \in [Number -> Number] /\ jobs \in N..(N + MaxJobs)
      /\ Works(b, job[b], files, stored[b])
  BY DEF SInv, TypeOK, SDKTypeOK
<1>2. /\ OnboardTypeOK
      /\ config \in [Branch -> Row] /\ config[b] \in Row /\ sent \in [Number -> Nat]
      /\ devices \in [Branch -> SUBSET Number] /\ foreign \subseteq Branch
  BY DEF SInv, TypeOK, OnboardTypeOK
<1>3. OnboardTypeOK' <=>
        /\ config' \in [Branch -> Row] /\ sent' \in [Number -> Nat]
        /\ devices' \in [Branch -> SUBSET Number] /\ foreign' \subseteq Branch
  BY DEF OnboardTypeOK
<1>4. CASE Begin(b)
  <2> DEFINE j == [job[b] EXCEPT !.task = "onboard", !.pc = "load"]
  <2>1. j \in Job /\ Works(b, j, files', stored[b])
    BY <1>1, <1>4 DEF Job, PC, Works, Signing, Begin, At
  <2>2. job' = [job EXCEPT ![b] = j] /\ UNCHANGED <<files, csrs, jobs, onboardVars>>
    BY <1>4 DEF Begin
  <2>3. OnboardTypeOK'
    BY <1>2, <1>3, <2>2 DEF onboardVars
  <2> HIDE DEF j
  <2> QED
    BY <1>1, <2>1, <2>2, <2>3, Moved
<1>5. CASE Load(b)
  <2> DEFINE i == IF config[b].identity # Empty THEN config[b].identity ELSE jobs + 1
             j == [job[b] EXCEPT !.pc = "props", !.attempt = jobs + 1, !.identity = i]
  <2>1. jobs + 1 \in N..(N + MaxJobs) /\ jobs + 1 \in Number
    BY <1>1, <1>5, WorkspaceAssumption DEF Load, MayBegin, Number
  <2>2. i \in Number
    BY <1>2, <2>1 DEF Row
  <2>3. Start(b, j) /\ jobs' = jobs + 1 /\ UNCHANGED <<files, csrs, onboardVars>>
    BY <1>5 DEF Load, onboardVars
  <2> HIDE DEF i
  <2>4. j \in Job /\ Works(b, j, files', stored[b])
    BY <1>1, <1>5, <2>1, <2>2 DEF Job, PC, Works, Signing, Load, At
  <2>5. OnboardTypeOK'
    BY <1>2, <1>3, <2>3 DEF onboardVars
  <2> HIDE DEF j
  <2> QED
    BY <1>1, <2>1, <2>3, <2>4, <2>5, Moved
<1>6. CASE LoadFails(b)
  <2>1. OnboardTypeOK'
    BY <1>2, <1>3, <1>6 DEF LoadFails, onboardVars
  <2> QED
    BY <1>6, <2>1, Ended DEF LoadFails
<1>7. CASE SaveOnboardCSR(b)
  <2>1. config' \in [Branch -> Row]
    <3> DEFINE r == [config[b] EXCEPT !.csr = job[b].csr, !.key = job[b].key,
                                      !.identity = job[b].identity]
    <3>1. r \in Row
      BY <1>1, <1>2 DEF Row, Job
    <3>2. StoreCSR(b) => config' = [config EXCEPT ![b] = r]
      BY <1>2 DEF StoreCSR
    <3> HIDE DEF r
    <3> QED
      BY <1>2, <1>7, <3>1, <3>2 DEF SaveOnboardCSR
  <2>2. OnboardTypeOK' /\ UNCHANGED <<files, csrs, jobs>>
    BY <1>2, <1>3, <1>7, <2>1 DEF SaveOnboardCSR
  <2>3. CASE Move(b, "compliance")
    <3> DEFINE j == [job[b] EXCEPT !.pc = "compliance"]
    <3>1. j \in Job /\ Works(b, j, files', stored[b])
      BY <1>1, <1>7 DEF Job, PC, Works, Signing, SaveOnboardCSR, At
    <3>2. job' = [job EXCEPT ![b] = j]
      BY <2>3 DEF Move
    <3> HIDE DEF j
    <3> QED
      BY <1>1, <2>2, <3>1, <3>2, Moved
  <2> QED
    BY <1>7, <2>2, <2>3, Ended DEF SaveOnboardCSR
<1>8. CASE ComplianceCSID(b)
  <2>1. OnboardTypeOK' /\ UNCHANGED <<files, csrs, jobs>>
    <3>1. sent' \in [Number -> Nat]
      BY <1>1, <1>2, <1>8 DEF ComplianceCSID, Job
    <3> QED
      BY <1>2, <1>3, <1>8, <3>1 DEF ComplianceCSID
  <2> DEFINE j == [SignInvoice(job[b], ComplianceInvoice(b, 1)) EXCEPT !.icv = 1]
  <2>2. CASE Start(b, j)
    <3>1. 1 \in 1..MaxICV
      BY OnboardingAssumption, WorkspaceAssumption
    <3>2. j \in Job /\ Works(b, j, files', stored[b])
      <4>1. ComplianceInvoice(b, 1) \in XML
        BY <3>1, TestInvoice
      <4>2. 1 \in 0..MaxICV
        BY <3>1
      <4> QED
        BY <1>1, <1>8, <4>1, <4>2, <3>1 DEF SignInvoice, Job, PC, Works, Signing, ComplianceCSID, At
    <3> HIDE DEF j
    <3> QED
      BY <1>1, <2>1, <2>2, <3>2, Moved
  <2> QED
    BY <1>8, <2>1, <2>2, Ended DEF ComplianceCSID
<1>9. CASE ReadSignedTest(b)
  <2> DEFINE j == [job[b] EXCEPT !.pc = "check", !.xml = files.signed]
  <2>1. files.signed \in XML
    BY <1>1, <1>9 DEF Files, ReadSignedTest
  <2>2. j \in Job /\ Works(b, j, files', stored[b])
    BY <1>1, <1>9, <2>1 DEF Job, PC, Works, Signing, ReadSignedTest, At
  <2>3. job' = [job EXCEPT ![b] = j] /\ UNCHANGED <<files, csrs, jobs, onboardVars>>
    BY <1>9 DEF ReadSignedTest
  <2>4. OnboardTypeOK'
    BY <1>2, <1>3, <2>3 DEF onboardVars
  <2> HIDE DEF j
  <2> QED
    BY <1>1, <2>2, <2>3, <2>4, Moved
<1>10. CASE ComplianceCheck(b)
  <2>1. OnboardTypeOK' /\ UNCHANGED <<files, csrs, jobs>>
    BY <1>2, <1>3, <1>10 DEF ComplianceCheck, onboardVars
  <2> DEFINE n == job[b].icv + 1
             j == [SignInvoice(job[b], ComplianceInvoice(b, n)) EXCEPT !.icv = n]
             p == [job[b] EXCEPT !.pc = "production", !.xml = None]
  <2>2. CASE job[b].icv < ComplianceInvoices /\ Start(b, j)
    <3>1. n \in 1..MaxICV
      BY <1>1, <2>2, OnboardingAssumption, WorkspaceAssumption DEF Job
    <3>2. ComplianceInvoice(b, n) \in XML /\ n \in 0..MaxICV
      BY <3>1, TestInvoice
    <3> HIDE DEF n
    <3>3. j \in Job /\ Works(b, j, files', stored[b])
      BY <1>1, <1>10, <3>1, <3>2 DEF SignInvoice, Job, PC, Works, Signing, ComplianceCheck, At
    <3> HIDE DEF j
    <3> QED
      BY <1>1, <2>1, <2>2, <3>3, Moved
  <2>3. CASE job' = [job EXCEPT ![b] = p]
    <3>1. p \in Job /\ Works(b, p, files', stored[b])
      BY <1>1, <1>10 DEF Job, PC, Works, Signing, ComplianceCheck, At
    <3> HIDE DEF p
    <3> QED
      BY <1>1, <2>1, <2>3, <3>1, Moved
  <2>4. \/ job[b].icv < ComplianceInvoices /\ Start(b, j)
        \/ job' = [job EXCEPT ![b] = p]
        \/ End(b)
    <3>1. [SignInvoice(job[b], ComplianceInvoice(b, job[b].icv + 1)) EXCEPT !.icv = @ + 1] = j
      BY <1>1 DEF SignInvoice, Job
    <3> QED
      BY <1>10, <3>1 DEF ComplianceCheck
  <2> HIDE DEF j, p
  <2> QED
    BY <2>1, <2>2, <2>3, <2>4, Ended
<1>11. CASE ProductionCSID(b)
  <2>1. OnboardTypeOK' /\ UNCHANGED <<files, csrs, jobs>>
    <3>1. devices' \in [Branch -> SUBSET Number]
      <4>1. csrs[job[b].csr] \in Number
        BY <1>1 DEF Job
      <4> QED
        BY <1>2, <1>11, <4>1 DEF ProductionCSID
    <3> QED
      BY <1>2, <1>3, <1>11, <3>1 DEF ProductionCSID
  <2>2. CASE Move(b, "credentials")
    <3> DEFINE j == [job[b] EXCEPT !.pc = "credentials"]
    <3>1. j \in Job /\ Works(b, j, files', stored[b])
      BY <1>1, <1>11 DEF Job, PC, Works, Signing, ProductionCSID, At
    <3>2. job' = [job EXCEPT ![b] = j]
      BY <2>2 DEF Move
    <3> HIDE DEF j
    <3> QED
      BY <1>1, <2>1, <3>1, <3>2, Moved
  <2> QED
    BY <1>11, <2>1, <2>2, Ended DEF ProductionCSID
<1>12. CASE SaveCredentials(b)
  <2>1. config' \in [Branch -> Row]
    <3>1. StoreCredentials(b) => config' \in [Branch -> Row]
      BY <1>1, <1>2 DEF StoreCredentials, Row, Job
    <3> QED
      BY <1>2, <1>12, <3>1 DEF SaveCredentials
  <2>2. OnboardTypeOK'
    BY <1>2, <1>3, <1>12, <2>1 DEF SaveCredentials
  <2> QED
    BY <1>12, <2>2, Ended DEF SaveCredentials
<1>13. CASE RevokeAndClear(b)
  <2>1. OnboardTypeOK'
    <3>1. EmptyRow \in Row
      BY WorkspaceAssumption DEF EmptyRow, RowOf, Row, Number, Empty
    <3> QED
      BY <1>2, <1>3, <1>13, <3>1 DEF RevokeAndClear
  <2>2. UNCHANGED <<files, csrs, job, jobs, stored, requests>>
    BY <1>13 DEF RevokeAndClear, sdkVars, billVars
  <2> QED
    BY <2>1, <2>2 DEF SInv, TypeOK, SDKTypeOK, StoredOK, RequestsOK
<1> QED
  BY <1>4, <1>5, <1>6, <1>7, <1>8, <1>9, <1>10, <1>11, <1>12, <1>13 DEF OnboardStep

------------------------------------------------------------------------------
(* The bills.                                                              *)

(* The start of a build keeps the invariant: it has a number and an        *)
(* invoice, and nothing is stored of the bill (billDocument.Build).        *)
LEMMA BuildStarts ==
  ASSUME SInv, NEW b \in Branch, NEW n \in 1..MaxICV, BeginBuild(b, n)
  PROVE  SInv'
<1>1. /\ files \in Files /\ csrs \in [Number -> Number] /\ jobs \in N..(N + MaxJobs)
      /\ config[b] \in Row /\ OnboardTypeOK
  BY DEF SInv, TypeOK, SDKTypeOK, OnboardTypeOK
<1> DEFINE x == Unsigned(BillDocument(b, n))
           j == [SignInvoice(Service(b, "build"), x) EXCEPT !.icv = n]
<1>2. x \in XML /\ n \in 0..MaxICV
  BY WorkspaceAssumption DEF BillDocument, Unsigned, XML, Document, Branch, Number, Empty
<1>3. j \in Job /\ Works(b, j, files', stored[b])
  BY <1>1, <1>2, NoJobWorks DEF BeginBuild, SignInvoice, Service, Job, PC, Works, Signing, Row
<1>4. jobs' \in N..(N + MaxJobs) /\ Start(b, j) /\ UNCHANGED <<files, csrs, onboardVars, billVars>>
  BY <1>1, WorkspaceAssumption DEF BeginBuild, MayBegin
<1>5. OnboardTypeOK'
  BY <1>1, <1>4 DEF OnboardTypeOK, onboardVars
<1> HIDE DEF j
<1> QED
  BY <1>1, <1>3, <1>4, <1>5, Moved

(* The other steps of a bill keep the invariant: a build stores a hash of  *)
(* its own bill only, and a submission sends the stored hash only.         *)
LEMMA BillKeeps ==
  ASSUME SInv, NEW b \in Branch,
         ReadSigned(b) \/ ReadRequest(b) \/ CommitBuilt(b) \/ BeginSubmit(b) \/ SendRequest(b)
  PROVE  SInv'
<1>1. /\ job \in [Branch -> Job] /\ job[b] \in Job /\ files \in Files
      /\ csrs \in [Number -> Number] /\ jobs \in N..(N + MaxJobs)
      /\ Works(b, job[b], files, stored[b])
  BY DEF SInv, TypeOK, SDKTypeOK
<1>2. /\ OnboardTypeOK /\ config[b] \in Row
      /\ stored \in [Branch -> Stored \cup {None}] /\ requests \subseteq Branch \X XML
  BY DEF SInv, TypeOK, OnboardTypeOK
<1>3. OnboardTypeOK'
  BY <1>2 DEF OnboardTypeOK, onboardVars, ReadSigned, ReadRequest, CommitBuilt, BeginSubmit, SendRequest
<1>4. CASE ReadSigned(b)
  <2> DEFINE j == GenerateAPIRequest(job[b], files.signed)
  <2>1. files.signed \in XML
    BY <1>1, <1>4 DEF Files, ReadSigned
  <2>2. j \in Job /\ Works(b, j, files', stored[b])
    BY <1>1, <1>4, <2>1 DEF GenerateAPIRequest, Job, PC, Works, Signing, ReadSigned, At
  <2>3. job' = [job EXCEPT ![b] = j] /\ UNCHANGED <<files, csrs, jobs, billVars>>
    BY <1>4 DEF ReadSigned
  <2> HIDE DEF j
  <2> QED
    BY <1>1, <1>3, <2>2, <2>3, Moved
<1>5. CASE ReadRequest(b)
  <2> DEFINE j == [job[b] EXCEPT !.pc = "commit", !.hash = files.api.doc]
  <2>1. UNCHANGED <<files, csrs, jobs, billVars>>
    BY <1>5 DEF ReadRequest
  <2>2. CASE files.api.doc.uuid = b /\ job' = [job EXCEPT ![b] = j]
    <3>1. files.api.doc \in Document
      BY <1>1, <1>5 DEF Files, XML, ReadRequest
    <3>2. j \in Job /\ Works(b, j, files', stored[b])
      BY <1>1, <1>5, <2>2, <3>1 DEF Job, PC, Works, Signing, ReadRequest, At
    <3> HIDE DEF j
    <3> QED
      BY <1>1, <1>3, <2>1, <2>2, <3>2, Moved
  <2> QED
    BY <1>3, <1>5, <2>1, <2>2, Ended DEF ReadRequest
<1>6. CASE CommitBuilt(b)
  <2> DEFINE s == [icv |-> job[b].icv, key |-> job[b].key, cert |-> job[b].csr,
                   xml |-> job[b].xml, hash |-> job[b].hash, clean |-> job[b].clean]
             i == [NoJob EXCEPT !.task = "submit", !.key = job[b].key, !.csr = job[b].csr]
             j == GenerateAPIRequest(i, job[b].xml)
  <2>1. UNCHANGED <<files, csrs, jobs, requests>>
    BY <1>6 DEF CommitBuilt
  <2>2. CASE stored' = [stored EXCEPT ![b] = s] /\ Start(b, j)
    <3>1. /\ job[b].xml \in XML /\ job[b].task = "build" /\ job[b].hash \in Document
          /\ job[b].hash.uuid = b /\ job[b].icv \in 1..MaxICV /\ stored[b] = None
      BY <1>1, <1>6 DEF Works, Signing, CommitBuilt, At
    <3>2. s \in Stored /\ s.hash.uuid = b
      BY <1>1, <3>1 DEF Stored, Job
    <3>3. s # None
      BY <3>2, StoredAssumption
    <3> HIDE DEF s
    <3>4. stored'[b] = s /\ stored' \in [Branch -> Stored \cup {None}]
      BY <1>2, <2>2, <3>2
    <3>5. \A c \in Branch \ {b} : stored'[c] = stored[c]
      BY <1>2, <2>2
    <3>6. j \in Job /\ Works(b, j, files', stored'[b])
      BY <1>1, <3>1, <3>3, <3>4, NoJobWorks DEF GenerateAPIRequest, Job, PC, Works, Signing
    <3> HIDE DEF j
    <3>7. Goes(b, j)
      BY <2>2, <3>6, Started DEF SInv, TypeOK
    <3>8. \A c \in Branch : Works(c, job'[c], files', stored'[c])
      BY <2>1, <3>5, <3>6, <3>7, AllWork
    <3>9. TypeOK'
      BY <1>1, <1>2, <1>3, <2>1, <3>4, <3>7 DEF TypeOK, SDKTypeOK, Goes
    <3>10. StoredOK'
      BY <3>2, <3>4, <3>5 DEF SInv, StoredOK
    <3>11. RequestsOK'
      <4>1. \A r \in requests : r[1] \in Branch /\ r[1] # b
        BY <1>2, <3>1 DEF SInv, RequestsOK
      <4> QED
        BY <2>1, <3>5, <4>1 DEF SInv, RequestsOK
    <3> QED
      BY <3>8, <3>9, <3>10, <3>11 DEF SInv
  <2> HIDE DEF s, j
  <2>3. CASE UNCHANGED stored /\ End(b)
    BY <1>3, <2>1, <2>3, Ended DEF billVars
  <2> QED
    BY <1>6, <2>2, <2>3 DEF CommitBuilt, s, j
<1>7. CASE BeginSubmit(b)
  <2> DEFINE j == GenerateAPIRequest(Service(b, "submit"), stored[b].xml)
  <2>1. stored[b] # None /\ stored[b].xml \in XML
    BY <1>2, <1>7 DEF BeginSubmit, Stored
  <2>2. j \in Job /\ Works(b, j, files', stored[b])
    BY <1>2, <2>1, NoJobWorks DEF GenerateAPIRequest, Service, Job, PC, Works, Signing, Row
  <2>3. jobs' \in N..(N + MaxJobs) /\ Start(b, j) /\ UNCHANGED <<files, csrs, billVars>>
    BY <1>1, <1>7, WorkspaceAssumption DEF BeginSubmit, MayBegin
  <2> HIDE DEF j
  <2> QED
    BY <1>1, <1>3, <2>2, <2>3, Moved
<1>8. CASE SendRequest(b)
  <2>1. stored[b] # None /\ files.api \in XML
    BY <1>1, <1>8 DEF Works, SendRequest, Files
  <2>2. UNCHANGED <<files, csrs, jobs, stored>> /\ job' = [job EXCEPT ![b] = NoJob]
    BY <1>8 DEF SendRequest, End
  <2>3. /\ requests' \subseteq requests \cup {<<b, files.api>>}
        /\ <<b, files.api>> \in requests' \ requests => files.api.doc = stored[b].hash
    BY <1>8 DEF SendRequest
  <2>4. Goes(b, NoJob)
    BY <2>2, Assigned, NoJobWorks DEF SInv, TypeOK
  <2>5. \A c \in Branch : Works(c, job'[c], files', stored'[c])
    BY <2>2, <2>4, AllWork, NoJobWorks
  <2>6. requests' \subseteq Branch \X XML
    BY <1>2, <2>1, <2>3
  <2>7. TypeOK'
    BY <1>1, <1>2, <1>3, <2>2, <2>4, <2>6 DEF TypeOK, SDKTypeOK, Goes
  <2>8. StoredOK'
    BY <2>2 DEF SInv, StoredOK
  <2>9. RequestsOK'
    BY <2>1, <2>2, <2>3 DEF SInv, RequestsOK
  <2> QED
    BY <2>5, <2>7, <2>8, <2>9 DEF SInv
<1> QED
  BY <1>4, <1>5, <1>6, <1>7, <1>8

(* A crash keeps the invariant: it ends all jobs and leaves the rest.      *)
LEMMA CrashKeeps ==
  ASSUME SInv, Crash
  PROVE  SInv'
<1>1. job' = [c \in Branch |-> NoJob] /\ UNCHANGED <<files, csrs, jobs, onboardVars, stored, requests>>
  BY DEF Crash, billVars
<1>2. job' \in [Branch -> Job] /\ \A c \in Branch : job'[c] = NoJob
  BY <1>1, NoJobWorks
<1>3. \A c \in Branch : Works(c, job'[c], files', stored'[c])
  BY <1>2, NoJobWorks
<1>4. TypeOK'
  BY <1>1, <1>2 DEF SInv, TypeOK, SDKTypeOK, OnboardTypeOK, onboardVars
<1>5. StoredOK' /\ RequestsOK'
  BY <1>1 DEF SInv, StoredOK, RequestsOK
<1> QED
  BY <1>3, <1>4, <1>5 DEF SInv

(* The invariant holds in the initial states.                              *)
LEMMA SInvInit == Init => SInv
<1> SUFFICES ASSUME Init PROVE SInv
  OBVIOUS
<1>1. SDKTypeOK
  <2>1. NoFiles \in Files
    BY WorkspaceAssumption DEF NoFiles, Files, Number, Empty
  <2>2. [n \in Number |-> IF n \in Branch THEN n ELSE Empty] \in [Number -> Number]
    BY WorkspaceAssumption DEF Branch, Number, Empty
  <2> QED
    BY <2>1, <2>2, NoJobWorks, WorkspaceAssumption DEF Init, SDKInit, SDKTypeOK
<1>2. OnboardTypeOK
  <2>1. \A n \in Number : RowOf(n) \in Row
    BY DEF RowOf, Row
  <2>2. Branch \subseteq Number /\ Empty \in Number
    BY WorkspaceAssumption DEF Branch, Number, Empty
  <2>3. config \in [Branch -> Row]
    <3>1. PICK R \in SUBSET Branch : config = [b \in Branch |-> IF b \in R THEN RowOf(b) ELSE EmptyRow]
      BY DEF Init, OnboardInit
    <3> QED
      BY <2>1, <2>2, <3>1 DEF EmptyRow
  <2>4. sent \in [Number -> Nat]
    BY DEF Init, OnboardInit
  <2>5. devices \in [Branch -> SUBSET Number]
    <3>1. \A b \in Branch : config[b].identity \in Number
      BY <2>3 DEF Row
    <3> QED
      BY <3>1 DEF Init, OnboardInit
  <2> QED
    BY <2>3, <2>4, <2>5 DEF Init, OnboardInit, OnboardTypeOK
<1>3. /\ stored = [b \in Branch |-> None] /\ requests = {}
      /\ job = [b \in Branch |-> NoJob]
  BY DEF Init, SDKInit
<1>4. TypeOK
  BY <1>1, <1>2, <1>3 DEF TypeOK
<1>5. \A b \in Branch : Works(b, job[b], files, stored[b])
  BY <1>3, NoJobWorks
<1> QED
  BY <1>3, <1>4, <1>5 DEF SInv, StoredOK, RequestsOK

(* Every step keeps the invariant.                                         *)
LEMMA SInvStep == SInv /\ [Next]_vars => SInv'
<1> SUFFICES ASSUME SInv, [Next]_vars PROVE SInv'
  OBVIOUS
<1>1. CASE UNCHANGED vars
  BY <1>1 DEF vars, sdkVars, onboardVars, billVars, SInv, TypeOK, SDKTypeOK, OnboardTypeOK,
              StoredOK, RequestsOK
<1>2. ASSUME NEW b \in Branch, ScriptStep(b) /\ UNCHANGED <<onboardVars, billVars>> PROVE SInv'
  BY <1>2, ScriptKeeps
<1>3. ASSUME NEW b \in Branch, OnboardStep(b) /\ UNCHANGED billVars PROVE SInv'
  BY <1>3, OnboardKeeps
<1>4. ASSUME NEW b \in Branch, NEW n \in 1..MaxICV, BeginBuild(b, n) PROVE SInv'
  BY <1>4, BuildStarts
<1>5. ASSUME NEW b \in Branch,
             ReadSigned(b) \/ ReadRequest(b) \/ CommitBuilt(b) \/ BeginSubmit(b) \/ SendRequest(b)
      PROVE  SInv'
  BY <1>5, BillKeeps
<1>6. CASE Crash
  BY <1>6, CrashKeeps
<1> QED
  BY <1>1, <1>2, <1>3, <1>4, <1>5, <1>6 DEF Next

------------------------------------------------------------------------------
(* SInv is an invariant of the specification.                              *)
THEOREM SInvariance == Spec => []SInv
BY SInvInit, SInvStep, PTL DEF Spec

(* Every reachable state of the jobs, the tool's files, the registrations  *)
(* and the bills is well typed.                                            *)
THEOREM SigningTypeCorrect == Spec => []TypeOK
<1>1. SInv => TypeOK
  BY DEF SInv
<1> QED
  BY <1>1, SInvariance, PTL

(* For any number of branches that sign at once, and whatever fatoora      *)
(* leaves or others write to the shared files, what Submit sends for a     *)
(* bill is an invoice of this bill, with the hash that Build stored.       *)
THEOREM OnlyOwnBillIsSent == Spec => []SentIsOfItsBill
<1>1. SInv => SentIsOfItsBill
  <2> SUFFICES ASSUME SInv, NEW r \in requests
               PROVE  r[2].doc.uuid = r[1] /\ r[2].doc = stored[r[1]].hash
    BY DEF SentIsOfItsBill
  <2>1. r[1] \in Branch
    BY DEF SInv, TypeOK
  <2>2. stored[r[1]] # None /\ r[2].doc = stored[r[1]].hash
    BY DEF SInv, RequestsOK
  <2>3. stored[r[1]].hash.uuid = r[1]
    BY <2>1, <2>2 DEF SInv, StoredOK
  <2> QED
    BY <2>2, <2>3
<1> QED
  BY <1>1, SInvariance, PTL
==============================================================================
