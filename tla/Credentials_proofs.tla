------------------------- MODULE Credentials_proofs -------------------------
(***************************************************************************)
(* Theorems about what an onboarding stores and what a build commits, for  *)
(* any number of branches, attempts and invoice numbers: a branch whose    *)
(* attempts were handed their own CSRs has a certificate of its stored key *)
(* and CSR, and one device at ZATCA; CSRs are not sent twice when every    *)
(* attempt has its own; and a build that met no other script commits the   *)
(* invoice it was booked for, signed with its branch's credentials.        *)
(*                                                                         *)
(* None of these is inductive.  CInv adds what an attempt has stored and   *)
(* has in its locals at each place (BranchOK), that two attempts have      *)
(* different numbers (AttemptsDiffer), and that a CSR whose attempt is not *)
(* yet past the compliance request was not sent (SentOK).  BInv follows    *)
(* the shared files: a clean script is alone (CleanAlone), and the files   *)
(* that it has written hold what its branch put there (BuildOK).  GInv     *)
(* says the same of an attempt's CSR and key (AttemptOK).                  *)
(*                                                                         *)
(* Where no two scripts overlap (Serialised) and fatoora does not fail,    *)
(* every script is clean (AllClean), and the theorems hold for every       *)
(* branch.                                                                 *)
(***************************************************************************)
EXTENDS BillSigning_proofs

(* An attempt until its CSR is sent, and after its CSR is stored.          *)
Making == {"props", "generate", "newestCSR", "newestKey", "save", "compliance"}
Saved == Signing \cup {"compliance", "check", "production", "credentials"}

(* The attempt has passed the checks of loadOnboardBranch.                 *)
Working(j) == j.task = "onboard" /\ j.pc # "load"

(* What holds of one branch.  An attempt in progress means that no         *)
(* certificate is stored, and it has the stored identity if there is one.  *)
(* Where no attempt was handed a foreign CSR or key, one whose CSR is      *)
(* stored has the CSR and key of its own number, and that CSR names its    *)
(* identity.                                                               *)
BranchOK(b) ==
  LET j == job[b]
      row == config[b]
  IN  /\ j.pc \in Making \cup {"load", "check", "production", "credentials"} => j.task = "onboard"
      /\ row.compliance = Empty => row.production = Empty
      /\ Working(j) =>
           /\ row.compliance = Empty
           /\ j.attempt \in (N + 1)..jobs
           /\ j.identity # Empty
           /\ row.identity \in {Empty, j.identity}
      /\ b \notin foreign =>
           /\ Working(j) /\ j.pc \in Saved =>
                /\ j.csr = j.attempt /\ j.key = j.attempt
                /\ csrs[j.attempt] = j.identity /\ row.identity = j.identity
           /\ row.production # Empty =>
                row.key = row.production /\ row.csr = row.production /\ row.compliance = row.production
           /\ devices[b] \subseteq {row.identity} \ {Empty}

(* No two attempts have the same number.                                   *)
AttemptsDiffer ==
  \A b, c \in Branch :
    b # c /\ Working(job[b]) /\ Working(job[c]) => job[b].attempt # job[c].attempt

(* Where all attempts have their own CSR, one that is not sent yet is new. *)
SentOK ==
  foreign = {} =>
    /\ \A n \in Number : sent[n] <= 1 /\ (n > jobs => sent[n] = 0)
    /\ \A b \in Branch : Working(job[b]) /\ job[b].pc \in Making => sent[job[b].attempt] = 0

CInv ==
  /\ \A b \in Branch : BranchOK(b)
  /\ AttemptsDiffer
  /\ SentOK

------------------------------------------------------------------------------
(* Two jobs that differ in their clean only.                               *)
Alike(i, j) ==
  /\ i.task = j.task /\ i.pc = j.pc /\ i.call = j.call
  /\ i.attempt = j.attempt /\ i.identity = j.identity
  /\ i.csr = j.csr /\ i.key = j.key
  /\ i.icv = j.icv /\ i.xml = j.xml /\ i.hash = j.hash

(* A job's clean says nothing of the rest of it.                           *)
LEMMA CleanAlike ==
  ASSUME NEW j \in Job, NEW k
  PROVE  Alike([j EXCEPT !.clean = k], j)
BY DEF Alike, Job

(* A step of b leaves the other branches' jobs as they are, but for their  *)
(* clean.                                                                  *)
LEMMA OthersAlike ==
  ASSUME SInv, NEW b \in Branch, NEW j,
         job' = [job EXCEPT ![b] = j] \/ (j \in Job /\ Start(b, j))
  PROVE  Alike(job'[b], j) /\ \A c \in Branch \ {b} : Alike(job'[c], job[c])
<1>1. job \in [Branch -> Job]
  BY DEF SInv, TypeOK, SDKTypeOK
<1>2. CASE job' = [job EXCEPT ![b] = j]
  BY <1>1, <1>2 DEF Alike
<1>3. CASE j \in Job /\ Start(b, j)
  <2>1. Goes(b, j)
    BY <1>3, Started DEF SInv, TypeOK
  <2>2. Alike(job'[b], j)
    BY <1>3, <2>1, CleanAlike DEF Goes
  <2>3. ASSUME NEW c \in Branch \ {b} PROVE Alike(job'[c], job[c])
    <3>1. Alike(job[c], job[c])
      BY DEF Alike
    <3>2. Alike([job[c] EXCEPT !.clean = FALSE], job[c])
      BY <1>1, CleanAlike
    <3> QED
      BY <2>1, <3>1, <3>2 DEF Goes
  <2> QED
    BY <2>2, <2>3
<1> QED
  BY <1>2, <1>3

(* What has to be shown of a step of b: that b itself is all right after   *)
(* it, that its attempt is the old one or a new one, and SentOK.           *)
LEMMA StepOf ==
  ASSUME SInv, CInv, NEW b \in Branch,
         \A c \in Branch \ {b} :
           /\ Alike(job'[c], job[c]) /\ config'[c] = config[c] /\ devices'[c] = devices[c]
           /\ c \in foreign => c \in foreign'
           /\ Working(job[c]) => csrs'[job[c].attempt] = csrs[job[c].attempt],
         jobs' \in Nat, jobs' >= jobs,
         BranchOK(b)', SentOK',
         Working(job'[b]) => \/ job'[b].attempt = jobs + 1
                             \/ Working(job[b]) /\ job'[b].attempt = job[b].attempt
  PROVE  CInv'
<1>1. \A c \in Branch \ {b} :
        /\ job'[c].task = job[c].task /\ job'[c].pc = job[c].pc /\ job'[c].attempt = job[c].attempt
        /\ job'[c].identity = job[c].identity /\ job'[c].csr = job[c].csr /\ job'[c].key = job[c].key
  BY DEF Alike
<1>2. jobs \in Nat /\ N \in Nat
  BY WorkspaceAssumption DEF SInv, TypeOK, SDKTypeOK
<1>3. \A c \in Branch \ {b} : Working(job'[c]) <=> Working(job[c])
  BY <1>1 DEF Working
<1>4. \A c \in Branch : BranchOK(c)'
  <2> SUFFICES ASSUME NEW c \in Branch \ {b} PROVE BranchOK(c)'
    OBVIOUS
  <2>1. BranchOK(c)
    BY DEF CInv
  <2>2. Working(job[c]) => job[c].attempt \in (N + 1)..jobs'
    BY <1>2, <2>1 DEF BranchOK
  <2> QED
    BY <1>1, <1>3, <2>1, <2>2 DEF BranchOK
<1>5. AttemptsDiffer'
  <2>1. \A c \in Branch : Working(job[c]) => job[c].attempt \in (N + 1)..jobs
    BY DEF CInv, BranchOK
  <2>2. \A c \in Branch : Working(job[c]) => job[c].attempt # jobs + 1
    BY <1>2, <2>1
  <2> QED
    BY <1>1, <1>3, <2>2 DEF CInv, AttemptsDiffer
<1> QED
  BY <1>4, <1>5 DEF CInv

(* A step that stores and sends nothing keeps the invariant, if b goes on  *)
(* with its attempt or has none.                                           *)
LEMMA Quiet ==
  ASSUME SInv, CInv, NEW b \in Branch, NEW j,
         Alike(job'[b], j), \A c \in Branch \ {b} : Alike(job'[c], job[c]),
         UNCHANGED onboardVars, jobs' \in Nat, jobs' >= jobs,
         \/ UNCHANGED csrs
         \/ /\ j.pc \notin Saved
            /\ \A c \in Branch \ {b} : Working(job[c]) => csrs'[job[c].attempt] = csrs[job[c].attempt],
         j.pc \in Making \cup {"load", "check", "production", "credentials"} => j.task = "onboard",
         Working(j) =>
           /\ Working(job[b]) /\ j.attempt = job[b].attempt /\ j.identity = job[b].identity
           /\ j.pc \in Saved => job[b].pc \in Saved /\ j.csr = job[b].csr /\ j.key = job[b].key
           /\ j.pc \in Making => job[b].pc \in Making
  PROVE  CInv'
<1>1. UNCHANGED <<config, sent, devices, foreign>>
  BY DEF onboardVars
<1>2. /\ job'[b].task = j.task /\ job'[b].pc = j.pc /\ job'[b].attempt = j.attempt
      /\ job'[b].identity = j.identity /\ job'[b].csr = j.csr /\ job'[b].key = j.key
  BY DEF Alike
<1>3. \A c \in Branch \ {b} :
        job'[c].task = job[c].task /\ job'[c].pc = job[c].pc /\ job'[c].attempt = job[c].attempt
  BY DEF Alike
<1>4. jobs \in Nat /\ N \in Nat
  BY WorkspaceAssumption DEF SInv, TypeOK, SDKTypeOK
<1>5. BranchOK(b)'
  <2>1. BranchOK(b)
    BY DEF CInv
  <2>2. Working(job[b]) => job[b].attempt \in (N + 1)..jobs'
    BY <1>4, <2>1 DEF BranchOK
  <2>3. Working(job'[b]) <=> Working(j)
    BY <1>2 DEF Working
  <2> QED
    BY <1>1, <1>2, <2>1, <2>2, <2>3 DEF BranchOK
<1>6. SentOK'
  <2>1. \A c \in Branch : Working(job'[c]) /\ job'[c].pc \in Making =>
          Working(job[c]) /\ job[c].pc \in Making /\ job'[c].attempt = job[c].attempt
    BY <1>2, <1>3 DEF Working
  <2>2. \A n \in Number : n > jobs' => n > jobs
    BY <1>4 DEF Number
  <2> QED
    BY <1>1, <2>1, <2>2 DEF CInv, SentOK
<1>7. Working(job'[b]) => Working(job[b]) /\ job'[b].attempt = job[b].attempt
  BY <1>2 DEF Working
<1> QED
  BY <1>1, <1>5, <1>6, <1>7, StepOf

(* A job that ends, where nothing is stored, sent or generated.            *)
LEMMA QuietEnd ==
  ASSUME SInv, CInv, NEW b \in Branch, End(b), UNCHANGED <<csrs, jobs, onboardVars>>
  PROVE  CInv'
<1>1. job' = [job EXCEPT ![b] = NoJob]
  BY DEF End
<1>2. Alike(job'[b], NoJob) /\ \A c \in Branch \ {b} : Alike(job'[c], job[c])
  BY <1>1, OthersAlike
<1>3. NoJob.pc = "none" /\ NoJob.task = "none" /\ jobs \in Nat
  BY WorkspaceAssumption DEF NoJob, SInv, TypeOK, SDKTypeOK
<1>4. jobs' \in Nat /\ jobs' >= jobs
  BY <1>3
<1>5. /\ NoJob.pc \notin Making \cup {"load", "check", "production", "credentials"}
      /\ ~Working(NoJob)
  BY <1>3 DEF Making, Working
<1> QED
  BY <1>2, <1>4, <1>5, Quiet
------------------------------------------------------------------------------
(* The scripts.                                                            *)

(* Every command of a script but GenerateCSR leaves the attempt as it is,  *)
(* or sets its CSR and key before they are stored (sdk.go).                *)
LEMMA ScriptKeepsCredentials ==
  ASSUME SInv, CInv, NEW b \in Branch, ScriptStep(b), ~GenerateCSR(b), UNCHANGED onboardVars
  PROVE  CInv'
<1>1. job[b] \in Job /\ jobs \in Nat
  BY WorkspaceAssumption DEF SInv, TypeOK, SDKTypeOK
<1>2. job[b].pc \in Making => job[b].task = "onboard"
  BY DEF CInv, BranchOK
<1>3. CASE WriteKey(b)
  <2> DEFINE j == [job[b] EXCEPT !.pc = "cert"]
  <2>1. job' = [job EXCEPT ![b] = j] /\ UNCHANGED <<csrs, jobs>>
    BY <1>3 DEF WriteKey, Move
  <2>2. /\ j.task = job[b].task /\ j.attempt = job[b].attempt /\ j.identity = job[b].identity
        /\ j.pc = ("cert")
        /\ j.csr = job[b].csr /\ j.key = job[b].key
    BY <1>1 DEF Job
  <2>3. At(b, "key")
    BY <1>3 DEF WriteKey
  <2> HIDE DEF j
  <2>4. Alike(job'[b], j) /\ \A c \in Branch \ {b} : Alike(job'[c], job[c])
    BY <2>1, OthersAlike
  <2> QED
    BY <1>1, <1>2, <2>1, <2>2, <2>3, <2>4, Quiet DEF Working, Making, Saved, Signing, At
<1>4. CASE WriteCert(b)
  <2> DEFINE j == [job[b] EXCEPT !.pc = "xml"]
  <2>1. job' = [job EXCEPT ![b] = j] /\ UNCHANGED <<csrs, jobs>>
    BY <1>4 DEF WriteCert, Move
  <2>2. /\ j.task = job[b].task /\ j.attempt = job[b].attempt /\ j.identity = job[b].identity
        /\ j.pc = ("xml")
        /\ j.csr = job[b].csr /\ j.key = job[b].key
    BY <1>1 DEF Job
  <2>3. At(b, "cert")
    BY <1>4 DEF WriteCert
  <2> HIDE DEF j
  <2>4. Alike(job'[b], j) /\ \A c \in Branch \ {b} : Alike(job'[c], job[c])
    BY <2>1, OthersAlike
  <2> QED
    BY <1>1, <1>2, <2>1, <2>2, <2>3, <2>4, Quiet DEF Working, Making, Saved, Signing, At
<1>5. CASE WriteInvoice(b)
  <2> DEFINE j == [job[b] EXCEPT !.pc = "tool"]
  <2>1. job' = [job EXCEPT ![b] = j] /\ UNCHANGED <<csrs, jobs>>
    BY <1>5 DEF WriteInvoice, Move
  <2>2. /\ j.task = job[b].task /\ j.attempt = job[b].attempt /\ j.identity = job[b].identity
        /\ j.pc = ("tool")
        /\ j.csr = job[b].csr /\ j.key = job[b].key
    BY <1>1 DEF Job
  <2>3. At(b, "xml")
    BY <1>5 DEF WriteInvoice
  <2> HIDE DEF j
  <2>4. Alike(job'[b], j) /\ \A c \in Branch \ {b} : Alike(job'[c], job[c])
    BY <2>1, OthersAlike
  <2> QED
    BY <1>1, <1>2, <2>1, <2>2, <2>3, <2>4, Quiet DEF Working, Making, Saved, Signing, At
<1>6. CASE RunTool(b)
  <2> DEFINE j == [job[b] EXCEPT !.pc = "output"]
  <2>1. job' = [job EXCEPT ![b] = j] /\ UNCHANGED <<csrs, jobs>>
    BY <1>6 DEF RunTool, Move
  <2>2. /\ j.task = job[b].task /\ j.attempt = job[b].attempt /\ j.identity = job[b].identity
        /\ j.pc = ("output")
        /\ j.csr = job[b].csr /\ j.key = job[b].key
    BY <1>1 DEF Job
  <2>3. At(b, "tool")
    BY <1>6 DEF RunTool
  <2> HIDE DEF j
  <2>4. Alike(job'[b], j) /\ \A c \in Branch \ {b} : Alike(job'[c], job[c])
    BY <2>1, OthersAlike
  <2> QED
    BY <1>1, <1>2, <2>1, <2>2, <2>3, <2>4, Quiet DEF Working, Making, Saved, Signing, At
<1>7. CASE ToolFails(b)
  <2> DEFINE j == [job[b] EXCEPT !.pc = IF job[b].pc = "tool" THEN "output" ELSE "newestCSR", !.clean = FALSE]
  <2>1. job' = [job EXCEPT ![b] = j] /\ UNCHANGED <<csrs, jobs>>
    BY <1>7 DEF ToolFails, Move
  <2>2. /\ j.task = job[b].task /\ j.attempt = job[b].attempt /\ j.identity = job[b].identity
        /\ j.pc = (IF job[b].pc = "tool" THEN "output" ELSE "newestCSR")
        /\ j.csr = job[b].csr /\ j.key = job[b].key
    BY <1>1 DEF Job
  <2>3. job[b].pc \in {"tool", "generate"}
    BY <1>7 DEF ToolFails
  <2> HIDE DEF j
  <2>4. Alike(job'[b], j) /\ \A c \in Branch \ {b} : Alike(job'[c], job[c])
    BY <2>1, OthersAlike
  <2> QED
    BY <1>1, <1>2, <2>1, <2>2, <2>3, <2>4, Quiet DEF Working, Making, Saved, Signing, At
<1>8. CASE WriteProperties(b)
  <2> DEFINE j == [job[b] EXCEPT !.pc = "generate"]
  <2>1. job' = [job EXCEPT ![b] = j] /\ UNCHANGED <<csrs, jobs>>
    BY <1>8 DEF WriteProperties, Move
  <2>2. /\ j.task = job[b].task /\ j.attempt = job[b].attempt /\ j.identity = job[b].identity
        /\ j.pc = ("generate")
        /\ j.csr = job[b].csr /\ j.key = job[b].key
    BY <1>1 DEF Job
  <2>3. At(b, "props")
    BY <1>8 DEF WriteProperties
  <2> HIDE DEF j
  <2>4. Alike(job'[b], j) /\ \A c \in Branch \ {b} : Alike(job'[c], job[c])
    BY <2>1, OthersAlike
  <2> QED
    BY <1>1, <1>2, <2>1, <2>2, <2>3, <2>4, Quiet DEF Working, Making, Saved, Signing, At
<1>9. CASE NewestCSR(b)
  <2> DEFINE j == [job[b] EXCEPT !.pc = "newestKey", !.csr = files.csr]
  <2>1. job' = [job EXCEPT ![b] = j] /\ UNCHANGED <<csrs, jobs>>
    BY <1>9 DEF NewestCSR, Move
  <2>2. /\ j.task = job[b].task /\ j.attempt = job[b].attempt /\ j.identity = job[b].identity
        /\ j.pc = ("newestKey")
    BY <1>1 DEF Job
  <2>3. At(b, "newestCSR")
    BY <1>9 DEF NewestCSR
  <2> HIDE DEF j
  <2>4. Alike(job'[b], j) /\ \A c \in Branch \ {b} : Alike(job'[c], job[c])
    BY <2>1, OthersAlike
  <2> QED
    BY <1>1, <1>2, <2>1, <2>2, <2>3, <2>4, Quiet DEF Working, Making, Saved, Signing, At
<1>10. CASE NewestKey(b)
  <2> DEFINE j == [job[b] EXCEPT !.pc = "save", !.key = files.pem]
  <2>1. job' = [job EXCEPT ![b] = j] /\ UNCHANGED <<csrs, jobs>>
    BY <1>10 DEF NewestKey, Move
  <2>2. /\ j.task = job[b].task /\ j.attempt = job[b].attempt /\ j.identity = job[b].identity
        /\ j.pc = ("save")
    BY <1>1 DEF Job
  <2>3. At(b, "newestKey")
    BY <1>10 DEF NewestKey
  <2> HIDE DEF j
  <2>4. Alike(job'[b], j) /\ \A c \in Branch \ {b} : Alike(job'[c], job[c])
    BY <2>1, OthersAlike
  <2> QED
    BY <1>1, <1>2, <2>1, <2>2, <2>3, <2>4, Quiet DEF Working, Making, Saved, Signing, At
<1>11. CASE ScriptFails(b)
  BY <1>11, QuietEnd DEF ScriptFails
<1> QED
  BY <1>3, <1>4, <1>5, <1>6, <1>7, <1>8, <1>9, <1>10, <1>11 DEF ScriptStep

(* A CSR is made under the number of its attempt, so it is no other        *)
(* attempt's.                                                              *)
LEMMA GenerateKeepsCredentials ==
  ASSUME SInv, CInv, NEW b \in Branch, GenerateCSR(b), UNCHANGED onboardVars
  PROVE  CInv'
<1>1. job[b] \in Job /\ jobs \in Nat /\ csrs \in [Number -> Number]
  BY WorkspaceAssumption DEF SInv, TypeOK, SDKTypeOK
<1>2. At(b, "generate") /\ Working(job[b])
  BY DEF GenerateCSR, At, CInv, BranchOK, Making, Working
<1> DEFINE j == [job[b] EXCEPT !.pc = "newestCSR"]
<1>3. job' = [job EXCEPT ![b] = j] /\ UNCHANGED jobs
  BY DEF GenerateCSR, Move
<1>4. /\ j.task = job[b].task /\ j.attempt = job[b].attempt /\ j.identity = job[b].identity
      /\ j.pc = "newestCSR"
  BY <1>1 DEF Job
<1> HIDE DEF j
<1>5. Alike(job'[b], j) /\ \A c \in Branch \ {b} : Alike(job'[c], job[c])
  BY <1>3, OthersAlike
<1>6. \A c \in Branch \ {b} : Working(job[c]) => csrs'[job[c].attempt] = csrs[job[c].attempt]
  <2> SUFFICES ASSUME NEW c \in Branch \ {b}, Working(job[c])
               PROVE  csrs'[job[c].attempt] = csrs[job[c].attempt]
    OBVIOUS
  <2>1. job[c].attempt # job[b].attempt
    BY <1>2 DEF CInv, AttemptsDiffer
  <2>2. job[c].attempt \in Number
    BY DEF SInv, TypeOK, SDKTypeOK, Job
  <2> QED
    BY <1>1, <2>1, <2>2 DEF GenerateCSR
<1> QED
  BY <1>1, <1>2, <1>3, <1>4, <1>5, <1>6, Quiet DEF Working, Making, Saved, Signing, At

------------------------------------------------------------------------------
(* The onboardings.                                                        *)

(* An attempt that passes loadOnboardBranch gets a new number, and the     *)
(* stored identity or a new one.                                           *)
LEMMA LoadKeepsCredentials ==
  ASSUME SInv, CInv, NEW b \in Branch, Load(b)
  PROVE  CInv'
<1>1. job[b] \in Job /\ jobs \in N..(N + MaxJobs) /\ N \in Nat /\ MaxJobs \in Nat /\ config[b] \in Row
  BY WorkspaceAssumption DEF SInv, TypeOK, SDKTypeOK, OnboardTypeOK
<1>2. jobs + 1 \in Number /\ jobs' = jobs + 1 /\ jobs \in Nat
  BY <1>1 DEF Load, MayBegin, Number
<1> DEFINE i == IF config[b].identity # Empty THEN config[b].identity ELSE jobs + 1
           j == [job[b] EXCEPT !.pc = "props", !.attempt = jobs + 1, !.identity = i]
<1>3. Start(b, j) /\ UNCHANGED <<csrs, onboardVars>> /\ job[b].task = "onboard"
  BY DEF Load, onboardVars, At, CInv, BranchOK
<1>4. i \in Number /\ i # Empty /\ config[b].identity \in {Empty, i}
  BY <1>1, <1>2 DEF Row, Empty
<1> HIDE DEF i
<1>5. /\ j \in Job /\ j.task = "onboard" /\ j.attempt = jobs + 1 /\ j.identity = i /\ j.pc = "props"
  BY <1>1, <1>2, <1>3, <1>4 DEF Job, PC
<1> HIDE DEF j
<1>6. Alike(job'[b], j) /\ \A c \in Branch \ {b} : Alike(job'[c], job[c])
  BY <1>3, <1>5, OthersAlike
<1>7. /\ job'[b].task = "onboard" /\ job'[b].pc = "props"
      /\ job'[b].attempt = jobs + 1 /\ job'[b].identity = i
  BY <1>5, <1>6 DEF Alike
<1>8. UNCHANGED <<config, sent, devices, foreign>> /\ config[b].compliance = Empty
  BY <1>3 DEF onboardVars, Load
<1>9. BranchOK(b)'
  <2>1. jobs + 1 \in (N + 1)..jobs'
    BY <1>1, <1>2
  <2>2. BranchOK(b)
    BY DEF CInv
  <2> QED
    BY <1>3, <1>4, <1>7, <1>8, <2>1, <2>2 DEF BranchOK, Working, Saved, Signing
<1>10. SentOK'
  <2>1. \A c \in Branch \ {b} : job'[c].task = job[c].task /\ job'[c].pc = job[c].pc
                                /\ job'[c].attempt = job[c].attempt
    BY <1>6 DEF Alike
  <2>2. \A n \in Number : n > jobs' => n > jobs
    BY <1>2 DEF Number
  <2>3. jobs + 1 > jobs
    BY <1>2
  <2>4. foreign = {} => sent[jobs + 1] = 0
    BY <1>2, <2>3 DEF CInv, SentOK
  <2> QED
    BY <1>7, <1>8, <2>1, <2>2, <2>4 DEF CInv, SentOK, Working
<1> QED
  BY <1>2, <1>3, <1>6, <1>7, <1>8, <1>9, <1>10, StepOf

(* saveOnboardCSR stores what the tool gave, and foreign says whether it   *)
(* is the attempt's own.                                                   *)
LEMMA SaveKeepsCredentials ==
  ASSUME SInv, CInv, NEW b \in Branch, SaveOnboardCSR(b)
  PROVE  CInv'
<1>1. /\ job[b] \in Job /\ jobs \in Nat /\ config[b] \in Row /\ config \in [Branch -> Row]
      /\ foreign \subseteq Branch
  BY WorkspaceAssumption DEF SInv, TypeOK, SDKTypeOK, OnboardTypeOK
<1>2. At(b, "save") /\ Working(job[b]) /\ BranchOK(b)
  BY DEF SaveOnboardCSR, At, CInv, BranchOK, Making, Working
<1>3. UNCHANGED <<csrs, jobs, sent, devices>> /\ foreign' = IF IsForeign(job[b]) THEN foreign \cup {b} ELSE foreign
  BY DEF SaveOnboardCSR
<1>4. \/ config' = config
      \/ config'[b] = [config[b] EXCEPT !.csr = job[b].csr, !.key = job[b].key, !.identity = job[b].identity]
  BY <1>1 DEF SaveOnboardCSR, StoreCSR
<1>5. /\ \A c \in Branch \ {b} : config'[c] = config[c]
      /\ config'[b].compliance = Empty /\ config'[b].production = Empty
      /\ config'[b].identity \in {config[b].identity, job[b].identity}
  BY <1>1, <1>2, <1>4 DEF SaveOnboardCSR, StoreCSR, Row, BranchOK
<1>6. job[b].identity # Empty /\ config[b].identity \in {Empty, job[b].identity}
  BY <1>2 DEF BranchOK
<1>7. b \notin foreign' => /\ b \notin foreign
                           /\ job[b].csr = job[b].attempt /\ job[b].key = job[b].attempt
                           /\ csrs[job[b].attempt] = job[b].identity
  BY <1>3 DEF IsForeign
<1>8. b \notin foreign' => devices[b] \subseteq {config'[b].identity} \ {Empty}
  <2> SUFFICES ASSUME b \notin foreign' PROVE devices[b] \subseteq {config'[b].identity} \ {Empty}
    OBVIOUS
  <2>1. devices[b] \subseteq {config[b].identity} \ {Empty}
    BY <1>2, <1>7 DEF BranchOK
  <2> QED
    BY <1>5, <1>6, <2>1
<1>9. ASSUME NEW j, Alike(job'[b], j), \A c \in Branch \ {b} : Alike(job'[c], job[c]),
             \/ /\ j.task = "none" /\ j.pc = "none"
             \/ /\ j.task = job[b].task /\ j.attempt = job[b].attempt /\ j.identity = job[b].identity
                /\ j.pc = "compliance" /\ j.csr = job[b].csr /\ j.key = job[b].key
                /\ config'[b].identity = job[b].identity
      PROVE  CInv'
  <2>1. /\ job'[b].task = j.task /\ job'[b].pc = j.pc /\ job'[b].attempt = j.attempt
        /\ job'[b].identity = j.identity /\ job'[b].csr = j.csr /\ job'[b].key = j.key
    BY <1>9 DEF Alike
  <2>2. Working(job'[b]) => job'[b].attempt = job[b].attempt
    BY <1>9, <2>1 DEF Working
  <2>3. BranchOK(b)'
    <3>1. CASE j.pc = "none" /\ j.task = "none"
      BY <1>5, <1>8, <2>1, <1>3, <3>1 DEF BranchOK, Working, Making, Saved, Signing
    <3>2. CASE j.pc = "compliance" /\ j.task = job[b].task
      BY <1>2, <1>3, <1>5, <1>6, <1>7, <1>8, <1>9, <2>1, <3>2 DEF BranchOK, Working, Making, Saved, Signing, At
    <3> QED
      BY <1>9, <3>1, <3>2
  <2>4. SentOK'
    <3>1. foreign' = {} => foreign = {}
      BY <1>3
    <3>2. \A c \in Branch : Working(job'[c]) /\ job'[c].pc \in Making =>
            Working(job[c]) /\ job[c].pc \in Making /\ job'[c].attempt = job[c].attempt
      BY <1>2, <1>9, <2>1, <2>2 DEF Alike, Working, Making, At
    <3> QED
      BY <1>3, <3>1, <3>2 DEF CInv, SentOK
  <2> QED
    BY <1>1, <1>2, <1>3, <1>5, <1>9, <2>2, <2>3, <2>4, StepOf
<1>10. CASE End(b)
  <2>1. job' = [job EXCEPT ![b] = NoJob] /\ NoJob.task = "none" /\ NoJob.pc = "none"
    BY <1>10 DEF End, NoJob
  <2> QED
    BY <1>9, <2>1, OthersAlike
<1>11. CASE StoreCSR(b) /\ Move(b, "compliance")
  <2> DEFINE j == [job[b] EXCEPT !.pc = "compliance"]
  <2>1. job' = [job EXCEPT ![b] = j]
    BY <1>11 DEF Move
  <2>2. /\ j.task = job[b].task /\ j.attempt = job[b].attempt /\ j.identity = job[b].identity
        /\ j.pc = "compliance" /\ j.csr = job[b].csr /\ j.key = job[b].key
    BY <1>1 DEF Job
  <2>3. config'[b].identity = job[b].identity
    BY <1>1, <1>11 DEF StoreCSR, Row
  <2> HIDE DEF j
  <2> QED
    BY <1>9, <2>1, <2>2, <2>3, OthersAlike
<1> QED
  BY <1>10, <1>11 DEF SaveOnboardCSR

(* ComplianceCSID sends the attempt's CSR: where all have their own, that  *)
(* is one that was not sent before, and no other attempt's.                *)
LEMMA SendKeepsCredentials ==
  ASSUME SInv, CInv, NEW b \in Branch, ComplianceCSID(b)
  PROVE  CInv'
<1>1. /\ job[b] \in Job /\ jobs \in Nat /\ N \in Nat /\ sent \in [Number -> Nat]
      /\ job[b].csr \in Number /\ job[b].attempt \in Number
  BY WorkspaceAssumption DEF SInv, TypeOK, SDKTypeOK, OnboardTypeOK, Job
<1>2. At(b, "compliance") /\ Working(job[b]) /\ BranchOK(b)
  BY DEF ComplianceCSID, At, CInv, BranchOK, Making, Working
<1>3. UNCHANGED <<csrs, jobs, config, devices, foreign>>
  BY DEF ComplianceCSID
<1>4. sent' = [sent EXCEPT ![job[b].csr] = sent[job[b].csr] + 1]
  BY DEF ComplianceCSID
<1>5. ASSUME NEW j, Alike(job'[b], j), \A c \in Branch \ {b} : Alike(job'[c], job[c]),
             \/ j.task = "none" /\ j.pc = "none"
             \/ /\ j.task = job[b].task /\ j.attempt = job[b].attempt /\ j.identity = job[b].identity
                /\ j.pc = "key" /\ j.csr = job[b].csr /\ j.key = job[b].key
      PROVE  CInv'
  <2>1. /\ job'[b].task = j.task /\ job'[b].pc = j.pc /\ job'[b].attempt = j.attempt
        /\ job'[b].identity = j.identity /\ job'[b].csr = j.csr /\ job'[b].key = j.key
    BY <1>5 DEF Alike
  <2>2. BranchOK(b)'
    BY <1>2, <1>3, <1>5, <2>1 DEF BranchOK, Working, Making, Saved, Signing, At
  <2>3. SentOK'
    <3> SUFFICES ASSUME foreign = {}
                 PROVE  /\ \A n \in Number : sent'[n] <= 1 /\ (n > jobs => sent'[n] = 0)
                        /\ \A c \in Branch : Working(job'[c]) /\ job'[c].pc \in Making => sent'[job'[c].attempt] = 0
      BY <1>3 DEF SentOK
    <3>1. job[b].csr = job[b].attempt /\ job[b].attempt \in (N + 1)..jobs
      BY <1>2 DEF BranchOK, Saved, At
    <3>2. sent[job[b].attempt] = 0
      BY <1>2 DEF CInv, SentOK, Making, At
    <3>3. ASSUME NEW n \in Number PROVE sent'[n] <= 1 /\ (n > jobs => sent'[n] = 0)
      <4>1. sent[n] <= 1 /\ (n > jobs => sent[n] = 0)
        BY DEF CInv, SentOK
      <4>2. n > jobs => n # job[b].csr
        BY <1>1, <3>1
      <4> QED
        BY <1>1, <1>4, <3>1, <3>2, <4>1, <4>2
    <3>4. ASSUME NEW c \in Branch, Working(job'[c]), job'[c].pc \in Making PROVE sent'[job'[c].attempt] = 0
      <4>1. c # b
        BY <1>5, <2>1, <3>4 DEF Making, Working
      <4>2. Working(job[c]) /\ job[c].pc \in Making /\ job'[c].attempt = job[c].attempt
        BY <1>5, <3>4, <4>1 DEF Alike, Working
      <4>3. job[c].attempt # job[b].attempt /\ sent[job[c].attempt] = 0
        BY <1>2, <4>1, <4>2 DEF CInv, AttemptsDiffer, SentOK
      <4>4. job[c].attempt \in Number
        BY DEF SInv, TypeOK, SDKTypeOK, Job
      <4> QED
        BY <1>1, <1>4, <3>1, <4>2, <4>3, <4>4
    <3> QED
      BY <3>3, <3>4
  <2>4. Working(job'[b]) => job'[b].attempt = job[b].attempt
    BY <1>5, <2>1 DEF Working
  <2> QED
    BY <1>1, <1>2, <1>3, <1>5, <2>2, <2>3, <2>4, StepOf
<1>6. CASE End(b)
  <2>1. job' = [job EXCEPT ![b] = NoJob] /\ NoJob.task = "none" /\ NoJob.pc = "none"
    BY <1>6 DEF End, NoJob
  <2> QED
    BY <1>5, <2>1, OthersAlike
<1> DEFINE j == [SignInvoice(job[b], ComplianceInvoice(b, 1)) EXCEPT !.icv = 1]
<1>7. CASE Start(b, j)
  <2>1. 1 \in 1..MaxICV /\ 1 \in 0..MaxICV
    BY OnboardingAssumption, WorkspaceAssumption
  <2>2. ComplianceInvoice(b, 1) \in XML
    BY <2>1, TestInvoice
  <2>3. /\ j \in Job
        /\ j.task = job[b].task /\ j.attempt = job[b].attempt /\ j.identity = job[b].identity
        /\ j.pc = "key" /\ j.csr = job[b].csr /\ j.key = job[b].key
    BY <1>1, <2>1, <2>2 DEF SignInvoice, Job, PC
  <2> HIDE DEF j
  <2> QED
    BY <1>5, <1>7, <2>3, OthersAlike
<1> QED
  BY <1>6, <1>7 DEF ComplianceCSID

(* ProductionCSID registers the device that the CSR names, which is the    *)
(* stored identity where the CSR is the attempt's own.                     *)
LEMMA ProductionKeepsCredentials ==
  ASSUME SInv, CInv, NEW b \in Branch, ProductionCSID(b)
  PROVE  CInv'
<1>1. job[b] \in Job /\ jobs \in Nat /\ devices \in [Branch -> SUBSET Number]
  BY WorkspaceAssumption DEF SInv, TypeOK, SDKTypeOK, OnboardTypeOK
<1>2. At(b, "production") /\ Working(job[b]) /\ BranchOK(b)
  BY DEF ProductionCSID, At, CInv, BranchOK, Making, Working
<1>3. UNCHANGED <<csrs, jobs, config, sent, foreign>>
  BY DEF ProductionCSID
<1>4. /\ \A c \in Branch \ {b} : devices'[c] = devices[c]
      /\ devices'[b] \subseteq devices[b] \cup {csrs[job[b].csr]}
  BY <1>1 DEF ProductionCSID
<1>5. b \notin foreign => devices'[b] \subseteq {config[b].identity} \ {Empty}
  <2> SUFFICES ASSUME b \notin foreign PROVE devices'[b] \subseteq {config[b].identity} \ {Empty}
    OBVIOUS
  <2>1. csrs[job[b].csr] = job[b].identity /\ config[b].identity = job[b].identity /\ job[b].identity # Empty
    BY <1>2 DEF BranchOK, Saved, At
  <2>2. devices[b] \subseteq {config[b].identity} \ {Empty}
    BY <1>2 DEF BranchOK
  <2> QED
    BY <1>4, <2>1, <2>2
<1>6. ASSUME NEW j, Alike(job'[b], j), \A c \in Branch \ {b} : Alike(job'[c], job[c]),
             \/ j.task = "none" /\ j.pc = "none"
             \/ /\ j.task = job[b].task /\ j.attempt = job[b].attempt /\ j.identity = job[b].identity
                /\ j.pc = "credentials" /\ j.csr = job[b].csr /\ j.key = job[b].key
      PROVE  CInv'
  <2>1. /\ job'[b].task = j.task /\ job'[b].pc = j.pc /\ job'[b].attempt = j.attempt
        /\ job'[b].identity = j.identity /\ job'[b].csr = j.csr /\ job'[b].key = j.key
    BY <1>6 DEF Alike
  <2>2. BranchOK(b)'
    BY <1>2, <1>3, <1>5, <1>6, <2>1 DEF BranchOK, Working, Making, Saved, Signing, At
  <2>3. SentOK'
    <3>1. \A c \in Branch : Working(job'[c]) /\ job'[c].pc \in Making =>
            Working(job[c]) /\ job[c].pc \in Making /\ job'[c].attempt = job[c].attempt
      BY <1>6, <2>1 DEF Alike, Working, Making
    <3> QED
      BY <1>3, <3>1 DEF CInv, SentOK
  <2>4. Working(job'[b]) => job'[b].attempt = job[b].attempt
    BY <1>6, <2>1 DEF Working
  <2> QED
    BY <1>1, <1>2, <1>3, <1>4, <1>6, <2>2, <2>3, <2>4, StepOf
<1>7. CASE End(b)
  <2>1. job' = [job EXCEPT ![b] = NoJob] /\ NoJob.task = "none" /\ NoJob.pc = "none"
    BY <1>7 DEF End, NoJob
  <2> QED
    BY <1>6, <2>1, OthersAlike
<1>8. CASE Move(b, "credentials")
  <2> DEFINE j == [job[b] EXCEPT !.pc = "credentials"]
  <2>1. job' = [job EXCEPT ![b] = j]
    BY <1>8 DEF Move
  <2>2. /\ j.task = job[b].task /\ j.attempt = job[b].attempt /\ j.identity = job[b].identity
        /\ j.pc = "credentials" /\ j.csr = job[b].csr /\ j.key = job[b].key
    BY <1>1 DEF Job
  <2> HIDE DEF j
  <2> QED
    BY <1>6, <2>1, <2>2, OthersAlike
<1> QED
  BY <1>7, <1>8 DEF ProductionCSID

(* The credentials are stored in one statement: the key and CSR of the     *)
(* attempt together with its certificates.                                 *)
LEMMA StoreKeepsCredentials ==
  ASSUME SInv, CInv, NEW b \in Branch, SaveCredentials(b)
  PROVE  CInv'
<1>1. job[b] \in Job /\ jobs \in Nat /\ config \in [Branch -> Row] /\ config[b] \in Row
  BY WorkspaceAssumption DEF SInv, TypeOK, SDKTypeOK, OnboardTypeOK
<1>2. At(b, "credentials") /\ Working(job[b]) /\ BranchOK(b)
  BY DEF SaveCredentials, At, CInv, BranchOK, Making, Working
<1>3. UNCHANGED <<csrs, jobs, sent, devices, foreign>> /\ job' = [job EXCEPT ![b] = NoJob]
  BY DEF SaveCredentials, End
<1>4. NoJob.task = "none" /\ NoJob.pc = "none"
  BY DEF NoJob
<1>5. Alike(job'[b], NoJob) /\ \A c \in Branch \ {b} : Alike(job'[c], job[c])
  BY <1>3, OthersAlike
<1>6. job'[b].task = "none" /\ job'[b].pc = "none"
  BY <1>4, <1>5 DEF Alike
<1>7. \A c \in Branch \ {b} : config'[c] = config[c]
  BY <1>1 DEF SaveCredentials, StoreCredentials
<1>8. \/ config'[b] = config[b]
      \/ config'[b] = [csr |-> job[b].csr, key |-> job[b].key, identity |-> config[b].identity,
                       compliance |-> job[b].csr, production |-> job[b].csr]
  BY <1>1 DEF SaveCredentials, StoreCredentials
<1>9. BranchOK(b)'
  BY <1>2, <1>3, <1>6, <1>8 DEF BranchOK, Working, Making, Saved, Signing, At
<1>10. SentOK'
  <2>1. \A c \in Branch : Working(job'[c]) /\ job'[c].pc \in Making =>
          Working(job[c]) /\ job[c].pc \in Making /\ job'[c].attempt = job[c].attempt
    BY <1>5, <1>6 DEF Alike, Working, Making
  <2> QED
    BY <1>3, <2>1 DEF CInv, SentOK
<1>11. ~Working(job'[b])
  BY <1>6 DEF Working
<1> QED
  BY <1>1, <1>3, <1>5, <1>7, <1>9, <1>10, <1>11, StepOf

(* The operator clears a branch that has its certificates, so no attempt   *)
(* of it is in progress.                                                   *)
LEMMA RevokeKeepsCredentials ==
  ASSUME SInv, CInv, NEW b \in Branch, RevokeAndClear(b)
  PROVE  CInv'
<1>1. jobs \in Nat /\ config \in [Branch -> Row] /\ devices \in [Branch -> SUBSET Number]
  BY WorkspaceAssumption DEF SInv, TypeOK, SDKTypeOK, OnboardTypeOK
<1>2. UNCHANGED <<files, csrs, job, jobs, sent, foreign>>
  BY DEF RevokeAndClear, sdkVars
<1>3. /\ \A c \in Branch \ {b} : config'[c] = config[c] /\ devices'[c] = devices[c]
      /\ config'[b] = EmptyRow /\ devices'[b] = {}
  BY <1>1 DEF RevokeAndClear
<1>4. ~Working(job[b]) /\ BranchOK(b)
  BY DEF RevokeAndClear, CInv, BranchOK
<1>5. \A c \in Branch : Alike(job'[c], job[c])
  BY <1>2 DEF Alike
<1>6. BranchOK(b)'
  BY <1>2, <1>3, <1>4 DEF BranchOK, EmptyRow, RowOf
<1>7. SentOK'
  BY <1>2 DEF CInv, SentOK
<1> QED
  BY <1>1, <1>2, <1>3, <1>4, <1>5, <1>6, <1>7, StepOf

(* Every step of an onboarding keeps the invariant.                        *)
LEMMA OnboardKeepsCredentials ==
  ASSUME SInv, CInv, NEW b \in Branch, OnboardStep(b)
  PROVE  CInv'
<1>1. job[b] \in Job /\ jobs \in Nat /\ files \in Files /\ BranchOK(b) /\ N \in Nat
  BY WorkspaceAssumption DEF SInv, TypeOK, SDKTypeOK, CInv
<1>2. CASE Begin(b)
  <2> DEFINE j == [job[b] EXCEPT !.task = "onboard", !.pc = "load"]
  <2>1. job' = [job EXCEPT ![b] = j] /\ UNCHANGED <<csrs, jobs, onboardVars>>
    BY <1>2 DEF Begin
  <2>2. j.task = "onboard" /\ j.pc = "load"
    BY <1>1 DEF Job
  <2> HIDE DEF j
  <2>3. Alike(job'[b], j) /\ \A c \in Branch \ {b} : Alike(job'[c], job[c])
    BY <2>1, OthersAlike
  <2> QED
    BY <1>1, <2>1, <2>2, <2>3, Quiet DEF Working
<1>3. CASE LoadFails(b)
  BY <1>3, QuietEnd DEF LoadFails
<1>4. CASE ReadSignedTest(b)
  <2> DEFINE j == [job[b] EXCEPT !.pc = "check", !.xml = files.signed]
  <2>1. job' = [job EXCEPT ![b] = j] /\ UNCHANGED <<csrs, jobs, onboardVars>>
    BY <1>4 DEF ReadSignedTest
  <2>2. /\ j.task = "onboard" /\ j.attempt = job[b].attempt /\ j.identity = job[b].identity
        /\ j.pc = "check" /\ j.csr = job[b].csr /\ j.key = job[b].key
    BY <1>1, <1>4 DEF Job, ReadSignedTest
  <2>3. job[b].task = "onboard" /\ At(b, "output")
    BY <1>4 DEF ReadSignedTest
  <2> HIDE DEF j
  <2>4. Alike(job'[b], j) /\ \A c \in Branch \ {b} : Alike(job'[c], job[c])
    BY <2>1, OthersAlike
  <2> QED
    BY <1>1, <2>1, <2>2, <2>3, <2>4, Quiet DEF Working, Making, Saved, Signing, At
<1>5. CASE ComplianceCheck(b)
  <2>1. /\ job[b].task = "onboard" /\ At(b, "check") /\ UNCHANGED <<csrs, jobs, onboardVars>>
    BY <1>1, <1>5 DEF BranchOK, ComplianceCheck, At
  <2>2. ASSUME NEW j, Alike(job'[b], j), \A c \in Branch \ {b} : Alike(job'[c], job[c]),
               /\ j.task = job[b].task /\ j.attempt = job[b].attempt /\ j.identity = job[b].identity
               /\ j.pc \in {"key", "production"} /\ j.csr = job[b].csr /\ j.key = job[b].key
        PROVE  CInv'
    <3>1. j.pc \notin Making /\ j.pc # "load" /\ Working(job[b]) /\ job[b].pc \in Saved
      BY <2>1, <2>2 DEF Making, Working, Saved, At
    <3> QED
      BY <1>1, <2>1, <2>2, <3>1, Quiet
  <2> DEFINE j == [SignInvoice(job[b], ComplianceInvoice(b, job[b].icv + 1)) EXCEPT !.icv = job[b].icv + 1]
             i == [job[b] EXCEPT !.pc = "production", !.xml = None]
  <2>3. CASE job[b].icv < ComplianceInvoices /\ Start(b, j)
    <3>1. job[b].icv + 1 \in 1..MaxICV /\ job[b].icv + 1 \in 0..MaxICV
      BY <1>1, <2>3, OnboardingAssumption, WorkspaceAssumption DEF Job
    <3>2. ComplianceInvoice(b, job[b].icv + 1) \in XML
      BY <3>1, TestInvoice
    <3>3. /\ j \in Job
          /\ j.task = job[b].task /\ j.attempt = job[b].attempt /\ j.identity = job[b].identity
          /\ j.pc = "key" /\ j.csr = job[b].csr /\ j.key = job[b].key
      BY <1>1, <3>1, <3>2 DEF SignInvoice, Job, PC
    <3> HIDE DEF j
    <3> QED
      BY <2>2, <2>3, <3>3, OthersAlike
  <2>4. CASE job' = [job EXCEPT ![b] = i]
    <3>1. /\ i.task = job[b].task /\ i.attempt = job[b].attempt /\ i.identity = job[b].identity
          /\ i.pc = "production" /\ i.csr = job[b].csr /\ i.key = job[b].key
      BY <1>1 DEF Job
    <3> HIDE DEF i
    <3> QED
      BY <2>2, <2>4, <3>1, OthersAlike
  <2>5. CASE End(b)
    BY <2>1, <2>5, QuietEnd
  <2>6. \/ job[b].icv < ComplianceInvoices /\ Start(b, j)
        \/ job' = [job EXCEPT ![b] = i]
        \/ End(b)
    <3>1. SignInvoice(job[b], ComplianceInvoice(b, job[b].icv + 1)).icv = job[b].icv
      BY <1>1 DEF SignInvoice, Job
    <3> QED
      BY <1>5, <3>1 DEF ComplianceCheck
  <2> QED
    BY <2>3, <2>4, <2>5, <2>6
<1> QED
  BY <1>2, <1>3, <1>4, <1>5, LoadKeepsCredentials, SaveKeepsCredentials, SendKeepsCredentials,
     ProductionKeepsCredentials, StoreKeepsCredentials, RevokeKeepsCredentials DEF OnboardStep

------------------------------------------------------------------------------
(* The bills.                                                              *)

(* The service of a branch has the credentials that are stored.            *)
LEMMA ServiceJob ==
  ASSUME NEW b \in Branch, config[b] \in Row, NEW task \in {"build", "submit"}
  PROVE  Service(b, task) \in Job /\ Service(b, task).task = task
  BY NoJobWorks DEF Service, Job, Row

(* GenerateAPIRequest begins with the key.                                 *)
LEMMA RequestJob ==
  ASSUME NEW i \in Job, NEW x \in XML
  PROVE  LET j == GenerateAPIRequest(i, x)
         IN  j \in Job /\ j.task = i.task /\ j.pc = "key"
  BY DEF GenerateAPIRequest, Job, PC

(* So does SignInvoice.                                                    *)
LEMMA SignJob ==
  ASSUME NEW i \in Job, NEW x \in XML, NEW n \in 0..MaxICV
  PROVE  LET j == [SignInvoice(i, x) EXCEPT !.icv = n]
         IN  j \in Job /\ j.task = i.task /\ j.pc = "key" /\ j.call = "sign" /\ j.xml = x /\ j.icv = n
  BY DEF SignInvoice, Job, PC

(* Builds and submissions are no attempts.                                 *)
LEMMA BillKeepsCredentials ==
  ASSUME SInv, CInv, NEW b \in Branch,
         \/ \E n \in 1..MaxICV : BeginBuild(b, n)
         \/ ReadSigned(b) \/ ReadRequest(b) \/ CommitBuilt(b) \/ BeginSubmit(b) \/ SendRequest(b)
  PROVE  CInv'
<1>1. /\ job[b] \in Job /\ jobs \in Nat /\ files \in Files /\ config[b] \in Row
      /\ Works(b, job[b], files, stored[b]) /\ stored[b] \in Stored \cup {None}
  BY WorkspaceAssumption DEF SInv, TypeOK, SDKTypeOK, OnboardTypeOK
<1>2. /\ UNCHANGED <<csrs, onboardVars>> /\ jobs' \in {jobs, jobs + 1}
  BY DEF BeginBuild, ReadSigned, ReadRequest, CommitBuilt, BeginSubmit, SendRequest
<1>3. jobs' \in Nat /\ jobs' >= jobs
  BY <1>1, <1>2
<1>4. ASSUME NEW j, j.task \in {"build", "submit"}, j.pc \in {"key", "commit"},
             job' = [job EXCEPT ![b] = j] \/ (j \in Job /\ Start(b, j))
      PROVE  CInv'
  <2>1. Alike(job'[b], j) /\ \A c \in Branch \ {b} : Alike(job'[c], job[c])
    BY <1>4, OthersAlike
  <2>2. ~Working(j) /\ j.pc \notin Making \cup {"load", "check", "production", "credentials"}
    BY <1>4 DEF Working, Making
  <2> QED
    BY <1>2, <1>3, <2>1, <2>2, Quiet
<1>5. ASSUME NEW n \in 1..MaxICV, BeginBuild(b, n) PROVE CInv'
  <2> DEFINE j == [SignInvoice(Service(b, "build"), Unsigned(BillDocument(b, n))) EXCEPT !.icv = n]
  <2>1. Start(b, j)
    BY <1>5 DEF BeginBuild
  <2>2. Unsigned(BillDocument(b, n)) \in XML
    BY WorkspaceAssumption DEF Unsigned, BillDocument, XML, Document, Number, Empty, Branch
  <2>3. n \in 0..MaxICV
    BY WorkspaceAssumption
  <2>4. j \in Job /\ j.task = "build" /\ j.pc = "key"
    BY <1>1, <2>2, <2>3, ServiceJob, SignJob
  <2> HIDE DEF j
  <2> QED
    BY <1>4, <2>1, <2>4
<1>6. CASE ReadSigned(b)
  <2> DEFINE j == GenerateAPIRequest(job[b], files.signed)
  <2>1. job' = [job EXCEPT ![b] = j]
    BY <1>6 DEF ReadSigned
  <2>2. j.task \in {"build", "submit"} /\ j.pc \in {"key", "commit"}
    BY <1>1, <1>6 DEF GenerateAPIRequest, Job, ReadSigned
  <2>3. job' = [job EXCEPT ![b] = j] \/ (j \in Job /\ Start(b, j))
    BY <2>1
  <2> HIDE DEF j
  <2> QED
    BY <1>4, <2>2, <2>3
<1>7. CASE ReadRequest(b)
  <2> DEFINE j == [job[b] EXCEPT !.pc = "commit", !.hash = files.api.doc]
  <2>1. job' = [job EXCEPT ![b] = j] \/ (End(b) /\ UNCHANGED jobs)
    BY <1>7 DEF ReadRequest
  <2>2. j.task = "build" /\ j.pc = "commit"
    BY <1>1, <1>7 DEF Job, ReadRequest
  <2> HIDE DEF j
  <2> QED
    BY <1>2, <1>4, <2>1, <2>2, QuietEnd
<1>8. CASE CommitBuilt(b)
  <2> DEFINE i == [NoJob EXCEPT !.task = "submit", !.key = job[b].key, !.csr = job[b].csr]
             j == GenerateAPIRequest(i, job[b].xml)
  <2>1. Start(b, j) \/ (End(b) /\ UNCHANGED jobs)
    BY <1>8 DEF CommitBuilt
  <2>2. job[b].xml \in XML
    BY <1>1, <1>8 DEF Works, CommitBuilt, At
  <2>3. j \in Job /\ j.task = "submit" /\ j.pc = "key"
    <3>1. i \in Job /\ i.task = "submit"
      BY <1>1, NoJobWorks DEF Job
    <3> HIDE DEF i
    <3> QED
      BY <2>2, <3>1, RequestJob
  <2> HIDE DEF j
  <2>4. CASE Start(b, j)
    BY <1>4, <2>3, <2>4
  <2>5. CASE End(b) /\ UNCHANGED jobs
    BY <1>2, <2>5, QuietEnd
  <2> QED
    BY <2>1, <2>4, <2>5
<1>9. CASE BeginSubmit(b)
  <2> DEFINE j == GenerateAPIRequest(Service(b, "submit"), stored[b].xml)
  <2>1. Start(b, j) /\ stored[b].xml \in XML
    BY <1>1, <1>9 DEF BeginSubmit, Stored
  <2>2. j \in Job /\ j.task = "submit" /\ j.pc = "key"
    BY <1>1, <2>1, ServiceJob, RequestJob
  <2> HIDE DEF j
  <2> QED
    BY <1>4, <2>1, <2>2
<1>10. CASE SendRequest(b)
  BY <1>2, <1>10, QuietEnd DEF SendRequest
<1> QED
  BY <1>5, <1>6, <1>7, <1>8, <1>9, <1>10

(* A crash ends all attempts.                                              *)
LEMMA CrashKeepsCredentials ==
  ASSUME SInv, CInv, Crash
  PROVE  CInv'
<1>1. job' = [c \in Branch |-> NoJob] /\ UNCHANGED <<csrs, jobs, config, sent, devices, foreign>>
  BY DEF Crash, onboardVars
<1>2. \A c \in Branch : job'[c].task = "none" /\ job'[c].pc = "none"
  BY <1>1 DEF NoJob
<1>3. \A c \in Branch : ~Working(job'[c])
  BY <1>2 DEF Working
<1>4. ASSUME NEW c \in Branch PROVE BranchOK(c)'
  <2>1. BranchOK(c)
    BY DEF CInv
  <2> QED
    BY <1>1, <1>2, <1>3, <2>1 DEF BranchOK, Making
<1>5. AttemptsDiffer' /\ SentOK'
  BY <1>1, <1>3 DEF CInv, AttemptsDiffer, SentOK
<1> QED
  BY <1>4, <1>5 DEF CInv

(* The invariant holds in the initial states: a registered branch has a    *)
(* number of its own.                                                      *)
LEMMA CInvInit == Init => CInv
<1> SUFFICES ASSUME Init PROVE CInv
  OBVIOUS
<1>1. PICK R \in SUBSET Branch : config = [b \in Branch |-> IF b \in R THEN RowOf(b) ELSE EmptyRow]
  BY DEF Init, OnboardInit
<1>2. /\ \A b \in Branch : job[b].task = "none" /\ job[b].pc = "none" /\ ~Working(job[b])
      /\ jobs = N /\ foreign = {} /\ N \in Nat
  BY WorkspaceAssumption DEF Init, SDKInit, OnboardInit, NoJob, Working
<1>3. ASSUME NEW b \in Branch PROVE BranchOK(b)
  <2>1. config[b] \in {RowOf(b), EmptyRow} /\ devices[b] = {config[b].identity} \ {Empty}
    BY <1>1 DEF Init, OnboardInit
  <2>2. /\ config[b].compliance = config[b].production /\ config[b].key = config[b].production
        /\ config[b].csr = config[b].production
    BY <2>1 DEF RowOf, EmptyRow
  <2> QED
    BY <1>2, <2>1, <2>2 DEF BranchOK, Making
<1>4. SentOK
  <2>1. \A n \in Number : sent[n] = IF n \in Branch /\ config[n].csr = n THEN 1 ELSE 0
    BY DEF Init, OnboardInit
  <2>2. \A n \in Number : sent[n] <= 1 /\ (n > jobs => sent[n] = 0)
    BY <1>2, <2>1 DEF Number, Branch
  <2> QED
    BY <1>2, <2>2 DEF SentOK
<1>5. AttemptsDiffer
  BY <1>2 DEF AttemptsDiffer
<1> QED
  BY <1>3, <1>4, <1>5 DEF CInv

(* Every step keeps the invariant.                                         *)
LEMMA CInvStep == SInv /\ CInv /\ [Next]_vars => CInv'
<1> SUFFICES ASSUME SInv, CInv, [Next]_vars PROVE CInv'
  OBVIOUS
<1>1. CASE UNCHANGED vars
  <2>1. UNCHANGED <<csrs, job, jobs, config, sent, devices, foreign>>
    BY <1>1 DEF vars, sdkVars, onboardVars
  <2> QED
    BY <2>1 DEF CInv, BranchOK, AttemptsDiffer, SentOK
<1>2. ASSUME NEW b \in Branch, ScriptStep(b), UNCHANGED onboardVars PROVE CInv'
  BY <1>2, ScriptKeepsCredentials, GenerateKeepsCredentials
<1>3. ASSUME NEW b \in Branch, OnboardStep(b) PROVE CInv'
  BY <1>3, OnboardKeepsCredentials
<1>4. ASSUME NEW b \in Branch,
             \/ \E n \in 1..MaxICV : BeginBuild(b, n)
             \/ ReadSigned(b) \/ ReadRequest(b) \/ CommitBuilt(b) \/ BeginSubmit(b) \/ SendRequest(b)
      PROVE  CInv'
  BY <1>4, BillKeepsCredentials
<1>5. CASE Crash
  BY <1>5, CrashKeepsCredentials
<1> QED
  BY <1>1, <1>2, <1>3, <1>4, <1>5 DEF Next

(* CInv is an invariant of the specification.                              *)
THEOREM CredentialsInvariance == Spec => []CInv
BY CInvInit, CInvStep, SInvariance, PTL DEF Spec

------------------------------------------------------------------------------
(* For any number of branches, attempts, crashes and failures of the tool: *)
(* a branch whose attempts were all handed their own CSR and key has a     *)
(* production certificate that belongs to its stored key and CSR.          *)
THEOREM KeyBelongsToCertificate == Spec => []KeyMatchesCertificate
<1>1. CInv => KeyMatchesCertificate
  BY DEF CInv, BranchOK, KeyMatchesCertificate
<1> QED
  BY <1>1, CredentialsInvariance, PTL

(* However often the onboarding of such a branch is repeated, ZATCA knows  *)
(* one device of it, the stored one (OnboardBranch reuses the identity).   *)
THEOREM RetriesKeepTheDevice == Spec => []OneDevicePerBranch
<1>1. CInv => OneDevicePerBranch
  BY DEF CInv, BranchOK, OneDevicePerBranch
<1> QED
  BY <1>1, CredentialsInvariance, PTL

(* Where every attempt was handed its own CSR, no CSR is sent to ZATCA     *)
(* twice, however many attempts of however many branches run, fail and are *)
(* repeated (OnboardBranch discards a stored CSR).                         *)
THEOREM RetriesMakeNewCSR == Spec => []OwnCSRSentOnce
<1>1. CInv => OwnCSRSentOnce
  BY DEF CInv, SentOK, OwnCSRSentOnce, CSRSentOnce
<1> QED
  BY <1>1, CredentialsInvariance, PTL

------------------------------------------------------------------------------
(* Clean builds.                                                           *)

(* The invoice of the bill under the job's number, signed with the job's   *)
(* credentials.                                                            *)
Signed(b, j) == [doc |-> BillDocument(b, j.icv), key |-> j.key, cert |-> j.csr]

(* What a clean build has in its locals, and what its script has written   *)
(* to the files so far.                                                    *)
BuildOK(b) ==
  LET j == job[b]
  IN  j.task = "build" /\ j.clean =>
        /\ j.pc \in Signing =>
             j.xml = IF j.call = "sign" THEN Unsigned(BillDocument(b, j.icv)) ELSE Signed(b, j)
        /\ j.pc \in {"cert", "xml", "tool"} => files.key = j.key
        /\ j.pc \in {"xml", "tool"} => files.cert = j.csr
        /\ j.pc = "tool" => files.xml = j.xml
        /\ j.pc = "output" /\ j.call = "sign" => files.signed = Signed(b, j)
        /\ j.pc = "output" /\ j.call = "request" => files.api = j.xml
        /\ j.pc = "commit" => j.xml = Signed(b, j) /\ j.hash = BillDocument(b, j.icv)

(* A script that is clean is alone.                                        *)
CleanAlone ==
  \A b, c \in Branch : b # c /\ InScript(b) /\ job[b].clean => ~InScript(c)

BInv ==
  /\ \A b \in Branch : BuildOK(b)
  /\ CleanAlone
  /\ CleanBuildIsOwn

(* What CleanBuildIsOwn says of one bill.                                  *)
OwnStored(b, s) ==
  s # None /\ s.clean =>
    /\ s.hash = BillDocument(b, s.icv)
    /\ s.xml = [doc |-> s.hash, key |-> s.key, cert |-> s.cert]

(* What has to be shown of a step of b: that b itself is all right after   *)
(* it, and that it meets no script that is clean.                          *)
LEMMA BuildStepOf ==
  ASSUME SInv, BInv, NEW b \in Branch,
         \A c \in Branch \ {b} :
           /\ Alike(job'[c], job[c]) /\ (job'[c].clean => job[c].clean) /\ stored'[c] = stored[c]
           /\ InScript(c) /\ job'[c].clean => ~InScript(b)' /\ UNCHANGED files,
         InScript(b)' /\ job'[b].clean => \A c \in Branch \ {b} : ~InScript(c),
         BuildOK(b)', OwnStored(b, stored'[b])
  PROVE  BInv'
<1>1. \A c \in Branch \ {b} :
        /\ job'[c].task = job[c].task /\ job'[c].pc = job[c].pc /\ job'[c].call = job[c].call
        /\ job'[c].icv = job[c].icv /\ job'[c].xml = job[c].xml /\ job'[c].hash = job[c].hash
        /\ job'[c].key = job[c].key /\ job'[c].csr = job[c].csr
  BY DEF Alike
<1>2. \A c \in Branch \ {b} : InScript(c)' <=> InScript(c)
  BY <1>1 DEF InScript
<1>3. ASSUME NEW c \in Branch \ {b} PROVE BuildOK(c)'
  <2> SUFFICES ASSUME job[c].task = "build", job'[c].clean PROVE BuildOK(c)'
    BY <1>1 DEF BuildOK
  <2>1. BuildOK(c) /\ job[c].clean
    BY DEF BInv
  <2>2. Signed(c, job'[c]) = Signed(c, job[c])
    BY <1>1 DEF Signed
  <2>3. CASE InScript(c)
    <3>1. files' = files
      BY <2>3
    <3> QED
      BY <1>1, <2>1, <2>2, <3>1 DEF BuildOK
  <2>4. CASE ~InScript(c)
    <3>1. job[c].pc \notin Signing
      BY <2>4 DEF InScript, Signing
    <3> QED
      BY <1>1, <2>1, <2>2, <3>1 DEF BuildOK, Signing
  <2> QED
    BY <2>3, <2>4
<1>4. CleanAlone'
  <2> SUFFICES ASSUME NEW c \in Branch, NEW d \in Branch, c # d, InScript(c)', job'[c].clean
               PROVE  ~InScript(d)'
    BY DEF CleanAlone
  <2>1. CASE c = b
    BY <1>2, <2>1
  <2>2. CASE c # b
    BY <1>2, <2>2 DEF BInv, CleanAlone
  <2> QED
    BY <2>1, <2>2
<1>5. CleanBuildIsOwn'
  <2> SUFFICES ASSUME NEW c \in Branch PROVE OwnStored(c, stored'[c])
    BY DEF CleanBuildIsOwn, OwnStored
  <2> QED
    BY DEF BInv, CleanBuildIsOwn, OwnStored
<1> QED
  BY <1>3, <1>4, <1>5 DEF BInv

(* A command of a running script, and the end of one.                      *)
LEMMA Command ==
  ASSUME SInv, BInv, NEW b \in Branch, NEW j,
         job' = [job EXCEPT ![b] = j],
         \/ InScript(b) /\ (j.clean => job[b].clean)
         \/ UNCHANGED files /\ ~InScript(b)',
         UNCHANGED stored, BuildOK(b)'
  PROVE  BInv'
<1>1. job \in [Branch -> Job]
  BY DEF SInv, TypeOK, SDKTypeOK
<1>2. job'[b] = j /\ \A c \in Branch \ {b} : job'[c] = job[c]
  BY <1>1
<1>3. \A c \in Branch \ {b} : Alike(job'[c], job[c])
  BY <1>2 DEF Alike
<1>4. \A c \in Branch \ {b} : InScript(c) /\ job[c].clean => ~InScript(b)
  BY DEF BInv, CleanAlone
<1>5. InScript(b) /\ job[b].clean => \A c \in Branch \ {b} : ~InScript(c)
  BY DEF BInv, CleanAlone
<1>6. OwnStored(b, stored'[b])
  BY DEF BInv, CleanBuildIsOwn, OwnStored
<1>7. \A c \in Branch \ {b} : InScript(c) /\ job'[c].clean => ~InScript(b)' /\ UNCHANGED files
  BY <1>2, <1>4
<1>8. InScript(b)' /\ job'[b].clean => \A c \in Branch \ {b} : ~InScript(c)
  BY <1>2, <1>5
<1> QED
  BY <1>2, <1>3, <1>6, <1>7, <1>8, BuildStepOf

(* The start of a script.                                                  *)
LEMMA ScriptStarts ==
  ASSUME SInv, BInv, NEW b \in Branch, NEW j \in Job, Start(b, j), UNCHANGED files,
         \A c \in Branch \ {b} : stored'[c] = stored[c],
         BuildOK(b)', OwnStored(b, stored'[b])
  PROVE  BInv'
<1>1. job \in [Branch -> Job]
  BY DEF SInv, TypeOK, SDKTypeOK
<1>2. \A c \in Branch \ {b} : Alike(job'[c], job[c])
  BY OthersAlike
<1>3. \A c \in Branch \ {b} : job'[c] = IF InScript(c) THEN [job[c] EXCEPT !.clean = FALSE] ELSE job[c]
  BY DEF Start
<1>4. \A c \in Branch \ {b} : (job'[c].clean => job[c].clean) /\ ~(InScript(c) /\ job'[c].clean)
  BY <1>1, <1>3 DEF Job
<1>5. job'[b].clean => \A c \in Branch \ {b} : ~InScript(c)
  <2>1. job'[b] = [j EXCEPT !.clean = j.clean /\ \A c \in Branch \ {b} : ~InScript(c)]
    BY DEF Start
  <2>2. job'[b].clean = (j.clean /\ \A c \in Branch \ {b} : ~InScript(c))
    BY <2>1 DEF Job
  <2> QED
    BY <2>2
<1> QED
  BY <1>2, <1>4, <1>5, BuildStepOf

(* A job that is no build, or not clean, has nothing to show.              *)
LEMMA NoBuildOK ==
  ASSUME NEW b \in Branch, job'[b].task # "build" \/ ~job'[b].clean
  PROVE  BuildOK(b)'
BY DEF BuildOK

(* A job that ends.                                                        *)
LEMMA BuildEnds ==
  ASSUME SInv, BInv, NEW b \in Branch, End(b), UNCHANGED <<files, stored>>
  PROVE  BInv'
<1>1. job' = [job EXCEPT ![b] = NoJob] /\ job \in [Branch -> Job]
  BY DEF End, SInv, TypeOK, SDKTypeOK
<1>2. job'[b] = NoJob
  BY <1>1
<1>3. BuildOK(b)' /\ ~InScript(b)'
  BY <1>2, NoBuildOK DEF NoJob, InScript
<1> QED
  BY <1>1, <1>3, Command

(* An XML is its document and its signature.                               *)
LEMMA SameXML ==
  ASSUME NEW x \in XML, NEW y \in XML, x.doc = y.doc, x.key = y.key, x.cert = y.cert
  PROVE  x = y
BY DEF XML

(* A script writes the job's own credentials and invoice before it runs    *)
(* the tool, so a clean one gets what it asked for.                        *)
LEMMA ScriptKeepsBuilds ==
  ASSUME SInv, BInv, NEW b \in Branch, ScriptStep(b), UNCHANGED stored
  PROVE  BInv'
<1>1. job \in [Branch -> Job] /\ job[b] \in Job /\ files \in Files /\ BuildOK(b)
  BY DEF SInv, TypeOK, SDKTypeOK, BInv
<1>2. CASE WriteKey(b)
  <2> DEFINE j == [job[b] EXCEPT !.pc = "cert"]
  <2>1. job' = [job EXCEPT ![b] = j] /\ job[b].pc = "key"
    BY <1>2 DEF WriteKey, Move, At
  <2>2. /\ j.task = job[b].task /\ j.clean = job[b].clean /\ j.call = job[b].call /\ j.icv = job[b].icv
        /\ j.key = job[b].key /\ j.csr = job[b].csr /\ j.xml = job[b].xml /\ j.pc = "cert"
    BY <1>1 DEF Job
  <2>3. job'[b] = j
    BY <1>1, <2>1
  <2> HIDE DEF j
  <2>4. files'.key = job[b].key
    BY <1>1, <1>2 DEF WriteKey, Files
  <2>5. Signed(b, j) = Signed(b, job[b])
    BY <2>2 DEF Signed
  <2>6. BuildOK(b)'
    BY <1>1, <2>1, <2>2, <2>3, <2>4, <2>5 DEF BuildOK, Signing
  <2> QED
    BY <2>1, <2>2, <2>6, Command DEF InScript
<1>3. CASE WriteCert(b)
  <2> DEFINE j == [job[b] EXCEPT !.pc = "xml"]
  <2>1. job' = [job EXCEPT ![b] = j] /\ job[b].pc = "cert"
    BY <1>3 DEF WriteCert, Move, At
  <2>2. /\ j.task = job[b].task /\ j.clean = job[b].clean /\ j.call = job[b].call /\ j.icv = job[b].icv
        /\ j.key = job[b].key /\ j.csr = job[b].csr /\ j.xml = job[b].xml /\ j.pc = "xml"
    BY <1>1 DEF Job
  <2>3. job'[b] = j
    BY <1>1, <2>1
  <2> HIDE DEF j
  <2>4. files'.cert = job[b].csr /\ files'.key = files.key
    BY <1>1, <1>3 DEF WriteCert, Files
  <2>5. Signed(b, j) = Signed(b, job[b])
    BY <2>2 DEF Signed
  <2>6. BuildOK(b)'
    BY <1>1, <2>1, <2>2, <2>3, <2>4, <2>5 DEF BuildOK, Signing
  <2> QED
    BY <2>1, <2>2, <2>6, Command DEF InScript
<1>4. CASE WriteInvoice(b)
  <2> DEFINE j == [job[b] EXCEPT !.pc = "tool"]
  <2>1. job' = [job EXCEPT ![b] = j] /\ job[b].pc = "xml"
    BY <1>4 DEF WriteInvoice, Move, At
  <2>2. /\ j.task = job[b].task /\ j.clean = job[b].clean /\ j.call = job[b].call /\ j.icv = job[b].icv
        /\ j.key = job[b].key /\ j.csr = job[b].csr /\ j.xml = job[b].xml /\ j.pc = "tool"
    BY <1>1 DEF Job
  <2>3. job'[b] = j
    BY <1>1, <2>1
  <2> HIDE DEF j
  <2>4. files'.xml = job[b].xml /\ files'.key = files.key /\ files'.cert = files.cert
    BY <1>1, <1>4 DEF WriteInvoice, Files
  <2>5. Signed(b, j) = Signed(b, job[b])
    BY <2>2 DEF Signed
  <2>6. BuildOK(b)'
    BY <1>1, <2>1, <2>2, <2>3, <2>4, <2>5 DEF BuildOK, Signing
  <2> QED
    BY <2>1, <2>2, <2>6, Command DEF InScript
<1>5. CASE RunTool(b)
  <2> DEFINE j == [job[b] EXCEPT !.pc = "output"]
  <2>1. job' = [job EXCEPT ![b] = j] /\ job[b].pc = "tool"
    BY <1>5 DEF RunTool, Move, At
  <2>2. /\ j.task = job[b].task /\ j.clean = job[b].clean /\ j.call = job[b].call /\ j.icv = job[b].icv
        /\ j.key = job[b].key /\ j.csr = job[b].csr /\ j.xml = job[b].xml /\ j.pc = "output"
    BY <1>1 DEF Job
  <2>3. job'[b] = j
    BY <1>1, <2>1
  <2> HIDE DEF j
  <2>4. ASSUME j.task = "build", j.clean
        PROVE  IF j.call = "sign" THEN files'.signed = Signed(b, j) ELSE files'.api = j.xml
    <3>1. files.key = j.key /\ files.cert = j.csr /\ files.xml = j.xml
      BY <1>1, <2>1, <2>2, <2>4 DEF BuildOK
    <3>2. CASE j.call = "sign"
      <4>1. j.xml = Unsigned(BillDocument(b, j.icv))
        BY <1>1, <2>1, <2>2, <2>4, <3>2 DEF BuildOK, Signing
      <4>2. files'.signed = [files.xml EXCEPT !.key = files.key, !.cert = files.cert]
        BY <1>1, <1>5, <2>2, <3>2 DEF RunTool, Files
      <4>3. files.xml \in XML /\ files.key \in Number /\ files.cert \in Number
        BY <1>1, <2>1 DEF SInv, Works, Files
      <4> DEFINE x == [files.xml EXCEPT !.key = files.key, !.cert = files.cert]
      <4>4. x \in XML /\ x.doc = files.xml.doc /\ x.key = files.key /\ x.cert = files.cert
        BY <4>3 DEF XML
      <4>5. files.xml.doc = BillDocument(b, j.icv)
        BY <3>1, <4>1 DEF Unsigned
      <4>6. /\ Signed(b, j) \in XML
            /\ Signed(b, j).doc = files.xml.doc /\ Signed(b, j).key = files.key
            /\ Signed(b, j).cert = files.cert
        BY <3>1, <4>3, <4>5 DEF Signed, XML
      <4> HIDE DEF x
      <4>7. x = Signed(b, j)
        BY <4>4, <4>6, SameXML
      <4> QED
        BY <3>2, <4>2, <4>7 DEF x
    <3>3. CASE j.call # "sign"
      BY <1>1, <1>5, <2>2, <3>1, <3>3 DEF RunTool, Files
    <3> QED
      BY <3>2, <3>3
  <2>5. Signed(b, j) = Signed(b, job[b])
    BY <2>2 DEF Signed
  <2>6. BuildOK(b)'
    BY <1>1, <2>1, <2>2, <2>3, <2>4, <2>5 DEF BuildOK, Signing
  <2> QED
    BY <2>1, <2>2, <2>6, Command DEF InScript
<1>6. CASE WriteProperties(b)
  <2> DEFINE j == [job[b] EXCEPT !.pc = "generate"]
  <2>1. job' = [job EXCEPT ![b] = j] /\ job[b].pc = "props"
    BY <1>6 DEF WriteProperties, Move, At
  <2>2. j.pc = "generate" /\ j.clean = job[b].clean
    BY <1>1 DEF Job
  <2>3. job'[b] = j
    BY <1>1, <2>1
  <2> HIDE DEF j
  <2>4. BuildOK(b)'
    BY <2>2, <2>3 DEF BuildOK, Signing
  <2> QED
    BY <2>1, <2>2, <2>4, Command DEF InScript
<1>7. CASE GenerateCSR(b)
  <2> DEFINE j == [job[b] EXCEPT !.pc = "newestCSR"]
  <2>1. job' = [job EXCEPT ![b] = j] /\ job[b].pc = "generate"
    BY <1>7 DEF GenerateCSR, Move, At
  <2>2. j.pc = "newestCSR" /\ j.clean = job[b].clean
    BY <1>1 DEF Job
  <2>3. job'[b] = j
    BY <1>1, <2>1
  <2> HIDE DEF j
  <2>4. BuildOK(b)'
    BY <2>2, <2>3 DEF BuildOK, Signing
  <2> QED
    BY <2>1, <2>2, <2>4, Command DEF InScript
<1>8. CASE NewestCSR(b)
  <2> DEFINE j == [job[b] EXCEPT !.pc = "newestKey", !.csr = files.csr]
  <2>1. job' = [job EXCEPT ![b] = j] /\ job[b].pc = "newestCSR"
    BY <1>8 DEF NewestCSR, Move, At
  <2>2. j.pc = "newestKey" /\ j.clean = job[b].clean
    BY <1>1 DEF Job
  <2>3. job'[b] = j
    BY <1>1, <2>1
  <2> HIDE DEF j
  <2>4. BuildOK(b)'
    BY <2>2, <2>3 DEF BuildOK, Signing
  <2> QED
    BY <2>1, <2>2, <2>4, Command DEF InScript
<1>9. CASE NewestKey(b)
  <2> DEFINE j == [job[b] EXCEPT !.pc = "save", !.key = files.pem]
  <2>1. job' = [job EXCEPT ![b] = j] /\ job[b].pc = "newestKey"
    BY <1>9 DEF NewestKey, Move, At
  <2>2. j.pc = "save" /\ j.clean = job[b].clean
    BY <1>1 DEF Job
  <2>3. job'[b] = j
    BY <1>1, <2>1
  <2> HIDE DEF j
  <2>4. BuildOK(b)'
    BY <2>2, <2>3 DEF BuildOK, Signing
  <2> QED
    BY <2>1, <2>2, <2>4, Command DEF InScript
<1>10. CASE ToolFails(b)
  <2> DEFINE j == [job[b] EXCEPT !.pc = IF job[b].pc = "tool" THEN "output" ELSE "newestCSR", !.clean = FALSE]
  <2>1. job' = [job EXCEPT ![b] = j] /\ InScript(b)
    BY <1>10 DEF ToolFails, InScript
  <2>2. j.clean = FALSE
    BY <1>1 DEF Job
  <2>3. job'[b] = j
    BY <1>1, <2>1
  <2> HIDE DEF j
  <2> QED
    BY <2>1, <2>2, <2>3, NoBuildOK, Command
<1>11. CASE ScriptFails(b)
  BY <1>11, BuildEnds DEF ScriptFails
<1> QED
  BY <1>2, <1>3, <1>4, <1>5, <1>6, <1>7, <1>8, <1>9, <1>10, <1>11 DEF ScriptStep

(* An onboarding that starts a script makes other scripts unclean; its     *)
(* other steps leave the files alone.                                      *)
LEMMA OnboardKeepsBuilds ==
  ASSUME SInv, CInv, BInv, NEW b \in Branch, OnboardStep(b), UNCHANGED billVars
  PROVE  BInv'
<1>1. /\ job \in [Branch -> Job] /\ job[b] \in Job /\ jobs \in N..(N + MaxJobs) /\ N \in Nat /\ MaxJobs \in Nat
      /\ config[b] \in Row /\ BranchOK(b)
  BY WorkspaceAssumption DEF SInv, TypeOK, SDKTypeOK, OnboardTypeOK, CInv
<1>2. UNCHANGED <<files, stored>>
  BY DEF billVars, OnboardStep, Begin, Load, LoadFails, SaveOnboardCSR, ComplianceCSID, ReadSignedTest,
         ComplianceCheck, ProductionCSID, SaveCredentials, RevokeAndClear, sdkVars
<1>3. CASE End(b)
  BY <1>2, <1>3, BuildEnds
<1>4. ASSUME NEW j \in Job, Start(b, j), j.task # "build" PROVE BInv'
  <2>1. Alike(job'[b], j)
    BY <1>4, OthersAlike
  <2>2. BuildOK(b)'
    BY <1>4, <2>1, NoBuildOK DEF Alike
  <2>3. OwnStored(b, stored'[b])
    BY <1>2 DEF BInv, CleanBuildIsOwn, OwnStored
  <2> QED
    BY <1>2, <1>4, <2>2, <2>3, ScriptStarts
<1>5. ASSUME NEW j, job' = [job EXCEPT ![b] = j],
             j.pc \in {"load", "compliance", "check", "production", "credentials"}
      PROVE  BInv'
  <2>1. job'[b] = j
    BY <1>1, <1>5
  <2>2. BuildOK(b)' /\ ~InScript(b)'
    BY <1>5, <2>1 DEF InScript, BuildOK, Signing
  <2> QED
    BY <1>2, <1>5, <2>2, Command
<1>6. CASE Begin(b)
  <2> DEFINE j == [job[b] EXCEPT !.task = "onboard", !.pc = "load"]
  <2>1. job' = [job EXCEPT ![b] = j] /\ j.pc = "load"
    BY <1>1, <1>6 DEF Begin, Job
  <2> HIDE DEF j
  <2> QED
    BY <1>5, <2>1
<1>7. CASE Load(b)
  <2> DEFINE i == IF config[b].identity # Empty THEN config[b].identity ELSE jobs + 1
             j == [job[b] EXCEPT !.pc = "props", !.attempt = jobs + 1, !.identity = i]
  <2>1. Start(b, j) /\ job[b].task = "onboard"
    BY <1>1, <1>7 DEF Load, At, BranchOK
  <2>2. jobs + 1 \in Number /\ i \in Number
    BY <1>1, <1>7 DEF Load, MayBegin, Number, Row
  <2> HIDE DEF i
  <2>3. j \in Job /\ j.task = "onboard"
    BY <1>1, <2>1, <2>2 DEF Job, PC
  <2> HIDE DEF j
  <2> QED
    BY <1>4, <2>1, <2>3
<1>8. CASE Move(b, "compliance") \/ Move(b, "credentials")
  <2>1. PICK t \in {"compliance", "credentials"} : job' = [job EXCEPT ![b] = [job[b] EXCEPT !.pc = t]]
    BY <1>8 DEF Move
  <2> DEFINE j == [job[b] EXCEPT !.pc = t]
  <2>2. job' = [job EXCEPT ![b] = j] /\ j.pc = t
    BY <1>1, <2>1 DEF Job
  <2> HIDE DEF j
  <2> QED
    BY <1>5, <2>2
<1>9. CASE ReadSignedTest(b)
  <2> DEFINE j == [job[b] EXCEPT !.pc = "check", !.xml = files.signed]
  <2>1. job' = [job EXCEPT ![b] = j] /\ j.pc = "check"
    BY <1>1, <1>9 DEF ReadSignedTest, Job
  <2> HIDE DEF j
  <2> QED
    BY <1>5, <2>1
<1>10. ASSUME NEW n \in 1..MaxICV,
              Start(b, [SignInvoice(job[b], ComplianceInvoice(b, n)) EXCEPT !.icv = n]),
              job[b].task = "onboard"
       PROVE  BInv'
  <2> DEFINE j == [SignInvoice(job[b], ComplianceInvoice(b, n)) EXCEPT !.icv = n]
  <2>1. ComplianceInvoice(b, n) \in XML /\ n \in 0..MaxICV
    BY TestInvoice, WorkspaceAssumption
  <2>2. j \in Job /\ j.task = "onboard"
    BY <1>1, <1>10, <2>1 DEF SignInvoice, Job, PC
  <2>3. Start(b, j)
    BY <1>10
  <2> HIDE DEF j
  <2> QED
    BY <1>4, <2>2, <2>3
<1>11. CASE ComplianceCSID(b)
  <2>1. job[b].task = "onboard" /\ 1 \in 1..MaxICV
    BY <1>1, <1>11, OnboardingAssumption, WorkspaceAssumption DEF ComplianceCSID, At, BranchOK, Making
  <2> QED
    BY <1>3, <1>10, <1>11, <2>1 DEF ComplianceCSID
<1>12. CASE ComplianceCheck(b)
  <2>1. job[b].task = "onboard" /\ job[b].icv \in 0..MaxICV
    BY <1>1, <1>12 DEF ComplianceCheck, At, BranchOK, Job
  <2> DEFINE n == job[b].icv + 1
  <2>2. CASE /\ job[b].icv < ComplianceInvoices
             /\ Start(b, [SignInvoice(job[b], ComplianceInvoice(b, n)) EXCEPT !.icv = n])
    <3>1. n \in 1..MaxICV
      BY <2>1, <2>2, OnboardingAssumption, WorkspaceAssumption
    <3> QED
      BY <1>10, <2>1, <2>2, <3>1
  <2>3. CASE job' = [job EXCEPT ![b] = [job[b] EXCEPT !.pc = "production", !.xml = None]]
    <3> DEFINE j == [job[b] EXCEPT !.pc = "production", !.xml = None]
    <3>1. job' = [job EXCEPT ![b] = j] /\ j.pc = "production"
      BY <1>1, <2>3 DEF Job
    <3> HIDE DEF j
    <3> QED
      BY <1>5, <3>1
  <2>4. SignInvoice(job[b], ComplianceInvoice(b, n)).icv = job[b].icv
    BY <1>1 DEF SignInvoice, Job
  <2> QED
    BY <1>3, <1>12, <2>2, <2>3, <2>4 DEF ComplianceCheck
<1>13. CASE RevokeAndClear(b)
  <2>1. UNCHANGED <<job, files, stored>>
    BY <1>2, <1>13 DEF RevokeAndClear, sdkVars
  <2> QED
    BY <2>1 DEF BInv, BuildOK, CleanAlone, InScript, CleanBuildIsOwn
<1> QED
  BY <1>3, <1>6, <1>7, <1>8, <1>9, <1>11, <1>12, <1>13
  DEF OnboardStep, LoadFails, SaveOnboardCSR, ProductionCSID, SaveCredentials

(* A build signs the invoice it was booked for, derives the request from   *)
(* what was signed, and commits both, so a clean one commits its own       *)
(* (billDocument.Build).                                                   *)
LEMMA BillKeepsBuilds ==
  ASSUME SInv, BInv, NEW b \in Branch,
         \/ \E n \in 1..MaxICV : BeginBuild(b, n)
         \/ ReadSigned(b) \/ ReadRequest(b) \/ CommitBuilt(b) \/ BeginSubmit(b) \/ SendRequest(b)
  PROVE  BInv'
<1>1. /\ job \in [Branch -> Job] /\ job[b] \in Job /\ files \in Files /\ config[b] \in Row
      /\ Works(b, job[b], files, stored[b]) /\ stored \in [Branch -> Stored \cup {None}] /\ BuildOK(b)
  BY DEF SInv, TypeOK, SDKTypeOK, OnboardTypeOK, BInv
<1>2. UNCHANGED files
  BY DEF BeginBuild, ReadSigned, ReadRequest, CommitBuilt, BeginSubmit, SendRequest
<1>3. OwnStored(b, stored[b])
  BY DEF BInv, CleanBuildIsOwn, OwnStored
<1>4. ASSUME NEW n \in 1..MaxICV, BeginBuild(b, n) PROVE BInv'
  <2> DEFINE x == Unsigned(BillDocument(b, n))
             j == [SignInvoice(Service(b, "build"), x) EXCEPT !.icv = n]
  <2>1. Start(b, j) /\ UNCHANGED stored
    BY <1>4 DEF BeginBuild, billVars
  <2>2. x \in XML
    BY WorkspaceAssumption DEF Unsigned, BillDocument, XML, Document, Number, Empty, Branch
  <2>3. n \in 0..MaxICV
    BY WorkspaceAssumption
  <2>4. j \in Job /\ j.task = "build" /\ j.pc = "key" /\ j.call = "sign" /\ j.xml = x /\ j.icv = n
    BY <1>1, <2>2, <2>3, ServiceJob, SignJob
  <2> HIDE DEF j
  <2>5. Alike(job'[b], j)
    BY <2>1, <2>4, OthersAlike
  <2>6. BuildOK(b)'
    BY <2>4, <2>5 DEF BuildOK, Alike
  <2> QED
    BY <1>2, <1>3, <2>1, <2>4, <2>6, ScriptStarts
<1>5. CASE ReadSigned(b)
  <2> DEFINE j == GenerateAPIRequest(job[b], files.signed)
  <2>1. job' = [job EXCEPT ![b] = j] /\ UNCHANGED stored
    BY <1>5 DEF ReadSigned, billVars
  <2>2. /\ job[b].task = "build" /\ job[b].pc = "output" /\ job[b].call = "sign"
    BY <1>5 DEF ReadSigned, At
  <2>3. /\ j.pc = "key" /\ j.call = "request" /\ j.xml = files.signed /\ j.icv = job[b].icv
        /\ j.key = job[b].key /\ j.csr = job[b].csr /\ j.clean = job[b].clean
    BY <1>1 DEF GenerateAPIRequest, Job
  <2>4. job'[b] = j
    BY <1>1, <2>1
  <2> HIDE DEF j
  <2>5. Signed(b, j) = Signed(b, job[b])
    BY <2>3 DEF Signed
  <2>6. BuildOK(b)'
    BY <1>1, <2>2, <2>3, <2>4, <2>5 DEF BuildOK
  <2> QED
    BY <2>1, <2>2, <2>3, <2>6, Command DEF InScript
<1>6. CASE ReadRequest(b)
  <2> DEFINE j == [job[b] EXCEPT !.pc = "commit", !.hash = files.api.doc]
  <2>1. job' = [job EXCEPT ![b] = j] \/ End(b)
    BY <1>6 DEF ReadRequest
  <2>2. /\ job[b].task = "build" /\ job[b].pc = "output" /\ job[b].call = "request" /\ UNCHANGED stored
    BY <1>6 DEF ReadRequest, At, billVars
  <2>3. /\ j.pc = "commit" /\ j.hash = files.api.doc /\ j.icv = job[b].icv /\ j.xml = job[b].xml
        /\ j.key = job[b].key /\ j.csr = job[b].csr /\ j.clean = job[b].clean
    BY <1>1 DEF Job
  <2> HIDE DEF j
  <2>4. CASE job' = [job EXCEPT ![b] = j]
    <3>1. job'[b] = j
      BY <1>1, <2>4
    <3>2. ASSUME job[b].clean
          PROVE  j.xml = Signed(b, j) /\ j.hash = BillDocument(b, j.icv)
      <4>1. files.api = job[b].xml /\ job[b].xml = Signed(b, job[b])
        BY <1>1, <2>2, <3>2 DEF BuildOK, Signing
      <4>2. Signed(b, j) = Signed(b, job[b])
        BY <2>3 DEF Signed
      <4>3. Signed(b, j).doc = BillDocument(b, j.icv)
        BY DEF Signed
      <4> QED
        BY <2>3, <4>1, <4>2, <4>3
    <3>3. BuildOK(b)'
      BY <2>3, <3>1, <3>2 DEF BuildOK, Signing
    <3> QED
      BY <2>2, <2>3, <2>4, <3>3, Command DEF InScript
  <2> QED
    BY <1>2, <2>1, <2>2, <2>4, BuildEnds
<1>7. CASE CommitBuilt(b)
  <2> DEFINE i == [NoJob EXCEPT !.task = "submit", !.key = job[b].key, !.csr = job[b].csr]
             j == GenerateAPIRequest(i, job[b].xml)
             s == [icv |-> job[b].icv, key |-> job[b].key, cert |-> job[b].csr,
                   xml |-> job[b].xml, hash |-> job[b].hash, clean |-> job[b].clean]
  <2>1. \/ stored' = [stored EXCEPT ![b] = s] /\ Start(b, j)
        \/ UNCHANGED stored /\ End(b)
    BY <1>7 DEF CommitBuilt
  <2>2. job[b].xml \in XML /\ job[b].pc = "commit" /\ job[b].task = "build"
    BY <1>1, <1>7 DEF Works, CommitBuilt, At
  <2>3. j \in Job /\ j.task = "submit"
    <3>1. i \in Job /\ i.task = "submit"
      BY <1>1, NoJobWorks DEF Job
    <3> HIDE DEF i
    <3> QED
      BY <2>2, <3>1, RequestJob
  <2>4. OwnStored(b, s)
    <3> SUFFICES ASSUME job[b].clean
                 PROVE  /\ job[b].hash = BillDocument(b, job[b].icv)
                        /\ job[b].xml = [doc |-> job[b].hash, key |-> job[b].key, cert |-> job[b].csr]
      BY DEF OwnStored
    <3> QED
      BY <1>1, <2>2 DEF BuildOK, Signed
  <2> HIDE DEF j, s
  <2>5. CASE stored' = [stored EXCEPT ![b] = s] /\ Start(b, j)
    <3>1. stored'[b] = s /\ \A c \in Branch \ {b} : stored'[c] = stored[c]
      BY <1>1, <2>5
    <3>2. Alike(job'[b], j)
      BY <2>3, <2>5, OthersAlike
    <3>3. BuildOK(b)'
      BY <2>3, <3>2, NoBuildOK DEF Alike
    <3> QED
      BY <1>2, <2>3, <2>4, <2>5, <3>1, <3>3, ScriptStarts
  <2> QED
    BY <1>2, <2>1, <2>5, BuildEnds
<1>8. CASE BeginSubmit(b)
  <2> DEFINE j == GenerateAPIRequest(Service(b, "submit"), stored[b].xml)
  <2>1. Start(b, j) /\ stored[b].xml \in XML /\ UNCHANGED stored
    BY <1>1, <1>8 DEF BeginSubmit, Stored, billVars
  <2>2. j \in Job /\ j.task = "submit"
    BY <1>1, <2>1, ServiceJob, RequestJob
  <2> HIDE DEF j
  <2>3. Alike(job'[b], j)
    BY <2>1, <2>2, OthersAlike
  <2>4. BuildOK(b)'
    BY <2>2, <2>3, NoBuildOK DEF Alike
  <2> QED
    BY <1>2, <1>3, <2>1, <2>2, <2>4, ScriptStarts
<1>9. CASE SendRequest(b)
  BY <1>9, BuildEnds DEF SendRequest
<1> QED
  BY <1>4, <1>5, <1>6, <1>7, <1>8, <1>9

(* A crash ends all jobs.                                                  *)
LEMMA CrashKeepsBuilds ==
  ASSUME SInv, BInv, Crash
  PROVE  BInv'
<1>1. job' = [c \in Branch |-> NoJob] /\ stored' = stored
  BY DEF Crash, billVars
<1>2. \A c \in Branch : job'[c].task = "none" /\ job'[c].pc = "none"
  BY <1>1 DEF NoJob
<1>3. \A c \in Branch : BuildOK(c)' /\ ~InScript(c)'
  BY <1>2, NoBuildOK DEF InScript
<1> QED
  BY <1>1, <1>3 DEF BInv, CleanAlone, CleanBuildIsOwn

(* No job runs and no invoice is stored in the initial states.             *)
LEMMA BInvInit == Init => BInv
<1> SUFFICES ASSUME Init PROVE BInv
  OBVIOUS
<1>1. \A b \in Branch : job[b].task = "none" /\ job[b].pc = "none" /\ stored[b] = None
  BY DEF Init, SDKInit, NoJob
<1> QED
  BY <1>1 DEF BInv, BuildOK, CleanAlone, InScript, CleanBuildIsOwn

(* Every step keeps the invariant of the builds.                           *)
LEMMA BInvStep == SInv /\ CInv /\ BInv /\ [Next]_vars => BInv'
<1> SUFFICES ASSUME SInv, CInv, BInv, [Next]_vars PROVE BInv'
  OBVIOUS
<1>1. CASE UNCHANGED vars
  <2>1. UNCHANGED <<files, job, stored>>
    BY <1>1 DEF vars, sdkVars, billVars
  <2> QED
    BY <2>1 DEF BInv, BuildOK, CleanAlone, InScript, CleanBuildIsOwn
<1>2. ASSUME NEW b \in Branch, ScriptStep(b), UNCHANGED billVars PROVE BInv'
  BY <1>2, ScriptKeepsBuilds DEF billVars
<1>3. ASSUME NEW b \in Branch, OnboardStep(b), UNCHANGED billVars PROVE BInv'
  BY <1>3, OnboardKeepsBuilds
<1>4. ASSUME NEW b \in Branch,
             \/ \E n \in 1..MaxICV : BeginBuild(b, n)
             \/ ReadSigned(b) \/ ReadRequest(b) \/ CommitBuilt(b) \/ BeginSubmit(b) \/ SendRequest(b)
      PROVE  BInv'
  BY <1>4, BillKeepsBuilds
<1>5. CASE Crash
  BY <1>5, CrashKeepsBuilds
<1> QED
  BY <1>1, <1>2, <1>3, <1>4, <1>5 DEF Next

(* For any number of branches and whatever the earlier calls left in the   *)
(* shared files, a build whose scripts met no other script and no failure  *)
(* of fatoora commits the invoice it was booked for, signed with the key   *)
(* and the certificate of its branch (credentialScript).                   *)
THEOREM CleanBuildsAreOwn == Spec => []CleanBuildIsOwn
<1>1. BInv => CleanBuildIsOwn
  BY DEF BInv
<1> QED
  BY <1>1, BInvInit, BInvStep, SInvariance, CredentialsInvariance, PTL DEF Spec

------------------------------------------------------------------------------
(* Clean attempts.                                                         *)

(* Where an attempt relies on what its script has made so far.             *)
Handed == {"generate", "newestCSR", "newestKey", "save"}

(* What the script of a clean attempt has made: its properties, and then a *)
(* CSR and a key under its own number, which name its identity.            *)
AttemptOK(b) ==
  LET j == job[b]
  IN  j.clean =>
        /\ j.pc = "generate" => files.props = j.identity
        /\ j.pc = "newestCSR" => files.csr = j.attempt /\ files.pem = j.attempt
        /\ j.pc = "newestKey" => j.csr = j.attempt /\ files.pem = j.attempt
        /\ j.pc = "save" => j.csr = j.attempt /\ j.key = j.attempt
        /\ j.pc \in {"newestCSR", "newestKey", "save"} => csrs[j.attempt] = j.identity

GInv == \A b \in Branch : AttemptOK(b)

(* The commands of GenerateCSR.                                            *)
CSRCommand(b) ==
  WriteProperties(b) \/ GenerateCSR(b) \/ NewestCSR(b) \/ NewestKey(b) \/ ToolFails(b)

(* How a step of b moves the jobs: it changes b's alone and, if fatoora    *)
(* never fails, keeps it clean, or it starts a script.                     *)
Form(b) ==
  \/ /\ \A c \in Branch \ {b} : job'[c] = job[c]
     /\ job[b].clean /\ "tool" \notin Fault => job'[b].clean
  \/ \E j \in Job : Start(b, j) /\ j.pc \in {"props", "key"} /\ (job[b].clean => j.clean)

(* An assignment to b's job has that form.                                 *)
LEMMA AssignedForm ==
  ASSUME SInv, NEW b \in Branch, NEW j, job' = [job EXCEPT ![b] = j],
         job[b].clean /\ "tool" \notin Fault => j.clean
  PROVE  Form(b) /\ job'[b] = j
<1>1. job \in [Branch -> Job]
  BY DEF SInv, TypeOK, SDKTypeOK
<1>2. job'[b] = j /\ \A c \in Branch \ {b} : job'[c] = job[c]
  BY <1>1
<1> QED
  BY <1>2 DEF Form

(* So has the end of a job, which then is nowhere.                         *)
LEMMA EndedForm ==
  ASSUME SInv, NEW b \in Branch, End(b)
  PROVE  Form(b) /\ job'[b].pc \notin Handed
<1>1. NoJob.clean = TRUE /\ NoJob.pc = "none" /\ job' = [job EXCEPT ![b] = NoJob]
  BY DEF NoJob, End
<1>2. Form(b) /\ job'[b] = NoJob
  BY <1>1, AssignedForm
<1> QED
  BY <1>1, <1>2 DEF Handed

(* A step that starts a script is at its first command.                    *)
LEMMA StartedForm ==
  ASSUME SInv, NEW b \in Branch, NEW j \in Job, Start(b, j), j.pc \in {"props", "key"},
         job[b].clean => j.clean
  PROVE  Form(b) /\ job'[b].pc \notin Handed
<1>1. job'[b].pc = j.pc
  BY OthersAlike DEF Alike
<1> QED
  BY <1>1 DEF Form, Handed

(* Every command of a script has the form, and only the ones of            *)
(* GenerateCSR lead to a place that relies on what was made.               *)
LEMMA ScriptForm ==
  ASSUME SInv, NEW b \in Branch, ScriptStep(b)
  PROVE  Form(b) /\ (CSRCommand(b) \/ job'[b].pc \notin Handed)
<1>1. job \in [Branch -> Job] /\ job[b] \in Job
  BY DEF SInv, TypeOK, SDKTypeOK
<1>2. ASSUME NEW pc \in {"cert", "xml", "tool", "output", "generate", "newestCSR"}, Move(b, pc)
      PROVE  Form(b) /\ job'[b].pc = pc
  <2> DEFINE j == [job[b] EXCEPT !.pc = pc]
  <2>1. job' = [job EXCEPT ![b] = j] /\ j.clean = job[b].clean /\ j.pc = pc
    BY <1>1, <1>2 DEF Move, Job
  <2> HIDE DEF j
  <2> QED
    BY <2>1, AssignedForm
<1>3. CASE WriteKey(b) \/ WriteCert(b) \/ WriteInvoice(b) \/ RunTool(b)
  BY <1>2, <1>3 DEF WriteKey, WriteCert, WriteInvoice, RunTool, Handed
<1>4. CASE WriteProperties(b) \/ GenerateCSR(b)
  BY <1>2, <1>4 DEF WriteProperties, GenerateCSR, CSRCommand
<1>5. CASE ToolFails(b)
  <2> DEFINE j == [job[b] EXCEPT !.pc = IF @ = "tool" THEN "output" ELSE "newestCSR", !.clean = FALSE]
  <2>1. job' = [job EXCEPT ![b] = j] /\ "tool" \in Fault
    BY <1>5 DEF ToolFails
  <2> HIDE DEF j
  <2> QED
    BY <1>5, <2>1, AssignedForm DEF CSRCommand
<1>6. CASE NewestCSR(b)
  <2> DEFINE j == [job[b] EXCEPT !.pc = "newestKey", !.csr = files.csr]
  <2>1. job' = [job EXCEPT ![b] = j] /\ j.clean = job[b].clean
    BY <1>1, <1>6 DEF NewestCSR, Job
  <2> HIDE DEF j
  <2> QED
    BY <1>6, <2>1, AssignedForm DEF CSRCommand
<1>7. CASE NewestKey(b)
  <2> DEFINE j == [job[b] EXCEPT !.pc = "save", !.key = files.pem]
  <2>1. job' = [job EXCEPT ![b] = j] /\ j.clean = job[b].clean
    BY <1>1, <1>7 DEF NewestKey, Job
  <2> HIDE DEF j
  <2> QED
    BY <1>7, <2>1, AssignedForm DEF CSRCommand
<1>8. CASE ScriptFails(b)
  BY <1>8, EndedForm DEF ScriptFails
<1> QED
  BY <1>3, <1>4, <1>5, <1>6, <1>7, <1>8 DEF ScriptStep

(* So does every step of an onboarding between its scripts.                *)
LEMMA OnboardForm ==
  ASSUME SInv, CInv, NEW b \in Branch, OnboardStep(b)
  PROVE  /\ UNCHANGED <<files, csrs>>
         /\ Form(b) /\ (UNCHANGED job \/ job'[b].pc \notin Handed)
<1>1. /\ job \in [Branch -> Job] /\ job[b] \in Job /\ jobs \in N..(N + MaxJobs) /\ N \in Nat /\ MaxJobs \in Nat
      /\ config[b] \in Row /\ files \in Files
  BY WorkspaceAssumption DEF SInv, TypeOK, SDKTypeOK, OnboardTypeOK
<1>2. UNCHANGED <<files, csrs>>
  BY DEF OnboardStep, Begin, Load, LoadFails, SaveOnboardCSR, ComplianceCSID, ReadSignedTest,
         ComplianceCheck, ProductionCSID, SaveCredentials, RevokeAndClear, sdkVars
<1> SUFFICES Form(b) /\ (UNCHANGED job \/ job'[b].pc \notin Handed)
  BY <1>2
<1>3. CASE End(b)
  BY <1>3, EndedForm
<1>4. ASSUME NEW j, job' = [job EXCEPT ![b] = j], j.clean = job[b].clean, j.pc \notin Handed
      PROVE  Form(b) /\ job'[b].pc \notin Handed
  BY <1>4, AssignedForm
<1>5. CASE Begin(b)
  <2> DEFINE j == [job[b] EXCEPT !.task = "onboard", !.pc = "load"]
  <2>1. job' = [job EXCEPT ![b] = j] /\ j.pc = "load" /\ j.clean = job[b].clean
    BY <1>1, <1>5 DEF Begin, Job
  <2> HIDE DEF j
  <2> QED
    BY <1>4, <2>1 DEF Handed
<1>6. CASE Load(b)
  <2> DEFINE i == IF config[b].identity # Empty THEN config[b].identity ELSE jobs + 1
             j == [job[b] EXCEPT !.pc = "props", !.attempt = jobs + 1, !.identity = i]
  <2>1. Start(b, j)
    BY <1>6 DEF Load
  <2>2. jobs + 1 \in Number /\ i \in Number
    BY <1>1, <1>6 DEF Load, MayBegin, Number, Row
  <2> HIDE DEF i
  <2>3. j \in Job /\ j.pc = "props" /\ j.clean = job[b].clean
    BY <1>1, <2>2 DEF Job, PC
  <2> HIDE DEF j
  <2> QED
    BY <2>1, <2>3, StartedForm
<1>7. CASE Move(b, "compliance") \/ Move(b, "credentials")
  <2>1. PICK t \in {"compliance", "credentials"} : job' = [job EXCEPT ![b] = [job[b] EXCEPT !.pc = t]]
    BY <1>7 DEF Move
  <2> DEFINE j == [job[b] EXCEPT !.pc = t]
  <2>2. job' = [job EXCEPT ![b] = j] /\ j.pc = t /\ j.clean = job[b].clean
    BY <1>1, <2>1 DEF Job
  <2> HIDE DEF j
  <2> QED
    BY <1>4, <2>2 DEF Handed
<1>8. CASE ReadSignedTest(b)
  <2> DEFINE j == [job[b] EXCEPT !.pc = "check", !.xml = files.signed]
  <2>1. job' = [job EXCEPT ![b] = j] /\ j.pc = "check" /\ j.clean = job[b].clean
    BY <1>1, <1>8 DEF ReadSignedTest, Job
  <2> HIDE DEF j
  <2> QED
    BY <1>4, <2>1 DEF Handed
<1>9. ASSUME NEW n \in 1..MaxICV,
             Start(b, [SignInvoice(job[b], ComplianceInvoice(b, n)) EXCEPT !.icv = n])
      PROVE  Form(b) /\ job'[b].pc \notin Handed
  <2> DEFINE j == [SignInvoice(job[b], ComplianceInvoice(b, n)) EXCEPT !.icv = n]
  <2>1. ComplianceInvoice(b, n) \in XML /\ n \in 0..MaxICV
    BY TestInvoice, WorkspaceAssumption
  <2>2. j \in Job /\ j.pc = "key" /\ j.clean = job[b].clean
    BY <1>1, <2>1 DEF SignInvoice, Job, PC
  <2>3. Start(b, j)
    BY <1>9
  <2> HIDE DEF j
  <2> QED
    BY <2>2, <2>3, StartedForm
<1>10. CASE ComplianceCSID(b)
  <2>1. 1 \in 1..MaxICV
    BY OnboardingAssumption, WorkspaceAssumption
  <2> QED
    BY <1>3, <1>9, <1>10, <2>1 DEF ComplianceCSID
<1>11. CASE ComplianceCheck(b)
  <2> DEFINE n == job[b].icv + 1
  <2>1. job[b].icv \in 0..MaxICV
    BY <1>1 DEF Job
  <2>2. CASE /\ job[b].icv < ComplianceInvoices
             /\ Start(b, [SignInvoice(job[b], ComplianceInvoice(b, n)) EXCEPT !.icv = n])
    <3>1. n \in 1..MaxICV
      BY <2>1, <2>2, OnboardingAssumption, WorkspaceAssumption
    <3> QED
      BY <1>9, <2>2, <3>1
  <2>3. CASE job' = [job EXCEPT ![b] = [job[b] EXCEPT !.pc = "production", !.xml = None]]
    <3> DEFINE j == [job[b] EXCEPT !.pc = "production", !.xml = None]
    <3>1. job' = [job EXCEPT ![b] = j] /\ j.pc = "production" /\ j.clean = job[b].clean
      BY <1>1, <2>3 DEF Job
    <3> HIDE DEF j
    <3> QED
      BY <1>4, <3>1 DEF Handed
  <2>4. SignInvoice(job[b], ComplianceInvoice(b, n)).icv = job[b].icv
    BY <1>1 DEF SignInvoice, Job
  <2> QED
    BY <1>3, <1>11, <2>2, <2>3, <2>4 DEF ComplianceCheck
<1>12. CASE RevokeAndClear(b)
  <2>1. UNCHANGED job
    BY <1>12 DEF RevokeAndClear, sdkVars
  <2> QED
    BY <2>1 DEF Form
<1> QED
  BY <1>3, <1>5, <1>6, <1>7, <1>8, <1>10, <1>11, <1>12
  DEF OnboardStep, LoadFails, SaveOnboardCSR, ProductionCSID, SaveCredentials

(* And every step of a build or a submission.  What is committed is as     *)
(* clean as the job that built it.                                         *)
LEMMA BillForm ==
  ASSUME SInv, NEW b \in Branch,
         \/ \E n \in 1..MaxICV : BeginBuild(b, n)
         \/ ReadSigned(b) \/ ReadRequest(b) \/ CommitBuilt(b) \/ BeginSubmit(b) \/ SendRequest(b)
  PROVE  /\ UNCHANGED <<files, csrs, onboardVars>>
         /\ Form(b) /\ job'[b].pc \notin Handed
         /\ stored' \in [Branch -> Stored \cup {None}]
         /\ \A c \in Branch : stored'[c] = stored[c] \/ (c = b /\ stored'[c].clean = job[b].clean)
<1>1. /\ job \in [Branch -> Job] /\ job[b] \in Job /\ files \in Files /\ config[b] \in Row
      /\ Works(b, job[b], files, stored[b]) /\ stored \in [Branch -> Stored \cup {None}]
  BY DEF SInv, TypeOK, SDKTypeOK, OnboardTypeOK
<1>2. UNCHANGED <<files, csrs, onboardVars>>
  BY DEF BeginBuild, ReadSigned, ReadRequest, CommitBuilt, BeginSubmit, SendRequest
<1>3. ASSUME NEW n \in 1..MaxICV, BeginBuild(b, n) PROVE Form(b) /\ job'[b].pc \notin Handed /\ UNCHANGED stored
  <2> DEFINE x == Unsigned(BillDocument(b, n))
             j == [SignInvoice(Service(b, "build"), x) EXCEPT !.icv = n]
  <2>1. Start(b, j) /\ UNCHANGED stored
    BY <1>3 DEF BeginBuild, billVars
  <2>2. x \in XML
    BY WorkspaceAssumption DEF Unsigned, BillDocument, XML, Document, Number, Empty, Branch
  <2>3. n \in 0..MaxICV
    BY WorkspaceAssumption
  <2>4. j \in Job /\ j.pc = "key"
    BY <1>1, <2>2, <2>3, ServiceJob, SignJob
  <2>5. j.clean = TRUE
    BY DEF SignInvoice, Service, NoJob
  <2> HIDE DEF j
  <2> QED
    BY <2>1, <2>4, <2>5, StartedForm
<1>4. CASE ReadSigned(b)
  <2> DEFINE j == GenerateAPIRequest(job[b], files.signed)
  <2>1. job' = [job EXCEPT ![b] = j] /\ UNCHANGED stored
    BY <1>4 DEF ReadSigned, billVars
  <2>2. j.pc = "key" /\ j.clean = job[b].clean
    BY <1>1 DEF GenerateAPIRequest, Job
  <2> HIDE DEF j
  <2>3. Form(b) /\ job'[b] = j
    BY <2>1, <2>2, AssignedForm
  <2> QED
    BY <1>1, <1>2, <2>1, <2>2, <2>3 DEF Handed
<1>5. CASE ReadRequest(b)
  <2> DEFINE j == [job[b] EXCEPT !.pc = "commit", !.hash = files.api.doc]
  <2>1. (job' = [job EXCEPT ![b] = j] \/ End(b)) /\ UNCHANGED stored
    BY <1>5 DEF ReadRequest, billVars
  <2>2. j.pc = "commit" /\ j.clean = job[b].clean
    BY <1>1 DEF Job
  <2> HIDE DEF j
  <2>3. CASE job' = [job EXCEPT ![b] = j]
    <3>1. Form(b) /\ job'[b] = j
      BY <2>2, <2>3, AssignedForm
    <3> QED
      BY <1>1, <1>2, <2>1, <2>2, <3>1 DEF Handed
  <2> QED
    BY <1>1, <1>2, <2>1, <2>3, EndedForm
<1>6. CASE CommitBuilt(b)
  <2> DEFINE i == [NoJob EXCEPT !.task = "submit", !.key = job[b].key, !.csr = job[b].csr]
             j == GenerateAPIRequest(i, job[b].xml)
             s == [icv |-> job[b].icv, key |-> job[b].key, cert |-> job[b].csr,
                   xml |-> job[b].xml, hash |-> job[b].hash, clean |-> job[b].clean]
  <2>1. \/ stored' = [stored EXCEPT ![b] = s] /\ Start(b, j)
        \/ UNCHANGED stored /\ End(b)
    BY <1>6 DEF CommitBuilt
  <2>2. job[b].xml \in XML /\ job[b].hash \in Document /\ job[b].icv \in 1..MaxICV
    BY <1>1, <1>6 DEF Works, CommitBuilt, At
  <2>3. j \in Job /\ j.pc = "key"
    <3>1. i \in Job /\ i.task = "submit"
      BY <1>1, NoJobWorks DEF Job
    <3> HIDE DEF i
    <3> QED
      BY <2>2, <3>1, RequestJob
  <2>4. j.clean = TRUE
    BY DEF GenerateAPIRequest, NoJob
  <2>5. s \in Stored /\ s.clean = job[b].clean
    BY <1>1, <2>2 DEF Stored, Job
  <2> HIDE DEF j, s
  <2>6. CASE stored' = [stored EXCEPT ![b] = s] /\ Start(b, j)
    <3>1. Form(b) /\ job'[b].pc \notin Handed
      BY <2>3, <2>4, <2>6, StartedForm
    <3>2. /\ stored' \in [Branch -> Stored \cup {None}] /\ stored'[b] = s
          /\ \A c \in Branch \ {b} : stored'[c] = stored[c]
      BY <1>1, <2>5, <2>6
    <3> QED
      BY <1>2, <2>5, <3>1, <3>2
  <2> QED
    BY <1>1, <1>2, <2>1, <2>6, EndedForm
<1>7. CASE BeginSubmit(b)
  <2> DEFINE j == GenerateAPIRequest(Service(b, "submit"), stored[b].xml)
  <2>1. Start(b, j) /\ stored[b].xml \in XML /\ UNCHANGED stored
    BY <1>1, <1>7 DEF BeginSubmit, Stored, billVars
  <2>2. j \in Job /\ j.pc = "key"
    BY <1>1, <2>1, ServiceJob, RequestJob
  <2>3. j.clean = TRUE
    BY DEF GenerateAPIRequest, Service, NoJob
  <2> HIDE DEF j
  <2>4. Form(b) /\ job'[b].pc \notin Handed
    BY <2>1, <2>2, <2>3, StartedForm
  <2> QED
    BY <1>1, <1>2, <2>1, <2>4
<1>8. CASE SendRequest(b)
  BY <1>1, <1>2, <1>8, EndedForm DEF SendRequest
<1> QED
  BY <1>1, <1>2, <1>3, <1>4, <1>5, <1>6, <1>7, <1>8

(* What has to be shown of a step of b: that b itself is all right after   *)
(* it.  A script that is clean meets no other, and no other attempt makes  *)
(* a CSR under its number.                                                 *)
LEMMA AttemptStepOf ==
  ASSUME SInv, CInv, BInv, GInv, NEW b \in Branch, Form(b),
         UNCHANGED files \/ InScript(b),
         \/ UNCHANGED csrs
         \/ Working(job[b]) /\ \A n \in Number \ {job[b].attempt} : csrs'[n] = csrs[n],
         AttemptOK(b)'
  PROVE  GInv'
<1>1. job \in [Branch -> Job]
  BY DEF SInv, TypeOK, SDKTypeOK
<1> SUFFICES ASSUME NEW c \in Branch \ {b}, job'[c].clean PROVE AttemptOK(c)'
  BY DEF GInv, AttemptOK
<1>2. job'[c] = job[c]
  <2>1. CASE \A d \in Branch \ {b} : job'[d] = job[d]
    BY <2>1
  <2>2. ASSUME NEW j \in Job, Start(b, j) PROVE job'[c] = job[c]
    <3>1. job'[c] = IF InScript(c) THEN [job[c] EXCEPT !.clean = FALSE] ELSE job[c]
      BY <2>2 DEF Start
    <3>2. [job[c] EXCEPT !.clean = FALSE].clean = FALSE
      BY <1>1 DEF Job
    <3> QED
      BY <3>1, <3>2
  <2> QED
    BY <2>1, <2>2 DEF Form
<1>3. AttemptOK(c) /\ job[c].clean
  BY <1>2 DEF GInv
<1>4. job[c].pc \in Handed \ {"save"} => files' = files
  <2>1. job[c].pc \in Handed \ {"save"} => InScript(c)
    BY DEF Handed, InScript
  <2> QED
    BY <1>3, <2>1 DEF BInv, CleanAlone
<1>5. job[c].pc \in Handed => csrs'[job[c].attempt] = csrs[job[c].attempt]
  <2> SUFFICES ASSUME job[c].pc \in Handed PROVE csrs'[job[c].attempt] = csrs[job[c].attempt]
    OBVIOUS
  <2>1. Working(job[c])
    BY DEF CInv, BranchOK, Making, Handed, Working
  <2>2. Working(job[b]) => job[c].attempt # job[b].attempt
    BY <2>1 DEF CInv, AttemptsDiffer
  <2>3. job[c].attempt \in Number
    BY <1>1 DEF Job
  <2> QED
    BY <2>2, <2>3
<1> QED
  BY <1>2, <1>3, <1>4, <1>5 DEF AttemptOK, Handed

(* GenerateCSR makes the CSR and the key under the attempt's number and    *)
(* picks the newest ones, so a clean attempt gets its own (sdk.go).        *)
LEMMA ScriptKeepsAttempts ==
  ASSUME SInv, CInv, BInv, GInv, NEW b \in Branch, ScriptStep(b)
  PROVE  GInv'
<1>1. /\ job \in [Branch -> Job] /\ job[b] \in Job /\ files \in Files /\ csrs \in [Number -> Number]
      /\ AttemptOK(b) /\ job[b].attempt \in Number
  BY DEF SInv, TypeOK, SDKTypeOK, GInv, Job
<1>2. Form(b) /\ (CSRCommand(b) \/ job'[b].pc \notin Handed)
  BY ScriptForm
<1>3. UNCHANGED files \/ InScript(b)
  BY DEF ScriptStep, WriteKey, WriteCert, WriteInvoice, RunTool, ToolFails, ScriptFails, WriteProperties,
         GenerateCSR, NewestCSR, NewestKey, At, InScript
<1>4. \/ UNCHANGED csrs
      \/ Working(job[b]) /\ \A n \in Number \ {job[b].attempt} : csrs'[n] = csrs[n]
  <2>1. CASE GenerateCSR(b)
    <3>1. Working(job[b])
      BY <2>1 DEF GenerateCSR, At, CInv, BranchOK, Making, Working
    <3>2. \A n \in Number \ {job[b].attempt} : csrs'[n] = csrs[n]
      BY <1>1, <2>1 DEF GenerateCSR
    <3> QED
      BY <3>1, <3>2
  <2>2. CASE ~GenerateCSR(b)
    BY <2>2 DEF ScriptStep, WriteKey, WriteCert, WriteInvoice, RunTool, ToolFails, ScriptFails,
                WriteProperties, NewestCSR, NewestKey
  <2> QED
    BY <2>1, <2>2
<1>5. AttemptOK(b)'
  <2>1. CASE job'[b].pc \notin Handed
    BY <2>1 DEF AttemptOK, Handed
  <2>2. CASE WriteProperties(b)
    <3>1. job'[b] = [job[b] EXCEPT !.pc = "generate"] /\ files'.props = job[b].identity
      BY <1>1, <2>2 DEF WriteProperties, Move, Files
    <3>2. job'[b].pc = "generate" /\ job'[b].identity = job[b].identity
      BY <1>1, <3>1 DEF Job
    <3> QED
      BY <3>1, <3>2 DEF AttemptOK
  <2>3. CASE GenerateCSR(b)
    <3>1. /\ job'[b] = [job[b] EXCEPT !.pc = "newestCSR"] /\ job[b].pc = "generate"
          /\ files'.csr = job[b].attempt /\ files'.pem = job[b].attempt
          /\ csrs'[job[b].attempt] = files.props
      BY <1>1, <2>3 DEF GenerateCSR, Move, Files, At
    <3>2. /\ job'[b].pc = "newestCSR" /\ job'[b].identity = job[b].identity
          /\ job'[b].attempt = job[b].attempt /\ job'[b].clean = job[b].clean
      BY <1>1, <3>1 DEF Job
    <3> QED
      BY <1>1, <3>1, <3>2 DEF AttemptOK
  <2>4. CASE NewestCSR(b)
    <3>1. /\ job'[b] = [job[b] EXCEPT !.pc = "newestKey", !.csr = files.csr] /\ job[b].pc = "newestCSR"
          /\ files' = files /\ csrs' = csrs
      BY <1>1, <2>4 DEF NewestCSR, At
    <3>2. /\ job'[b].pc = "newestKey" /\ job'[b].identity = job[b].identity /\ job'[b].csr = files.csr
          /\ job'[b].attempt = job[b].attempt /\ job'[b].clean = job[b].clean
      BY <1>1, <3>1 DEF Job
    <3> QED
      BY <1>1, <3>1, <3>2 DEF AttemptOK
  <2>5. CASE NewestKey(b)
    <3>1. /\ job'[b] = [job[b] EXCEPT !.pc = "save", !.key = files.pem] /\ job[b].pc = "newestKey"
          /\ csrs' = csrs
      BY <1>1, <2>5 DEF NewestKey, At
    <3>2. /\ job'[b].pc = "save" /\ job'[b].identity = job[b].identity /\ job'[b].csr = job[b].csr
          /\ job'[b].key = files.pem
          /\ job'[b].attempt = job[b].attempt /\ job'[b].clean = job[b].clean
      BY <1>1, <3>1 DEF Job
    <3> QED
      BY <1>1, <3>1, <3>2 DEF AttemptOK
  <2>6. CASE ToolFails(b)
    <3>1. job'[b].clean = FALSE
      BY <1>1, <2>6 DEF ToolFails, Job
    <3> QED
      BY <3>1 DEF AttemptOK
  <2> QED
    BY <1>2, <2>1, <2>2, <2>3, <2>4, <2>5, <2>6 DEF CSRCommand
<1> QED
  BY <1>2, <1>3, <1>4, <1>5, AttemptStepOf

(* Every step keeps the invariant of the attempts.                         *)
LEMMA GInvStep == SInv /\ CInv /\ BInv /\ GInv /\ [Next]_vars => GInv'
<1> SUFFICES ASSUME SInv, CInv, BInv, GInv, [Next]_vars PROVE GInv'
  OBVIOUS
<1>1. CASE UNCHANGED <<files, csrs, job>>
  BY <1>1 DEF GInv, AttemptOK
<1>2. ASSUME NEW b \in Branch, ScriptStep(b) PROVE GInv'
  BY <1>2, ScriptKeepsAttempts
<1>3. ASSUME NEW b \in Branch, UNCHANGED <<files, csrs>>, Form(b), job'[b].pc \notin Handed PROVE GInv'
  <2>1. AttemptOK(b)'
    BY <1>3 DEF AttemptOK, Handed
  <2> QED
    BY <1>3, <2>1, AttemptStepOf
<1>4. ASSUME NEW b \in Branch, OnboardStep(b) PROVE GInv'
  <2>1. /\ UNCHANGED <<files, csrs>>
        /\ Form(b) /\ (UNCHANGED job \/ job'[b].pc \notin Handed)
    BY <1>4, OnboardForm
  <2> QED
    BY <1>1, <1>3, <1>4, <2>1
<1>5. ASSUME NEW b \in Branch,
             \/ \E n \in 1..MaxICV : BeginBuild(b, n)
             \/ ReadSigned(b) \/ ReadRequest(b) \/ CommitBuilt(b) \/ BeginSubmit(b) \/ SendRequest(b)
      PROVE  GInv'
  <2>1. UNCHANGED <<files, csrs>> /\ Form(b) /\ job'[b].pc \notin Handed
    BY <1>5, BillForm
  <2> QED
    BY <1>3, <1>5, <2>1
<1>6. CASE Crash
  <2>1. \A c \in Branch : job'[c].pc = "none"
    BY <1>6 DEF Crash, NoJob
  <2> QED
    BY <2>1 DEF GInv, AttemptOK
<1> QED
  BY <1>1, <1>2, <1>4, <1>5, <1>6 DEF Next, vars, sdkVars

(* BInv and GInv are invariants of the specification.                      *)
THEOREM AttemptsInvariance == Spec => [](BInv /\ GInv)
<1>1. Init => GInv
  <2> SUFFICES ASSUME Init PROVE GInv
    OBVIOUS
  <2>1. \A b \in Branch : job[b].pc = "none"
    BY DEF Init, SDKInit, NoJob
  <2> QED
    BY <2>1 DEF GInv, AttemptOK
<1> QED
  BY <1>1, BInvInit, BInvStep, GInvStep, SInvariance, CredentialsInvariance, PTL DEF Spec

(* For any number of branches and attempts, and whatever earlier attempts  *)
(* and crashes left in the shared files: an attempt whose script met no    *)
(* other script and no failure of fatoora is handed the CSR and key that   *)
(* were made for it, and that CSR names its identity (GenerateCSR).        *)
THEOREM CleanAttemptsAreOwn == Spec => []CleanAttemptIsOwn
<1>1. GInv => CleanAttemptIsOwn
  <2> SUFFICES ASSUME GInv, NEW b \in Branch, At(b, "save"), job[b].clean PROVE ~IsForeign(job[b])
    BY DEF CleanAttemptIsOwn
  <2>1. AttemptOK(b)
    BY DEF GInv
  <2> QED
    BY <2>1 DEF AttemptOK, At, IsForeign
<1> QED
  BY <1>1, AttemptsInvariance, PTL

------------------------------------------------------------------------------
(* What a lock around the scripts would give.                              *)

(* No two scripts of the process run at the same time.                     *)
Serialised == \A b, c \in Branch : b # c => ~(InScript(b) /\ InScript(c))

(* Every job is clean, and so is what was stored, and no attempt was       *)
(* handed a foreign CSR or key.                                            *)
AllClean ==
  /\ \A b \in Branch : job[b].clean
  /\ \A b \in Branch : stored[b] # None => stored[b].clean
  /\ foreign = {}

(* A step of one branch leaves every job clean when scripts do not overlap *)
(* and fatoora does not fail.                                              *)
LEMMA FormKeepsClean ==
  ASSUME SInv, AllClean, NEW b \in Branch, Form(b), Serialised', "tool" \notin Fault
  PROVE  \A c \in Branch : job'[c].clean
<1>1. job \in [Branch -> Job]
  BY DEF SInv, TypeOK, SDKTypeOK
<1>2. CASE (\A c \in Branch \ {b} : job'[c] = job[c]) /\ job'[b].clean
  BY <1>2 DEF AllClean
<1>3. ASSUME NEW j \in Job, Start(b, j), j.pc \in {"props", "key"}, j.clean
      PROVE  \A c \in Branch : job'[c].clean
  <2>1. job'[b].pc = j.pc /\ \A c \in Branch \ {b} : job'[c].pc = job[c].pc
    BY <1>3, OthersAlike DEF Alike
  <2>2. \A c \in Branch \ {b} : ~InScript(c)
    BY <1>3, <2>1 DEF Serialised, InScript
  <2>3. job'[b] = [j EXCEPT !.clean = j.clean /\ \A c \in Branch \ {b} : ~InScript(c)]
    BY <1>3 DEF Start
  <2>4. job'[b].clean = (j.clean /\ \A c \in Branch \ {b} : ~InScript(c))
    BY <2>3 DEF Job
  <2>5. \A c \in Branch \ {b} : job'[c] = job[c]
    BY <1>3, <2>2 DEF Start
  <2> QED
    BY <1>3, <2>2, <2>4, <2>5 DEF AllClean
<1> QED
  BY <1>2, <1>3 DEF Form, AllClean

(* Everything stays clean.                                                 *)
LEMMA AllCleanStep ==
  ASSUME "tool" \notin Fault
  PROVE  SInv /\ CInv /\ GInv /\ AllClean /\ [Next]_vars /\ Serialised' => AllClean'
<1> SUFFICES ASSUME SInv, CInv, GInv, AllClean, [Next]_vars, Serialised' PROVE AllClean'
  OBVIOUS
<1>1. CASE UNCHANGED vars
  BY <1>1 DEF vars, sdkVars, onboardVars, billVars, AllClean
<1>2. ASSUME NEW b \in Branch, ScriptStep(b), UNCHANGED <<onboardVars, billVars>> PROVE AllClean'
  <2>1. \A c \in Branch : job'[c].clean
    BY <1>2, ScriptForm, FormKeepsClean
  <2> QED
    BY <1>2, <2>1 DEF AllClean, onboardVars, billVars
<1>3. ASSUME NEW b \in Branch, OnboardStep(b), UNCHANGED billVars PROVE AllClean'
  <2>1. \A c \in Branch : job'[c].clean
    BY <1>3, OnboardForm, FormKeepsClean
  <2>2. foreign' = {}
    <3>1. CASE SaveOnboardCSR(b)
      <4>1. ~IsForeign(job[b])
        BY <3>1 DEF SaveOnboardCSR, At, GInv, AttemptOK, AllClean, IsForeign
      <4> QED
        BY <3>1, <4>1 DEF SaveOnboardCSR, AllClean
    <3>2. CASE ~SaveOnboardCSR(b)
      BY <1>3, <3>2 DEF OnboardStep, Begin, Load, LoadFails, ComplianceCSID, ReadSignedTest, ComplianceCheck,
                        ProductionCSID, SaveCredentials, RevokeAndClear, onboardVars, AllClean
    <3> QED
      BY <3>1, <3>2
  <2> QED
    BY <1>3, <2>1, <2>2 DEF AllClean, billVars
<1>4. ASSUME NEW b \in Branch,
             \/ \E n \in 1..MaxICV : BeginBuild(b, n)
             \/ ReadSigned(b) \/ ReadRequest(b) \/ CommitBuilt(b) \/ BeginSubmit(b) \/ SendRequest(b)
      PROVE  AllClean'
  <2>1. /\ UNCHANGED onboardVars /\ Form(b)
        /\ \A c \in Branch : stored'[c] = stored[c] \/ (c = b /\ stored'[c].clean = job[b].clean)
    BY <1>4, BillForm
  <2>2. \A c \in Branch : job'[c].clean
    BY <2>1, FormKeepsClean
  <2>3. foreign' = {}
    BY <2>1 DEF onboardVars, AllClean
  <2>4. \A c \in Branch : stored'[c] # None => stored'[c].clean
    BY <2>1 DEF AllClean
  <2> QED
    BY <2>2, <2>3, <2>4 DEF AllClean
<1>5. CASE Crash
  BY <1>5 DEF Crash, NoJob, onboardVars, billVars, AllClean
<1> QED
  BY <1>1, <1>2, <1>3, <1>4, <1>5 DEF Next

(* The initial states are clean.                                           *)
LEMMA AllCleanInit == Init => AllClean
<1> SUFFICES ASSUME Init PROVE AllClean
  OBVIOUS
<1>1. \A b \in Branch : job[b].clean = TRUE /\ stored[b] = None
  BY DEF Init, SDKInit, NoJob
<1> QED
  BY <1>1 DEF AllClean, Init, OnboardInit

(* The two ways in which an invoice gets another branch's signature are    *)
(* the only ones: if scripts do not overlap and fatoora does not fail, a   *)
(* committed invoice is signed with the credentials of its branch          *)
(* (SignInvoice).                                                          *)
THEOREM SerialScriptsSignOwn ==
  ASSUME "tool" \notin Fault
  PROVE  Spec /\ []Serialised => []SignedByOwnKey
<1>1. AllClean /\ BInv => SignedByOwnKey
  <2> SUFFICES ASSUME AllClean, BInv, NEW b \in Branch, stored[b] # None
               PROVE  stored[b].xml.key = stored[b].key /\ stored[b].xml.cert = stored[b].cert
    BY DEF SignedByOwnKey
  <2>1. stored[b].xml = [doc |-> stored[b].hash, key |-> stored[b].key, cert |-> stored[b].cert]
    BY DEF AllClean, BInv, CleanBuildIsOwn
  <2> QED
    BY <2>1
<1>2. SInv /\ CInv /\ GInv /\ AllClean /\ [Next]_vars /\ Serialised' => AllClean'
  BY AllCleanStep
<1> QED
  BY <1>1, <1>2, AllCleanInit, AttemptsInvariance, SInvariance, CredentialsInvariance, PTL DEF Spec

(* The same holds of the CSRs: if scripts do not overlap and fatoora does  *)
(* not fail, no CSR is sent to ZATCA twice, however often onboardings fail *)
(* otherwise, crash and are repeated (OnboardBranch, GenerateCSR).         *)
THEOREM SerialScriptsSendOnce ==
  ASSUME "tool" \notin Fault
  PROVE  Spec /\ []Serialised => []CSRSentOnce
<1>1. AllClean /\ CInv => CSRSentOnce
  BY DEF AllClean, CInv, SentOK, CSRSentOnce
<1>2. SInv /\ CInv /\ GInv /\ AllClean /\ [Next]_vars /\ Serialised' => AllClean'
  BY AllCleanStep
<1> QED
  BY <1>1, <1>2, AllCleanInit, AttemptsInvariance, SInvariance, CredentialsInvariance, PTL DEF Spec
==============================================================================
