---------------------------- MODULE SDKWorkspace ----------------------------
(***************************************************************************)
(* The SDK wrapper (sdk/sdk.go).  Each call runs a bash script that writes *)
(* its inputs to fixed files, runs ZATCA's command line tool (fatoora) on  *)
(* them and prints the file that the tool wrote.  All calls of a process   *)
(* share these files: those of its branch workers and those of its         *)
(* onboardings.  A script does not stop when fatoora fails, and then it    *)
(* prints what an earlier call left.                                       *)
(*                                                                         *)
(* A key is a number.  The CSR that is made with it, and the certificates  *)
(* that ZATCA issues for that CSR, are the same number.  A branch that was *)
(* onboarded before has its own number.  An onboarding attempt, a build    *)
(* and a submission take the next one, and an attempt makes its key under  *)
(* it.                                                                     *)
(***************************************************************************)
EXTENDS Naturals

CONSTANTS
  N,            \* number of branches
  MaxJobs,      \* bound: onboarding attempts, builds and submissions in one behaviour
  MaxICV,       \* bound: the numbers an invoice is built under
  Fault,        \* "tool" if fatoora may fail, "call" if any other call may
  None          \* no file, no invoice

ASSUME WorkspaceAssumption ==
  /\ N \in Nat /\ MaxJobs \in Nat /\ MaxICV \in Nat
  /\ Fault \subseteq {"tool", "call"}

Branch == 1..N
Number == 0..(N + MaxJobs)
Empty == 0

VARIABLES
  files,  \* the files of the SDK and under /tmp
  csrs,   \* [Number -> the EGS identity that the CSR names]
  job,    \* [Branch -> what the branch's goroutine is doing]
  jobs    \* the number of the last job

sdkVars == <<files, csrs, job, jobs>>

(* What an invoice commits to: its branch, UUID and number.  A branch has  *)
(* one bill, so a bill's UUID is its branch; compliance invoices have the  *)
(* same UUIDs (Empty here) in every branch.                                *)
Document == [branch : Branch, uuid : 0..N, icv : 1..MaxICV]

(* An invoice XML: a document, and the key and certificate in its          *)
(* signature, if it has one.                                               *)
XML == [doc : Document, key : Number, cert : Number]

Unsigned(doc) == [doc |-> doc, key |-> Empty, cert |-> Empty]

(* cert.pem and the private key, invoice.xml, signed.xml, api.json,        *)
(* csr.properties, and the newest CSR and key that fatoora made.           *)
Files ==
  [key : Number, cert : Number, xml : XML \cup {None}, signed : XML \cup {None},
   api : XML \cup {None}, props : Number, csr : Number, pem : Number]

NoFiles ==
  [key |-> Empty, cert |-> Empty, xml |-> None, signed |-> None,
   api |-> None, props |-> Empty, csr |-> Empty, pem |-> Empty]

PC == {"none", "load", "props", "generate", "newestCSR", "newestKey", "save", "compliance",
       "key", "cert", "xml", "tool", "output", "check", "production", "credentials", "commit"}

(* The locals of OnboardBranch, Build or Submit: the service's credentials *)
(* (csr is also its certificate), the number and the XML it works on, and  *)
(* the hash it was given.  clean says that its scripts met no other script *)
(* and no failure of fatoora.                                              *)
Job ==
  [task : {"none", "onboard", "build", "submit"}, pc : PC, call : {"none", "sign", "request"},
   attempt : Number, identity : Number, csr : Number, key : Number,
   icv : 0..MaxICV, xml : XML \cup {None}, hash : Document \cup {None}, clean : BOOLEAN]

NoJob ==
  [task |-> "none", pc |-> "none", call |-> "none", attempt |-> Empty, identity |-> Empty,
   csr |-> Empty, key |-> Empty, icv |-> 0, xml |-> None, hash |-> None, clean |-> TRUE]

SDKTypeOK ==
  /\ files \in Files
  /\ csrs \in [Number -> Number]
  /\ job \in [Branch -> Job]
  /\ jobs \in N..(N + MaxJobs)

SDKInit ==
  /\ files = NoFiles
  /\ csrs = [n \in Number |-> IF n \in Branch THEN n ELSE Empty]
  /\ job = [b \in Branch |-> NoJob]
  /\ jobs = N

------------------------------------------------------------------------------
At(b, pc) == job[b].pc = pc

Move(b, pc) == job' = [job EXCEPT ![b].pc = pc]

(* There is room for one more job.                                         *)
MayBegin == jobs < N + MaxJobs

(* The goroutine returns.                                                  *)
End(b) == job' = [job EXCEPT ![b] = NoJob]

InScript(b) ==
  job[b].pc \in {"props", "generate", "newestCSR", "newestKey", "key", "cert", "xml", "tool", "output"}

(* Branch b goes on as j, which starts a script.                           *)
Start(b, j) ==
  job' = [c \in Branch |->
            IF c = b THEN [j EXCEPT !.clean = @ /\ \A d \in Branch \ {b} : ~InScript(d)]
            ELSE IF InScript(c) THEN [job[c] EXCEPT !.clean = FALSE]
            ELSE job[c]]

(* A call of SignInvoice or GenerateAPIRequest.                            *)
SignInvoice(j, xml) == [j EXCEPT !.pc = "key", !.call = "sign", !.xml = xml]
GenerateAPIRequest(j, xml) == [j EXCEPT !.pc = "key", !.call = "request", !.xml = xml]

------------------------------------------------------------------------------
(* SignInvoice and GenerateAPIRequest, command by command.                 *)

(* Mutant: the key is written only where there is none.                    *)
WriteKeyOnce(b) ==
  /\ At(b, "key")
  /\ files' = [files EXCEPT !.key = IF @ = Empty THEN job[b].key ELSE @]
  /\ Move(b, "cert")
  /\ UNCHANGED <<csrs, jobs>>

(* credentialScript.                                                       *)
WriteKey(b) ==
  /\ At(b, "key")
  /\ files' = [files EXCEPT !.key = job[b].key]
  /\ Move(b, "cert")
  /\ UNCHANGED <<csrs, jobs>>

WriteCert(b) ==
  /\ At(b, "cert")
  /\ files' = [files EXCEPT !.cert = job[b].csr]
  /\ Move(b, "xml")
  /\ UNCHANGED <<csrs, jobs>>

WriteInvoice(b) ==
  /\ At(b, "xml")
  /\ files' = [files EXCEPT !.xml = job[b].xml]
  /\ Move(b, "tool")
  /\ UNCHANGED <<csrs, jobs>>

(* fatoora (external) reads whatever the files hold when it runs.          *)
RunTool(b) ==
  /\ At(b, "tool")
  /\ files' = IF job[b].call = "sign"
                THEN [files EXCEPT !.signed = [files.xml EXCEPT !.key = files.key, !.cert = files.cert]]
                ELSE [files EXCEPT !.api = files.xml]
  /\ Move(b, "output")
  /\ UNCHANGED <<csrs, jobs>>

(* fatoora fails, and the script goes on.                                  *)
ToolFails(b) ==
  /\ "tool" \in Fault /\ job[b].pc \in {"tool", "generate"}
  /\ job' = [job EXCEPT ![b].pc = IF @ = "tool" THEN "output" ELSE "newestCSR", ![b].clean = FALSE]
  /\ UNCHANGED <<files, csrs, jobs>>

Output(b) == IF job[b].call = "sign" THEN files.signed ELSE files.api

(* The script's last command finds no file, or a damaged one, or bash      *)
(* cannot be run at all.                                                   *)
ScriptFails(b) ==
  /\ \/ At(b, "output") /\ Output(b) = None
     \/ At(b, "newestKey") /\ (job[b].csr = Empty \/ files.pem = Empty)
     \/ "call" \in Fault /\ job[b].pc \in {"props", "key", "output"}
  /\ End(b)
  /\ UNCHANGED <<files, csrs, jobs>>

------------------------------------------------------------------------------
(* GenerateCSR, command by command.                                        *)

(* Mutant: the properties are written only where there are none.           *)
WritePropertiesOnce(b) ==
  /\ At(b, "props")
  /\ files' = [files EXCEPT !.props = IF @ = Empty THEN job[b].identity ELSE @]
  /\ Move(b, "generate")
  /\ UNCHANGED <<csrs, jobs>>

WriteProperties(b) ==
  /\ At(b, "props")
  /\ files' = [files EXCEPT !.props = job[b].identity]
  /\ Move(b, "generate")
  /\ UNCHANGED <<csrs, jobs>>

GenerateCSR(b) ==
  /\ At(b, "generate")
  /\ csrs' = [csrs EXCEPT ![job[b].attempt] = files.props]
  /\ files' = [files EXCEPT !.csr = job[b].attempt, !.pem = job[b].attempt]
  /\ Move(b, "newestCSR")
  /\ UNCHANGED jobs

(* ls -t: the newest CSR, and then the newest key.                         *)
NewestCSR(b) ==
  /\ At(b, "newestCSR")
  /\ job' = [job EXCEPT ![b].pc = "newestKey", ![b].csr = files.csr]
  /\ UNCHANGED <<files, csrs, jobs>>

NewestKey(b) ==
  /\ At(b, "newestKey") /\ job[b].csr # Empty /\ files.pem # Empty
  /\ job' = [job EXCEPT ![b].pc = "save", ![b].key = files.pem]
  /\ UNCHANGED <<files, csrs, jobs>>

ScriptStep(b) ==
  \/ WriteKey(b) \/ WriteCert(b) \/ WriteInvoice(b) \/ RunTool(b) \/ ToolFails(b) \/ ScriptFails(b)
  \/ WriteProperties(b) \/ GenerateCSR(b) \/ NewestCSR(b) \/ NewestKey(b)
==============================================================================
