-------------------------- MODULE MCReconciliation --------------------------
(***************************************************************************)
(* Instances of Reconciliation for TLC: which envelopes the backend        *)
(* publishes, on which branches, and for which bills.                      *)
(***************************************************************************)
EXTENDS Reconciliation, TLC

MCBill == {"x", "y"}
MCBranch == {1}
MCRequest == {"r1", "r2"}
MCEvent == {"e1", "e2"}
MCUUID == {"u1", "u2"}
MCFingerprint == {"f1", "f2"}

(* One envelope of branch 1.                                               *)
Env(seq, b, r, e, u, f) ==
  [seq |-> seq, subject |-> 1, valid |-> TRUE, bill |-> b, branch |-> 1,
   request |-> r, event |-> e, uuid |-> u, fingerprint |-> f]

FirstBill == Env(1, "x", "r1", "e1", "u1", "f1")
SecondBill == Env(2, "y", "r2", "e2", "u2", "f2")

(* Two bills of one branch, and an envelope that does not decode.          *)
TwoBillsOneUnreadable ==
  {FirstBill, SecondBill, [SecondBill EXCEPT !.seq = 3, !.valid = FALSE]}

(* One bill.                                                               *)
OneBill == {FirstBill}

(* One bill, asked for by two requests under two UUIDs.                    *)
DisputedBill == {FirstBill, Env(2, "x", "r2", "e2", "u2", "f2")}

(* A second request for the bill, then the first request again under the   *)
(* event of the second one.                                                *)
Republished == DisputedBill \cup {Env(3, "x", "r1", "e2", "u1", "f1")}

AllOfBranch1 == [b \in MCBill |-> 1]
NoUUIDYet == [b \in MCBill |-> None]
XStandardYSimplified == [b \in MCBill |-> IF b = "x" THEN "standard" ELSE "simplified"]

AllWorkBranch1 == [w \in Worker |-> 1]

(* Every way to be refused, on two branches of which the second has no     *)
(* chain: an envelope that does not decode, one on the wrong subject, a    *)
(* bill that cannot be reported, a bill that carries another UUID, a bill  *)
(* of another branch, a branch without a chain, more bills than MaxICV,    *)
(* and a request repeated with another fingerprint.                        *)
RefusedBill == {"x", "y", "unreportable", "carries u2", "of branch 2"}
RefusedRequest == {"r1", "r2", "r3", "r4", "r5", "r6"}
RefusedEvent == {"e1", "e2", "e3", "e4", "e5", "e6"}

Refusals ==
  {[Env(1, "of branch 2", "r6", "e6", "u2", "f1") EXCEPT !.subject = 2, !.branch = 2],
   [Env(2, "y", "r2", "e2", "u1", "f2") EXCEPT !.valid = FALSE],
   [FirstBill EXCEPT !.seq = 3, !.branch = 2, !.bill = "of branch 2"],
   Env(4, "unreportable", "r3", "e3", "u1", "f1"),
   Env(5, "carries u2", "r4", "e4", "u1", "f1"),
   Env(6, "of branch 2", "r5", "e5", "u1", "f1"),
   [FirstBill EXCEPT !.seq = 7],
   Env(8, "y", "r2", "e2", "u2", "f2"),
   Env(9, "y", "r1", "e1", "u2", "f2")}

RefusedBillBranch == [b \in RefusedBill |-> IF b = "of branch 2" THEN 2 ELSE 1]
RefusedBillUUID == [b \in RefusedBill |-> IF b = "carries u2" THEN "u2" ELSE None]
RefusedBillKind == [b \in RefusedBill |-> "simplified"]
RefusedReportable == RefusedBill \ {"unreportable"}
OneWorkerPerBranch == [w \in {"w1", "w2"} |-> IF w = "w1" THEN 1 ELSE 2]

Interchangeable == Permutations(Worker) \cup Permutations(Responder)
==============================================================================
