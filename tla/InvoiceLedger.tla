---------------------------- MODULE InvoiceLedger ----------------------------
(***************************************************************************)
(* What the daemon promises about a tenant's invoices, with no word about  *)
(* claims, bookings, deliveries or crashes: each branch has a ledger that  *)
(* only grows, a bill is issued at most once, in one ledger, and its       *)
(* answer is decided once.                                                 *)
(***************************************************************************)
EXTENDS Naturals, Sequences

CONSTANTS Branch, Bill, UUID, Outcome

VARIABLES
  ledger,  \* [Branch -> Seq(Bill \X UUID)], the issued invoices in order
  answer   \* [Bill -> "none", "pending" or an Outcome]

Init ==
  /\ ledger = [b \in Branch |-> << >>]
  /\ answer = [x \in Bill |-> "none"]

Issue(b, x, u) ==
  /\ answer[x] = "none"
  /\ ledger' = [ledger EXCEPT ![b] = Append(@, <<x, u>>)]
  /\ answer' = [answer EXCEPT ![x] = "pending"]

Decide(x, o) ==
  /\ answer[x] = "pending"
  /\ answer' = [answer EXCEPT ![x] = o]
  /\ UNCHANGED ledger

Next ==
  \/ \E b \in Branch, x \in Bill, u \in UUID : Issue(b, x, u)
  \/ \E x \in Bill, o \in Outcome : Decide(x, o)

Spec == Init /\ [][Next]_<<ledger, answer>>
==============================================================================
