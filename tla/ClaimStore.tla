----------------------------- MODULE ClaimStore -----------------------------
(***************************************************************************)
(* SQLClaimStore (queue/sql_claim_store.go): the table                     *)
(* zatca_consumer_claim, one row per request.  Each operation is one       *)
(* transaction, or one UPDATE with a WHERE clause, so it is one step.      *)
(***************************************************************************)
EXTENDS Envelopes

VARIABLE claim   \* [Request -> ClaimRow]

ClaimRow ==
  [state : {"absent", "processing", "completed"},
   event : Event \cup {None},
   fingerprint : Fingerprint \cup {None},
   lease : Lease]

NoClaim ==
  [state |-> "absent", event |-> None, fingerprint |-> None, lease |-> "null"]

ClaimTypeOK == claim \in [Request -> ClaimRow]

ClaimInit == claim = [r \in Request |-> NoClaim]

------------------------------------------------------------------------------
(* The event id is unique over the table: an INSERT or an UPDATE that      *)
(* would repeat it fails.                                                  *)
EventTaken(m) == \E r \in Request \ {m.request} : claim[r].event = m.event

(* The decisions of claimInTx, in the order in which the code takes them.  *)
IsConflict(m) ==
  \/ claim[m.request].state = "absent" /\ EventTaken(m)
  \/ claim[m.request].state # "absent" /\ claim[m.request].fingerprint # m.fingerprint

IsDuplicate(m) ==
  claim[m.request].state = "completed" /\ claim[m.request].fingerprint = m.fingerprint

IsInFlight(m) ==
  /\ claim[m.request].state = "processing"
  /\ claim[m.request].fingerprint = m.fingerprint
  /\ claim[m.request].lease = "live"

(* Mutant: a completed request may be claimed again.                       *)
IsClaimableAgain(m) ==
  \/ claim[m.request].state = "absent"
  \/ claim[m.request].fingerprint = m.fingerprint /\ claim[m.request].lease # "live"

IsClaimable(m) ==
  \/ claim[m.request].state = "absent"
  \/ /\ claim[m.request].state = "processing"
     /\ claim[m.request].fingerprint = m.fingerprint
     /\ claim[m.request].lease # "live"

(* ClaimProcess: insert the row, or take over a row whose lease is over.   *)
Claim(m) ==
  /\ IsClaimable(m)
  /\ ~EventTaken(m)
  /\ claim' = [claim EXCEPT ![m.request] =
                 [state |-> "processing", event |-> m.event,
                  fingerprint |-> m.fingerprint, lease |-> "live"]]

(* The WHERE clause of Release and Complete.                               *)
OwnsClaim(m) ==
  /\ claim[m.request].state = "processing"
  /\ claim[m.request].event = m.event
  /\ claim[m.request].fingerprint = m.fingerprint

ReleaseClaim(m) ==
  claim' = IF OwnsClaim(m) THEN [claim EXCEPT ![m.request].lease = "null"] ELSE claim

(* MySQL counts changed rows, so releasing a claim whose lease is already  *)
(* NULL changes none, and claimOwnerError answers ErrClaimInFlight.        *)
ReleaseAnswersInFlight(m) == OwnsClaim(m) /\ claim[m.request].lease = "null"

(* Complete answers nil: the row is updated, or is already completed for   *)
(* the same event.  Otherwise it answers not found or stale.               *)
CompleteSucceeds(m) ==
  \/ OwnsClaim(m)
  \/ /\ claim[m.request].state = "completed"
     /\ claim[m.request].event = m.event
     /\ claim[m.request].fingerprint = m.fingerprint

CompleteClaim(m) ==
  claim' = IF OwnsClaim(m)
             THEN [claim EXCEPT ![m.request].state = "completed", ![m.request].lease = "null"]
             ELSE claim

(* Time passes the end of a claim's lease.                                 *)
ExpireClaim(r) ==
  /\ claim[r].lease = "live"
  /\ claim' = [claim EXCEPT ![r].lease = "expired"]
------------------------------------------------------------------------------
(* A completed request is over: no late release, no takeover and no other  *)
(* envelope of the request changes its row (the WHERE clauses of Release,  *)
(* Complete and the reclaim in claimInTx).                                 *)
CompletedIsFinal ==
  [][\A r \in Request : claim[r].state = "completed" => claim'[r] = claim[r]]_claim
==============================================================================
