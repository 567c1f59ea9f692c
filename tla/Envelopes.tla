------------------------------ MODULE Envelopes ------------------------------
(***************************************************************************)
(* The document envelopes the backend publishes (queue/message.go) and the *)
(* identities they carry.  Texts are abstracted to values that can only be *)
(* compared; the format checks of Message.Validate are abstracted to the   *)
(* field "valid".                                                          *)
(***************************************************************************)
EXTENDS Naturals

CONSTANTS
  Bill,         \* bill ids of one tenant database
  Branch,       \* branch ids; each branch is one EGS and one invoice chain
  Request,      \* request keys: (pos_id, bill_request_id), Message.RequestKey
  Event,        \* event ids
  UUID,         \* invoice UUIDs chosen by the backend
  Fingerprint,  \* request fingerprints
  Message,      \* the envelopes published in one behaviour
  None          \* SQL NULL, and "not set" in a worker's locals

(* Message of queue/message.go, with the two facts a delivery adds: seq,   *)
(* its position in the stream, and subject, the branch of the subject it   *)
(* was published on.  valid says that DecodeEnvelope accepts it and that   *)
(* it names the worker's tenant and database.                              *)
Envelope ==
  [seq : Nat, subject : Branch, valid : BOOLEAN,
   bill : Bill, branch : Branch, request : Request, event : Event,
   uuid : UUID, fingerprint : Fingerprint]

ASSUME MessageAssumption == Message \subseteq Envelope

ASSUME SeqAssumption == \A m, n \in Message : m.seq = n.seq => m = n

ASSUME NoneAssumption ==
  /\ None \notin Bill /\ None \notin Request /\ None \notin Event
  /\ None \notin UUID /\ None \notin Fingerprint /\ None \notin Message
  /\ None \notin Nat

(* A lease column: SQL NULL, a time in the future, a time in the past.     *)
Lease == {"null", "live", "expired"}
==============================================================================
