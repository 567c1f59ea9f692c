SPECIFICATION Spec
CONSTANTS
  None = None
  Bill <- MCBill
  Branch <- MCBranch
  Request <- MCRequest
  Event <- MCEvent
  UUID <- MCUUID
  Fingerprint <- MCFingerprint
  Message <- TwoBillsOneUnreadable
  Configured <- MCBranch
  BillBranch <- AllOfBranch1
  BillUUID <- NoUUIDYet
  BillKind <- XStandardYSimplified
  Reportable <- MCBill
  MaxICV = 3
  Worker = {w1, w2}
  WorkerBranch <- AllWorkBranch1
  MaxDeliver = 1
  HeldStatus = {409}
  Fault = {"api", "db", "build", "ack", "crash"}
  Responder = {}
  HashForm = "base64"
SYMMETRY Interchangeable
INVARIANTS
  TypeOK
  ChainIntact
  SentIsCommitted
PROPERTIES
  ChainOnlyGrows
  ImplementsLedger
