SPECIFICATION Spec
CONSTANTS
  None = None
  Bill <- MCBill
  Branch <- MCBranch
  Request <- MCRequest
  Event <- MCEvent
  UUID <- MCUUID
  Fingerprint <- MCFingerprint
  Message <- OneBill
  Configured <- MCBranch
  BillBranch <- AllOfBranch1
  BillUUID <- NoUUIDYet
  BillKind <- XStandardYSimplified
  Reportable <- MCBill
  MaxICV = 3
  Worker = {w1}
  WorkerBranch <- AllWorkBranch1
  MaxDeliver = 2
  HeldStatus = {409}
  Fault = {"api"}
  Responder = {o1}
  HashForm = "base64"
SYMMETRY Interchangeable
INVARIANTS
  StoredHashIsTaken
