SPECIFICATION FairSpec
CONSTANTS
  None = None
  Bill <- RefusedBill
  Branch = {1, 2}
  Request <- RefusedRequest
  Event <- RefusedEvent
  UUID <- MCUUID
  Fingerprint <- MCFingerprint
  Message <- Refusals
  Configured = {1}
  BillBranch <- RefusedBillBranch
  BillUUID <- RefusedBillUUID
  BillKind <- RefusedBillKind
  Reportable <- RefusedReportable
  MaxICV = 1
  Worker = {"w1", "w2"}
  WorkerBranch <- OneWorkerPerBranch
  MaxDeliver = 2
  HeldStatus = {409}
  Fault = {"api"}
  Responder = {}
  HashForm = "base64"
INVARIANTS
  IssuedAsAsked
PROPERTIES
  EveryMessageSettles
  CommittedIsAnswered
