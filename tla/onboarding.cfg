SPECIFICATION Spec
CONSTANTS
  N = 2
  MaxJobs = 2
  MaxICV = 2
  ComplianceInvoices = 2
  Fault = {"tool", "call"}
  None = None
INVARIANTS
  TypeOK
  KeyMatchesCertificate
  OneDevicePerBranch
  OwnCSRSentOnce
  CleanAttemptIsOwn
  SentIsOfItsBill
  CleanBuildIsOwn
CHECK_DEADLOCK FALSE
