SPECIFICATION Spec
CONSTANTS
  N = 2
  MaxJobs = 2
  MaxICV = 1
  ComplianceInvoices = 1
  Fault = {}
  None = None
INVARIANT SignedByOwnKey
CHECK_DEADLOCK FALSE
