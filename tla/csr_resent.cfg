SPECIFICATION Spec
CONSTANTS
  N = 1
  MaxJobs = 2
  MaxICV = 1
  ComplianceInvoices = 1
  Fault = {"tool"}
  None = None
INVARIANT CSRSentOnce
CHECK_DEADLOCK FALSE
