SPECIFICATION FairSpec
CONSTANTS
  None = None
  Db = {"db1"}
  Branch = {1}
  Version = {"v1"}
  Ctx = {1, 2}
  Slot = {1, 2}
  Asked = {"onboard"}
  Fault = {"pull"}
PROPERTIES
  ShutdownEnds
  ServedOrUnready
