SPECIFICATION Spec
CONSTANTS
  None = None
  v1 = v1
  v2 = v2
  Db = {"db1"}
  Branch = {1}
  Version = {v1, v2}
  Ctx = {1, 2}
  Slot = {1, 2}
  Asked = {"onboard", "reconcile"}
  Fault = {"registry", "open", "subscribe", "query", "pull", "load", "onboard"}
SYMMETRY VersionSymmetry
CONSTRAINT CallbacksOfOneTenant
INVARIANTS
  TypeOK
  CacheIsOfTenant
  NothingLost
  NoUseAfterClose
  ClosedTakesNoRequest
