SPECIFICATION Spec
CONSTANTS
  None = None
  Reqs = {r1, r2}
  ReqBody = {r1}
  Expect = {r1}
  Interim = {r1}
  Replayable = {}
  Signals = {"cancel"}
  Cancelable = {r1}
  EarlyCancelRequest = TRUE
  ResponseHeaderTimeout = TRUE
  Max1xx = 1
INVARIANTS TypeOK ResponseRight ReuseSafe FailureSafe
PROPERTY CancelOwn
CHECK_DEADLOCK FALSE
