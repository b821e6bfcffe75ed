SPECIFICATION FairSpec
CONSTANTS
  None = None
  Reqs = {r1, r2}
  ReqBody = {}
  Expect = {}
  Interim = {}
  Replayable = {}
  Signals = {"ctx"}
  Cancelable = {r2}
  EarlyCancelRequest = FALSE
  ResponseHeaderTimeout = FALSE
  Max1xx = 1
PROPERTIES CanceledReturns GoroutinesEnd
CHECK_DEADLOCK FALSE
