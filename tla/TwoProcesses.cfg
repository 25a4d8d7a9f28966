SPECIFICATION Spec
CONSTANTS
  c1 = c1  c2 = c2  p1 = p1  p2 = p2
  Callers <- TwoCallers
  Processes = {p1, p2}
  Proc <- TwoProcesses
  Lifetime = 4  Margin = 2  Timeout = 1
  RfcErrors = TRUE
  Accidents = {}
  MaxIssued = 3  MaxTime = 4  MaxDropped = 1
INVARIANT NoReplay
