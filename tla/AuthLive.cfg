SPECIFICATION FairSpec
CONSTANTS
  c1 = c1  c2 = c2  p1 = p1  p2 = p2
  Callers <- TwoCallers
  Processes = {p1}
  Proc <- OneProcess
  Lifetime = 3  Margin = 2  Timeout = 1
  RfcErrors = TRUE
  Accidents = {"crash", "drop"}
  MaxIssued = 2  MaxTime = 1  MaxDropped = 1
PROPERTY CallsReturn
