SPECIFICATION Spec
CONSTANTS
  s1 = s1
  s2 = s2
  p1 = p1
  p2 = p2
  q1 = q1
  q2 = q2
  Session = {s1, s2}
  Prompt = {q1, q2}
  Bids <- TwoBids
  MaxGrant = 1
  PageSize = 1
  Threshold = 1
  Workloads <- Restarting
INVARIANTS RoutingResumes
CHECK_DEADLOCK FALSE
