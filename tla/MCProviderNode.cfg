SPECIFICATION FairSpec
CONSTANTS
  s1 = s1
  s2 = s2
  m1 = m1
  m2 = m2
  m3 = m3
  Session = {s1, s2}
  Prompt = {1, 2, 3}
  Model = {m1, m2, m3}
  Configured = {m1, m2}
  TeeModels = {m1}
  MaxErrors = 2
  MaxChunks = 1
  MaxRetries = 1
  TotalChunks = 2
  Slots = 1
  Workloads <- AllLoads
INVARIANTS TypeOK SessionErrorsReal AnswerMeansServed StreamIntact
           SlotsRespected
PROPERTIES EveryPromptEnds
CHECK_DEADLOCK FALSE
