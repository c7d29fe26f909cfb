SPECIFICATION Spec
CONSTANTS
  Processes = {2, 3}
  Tribunals = {"tjsp", "trf1"}
  NoTribunal = "none"
  TribunalOf <- MCTribunalOf
  m1 = m1
  m2 = m2
  MovementIds = {m1, m2}
  Answers <- MCAnswers
  Runs = {job, user}
  Batches = {job}
  Limit = 2
  MaxRetries = 1
  Throttle = 1
  MaxNow = 2
  MaxLogs = 3
INVARIANTS
  SyncTypeOK
  NoMovementTwice
  ImportsMatchTheirLogs
  FinishedRunsLeaveNothingOut
  OutagesAreAnnounced
CHECK_DEADLOCK FALSE
