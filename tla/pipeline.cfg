SPECIFICATION FairPipelineSpec
CONSTANTS
  r1 = r1
  r2 = r2
  t1 = t1
  ann = ann
  bob = bob
  x1 = x1
  NoToken = NoToken
  BadToken = BadToken
  None = None
  Requests = {r1, r2}
  Tokens = {t1}
  SubOf <- MCSubOf
  Allies = {ann, bob}
  CorrelationIds = {x1}
  Inputs <- MCInputs
  Events = {"redis", "revoke", "expire"}
INVARIANTS
  PipelineTypeOK
  RevokedTokenIsRefused
  AllyIsAuthentic
  IdsAreOwn
  LogTellsTheAnswer
PROPERTIES
  EveryRequestIsAnswered
CHECK_DEADLOCK FALSE
