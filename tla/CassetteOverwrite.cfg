SPECIFICATION MCSpec
CONSTANTS
  Parts = {"modes"}
  Requests = {1, 2, 3, 4}
  Agents <- LLMAgents
  Tenants <- Callers
  MaxCache = 2
  Second = 2
  MaxTime = 3
CHECK_DEADLOCK FALSE
PROPERTY CassetteAppendOnly
