SPECIFICATION MCSpec
CONSTANTS
  Parts = {"inputs", "flaky", "limited", "random", "script", "tenants", "tools", "pipelines", "schema", "streams", "modes", "sequence"}
  Requests = {1, 2, 3, 4}
  Agents <- LLMAgents
  Tenants <- Callers
  MaxCache = 2
  Second = 2
  MaxTime = 3
CHECK_DEADLOCK FALSE
INVARIANT FaultsExact
INVARIANT ConversationsExact
INVARIANT CacheBilledOnce
INVARIANT OrchestrationExact
INVARIANT ContentStructured
INVARIANT StreamsFaithful
INVARIANT CassetteFaithful
PROPERTY StreamEnds
