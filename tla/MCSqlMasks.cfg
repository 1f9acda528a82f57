SPECIFICATION SSpec
CONSTANTS
  SPolicies <- MCPolicies
  SEngines = {"trino", "spark", "dremio"}
  SQueries <- MCQueries
  SMasks <- MCMasks
INVARIANTS MaskPolicyMasks
CHECK_DEADLOCK FALSE
