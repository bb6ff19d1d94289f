SPECIFICATION Spec
CONSTANTS
  None = None
  UnitsPerMs = 1
  Revocable <- MCRevocable
  Instants <- MCInstants
  MaxRevocations = 2
  RevokeOnce = TRUE
  Keys <- KeyRegistry
  ClockSkewToleranceMs = 0
  ActionRisk <- ACTION_RISK
  AttestationThreshold = 0
  MaxAttestationWindowMs = 3
  MaxAttestationRadiusMs = 1
  Calls = {"d1", "read"}
  Request <- MCRequest
  Mapping <- MAPPING
  Routed = {"delete", "read"}
  FreshnessBound <- FRESHNESS
  HumanAuth <- MCHumanAuth
  Token <- MCToken
  AgentId <- MEDIATOR
  KeyId = "b-key"
  RevKeyId = "rev-key"
  QuorumKeys = {}
  QuorumAnswers <- UNANIMOUS
  RadiusMs = 1
  QuorumErrorMs = 1
  WindowMs = 3
  ClockErrorMs = 0
  T0 = 0
  Crms = {{"c-1001"}}
INVARIANTS BlockedAuditsConsistent
CHECK_DEADLOCK FALSE
