SPECIFICATION Spec
CONSTANTS
  None = None
  UnitsPerMs = 1
  Revocable <- MCRevocable
  Instants = {0, 1}
  MaxRevocations = 1
  RevokeOnce = TRUE
  Keys <- KeyRegistry
  ClockSkewToleranceMs = 0
  ActionRisk <- ACTION_RISK
  AttestationThreshold = 0
  MaxAttestationWindowMs = 3
  MaxAttestationRadiusMs = 1
  Calls = {"d1", "read"}
  Request <- MCRequest
  Mapping <- MAPPING
  Routed = {"delete", "read"}
  FreshnessBound <- FRESHNESS
  HumanAuth <- MCHumanAuth
  Token <- MCToken
  AgentId <- MEDIATOR
  KeyId = "b-key"
  RevKeyId = "rev-key"
  QuorumKeys = {}
  QuorumAnswers <- UNANIMOUS
  RadiusMs = 1
  QuorumErrorMs = 1
  WindowMs = 3
  ClockErrorMs = 1
  T0 = 0
  Crms = {{"c-1001"}}
INVARIANTS RevocationLandsOnNextCall
PROPERTIES EffectGetsRecorded ImplementsGate
CHECK_DEADLOCK FALSE
