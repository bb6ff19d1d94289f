SPECIFICATION Spec
CONSTANTS
  None = None
  UnitsPerMs = 1
  Revocable <- MCRevocable
  Instants <- MCInstants
  MaxRevocations = 2
  RevokeOnce = FALSE
  Keys <- KeyRegistry
  ClockSkewToleranceMs = 0
  ActionRisk <- ACTION_RISK
  AttestationThreshold = 2
  MaxAttestationWindowMs = 3
  MaxAttestationRadiusMs = 1
  Calls = {"delete", "other"}
  Request <- MCRequest
  Mapping <- MAPPING
  Routed = {"delete", "read"}
  FreshnessBound <- FRESHNESS
  HumanAuth <- MCHumanAuth
  Token <- MCToken
  AgentId <- MEDIATOR
  KeyId = "b-key"
  RevKeyId = "rev-key"
  QuorumKeys <- TimeAuthorityKeys
  QuorumAnswers <- UNANIMOUS
  RadiusMs = 1
  QuorumErrorMs = 1
  WindowMs = 3
  ClockErrorMs = 3
  T0 = 0
  Crms = {{"c-1001"}}
INVARIANTS TypeOK CertifiedMeansUnrevoked CertifiedIntervalHoldsEffect HonestEffectAuditsClean
PROPERTIES CertificateStands
CHECK_DEADLOCK FALSE
