SPECIFICATION Spec
CONSTANTS
  None = None
  UnitsPerMs = 1
  Revocable <- MCRevocable
  Instants <- MCInstants
  MaxRevocations = 2
  RevokeOnce = TRUE
  Keys <- MCKeys
  ClockSkewToleranceMs = 0
  ActionRisk <- ACTION_RISK
  AttestationThreshold = 2
  MaxAttestationWindowMs = 3
  MaxAttestationRadiusMs = 1
  Calls = {"delete", "talk"}
  Request <- MCRequest
  Mapping <- MAPPING
  Routed = {"delete"}
  FreshnessBound <- FRESHNESS
  HumanAuth <- MCHumanAuth
  Token <- MCToken
  AgentId <- MEDIATOR
  KeyId = "b-key"
  RevKeyId = "rev-key"
  QuorumKeys <- TimeAuthorityKeys
  QuorumAnswers <- FAULTY
  RadiusMs = 1
  QuorumErrorMs = 1
  WindowMs = 5
  ClockErrorMs = 0
  T0 = 0
  Crms = {{}, {"c-1001"}}
INVARIANTS BlockedAuditsConsistent CertifiedMeansAttested HonestEffectAuditsClean
PROPERTIES PromptEffectCertified
CHECK_DEADLOCK FALSE
