SPECIFICATION Spec
CONSTANTS
  None = None
  Subs = {"agent"}
  Scopes = {"crm:delete"}
  Audiences = {"crm"}
  Ttls = {2}
  Instants <- MCInstants
  T0 = 0
  MaxTokens = 2
  Calls = {"s", "d"}
  Server <- MCServer
  Tool <- MCTool
  Contact <- MCContact
  Audience = "crm"
  Contacts = {"c-1001"}
INVARIANTS TypeOK IntrospectionKnowsBearer InactiveMeansWithdrawn DecidedOnLiveAuthority ExposureEndsWithToken
PROPERTIES EffectGetsLogged ImplementsGates
CHECK_DEADLOCK FALSE
