SPECIFICATION Spec
CONSTANTS
  None = None
  Subs = {"agent"}
  Scopes = {"crm:read", "crm:delete"}
  Audiences = {"crm"}
  Ttls = {2}
  Instants <- MCInstants
  T0 = 0
  MaxTokens = 1
  Calls = {"d"}
  Server <- MCServer
  Tool <- MCTool
  Contact <- MCContact
  Audience = "crm"
  Contacts = {"c-1001"}
INVARIANTS ScopeFixedInToken
CHECK_DEADLOCK FALSE
