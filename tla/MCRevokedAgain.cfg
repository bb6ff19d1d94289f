SPECIFICATION LogSpec
CONSTANTS
  None = None
  Revocable = {har, token}
  Instants <- MCInstants
  MaxRevocations = 3
  RevokeOnce = FALSE
PROPERTIES RevokedStaysRevoked
CHECK_DEADLOCK FALSE
