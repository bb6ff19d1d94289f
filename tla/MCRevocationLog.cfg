SPECIFICATION LogSpec
CONSTANTS
  None = None
  Revocable = {har, token}
  Instants <- MCInstants
  MaxRevocations = 3
  RevokeOnce = FALSE
INVARIANTS LogTypeOK HeadNamesHistory EntryPinned NothingForgotten SnapshotAnswersAsLive
CHECK_DEADLOCK FALSE
