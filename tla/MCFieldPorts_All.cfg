SPECIFICATION Spec
CONSTANTS
  Setups <- MCSetups
  Stranger = "x"
  MaxCalls = 4
  MaxMessages = 2
  MaxWrites = 2
INVARIANTS
  SessionsAreKnown
  ReadsFollowArrival
  FailuresAreTold
  WritesAreAccountedFor
CHECK_DEADLOCK FALSE
