SPECIFICATION Spec
CONSTANTS
  Messages <- MCMessages
  Schemas <- MCSchemas
  Tails <- MCTails
  Places = {1, 2, 3, 4, 5, 6, 31, 32, 98, 99, 100, 101, 172}
  Bytes = {0, 1, 65, 128, 129, 192, 193}
INVARIANTS  RoundTrips CutOrFollowedRefused ExtensionSafe AcceptedIsStable
CHECK_DEADLOCK FALSE
