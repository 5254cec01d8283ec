SPECIFICATION FairSpec
CONSTANTS
  Handles = {h1}
  Keys = {k1, k2, k3}
  Capacity = 5
  Reservations = {1, 2, 3}
  NoFile = NoFile
  Torn = Torn
  Exclusive = TRUE
  MaxFaults = 2
INVARIANTS NoIndexReuse ReservedBeforeReleased StateReadable
PROPERTIES CrashCost ImplementsOneTimeKeys EveryIndexSpent
