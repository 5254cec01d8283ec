SPECIFICATION Spec
CONSTANTS
  Handles = {h1}
  Keys = {k1, k2}
  Capacity = 3
  Reservations = {2}
  NoFile = NoFile
  Torn = Torn
  Exclusive = TRUE
  MaxFaults = 1
INVARIANTS DurableBeforeReleased
