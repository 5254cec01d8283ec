SPECIFICATION Spec
CONSTANTS
  Cells <- MCCells
  Groups = {"hybrid", "pure", "x25519"}
  GoSupported = {"hybrid", "x25519"}
  LibraryDefault <- MCDefault
  Shares = 1
  Fragmenting <- MCFragmenting
  Aborts = TRUE
INVARIANTS FlightIsExact FieldsAreRight CellIsTrue
PROPERTIES ObserveEnds
