SPECIFICATION FairSpec
CONSTANTS
  Size = 3
  Keks = {rsa, xwing}
  None = None
  Torn = Torn
  Lost = Lost
  MaxDeks = 6
  MaxFaults = 2
INVARIANTS OneLossPerFault RetiredIsSafe
PROPERTIES ImplementsKeyedStore RetriedRekeyCompletes
