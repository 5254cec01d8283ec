SPECIFICATION Spec
CONSTANTS
  NoAlg = NoAlg
  LastDay = 1
  Parties = {client, server}
  InitialDocs <- MCDocs
  Victims = {"X-Wing", "ML-KEM-768"}
  MaxVersion = 5
INVARIANTS ChannelsKeepTheRules ConnectivityIsSymmetric
PROPERTIES OnlyRollbackOrLoadWidens
