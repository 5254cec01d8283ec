SPECIFICATION Spec
CONSTANTS
  Offer <- MCOffer
  Marker = {"kex-strict"}
  PqKex = {"mlkem768x25519-sha256"}
  MaxLines = 1
  MaxRecvs = 4
  Aborts = FALSE
INVARIANTS HostkeyAsNegotiated
