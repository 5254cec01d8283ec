SPECIFICATION LabsSpec
CONSTANTS
  Epochs = {1, 2}
  MaxKeys = 2
  MaxEncaps = 2
  NoPsk = NoPsk
  MaxBuilds = 2
  Height <- MCHeight
  Digest <- MCDigest
  OtsTypes = {1, 2, 3, 4}
  Texts <- MCTexts
  Hashes <- MCHashes
  Tokens <- MCTokens
  Header <- MCHeader
  VendorDefined <- MCVendorDefined
INVARIANTS SecretsAgreeExactly VerifiesExactly DigitsCross CertsOkMeansUsable AuditIsRight
CHECK_DEADLOCK FALSE
