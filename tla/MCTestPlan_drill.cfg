SPECIFICATION PlanSpec
CONSTANTS
  NoAlg = NoAlg
  LastDay = 1
  StartDocs <- MCDocs
  Estates <- MCEstates
  N = 2
INVARIANTS DrillKeepsItsPromise PlanIsHonest
