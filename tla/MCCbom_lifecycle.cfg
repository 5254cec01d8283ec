SPECIFICATION Spec
CONSTANTS
  Files <- MCFiles
  Hosts <- MCHosts
  Contents <- MCContents
  Answers <- MCAnswers
  PqGroups <- MCPqGroups
  Aliases <- MCAliases
  PqSignatures <- MCPqSignatures
INVARIANTS ReferencesResolve
PROPERTIES ScanIsExact MergeOnlyAdds
