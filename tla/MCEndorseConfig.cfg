SPECIFICATION RelFairSpec
CONSTANTS
  Entities <- MCEntities
  Roles <- MCRoles
  Verbs <- MCVerbs
  NULL = NULL
  Configs <- MCConfigs
INVARIANTS
  RelTypeOK
  InheritedVerbs
  Verdict
  NoNullVerbOnSuccess
  EveryFaultReported
  NoReleaseAfterFree
  NothingLeaks
PROPERTIES
  CompleteIsFinal
  Implements
  EventuallyReleased
