SPECIFICATION CtxSpec
CONSTANTS
  Entities <- MCEntities
  Roles <- MCRoles
  Verbs <- MCVerbs
  NULL = NULL
  Configs <- MCConfigs
  v1 = v1
  v2 = v2
  MaxRead = 5
INVARIANTS
  ContextTypeOK
  SilentParseExact
  OnlyWhatWasRead
  ContextGivenBack
  LookupSafe
PROPERTY
  MergedStays
