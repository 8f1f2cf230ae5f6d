SPECIFICATION CmdSpec
CONSTANTS
  Entities <- MCEntities
  Roles <- MCRoles
  Verbs <- MCVerbs
  NULL = NULL
  Configs <- MCConfigs
  id1 = id1
  id2 = id2
  Uuids <- MCUuids
  VerbId <- MCVerbId
  NONE = NONE
  InputCerts <- MCInputCerts
  MaxPermissions = 2
INVARIANT
  IdsComeFromPubkeys
