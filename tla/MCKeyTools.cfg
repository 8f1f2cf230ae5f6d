SPECIFICATION ToolsSpec
CONSTANTS
  gen1 = gen1
  gen2 = gen2
  pub1 = pub1
  name1 = name1
  name2 = name2
  Procs <- MCProcs
  Keygens <- MCKeygens
  Pubkeys <- MCPubkeys
  Names <- MCNames
  Outsider = Outsider
  NONE = NONE
  WHOLE = 2
  MaxMeddling = 1
INVARIANTS
  ToolsTypeOK
  SilentSuccess
PROPERTY
  NoClobber
