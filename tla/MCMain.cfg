SPECIFICATION MainSpec
CONSTANTS
  s1 = s1
  s2 = s2
  Strings <- MCStrings
  Rounds <- MCRounds
  Words <- MCWords
  NULL = NULL
  OptionsUsed <- MCOptionsUsed
  MaxOptions = 3
  LibraryErrors <- MCLibraryErrors
INVARIANTS
  MainTypeOK
  OptionsExact
  EveryBlockFreed
  OwnersOutlive
  ExitTellsSuccess
