SPECIFICATION RecordsSpec
CONSTANTS
  p1 = p1
  p2 = p2
  Passphrases <- MCPassphrases
  Certs <- MCCerts
  Rounds <- MCRounds
  Other <- MCOther
  KEY_SIZE = 2
  IV_SIZE = 1
  MAC_SIZE = 2
  NONE = NONE
INVARIANTS
  RecordsTypeOK
  Balanced
  SizesAgree
  OpensWhatWasSealed
  HeaderOpens
