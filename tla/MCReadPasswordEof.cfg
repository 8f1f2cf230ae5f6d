SPECIFICATION FairSpec
CONSTANTS
  Signals <- MCSignals
  Handled <- MCHandled
  Fatal <- MCFatal
  Chars = {a, b}
  NUL = NUL
  NL = NL
  PASSWORD_MAX = 3
  MaxSignals = 2
  MaxTyped = 3
INVARIANT
  PasswordAsTyped
