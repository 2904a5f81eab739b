SPECIFICATION Spec
CONSTANTS
  I = I
  A = A
  B = B
  F = F
  sym = sym
  plain = plain
  s1 = s1
  s2 = s2
  NoTok = NoTok
  NoKey = NoKey
  Keys = {I, A, B, F}
  Symbols = {sym}
  Data = {plain}
  Fee = 1
  LeadingZeroTxids = {}
  BraceKeys = {}
  Genesis <- AllOperations
  Sessions = {s1}
  Payers = {F}
  TokenAmounts = {1}
  IssueLists <- SomeIssues
  DestLists <- SomeDests
  Retries = {}
  MaxTxs = 4
INVARIANTS
  SignInfoNamesOwnedInput
CHECK_DEADLOCK FALSE
