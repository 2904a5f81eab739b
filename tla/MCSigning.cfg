SPECIFICATION FairSpec
CONSTANTS
  I = I
  A = A
  B = B
  F = F
  sym = sym
  plain = plain
  s1 = s1
  s2 = s2
  NoTok = NoTok
  NoKey = NoKey
  Keys = {I, A, F}
  Symbols = {sym}
  Data = {plain}
  Fee = 1
  LeadingZeroTxids = {}
  BraceKeys = {}
  Genesis <- AllOperations
  Sessions = {s1, s2}
  Payers = {F}
  TokenAmounts = {1}
  IssueLists <- SomeIssues
  DestLists <- FewDests
  Retries = {s1}
  MaxTxs = 5
INVARIANTS
  TypeOK
  AcceptedWhenSigned
PROPERTIES
  SessionsEnd
CHECK_DEADLOCK FALSE
