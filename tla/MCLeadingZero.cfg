SPECIFICATION Spec
CONSTANTS
  I = I
  A = A
  B = B
  F = F
  sym = sym
  other = other
  plain = plain
  c1 = c1
  c2 = c2
  NoTok = NoTok
  NoKey = NoKey
  Keys = {I, A, B, F}
  Symbols = {sym}
  Data = {plain}
  Fee = 1
  LeadingZeroTxids = {1}
  BraceKeys = {}
  Genesis <- FeeGenesis
  Calls = {c1}
  Payers = {F}
  TokenAmounts = {3}
  SatsPerToken = {1}
  IssueLists <- SmallIssueLists
  DestLists <- SmallDestLists
  ProperCalls = TRUE
  ParentOutputs = 2
  MaxTxs = 4
INVARIANTS
  FundingOutpointNamed
CHECK_DEADLOCK FALSE
