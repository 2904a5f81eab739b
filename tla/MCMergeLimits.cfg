SPECIFICATION FairSpec
CONSTANTS
  I = I
  A = A
  B = B
  F = F
  sym = sym
  other = other
  plain = plain
  c1 = c1
  c2 = c2
  NoTok = NoTok
  NoKey = NoKey
  Keys = {I, A}
  Symbols = {sym}
  Data = {plain}
  Fee = 1
  LeadingZeroTxids = {}
  BraceKeys = {}
  Genesis <- WideGenesis
  Calls = {c1, c2}
  Payers = {}
  TokenAmounts = {7}
  SatsPerToken = {1}
  IssueLists <- WideIssueLists
  DestLists <- WideDestLists
  ProperCalls = TRUE
  ParentOutputs = 8
  MaxTxs = 5
INVARIANTS
  OnlyWideIssuesBlockMerges
PROPERTIES
  CallsEnd
CHECK_DEADLOCK FALSE
