SPECIFICATION Spec
CONSTANTS
  I = I
  A = A
  B = B
  F = F
  sym = sym
  other = other
  plain = plain
  c1 = c1
  c2 = c2
  NoTok = NoTok
  NoKey = NoKey
  Keys = {I, A, B}
  Symbols = {sym, other}
  Data = {plain}
  Fee = 1
  LeadingZeroTxids = {}
  BraceKeys = {}
  Genesis <- TwoTokenGenesis
  Calls = {c1, c2}
  Payers = {}
  TokenAmounts = {3}
  SatsPerToken = {1}
  IssueLists <- CarelessIssueLists
  DestLists <- CarelessDestLists
  ProperCalls = FALSE
  ParentOutputs = 2
  MaxTxs = 5
SYMMETRY Interchangeable
INVARIANTS
  SupplyConserved
  TokenLineage
PROPERTIES
  ImplementsSupply
CHECK_DEADLOCK FALSE
