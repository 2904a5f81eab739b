SPECIFICATION Spec
CONSTANTS
  R = R
  M = M
  T = T
  U = U
  F = F
  C = C
  sym = sym
  other = other
  plain = plain
  NoTok = NoTok
  NoKey = NoKey
  o1 = o1
  o2 = o2
  t1 = t1
  t2 = t2
  Keys = {R, M, T, U, F, C}
  Symbols = {sym, other}
  Data = {plain}
  Fee = 1
  LeadingZeroTxids = {}
  BraceKeys = {}
  Genesis <- TwoTokens
  Offers = {o1, o2}
  Takes = {t1}
  Traders = {M, T}
  Payers = {F}
  WantedInfos <- CommissionWanted
  CommissionInfos <- SmallCommissions
  TakerAmounts = {}
  ProperTakers = TRUE
  MaxTxs = 5
SYMMETRY Interchangeable
INVARIANTS
  TypeOK
  ProperSwapAccepted
  CommissionPaidTwice
PROPERTIES
  ImplementsExchange
CHECK_DEADLOCK FALSE
