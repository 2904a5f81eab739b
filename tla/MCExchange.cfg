SPECIFICATION Spec
CONSTANTS
  R = R
  M = M
  T = T
  U = U
  F = F
  C = C
  sym = sym
  other = other
  plain = plain
  NoTok = NoTok
  NoKey = NoKey
  o1 = o1
  o2 = o2
  t1 = t1
  t2 = t2
  Keys = {M, T, U, F}
  Symbols = {sym}
  Data = {plain}
  Fee = 1
  LeadingZeroTxids = {}
  BraceKeys = {}
  Genesis <- ThreeTraders
  Offers = {o1, o2}
  Takes = {t1, t2}
  Traders = {M, T, U}
  Payers = {F}
  WantedInfos <- ThreeTradersWanted
  CommissionInfos <- NoCommissions
  TakerAmounts = {1}
  ProperTakers = FALSE
  MaxTxs = 4
SYMMETRY Interchangeable
INVARIANTS
  OfferHonoured
  TakerReceivesAll
PROPERTIES
  ImplementsExchange
CHECK_DEADLOCK FALSE
