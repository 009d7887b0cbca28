SPECIFICATION Spec
CONSTANTS
  n1 = n1
  n2 = n2
  Nodes = {n1, n2}
  Assets = {a1}
  Hours = {h1}
  Genesis = genesis
  Events = {e1}
  MaxEntries = 3
  MaxTips = 1
  Listeners = {l1}
  Desks = {d1, d2}
  Home <- MCHome
  Fee <- MCFee
  Reward <- MCReward
  Credit <- MCCredit
  SatsPer = 1
  TipSats = 1
  Amounts = {1}
  MaxIndexed = 1
  MaxCalls = 3
  Failing = TRUE
  NaN = NaN
  NoNode = NoNode
  NoClaim = NoClaim
  NoEvent = NoEvent
INVARIANTS
  NeverOverdrawn
  ClaimsWerePaid
  PaidOnce
  BooksBalance
  EntriesExplainBalances
  EvidencePaysItsLevel
PROPERTY
  LedgerIsAtomic
CHECK_DEADLOCK FALSE
