SPECIFICATION BrokersSpec
CONSTANTS
  Threads = {t1, t2}
  ActionNonces = {n1, n2}
  AgentSessions = {s1, s2}
  AgentTabs = {tab1, tab2}
  Sizes = {1, 2, 3}
  NoTab = NoTab
  NoAction = NoAction
  NonceCacheCapacity = 1
  MaxActions = 2
  MaxBytes = 2
  MaxAgentGeneration = 1
  HostThreads = {t1, t2}
  Nonces = {n1, n2}
  Sessions = {session}
  Tabs = {tab}
  NoSession = NoSession
  NoCall = NoCall
  MaxSessions = 1
  MaxConsumedNonces = 2
  MinTtl = 1
  MaxTtl = 1
  SessionTtl = 1
  LedgerSize = 1
  MaxGeneration = 1
  MaxLifetimes = 2
  MaxHostLifetimes = 2
  MaxTime = 1
  MaxAccepted = 3
SYMMETRY Symmetry
INVARIANTS OneShotInWindow BudgetIsKept OnlyAllowedActionsBind RevokedDenies AndroidKept
CHECK_DEADLOCK FALSE
