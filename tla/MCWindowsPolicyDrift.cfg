CONSTANTS
  bad1 = bad1  bad2 = bad2  bad3 = bad3
  Hosts = {bad1, bad2, bad3}
  NoStaging = NoStaging  NoList = NoList
  Threads = {t1, t2}
  Lists <- SomeLists
  CoreKinds = {"staging", "clear_only", "two_arg"}
  MaxPublishes = 2
  MaxBridges = 1
  MaxWindows = 1
  Parts = {"push"}
  WinThreads = {t1, t2}
  SwitchThreads = {t1, t2}
  Reactions = {r1, r2}
  Idle = Idle  NoCall = NoCall  NoSession = NoSession
  Sessions = {session}
  Tabs = {tab}
  Nonces = {n1, n2}
  MaxSessions = 1
  MaxConsumedNonces = 2
  LedgerSize = 2
  SessionTtl = 1  MinTtl = 1  MaxTtl = 1
  MaxGeneration = 1
  MaxLifetimes = 2
  MaxHostLifetimes = 2
  MaxTime = 1
SPECIFICATION PolicySpec
INVARIANT OneListEverywhere
CHECK_DEADLOCK FALSE
