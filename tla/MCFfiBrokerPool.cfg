CONSTANTS
  s1 = s1  s2 = s2  tab1 = tab1  tab2 = tab2
  n1 = n1  n2 = n2  n3 = n3  t1 = t1  t2 = t2
  site = site  router = router
  Sessions = {s1, s2}
  Tabs = {tab1, tab2}
  Nonces = {n1, n2}
  Threads = {t1}
  Hosts = {site, router}
  HighRiskHosts = {router}
  Denylists <- TwoDenylists
  NoSession = NoSession  NoAction = NoAction  NoNonce = NoNonce
  MaxSessions = 1
  MaxConsumedNonces = 2
  MaxIssuedActions = 1
  MaxPendingApprovals = 1
  MinTtl = 1  MaxTtl = 2
  ActionExpiry = 1
  TtlRequests = {0, 9}
  MaxGeneration = 0
  MaxLifetimes = 1
  MaxTime = 2
SPECIFICATION Spec
SYMMETRY Interchangeable
PROPERTIES LiveSessionsSurvive NoSilentWithdrawal
