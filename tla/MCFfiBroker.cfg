CONSTANTS
  s1 = s1  s2 = s2  tab1 = tab1  tab2 = tab2
  n1 = n1  n2 = n2  n3 = n3  t1 = t1  t2 = t2
  site = site  router = router
  Sessions = {s1}
  Tabs = {tab1}
  Nonces = {n1, n2}
  Threads = {t1, t2}
  Hosts = {site, router}
  HighRiskHosts = {router}
  Denylists = {}
  NoSession = NoSession  NoAction = NoAction  NoNonce = NoNonce
  MaxSessions = 1
  MaxConsumedNonces = 1
  MaxIssuedActions = 1
  MaxPendingApprovals = 1
  MinTtl = 1  MaxTtl = 1
  ActionExpiry = 1
  TtlRequests = {0}
  MaxGeneration = 1
  MaxLifetimes = 2
  MaxTime = 1
SPECIFICATION Spec
SYMMETRY Interchangeable
INVARIANTS OneShot ConfirmationIsBinding OnePlaceAtATime LedgersAreBounded IInv
PROPERTIES RevocationIsFinal ImplementsAuthority
