CONSTANTS
  home = home  a = a  b = b  source = source
  c1 = c1  c2 = c2  l1 = l1  t1 = t1
  Pages = {home, a, b, source}
  SourceView = source  Start = home
  NoUrl = NoUrl  NoThread = NoThread  NoSession = NoSession  Garbled = Garbled
  NavThreads = {t1}
  QueueLimit = 2  QueueBound = 3  LateBound = 0  LoadBound = 1
  Callers = {c1, c2}
  Loaders = {l1}
  Savers = {c1, c2, l1}
  Unsavable = {b}
  Unsafe = {b}
  AgentHosts = {a}
  AgentTools = {"navigate", "close_tab"}
  SavedFiles <- TwoFiles
  MaxTabs = 2  MaxCalls = 2  MaxExits = 1
SPECIFICATION Spec
SYMMETRY Interchangeable
INVARIANTS TabsInOrder ShownIsCurrent SavedIsCurrent GarbledNeedsOverlap AgentConfined
