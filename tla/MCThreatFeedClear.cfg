CONSTANTS
  feed1 = feed1  feed2 = feed2  ui1 = ui1  ui2 = ui2
  Feeds = {feed1, feed2}
  NoFeed = NoFeed  Nothing = Nothing
  UiTasks = {ui1, ui2}
  Background = Background  Free = Free
  MaxSaves = 2
  MaxRestarts = 0
SPECIFICATION Spec
INVARIANT ClearedStaysCleared
CHECK_DEADLOCK FALSE
