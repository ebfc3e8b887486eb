CONSTANTS
  feed1 = feed1  feed2 = feed2  ui1 = ui1  ui2 = ui2
  Feeds = {feed1, feed2}
  NoFeed = NoFeed  Nothing = Nothing
  UiTasks = {ui1, ui2}
  Background = Background  Free = Free
  MaxSaves = 3
  MaxRestarts = 1
  TabIds = {"t", "x", "y"}
  Quiet = {"y"}
  Addresses = {"site", "nas", "router"}
  HighRisk = {"nas", "router"}
  Unregistered = Unregistered
  NoRequest = NoRequest
  NoPanel = NoPanel
  NoTabId = NoTabId
  Pinnable = {"t"}
  MaxRequests = 2
  MaxDocuments = 2
SPECIFICATION DesktopSpec
INVARIANTS WhatIsShownIsApproved WindowKept
PROPERTIES FollowedOnceStarted ClearsEnd
CHECK_DEADLOCK FALSE
