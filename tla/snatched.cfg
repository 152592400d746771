\* The drag gesture over two windows, one of an excluded application.
SPECIFICATION PartsSpec
CONSTANTS
  Parts <- DragOnly
  DragWindows = {"w1", "w2"}
  ZOrder <- TwoDragWindows
  Draggable = {"w1", "w2"}
  DragChoices <- SomeChoices
  NoWindow = "none"
  PageValues = {0, 1}
  Plain = 0
  Marker = FALSE
  MaxChanges = 2
  StoreFaults = {"locked", "killed", "unreadable", "unplugged", "refused"}
  MaxWrites = 5
  MaxHistory = 2
  MaxHistoryBytes = 3
  MaxRescueAttempts = 1
  KeeperFaults = {"nomemory"}
  StripHosts = {a, b}
  NoHost = NoHost
  DestroyNotices = {"silent"}
  MenuWindows = {p, q}
  NoMenuWindow = NoMenuWindow
  MaxMenuEvents = 1
  Procs = {p1, p2, p3}
  NoProc = NoProc
  InstanceFaults = {}
  GrabWindows = {g1, g2}
  NoGrab = NoGrab
  MaxGroupId = 2
  Mods = {"alt", "ctrl"}
  SwitchKeys = {"1", "tilde"}
  PinKeys = {"1", "p"}
  NoMods = "none"
  NoKey = NoKey
INVARIANT ExcludedKeepTheirPresses
CHECK_DEADLOCK FALSE
