\* Borders of three windows, one of them topmost, and the strip of one.
SPECIFICATION ScreenSpec
CONSTANTS
  BorderWindows = {"a", "b", "c"}
  Topmost = {"c"}
  TreatAsTopmost = {}
  Through = {}
  OwnerOf <- NobodysOwner
  NoOwner = "none"
  FrameChoices <- TwoFrames
  Layouts <- OneOrTwoMonitors
  FirstLayout <- OneMonitor
  BorderWidths = {2, 3}
  MaxDesktop = 3
  BorderFaults = {"monitors", "session", "sink"}
  StripHosts = {a}
  NoHost = NoHost
  DestroyNotices = {"silent"}
INVARIANTS
  ScreenTypeOK
  BordersMatchDesktop
  ForegroundUncrossed
PROPERTIES
  BordersComeBack
  StripsComeToRest
CHECK_DEADLOCK FALSE
