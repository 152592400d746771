SPECIFICATION Spec
CONSTANTS
    w1 = w1
    w2 = w2
    w3 = w3
    editor = editor
    browser = browser
    NoWindow = NoWindow
    Windows <- TwoWindows
    InitialWindows <- TwoWindows
    InitialFrame <- Here
    InitialPlacements <- NormalOnly
    Apps <- OneApp
    App <- SameApp
    Frames <- OnePlace
    Placements <- AllPlacements
    TopmostAware <- TwoWindows
    Elevated <- OneWindow
    InitialSettings <- Defaults
    SettingsChoices <- NoChoice
    Changes <- StopChanges
    Commands <- StopCommands
    Pickers <- PickOne
    MaxChanges = 2
    MaxGroup = 0
    Tolerance = 2
INVARIANT NothingStranded
CHECK_DEADLOCK FALSE
