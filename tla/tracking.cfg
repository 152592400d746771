SPECIFICATION Spec
CONSTANTS
    w1 = w1
    w2 = w2
    w3 = w3
    editor = editor
    browser = browser
    NoWindow = NoWindow
    Windows <- TwoWindows
    InitialWindows <- OneWindow
    InitialFrame <- Here
    InitialPlacements <- NormalOnly
    Apps <- OneApp
    App <- SameApp
    Frames <- ThreePlaces
    Placements <- Minimizable
    TopmostAware <- NoWindows
    Elevated <- NoWindows
    InitialSettings <- Defaults
    SettingsChoices <- NoChoice
    Changes <- TrackingChanges
    Commands <- TrackingCommands
    Pickers <- NoPicker
    MaxChanges = 3
    MaxGroup = 0
    Tolerance = 2
INVARIANTS TypeOK WatchdogBound ShownIsCurrent
