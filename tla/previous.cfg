SPECIFICATION Spec
CONSTANTS
    w1 = w1
    w2 = w2
    w3 = w3
    editor = editor
    browser = browser
    NoWindow = NoWindow
    Windows <- TwoWindows
    InitialWindows <- TwoWindows
    InitialFrame <- Here
    InitialPlacements <- Minimizable
    Apps <- OneApp
    App <- SameApp
    Frames <- ThreePlaces
    Placements <- Minimizable
    TopmostAware <- NoWindows
    Elevated <- NoWindows
    InitialSettings <- Defaults
    SettingsChoices <- NoChoice
    Changes <- FocusChanges
    Commands <- NoCommands
    Pickers <- NoPicker
    MaxChanges = 1
    MaxGroup = 0
    Tolerance = 2
INVARIANT PreviousIsPrevious
CHECK_DEADLOCK FALSE
