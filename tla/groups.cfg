SPECIFICATION Spec
CONSTANTS
    w1 = w1
    w2 = w2
    w3 = w3
    editor = editor
    browser = browser
    NoWindow = NoWindow
    Windows <- ThreeWindows
    InitialWindows <- ThreeWindows
    InitialFrame <- Here
    InitialPlacements <- NormalOnly
    Apps <- TwoApps
    App <- MixedApps
    Frames <- OnePlace
    Placements <- NormalOnly
    TopmostAware <- NoWindows
    Elevated <- NoWindows
    InitialSettings <- Defaults
    SettingsChoices <- NoChoice
    Changes <- GroupChanges
    Commands <- GroupCommands
    Pickers <- PickTwins
    MaxChanges = 1
    MaxGroup = 2
    Tolerance = 2
INVARIANTS RecordConsistent JumpMatchesFullGroups
SYMMETRY Twins
