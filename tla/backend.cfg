SPECIFICATION Spec
CONSTANTS
    w1 = w1
    w2 = w2
    NoWindow = NoWindow
    Windows <- MCWindows
    RaisedKinds <- MCRaisedKinds
INVARIANTS TypeOK NoLostWakeup
PROPERTIES ImplementsChannel NothingHeldBack
