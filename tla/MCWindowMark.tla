---------------------------- MODULE MCWindowMark ----------------------------
(* Model-checking instances of WindowMark: see README, "Runs".             *)
EXTENDS WindowMark

CONSTANTS w1, w2, w3, editor, browser

TwoWindows   == {w1, w2}
ThreeWindows == {w1, w2, w3}
OneWindow    == {w1}
NoWindows    == {}

NoPicker     == {}
PickOne      == {{w1}}
PickTwins    == {{w1, w2}}

TwoApps      == {editor, browser}
OneApp       == {editor}
SameApp      == [w \in Windows |-> editor]
MixedApps    == [w \in Windows |-> IF w = w3 THEN browser ELSE editor]

(* Two places of the same width that are too far apart for the watchdog to *)
(* tolerate, and a wider frame.                                            *)
Here  == [left |-> 0, right |-> 10]
There == [left |-> 3, right |-> 13]
Wider == [left |-> 0, right |-> 14]
OnePlace    == {Here}
ThreePlaces == {Here, There, Wider}

(* w1 and w2 run the same application and nothing tells them apart.        *)
Twins == Permutations({w1, w2})

NormalOnly    == {"normal"}
Minimizable   == {"normal", "minimized"}
AllPlacements == {"normal", "minimized", "maximized"}

Defaults ==
    [pinEnabled |-> TRUE, drawerEnabled |-> TRUE, activeWindowOnly |-> FALSE,
     borderEnabled |-> TRUE, disabledApps |-> {}, borderExcludedApps |-> {},
     excludedClasses |-> {}]


NoChoice       == {}
PinsOff        == [Defaults EXCEPT !.pinEnabled = FALSE, !.borderEnabled = FALSE]
PinChoices     == {Defaults, PinsOff}

TrackingChanges  == {"open", "close", "hide", "show", "desktop", "place", "move",
                     "focus", "unhook"}
TrackingCommands == {"tick", "switch"}
PinChanges       == {"open", "close", "hide", "show", "title", "topmost"}
PinCommands      == {"pin", "unpinall", "settings", "preview", "pickborder", "stop"}
GroupChanges     == {"close", "focus"}
GroupCommands    == {"group", "pick", "overlay"}

StopChanges      == {"hide"}
StopCommands     == {"pin", "stop"}
FocusChanges     == {"focus"}
NoCommands       == {}
=============================================================================
