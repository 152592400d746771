------------------------------- MODULE Desktop ------------------------------
(***************************************************************************)
(* The windows of other programs as Windows shows them to WindowMark: what *)
(* IsWindow, IsWindowVisible, DWMWA_CLOAKED, IsIconic, IsZoomed, the       *)
(* extended frame, WS_EX_TOPMOST and GetForegroundWindow answer.  External *)
(* to the repository; modelled from the calls that read and write it.      *)
(*                                                                         *)
(* Only windows that the remaining tests of IsEligibleTopLevelWindow admit *)
(* (no owner, no tool window, ...) are represented; every other window,    *)
(* the taskbar and WindowMark's own windows are NoWindow.                  *)
(***************************************************************************)
EXTENDS Integers, FiniteSets

CONSTANTS
    Windows,            \* window handles
    NoWindow,           \* the handle 0
    Frames,             \* window frames along one axis: [left, right]
    Placements,         \* subset of {"normal", "minimized", "maximized"}
    Elevated,           \* windows whose style a normal process cannot change
    TopmostAware        \* windows with an always-on-top switch of their own

VARIABLES
    exists,             \* the handles that name a live window
    shown,              \* IsWindowVisible
    cloaked,            \* DWM does not draw it (another virtual desktop, ...)
    placement,          \* normal, minimized or maximized
    frame,              \* where the window is
    topmost,            \* the windows that have WS_EX_TOPMOST
    ownTopmost,         \* history: the windows that want WS_EX_TOPMOST themselves
    foreground          \* the foreground window, or NoWindow

desktopVars ==
    <<exists, shown, cloaked, placement, frame, topmost, ownTopmost, foreground>>

ASSUME DesktopAssumption ==
    /\ NoWindow \notin Windows /\ IsFiniteSet(Windows)
    /\ Placements \subseteq {"normal", "minimized", "maximized"}
    /\ "normal" \in Placements
    /\ \A f \in Frames : f.left \in Int /\ f.right \in Int
    /\ Frames # {}
    /\ Elevated \subseteq Windows /\ TopmostAware \subseteq Windows

DesktopTypeOK ==
    /\ exists \subseteq Windows
    /\ shown \subseteq exists
    /\ cloaked \subseteq exists
    /\ placement \in [Windows -> Placements]
    /\ frame \in [Windows -> Frames]
    /\ topmost \subseteq exists
    /\ ownTopmost \subseteq exists
    /\ foreground \in exists \cup {NoWindow}

(* The part of IsEligibleTopLevelWindow that can change under a window.    *)
OnScreen == shown \ cloaked

-----------------------------------------------------------------------------
(* What other programs, and the user acting on them, do.                   *)

OpenWindow(w) ==
    /\ w \notin exists
    /\ exists' = exists \cup {w}
    /\ shown' = shown \cup {w}
    /\ \E p \in Placements, f \in Frames :
          /\ placement' = [placement EXCEPT ![w] = p]
          /\ frame' = [frame EXCEPT ![w] = f]
    /\ \/ UNCHANGED <<topmost, ownTopmost>>
       \/ w \in TopmostAware /\ topmost' = topmost \cup {w} /\ ownTopmost' = ownTopmost \cup {w}
    /\ UNCHANGED <<cloaked, foreground>>

CloseWindow(w) ==
    /\ w \in exists
    /\ exists' = exists \ {w}
    /\ shown' = shown \ {w}
    /\ cloaked' = cloaked \ {w}
    /\ topmost' = topmost \ {w}
    /\ ownTopmost' = ownTopmost \ {w}
    /\ foreground' = IF foreground = w THEN NoWindow ELSE foreground
    /\ UNCHANGED <<placement, frame>>

HideWindow(w) ==
    /\ w \in shown
    /\ shown' = shown \ {w}
    /\ foreground' = IF foreground = w THEN NoWindow ELSE foreground
    /\ UNCHANGED <<exists, cloaked, placement, frame, topmost, ownTopmost>>

ShowWindow(w) ==
    /\ w \in exists \ shown
    /\ shown' = shown \cup {w}
    /\ UNCHANGED <<exists, cloaked, placement, frame, topmost, ownTopmost, foreground>>

(* A switch of virtual desktops cloaks the windows of the one that is left *)
(* and uncloaks those of the other.                                        *)
SwitchDesktop(leaving) ==
    /\ leaving \subseteq exists
    /\ leaving # cloaked
    /\ cloaked' = leaving
    /\ foreground' = IF foreground \in leaving THEN NoWindow ELSE foreground
    /\ UNCHANGED <<exists, shown, placement, frame, topmost, ownTopmost>>

Place(w, p) ==
    /\ w \in exists /\ p # placement[w]
    /\ placement' = [placement EXCEPT ![w] = p]
    /\ foreground' = IF p = "minimized" /\ foreground = w THEN NoWindow ELSE foreground
    /\ UNCHANGED <<exists, shown, cloaked, frame, topmost, ownTopmost>>

MoveWindow(w, f) ==
    /\ w \in exists /\ f # frame[w]
    /\ frame' = [frame EXCEPT ![w] = f]
    /\ UNCHANGED <<exists, shown, cloaked, placement, topmost, ownTopmost, foreground>>

(* The user turns to w; NoWindow is the taskbar or WindowMark itself.      *)
(* Clicking a minimized window's taskbar button restores it as well.       *)
Focus(w) ==
    /\ w \in OnScreen \cup {NoWindow}
    /\ w # foreground
    /\ foreground' = w
    /\ placement' =
          IF w # NoWindow /\ placement[w] = "minimized"
          THEN [placement EXCEPT ![w] = "normal"] ELSE placement
    /\ UNCHANGED <<exists, shown, cloaked, frame, topmost, ownTopmost>>

(* An application turns its own always-on-top switch.                      *)
OwnTopmost(w) ==
    /\ w \in exists \cap TopmostAware
    /\ (w \in topmost) = (w \in ownTopmost)
    /\ IF w \in topmost
       THEN topmost' = topmost \ {w} /\ ownTopmost' = ownTopmost \ {w}
       ELSE topmost' = topmost \cup {w} /\ ownTopmost' = ownTopmost \cup {w}
    /\ UNCHANGED <<exists, shown, cloaked, placement, frame, foreground>>
=============================================================================
