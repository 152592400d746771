------------------------------ MODULE MCScreen ------------------------------
(***************************************************************************)
(* What WindowMark paints on the screen: the borders, and the strip of one *)
(* window with the preview, each stepping by itself.  The strips of two    *)
(* windows are in MCParts.  Run "screen" of the README.                    *)
(***************************************************************************)
EXTENDS BorderBackend, BookmarkStrip

VARIABLE shows     \* "borders" or "strip": the one that steps

LeftFrame == Rect(2, 2, 8, 8)
RightFrame == Rect(6, 2, 14, 8)
TwoFrames == {LeftFrame, RightFrame}
LeftMonitor == [bounds |-> Rect(0, 0, 10, 12), work |-> Rect(0, 0, 10, 8)]
RightMonitor == [bounds |-> Rect(10, 0, 20, 12), work |-> Rect(10, 0, 20, 8)]
OneMonitor == {LeftMonitor}
OneOrTwoMonitors == {{LeftMonitor}, {LeftMonitor, RightMonitor}}
NobodysOwner == [w \in BorderWindows |-> NoOwner]
-----------------------------------------------------------------------------
ScreenInit == shows \in {"borders", "strip"} /\ BorderInit /\ StripInit

ScreenNext ==
  /\ UNCHANGED shows
  /\ \/ shows = "borders" /\ BorderNext /\ UNCHANGED stripVars
     \/ shows = "strip" /\ StripNext /\ UNCHANGED borderVars

ScreenSpec ==
  /\ ScreenInit /\ [][ScreenNext]_<<shows, borderVars, stripVars>>
  /\ BorderFairness /\ StripFairness

ScreenTypeOK == BorderTypeOK /\ StripTypeOK
=============================================================================
