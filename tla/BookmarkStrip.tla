---------------------------- MODULE BookmarkStrip ----------------------------
(***************************************************************************)
(* The bookmark strips (WinOverlayBackend.cpp) and the one preview they    *)
(* share (WinPreviewBackend.cpp): hovering with its grace and delay, the   *)
(* animation that runs on a timer only while something moves, dragging a   *)
(* bookmark onto a window, the context menu whose command runs later, and  *)
(* the models of the Coordinator that may destroy a strip in the middle of *)
(* any of it.                                                              *)
(***************************************************************************)
EXTENDS Naturals, FiniteSets, Sequences, SequencesExt

CONSTANTS
  StripHosts,       \* windows with a strip; each strip has a bookmark of every one
  NoHost,
  DestroyNotices    \* what Windows does about the capture of a window that is
                    \* destroyed: subset of {"told", "silent"}

ASSUME StripAssumption ==
  /\ NoHost \notin StripHosts
  /\ DestroyNotices # {} /\ DestroyNotices \subseteq {"told", "silent"}

VARIABLES
  strips,      \* the interaction state of the strip of each host
  preview,     \* [by, thumbnail]: whose request the preview shows
  highlight,   \* Coordinator::pinPreview_, the window outlined as drop target
  commands,    \* messages posted to the menu host
  menu         \* the context menu that is open

stripVars == <<strips, preview, highlight, commands, menu>>

NoStrip == [there |-> FALSE, visible |-> FALSE, hovering |-> FALSE, grace |-> FALSE,
            delay |-> FALSE, armed |-> FALSE, strength |-> 0, titled |-> FALSE,
            timer |-> FALSE, tracking |-> FALSE, shown |-> FALSE, menuOpen |-> FALSE,
            drag |-> "none", dragWindow |-> NoHost, dropTarget |-> NoHost]
FreshStrip == [NoStrip EXCEPT !.there = TRUE, !.visible = TRUE]
NoPreview == [by |-> NoHost, thumbnail |-> FALSE]
NoMenu == [host |-> NoHost, target |-> NoHost]

StripInit ==
  /\ strips = [h \in StripHosts |-> NoStrip]
  /\ preview = NoPreview /\ highlight = NoHost
  /\ commands = <<>> /\ menu = NoMenu
-----------------------------------------------------------------------------
(***************************************************************************)
(* One strip and the preview, as the handlers pass them on: [s, p].        *)
(***************************************************************************)
Now(h) == [s |-> strips[h], p |-> preview]

HidePreview(x) ==
  IF x.s.shown THEN [s |-> [x.s EXCEPT !.shown = FALSE], p |-> NoPreview] ELSE x

ResetInteraction(x) ==
  HidePreview([x EXCEPT !.s = [@ EXCEPT !.timer = FALSE, !.grace = FALSE, !.delay = FALSE,
                                        !.hovering = FALSE, !.armed = FALSE,
                                        !.strength = 0, !.titled = FALSE]])

EmitPreview(h, x) ==
  IF x.s.menuOpen THEN x
  ELSE IF ~x.s.hovering /\ x.s.strength = 0
       THEN HidePreview([x EXCEPT !.s.titled = FALSE])
       ELSE IF ~x.s.titled \/ ~x.s.visible
            THEN HidePreview(x)
            ELSE [s |-> [x.s EXCEPT !.shown = TRUE],
                  p |-> [by |-> h, thumbnail |-> x.s.armed]]

(* Mutant: the strength is not held at its maximum.                        *)
StepStripUnclamped(s) ==
  LET strength == IF s.hovering THEN s.strength + 1
                  ELSE IF s.strength = 0 THEN 0 ELSE s.strength - 1
  IN [s EXCEPT !.strength = strength, !.titled = @ \/ strength > 0]

\* One frame: the magnet's strength (0, partial 1, full 2) moves towards where
\* the pointer is, and with it the sizes and the fading of the layers.
StepStrip(s) ==
  LET strength == IF s.hovering THEN IF s.strength = 2 THEN 2 ELSE s.strength + 1
                  ELSE IF s.strength = 0 THEN 0 ELSE s.strength - 1
  IN [s EXCEPT !.strength = strength,
               !.titled = @ \/ strength > 0]

Settled(s) == s.strength = (IF s.hovering THEN 2 ELSE 0)

Frame(h, x) ==
  LET y == EmitPreview(h, [x EXCEPT !.s = StepStrip(@)])
  IN [y EXCEPT !.s.timer = ~Settled(y.s)]

(* Mutant: the flags are reset, no frame is drawn and no timer started.    *)
EndHoverQuietly(h, x) ==
  [x EXCEPT !.s = [@ EXCEPT !.grace = FALSE, !.delay = FALSE,
                            !.hovering = FALSE, !.armed = FALSE]]

EndHover(h, x) ==
  Frame(h, [x EXCEPT !.s = [@ EXCEPT !.grace = FALSE, !.delay = FALSE,
                                     !.hovering = FALSE, !.armed = FALSE]])

HasDrag(s) == s.drag # "none"
WithoutDrag(s) == [s EXCEPT !.drag = "none", !.dragWindow = NoHost, !.dropTarget = NoHost]
Capturing == {h \in StripHosts : HasDrag(strips[h])}

Becomes(h, x) == strips' = [strips EXCEPT ![h] = x.s] /\ preview' = x.p

\* The mouse belongs to the strip that captured it, or to the open menu; a
\* posted command is handled before further input.
MouseReaches(h) ==
  /\ strips[h].there /\ menu = NoMenu /\ commands = <<>>
  /\ Capturing \subseteq {h}
  /\ strips[h].visible \/ HasDrag(strips[h])
-----------------------------------------------------------------------------
(***************************************************************************)
(* Hovering.                                                               *)
(***************************************************************************)
\* The preview's delay and the grace may be set to nothing.
HoverMove(h) ==
  /\ MouseReaches(h) /\ ~HasDrag(strips[h])
  /\ \E instant \in BOOLEAN :
       LET s == strips[h]
           starts == ~s.hovering /\ ~s.armed
       IN Becomes(h, Frame(h, [s |-> [s EXCEPT
            !.tracking = TRUE, !.grace = FALSE, !.hovering = TRUE,
            !.armed = @ \/ (starts /\ instant),
            !.delay = @ \/ (starts /\ ~instant)], p |-> preview]))
  /\ UNCHANGED <<highlight, commands, menu>>

\* Reported once per tracking, and only once the capture is gone.
MouseLeave(h) ==
  /\ strips[h].there /\ strips[h].tracking /\ ~HasDrag(strips[h])
  /\ LET x == [Now(h) EXCEPT !.s.tracking = FALSE]
     IN \/ Becomes(h, [x EXCEPT !.s.grace = TRUE])
        \/ Becomes(h, EndHover(h, x))
  /\ UNCHANGED <<highlight, commands, menu>>

GraceTimer(h) ==
  /\ strips[h].grace
  /\ Becomes(h, EndHover(h, Now(h)))
  /\ UNCHANGED <<highlight, commands, menu>>

PreviewTimer(h) ==
  /\ strips[h].delay
  /\ LET x == [Now(h) EXCEPT !.s.delay = FALSE]
     IN Becomes(h, IF x.s.hovering THEN Frame(h, [x EXCEPT !.s.armed = TRUE]) ELSE x)
  /\ UNCHANGED <<highlight, commands, menu>>

AnimationTimer(h) ==
  /\ strips[h].timer
  /\ Becomes(h, Frame(h, Now(h)))
  /\ UNCHANGED <<highlight, commands, menu>>
-----------------------------------------------------------------------------
(***************************************************************************)
(* Clicking a bookmark, and dragging it onto a window.                     *)
(***************************************************************************)
Press(h, w) ==
  /\ MouseReaches(h) /\ ~HasDrag(strips[h])
  /\ strips' = [strips EXCEPT ![h].drag = "pressed", ![h].dragWindow = w,
                              ![h].dropTarget = NoHost]
  /\ UNCHANGED <<preview, highlight, commands, menu>>

(* Mutant: the Coordinator hears of the first target only.                 *)
UpdateDragOnce(h, candidate) ==
  /\ MouseReaches(h) /\ HasDrag(strips[h])
  /\ LET x == HidePreview([Now(h) EXCEPT !.s = [@ EXCEPT !.delay = FALSE, !.grace = FALSE,
                                                         !.armed = FALSE]])
         y == IF strips[h].drag = "dragging" THEN Now(h) ELSE x
     IN Becomes(h, [y EXCEPT !.s.drag = "dragging", !.s.dropTarget = candidate])
  /\ highlight' = IF strips[h].dropTarget = NoHost THEN candidate ELSE highlight
  /\ UNCHANGED <<commands, menu>>

\* Past the threshold the preview goes; what cannot be dropped on
\* keeps the last target.
UpdateDrag(h, candidate) ==
  /\ MouseReaches(h) /\ HasDrag(strips[h])
  /\ LET x == HidePreview([Now(h) EXCEPT !.s = [@ EXCEPT !.delay = FALSE, !.grace = FALSE,
                                                         !.armed = FALSE]])
         y == IF strips[h].drag = "dragging" THEN Now(h) ELSE x
     IN Becomes(h, [y EXCEPT !.s.drag = "dragging", !.s.dropTarget = candidate])
  /\ highlight' = IF candidate # strips[h].dropTarget THEN candidate ELSE highlight
  /\ UNCHANGED <<commands, menu>>

\* A drop is posted; anything else was a click, which activates the window and
\* hides the preview.
Release(h) ==
  /\ MouseReaches(h) /\ HasDrag(strips[h])
  /\ LET s == strips[h]
         x == [s |-> WithoutDrag(s), p |-> preview]
         drops == s.drag = "dragging" /\ s.dropTarget \notin {NoHost, s.dragWindow, h}
     IN IF drops
        THEN /\ Becomes(h, x)
             /\ commands' = Append(commands, [kind |-> "drop", window |-> s.dragWindow,
                                              onto |-> s.dropTarget])
        ELSE /\ Becomes(h, IF s.dragWindow # h
                           THEN [HidePreview(x) EXCEPT !.p = NoPreview] ELSE HidePreview(x))
             /\ UNCHANGED commands
  /\ highlight' = NoHost
  /\ UNCHANGED <<menu>>

\* The right button, or the capture taken by another window.
CancelDrag(h) ==
  /\ strips[h].there /\ HasDrag(strips[h])
  /\ Becomes(h, Frame(h, [s |-> WithoutDrag(strips[h]), p |-> preview]))
  /\ highlight' = NoHost
  /\ UNCHANGED <<commands, menu>>
-----------------------------------------------------------------------------
(***************************************************************************)
(* The context menu: modal, and what was chosen runs after it.             *)
(***************************************************************************)
OpenMenu(h, w) ==
  /\ MouseReaches(h) /\ ~HasDrag(strips[h])
  /\ LET x == HidePreview([Now(h) EXCEPT !.s = [@ EXCEPT
                !.menuOpen = TRUE, !.grace = FALSE, !.delay = FALSE,
                !.hovering = FALSE, !.armed = FALSE]])
     IN \/ Becomes(h, Frame(h, x)) /\ menu' = [host |-> h, target |-> w]
        \/ Becomes(h, Frame(h, [x EXCEPT !.s.menuOpen = FALSE])) /\ UNCHANGED menu
  /\ UNCHANGED <<highlight, commands>>

\* The strip may be gone, or be another one, when the menu closes.
CloseMenu ==
  /\ menu # NoMenu
  /\ menu' = NoMenu
  /\ \/ commands' = Append(commands, [kind |-> "menu", window |-> menu.target, onto |-> NoHost])
     \/ UNCHANGED commands
  /\ strips' = [strips EXCEPT ![menu.host].menuOpen = FALSE]
  /\ UNCHANGED <<preview, highlight>>

\* MenuHostProc: a drop, or RunMenuCommand.
RunCommand ==
  /\ commands # <<>>
  /\ commands' = Tail(commands)
  /\ UNCHANGED <<strips, preview, highlight, menu>>
-----------------------------------------------------------------------------
(***************************************************************************)
(* The Coordinator: new models, moved hosts, new settings.                 *)
(***************************************************************************)
(* Mutant: a strip that goes leaves its preview.                           *)
DestroyedOnly(h, x, notice) == x.p

\* Destroy.  Being told of the capture it lost, the strip cancels its drag and
\* draws a last frame, preview included.
Destroyed(h, x, notice) ==
  LET y == HidePreview(x)
  IN IF HasDrag(y.s) /\ notice = "told"
     THEN Frame(h, [y EXCEPT !.s = WithoutDrag(@)]).p
     ELSE y.p

\* UpdateModel, by what differs: the active bookmark, the number of bookmarks,
\* or the host no longer being a window.
Updated(h, x, change) ==
  LET reset == IF change = "count" \/ (change = "gone" /\ x.s.visible)
               THEN ResetInteraction(x) ELSE x
      y == IF change = "gone" THEN [reset EXCEPT !.s.visible = FALSE]
           ELSE [reset EXCEPT !.s.visible = TRUE]
      engaged == y.s.hovering \/ y.s.strength > 0
      z == IF change = "active" /\ engaged THEN Frame(h, y) ELSE y
  IN IF z.s.shown THEN EmitPreview(h, z) ELSE z

Changes == {"active", "count", "gone"}

\* Apply: one host's strip at a time, the order of the map being no order.
\* The strip of a host without a visible model is destroyed.
ApplyModel(h, wanted) ==
  /\ IF ~wanted
     THEN /\ strips[h].there
          /\ \E notice \in DestroyNotices :
               /\ preview' = Destroyed(h, Now(h), notice)
               /\ highlight' = IF HasDrag(strips[h]) /\ notice = "told"
                               THEN NoHost ELSE highlight
          /\ strips' = [strips EXCEPT ![h] = NoStrip]
     ELSE /\ IF strips[h].there
             THEN \E change \in Changes : Becomes(h, Updated(h, Now(h), change))
             ELSE strips' = [strips EXCEPT ![h] = FreshStrip] /\ UNCHANGED preview
          /\ UNCHANGED highlight
  /\ UNCHANGED <<commands, menu>>

\* MoveTo, of a strip that is shown and whose host only moved.
MoveStrip(h) ==
  /\ strips[h].there /\ strips[h].visible /\ strips[h].shown
  /\ Becomes(h, EmitPreview(h, Now(h)))
  /\ UNCHANGED <<highlight, commands, menu>>

\* SetOverlayEnabled, SetDisabled..., UpdateSettings: the preview is hidden from
\* outside, without the strips.
HidePreviewFromOutside ==
  /\ preview' = NoPreview
  /\ UNCHANGED <<strips, highlight, commands, menu>>
-----------------------------------------------------------------------------
StripNext ==
  \/ \E h \in StripHosts :
       \/ HoverMove(h) \/ MouseLeave(h) \/ GraceTimer(h) \/ PreviewTimer(h)
       \/ AnimationTimer(h) \/ Release(h) \/ CancelDrag(h) \/ MoveStrip(h)
       \/ \E w \in StripHosts : Press(h, w) \/ UpdateDrag(h, w) \/ OpenMenu(h, w)
       \/ UpdateDrag(h, NoHost)
       \/ \E wanted \in BOOLEAN : ApplyModel(h, wanted)
  \/ CloseMenu \/ RunCommand \/ HidePreviewFromOutside

\* Timers go off: WM_TIMER is handled in the main loop and in the menu's own.
StripFairness == \A h \in StripHosts : WF_stripVars(AnimationTimer(h))
StripSpec == StripInit /\ [][StripNext]_stripVars /\ StripFairness
-----------------------------------------------------------------------------
Strengths == 0..2   \* none, partial, full
StripState ==
  [there : BOOLEAN, visible : BOOLEAN, hovering : BOOLEAN, grace : BOOLEAN,
   delay : BOOLEAN, armed : BOOLEAN, strength : Strengths, titled : BOOLEAN,
   timer : BOOLEAN, tracking : BOOLEAN, shown : BOOLEAN, menuOpen : BOOLEAN,
   drag : {"none", "pressed", "dragging"}, dragWindow : StripHosts \cup {NoHost},
   dropTarget : StripHosts \cup {NoHost}]

StripTypeOK ==
  /\ strips \in [StripHosts -> StripState]
  /\ preview \in [by : StripHosts \cup {NoHost}, thumbnail : BOOLEAN]
  /\ highlight \in StripHosts \cup {NoHost}
  /\ commands \in Seq([kind : {"drop", "menu"}, window : StripHosts,
                       onto : StripHosts \cup {NoHost}])
  /\ Len(commands) <= 1
  /\ menu \in [host : StripHosts \cup {NoHost}, target : StripHosts \cup {NoHost}]

\* While a bookmark is dragged the outlined window is the one a release would
\* merge it into, whatever strip was destroyed in mid-drag before.
HighlightIsHonest ==
  \A h \in StripHosts :
    strips[h].drag = "dragging" /\ strips[h].dropTarget # NoHost =>
      highlight = strips[h].dropTarget

\* No preview stays on the screen without a strip that will hide it.
PreviewIsOwned ==
  preview.by # NoHost => \E h \in StripHosts : strips[h].there /\ strips[h].shown

\* A strip whose animation is not over has its timer running.
AnimationRuns ==
  \A h \in StripHosts : strips[h].there /\ ~Settled(strips[h]) => strips[h].timer

\* A strip the pointer has left comes to rest: not enlarged, no preview of it.
StripsComeToRest ==
  \A h \in StripHosts :
    ~strips[h].hovering ~> (\/ strips[h].hovering
                            \/ /\ strips[h].strength = 0 /\ ~strips[h].timer
                               /\ preview.by # h)

=============================================================================
