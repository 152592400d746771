--------------------------- MODULE BorderBackend ----------------------------
(***************************************************************************)
(* The borders (WinBorderBackend.cpp, WinBorderPlan.cpp, WinOverlay.cpp,   *)
(* WinDesktopSnapshot.cpp): one transparent canvas per monitor, on which   *)
(* the strokes planned from a snapshot of the desktop are painted.  The    *)
(* desktop goes on changing, an event tells of a change later, and a       *)
(* geometry event refreshes one window of the snapshot only.               *)
(***************************************************************************)
EXTENDS BorderGeometry

CONSTANTS
  BorderWindows,
  Topmost, TreatAsTopmost, Through,  \* topmost windows, those the settings name,
                                     \* those the mouse passes through
  OwnerOf,       \* the owner of a window, or NoOwner
  NoOwner,
  FrameChoices,  \* the frames a window may have
  Layouts,       \* the sets of monitors that may be connected
  FirstLayout,
  BorderWidths,  \* border.width; border.offset is -1
  MaxDesktop,    \* bound: changes of the desktop
  BorderFaults   \* subset of {"monitors", "session", "sink"}

\* Windows with an empty frame are not collected (WorthCollecting).
ASSUME BorderAssumption ==
  /\ IsFiniteSet(BorderWindows) /\ NoOwner \notin BorderWindows
  /\ {Topmost, TreatAsTopmost, Through} \subseteq SUBSET BorderWindows
  /\ OwnerOf \in [BorderWindows -> BorderWindows \cup {NoOwner}]
  /\ FrameChoices # {} /\ \A f \in FrameChoices : f \in Rects /\ ~IsEmpty(f)
  /\ \A layout \in Layouts : \A m \in layout : {m.bounds, m.work} \subseteq Rects
  /\ FirstLayout \in Layouts /\ BorderWidths \subseteq Int /\ BorderWidths # {}
  /\ MaxDesktop \in Nat

VARIABLES
  desktop,       \* frames, states, cloaking, z order and foreground of the windows
  monitors,
  locked,        \* the session's input desktop is the secure one
  borderMail,    \* events not handled yet
  borderModels,  \* models_: the windows that are to have a border
  borderPins, width,
  snapshot, snapshotValid,
  suspended, lastStrokes, canvas, sunk,
  unpainted,     \* the last painting was left out though the canvases did not show the plan
  desktopChanges

borderVars == <<desktop, monitors, locked, borderMail, borderModels, borderPins, width,
                snapshot, snapshotValid, suspended, lastStrokes, canvas, sunk,
                unpainted, desktopChanges>>
program == <<borderModels, borderPins, width, snapshot, snapshotValid, suspended,
             lastStrokes, canvas, unpainted>>

NoBorderWindow == NoOwner
States == {"normal", "maximized", "minimized"}
\* The z order: of every window those in front of it, the topmost ones in front
\* of the others.
Orders == {o \in [BorderWindows -> SUBSET BorderWindows] :
             \A v, w \in BorderWindows :
               /\ v \in o[w] => v # w /\ w \notin o[v] /\ o[v] \subseteq o[w]
               /\ v # w => v \in o[w] \/ w \in o[v]
               /\ v \in Topmost /\ w \notin Topmost => v \in o[w]}
\* The order with w moved to where only the windows in front stay before it.
PutBehind(o, w, front) ==
  [v \in BorderWindows |-> IF v = w THEN front
                          ELSE IF v \in front THEN o[v] \ {w} ELSE o[v] \cup {w}]
ToFront(o, w) == PutBehind(o, w, IF w \in Topmost THEN {} ELSE Topmost)
-----------------------------------------------------------------------------
(***************************************************************************)
(* PlanBorders: the strokes for a snapshot.                                *)
(***************************************************************************)
Paintable(s, w) == s.state[w] # "minimized" /\ w \notin s.cloaked
\* A window that covers others by its rectangle: the canvas lies below the
\* topmost ones, which cover the borders by themselves.
Covering(s, w) == Paintable(s, w) /\ w \notin Through /\ w \notin Topmost
ForegroundHole(s) == IF s.fg # NoBorderWindow /\ Covering(s, s.fg)
                     THEN {AsOccluder(s.frame[s.fg])} ELSE {}

OccludersOf(s, w) ==
  IF w = s.fg
  THEN {v \in s.order[w] : Covering(s, v) /\ (v \in TreatAsTopmost \/ OwnerOf[v] = w)}
  ELSE {v \in s.order[w] : Covering(s, v)}

ScreenOf(s, frame) ==
  {m \in s.monitors : Covers(m.bounds, frame.left + Half(Width(frame)),
                             frame.top + Half(Height(frame)))}

\* With the offset of -1 the ring reaches one pixel less than its width.
UnitsOf(s, w, stroke) ==
  LET frame == s.frame[w]
      reach == stroke - 1
      outer == Grown(frame, reach)
      ring == BorderRingSegments(outer, RingInner(frame, stroke, reach))
      limits == {ClampBorderToScreen(frame, outer, m.bounds, m.work, reach) :
                   m \in ScreenOf(s, frame)}
  IN IF \E l \in limits : ~IsEmpty(l)
     THEN ClipToBounds(ring, CHOOSE l \in limits : ~IsEmpty(l)) ELSE ring

(* Mutant: the windows before a window cut its border, the foreground does not. *)
VisibleOfUnholed(s, w, stroke) ==
  ClipSegments(UnitsOf(s, w, stroke), {AsOccluder(s.frame[v]) : v \in OccludersOf(s, w)})

VisibleOf(s, w, stroke) ==
  LET cut == ClipSegments(UnitsOf(s, w, stroke), {AsOccluder(s.frame[v]) : v \in OccludersOf(s, w)})
  IN IF w = s.fg THEN cut ELSE ClipSegments(cut, ForegroundHole(s))

\* A maximized window has a border only if it is pinned; colour tells the kind.
PlanBorders(s, models, stroke) ==
  UNION {{[win |-> w, rect |-> r, colour |-> models[w]] : r \in VisibleOf(s, w, stroke)} :
           w \in {w \in BorderWindows :
                    /\ Paintable(s, w) /\ models[w] # "none"
                    /\ s.state[w] # "maximized" \/ models[w] = "pinned"}}
-----------------------------------------------------------------------------
(***************************************************************************)
(* The desktop and its snapshot.                                           *)
(***************************************************************************)
\* CaptureDesktop walks the z order while it changes: the window that comes to
\* the front may be missed, and is put before the first ordinary one.
CaptureDesktop(missed) ==
  [fg |-> desktop.fg, frame |-> desktop.frame, state |-> desktop.state,
   cloaked |-> desktop.cloaked,
   order |-> IF missed THEN PutBehind(desktop.order, desktop.fg, Topmost \ {desktop.fg})
             ELSE desktop.order,
   monitors |-> monitors]
MayMiss == IF desktop.fg = NoBorderWindow THEN {FALSE} ELSE BOOLEAN

\* Coordinator: the visible windows, the pinned and the active one told apart.
ModelsNow ==
  [w \in BorderWindows |-> IF w \in borderPins THEN "pinned"
                           ELSE IF ~Paintable(desktop, w) THEN "none"
                           ELSE IF w = desktop.fg THEN "active" ELSE "plain"]
-----------------------------------------------------------------------------
(***************************************************************************)
(* Painting.                                                               *)
(***************************************************************************)
\* OverlaySet::Sync: new canvases, blank, when the monitors are not those the
\* canvases were made for.
SameLayout == DOMAIN canvas = monitors
Synced == IF SameLayout THEN canvas ELSE [m \in monitors |-> {}]

OnScreen(strokes, m) == {s \in strokes : Intersects(s.rect, m.bounds)}
Render(cs, strokes) == [m \in DOMAIN cs |-> OnScreen(strokes, m)]

\* Redraw over a snapshot.  EnsureBandPositions (at most every half second,
\* looked) puts sunken canvases back above the ordinary windows and forgets the
\* strokes painted last; nothing is painted when the plan is the same as those.
\* That leaves canvases made anew blank, and what is painted where the strokes
\* were forgotten and none is planned.
Redraw(s, models, stroke, last, looked) ==
  LET strokes == PlanBorders(s, models, stroke)
      known == IF SameLayout /\ sunk /\ looked THEN {} ELSE last
  IN /\ snapshot' = s /\ snapshotValid' = TRUE
     /\ sunk' = (SameLayout /\ sunk /\ ~looked)
     /\ lastStrokes' = strokes
     /\ canvas' = IF strokes = known THEN Synced ELSE Render(Synced, strokes)
     /\ unpainted' = (/\ strokes = known
                      /\ IF SameLayout THEN unpainted \/ known # lastStrokes
                         ELSE strokes # {})

NothingPainted == UNCHANGED <<lastStrokes, canvas, sunk, unpainted>>
-----------------------------------------------------------------------------
BorderInit ==
  /\ \E o \in Orders :
       desktop = [frame |-> [w \in BorderWindows |-> CHOOSE f \in FrameChoices : TRUE],
                  state |-> [w \in BorderWindows |-> "normal"], cloaked |-> {},
                  order |-> o, fg |-> NoBorderWindow]
  /\ monitors = FirstLayout /\ locked = FALSE /\ borderMail = {<<"changed">>}
  /\ borderModels = [w \in BorderWindows |-> "none"] /\ borderPins = {}
  /\ width = CHOOSE k \in BorderWidths : TRUE
  /\ snapshot = CaptureDesktop(FALSE) /\ snapshotValid = FALSE
  /\ suspended = FALSE /\ lastStrokes = {} /\ sunk = FALSE
  /\ unpainted = FALSE
  /\ canvas = [m \in monitors |-> {}]
  /\ desktopChanges = 0

\* A change of the desktop, of which an event will tell.
DesktopChanges(d, mail) ==
  /\ desktopChanges < MaxDesktop
  /\ desktopChanges' = desktopChanges + 1
  /\ desktop' = d
  /\ borderMail' = borderMail \cup mail
  /\ UNCHANGED <<monitors, locked, program, sunk>>

WindowMoves(w, f) ==
  /\ f # desktop.frame[w]
  /\ DesktopChanges([desktop EXCEPT !.frame[w] = f], {<<"moved", w>>})

WindowChanges(w, s) ==
  /\ s # desktop.state[w]
  /\ DesktopChanges([desktop EXCEPT !.state[w] = s], {<<"changed">>})

\* DWM hides a window, or shows it again, without minimizing it.  There is no event
\* for it: what makes the Coordinator apply its models anew is its watchdog, which
\* finds the window gone from its list or new on it, or any event before that.
CloakChanges(w) ==
  DesktopChanges([desktop EXCEPT !.cloaked = IF w \in desktop.cloaked THEN @ \ {w} ELSE @ \cup {w}],
                 {<<"changed">>})

\* The foreground event comes first, the z order is put right after it.
ForegroundChanges(w) ==
  /\ w # desktop.fg
  /\ w # NoBorderWindow => Paintable(desktop, w)
  /\ DesktopChanges([desktop EXCEPT !.fg = w], {<<"changed">>})

OrderIsSettled == desktop.fg = NoBorderWindow \/ desktop.order = ToFront(desktop.order, desktop.fg)

OrderSettles ==
  /\ ~OrderIsSettled
  /\ desktop' = [desktop EXCEPT !.order = ToFront(desktop.order, desktop.fg)]
  /\ UNCHANGED <<monitors, locked, borderMail, program, sunk, desktopChanges>>

\* A monitor is connected, removed or changes its size.
MonitorsChange(layout) ==
  /\ "monitors" \in BorderFaults /\ desktopChanges < MaxDesktop
  /\ layout # monitors
  /\ monitors' = layout /\ desktopChanges' = desktopChanges + 1
  /\ UNCHANGED <<desktop, locked, borderMail, program, sunk>>

\* The canvases are pushed below ordinary windows, by whomever.
CanvasSinks ==
  /\ "sink" \in BorderFaults /\ desktopChanges < MaxDesktop
  /\ sunk' = TRUE /\ desktopChanges' = desktopChanges + 1
  /\ UNCHANGED <<desktop, monitors, locked, borderMail, program>>

\* The session is locked or unlocked; the message of the latter may be lost.
SessionChanges(told) ==
  /\ "session" \in BorderFaults /\ desktopChanges < MaxDesktop
  /\ ~locked => told
  /\ locked' = ~locked /\ desktopChanges' = desktopChanges + 1
  /\ borderMail' = IF told THEN borderMail \cup {<<IF locked THEN "unlock" ELSE "lock">>}
                   ELSE borderMail
  /\ UNCHANGED <<desktop, monitors, program, sunk>>
-----------------------------------------------------------------------------
\* Apply: any event but a movement; the snapshot is taken anew.
Apply(missed, looked) ==
  /\ borderModels' = ModelsNow
  /\ IF suspended THEN snapshotValid' = FALSE /\ NothingPainted /\ UNCHANGED snapshot
     ELSE Redraw(CaptureDesktop(missed), ModelsNow, width, lastStrokes, looked)
  /\ UNCHANGED <<width, suspended>>

HandleChange(missed, looked) ==
  /\ <<"changed">> \in borderMail
  /\ borderMail' = borderMail \ {<<"changed">>}
  /\ Apply(missed, looked)
  /\ UNCHANGED <<desktop, monitors, locked, borderPins, desktopChanges>>

\* The user pins or unpins a window.
TogglePin(w) ==
  /\ desktopChanges < MaxDesktop
  /\ borderPins' = IF w \in borderPins THEN borderPins \ {w} ELSE borderPins \cup {w}
  /\ borderMail' = borderMail \cup {<<"changed">>}
  /\ desktopChanges' = desktopChanges + 1
  /\ UNCHANGED <<desktop, monitors, locked, borderModels, width, snapshot, snapshotValid,
                 suspended, lastStrokes, canvas, sunk, unpainted>>

(* Mutant: whether it is minimized is refreshed, where it is is not.       *)
RefreshedStateOnly(w) == [snapshot EXCEPT !.state[w] = desktop.state[w]]

\* RefreshWindowFrame: this one window of the snapshot, but not its cloaking.
Refreshed(w) == [snapshot EXCEPT !.frame[w] = desktop.frame[w], !.state[w] = desktop.state[w]]

MoveBorder(w, missed, looked) ==
  /\ <<"moved", w>> \in borderMail
  /\ borderMail' = borderMail \ {<<"moved", w>>}
  /\ IF suspended
     THEN /\ snapshot' = IF snapshotValid THEN Refreshed(w) ELSE snapshot
          /\ NothingPainted /\ UNCHANGED snapshotValid
     ELSE Redraw(IF snapshotValid THEN Refreshed(w) ELSE CaptureDesktop(missed),
                 borderModels, width, lastStrokes, looked)
  /\ UNCHANGED <<desktop, monitors, locked, borderModels, borderPins, width, suspended,
                 desktopChanges>>

UpdateBorderSettings(k, missed, looked) ==
  /\ k # width /\ desktopChanges < MaxDesktop
  /\ width' = k /\ desktopChanges' = desktopChanges + 1
  /\ IF suspended THEN /\ lastStrokes' = {} /\ snapshotValid' = FALSE
                       /\ UNCHANGED <<snapshot, canvas, sunk, unpainted>>
     ELSE Redraw(CaptureDesktop(missed), borderModels, k, {}, looked)
  /\ UNCHANGED <<desktop, monitors, locked, borderMail, borderModels, borderPins, suspended>>

(* Mutant: the canvases are cleared, the strokes painted last are not.     *)
SessionProcUnforgotten(msg, missed, looked) ==
  /\ <<msg>> \in borderMail
  /\ borderMail' = borderMail \ {<<msg>>}
  /\ IF msg = "lock"
     THEN /\ suspended' = TRUE
          /\ canvas' = Render(canvas, {}) /\ unpainted' = FALSE
          /\ UNCHANGED <<snapshot, snapshotValid, sunk, lastStrokes>>
     ELSE /\ suspended' = FALSE
          /\ Redraw(IF snapshotValid THEN snapshot ELSE CaptureDesktop(missed),
                    borderModels, width, lastStrokes, looked)
  /\ UNCHANGED <<desktop, monitors, locked, borderModels, borderPins, width, desktopChanges>>

\* SessionProc: locking clears the canvases, anything else resumes.
SessionProc(msg, missed, looked) ==
  /\ <<msg>> \in borderMail
  /\ borderMail' = borderMail \ {<<msg>>}
  /\ IF msg = "lock"
     THEN /\ suspended' = TRUE
          /\ lastStrokes' = {} /\ canvas' = Render(canvas, {}) /\ unpainted' = FALSE
          /\ UNCHANGED <<snapshot, snapshotValid, sunk>>
     ELSE /\ suspended' = FALSE
          /\ Redraw(IF snapshotValid THEN snapshot ELSE CaptureDesktop(missed),
                    borderModels, width, lastStrokes, looked)
  /\ UNCHANGED <<desktop, monitors, locked, borderModels, borderPins, width, desktopChanges>>

(* Mutant: the tick looks after the canvases only.                         *)
HealthTickCanvas(missed, looked) ==
  /\ ~suspended /\ sunk /\ looked
  /\ suspended' = FALSE
  /\ Redraw(IF snapshotValid THEN snapshot ELSE CaptureDesktop(missed), borderModels, width,
            {}, looked)
  /\ UNCHANGED <<desktop, monitors, locked, borderMail, borderModels, borderPins, width,
                 desktopChanges>>

\* HealthTick, every second or so, from the watchdog: canvases that have sunk,
\* and a suspension that outlived the locked session.
HealthTick(missed, looked) ==
  /\ (~suspended /\ sunk /\ looked) \/ (suspended /\ ~locked)
  /\ suspended' = FALSE
  /\ Redraw(IF snapshotValid THEN snapshot ELSE CaptureDesktop(missed), borderModels, width,
            IF suspended THEN lastStrokes ELSE {}, looked)
  /\ UNCHANGED <<desktop, monitors, locked, borderMail, borderModels, borderPins, width,
                 desktopChanges>>

Handles(missed, looked) ==
  \/ HandleChange(missed, looked)
  \/ \E w \in BorderWindows : MoveBorder(w, missed, looked)
  \/ \E k \in BorderWidths : UpdateBorderSettings(k, missed, looked)
  \/ \E msg \in {"lock", "unlock"} : SessionProc(msg, missed, looked)

BorderNext ==
  \/ \E w \in BorderWindows, f \in FrameChoices : WindowMoves(w, f)
  \/ \E w \in BorderWindows, s \in States : WindowChanges(w, s)
  \/ \E w \in BorderWindows : CloakChanges(w)
  \/ \E w \in BorderWindows \cup {NoBorderWindow} : ForegroundChanges(w)
  \/ OrderSettles
  \/ \E layout \in Layouts : MonitorsChange(layout)
  \/ CanvasSinks
  \/ \E told \in BOOLEAN : SessionChanges(told)
  \/ \E w \in BorderWindows : TogglePin(w)
  \/ \E missed \in MayMiss, looked \in BOOLEAN : Handles(missed, looked)
  \/ \E missed \in MayMiss, looked \in BOOLEAN : HealthTick(missed, looked)

\* The watchdog ticks for as long as the program runs; what is assumed of it is
\* that a suspension which may end is noticed.
Resumes ==
  suspended /\ \E missed \in MayMiss, looked \in BOOLEAN : HealthTick(missed, looked)
BorderFairness == WF_borderVars(Resumes)
BorderSpec == BorderInit /\ [][BorderNext]_borderVars /\ BorderFairness
-----------------------------------------------------------------------------
Desktops == [frame : [BorderWindows -> FrameChoices], state : [BorderWindows -> States],
             cloaked : SUBSET BorderWindows,
             order : Orders, fg : BorderWindows \cup {NoBorderWindow}]
Snapshots == [frame : [BorderWindows -> FrameChoices], state : [BorderWindows -> States],
              cloaked : SUBSET BorderWindows,
              order : Orders, fg : BorderWindows \cup {NoBorderWindow}, monitors : Layouts]

BorderTypeOK ==
  /\ desktop \in Desktops /\ snapshot \in Snapshots
  /\ monitors \in Layouts /\ DOMAIN canvas \in Layouts /\ width \in BorderWidths
  /\ borderModels \in [BorderWindows -> {"none", "plain", "active", "pinned"}]
  /\ borderPins \subseteq BorderWindows
  /\ \A s \in lastStrokes : s.win \in BorderWindows /\ s.rect \in Proper(Rects)
  /\ {locked, snapshotValid, suspended, sunk, unpainted} \subseteq BOOLEAN

\* The desktop as a snapshot would have it, with its z order settled.
SettledOrder(o, w) == IF w = NoBorderWindow THEN o ELSE ToFront(o, w)
TrueSnapshot == [CaptureDesktop(FALSE) EXCEPT !.order = SettledOrder(desktop.order, desktop.fg)]
OrdinaryWindows == TreatAsTopmost = {} /\ \A w \in BorderWindows : OwnerOf[w] = NoOwner

\* On a monitor the same windows have a border of the same colour at every pixel:
\* the pieces may be cut otherwise.  Where an edge begins, of a piece or of the
\* monitor, is where a difference would begin.
PaintedAt(strokes, x, y) ==
  {<<s.win, s.colour>> : s \in {s \in strokes : Covers(s.rect, x, y)}}
SamePicture(m, A, B) ==
  \A x \in {m.bounds.left} \cup UNION {{s.rect.left, s.rect.right} : s \in A \cup B},
     y \in {m.bounds.top} \cup UNION {{s.rect.top, s.rect.bottom} : s \in A \cup B} :
    Covers(m.bounds, x, y) => PaintedAt(A, x, y) = PaintedAt(B, x, y)

\* Once the events are handled every canvas shows the borders of the desktop as it
\* is, in its settled order, though the order was put right without an event and
\* the last snapshot may be older than that ("the border crosses the window in
\* front").  Excepted are: windows that stay above the foreground, because they
\* belong to it or the settings name them, unless the snapshot caught the final
\* order; a change of the monitors, of which nothing tells the borders, until the
\* snapshot and the canvases are next made anew; and a painting that Redraw leaves
\* out because the plan equals lastStrokes_ although the canvases do not show it
\* (WinBorderBackend.cpp:349), until something is painted again.
BordersMatchDesktop ==
  (/\ borderMail = {} /\ ~suspended /\ ~unpainted
   /\ snapshot.monitors = monitors /\ SameLayout
   /\ OrdinaryWindows \/ snapshot.order = SettledOrder(snapshot.order, snapshot.fg))
  => LET borders == PlanBorders(TrueSnapshot, ModelsNow, width)
     IN \A m \in monitors : SamePicture(m, canvas[m], borders)

\* No border of another window is painted across the foreground window, whatever
\* order the snapshot caught.
ForegroundUncrossed ==
  \A s \in lastStrokes : \A hole \in ForegroundHole(snapshot) :
    s.win # snapshot.fg => ~Intersects(s.rect, hole)

\* Borders suspended for a locked session are drawn again once it is unlocked,
\* though the message of the unlocking may never come.
BordersComeBack == suspended /\ ~locked ~> ~suspended \/ locked
=============================================================================
