---------------------------- MODULE Drag_proofs -----------------------------
(***************************************************************************)
(* Theorems about the drag gesture, for any windows, exclusions and        *)
(* choices of settings: presses stay paired, a Win key is swallowed only   *)
(* for a drag, and the hooks are those the settings ask for; and about the *)
(* rectangles it computes, for all integers.  C++ computes them with 32    *)
(* bits; the coordinates of screens stay far below what those hold.        *)
(***************************************************************************)
EXTENDS DragGesture, WellFoundedInduction, TLAPS

-----------------------------------------------------------------------------
(***************************************************************************)
(* The rectangles.                                                         *)
(***************************************************************************)
(* A window is never dragged below its smallest size nor turned inside     *)
(* out, and the edges that are not dragged stay (ApplyDrag).               *)
THEOREM ResizeAnchored ==
    ASSUME NEW start \in Rects, NEW e \in Edges, NEW dx \in Int, NEW dy \in Int,
           NEW minWidth \in Int, NEW minHeight \in Int
    PROVE  ResizeIsAnchored(start, e, dx, dy, minWidth, minHeight)
  <1> DEFINE w == AtLeast(1, minWidth)
             h == AtLeast(1, minHeight)
             out == ApplyDrag(start, e, dx, dy, minWidth, minHeight)
  <1>1. w \in Int /\ h \in Int
    BY DEF AtLeast
  <1>2. /\ start.left \in Int /\ start.top \in Int /\ start.right \in Int /\ start.bottom \in Int
        /\ e.left \in BOOLEAN /\ e.top \in BOOLEAN /\ e.right \in BOOLEAN /\ e.bottom \in BOOLEAN
    BY DEF Rects, Edges
  <1> HIDE DEF w, h
  <1>3. SUFFICES ASSUME Width(start) >= w, Height(start) >= h,
                        ~IsMove(e), ~(e.left /\ e.right), ~(e.top /\ e.bottom)
                 PROVE  /\ Width(out) >= w /\ Height(out) >= h
                        /\ ~e.left => out.left = start.left
                        /\ ~e.right => out.right = start.right
                        /\ ~e.top => out.top = start.top
                        /\ ~e.bottom => out.bottom = start.bottom
    BY DEF ResizeIsAnchored, w, h
  <1>4. out = Rect(ResizeLow(start.left, start.right, e.left, e.right, dx, w),
                   ResizeLow(start.top, start.bottom, e.top, e.bottom, dy, h),
                   ResizeHigh(start.left, start.right, e.left, e.right, dx, w),
                   ResizeHigh(start.top, start.bottom, e.top, e.bottom, dy, h))
    BY <1>3 DEF ApplyDrag, w, h
  <1>5. /\ Width(out) >= w
        /\ ~e.left => out.left = start.left
        /\ ~e.right => out.right = start.right
    <2> DEFINE l == ResizeLow(start.left, start.right, e.left, e.right, dx, w)
               r == ResizeHigh(start.left, start.right, e.left, e.right, dx, w)
    <2>1. start.right - start.left >= w
      BY <1>3 DEF Width
    <2>2. /\ l \in Int /\ r \in Int /\ r - l >= w
          /\ ~e.left => l = start.left
          /\ ~e.right => r = start.right
      BY <1>1, <1>2, <1>3, <2>1 DEF ResizeLow, ResizeHigh
    <2>3. out.left = l /\ out.right = r
      BY <1>4 DEF Rect
    <2> HIDE DEF l, r, out
    <2> QED
      BY <2>2, <2>3 DEF Width
  <1>6. /\ Height(out) >= h
        /\ ~e.top => out.top = start.top
        /\ ~e.bottom => out.bottom = start.bottom
    <2> DEFINE t == ResizeLow(start.top, start.bottom, e.top, e.bottom, dy, h)
               b == ResizeHigh(start.top, start.bottom, e.top, e.bottom, dy, h)
    <2>1. start.bottom - start.top >= h
      BY <1>3 DEF Height
    <2>2. /\ t \in Int /\ b \in Int /\ b - t >= h
          /\ ~e.top => t = start.top
          /\ ~e.bottom => b = start.bottom
      BY <1>1, <1>2, <1>3, <2>1 DEF ResizeLow, ResizeHigh
    <2>3. out.top = t /\ out.bottom = b
      BY <1>4 DEF Rect
    <2> HIDE DEF t, b, out
    <2> QED
      BY <2>2, <2>3 DEF Height
  <1> QED
    BY <1>5, <1>6

(* A press takes hold of one edge or of two that meet, or moves the window *)
(* (HitZone).                                                              *)
THEOREM ZonesAreUsable ==
    ASSUME NEW frame \in Rects, NEW x \in Int, NEW y \in Int
    PROVE  ZoneIsUsable(frame, x, y)
  <1> DEFINE col == Band(x, frame.left, Width(frame))
             row == Band(y, frame.top, Height(frame))
  <1>1. col \in {0, 1, 2} /\ row \in {0, 1, 2}
    BY DEF Band
  <1> HIDE DEF col, row
  <1>2. HitZone(frame, x, y) =
          IF col = 1 /\ row = 1 THEN AllEdges
          ELSE [left |-> col = 0, top |-> row = 0, right |-> col = 2, bottom |-> row = 2]
    BY DEF HitZone, col, row
  <1>3. CASE col = 1 /\ row = 1
    BY <1>2, <1>3 DEF ZoneIsUsable, AllEdges, IsMove
  <1>4. CASE ~(col = 1 /\ row = 1)
    <2> DEFINE e == HitZone(frame, x, y)
    <2>1. /\ e.left <=> col = 0
          /\ e.top <=> row = 0
          /\ e.right <=> col = 2
          /\ e.bottom <=> row = 2
      <3>1. e = [left |-> col = 0, top |-> row = 0, right |-> col = 2, bottom |-> row = 2]
        BY <1>2, <1>4
      <3> HIDE DEF e
      <3>2. e.left = (col = 0) /\ e.top = (row = 0) /\ e.right = (col = 2) /\ e.bottom = (row = 2)
        BY <3>1
      <3> QED
        BY <3>2
    <2> HIDE DEF e
    <2>2. /\ ~(e.left /\ e.right) /\ ~(e.top /\ e.bottom)
          /\ e.left \/ e.top \/ e.right \/ e.bottom
      BY <1>1, <1>4, <2>1
    <2> QED
      BY <2>2, Zenon DEF ZoneIsUsable, e
  <1> QED
    BY <1>3, <1>4

(* Half of a number, rounded towards zero.                                 *)
LEMMA HalfBounds ==
    ASSUME NEW n \in Int
    PROVE  Half(n) \in Int /\ (n >= 0 => 0 <= Half(n) /\ 2 * Half(n) <= n)
  BY DEF Half

(* A window that is centred keeps its size, and its title bar is within    *)
(* the work area (CenterInWorkArea).                                       *)
THEOREM CentredReachable ==
    ASSUME NEW frame \in Rects, NEW work \in Rects
    PROVE  CentredIsReachable(frame, work)
  <1>1. /\ frame.left \in Int /\ frame.top \in Int /\ frame.right \in Int /\ frame.bottom \in Int
        /\ work.left \in Int /\ work.top \in Int /\ work.right \in Int /\ work.bottom \in Int
    BY DEF Rects
  <1> DEFINE halfW == Half(Width(work) - Width(frame))
             halfH == Half(Height(work) - Height(frame))
  <1>2. halfW \in Int /\ halfH \in Int
    BY <1>1, HalfBounds DEF Width, Height
  <1>3. Height(frame) <= Height(work) => 0 <= halfH /\ 2 * halfH <= Height(work) - Height(frame)
    BY <1>1, HalfBounds DEF Height
  <1>4. CenterInWorkArea(frame, work) =
          Rect(work.left + halfW, AtLeast(work.top, work.top + halfH),
               work.left + halfW + Width(frame), AtLeast(work.top, work.top + halfH) + Height(frame))
    BY DEF CenterInWorkArea
  <1> HIDE DEF halfW, halfH
  <1> QED
    BY <1>1, <1>2, <1>3, <1>4 DEF CentredIsReachable, Rect, Width, Height, AtLeast

-----------------------------------------------------------------------------
(***************************************************************************)
(* The gesture.                                                            *)
(***************************************************************************)
(* The topmost window that can be dragged is one that can be dragged: a    *)
(* set of positions that is not empty has a first one.                     *)
LEMMA LeastPosition ==
    ASSUME NEW fit \in SUBSET Nat, fit # {}
    PROVE  \E i \in fit : \A j \in fit : i <= j
  <1> DEFINE Less == {p \in Nat \X Nat : p[1] < p[2]}
  <1>1. OpToRel(<, Nat) = Less
    BY DEF OpToRel
  <1>2. IsWellFoundedOn(Less, Nat)
    BY <1>1, NatLessThanWellFounded
  <1>3. PICK i \in fit : \A j \in fit : ~(<<j, i>> \in Less)
    <2> HIDE DEF Less
    <2> QED
      BY <1>2, WFMin
  <1>4. \A j \in fit : i <= j
    <2> SUFFICES ASSUME NEW j \in fit PROVE i <= j
      OBVIOUS
    <2>1. i \in Nat /\ j \in Nat
      OBVIOUS
    <2>2. ~(j < i)
      BY <1>3, <2>1
    <2> QED
      BY <2>1, <2>2
  <1> QED
    BY <1>4

LEMMA FirstPosition ==
    ASSUME NEW fit \in SUBSET Nat, fit # {}
    PROVE  (CHOOSE i \in fit : \A j \in fit : i <= j) \in fit
  BY LeastPosition

LEMMA TargetCanBeDragged ==
    ASSUME NEW covering, TargetWindowAt(covering) # NoWindow
    PROVE  CanDrag(TargetWindowAt(covering))
  <1> DEFINE fit == {i \in DOMAIN ZOrder : ZOrder[i] \in covering /\ CanDrag(ZOrder[i])}
             first == CHOOSE i \in fit : \A j \in fit : i <= j
  <1>1. fit # {} /\ TargetWindowAt(covering) = ZOrder[first]
    BY DEF TargetWindowAt
  <1>2. fit \in SUBSET Nat
    BY DragAssumption
  <1>3. first \in fit
    BY <1>1, <1>2, FirstPosition
  <1> QED
    BY <1>1, <1>3
-----------------------------------------------------------------------------
(* With one button at a time the programs have seen exactly the presses    *)
(* that are down, and none of a drag; a drag has the one button that       *)
(* will end it.                                                            *)
OneHand ==
  ~disturbed =>
    /\ orphans = {}
    /\ dragging => seen = {} /\ \E b \in Buttons : pressed = {b}
    /\ ~dragging => seen = pressed

(* A Win key that is noted can still be swallowed when it is released.     *)
ConsumedIsWatched == winConsumed => keyboardHook

GestureInv == OneHand /\ ConsumedIsWatched /\ WinKeyKept /\ HooksAsConfigured

LEMMA GestureInvInit == DragInit => GestureInv
  BY DEF DragInit, GestureInv, OneHand, ConsumedIsWatched, WinKeyKept, WinKeyDown,
     HooksAsConfigured

LEMMA GestureInvKept == GestureInv /\ [DragNext]_dragVars => GestureInv'
  <1> SUFFICES ASSUME GestureInv, [DragNext]_dragVars PROVE GestureInv'
    OBVIOUS
  <1> USE DEF GestureInv, WinKeyDown
  <1>1. ASSUME NEW choice \in DragChoices, ApplyDragSettings(choice) PROVE GestureInv'
    <2>1. CASE choice.on /\ choice.mods # {}
      <3>1. InstallHooks(choice.mods)
        BY <1>1, <2>1 DEF ApplyDragSettings
      <3>2. /\ dragOn' = TRUE /\ dragMods' = choice.mods
            /\ UNCHANGED <<held, pressed, seen, orphans, winUsed, winBurned>>
        BY <1>1, <2>1 DEF ApplyDragSettings
      <3>3. OneHand'
        BY <3>1, <3>2 DEF OneHand, InstallHooks, gesture
      <3>4. keyboardHook' => "win" \in choice.mods
        BY <3>1 DEF InstallHooks
      <3>5. winConsumed' => winConsumed /\ keyboardHook'
        BY <3>1 DEF InstallHooks, ConsumedIsWatched
      <3>6. (WinKeyKept /\ ConsumedIsWatched)'
        BY <3>2, <3>5 DEF WinKeyKept, ConsumedIsWatched
      <3>7. HooksAsConfigured'
        BY <2>1, <3>1, <3>2, <3>4 DEF HooksAsConfigured, InstallHooks, gesture
      <3> QED
        BY <3>3, <3>6, <3>7
    <2>2. CASE ~(choice.on /\ choice.mods # {})
      <3>1. DragShutdown /\ UNCHANGED <<held, pressed, seen, orphans, winUsed, winBurned>>
        BY <1>1, <2>2 DEF ApplyDragSettings
      <3> QED
        BY <3>1 DEF DragShutdown, OneHand, ConsumedIsWatched, WinKeyKept, HooksAsConfigured
    <2> QED
      BY <2>1, <2>2
  <1>2. ASSUME NEW k \in ModKeys, ModifierDown(k) PROVE GestureInv'
    <2>1. (OneHand /\ ConsumedIsWatched /\ HooksAsConfigured)'
      BY <1>2 DEF ModifierDown, OneHand, ConsumedIsWatched, HooksAsConfigured, settingsD,
         hookVars, gesture
    <2>2. WinKeyKept'
      BY <1>2 DEF ModifierDown, WinKeyKept
    <2> QED
      BY <2>1, <2>2
  <1>3. ASSUME NEW k \in ModKeys, ModifierUp(k) PROVE GestureInv'
    <2>1. (OneHand /\ ConsumedIsWatched /\ HooksAsConfigured)'
      BY <1>3 DEF ModifierUp, OneHand, ConsumedIsWatched, HooksAsConfigured, settingsD,
         hookVars, gesture
    <2>2. WinKeyKept'
      BY <1>3 DEF ModifierUp, WinKeyKept, ConsumedIsWatched
    <2> QED
      BY <2>1, <2>2
  <1>4. ASSUME NEW b \in Buttons, NEW covering, ButtonDown(b, covering) PROVE GestureInv'
    <2> DEFINE w == TargetWindowAt(covering)
    <2>1. /\ b \notin pressed /\ pressed' = pressed \cup {b}
          /\ disturbed' = (disturbed \/ pressed # {})
          /\ UNCHANGED <<settingsD, hookVars, held>>
      BY <1>4 DEF ButtonDown
    <2>2. ~disturbed' => ~disturbed /\ ~dragging /\ seen = {} /\ pressed' = {b}
      BY <2>1 DEF OneHand
    <2>3. CASE mouseHook /\ AnyModifierDown /\ ~dragging /\ w # NoWindow
      <3>1. BeginDrag(b, w, covering)
        BY <1>4, <2>3 DEF ButtonDown
      <3>2. OneHand'
        BY <2>2, <3>1 DEF OneHand, BeginDrag
      <3>3. (ConsumedIsWatched /\ WinKeyKept)'
        BY <2>1, <3>1 DEF ConsumedIsWatched, WinKeyKept, BeginDrag, hookVars
      <3>4. w \in Draggable
        BY <2>3, TargetCanBeDragged DEF CanDrag
      <3>5. HooksAsConfigured'
        BY <2>1, <2>3, <3>1, <3>4 DEF HooksAsConfigured, BeginDrag, hookVars, settingsD
      <3> QED
        BY <3>2, <3>3, <3>5
    <2>4. CASE ~(mouseHook /\ AnyModifierDown /\ ~dragging /\ w # NoWindow)
      <3>1. PassPress(b)
        BY <1>4, <2>4 DEF ButtonDown
      <3> QED
        BY <2>1, <2>2, <3>1
        DEF PassPress, OneHand, ConsumedIsWatched, WinKeyKept, HooksAsConfigured, hookVars,
            settingsD, gesture
    <2> QED
      BY <2>3, <2>4
  <1>5. CASE DragMove
    BY <1>5 DEF DragMove, OneHand, ConsumedIsWatched, WinKeyKept, HooksAsConfigured, hookVars,
       settingsD, ghosts
  <1>6. ASSUME NEW b \in Buttons, NEW still, ButtonUp(b, still) PROVE GestureInv'
    <2>1. /\ b \in pressed /\ pressed' = pressed \ {b}
          /\ UNCHANGED <<settingsD, hookVars, winConsumed, held, winUsed, winBurned, disturbed>>
      BY <1>6 DEF ButtonUp
    <2>2. (ConsumedIsWatched /\ WinKeyKept)'
      BY <2>1 DEF ConsumedIsWatched, WinKeyKept, hookVars
    <2>3. CASE mouseHook /\ dragging
      <3>1. EndDrag(still)
        BY <1>6, <2>3 DEF ButtonUp
      <3>2. ~disturbed => pressed' = {} /\ seen = {}
        BY <2>1, <2>3 DEF OneHand
      <3> QED
        BY <2>1, <2>2, <3>1, <3>2 DEF EndDrag, OneHand, HooksAsConfigured, hookVars, settingsD
    <2>4. CASE ~(mouseHook /\ dragging)
      <3>1. PassRelease(b) /\ ~dragging
        BY <1>6, <2>4 DEF ButtonUp, HooksAsConfigured
      <3> QED
        BY <2>1, <2>2, <3>1
        DEF PassRelease, OneHand, HooksAsConfigured, hookVars, settingsD, gesture
    <2> QED
      BY <2>3, <2>4
  <1>7. CASE UNCHANGED dragVars
    BY <1>7 DEF dragVars, OneHand, ConsumedIsWatched, WinKeyKept, HooksAsConfigured, hookVars,
       settingsD, gesture, ghosts
  <1> QED
    BY <1>1, <1>2, <1>3, <1>4, <1>5, <1>6, <1>7 DEF DragNext

LEMMA GestureAlways == DragSpec => []GestureInv
  BY GestureInvInit, GestureInvKept, PTL DEF DragSpec

(* No program is left with a press or a release of which it does not see   *)
(* the other half (HandleMouse), as long as one button is used at a time.  *)
THEOREM PressesStayPaired == DragSpec => []PressesPaired
  <1>1. GestureInv => PressesPaired
    BY DEF GestureInv, OneHand, PressesPaired
  <1> QED
    BY GestureAlways, <1>1, PTL

(* A Win key pressed by itself opens the start menu, whatever settings are *)
(* applied between its press and its release (HandleKeyboard, Apply).      *)
THEOREM WinKeyIsKept == DragSpec => []WinKeyKept
  <1>1. GestureInv => WinKeyKept
    BY DEF GestureInv
  <1> QED
    BY GestureAlways, <1>1, PTL

(* The hooks are those the settings ask for, and every drag has the hook   *)
(* that ends it (InstallHooks, Shutdown).                                  *)
THEOREM HooksFollowSettings == DragSpec => []HooksAsConfigured
  <1>1. GestureInv => HooksAsConfigured
    BY DEF GestureInv
  <1> QED
    BY GestureAlways, <1>1, PTL
-----------------------------------------------------------------------------
(* The types.                                                              *)
LEMMA DragTypesInit == DragInit => DragTypeOK
  BY DEF DragInit, DragTypeOK, ModKeys

LEMMA DragTypesKept == DragTypeOK /\ [DragNext]_dragVars => DragTypeOK'
  <1> SUFFICES ASSUME DragTypeOK, [DragNext]_dragVars PROVE DragTypeOK'
    OBVIOUS
  <1> USE DEF DragTypeOK
  <1>1. ASSUME NEW choice \in DragChoices, ApplyDragSettings(choice) PROVE DragTypeOK'
    <2>1. /\ choice.on \in BOOLEAN /\ choice.mods \subseteq ModKeys
          /\ choice.excluded \subseteq DragWindows
      BY DragAssumption DEF ModKeys
    <2>2. /\ dragOn' = choice.on /\ dragMods' = choice.mods /\ dragExcluded' = choice.excluded
          /\ UNCHANGED <<held, pressed, seen, orphans, winUsed, winBurned, snatched>>
      BY <1>1 DEF ApplyDragSettings
    <2>3. CASE InstallHooks(choice.mods)
      <3>1. UNCHANGED <<gesture, disturbed>>
        BY <2>3 DEF InstallHooks
      <3>2. mouseHook' \in BOOLEAN
        BY <2>3 DEF InstallHooks
      <3>3. keyboardHook' \in BOOLEAN
        BY <2>3 DEF InstallHooks
      <3>4. winConsumed' \in BOOLEAN
        BY <2>3 DEF InstallHooks
      <3> QED
        BY <2>1, <2>2, <3>1, <3>2, <3>3, <3>4 DEF gesture
    <2>4. CASE DragShutdown
      BY <2>1, <2>2, <2>4 DEF DragShutdown
    <2> QED
      BY <1>1, <2>3, <2>4 DEF ApplyDragSettings
  <1>2. ASSUME NEW k \in ModKeys, ModifierDown(k) \/ ModifierUp(k) PROVE DragTypeOK'
    <2>1. held' \subseteq ModKeys
      BY <1>2 DEF ModifierDown, ModifierUp
    <2>2. winUsed' \in BOOLEAN /\ winConsumed' \in BOOLEAN /\ winBurned' \in BOOLEAN
      BY <1>2 DEF ModifierDown, ModifierUp
    <2>3. UNCHANGED <<settingsD, hookVars, gesture, pressed, seen, orphans, snatched, disturbed>>
      BY <1>2 DEF ModifierDown, ModifierUp
    <2> QED
      BY <2>1, <2>2, <2>3 DEF settingsD, hookVars, gesture
  <1>3. ASSUME NEW b \in Buttons, NEW covering, ButtonDown(b, covering) PROVE DragTypeOK'
    <2> DEFINE w == TargetWindowAt(covering)
    <2>1. /\ pressed' = pressed \cup {b} /\ disturbed' = (disturbed \/ pressed # {})
          /\ UNCHANGED <<settingsD, hookVars, held>>
      BY <1>3 DEF ButtonDown
    <2>2. CASE w # NoWindow /\ BeginDrag(b, w, covering)
      <3>1. w \in DragWindows
        BY <2>2, TargetCanBeDragged, DragAssumption DEF CanDrag
      <3> HIDE DEF w
      <3> QED
        BY <2>1, <2>2, <3>1 DEF BeginDrag, settingsD, hookVars
    <2>3. CASE PassPress(b)
      BY <2>1, <2>3 DEF PassPress, settingsD, hookVars, gesture
    <2> QED
      BY <1>3, <2>2, <2>3 DEF ButtonDown
  <1>4. CASE DragMove
    BY <1>4 DEF DragMove, settingsD, hookVars, ghosts
  <1>5. ASSUME NEW b \in Buttons, NEW still \in BOOLEAN, ButtonUp(b, still) PROVE DragTypeOK'
    <2>1. /\ pressed' = pressed \ {b}
          /\ UNCHANGED <<settingsD, hookVars, winConsumed, held, winUsed, winBurned,
                         snatched, disturbed>>
      BY <1>5 DEF ButtonUp
    <2>2. CASE EndDrag(still)
      BY <2>1, <2>2 DEF EndDrag, settingsD, hookVars
    <2>3. CASE PassRelease(b)
      BY <2>1, <2>3 DEF PassRelease, settingsD, hookVars, gesture
    <2> QED
      BY <1>5, <2>2, <2>3 DEF ButtonUp
  <1>6. CASE UNCHANGED dragVars
    BY <1>6 DEF dragVars, settingsD, hookVars, gesture, ghosts
  <1> QED
    BY <1>1, <1>2, <1>3, <1>4, <1>5, <1>6 DEF DragNext
=============================================================================
