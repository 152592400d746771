---------------------------- MODULE DragGesture -----------------------------
(***************************************************************************)
(* Holding a modifier and dragging a window (WinDragBackend.cpp): the low  *)
(* level mouse hook, the keyboard hook that exists for the Win key only,   *)
(* and what the programs under the cursor are left to see of it.  The      *)
(* buttons and keys are those of the user; seen is what the programs       *)
(* believe of the buttons.                                                 *)
(***************************************************************************)
EXTENDS DragGeometry, FiniteSets, Sequences

CONSTANTS
  DragWindows,   \* windows that may be under the cursor
  ZOrder,        \* the same windows, topmost first
  Draggable,     \* those that are eligible and not of this process
  DragChoices,   \* the DragSettings the user chooses from
  NoWindow

ASSUME DragAssumption ==
  /\ ZOrder \in Seq(DragWindows)
  /\ Draggable \subseteq DragWindows
  /\ DragChoices \subseteq [on : BOOLEAN, mods : SUBSET {"alt", "win"},
                             excluded : SUBSET DragWindows]
  /\ NoWindow \notin DragWindows

VARIABLES
  dragOn, dragMods, dragExcluded,     \* the DragSettings last applied
  mouseHook, keyboardHook,            \* installed hooks
  winConsumed, dragging, leftButton, pendingRestore, target,
  placed,          \* what the gesture has done to the target's frame
  held, pressed,   \* the modifiers and buttons the user holds down
  seen,            \* the buttons some program believes to be down
  orphans,         \* releases handed to a program that saw no press
  winUsed,         \* the Win key that is down began a drag
  winBurned,       \* a release of a Win key no drag had used was swallowed
  snatched,        \* a press over a window the user excluded was swallowed
  disturbed        \* see PressesPaired

hookVars == <<mouseHook, keyboardHook>>
gesture == <<dragging, leftButton, pendingRestore, target, placed>>
settingsD == <<dragOn, dragMods, dragExcluded>>
ghosts == <<orphans, winUsed, winBurned, snatched, disturbed>>
dragVars == <<settingsD, hookVars, winConsumed, gesture, held, pressed, seen, ghosts>>

Buttons == {"L", "R"}
ModKeys == {"alt", "win"}
-----------------------------------------------------------------------------
DragInit ==
  /\ dragOn = FALSE /\ dragMods = {"alt"} /\ dragExcluded = {}
  /\ mouseHook = FALSE /\ keyboardHook = FALSE
  /\ winConsumed = FALSE
  /\ dragging = FALSE /\ leftButton = FALSE /\ pendingRestore = FALSE
  /\ target = NoWindow /\ placed = "rest"
  /\ held = {} /\ pressed = {} /\ seen = {}
  /\ orphans = {} /\ winUsed = FALSE /\ winBurned = FALSE /\ snatched = FALSE
  /\ disturbed = FALSE

AnyModifierDown == held \cap dragMods # {}
WinKeyDown == "win" \in held

CanDrag(w) == w \in Draggable \ dragExcluded

\* WindowFromPoint, then down the z order: the first window of those covering
\* the point that can be dragged.
TargetWindowAt(covering) ==
  LET fit == {i \in DOMAIN ZOrder : ZOrder[i] \in covering /\ CanDrag(ZOrder[i])}
  IN IF fit = {} THEN NoWindow
     ELSE ZOrder[CHOOSE i \in fit : \A j \in fit : i <= j]
TopWindowAt(covering) ==
  LET at == {i \in DOMAIN ZOrder : ZOrder[i] \in covering}
  IN IF at = {} THEN NoWindow ELSE ZOrder[CHOOSE i \in at : \A j \in at : i <= j]

(* Mutant: the hooks go, the swallowed Win key stays noted.                *)
DragShutdownKeepingWin ==
  /\ mouseHook' = FALSE /\ keyboardHook' = FALSE
  /\ dragging' = FALSE /\ pendingRestore' = FALSE /\ target' = NoWindow
  /\ disturbed' = (disturbed \/ dragging)
  /\ UNCHANGED <<winConsumed, leftButton, placed>>

DragShutdown ==
  /\ mouseHook' = FALSE /\ keyboardHook' = FALSE
  /\ winConsumed' = FALSE
  /\ dragging' = FALSE /\ pendingRestore' = FALSE /\ target' = NoWindow
  /\ disturbed' = (disturbed \/ dragging)
  /\ UNCHANGED <<leftButton, placed>>

(* Mutant: the keyboard hook, once installed, stays.                       *)
InstallHooksForGood(mods) ==
  /\ mouseHook' = TRUE
  /\ keyboardHook' = (keyboardHook \/ "win" \in mods)
  /\ UNCHANGED <<winConsumed, gesture, disturbed>>

\* Either hook may fail to be installed; the mouse hook first.
InstallHooks(mods) ==
  LET wantsKeyboard == "win" \in mods
  IN /\ \/ /\ mouseHook
           /\ mouseHook' = TRUE
        \/ /\ ~mouseHook
           /\ mouseHook' \in BOOLEAN
     /\ IF wantsKeyboard /\ mouseHook'
        THEN \/ /\ keyboardHook /\ keyboardHook' = TRUE
             \/ /\ ~keyboardHook /\ keyboardHook' \in BOOLEAN
        ELSE keyboardHook' = (wantsKeyboard /\ keyboardHook)
     /\ winConsumed' = IF ~wantsKeyboard /\ keyboardHook THEN FALSE ELSE winConsumed
     /\ UNCHANGED <<gesture, disturbed>>

\* Every command that saves the settings applies them to the hooks as well.
ApplyDragSettings(choice) ==
  /\ dragOn' = choice.on /\ dragMods' = choice.mods /\ dragExcluded' = choice.excluded
  /\ IF choice.on /\ choice.mods # {} THEN InstallHooks(choice.mods) ELSE DragShutdown
  /\ UNCHANGED <<held, pressed, seen, orphans, winUsed, winBurned, snatched>>

ModifierDown(k) ==
  /\ k \notin held
  /\ held' = held \cup {k}
  /\ winUsed' = IF k = "win" THEN FALSE ELSE winUsed
  /\ UNCHANGED <<settingsD, hookVars, winConsumed, gesture, pressed, seen,
                 orphans, winBurned, snatched, disturbed>>

\* The keyboard hook swallows the release of a Win key a drag has used.
ModifierUp(k) ==
  /\ k \in held
  /\ held' = held \ {k}
  /\ IF k = "win" /\ keyboardHook /\ winConsumed
     THEN /\ winConsumed' = FALSE
          /\ winBurned' = (winBurned \/ ~winUsed)
     ELSE UNCHANGED <<winConsumed, winBurned>>
  /\ UNCHANGED <<settingsD, hookVars, gesture, pressed, seen, orphans, winUsed,
                 snatched, disturbed>>

\* HandleMouse for a press over the windows of covering.
BeginDrag(b, w, covering) ==
  /\ dragging' = TRUE /\ leftButton' = (b = "L") /\ target' = w
  /\ pendingRestore' \in BOOLEAN        \* whether the window is maximized
  /\ placed' = "rest"
  /\ winConsumed' = (winConsumed \/ (keyboardHook /\ WinKeyDown))
  /\ winUsed' = (winUsed \/ WinKeyDown)
  /\ snatched' = (snatched \/ TopWindowAt(covering) \in dragExcluded)
  /\ UNCHANGED <<seen, orphans, winBurned>>

PassPress(b) ==
  /\ seen' = seen \cup {b}
  /\ UNCHANGED <<gesture, winConsumed, orphans, winUsed, winBurned, snatched>>

ButtonDown(b, covering) ==
  /\ b \notin pressed
  /\ pressed' = pressed \cup {b}
  /\ disturbed' = (disturbed \/ pressed # {})
  /\ LET w == TargetWindowAt(covering)
     IN IF mouseHook /\ AnyModifierDown /\ ~dragging /\ w # NoWindow
        THEN BeginDrag(b, w, covering)
        ELSE PassPress(b)
  /\ UNCHANGED <<settingsD, hookVars, held>>

\* The first movement restores a maximized window, then the window follows.
DragMove ==
  /\ mouseHook /\ dragging
  /\ pendingRestore' = FALSE
  /\ placed' = "follows"
  /\ UNCHANGED <<settingsD, hookVars, winConsumed, dragging, leftButton, target,
                 held, pressed, seen, ghosts>>

\* still: the cursor is within the slop of where it was pressed.
EndDrag(still) ==
  /\ placed' = IF leftButton /\ target # NoWindow /\ ~pendingRestore /\ still
               THEN "centred" ELSE placed
  /\ dragging' = FALSE /\ pendingRestore' = FALSE /\ target' = NoWindow
  /\ UNCHANGED <<leftButton, seen, orphans>>

PassRelease(b) ==
  /\ seen' = seen \ {b}
  /\ orphans' = IF b \in seen THEN orphans ELSE orphans \cup {b}
  /\ UNCHANGED gesture

(* Mutant: only the left button's release ends the drag and is swallowed.  *)
ButtonUpLeftOnly(b, still) ==
  /\ b \in pressed
  /\ pressed' = pressed \ {b}
  /\ IF mouseHook /\ dragging /\ b = "L" THEN EndDrag(still) ELSE PassRelease(b)
  /\ UNCHANGED <<settingsD, hookVars, winConsumed, held, winUsed, winBurned,
                 snatched, disturbed>>

ButtonUp(b, still) ==
  /\ b \in pressed
  /\ pressed' = pressed \ {b}
  /\ IF mouseHook /\ dragging THEN EndDrag(still) ELSE PassRelease(b)
  /\ UNCHANGED <<settingsD, hookVars, winConsumed, held, winUsed, winBurned,
                 snatched, disturbed>>

DragNext ==
  \/ \E choice \in DragChoices : ApplyDragSettings(choice)
  \/ \E k \in ModKeys : ModifierDown(k)
  \/ \E k \in ModKeys : ModifierUp(k)
  \/ \E b \in Buttons, covering \in SUBSET DragWindows : ButtonDown(b, covering)
  \/ DragMove
  \/ \E b \in Buttons, still \in BOOLEAN : ButtonUp(b, still)

DragSpec == DragInit /\ [][DragNext]_dragVars
-----------------------------------------------------------------------------
DragTypeOK ==
  /\ dragOn \in BOOLEAN /\ dragMods \subseteq ModKeys /\ dragExcluded \subseteq DragWindows
  /\ mouseHook \in BOOLEAN /\ keyboardHook \in BOOLEAN
  /\ winConsumed \in BOOLEAN /\ dragging \in BOOLEAN /\ leftButton \in BOOLEAN
  /\ pendingRestore \in BOOLEAN
  /\ target \in DragWindows \cup {NoWindow}
  /\ placed \in {"rest", "follows", "centred"}
  /\ held \subseteq ModKeys /\ pressed \subseteq Buttons /\ seen \subseteq Buttons
  /\ orphans \subseteq Buttons
  /\ winUsed \in BOOLEAN /\ winBurned \in BOOLEAN /\ snatched \in BOOLEAN
  /\ disturbed \in BOOLEAN

\* While the user works with one button at a time and the gesture is not
\* switched off under his hand, no program is handed a release whose press was
\* swallowed and none is left believing a button down that is not ("an
\* unpaired release upsets the program", the comment at the swallowed release).
PressesPaired == ~disturbed => orphans = {} /\ seen \subseteq pressed

\* Only the release of a Win key that began a drag is swallowed: whatever is
\* configured meanwhile, a Win key pressed by itself opens the start menu.
WinKeyKept == ~winBurned /\ (winConsumed => winUsed /\ WinKeyDown)

\* The hooks are those the settings ask for: no mouse hook while the gesture is
\* off or has no key, no keyboard hook for a user who has not ticked a Win key,
\* and no drag without the hook that would end it.
HooksAsConfigured ==
  /\ mouseHook => dragOn /\ dragMods # {}
  /\ keyboardHook => "win" \in dragMods
  /\ dragging => mouseHook /\ target \in Draggable

\* A program the user has excluded from the gesture keeps its presses.
ExcludedKeepTheirPresses == ~snatched
=============================================================================
