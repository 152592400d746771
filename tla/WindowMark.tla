----------------------------- MODULE WindowMark -----------------------------
(***************************************************************************)
(* The running program: the desktop changes at any moment, each change     *)
(* raises its window events, the event channel hands them over in batches, *)
(* and the UI thread runs one Coordinator handler at a time: an event of   *)
(* the current batch, or, when no batch is open, a command of the user or  *)
(* a watchdog tick.                                                        *)
(*                                                                         *)
(* The channel is EventChannel, which WindowBackend implements.  Events    *)
(* are lost while the hooks are dead (Windows removes slow hooks without   *)
(* telling), and the events of a window that is closed may be lost at any  *)
(* time (IsTopLevel says no for a window that is already gone).            *)
(***************************************************************************)
EXTENDS Coordinator

CONSTANTS
    Changes,            \* the kinds of desktop change of this instance
    Commands,           \* the user commands of this instance
    Pickers,            \* the lists of windows a picker dialog may show
    InitialWindows,     \* the windows that exist when the program starts
    InitialFrame,       \* and where they are
    InitialPlacements,
    MaxChanges          \* bound: the number of desktop changes

ASSUME WindowMarkAssumption ==
    /\ MaxChanges \in Nat
    /\ Pickers \subseteq SUBSET Windows
    /\ InitialWindows \subseteq Windows /\ InitialFrame \in Frames
    /\ InitialPlacements \subseteq Placements

VARIABLES
    owed, batch, turn,  \* the event channel
    hooked,             \* the WinEvent hooks deliver
    changes,            \* the number of desktop changes so far
    stranded,           \* history: windows whose pin was dropped while they lived
    lastForeground,     \* history: the latest tracked window in the foreground
    foregroundBefore,   \* history: the one before it
    quietTicks          \* history: watchdog ticks since the last desktop change, up to 2

Channel == INSTANCE EventChannel

channelVars == <<owed, batch, turn>>
historyVars == <<changes, stranded, lastForeground, foregroundBefore, quietTicks>>
vars == <<desktopVars, channelVars, coordinatorVars, hooked, historyVars>>

-----------------------------------------------------------------------------
(* The desktop's side.                                                     *)

(* The events of kinds K for w are queued, or lost with the hooks.         *)
Raise(w, K) == IF hooked THEN Channel!Accept(w, K) ELSE UNCHANGED channelVars

(* The foreground history counts windows the program could know of.        *)
NoteForeground ==
    IF foreground' \in Listed' /\ foreground' # lastForeground
    THEN lastForeground' = foreground' /\ foregroundBefore' = lastForeground
    ELSE UNCHANGED <<lastForeground, foregroundBefore>>

Changed(kind) ==
    /\ kind \in Changes
    /\ changes < MaxChanges
    /\ changes' = changes + 1
    /\ quietTicks' = 0
    /\ UNCHANGED <<coordinatorVars, hooked>>

Opens(w) ==
    /\ Changed("open")
    /\ w \notin Tracked     \* a handle is not used again before its end was seen
    /\ OpenWindow(w) /\ Raise(w, {"structure", "visibility"})
    /\ UNCHANGED stranded /\ NoteForeground

Closes(w) ==
    /\ Changed("close")
    /\ CloseWindow(w)
    /\ \/ Raise(w, {"structure", "visibility"})
       \/ UNCHANGED channelVars
    /\ stranded' = stranded \ {w} /\ NoteForeground

Hides(w) ==
    /\ Changed("hide")
    /\ HideWindow(w) /\ Raise(w, {"visibility"})
    /\ UNCHANGED stranded /\ NoteForeground

Shows(w) ==
    /\ Changed("show")
    /\ ShowWindow(w) /\ Raise(w, {"visibility"})
    /\ UNCHANGED stranded /\ NoteForeground

(* No hook listens to cloaking.                                            *)
SwitchesDesktop(leaving) ==
    /\ Changed("desktop")
    /\ SwitchDesktop(leaving) /\ UNCHANGED channelVars
    /\ UNCHANGED stranded /\ NoteForeground

Places(w, p) ==
    /\ Changed("place")
    /\ Place(w, p)
    /\ Raise(w, IF "minimized" \in {p, placement[w]} THEN {"visibility", "geometry"}
                                                     ELSE {"geometry"})
    /\ UNCHANGED stranded /\ NoteForeground

Moves(w, f) ==
    /\ Changed("move")
    /\ MoveWindow(w, f) /\ Raise(w, {"geometry"})
    /\ UNCHANGED stranded /\ NoteForeground

Retitles(w) ==
    /\ Changed("title")
    /\ w \in exists /\ Raise(w, {"title"})
    /\ UNCHANGED <<desktopVars, stranded>> /\ NoteForeground

Focuses(w) ==
    /\ Changed("focus")
    /\ Focus(w)
    /\ IF w = NoWindow THEN UNCHANGED channelVars
       ELSE Raise(w, IF placement[w] = "minimized" THEN {"visibility", "active"} ELSE {"active"})
    /\ UNCHANGED stranded /\ NoteForeground

TurnsOwnTopmost(w) ==
    /\ Changed("topmost")
    /\ w \notin DOMAIN pins
    /\ OwnTopmost(w) /\ UNCHANGED channelVars
    /\ UNCHANGED stranded /\ NoteForeground

HooksDie ==
    /\ "unhook" \in Changes
    /\ changes < MaxChanges /\ changes' = changes + 1 /\ quietTicks' = 0
    /\ hooked /\ hooked' = FALSE
    /\ UNCHANGED <<desktopVars, channelVars, coordinatorVars, stranded,
                   lastForeground, foregroundBefore>>

DesktopStep ==
    \/ \E w \in Windows :
          \/ Opens(w) \/ Closes(w) \/ Hides(w) \/ Shows(w) \/ Retitles(w) \/ TurnsOwnTopmost(w)
          \/ \E p \in Placements : Places(w, p)
          \/ \E f \in Frames : Moves(w, f)
    \/ \E leaving \in SUBSET Windows : SwitchesDesktop(leaving)
    \/ \E w \in Windows \cup {NoWindow} : Focuses(w)
    \/ HooksDie

-----------------------------------------------------------------------------
(* The UI thread's side.                                                   *)

(* A window whose pin is dropped while it lives is stranded from then on:  *)
(* p are the pins the handler has when it comes to prune them.             *)
NoteStranded(p) ==
    stranded' = stranded \cup {w \in DOMAIN p \cap exists : w \notin Tracked'}

UIQuiet == UNCHANGED <<changes, lastForeground, foregroundBefore>>

EmitBatch ==
    /\ started
    /\ \E S \in SUBSET owed : Channel!Emit(S)
    /\ UNCHANGED <<desktopVars, coordinatorVars, hooked, historyVars>>

HandleEvent ==
    /\ started
    /\ UNCHANGED <<desktopVars, hooked, quietTicks>> /\ UIQuiet
    /\ \E e \in batch : Channel!Deliver(e) /\ OnWindowEvent(e[1], e[2])
    /\ NoteStranded(pins)

Idle == started /\ batch = {}

Tick ==
    /\ Idle
    /\ "tick" \in Commands
    /\ UNCHANGED <<desktopVars, channelVars>> /\ UIQuiet
    /\ hooked' = (hooked \/ Confirmed)      \* Resync installs the hooks again
    /\ quietTicks' = IF quietTicks < 2 THEN quietTicks + 1 ELSE 2
    /\ WatchdogTick
    /\ NoteStranded(pins)

(* The commands that touch no window of another program.                   *)
Command(name) ==
    /\ Idle /\ name \in Commands
    /\ UNCHANGED <<desktopVars, channelVars, hooked, quietTicks>> /\ UIQuiet

(* The commands that write the topmost style.                              *)
StyleCommand(name) ==
    /\ Idle /\ name \in Commands
    /\ UNCHANGED <<exists, shown, cloaked, placement, frame, ownTopmost, foreground,
                   channelVars, hooked, quietTicks>>
    /\ UIQuiet

TogglesPin(w)    == StyleCommand("pin") /\ TogglePin(w) /\ UNCHANGED stranded
UnpinsAll        == StyleCommand("unpinall") /\ UnpinAll /\ UNCHANGED stranded
ChangesSettings(s) ==
    /\ StyleCommand("settings") /\ UpdateSettings(s)
    /\ NoteStranded(IF Releases(s) THEN <<>> ELSE pins)

Previews(w)      == Command("preview") /\ SetPinPreview(w) /\ UNCHANGED stranded

JoinsGroup(w, g) == Command("group") /\ JoinManualGroup(w, g) /\ UNCHANGED stranded
LeavesGroup(w)   == Command("group") /\ LeaveManualGroup(w) /\ UNCHANGED stranded
Disbands(w)      == Command("group") /\ DisbandManualGroup(w) /\ UNCHANGED stranded
DropsOn(v, w)    == Command("group") /\ MergeIntoGroupOf(v, w) /\ UNCHANGED stranded
DisbandsAll      == Command("group") /\ DisbandAllManualGroups /\ UNCHANGED stranded
TurnsOverlay     == Command("overlay") /\ SetOverlayEnabled(~settings.drawerEnabled) /\ UNCHANGED stranded

(* The picker shows some windows, and their applications; the list may be  *)
(* older than the record.  What is ticked off comes back.                  *)
Picks(listed, off, offApps) ==
    /\ Command("pick")
    /\ ApplySelection({App[w] : w \in listed}, offApps, listed, off)
    /\ UNCHANGED stranded

PicksBorders(listed, off, offApps) ==
    /\ Command("pickborder")
    /\ ApplyBorderSelection({App[w] : w \in listed}, offApps, listed, off)
    /\ UNCHANGED stranded

(* Mutant: without the IsWindow test.                                      *)
ActivateUnchecked(w) ==
    /\ placement' = IF placement[w] = "minimized"
                    THEN [placement EXCEPT ![w] = "normal"] ELSE placement
    /\ shown' = shown \cup {w}
    /\ foreground' \in {w, foreground}
    /\ UNCHANGED <<exists, cloaked, frame, topmost, ownTopmost>>
    /\ Raise(w, {"active"})

(* ActivateWindow of the window backend, for a bookmark click, a number    *)
(* key or the previous-window key: the window is restored or shown, and    *)
(* brought to the foreground if Windows allows it.                         *)
Activate(w) ==
    /\ w \in exists
    /\ placement' = IF placement[w] = "minimized"
                    THEN [placement EXCEPT ![w] = "normal"] ELSE placement
    /\ shown' = shown \cup {w}
    /\ foreground' \in {w, foreground}
    /\ UNCHANGED <<exists, cloaked, frame, topmost, ownTopmost>>
    /\ Raise(w, (IF placement[w] = "minimized" \/ w \notin shown THEN {"visibility"} ELSE {})
                \cup (IF foreground' # foreground THEN {"active"} ELSE {}))

Switches ==
    /\ Idle /\ "switch" \in Commands
    /\ \E w \in JumpTargets \cup PreviousTargets \cup UNION {{s.items[i] : i \in DOMAIN s.items} : s \in strips} :
          Activate(w)
    /\ UNCHANGED <<coordinatorVars, hooked, stranded>>
    /\ changes < MaxChanges /\ changes' = changes + 1 /\ quietTicks' = 0
    /\ NoteForeground

Stops ==
    /\ Idle /\ "stop" \in Commands
    /\ UNCHANGED <<exists, shown, cloaked, placement, frame, ownTopmost, foreground>>
    /\ Stop
    /\ owed' = {} /\ batch' = {} /\ turn' = NoWindow
    /\ hooked' = FALSE
    /\ quietTicks' = 0 /\ UNCHANGED stranded /\ UIQuiet

UIStep ==
    \/ EmitBatch \/ HandleEvent \/ Tick
    \/ \E w \in Windows : TogglesPin(w) \/ LeavesGroup(w) \/ Disbands(w)
    \/ \E w \in Windows \cup {NoWindow} : Previews(w)
    \/ UnpinsAll \/ DisbandsAll \/ TurnsOverlay \/ Switches \/ Stops
    \/ \E s \in SettingsChoices : ChangesSettings(s)
    \/ \E w \in Windows, g \in 0 .. MaxGroup : JoinsGroup(w, g)
    \/ \E v, w \in Windows : DropsOn(v, w)
    \/ \E listed \in Pickers :
          \E off \in SUBSET listed, offApps \in SUBSET {App[w] : w \in listed} :
              Picks(listed, off, offApps) \/ PicksBorders(listed, off, offApps)

-----------------------------------------------------------------------------

(* The program starts on a desktop of visible windows.                     *)
DesktopInit ==
    /\ exists = InitialWindows /\ shown = InitialWindows /\ cloaked = {}
    /\ placement \in [Windows -> InitialPlacements]
    /\ frame = [w \in Windows |-> InitialFrame]
    /\ ownTopmost \in SUBSET (InitialWindows \cap TopmostAware) /\ topmost = ownTopmost
    /\ foreground \in {w \in InitialWindows : placement[w] # "minimized"} \cup {NoWindow}

Init ==
    /\ DesktopInit
    /\ CoordinatorInit
    /\ Channel!ChannelInit
    /\ hooked = TRUE
    /\ changes = 0 /\ stranded = {} /\ quietTicks = 0
    /\ lastForeground = activeWindow /\ foregroundBefore = NoWindow

Next == DesktopStep \/ UIStep

Spec == Init /\ [][Next]_vars

-----------------------------------------------------------------------------
(* Properties.                                                             *)

TypeOK ==
    /\ DesktopTypeOK
    /\ owed \subseteq Channel!Events /\ batch \subseteq Channel!Events
    /\ turn \in Windows \cup {NoWindow}
    /\ started \in BOOLEAN /\ settings \in Settings
    /\ Tracked \subseteq Windows /\ \A w \in Tracked : windows[w] \in WindowInfo
    /\ DOMAIN stableOrder \subseteq Windows
    /\ \A w \in DOMAIN stableOrder : stableOrder[w] \in Nat
    /\ nextStableOrder \in Nat
    /\ activeWindow \in Windows \cup {NoWindow}
    /\ previousActive \in Windows \cup {NoWindow}
    /\ suspects \subseteq Windows
    /\ DOMAIN pins \subseteq Windows /\ \A w \in DOMAIN pins : pins[w] \in BOOLEAN
    /\ backendPins \subseteq Windows /\ pinPreview \in Windows \cup {NoWindow}
    /\ DOMAIN manualGroupOf \subseteq Windows
    /\ \A w \in DOMAIN manualGroupOf : manualGroupOf[w] \in Nat
    /\ manualGroupNames \subseteq Nat /\ nextManualGroup \in Nat
    /\ disabledWindowIds \subseteq Windows /\ borderDisabledIds \subseteq Windows
    /\ hooked \in BOOLEAN /\ changes \in Nat /\ quietTicks \in 0 .. 2
    /\ stranded \subseteq Windows
    /\ lastForeground \in Windows \cup {NoWindow}
    /\ foregroundBefore \in Windows \cup {NoWindow}

(* Whatever events were lost, two watchdog ticks without a change of the   *)
(* desktop in between leave the record in agreement with it, up to the     *)
(* tolerance ("at most 10 seconds", README of the program, line 203).      *)
WatchdogBound == started /\ quietTicks = 2 => Mismatched = {}

(* No handler forgets to tell the backends: what they were last given is   *)
(* what BuildModels and BuildBorderModels make of the record now, as long  *)
(* as nothing was selected in the border picker.                           *)
BordersAreCurrent == started => borders = BuildBorderModels

ShownIsCurrent == (started => strips = DesiredStrips) /\ BordersAreCurrent

(* The border picker is the only handler after which the borders may be    *)
(* out of date: pins, pin previews, settings and window events keep them   *)
(* what BuildBorderModels makes of the record.                             *)
BorderPicks == <<settings.borderExcludedApps, borderDisabledIds>>

BordersStayCurrent ==
    [][BordersAreCurrent /\ BorderPicks' = BorderPicks => BordersAreCurrent']_vars

(* The parts of the record agree: the active window is tracked; tracked    *)
(* windows have distinct ranks below the counter, so the strips have one   *)
(* order; group members, switched-off and pinned windows are tracked; a    *)
(* group that is in use has its name, so joining it never makes a new one. *)
ActiveIsTracked == activeWindow \in Tracked \cup {NoWindow}

RanksAreDistinct ==
    /\ Tracked \subseteq DOMAIN stableOrder
    /\ \A v \in DOMAIN stableOrder :
          /\ stableOrder[v] < nextStableOrder
          /\ \A w \in DOMAIN stableOrder : stableOrder[v] = stableOrder[w] => v = w

KeptAreTracked == DOMAIN manualGroupOf \cup disabledWindowIds \cup DOMAIN pins \subseteq Tracked

GroupsAreNamed ==
    \A w \in DOMAIN manualGroupOf :
        manualGroupOf[w] \in manualGroupNames /\ manualGroupOf[w] < nextManualGroup

RecordConsistent ==
    started => ActiveIsTracked /\ RanksAreDistinct /\ KeptAreTracked /\ GroupsAreNamed

(* Pins can be undone: as long as a pinned window stays tracked, its       *)
(* record holds what the window itself wants, whatever toggles, settings   *)
(* and window events came in between; and a window that is not pinned has  *)
(* the style it wants.  After Stop no pin is left, so every window has it. *)
PinRecords ==
    \A w \in exists \ stranded :
        /\ w \in DOMAIN pins => (pins[w] <=> w \in ownTopmost)
        /\ w \in topmost <=>
              w \in ownTopmost \/ (w \in DOMAIN pins /\ w \notin Elevated)

(* With pinning switched off, or the program stopped, nothing is pinned.   *)
PinsReleased == ~settings.pinEnabled \/ ~started => DOMAIN pins = {}

(* Number keys and strips agree when no group has a single member.         *)
JumpMatchesFullGroups ==
    (\A w \in DOMAIN manualGroupOf : Cardinality(GroupMembers(manualGroupOf[w])) >= 2) =>
        \A s \in strips : s.host = activeWindow => s.items = ActiveGroupMembers

(* Claims of the repository that the code does not keep; see the findings. *)

(* Stop leaves no window in front of the others ("strands them").          *)
NothingStranded == ~started => topmost = ownTopmost

(* The previous-window key goes where Alt+Tab would, once every event has  *)
(* been handled.                                                           *)
AtRest == started /\ hooked /\ owed = {} /\ batch = {}

PreviousIsPrevious ==
    AtRest /\ foreground \in Listed /\ foregroundBefore \in Listed =>
        previousActive = foregroundBefore

(* The active window is the foreground window, once every event is handled.*)
ActiveIsForeground == AtRest /\ foreground \in Tracked => activeWindow = foreground
=============================================================================
