----------------------------- MODULE Coordinator ----------------------------
(***************************************************************************)
(* windowmark::Coordinator: the record of tracked windows, the active and  *)
(* the previous window, pins, manual groups, the per-window switches, and  *)
(* what was last handed to the strip, border and pin backends.             *)
(*                                                                         *)
(* This module gives every handler as an action over the Coordinator's     *)
(* variables, reading the desktop as the code does when the handler runs.  *)
(* WindowMark adds who calls the handlers and when.  A handler that ends   *)
(* in RefreshAll, ApplyBorders or ApplyModels contains that call.          *)
(*                                                                         *)
(* Data left out: titles, colours and custom labels, pixel layout, and the *)
(* tray order of pins.  WindowInfo.visible is TRUE for every window that   *)
(* EnumerateWindows or QueryWindow returns, so it is left out as well.     *)
(***************************************************************************)
EXTENDS Desktop, Sequences, SequencesExt, HandleMaps

CONSTANTS
    Apps,               \* executables: a window's group key and its class
    App,                \* the executable of each window
    Tolerance,          \* kTolerance of the watchdog, in pixels
    MaxGroup,           \* bound: highest manual group number handed out
    InitialSettings,    \* the settings Start is called with
    SettingsChoices     \* the settings UpdateSettings is called with

VARIABLES
    started,
    settings,           \* the switches and lists of settings_ that matter here
    windows,            \* windows_: handle -> what was last read of it
    stableOrder,        \* stableOrder_: handle -> rank on the strips
    nextStableOrder,
    activeWindow,
    previousActive,
    suspects,           \* watchdogSuspects_
    pins,               \* pins_: handle -> was it topmost before
    backendPins,        \* pinned_ of the pin backend, from the last ApplyPins
    pinPreview,
    manualGroupOf,      \* handle -> group number
    manualGroupNames,   \* the group numbers that have a name
    nextManualGroup,
    disabledWindowIds,
    borderDisabledIds,
    strips,             \* the models last given to the overlay backend
    borders             \* the models last given to the border backend

trackVars == <<windows, stableOrder, nextStableOrder, activeWindow, previousActive>>
groupVars == <<manualGroupOf, manualGroupNames, nextManualGroup>>
pinVars   == <<pins, backendPins, pinPreview>>
pickVars  == <<disabledWindowIds, borderDisabledIds>>
coordinatorVars ==
    <<started, settings, trackVars, suspects, pinVars, groupVars, pickVars, strips, borders>>

Settings ==
    [pinEnabled : BOOLEAN, drawerEnabled : BOOLEAN, activeWindowOnly : BOOLEAN,
     borderEnabled : BOOLEAN, disabledApps : SUBSET Apps,
     borderExcludedApps : SUBSET Apps, excludedClasses : SUBSET Apps]

ASSUME CoordinatorAssumption ==
    /\ App \in [Windows -> Apps]
    /\ Tolerance \in Nat
    /\ MaxGroup \in Nat
    /\ InitialSettings \in Settings
    /\ SettingsChoices \subseteq Settings

WindowInfo == [frame : Frames, placement : Placements]
Tracked == DOMAIN windows

-----------------------------------------------------------------------------
(* Reading the desktop.                                                    *)

(* The windows EnumerateWindows returns, QueryWindow answers for.          *)
Listed == {w \in OnScreen : App[w] \notin settings.excludedClasses}

Info(w) == [frame |-> frame[w], placement |-> placement[w]]

(* Mutant: ranks are handed out again after windows have gone.             *)
RankNewFromCount(W) ==
    LET new == W \ DOMAIN stableOrder
        n   == Cardinality(new)
        kept == Cardinality(W) - n
    IN  /\ nextStableOrder' = kept + n
        /\ \E rank \in Bijection(new, kept .. kept + n - 1) :
              stableOrder' = [w \in W |-> IF w \in new THEN rank[w] ELSE stableOrder[w]]

(* Rank the windows W that have no rank yet, in the order they come.       *)
RankNew(W) ==
    LET new == W \ DOMAIN stableOrder
        n   == Cardinality(new)
    IN  /\ nextStableOrder' = nextStableOrder + n
        /\ \E rank \in Bijection(new, nextStableOrder .. nextStableOrder + n - 1) :
              stableOrder' = [w \in W |-> IF w \in new THEN rank[w] ELSE stableOrder[w]]

-----------------------------------------------------------------------------
(* What the backends are told.                                             *)

GroupMembers(g) == {w \in DOMAIN manualGroupOf : manualGroupOf[w] = g}

(* The group a window belongs to: a manual group of at least two members,  *)
(* otherwise its application.                                              *)
GroupKeyOf(w) ==
    IF w \in DOMAIN manualGroupOf /\ Cardinality(GroupMembers(manualGroupOf[w])) >= 2
    THEN <<"manual", manualGroupOf[w]>>
    ELSE <<"app", App[w]>>

IsAppEnabled(key) == \A a \in settings.disabledApps : key # <<"app", a>>

ByRank(W, rank) == SetToSortSeq(W, LAMBDA a, b : rank[a] < rank[b])
InStableOrder(W) == ByRank(W, stableOrder)

(* The windows that BuildModels puts into a group.                         *)
Bookmarked ==
    {w \in Tracked :
        /\ w \notin disabledWindowIds
        /\ w \in DOMAIN manualGroupOf \/ IsAppEnabled(GroupKeyOf(w))}

StripMembers(w) == {v \in Bookmarked : GroupKeyOf(v) = GroupKeyOf(w)}

BuildModels ==
    {[host    |-> w,
      frame   |-> windows[w].frame,
      visible |-> /\ windows[w].placement # "minimized"
                  /\ settings.activeWindowOnly => w = activeWindow,
      items   |-> InStableOrder(StripMembers(w)),
      active  |-> activeWindow] :
        w \in {v \in Bookmarked : Cardinality(StripMembers(v)) >= 2}}

DesiredStrips == IF settings.drawerEnabled THEN BuildModels ELSE {}

(* A pinned window, or the one a pin is being offered for, is outlined     *)
(* even when borders are off, excluded for it, or it is maximized.         *)
Outlined(w) ==
    LET pinned == w \in DOMAIN pins \/ w = pinPreview
    IN  /\ windows[w].placement # "minimized"
        /\ pinned \/ /\ settings.borderEnabled
                     /\ windows[w].placement # "maximized"
                     /\ App[w] \notin settings.borderExcludedApps
                     /\ w \notin borderDisabledIds

BuildBorderModels ==
    {[window |-> w,
      frame  |-> windows[w].frame,
      active |-> w = activeWindow,
      pinned |-> w \in DOMAIN pins \/ w = pinPreview] :
        w \in {v \in Tracked : Outlined(v)}}

ApplyModels == strips' = DesiredStrips'

(* PrunePins: pins of windows that are not tracked are dropped.            *)
PrunePins(p) == pins' = Restrict(p, DOMAIN p \cap Tracked')

(* Mutant: with borders switched off, pinned windows are forgotten too.    *)
ApplyBordersWhenOn(p) ==
    /\ PrunePins(p)
    /\ IF settings'.borderEnabled THEN borders' = BuildBorderModels' ELSE UNCHANGED borders

ApplyBorders(p) == PrunePins(p) /\ borders' = BuildBorderModels'

ApplyPins(p) == backendPins' = DOMAIN p

-----------------------------------------------------------------------------
(* RefreshAll and the handlers of window events.                           *)

(* Mutant: a closed window stays a member of its manual group.             *)
PruneAllButGroups ==
    /\ disabledWindowIds' = disabledWindowIds \cap Tracked'
    /\ UNCHANGED <<groupVars, borderDisabledIds>>

PruneTransientState ==
    /\ manualGroupOf' = Restrict(manualGroupOf, DOMAIN manualGroupOf \cap Tracked')
    /\ manualGroupNames' = manualGroupNames \cap {manualGroupOf'[w] : w \in DOMAIN manualGroupOf'}
    /\ disabledWindowIds' = disabledWindowIds \cap Tracked'
    /\ UNCHANGED <<nextManualGroup, borderDisabledIds>>

(* RefreshAll with the pins p: read everything again; if no listed window  *)
(* is in the foreground the active window is kept while it is there.       *)
RefreshAll(p) ==
    /\ windows' = [w \in Listed' |-> Info(w)']
    /\ RankNew(Listed')
    /\ activeWindow' =
          IF foreground' \in Listed' THEN foreground'
          ELSE IF activeWindow \in Listed' THEN activeWindow ELSE NoWindow
    /\ PruneTransientState
    /\ ApplyPins(p)
    /\ UNCHANGED <<previousActive, pinPreview>>
    /\ ApplyBorders(p)
    /\ ApplyModels

(* RefreshOne: the window is read again; if it cannot be, everything is.   *)
RefreshOne(w) ==
    IF w \notin Listed
    THEN RefreshAll(pins)
    ELSE /\ windows' = With(windows, w, Info(w))
         /\ IF w \in DOMAIN stableOrder
            THEN UNCHANGED <<stableOrder, nextStableOrder>>
            ELSE /\ stableOrder' = With(stableOrder, w, nextStableOrder)
                 /\ nextStableOrder' = nextStableOrder + 1
         /\ activeWindow' = IF foreground = w THEN w ELSE activeWindow
         /\ UNCHANGED <<previousActive, groupVars, pickVars, backendPins, pinPreview>>
         /\ ApplyBorders(pins)
         /\ ApplyModels

Width(f) == f.right - f.left

(* RefreshGeometry: only the frame is read, and only a resize, or a window *)
(* that is not tracked or cannot be seen, leads to a further look.         *)
RefreshGeometry(w) ==
    IF w \notin Tracked
    THEN RefreshOne(w)
    ELSE IF w \notin shown
    THEN RefreshAll(pins)
    ELSE IF windows[w].frame = frame[w]
    THEN UNCHANGED <<trackVars, groupVars, pickVars, pinVars, strips, borders>>
    ELSE IF Width(windows[w].frame) # Width(frame[w])
    THEN RefreshOne(w)
    ELSE /\ windows' = [windows EXCEPT ![w].frame = frame[w]]
         /\ UNCHANGED <<stableOrder, nextStableOrder, activeWindow, previousActive,
                        groupVars, pickVars, backendPins, pinPreview>>
         /\ ApplyBorders(pins)
         /\ ApplyModels

(* Mutant: the strips are not told of the new active window.               *)
ActiveChangedBordersOnly(w) ==
    IF w \notin Tracked
    THEN UNCHANGED <<trackVars, groupVars, pickVars, pinVars, strips, borders>>
    ELSE /\ previousActive' = IF w # activeWindow THEN activeWindow ELSE previousActive
         /\ activeWindow' = w
         /\ UNCHANGED <<windows, stableOrder, nextStableOrder, groupVars, pickVars,
                        backendPins, pinPreview, strips>>
         /\ ApplyBorders(pins)

(* ActiveChanged: a foreground window that is not tracked is ignored.      *)
ActiveChanged(w) ==
    IF w \notin Tracked
    THEN UNCHANGED <<trackVars, groupVars, pickVars, pinVars, strips, borders>>
    ELSE /\ previousActive' = IF w # activeWindow THEN activeWindow ELSE previousActive
         /\ activeWindow' = w
         /\ UNCHANGED <<windows, stableOrder, nextStableOrder, groupVars, pickVars,
                        backendPins, pinPreview>>
         /\ ApplyBorders(pins)
         /\ ApplyModels

OnWindowEvent(w, kind) ==
    /\ UNCHANGED <<started, settings, suspects>>
    /\ \/ kind = "structure" /\ RefreshAll(pins)
       \/ kind = "geometry" /\ RefreshGeometry(w)
       \/ kind \in {"title", "visibility"} /\ RefreshOne(w)
       \/ kind = "active" /\ ActiveChanged(w)

(* WatchdogTick: compare the record with the desktop; a window that does   *)
(* not agree twice in a row means events were lost.  The second case also  *)
(* installs the hooks again, which WindowMark adds.                        *)
Differs(w) ==
    \/ windows[w].placement # placement[w]
    \/ \E side \in {"left", "right"} :
          LET d == windows[w].frame[side] - frame[w][side]
          IN  d > Tolerance \/ -d > Tolerance

Mismatched ==
    (Listed \ Tracked) \cup (Tracked \ Listed) \cup {w \in Listed \cap Tracked : Differs(w)}

Confirmed == Mismatched \cap suspects # {}

(* Mutant: the suspects of one tick are not there for the next.            *)
WatchdogTickForgetful ==
    /\ UNCHANGED <<started, settings>>
    /\ \/ Confirmed /\ suspects' = {} /\ RefreshAll(pins)
       \/ /\ ~Confirmed
          /\ suspects' = Mismatched \ Listed
          /\ UNCHANGED <<trackVars, groupVars, pickVars, pinVars, strips, borders>>

WatchdogTick ==
    /\ UNCHANGED <<started, settings>>
    /\ \/ Confirmed /\ suspects' = {} /\ RefreshAll(pins)
       \/ /\ ~Confirmed
          /\ suspects' = Mismatched
          /\ UNCHANGED <<trackVars, groupVars, pickVars, pinVars, strips, borders>>

-----------------------------------------------------------------------------
(* Pins.                                                                   *)

(* Mutant: SetTopmost without its IsWindow test.                           *)
SetTopmostUnchecked(want) ==
    LET W == DOMAIN want \ Elevated
    IN  topmost' = (topmost \ W) \cup {w \in W : want[w]}

(* SetTopmost for every window of the domain of want, one after the other; *)
(* a dead handle and an elevated window keep what they have.               *)
SetTopmost(want) ==
    LET W == (DOMAIN want \cap exists) \ Elevated
    IN  topmost' = (topmost \ W) \cup {w \in W : want[w]}

(* Mutant: the state is read after the style was set.                      *)
AddedAfter(w) == With(pins, w, TRUE)

(* PinRegistry::Add, with what SetTopmost reports the window had before.   *)
Added(w) == With(pins, w, w \in topmost)

(* PinRegistry::Remove.                                                    *)
Removed(w) == Without(pins, w)

TogglePin(w) ==
    /\ settings.pinEnabled
    /\ w \in Tracked \cup DOMAIN pins
    /\ UNCHANGED <<started, settings, suspects, trackVars, groupVars, pickVars, pinPreview, strips>>
    /\ \/ /\ w \in DOMAIN pins
          /\ SetTopmost(Restrict(pins, {w}))
          /\ ApplyPins(Removed(w)) /\ ApplyBorders(Removed(w))
       \/ /\ w \in exists \ DOMAIN pins
          /\ SetTopmost([v \in {w} |-> TRUE])
          /\ ApplyPins(Added(w)) /\ ApplyBorders(Added(w))

UnpinAll ==
    /\ SetTopmost(pins)
    /\ ApplyPins(<<>>)
    /\ UNCHANGED <<started, settings, suspects, trackVars, groupVars, pickVars, pinPreview, strips>>
    /\ ApplyBorders(<<>>)

SetPinPreview(w) ==
    /\ pinPreview # w
    /\ pinPreview' = w
    /\ UNCHANGED <<started, settings, suspects, trackVars, groupVars, pickVars, backendPins, strips>>
    /\ ApplyBorders(pins)

(* Mutant: the switch only stops further pins.                             *)
ReleasesNothing(s) == FALSE

(* Pinning is being switched off.                                          *)
Releases(s) == settings.pinEnabled /\ ~s.pinEnabled

(* UpdateSettings: turning pinning off first releases every window, then   *)
(* everything is read again under the new settings.                        *)
UpdateSettings(s) ==
    /\ settings' = s
    /\ UNCHANGED <<started, suspects, exists, shown, cloaked, placement, frame,
                   ownTopmost, foreground>>
    /\ IF Releases(s)
       THEN SetTopmost(pins) /\ RefreshAll(<<>>)
       ELSE UNCHANGED topmost /\ RefreshAll(pins)

-----------------------------------------------------------------------------
(* Manual groups and the bookmark switches.                                *)

groupOnly == <<started, settings, suspects, trackVars, pinVars, borders>>

(* JoinManualGroup: group 0, or a group that is gone, makes a new one.     *)
JoinManualGroup(w, g) ==
    LET new  == g \notin manualGroupNames
        dest == IF new THEN nextManualGroup ELSE g
    IN  /\ w \in Tracked
        /\ new => nextManualGroup <= MaxGroup
        /\ manualGroupNames' = manualGroupNames \cup {dest}
        /\ nextManualGroup' = IF new THEN nextManualGroup + 1 ELSE nextManualGroup
        /\ manualGroupOf' = With(manualGroupOf, w, dest)
        /\ UNCHANGED <<groupOnly, pickVars>>
        /\ ApplyModels

LeaveManualGroup(w) ==
    /\ w \in DOMAIN manualGroupOf
    /\ manualGroupOf' = Without(manualGroupOf, w)
    /\ manualGroupNames' =
          IF GroupMembers(manualGroupOf[w]) = {w}
          THEN manualGroupNames \ {manualGroupOf[w]} ELSE manualGroupNames
    /\ UNCHANGED <<groupOnly, pickVars, nextManualGroup>>
    /\ ApplyModels

(* Mutant: the strips of the former members stay up.                       *)
DisbandUnseen(w) ==
    /\ w \in DOMAIN manualGroupOf
    /\ manualGroupOf' =
          Restrict(manualGroupOf, DOMAIN manualGroupOf \ GroupMembers(manualGroupOf[w]))
    /\ manualGroupNames' = manualGroupNames \ {manualGroupOf[w]}
    /\ UNCHANGED <<groupOnly, pickVars, nextManualGroup, strips>>

DisbandManualGroup(w) ==
    /\ w \in DOMAIN manualGroupOf
    /\ manualGroupOf' =
          Restrict(manualGroupOf, DOMAIN manualGroupOf \ GroupMembers(manualGroupOf[w]))
    /\ manualGroupNames' = manualGroupNames \ {manualGroupOf[w]}
    /\ UNCHANGED <<groupOnly, pickVars, nextManualGroup>>
    /\ ApplyModels

(* MergeIntoGroupOf: the dragged window joins the target's group, or both  *)
(* go into a new one.                                                      *)
MergeIntoGroupOf(dragged, target) ==
    /\ dragged # target
    /\ {dragged, target} \subseteq Tracked
    /\ IF target \in DOMAIN manualGroupOf
       THEN /\ dragged \in DOMAIN manualGroupOf =>
                  manualGroupOf[dragged] # manualGroupOf[target]
            /\ JoinManualGroup(dragged, manualGroupOf[target])
       ELSE /\ nextManualGroup <= MaxGroup
            /\ manualGroupNames' = manualGroupNames \cup {nextManualGroup}
            /\ nextManualGroup' = nextManualGroup + 1
            /\ manualGroupOf' =
                  With(With(manualGroupOf, dragged, nextManualGroup), target, nextManualGroup)
            /\ UNCHANGED <<groupOnly, pickVars>>
            /\ ApplyModels

DisbandAllManualGroups ==
    /\ manualGroupOf # <<>> \/ manualGroupNames # {}
    /\ manualGroupOf' = <<>>
    /\ manualGroupNames' = {}
    /\ UNCHANGED <<groupOnly, pickVars, nextManualGroup>>
    /\ ApplyModels

(* ApplySelection and ApplyBorderSelection: the picker lists applications  *)
(* and windows (its list may be older than the record), and comes back     *)
(* with the ones that are off; only a window that is still known is newly  *)
(* switched off.  Both end in ApplyModels: the borders wait for the next   *)
(* handler that applies them.                                              *)
Switched(old, listed, off, known) == (old \ (listed \ off)) \cup (off \cap known)

ApplySelection(apps, offApps, listed, off) ==
    /\ offApps \subseteq apps /\ off \subseteq listed
    /\ settings' = [settings EXCEPT !.disabledApps = Switched(@, apps, offApps, apps)]
    /\ disabledWindowIds' = Switched(disabledWindowIds, listed, off, Tracked)
    /\ UNCHANGED <<started, suspects, trackVars, pinVars, groupVars, borderDisabledIds, borders>>
    /\ ApplyModels

ApplyBorderSelection(apps, offApps, listed, off) ==
    /\ offApps \subseteq apps /\ off \subseteq listed
    /\ settings' = [settings EXCEPT !.borderExcludedApps = Switched(@, apps, offApps, apps)]
    /\ borderDisabledIds' = Switched(borderDisabledIds, listed, off, Tracked)
    /\ UNCHANGED <<started, suspects, trackVars, pinVars, groupVars, disabledWindowIds, borders>>
    /\ ApplyModels

SetOverlayEnabled(on) ==
    /\ settings' = [settings EXCEPT !.drawerEnabled = on]
    /\ UNCHANGED <<started, suspects, trackVars, pinVars, groupVars, pickVars, borders>>
    /\ ApplyModels

-----------------------------------------------------------------------------
(* The switching shortcuts.                                                *)

(* Mutant: windows that are switched off are counted as well.              *)
JumpGroupOfAll == {w \in Tracked : GroupKeyOf(w) = GroupKeyOf(activeWindow)}

(* The windows of the active window's group that are switched on.          *)
JumpGroup ==
    {w \in Tracked : GroupKeyOf(w) = GroupKeyOf(activeWindow) /\ w \notin disabledWindowIds}

(* ActiveGroupMembers: the windows the number keys reach, in strip order.  *)
ActiveGroupMembers ==
    IF \/ activeWindow \notin Tracked
       \/ /\ activeWindow \notin DOMAIN manualGroupOf
          /\ ~IsAppEnabled(GroupKeyOf(activeWindow))
    THEN <<>>
    ELSE InStableOrder(JumpGroup)

(* The window ActivateGroupMember(n) asks the backend to activate.         *)
JumpTargets == {ActiveGroupMembers[n] : n \in DOMAIN ActiveGroupMembers} \ {activeWindow}

(* The window ActivatePreviousWindow asks the backend to activate.         *)
PreviousTargets == {previousActive} \cap Tracked

-----------------------------------------------------------------------------
(* Start and Stop.                                                         *)

CoordinatorInit ==
    /\ started = TRUE
    /\ settings = InitialSettings
    /\ windows = [w \in Listed |-> Info(w)]
    /\ nextStableOrder = Cardinality(Listed)
    /\ stableOrder \in Bijection(Listed, 0 .. Cardinality(Listed) - 1)
    /\ activeWindow = IF foreground \in Listed THEN foreground ELSE NoWindow
    /\ previousActive = NoWindow
    /\ suspects = {}
    /\ pins = <<>> /\ backendPins = {} /\ pinPreview = NoWindow
    /\ manualGroupOf = <<>> /\ manualGroupNames = {} /\ nextManualGroup = 1
    /\ disabledWindowIds = {} /\ borderDisabledIds = {}
    /\ strips = DesiredStrips
    /\ borders = BuildBorderModels

(* Stop: the pinned windows are released before anything shuts down.       *)
Stop ==
    /\ started /\ started' = FALSE
    /\ SetTopmost(pins) /\ pins' = <<>> /\ backendPins' = {}
    /\ windows' = <<>> /\ disabledWindowIds' = {}
    /\ strips' = {} /\ borders' = {}
    /\ UNCHANGED <<settings, stableOrder, nextStableOrder, activeWindow, previousActive,
                   suspects, pinPreview, groupVars, borderDisabledIds>>
=============================================================================
