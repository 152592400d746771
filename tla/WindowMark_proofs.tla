--------------------------- MODULE WindowMark_proofs ------------------------
(***************************************************************************)
(* Theorems of WindowMark, for any windows, applications, settings and any *)
(* number of desktop changes.                                              *)
(***************************************************************************)
EXTENDS WindowMark, FiniteSetTheorems, TLAPS

-----------------------------------------------------------------------------
(* Pins.  PinRecords is not inductive alone: a handler that drops pins     *)
(* drops those of untracked windows, so no other window may be pinned; a   *)
(* handle that is used again must come without a pin; and the style of a   *)
(* handle without a window must be clear.                                  *)
PinInv ==
    /\ settings \in Settings
    /\ topmost \subseteq exists /\ ownTopmost \subseteq exists
    /\ DOMAIN pins \subseteq Tracked
    /\ PinsReleased
    /\ PinRecords

(* What the window handlers do to pins: nothing, or PrunePins.             *)
LEMMA EventPins ==
    ASSUME NEW w, NEW kind, OnWindowEvent(w, kind)
    PROVE  /\ UNCHANGED <<started, settings>>
           /\ PrunePins(pins) \/ UNCHANGED <<windows, pins>>
  <1>1. ASSUME NEW v, RefreshOne(v) PROVE PrunePins(pins)
    BY <1>1 DEF RefreshOne, RefreshAll, ApplyBorders
  <1>2. ASSUME NEW v, RefreshGeometry(v) PROVE PrunePins(pins) \/ UNCHANGED <<windows, pins>>
    BY <1>1, <1>2 DEF RefreshGeometry, RefreshAll, ApplyBorders, trackVars, pinVars
  <1>3. ASSUME NEW v, ActiveChanged(v) PROVE PrunePins(pins) \/ UNCHANGED <<windows, pins>>
    BY <1>3 DEF ActiveChanged, ApplyBorders, trackVars, pinVars
  <1> QED
    BY <1>1, <1>2, <1>3 DEF OnWindowEvent, RefreshAll, ApplyBorders

LEMMA TickPins ==
    ASSUME WatchdogTick
    PROVE  /\ UNCHANGED <<started, settings>>
           /\ PrunePins(pins) \/ UNCHANGED <<windows, pins>>
  BY DEF WatchdogTick, RefreshAll, ApplyBorders, trackVars, pinVars

(* A step that leaves pins and the style alone keeps the invariant.        *)
LEMMA PinsUntouched ==
    ASSUME PinInv, UNCHANGED <<started, settings, windows, pins, exists, topmost, ownTopmost, stranded>>
    PROVE  PinInv'
  BY DEF PinInv, PinsReleased, PinRecords, Tracked

(* So does a step that prunes pins and notes the windows it strands.       *)
LEMMA PinsPruned ==
    ASSUME PinInv, UNCHANGED <<started, exists, topmost, ownTopmost>>,
           settings' \in Settings, ~settings'.pinEnabled => DOMAIN pins = {},
           PrunePins(pins), NoteStranded(pins)
    PROVE  PinInv'
  <1>1. /\ DOMAIN pins' = DOMAIN pins \cap Tracked'
        /\ \A v \in DOMAIN pins' : pins'[v] = pins[v]
    BY DEF PrunePins, Restrict
  <1>2. \A v \in exists' \ stranded' :
           v \in exists \ stranded /\ (v \in DOMAIN pins' <=> v \in DOMAIN pins)
    BY <1>1 DEF NoteStranded
  <1> QED
    BY <1>1, <1>2 DEF PinInv, PinsReleased, PinRecords

(* With every pin undone each window has the style it wants.               *)
LEMMA PinsUndone ==
    ASSUME PinInv, SetTopmost(pins), UNCHANGED <<exists, ownTopmost, stranded>>,
           settings' \in Settings, DOMAIN pins' = {}
    PROVE  PinInv'
  <1>1. \A v : v \in topmost' <=>
           \/ v \in topmost /\ v \notin (DOMAIN pins \cap exists) \ Elevated
           \/ v \in (DOMAIN pins \cap exists) \ Elevated /\ pins[v]
    BY DEF SetTopmost
  <1>2. topmost' \subseteq exists'
    BY <1>1 DEF PinInv
  <1>3. \A v \in exists' \ stranded' : v \in topmost' <=> v \in ownTopmost'
    BY <1>1 DEF PinInv, PinRecords
  <1> QED
    BY <1>2, <1>3 DEF PinInv, PinsReleased, PinRecords

LEMMA TogglePins ==
    ASSUME PinInv, started, NEW w \in Windows, TogglePin(w), UNCHANGED <<exists, ownTopmost, stranded>>
    PROVE  PinInv'
  <1>1. /\ UNCHANGED <<started, settings, windows>>
        /\ settings.pinEnabled
    BY DEF TogglePin, trackVars
  <1>2. CASE w \in DOMAIN pins /\ SetTopmost(Restrict(pins, {w})) /\ ApplyBorders(Removed(w))
    <2>1. /\ DOMAIN pins' = DOMAIN pins \ {w}
          /\ \A v \in DOMAIN pins' : pins'[v] = pins[v]
      BY <1>1, <1>2 DEF ApplyBorders, PrunePins, Removed, Without, Restrict, PinInv, Tracked
    <2>2. \A v : v \in topmost' <=>
             \/ v \in topmost /\ v \notin ({w} \cap exists) \ Elevated
             \/ v \in ({w} \cap exists) \ Elevated /\ pins[v]
      BY <1>2 DEF SetTopmost, Restrict
    <2>3. DOMAIN pins' \subseteq Tracked'
      BY <1>1, <2>1 DEF PinInv, Tracked
    <2>4. topmost' \subseteq exists'
      BY <2>2 DEF PinInv
    <2>5. ASSUME NEW v \in exists' \ stranded'
          PROVE  /\ v \in DOMAIN pins' => (pins'[v] <=> v \in ownTopmost')
                 /\ v \in topmost' <=> v \in ownTopmost' \/ (v \in DOMAIN pins' /\ v \notin Elevated)
      <3>1. CASE v = w
        BY <1>2, <2>1, <2>2, <3>1 DEF PinInv, PinRecords
      <3>2. CASE v # w
        BY <2>1, <2>2, <3>2 DEF PinInv, PinRecords
      <3> QED
        BY <3>1, <3>2
    <2> QED
      BY <1>1, <2>3, <2>4, <2>5 DEF PinInv, PinsReleased, PinRecords
  <1>3. CASE w \in exists \ DOMAIN pins /\ SetTopmost([v \in {w} |-> TRUE]) /\ ApplyBorders(Added(w))
    <2>1. w \in Tracked
      BY <1>3 DEF TogglePin
    <2>2. /\ DOMAIN pins' = DOMAIN pins \cup {w}
          /\ \A v \in DOMAIN pins : pins'[v] = pins[v]
          /\ pins'[w] <=> w \in topmost
      BY <1>1, <1>3, <2>1 DEF ApplyBorders, PrunePins, Added, With, Restrict, PinInv, Tracked
    <2>3. \A v : v \in topmost' <=> v \in topmost \/ v \in ({w} \cap exists) \ Elevated
      BY <1>3 DEF SetTopmost
    <2>4. DOMAIN pins' \subseteq Tracked'
      BY <1>1, <2>1, <2>2 DEF PinInv, Tracked
    <2>5. topmost' \subseteq exists'
      BY <2>3 DEF PinInv
    <2>6. ASSUME NEW v \in exists' \ stranded'
          PROVE  /\ v \in DOMAIN pins' => (pins'[v] <=> v \in ownTopmost')
                 /\ v \in topmost' <=> v \in ownTopmost' \/ (v \in DOMAIN pins' /\ v \notin Elevated)
      <3>1. CASE v = w
        BY <1>3, <2>2, <2>3, <3>1 DEF PinInv, PinRecords
      <3>2. CASE v # w
        BY <2>2, <2>3, <3>2 DEF PinInv, PinRecords
      <3> QED
        BY <3>1, <3>2
    <2> QED
      BY <1>1, <2>4, <2>5, <2>6 DEF PinInv, PinsReleased, PinRecords
  <1> QED
    BY <1>2, <1>3 DEF TogglePin

LEMMA SettingsPins ==
    ASSUME PinInv, started, NEW s \in SettingsChoices, UpdateSettings(s),
           NoteStranded(IF Releases(s) THEN <<>> ELSE pins)
    PROVE  PinInv'
  <1>1. /\ settings' = s /\ s \in Settings
        /\ UNCHANGED <<started, exists, ownTopmost>>
    BY CoordinatorAssumption DEF UpdateSettings
  <1>2. CASE Releases(s)
    <2>1. SetTopmost(pins) /\ DOMAIN pins' = {}
      BY <1>2 DEF UpdateSettings, RefreshAll, ApplyBorders, PrunePins, Restrict
    <2>2. stranded' = stranded
      BY <1>2 DEF NoteStranded
    <2> QED
      BY <1>1, <2>1, <2>2, PinsUndone
  <1>3. CASE ~Releases(s)
    <2>1. UNCHANGED topmost /\ PrunePins(pins) /\ NoteStranded(pins)
      BY <1>3 DEF UpdateSettings, RefreshAll, ApplyBorders
    <2>2. ~settings'.pinEnabled => DOMAIN pins = {}
      BY <1>1, <1>3 DEF Releases, PinInv, PinsReleased
    <2> QED
      BY <1>1, <2>1, <2>2, PinsPruned
  <1> QED
    BY <1>2, <1>3

(* What the desktop does: a handle that comes to life has no pin, and only *)
(* a window that is not pinned turns its own switch.                       *)
LEMMA DesktopPins == ASSUME PinInv, DesktopStep PROVE PinInv'
  <1>1. UNCHANGED <<started, settings, windows, pins>>
    BY DEF DesktopStep, Opens, Closes, Hides, Shows, Retitles, TurnsOwnTopmost, Places, Moves,
           SwitchesDesktop, Focuses, HooksDie, Changed, coordinatorVars, trackVars, pinVars
  <1>2. CASE UNCHANGED <<exists, topmost, ownTopmost, stranded>>
    BY <1>1, <1>2, PinsUntouched
  <1>3. ASSUME NEW w \in Windows, Opens(w) PROVE PinInv'
    BY <1>1, <1>3 DEF Opens, OpenWindow, PinInv, PinsReleased, PinRecords, Tracked
  <1>4. ASSUME NEW w \in Windows, Closes(w) PROVE PinInv'
    BY <1>1, <1>4 DEF Closes, CloseWindow, PinInv, PinsReleased, PinRecords, Tracked
  <1>5. ASSUME NEW w \in Windows, TurnsOwnTopmost(w) PROVE PinInv'
    BY <1>1, <1>5 DEF TurnsOwnTopmost, OwnTopmost, PinInv, PinsReleased, PinRecords, Tracked
  <1>6. ASSUME NEW w \in Windows, Hides(w) \/ Shows(w) \/ Retitles(w)
        PROVE  UNCHANGED <<exists, topmost, ownTopmost, stranded>>
    BY <1>6 DEF Hides, Shows, Retitles, HideWindow, ShowWindow, desktopVars
  <1>7. ASSUME NEW w \in Windows,
               \/ \E p \in Placements : Places(w, p)
               \/ \E f \in Frames : Moves(w, f)
        PROVE  UNCHANGED <<exists, topmost, ownTopmost, stranded>>
    BY <1>7 DEF Places, Moves, Place, MoveWindow
  <1>8. CASE \/ \E leaving \in SUBSET Windows : SwitchesDesktop(leaving)
             \/ \E w \in Windows \cup {NoWindow} : Focuses(w)
             \/ HooksDie
    BY <1>2, <1>8 DEF SwitchesDesktop, Focuses, HooksDie, SwitchDesktop, Focus, desktopVars
  <1> QED
    BY <1>2, <1>3, <1>4, <1>5, <1>6, <1>7, <1>8 DEF DesktopStep

(* The commands that touch neither pins nor styles.                        *)
LEMMA OtherCommandPins ==
    ASSUME PinInv,
           \/ EmitBatch \/ DisbandsAll \/ Switches
           \/ \E w \in Windows : LeavesGroup(w) \/ Disbands(w)
           \/ \E w \in Windows, g \in 0 .. MaxGroup : JoinsGroup(w, g)
           \/ \E v, w \in Windows : DropsOn(v, w)
    PROVE  PinInv'
  <1>1. ASSUME NEW w, NEW g, JoinManualGroup(w, g)
        PROVE  UNCHANGED <<started, settings, windows, pins>>
    BY <1>1 DEF JoinManualGroup, groupOnly, trackVars, pinVars
  <1>2. UNCHANGED <<started, settings, windows, pins>>
    BY <1>1 DEF EmitBatch, DisbandsAll, Switches, LeavesGroup, Disbands, JoinsGroup, DropsOn,
                LeaveManualGroup, DisbandManualGroup, MergeIntoGroupOf, DisbandAllManualGroups,
                groupOnly, coordinatorVars, trackVars, pinVars
  <1>3. UNCHANGED <<exists, topmost, ownTopmost, stranded>>
    BY DEF EmitBatch, DisbandsAll, Switches, LeavesGroup, Disbands, JoinsGroup, DropsOn,
           Command, Activate, desktopVars, historyVars
  <1> QED
    BY <1>2, <1>3, PinsUntouched

(* The commands that prune pins, or change settings but not pinEnabled.    *)
LEMMA PruningCommandPins ==
    ASSUME PinInv, UNCHANGED <<started, exists, topmost, ownTopmost, stranded, windows>>,
           settings' \in Settings, settings'.pinEnabled = settings.pinEnabled,
           PrunePins(pins) \/ UNCHANGED pins
    PROVE  PinInv'
  <1>1. ASSUME PrunePins(pins) PROVE DOMAIN pins' = DOMAIN pins /\ \A v \in DOMAIN pins : pins'[v] = pins[v]
    BY <1>1 DEF PrunePins, Restrict, PinInv, Tracked
  <1> QED
    BY <1>1 DEF PinInv, PinsReleased, PinRecords, Tracked

LEMMA PickedApps ==
    ASSUME NEW listed \in Pickers, NEW offApps \in SUBSET {App[w] : w \in listed},
           NEW old \in SUBSET Apps
    PROVE  LET apps == {App[w] : w \in listed}
           IN Switched(old, apps, offApps, apps) \in SUBSET Apps
  BY WindowMarkAssumption, CoordinatorAssumption DEF Switched

LEMMA PickPins ==
    ASSUME PinInv, NEW listed \in Pickers, NEW off \in SUBSET listed,
           NEW offApps \in SUBSET {App[w] : w \in listed},
           Picks(listed, off, offApps) \/ PicksBorders(listed, off, offApps)
    PROVE  PinInv'
  <1>1. CASE Picks(listed, off, offApps)
    <2>1. /\ settings' \in Settings
          /\ settings'.pinEnabled = settings.pinEnabled
      BY <1>1, PickedApps DEF Picks, ApplySelection, PinInv, Settings
    <2>2. UNCHANGED <<started, exists, topmost, ownTopmost, stranded, windows, pins>>
      BY <1>1 DEF Picks, ApplySelection, Command, desktopVars, trackVars, pinVars
    <2> QED
      BY <2>1, <2>2, PruningCommandPins
  <1>2. CASE PicksBorders(listed, off, offApps)
    <2>1. /\ settings' \in Settings
          /\ settings'.pinEnabled = settings.pinEnabled
      BY <1>2, PickedApps DEF PicksBorders, ApplyBorderSelection, PinInv, Settings
    <2>2. UNCHANGED <<started, exists, topmost, ownTopmost, stranded, windows, pins>>
      BY <1>2 DEF PicksBorders, ApplyBorderSelection, Command, desktopVars, trackVars, pinVars
    <2> QED
      BY <2>1, <2>2, PruningCommandPins
  <1> QED
    BY <1>1, <1>2

LEMMA PinStep == PinInv /\ [Next]_vars => PinInv'
  <1> SUFFICES ASSUME PinInv, [Next]_vars PROVE PinInv'
    OBVIOUS
  <1>1. CASE DesktopStep
    BY <1>1, DesktopPins
  <1>2. ASSUME UNCHANGED desktopVars, UNCHANGED <<started, settings>>, NoteStranded(pins),
               PrunePins(pins) \/ UNCHANGED <<windows, pins>>
        PROVE  PinInv'
    <2>1. CASE PrunePins(pins)
      BY <1>2, <2>1, PinsPruned DEF PinInv, PinsReleased, desktopVars
    <2>2. CASE UNCHANGED <<windows, pins>>
      <3>1. stranded' = stranded
        BY <1>2, <2>2 DEF NoteStranded, PinInv, Tracked
      <3> QED
        BY <1>2, <2>2, <3>1, PinsUntouched DEF desktopVars
    <2> QED
      BY <1>2, <2>1, <2>2
  <1>3. CASE HandleEvent
    BY <1>2, <1>3, EventPins DEF HandleEvent
  <1>4. CASE Tick
    BY <1>2, <1>4, TickPins DEF Tick
  <1>5. ASSUME NEW w \in Windows, TogglesPin(w) PROVE PinInv'
    BY <1>5, TogglePins DEF TogglesPin, StyleCommand, Idle
  <1>6. CASE UnpinsAll
    <2>1. SetTopmost(pins) /\ DOMAIN pins' = {}
      BY <1>6 DEF UnpinsAll, UnpinAll, ApplyBorders, PrunePins, Restrict
    <2>2. UNCHANGED <<settings, exists, ownTopmost, stranded>>
      BY <1>6 DEF UnpinsAll, UnpinAll, StyleCommand
    <2> QED
      BY <2>1, <2>2, PinsUndone DEF PinInv
  <1>7. ASSUME NEW s \in SettingsChoices, ChangesSettings(s) PROVE PinInv'
    BY <1>7, SettingsPins DEF ChangesSettings, StyleCommand, Idle
  <1>8. ASSUME NEW w \in Windows \cup {NoWindow}, Previews(w) PROVE PinInv'
    BY <1>8, PruningCommandPins
       DEF Previews, Command, SetPinPreview, ApplyBorders, desktopVars, trackVars, PinInv
  <1>9. CASE TurnsOverlay
    <2>1. settings' \in Settings /\ settings'.pinEnabled = settings.pinEnabled
      BY <1>9 DEF TurnsOverlay, SetOverlayEnabled, PinInv, Settings
    <2> QED
      BY <1>9, <2>1, PruningCommandPins
         DEF TurnsOverlay, SetOverlayEnabled, Command, desktopVars, trackVars, pinVars
  <1>10. CASE Stops
    <2>1. SetTopmost(pins) /\ DOMAIN pins' = {}
      BY <1>10 DEF Stops, Stop
    <2> QED
      BY <1>10, <2>1, PinsUndone DEF Stops, Stop, PinInv
  <1>11. CASE UNCHANGED vars
    BY <1>11, PinsUntouched DEF vars, desktopVars, coordinatorVars, historyVars, trackVars, pinVars
  <1> QED
    BY <1>1, <1>3, <1>4, <1>5, <1>6, <1>7, <1>8, <1>9, <1>10, <1>11, OtherCommandPins, PickPins
       DEF Next, UIStep

LEMMA PinStart == Init => PinInv
  <1> SUFFICES ASSUME Init PROVE PinInv
    OBVIOUS
  <1>1. DOMAIN pins = {}
    BY DEF Init, CoordinatorInit
  <1> QED
    BY <1>1, CoordinatorAssumption, WindowMarkAssumption
       DEF Init, DesktopInit, CoordinatorInit, PinInv, PinsReleased, PinRecords

(* Pins can be undone, in every run of the program: the record of a pinned *)
(* window that stayed tracked holds what the window itself wants, and no   *)
(* window that is not pinned is kept in front of the others.               *)
THEOREM PinsCanBeUndone == Spec => []PinRecords
  <1>1. PinInv => PinRecords
    BY DEF PinInv
  <1> QED
    BY <1>1, PinStart, PinStep, PTL DEF Spec

(* Nothing stays pinned when pinning is switched off or the program stops. *)
THEOREM NothingStaysPinned == Spec => []PinsReleased
  <1>1. PinInv => PinsReleased
    BY DEF PinInv
  <1> QED
    BY <1>1, PinStart, PinStep, PTL DEF Spec

-----------------------------------------------------------------------------
(* The record.  RecordConsistent is inductive once the numbers are known   *)
(* to be numbers and the handles that are listed to be finitely many.      *)
RecordInv ==
    /\ exists \subseteq Windows /\ shown \subseteq Windows
    /\ nextStableOrder \in Nat
    /\ \A w \in DOMAIN stableOrder : stableOrder[w] \in Nat
    /\ nextManualGroup \in Nat
    /\ \A w \in DOMAIN manualGroupOf : manualGroupOf[w] \in Nat
    /\ \A g \in manualGroupNames : g \in Nat /\ g < nextManualGroup
    /\ RecordConsistent

(* RankNew gives every window that is listed a rank of its own: those that *)
(* have one keep it, the others get the next numbers of the counter.       *)
LEMMA RanksGiven ==
    ASSUME nextStableOrder \in Nat, \A w \in DOMAIN stableOrder : stableOrder[w] \in Nat,
           RanksAreDistinct, NEW ACTION W, W \subseteq Windows, RankNew(W), DOMAIN windows' = W
    PROVE  /\ nextStableOrder' \in Nat
           /\ \A w \in DOMAIN stableOrder' : stableOrder'[w] \in Nat
           /\ RanksAreDistinct'
  <1> DEFINE new == W \ DOMAIN stableOrder
             n   == Cardinality(new)
  <1>1. n \in Nat
    BY DesktopAssumption, FS_Subset, FS_CardinalityType
  <1>2. PICK rank \in Bijection(new, nextStableOrder .. nextStableOrder + n - 1) :
           stableOrder' = [w \in W |-> IF w \in new THEN rank[w] ELSE stableOrder[w]]
    BY DEF RankNew
  <1>3. nextStableOrder' = nextStableOrder + n
    BY DEF RankNew
  <1> HIDE DEF n
  <1>4. /\ \A w \in new : rank[w] \in nextStableOrder .. nextStableOrder + n - 1
        /\ \A v, w \in new : rank[v] = rank[w] => v = w
    BY DEF Bijection, Injection, IsInjective
  <1>5. DOMAIN stableOrder' = W
    BY <1>2
  <1>6. ASSUME NEW w \in W
        PROVE  /\ w \in new => /\ stableOrder'[w] = rank[w]
                             /\ stableOrder'[w] \in Nat
                             /\ stableOrder'[w] >= nextStableOrder
                             /\ stableOrder'[w] < nextStableOrder'
               /\ w \notin new => /\ stableOrder'[w] = stableOrder[w]
                                /\ w \in DOMAIN stableOrder
                                /\ stableOrder'[w] \in Nat
                                /\ stableOrder'[w] < nextStableOrder
    <2>1. CASE w \in new
      BY <1>1, <1>2, <1>3, <1>4, <2>1
    <2>2. CASE w \notin new
      BY <1>2, <2>2 DEF RanksAreDistinct
    <2> QED
      BY <2>1, <2>2
  <1>7. \A w \in W : stableOrder'[w] \in Nat /\ stableOrder'[w] < nextStableOrder'
    BY <1>1, <1>3, <1>6
  <1>8. ASSUME NEW v \in W, NEW w \in W, stableOrder'[v] = stableOrder'[w] PROVE v = w
    <2>1. CASE v \in new /\ w \in new
      BY <1>4, <1>6, <1>8, <2>1
    <2>2. CASE v \notin new /\ w \notin new
      BY <1>6, <1>8, <2>2 DEF RanksAreDistinct
    <2>3. CASE (v \in new) # (w \in new)
      BY <1>6, <1>8, <2>3
    <2> QED
      BY <2>1, <2>2, <2>3
  <1> QED
    BY <1>1, <1>3, <1>5, <1>7, <1>8 DEF RanksAreDistinct, Tracked

LEMMA RefreshAllRecord ==
    ASSUME RecordInv, started, NEW STATE p, RefreshAll(p), UNCHANGED <<exists, shown>>
    PROVE  RecordInv'
  <1>1. Listed' \subseteq Windows
    BY DEF Listed, OnScreen, RecordInv
  <1>2. DOMAIN windows' = Listed' /\ RankNew(Listed')
    BY DEF RefreshAll
  <1>3. /\ nextStableOrder' \in Nat
        /\ \A w \in DOMAIN stableOrder' : stableOrder'[w] \in Nat
        /\ RanksAreDistinct'
    BY <1>1, <1>2, RanksGiven DEF RecordInv, RecordConsistent
  <1>4. ActiveIsTracked'
    BY <1>2 DEF RefreshAll, ActiveIsTracked, Tracked
  <1>5. /\ DOMAIN manualGroupOf' \subseteq DOMAIN manualGroupOf \cap Tracked'
        /\ \A w \in DOMAIN manualGroupOf' :
              manualGroupOf'[w] = manualGroupOf[w] /\ manualGroupOf'[w] \in manualGroupNames'
        /\ UNCHANGED nextManualGroup
        /\ manualGroupNames' \subseteq manualGroupNames
        /\ disabledWindowIds' \subseteq Tracked'
    BY DEF RefreshAll, PruneTransientState, Restrict, RecordInv, RecordConsistent, GroupsAreNamed
  <1>6. DOMAIN pins' \subseteq Tracked'
    BY DEF RefreshAll, ApplyBorders, PrunePins, Restrict
  <1>7. KeptAreTracked' /\ GroupsAreNamed'
    BY <1>5, <1>6 DEF KeptAreTracked, GroupsAreNamed, RecordInv, RecordConsistent
  <1> QED
    BY <1>3, <1>4, <1>5, <1>7 DEF RecordInv, RecordConsistent

(* A step that changes at most pins, settings and what is shown.           *)
LEMMA RecordUntouched ==
    ASSUME RecordInv, exists' \subseteq Windows, shown' \subseteq Windows,
           started' => started,
           UNCHANGED <<windows, stableOrder, nextStableOrder, activeWindow,
                       manualGroupOf, manualGroupNames, nextManualGroup, disabledWindowIds>>,
           DOMAIN pins' \subseteq Tracked' \/ UNCHANGED pins
    PROVE  RecordInv'
  BY DEF RecordInv, RecordConsistent, ActiveIsTracked, RanksAreDistinct, KeptAreTracked,
         GroupsAreNamed, Tracked

LEMMA ActiveChangedRecord ==
    ASSUME RecordInv, started, started', UNCHANGED <<exists, shown>>, NEW w, ActiveChanged(w)
    PROVE  RecordInv'
  <1>1. CASE w \notin Tracked
    BY <1>1, RecordUntouched DEF ActiveChanged, trackVars, groupVars, pickVars, pinVars, RecordInv
  <1>2. CASE w \in Tracked
    <2>1. /\ UNCHANGED <<windows, stableOrder, nextStableOrder, manualGroupOf, manualGroupNames,
                         nextManualGroup, disabledWindowIds>>
          /\ activeWindow' \in Tracked'
          /\ DOMAIN pins' \subseteq Tracked'
      BY <1>2 DEF ActiveChanged, groupVars, pickVars, ApplyBorders, PrunePins, Restrict, Tracked
    <2> QED
      BY <2>1 DEF RecordInv, RecordConsistent, ActiveIsTracked, RanksAreDistinct, KeptAreTracked,
                  GroupsAreNamed, Tracked
  <1> QED
    BY <1>1, <1>2

LEMMA RefreshOneRecord ==
    ASSUME RecordInv, started, started', UNCHANGED <<exists, shown>>, NEW w, RefreshOne(w)
    PROVE  RecordInv'
  <1>1. CASE w \notin Listed
    BY <1>1, RefreshAllRecord DEF RefreshOne
  <1>2. CASE w \in Listed
    <2>1. /\ Tracked' = Tracked \cup {w}
          /\ activeWindow' \in {w, activeWindow}
          /\ UNCHANGED <<manualGroupOf, manualGroupNames, nextManualGroup, disabledWindowIds>>
          /\ DOMAIN pins' \subseteq Tracked'
      BY <1>2 DEF RefreshOne, Tracked, With, groupVars, pickVars, ApplyBorders, PrunePins, Restrict
    <2>2. /\ nextStableOrder' \in Nat
          /\ \A v \in DOMAIN stableOrder' : stableOrder'[v] \in Nat
          /\ RanksAreDistinct'
      <3>1. CASE w \in DOMAIN stableOrder
        BY <1>2, <2>1, <3>1 DEF RefreshOne, RecordInv, RecordConsistent, RanksAreDistinct
      <3>2. CASE w \notin DOMAIN stableOrder
        <4>1. /\ DOMAIN stableOrder' = DOMAIN stableOrder \cup {w}
              /\ stableOrder'[w] = nextStableOrder
              /\ \A v \in DOMAIN stableOrder : stableOrder'[v] = stableOrder[v]
              /\ nextStableOrder' = nextStableOrder + 1
          BY <1>2, <3>2 DEF RefreshOne, With
        <4> QED
          BY <2>1, <4>1 DEF RecordInv, RecordConsistent, RanksAreDistinct
      <3> QED
        BY <3>1, <3>2
    <2>3. ActiveIsTracked' /\ KeptAreTracked' /\ GroupsAreNamed'
      BY <2>1 DEF RecordInv, RecordConsistent, ActiveIsTracked, KeptAreTracked, GroupsAreNamed
    <2> QED
      BY <2>1, <2>2, <2>3 DEF RecordInv, RecordConsistent
  <1> QED
    BY <1>1, <1>2

LEMMA RefreshGeometryRecord ==
    ASSUME RecordInv, started, started', UNCHANGED <<exists, shown>>, NEW w, RefreshGeometry(w)
    PROVE  RecordInv'
  <1>1. CASE RefreshOne(w)
    BY <1>1, RefreshOneRecord
  <1>2. CASE RefreshAll(pins)
    BY <1>2, RefreshAllRecord
  <1>3. CASE UNCHANGED <<trackVars, groupVars, pickVars, pinVars, strips, borders>>
    BY <1>3, RecordUntouched DEF trackVars, groupVars, pickVars, pinVars, RecordInv
  <1>4. CASE w \in Tracked /\ windows' = [windows EXCEPT ![w].frame = frame[w]]
             /\ ApplyBorders(pins)
             /\ UNCHANGED <<stableOrder, nextStableOrder, activeWindow, groupVars, pickVars>>
    <2>1. /\ Tracked' = Tracked
          /\ UNCHANGED <<stableOrder, nextStableOrder, activeWindow, manualGroupOf,
                         manualGroupNames, nextManualGroup, disabledWindowIds>>
          /\ DOMAIN pins' \subseteq Tracked'
      BY <1>4 DEF Tracked, groupVars, pickVars, ApplyBorders, PrunePins, Restrict
    <2> QED
      BY <2>1 DEF RecordInv, RecordConsistent, ActiveIsTracked, RanksAreDistinct, KeptAreTracked,
                  GroupsAreNamed
  <1> QED
    BY <1>1, <1>2, <1>3, <1>4 DEF RefreshGeometry

LEMMA EventRecord ==
    ASSUME RecordInv, started, UNCHANGED <<exists, shown>>, NEW w, NEW kind, OnWindowEvent(w, kind)
    PROVE  RecordInv'
  BY RefreshAllRecord, RefreshOneRecord, RefreshGeometryRecord, ActiveChangedRecord
     DEF OnWindowEvent

(* Manual groups: every operation keeps the members tracked and the groups *)
(* they are in named.                                                      *)
LEMMA JoinRecord ==
    ASSUME RecordInv, started, UNCHANGED <<exists, shown>>, NEW w, NEW g, JoinManualGroup(w, g)
    PROVE  RecordInv'
  <1> DEFINE dest == IF g \notin manualGroupNames THEN nextManualGroup ELSE g
  <1>1. /\ w \in Tracked
        /\ UNCHANGED <<started, windows, stableOrder, nextStableOrder, activeWindow, disabledWindowIds, pins>>
        /\ manualGroupNames' = manualGroupNames \cup {dest}
        /\ nextManualGroup' = IF g \notin manualGroupNames THEN nextManualGroup + 1 ELSE nextManualGroup
        /\ manualGroupOf' = With(manualGroupOf, w, dest)
    BY DEF JoinManualGroup, groupOnly, trackVars, pinVars, pickVars
  <1>2. dest \in Nat /\ dest < nextManualGroup' /\ nextManualGroup' \in Nat
        /\ nextManualGroup <= nextManualGroup'
    BY <1>1 DEF RecordInv
  <1> HIDE DEF dest
  <1>3. /\ DOMAIN manualGroupOf' = DOMAIN manualGroupOf \cup {w}
        /\ \A v \in DOMAIN manualGroupOf' :
              manualGroupOf'[v] = IF v = w THEN dest ELSE manualGroupOf[v]
    BY <1>1 DEF With
  <1>4. \A v \in DOMAIN manualGroupOf' : manualGroupOf'[v] \in Nat
    BY <1>2, <1>3 DEF RecordInv
  <1>5. GroupsAreNamed'
    BY <1>1, <1>2, <1>3 DEF GroupsAreNamed, RecordInv, RecordConsistent
  <1>6. \A h \in manualGroupNames' : h \in Nat /\ h < nextManualGroup'
    BY <1>1, <1>2 DEF RecordInv
  <1> QED
    BY <1>1, <1>2, <1>3, <1>4, <1>5, <1>6 DEF RecordInv, RecordConsistent, ActiveIsTracked,
                                       RanksAreDistinct, KeptAreTracked, Tracked

LEMMA MergeRecord ==
    ASSUME RecordInv, started, UNCHANGED <<exists, shown>>, NEW v, NEW w, MergeIntoGroupOf(v, w)
    PROVE  RecordInv'
  <1>1. CASE w \in DOMAIN manualGroupOf
    BY <1>1, JoinRecord DEF MergeIntoGroupOf
  <1>2. CASE w \notin DOMAIN manualGroupOf
    <2>1. /\ v \in Tracked /\ w \in Tracked
          /\ UNCHANGED <<started, windows, stableOrder, nextStableOrder, activeWindow, disabledWindowIds, pins>>
          /\ manualGroupNames' = manualGroupNames \cup {nextManualGroup}
          /\ nextManualGroup' = nextManualGroup + 1
          /\ DOMAIN manualGroupOf' = DOMAIN manualGroupOf \cup {v, w}
          /\ \A x \in DOMAIN manualGroupOf' :
                manualGroupOf'[x] = IF x \in {v, w} THEN nextManualGroup ELSE manualGroupOf[x]
      BY <1>2 DEF MergeIntoGroupOf, groupOnly, trackVars, pinVars, pickVars, With
    <2>2. \A x \in DOMAIN manualGroupOf' :
             /\ manualGroupOf'[x] \in Nat
             /\ manualGroupOf'[x] \in manualGroupNames' /\ manualGroupOf'[x] < nextManualGroup'
      BY <2>1 DEF RecordInv, RecordConsistent, GroupsAreNamed
    <2>3. nextManualGroup' \in Nat /\ \A h \in manualGroupNames' : h \in Nat /\ h < nextManualGroup'
      BY <2>1 DEF RecordInv
    <2>4. KeptAreTracked'
      BY <2>1 DEF RecordInv, RecordConsistent, KeptAreTracked, Tracked
    <2> QED
      BY <2>1, <2>2, <2>3, <2>4 DEF RecordInv, RecordConsistent, ActiveIsTracked,
                              RanksAreDistinct, GroupsAreNamed, Tracked
  <1> QED
    BY <1>1, <1>2

(* Leaving and disbanding: a name goes only with the last member.          *)
LEMMA LeaveRecord ==
    ASSUME RecordInv, started, UNCHANGED <<exists, shown>>, NEW w,
           LeaveManualGroup(w) \/ DisbandManualGroup(w) \/ DisbandAllManualGroups
    PROVE  RecordInv'
  <1>1. UNCHANGED <<started, windows, stableOrder, nextStableOrder, activeWindow,
                    nextManualGroup, disabledWindowIds, pins>>
    BY DEF LeaveManualGroup, DisbandManualGroup, DisbandAllManualGroups,
           groupOnly, trackVars, pinVars, pickVars
  <1>2. /\ DOMAIN manualGroupOf' \subseteq DOMAIN manualGroupOf
        /\ manualGroupNames' \subseteq manualGroupNames
        /\ \A v \in DOMAIN manualGroupOf' :
              manualGroupOf'[v] = manualGroupOf[v] /\ manualGroupOf'[v] \in manualGroupNames'
    <2>1. CASE LeaveManualGroup(w)
      BY <2>1 DEF LeaveManualGroup, Without, Restrict, GroupMembers, RecordInv, RecordConsistent,
                  GroupsAreNamed
    <2>2. CASE DisbandManualGroup(w)
      BY <2>2 DEF DisbandManualGroup, Restrict, GroupMembers, RecordInv, RecordConsistent,
                  GroupsAreNamed
    <2>3. CASE DisbandAllManualGroups
      BY <2>3 DEF DisbandAllManualGroups
    <2> QED
      BY <2>1, <2>2, <2>3
  <1> QED
    BY <1>1, <1>2 DEF RecordInv, RecordConsistent, ActiveIsTracked, RanksAreDistinct,
                      KeptAreTracked, GroupsAreNamed, Tracked

(* The desktop, and Activate, which restores and shows a window.           *)
LEMMA DesktopRecord == ASSUME RecordInv, DesktopStep \/ Switches PROVE RecordInv'
  <1>1. UNCHANGED coordinatorVars
    BY DEF DesktopStep, Opens, Closes, Hides, Shows, Retitles, TurnsOwnTopmost, Places, Moves,
           SwitchesDesktop, Focuses, HooksDie, Changed, Switches
  <1>2. ASSUME NEW w \in Windows,
               Opens(w) \/ Closes(w) \/ Hides(w) \/ Shows(w) \/ Retitles(w) \/ TurnsOwnTopmost(w)
        PROVE  exists' \subseteq Windows /\ shown' \subseteq Windows
    BY <1>2 DEF Opens, Closes, Hides, Shows, Retitles, TurnsOwnTopmost, OpenWindow, CloseWindow,
                HideWindow, ShowWindow, OwnTopmost, desktopVars, RecordInv
  <1>3. ASSUME NEW w \in Windows,
               \/ \E p \in Placements : Places(w, p)
               \/ \E f \in Frames : Moves(w, f)
        PROVE  UNCHANGED <<exists, shown>>
    BY <1>3 DEF Places, Moves, Place, MoveWindow
  <1>4. ASSUME \/ \E leaving \in SUBSET Windows : SwitchesDesktop(leaving)
               \/ \E w \in Windows \cup {NoWindow} : Focuses(w)
               \/ HooksDie
        PROVE  UNCHANGED <<exists, shown>>
    BY <1>4 DEF SwitchesDesktop, Focuses, HooksDie, SwitchDesktop, Focus, desktopVars
  <1>5. ASSUME Switches PROVE exists' \subseteq Windows /\ shown' \subseteq Windows
    <2>1. PICK w : Activate(w)
      BY <1>5 DEF Switches
    <2>2. w \in exists /\ exists' = exists /\ shown' = shown \cup {w}
      BY <2>1 DEF Activate
    <2> QED
      BY <2>2 DEF RecordInv
  <1>6. exists' \subseteq Windows /\ shown' \subseteq Windows
    <2>1. ASSUME UNCHANGED <<exists, shown>> PROVE exists' \subseteq Windows /\ shown' \subseteq Windows
      BY <2>1 DEF RecordInv
    <2> QED
      BY <1>2, <1>3, <1>4, <1>5, <2>1 DEF DesktopStep
  <1> QED
    BY <1>1, <1>6, RecordUntouched DEF coordinatorVars, trackVars, groupVars, pickVars, pinVars

(* The commands that leave the record of windows and groups alone.         *)
LEMMA StyleCommandRecord ==
    ASSUME RecordInv, \/ UnpinsAll \/ TurnsOverlay \/ EmitBatch
                      \/ \E w \in Windows : TogglesPin(w)
                      \/ \E w \in Windows \cup {NoWindow} : Previews(w)
    PROVE  RecordInv'
  <1>1. UNCHANGED <<exists, shown>>
    BY DEF UnpinsAll, TurnsOverlay, EmitBatch, TogglesPin, Previews, Command, StyleCommand, desktopVars
  <1>2. UNCHANGED <<started, trackVars, groupVars, pickVars>>
    BY DEF UnpinsAll, TurnsOverlay, EmitBatch, TogglesPin, Previews, TogglePin, UnpinAll,
           SetPinPreview, SetOverlayEnabled, coordinatorVars
  <1>3. DOMAIN pins' \subseteq Tracked' \/ UNCHANGED pins
    BY DEF UnpinsAll, TurnsOverlay, EmitBatch, TogglesPin, Previews, TogglePin, UnpinAll,
           SetPinPreview, SetOverlayEnabled, coordinatorVars, pinVars, ApplyBorders, PrunePins, Restrict
  <1> QED
    BY <1>1, <1>2, <1>3, RecordUntouched DEF trackVars, groupVars, pickVars, RecordInv

LEMMA PickRecord ==
    ASSUME RecordInv, NEW listed, NEW off, NEW offApps,
           Picks(listed, off, offApps) \/ PicksBorders(listed, off, offApps)
    PROVE  RecordInv'
  <1>1. CASE Picks(listed, off, offApps)
    <2>1. /\ UNCHANGED <<exists, shown, started, windows, stableOrder, nextStableOrder, activeWindow,
                         manualGroupOf, manualGroupNames, nextManualGroup, pins>>
          /\ disabledWindowIds' \subseteq disabledWindowIds \cup Tracked
      BY <1>1 DEF Picks, ApplySelection, Command, desktopVars, trackVars, groupVars, pinVars, Switched
    <2> QED
      BY <2>1 DEF RecordInv, RecordConsistent, ActiveIsTracked, RanksAreDistinct, KeptAreTracked,
                  GroupsAreNamed, Tracked
  <1>2. CASE PicksBorders(listed, off, offApps)
    <2>1. UNCHANGED <<exists, shown, started, windows, stableOrder, nextStableOrder, activeWindow,
                      manualGroupOf, manualGroupNames, nextManualGroup, pins, disabledWindowIds>>
      BY <1>2 DEF PicksBorders, ApplyBorderSelection, Command, desktopVars, trackVars, groupVars,
                  pinVars
    <2> QED
      BY <2>1 DEF RecordInv, RecordConsistent, ActiveIsTracked, RanksAreDistinct, KeptAreTracked,
                  GroupsAreNamed, Tracked
  <1> QED
    BY <1>1, <1>2

LEMMA RecordStep == RecordInv /\ [Next]_vars => RecordInv'
  <1> SUFFICES ASSUME RecordInv, [Next]_vars PROVE RecordInv'
    OBVIOUS
  <1>1. CASE HandleEvent
    BY <1>1, EventRecord DEF HandleEvent, desktopVars
  <1>2. CASE Tick
    <2>1. started /\ UNCHANGED <<exists, shown>> /\ WatchdogTick
      BY <1>2 DEF Tick, Idle, desktopVars
    <2>2. CASE RefreshAll(pins)
      BY <2>1, <2>2, RefreshAllRecord
    <2>3. CASE UNCHANGED <<started, trackVars, groupVars, pickVars, pinVars>>
      BY <2>1, <2>3, RecordUntouched DEF trackVars, groupVars, pickVars, pinVars, RecordInv
    <2> QED
      BY <2>1, <2>2, <2>3 DEF WatchdogTick
  <1>3. ASSUME NEW s \in SettingsChoices, ChangesSettings(s) PROVE RecordInv'
    <2>1. started /\ UNCHANGED <<exists, shown>> /\ (RefreshAll(<<>>) \/ RefreshAll(pins))
      BY <1>3 DEF ChangesSettings, UpdateSettings, StyleCommand, Idle
    <2> QED
      BY <2>1, RefreshAllRecord
  <1>4. ASSUME NEW w \in Windows, NEW g \in 0 .. MaxGroup, JoinsGroup(w, g) PROVE RecordInv'
    BY <1>4, JoinRecord DEF JoinsGroup, Command, Idle, desktopVars
  <1>5. ASSUME NEW v \in Windows, NEW w \in Windows, DropsOn(v, w) PROVE RecordInv'
    BY <1>5, MergeRecord DEF DropsOn, Command, Idle, desktopVars
  <1>6. ASSUME NEW w \in Windows, LeavesGroup(w) \/ Disbands(w) PROVE RecordInv'
    BY <1>6, LeaveRecord DEF LeavesGroup, Disbands, Command, Idle, desktopVars
  <1>7. CASE DisbandsAll
    BY <1>7, LeaveRecord DEF DisbandsAll, Command, Idle, desktopVars
  <1>8. CASE Stops
    BY <1>8 DEF Stops, Stop, groupVars, RecordInv, RecordConsistent
  <1>9. CASE UNCHANGED vars
    BY <1>9, RecordUntouched
       DEF vars, desktopVars, coordinatorVars, trackVars, groupVars, pickVars, pinVars, RecordInv
  <1> QED
    BY <1>1, <1>2, <1>3, <1>4, <1>5, <1>6, <1>7, <1>8, <1>9, DesktopRecord, StyleCommandRecord,
       PickRecord DEF Next, UIStep

LEMMA RecordStart == Init => RecordInv
  <1> SUFFICES ASSUME Init PROVE RecordInv
    OBVIOUS
  <1>1. exists \subseteq Windows /\ shown \subseteq Windows
    BY WindowMarkAssumption DEF Init, DesktopInit
  <1> DEFINE n == Cardinality(Listed)
  <1>2. n \in Nat
    BY <1>1, DesktopAssumption, FS_Subset, FS_CardinalityType DEF Listed, OnScreen
  <1>3. nextStableOrder = n /\ stableOrder \in Bijection(Listed, 0 .. n - 1) /\ Tracked = Listed
    BY DEF Init, CoordinatorInit, Tracked
  <1> HIDE DEF n
  <1>4. /\ DOMAIN stableOrder = Tracked
        /\ \A w \in Tracked : stableOrder[w] \in Nat /\ stableOrder[w] < nextStableOrder
        /\ \A v, w \in Tracked : stableOrder[v] = stableOrder[w] => v = w
    BY <1>2, <1>3 DEF Bijection, Injection, IsInjective
  <1>5. ActiveIsTracked
    BY <1>3 DEF Init, CoordinatorInit, ActiveIsTracked
  <1>6. /\ DOMAIN pins = {} /\ DOMAIN manualGroupOf = {} /\ disabledWindowIds = {}
        /\ nextManualGroup = 1 /\ manualGroupNames = {}
    BY DEF Init, CoordinatorInit
  <1> QED
    BY <1>1, <1>2, <1>3, <1>4, <1>5, <1>6
       DEF RecordInv, RecordConsistent, RanksAreDistinct, KeptAreTracked, GroupsAreNamed

(* The record the Coordinator keeps never contradicts itself: active       *)
(* window, ranks, groups, switches and pins are all about tracked windows, *)
(* ranks are never given twice and no group in use loses its name.         *)
THEOREM RecordStaysConsistent == Spec => []RecordConsistent
  <1>1. RecordInv => RecordConsistent
    BY DEF RecordInv
  <1> QED
    BY <1>1, RecordStart, RecordStep, PTL DEF Spec
-----------------------------------------------------------------------------
(* The desktop keeps its types: a style or a place is only ever that of a  *)
(* living window.                                                          *)
LEMMA StyleTypes ==
    ASSUME DesktopTypeOK, NEW want, SetTopmost(want),
           UNCHANGED <<exists, shown, cloaked, placement, frame, ownTopmost, foreground>>
    PROVE  DesktopTypeOK'
  <1>1. topmost' \subseteq exists
    BY DEF SetTopmost, DesktopTypeOK
  <1> QED
    BY <1>1 DEF DesktopTypeOK

LEMMA WindowTypes ==
    ASSUME DesktopTypeOK, NEW w \in Windows,
           \/ OpenWindow(w) \/ CloseWindow(w) \/ HideWindow(w) \/ ShowWindow(w) \/ OwnTopmost(w)
           \/ \E p \in Placements : Place(w, p)
           \/ \E f \in Frames : MoveWindow(w, f)
           \/ Activate(w)
    PROVE  DesktopTypeOK'
  <1>1. CASE OpenWindow(w) \/ CloseWindow(w)
    BY <1>1 DEF OpenWindow, CloseWindow, DesktopTypeOK
  <1>2. CASE HideWindow(w) \/ ShowWindow(w) \/ OwnTopmost(w)
    BY <1>2 DEF HideWindow, ShowWindow, OwnTopmost, DesktopTypeOK
  <1>3. CASE \/ \E p \in Placements : Place(w, p)
             \/ \E f \in Frames : MoveWindow(w, f)
    BY <1>3 DEF Place, MoveWindow, DesktopTypeOK
  <1>4. CASE Activate(w)
    <2>1. placement' \in [Windows -> Placements]
      BY <1>4, DesktopAssumption DEF Activate, DesktopTypeOK
    <2> QED
      BY <1>4, <2>1 DEF Activate, DesktopTypeOK
  <1> QED
    BY <1>1, <1>2, <1>3, <1>4

LEMMA DesktopTypes == ASSUME DesktopTypeOK, DesktopStep PROVE DesktopTypeOK'
  <1>1. ASSUME NEW w \in Windows,
               \/ Opens(w) \/ Closes(w) \/ Hides(w) \/ Shows(w) \/ TurnsOwnTopmost(w)
               \/ \E p \in Placements : Places(w, p)
               \/ \E f \in Frames : Moves(w, f)
        PROVE  DesktopTypeOK'
    BY <1>1, WindowTypes DEF Opens, Closes, Hides, Shows, TurnsOwnTopmost, Places, Moves
  <1>2. ASSUME NEW leaving \in SUBSET Windows, SwitchesDesktop(leaving) PROVE DesktopTypeOK'
    BY <1>2 DEF SwitchesDesktop, SwitchDesktop, DesktopTypeOK
  <1>3. ASSUME NEW w \in Windows \cup {NoWindow}, Focuses(w) PROVE DesktopTypeOK'
    <2>1. placement' \in [Windows -> Placements]
      BY <1>3, DesktopAssumption DEF Focuses, Focus, DesktopTypeOK
    <2> QED
      BY <1>3, <2>1 DEF Focuses, Focus, OnScreen, DesktopTypeOK
  <1>4. ASSUME HooksDie \/ \E w \in Windows : Retitles(w) PROVE DesktopTypeOK'
    BY <1>4 DEF HooksDie, Retitles, desktopVars, DesktopTypeOK
  <1> QED
    BY <1>1, <1>2, <1>3, <1>4 DEF DesktopStep

-----------------------------------------------------------------------------
(* Healing.  After one quiet tick every window that does not agree is a    *)
(* suspect, and stays one unless a handler reads it again; the second tick *)
(* then finds one of them, and refreshes, or finds none.                   *)
WindowsTyped == \A w \in Tracked : windows[w] \in WindowInfo

HealInv ==
    /\ DesktopTypeOK
    /\ WindowsTyped
    /\ quietTicks \in 0 .. 2
    /\ started /\ quietTicks >= 1 => Mismatched \subseteq suspects
    /\ WatchdogBound

(* A frame is within the tolerance of itself.                              *)
LEMMA FrameAgrees ==
    ASSUME NEW f \in Frames
    PROVE  \A side \in {"left", "right"} :
             LET d == f[side] - f[side] IN ~(d > Tolerance \/ -d > Tolerance)
  BY DesktopAssumption, CoordinatorAssumption

(* RefreshAll leaves nothing that does not agree.                          *)
LEMMA RefreshAllAgrees ==
    ASSUME DesktopTypeOK', NEW STATE p, RefreshAll(p)
    PROVE  Mismatched' = {} /\ WindowsTyped'
  <1>1. windows' = [w \in Listed' |-> Info(w)']
    BY DEF RefreshAll
  <1>2. Tracked' = Listed'
    BY <1>1 DEF Tracked
  <1>3. Listed' \subseteq Windows
    BY DEF Listed, OnScreen, DesktopTypeOK
  <1>4. ASSUME NEW w \in Listed' PROVE ~Differs(w)' /\ windows'[w] \in WindowInfo
    <2>1. windows'[w] = [frame |-> frame'[w], placement |-> placement'[w]]
      BY <1>1 DEF Info
    <2>2. frame'[w] \in Frames /\ placement'[w] \in Placements
      BY <1>3 DEF DesktopTypeOK
    <2> QED
      BY <2>1, <2>2, FrameAgrees DEF Differs, WindowInfo
  <1> QED
    BY <1>2, <1>4 DEF Mismatched, WindowsTyped

(* A window that is read again agrees, and the others are as before.       *)
LEMMA RefreshOneAgrees ==
    ASSUME DesktopTypeOK, WindowsTyped, UNCHANGED <<desktopVars, settings>>,
           NEW w, RefreshOne(w)
    PROVE  Mismatched' \subseteq Mismatched /\ WindowsTyped'
  <1>1. CASE w \notin Listed
    BY <1>1, RefreshAllAgrees DEF RefreshOne, DesktopTypeOK, desktopVars
  <1>2. CASE w \in Listed
    <2>1. /\ Tracked' = Tracked \cup {w} /\ Listed' = Listed
          /\ windows'[w] = [frame |-> frame[w], placement |-> placement[w]]
          /\ \A v \in Tracked \ {w} : windows'[v] = windows[v]
      BY <1>2 DEF RefreshOne, With, Info, Tracked, Listed, OnScreen, desktopVars
    <2>2. frame[w] \in Frames /\ placement[w] \in Placements
      BY <1>2 DEF Listed, OnScreen, DesktopTypeOK
    <2>3. ~Differs(w)'
      BY <2>1, <2>2, FrameAgrees DEF Differs, desktopVars
    <2>4. \A v \in Tracked \ {w} : Differs(v)' <=> Differs(v)
      BY <2>1 DEF Differs, desktopVars
    <2> QED
      BY <1>2, <2>1, <2>2, <2>3, <2>4 DEF Mismatched, WindowsTyped, WindowInfo
  <1> QED
    BY <1>1, <1>2

LEMMA EventAgrees ==
    ASSUME DesktopTypeOK, WindowsTyped, UNCHANGED desktopVars,
           NEW w, NEW kind, OnWindowEvent(w, kind)
    PROVE  Mismatched' \subseteq Mismatched /\ WindowsTyped'
  <1>1. UNCHANGED settings
    BY DEF OnWindowEvent
  <1>2. ASSUME UNCHANGED windows PROVE Mismatched' = Mismatched /\ WindowsTyped'
    BY <1>1, <1>2 DEF Mismatched, Differs, Listed, OnScreen, Tracked, WindowsTyped, desktopVars
  <1>3. ASSUME RefreshAll(pins) PROVE Mismatched' = {} /\ WindowsTyped'
    BY <1>3, RefreshAllAgrees DEF DesktopTypeOK, desktopVars
  <1>4. CASE RefreshGeometry(w)
    <2>1. CASE /\ w \in Tracked /\ w \in shown
               /\ windows' = [windows EXCEPT ![w].frame = frame[w]]
      <3>1. /\ Tracked' = Tracked /\ Listed' = Listed
            /\ windows'[w] = [windows[w] EXCEPT !.frame = frame[w]]
            /\ \A v \in Tracked \ {w} : windows'[v] = windows[v]
        BY <1>1, <2>1 DEF Tracked, Listed, OnScreen, desktopVars
      <3>2. frame[w] \in Frames
        BY <2>1 DEF DesktopTypeOK
      <3>4. windows'[w] = [frame |-> frame[w], placement |-> windows[w].placement]
        BY <2>1, <3>1 DEF WindowsTyped, WindowInfo
      <3>3. \A v \in Tracked : Differs(v)' => Differs(v)
        BY <3>1, <3>2, <3>4, FrameAgrees DEF Differs, desktopVars
      <3> QED
        BY <2>1, <3>1, <3>2, <3>3, <3>4 DEF Mismatched, WindowsTyped, WindowInfo
    <2> QED
      BY <1>1, <1>2, <1>3, <1>4, <2>1, RefreshOneAgrees DEF RefreshGeometry, trackVars
  <1>5. CASE ActiveChanged(w)
    BY <1>2, <1>5 DEF ActiveChanged, trackVars
  <1> QED
    BY <1>1, <1>3, <1>4, <1>5, RefreshOneAgrees DEF OnWindowEvent

LEMMA TickHeals ==
    ASSUME HealInv, Tick
    PROVE  HealInv'
  <1>1. DesktopTypeOK' /\ UNCHANGED <<started, settings, desktopVars>>
    BY DEF Tick, WatchdogTick, HealInv, DesktopTypeOK, desktopVars
  <1>2. quietTicks' = (IF quietTicks < 2 THEN quietTicks + 1 ELSE 2) /\ quietTicks' \in 1 .. 2
    BY DEF Tick, HealInv
  <1>3. CASE RefreshAll(pins)
    <2>1. Mismatched' = {} /\ WindowsTyped'
      BY <1>1, <1>3, RefreshAllAgrees
    <2> QED
      BY <1>1, <1>2, <2>1 DEF HealInv, WatchdogBound
  <1>4. CASE ~Confirmed /\ suspects' = Mismatched /\ UNCHANGED windows
    <2>1. Mismatched' = Mismatched /\ WindowsTyped'
      BY <1>1, <1>4 DEF Mismatched, Differs, Listed, OnScreen, Tracked, WindowsTyped, HealInv,
                        desktopVars
    <2>2. quietTicks' = 2 /\ started => Mismatched = {}
      BY <1>2, <1>4 DEF Confirmed, HealInv
    <2> QED
      BY <1>1, <1>2, <1>4, <2>1, <2>2 DEF HealInv, WatchdogBound
  <1> QED
    BY <1>3, <1>4 DEF Tick, WatchdogTick, trackVars

(* A step that makes nothing disagree, and leaves the suspects alone.      *)
LEMMA Heals ==
    ASSUME HealInv, DesktopTypeOK', WindowsTyped', UNCHANGED <<started, quietTicks, suspects>>,
           Mismatched' \subseteq Mismatched
    PROVE  HealInv'
  BY DEF HealInv, WatchdogBound

(* A step of the desktop starts the count anew.                            *)
LEMMA Unhealed ==
    ASSUME DesktopTypeOK', WindowsTyped', quietTicks' = 0
    PROVE  HealInv'
  BY DEF HealInv, WatchdogBound

LEMMA HealStep == HealInv /\ settings \in Settings /\ [Next]_vars => HealInv'
  <1> SUFFICES ASSUME HealInv, settings \in Settings, [Next]_vars PROVE HealInv'
    OBVIOUS
  <1>0. ASSUME UNCHANGED windows PROVE WindowsTyped'
    BY <1>0 DEF HealInv, WindowsTyped, Tracked
  <1>1. CASE DesktopStep
    <2>1. quietTicks' = 0 /\ UNCHANGED coordinatorVars
      BY <1>1 DEF DesktopStep, Opens, Closes, Hides, Shows, Retitles, TurnsOwnTopmost, Places,
                  Moves, SwitchesDesktop, Focuses, HooksDie, Changed
    <2> QED
      BY <1>0, <1>1, <2>1, DesktopTypes, Unhealed DEF HealInv, coordinatorVars, trackVars
  <1>2. CASE HandleEvent
    <2>1. UNCHANGED <<desktopVars, started, suspects, quietTicks>>
      BY <1>2 DEF HandleEvent, OnWindowEvent
    <2>2. DesktopTypeOK'
      BY <2>1 DEF HealInv, DesktopTypeOK, desktopVars
    <2> QED
      BY <1>2, <2>1, <2>2, EventAgrees, Heals DEF HandleEvent, HealInv
  <1>3. ASSUME NEW s \in SettingsChoices, ChangesSettings(s) PROVE HealInv'
    <2>1. /\ UNCHANGED <<exists, shown, cloaked, placement, frame, ownTopmost, foreground,
                         started, suspects, quietTicks>>
          /\ SetTopmost(pins) \/ UNCHANGED topmost
          /\ RefreshAll(<<>>) \/ RefreshAll(pins)
      BY <1>3 DEF ChangesSettings, StyleCommand, UpdateSettings
    <2>2. DesktopTypeOK'
      BY <2>1, StyleTypes DEF HealInv, DesktopTypeOK
    <2>3. Mismatched' = {} /\ WindowsTyped'
      BY <2>1, <2>2, RefreshAllAgrees
    <2> QED
      BY <2>1, <2>2, <2>3, Heals
  <1>4. ASSUME DesktopTypeOK', UNCHANGED <<started, quietTicks, suspects, windows, shown, cloaked,
                                           placement, frame, settings>>
        PROVE  HealInv'
    <2>1. Mismatched' = Mismatched
      BY <1>4 DEF Mismatched, Differs, Listed, OnScreen, Tracked
    <2> QED
      BY <1>0, <1>4, <2>1, Heals
  <1>5. CASE UnpinsAll \/ \E w \in Windows : TogglesPin(w)
    <2>1. /\ UNCHANGED <<exists, shown, cloaked, placement, frame, ownTopmost, foreground,
                         started, suspects, quietTicks, windows, settings>>
          /\ \E want : SetTopmost(want)
      BY <1>5 DEF UnpinsAll, TogglesPin, StyleCommand, UnpinAll, TogglePin, trackVars
    <2> QED
      BY <1>4, <2>1, StyleTypes DEF HealInv
  <1>6. CASE Switches
    <2>1. /\ quietTicks' = 0 /\ UNCHANGED windows
          /\ \E w : w \in exists /\ Activate(w)
      BY <1>6 DEF Switches, Activate, coordinatorVars, trackVars
    <2>2. exists \subseteq Windows
      BY DEF HealInv, DesktopTypeOK
    <2> QED
      BY <1>0, <2>1, <2>2, WindowTypes, Unhealed DEF HealInv
  <1>7. CASE Stops
    <2>1. DesktopTypeOK'
      BY <1>7, StyleTypes DEF Stops, Stop, HealInv
    <2> QED
      BY <1>7, <2>1, Unhealed DEF Stops, Stop, WindowsTyped, Tracked
  <1>8. ASSUME UNCHANGED desktopVars, UNCHANGED <<started, quietTicks, suspects, windows>>,
               settings'.excludedClasses = settings.excludedClasses
        PROVE  HealInv'
    <2>1. DesktopTypeOK'
      BY <1>8 DEF HealInv, DesktopTypeOK, desktopVars
    <2>2. Mismatched' = Mismatched
      BY <1>8 DEF Mismatched, Differs, Listed, OnScreen, Tracked, desktopVars
    <2> QED
      BY <1>0, <1>8, <2>1, <2>2, Heals
  <1>9. CASE TurnsOverlay \/ DisbandsAll \/ EmitBatch
    <2>1. settings'.excludedClasses = settings.excludedClasses
      BY <1>9 DEF TurnsOverlay, SetOverlayEnabled, DisbandsAll, DisbandAllManualGroups,
                  EmitBatch, coordinatorVars, groupOnly, Settings
    <2> QED
      BY <1>8, <1>9, <2>1 DEF TurnsOverlay, SetOverlayEnabled, DisbandsAll,
           DisbandAllManualGroups, EmitBatch, Command, coordinatorVars, historyVars,
           groupOnly, trackVars
  <1>10. ASSUME NEW w, LeavesGroup(w) \/ Disbands(w) \/ Previews(w)
                       \/ (\E g : JoinsGroup(w, g)) \/ (\E v : DropsOn(v, w))
         PROVE  HealInv'
    <2>1. ASSUME NEW v, NEW g, JoinManualGroup(v, g)
          PROVE  UNCHANGED <<started, suspects, windows, settings>>
      BY <2>1 DEF JoinManualGroup, groupOnly, trackVars
    <2>2. ASSUME NEW v, MergeIntoGroupOf(v, w)
          PROVE  UNCHANGED <<started, suspects, windows, settings>>
      BY <2>1, <2>2 DEF MergeIntoGroupOf, groupOnly, trackVars
    <2> QED
      BY <1>8, <1>10, <2>1, <2>2
         DEF LeavesGroup, Disbands, Previews, JoinsGroup, DropsOn, LeaveManualGroup,
             DisbandManualGroup, SetPinPreview, Command, groupOnly, trackVars
  <1>11. ASSUME NEW listed, NEW off, NEW offApps,
                Picks(listed, off, offApps) \/ PicksBorders(listed, off, offApps)
         PROVE  HealInv'
    <2>1. settings'.excludedClasses = settings.excludedClasses
      BY <1>11 DEF Picks, PicksBorders, ApplySelection, ApplyBorderSelection, Settings
    <2> QED
      BY <1>8, <1>11, <2>1 DEF Picks, PicksBorders, ApplySelection, ApplyBorderSelection,
                               Command, trackVars
  <1>12. CASE UNCHANGED vars
    BY <1>8, <1>12 DEF vars, coordinatorVars, historyVars, trackVars
  <1> QED
    BY <1>1, <1>2, <1>3, <1>5, <1>6, <1>7, <1>9, <1>10, <1>11, <1>12, TickHeals DEF Next, UIStep

LEMMA HealStart == Init => HealInv
  <1> SUFFICES ASSUME Init PROVE HealInv
    OBVIOUS
  <1>1. DesktopTypeOK
    BY WindowMarkAssumption DEF Init, DesktopInit, DesktopTypeOK
  <1>2. WindowsTyped
    <2>1. windows = [w \in Listed |-> Info(w)] /\ Listed \subseteq Windows
      BY <1>1 DEF Init, CoordinatorInit, Listed, OnScreen, DesktopTypeOK
    <2> QED
      BY <1>1, <2>1 DEF WindowsTyped, Tracked, Info, WindowInfo, DesktopTypeOK
  <1>3. quietTicks = 0
    BY DEF Init
  <1> QED
    BY <1>1, <1>2, <1>3 DEF HealInv, WatchdogBound

(* Two ticks of the watchdog without a change of the desktop in between    *)
(* leave the record in agreement with it, whatever events were lost or     *)
(* handled meanwhile, for any number of windows.                           *)
THEOREM RecordHeals == Spec => []WatchdogBound
  <1>1. HealInv => WatchdogBound
    BY DEF HealInv
  <1>2. PinInv => settings \in Settings
    BY DEF PinInv
  <1> QED
    BY <1>1, <1>2, PinStart, PinStep, HealStart, HealStep, PTL DEF Spec

-----------------------------------------------------------------------------
(* What is shown.  The strips are those BuildModels makes of the record:   *)
(* every handler that changes what it reads gives them to the backend.     *)
StripsCurrent == /\ started => strips = DesiredStrips
                 /\ ~started => strips = {}

(* Strips and borders are made from these variables.                       *)
LEMMA StripsFrom ==
    ASSUME UNCHANGED <<settings, windows, stableOrder, activeWindow, manualGroupOf,
                       disabledWindowIds>>
    PROVE  DesiredStrips' = DesiredStrips
  <1>1. \A w : GroupKeyOf(w)' = GroupKeyOf(w)
    BY DEF GroupKeyOf, GroupMembers
  <1>2. Bookmarked' = Bookmarked
    BY <1>1 DEF Bookmarked, IsAppEnabled, Tracked
  <1>3. \A w : StripMembers(w)' = StripMembers(w)
    BY <1>1, <1>2 DEF StripMembers
  <1>4. \A w : InStableOrder(StripMembers(w))' = InStableOrder(StripMembers(w))
    BY <1>3 DEF InStableOrder
  <1> QED
    BY <1>2, <1>3, <1>4 DEF DesiredStrips, BuildModels

LEMMA BordersFrom ==
    ASSUME UNCHANGED <<settings, windows, activeWindow, pinPreview, borderDisabledIds>>,
           DOMAIN pins' = DOMAIN pins
    PROVE  BuildBorderModels' = BuildBorderModels
  BY DEF BuildBorderModels, Outlined, Tracked

(* A step that tells the overlay backend, or changes nothing it shows.     *)
LEMMA StripsTold ==
    ASSUME StripsCurrent, UNCHANGED started,
           \/ started /\ ApplyModels
           \/ UNCHANGED <<settings, windows, stableOrder, activeWindow, manualGroupOf,
                          disabledWindowIds, strips>>
    PROVE  StripsCurrent'
  BY StripsFrom DEF StripsCurrent, ApplyModels

(* A window event or a tick tells both backends, or changes nothing.       *)
LEMMA HandlersTell ==
    ASSUME \/ \E w, kind : OnWindowEvent(w, kind)
           \/ WatchdogTick
    PROVE  /\ UNCHANGED <<started, settings>>
           /\ \/ ApplyModels /\ ApplyBorders(pins)
              \/ UNCHANGED <<trackVars, groupVars, pickVars, pinVars, strips, borders>>
  <1>1. ASSUME NEW w, RefreshOne(w) PROVE ApplyModels /\ ApplyBorders(pins)
    BY <1>1 DEF RefreshOne, RefreshAll
  <1>2. ASSUME NEW w, RefreshGeometry(w) \/ ActiveChanged(w)
        PROVE  \/ ApplyModels /\ ApplyBorders(pins)
               \/ UNCHANGED <<trackVars, groupVars, pickVars, pinVars, strips, borders>>
    BY <1>1, <1>2 DEF RefreshGeometry, RefreshAll, ActiveChanged
  <1> QED
    BY <1>1, <1>2 DEF OnWindowEvent, WatchdogTick, RefreshAll

LEMMA StripsStep == StripsCurrent /\ [Next]_vars => StripsCurrent'
  <1> SUFFICES ASSUME StripsCurrent, [Next]_vars PROVE StripsCurrent'
    OBVIOUS
  <1>1. CASE UNCHANGED coordinatorVars
    BY <1>1, StripsTold DEF coordinatorVars, trackVars, groupVars, pickVars
  <1>2. ASSUME DesktopStep \/ EmitBatch \/ Switches \/ UNCHANGED vars PROVE UNCHANGED coordinatorVars
    BY <1>2 DEF DesktopStep, Opens, Closes, Hides, Shows, Retitles, TurnsOwnTopmost, Places,
                Moves, SwitchesDesktop, Focuses, HooksDie, Changed, EmitBatch, Switches, vars
  <1>3. CASE HandleEvent \/ Tick
    <2>1. started /\ ((\E w, kind : OnWindowEvent(w, kind)) \/ WatchdogTick)
      BY <1>3 DEF HandleEvent, Tick, Idle
    <2> QED
      BY <2>1, HandlersTell, StripsTold DEF trackVars, groupVars, pickVars
  <1>4. CASE \E s \in SettingsChoices : ChangesSettings(s)
    BY <1>4, StripsTold DEF ChangesSettings, UpdateSettings, RefreshAll, StyleCommand, Idle
  <1>5. CASE UnpinsAll \/ (\E w \in Windows : TogglesPin(w))
             \/ (\E w \in Windows \cup {NoWindow} : Previews(w))
    BY <1>5, StripsTold DEF UnpinsAll, TogglesPin, Previews, UnpinAll, TogglePin, SetPinPreview,
                            trackVars, groupVars, pickVars
  <1>6. CASE TurnsOverlay \/ DisbandsAll
             \/ \E w \in Windows : LeavesGroup(w) \/ Disbands(w)
    BY <1>6, StripsTold DEF TurnsOverlay, DisbandsAll, LeavesGroup, Disbands, SetOverlayEnabled,
         DisbandAllManualGroups, LeaveManualGroup, DisbandManualGroup, groupOnly, Command, Idle
  <1>7. CASE \/ \E w \in Windows, g \in 0 .. MaxGroup : JoinsGroup(w, g)
             \/ \E v, w \in Windows : DropsOn(v, w)
    <2>1. ASSUME NEW w, NEW g, JoinManualGroup(w, g) PROVE UNCHANGED started /\ ApplyModels
      BY <2>1 DEF JoinManualGroup, groupOnly
    <2> QED
      BY <1>7, <2>1, StripsTold DEF JoinsGroup, DropsOn, MergeIntoGroupOf, groupOnly, Command, Idle
  <1>8. CASE \E listed, off, offApps :
                Picks(listed, off, offApps) \/ PicksBorders(listed, off, offApps)
    BY <1>8, StripsTold DEF Picks, PicksBorders, ApplySelection, ApplyBorderSelection, Command, Idle
  <1>9. CASE Stops
    BY <1>9 DEF Stops, Stop, StripsCurrent
  <1> QED
    BY <1>1, <1>2, <1>3, <1>4, <1>5, <1>6, <1>7, <1>8, <1>9 DEF Next, UIStep

LEMMA StripsStart == Init => StripsCurrent
  BY DEF Init, CoordinatorInit, StripsCurrent

(* What a strip shows and what the number keys reach is the same list, in  *)
(* the same order, as long as no manual group has a single member.         *)
LEMMA StripIsJumpGroup ==
    ASSUME \A v \in DOMAIN manualGroupOf : Cardinality(GroupMembers(manualGroupOf[v])) >= 2,
           NEW w \in Bookmarked
    PROVE  StripMembers(w) = {v \in Tracked : GroupKeyOf(v) = GroupKeyOf(w) /\ v \notin disabledWindowIds}
  <1>1. ASSUME NEW v \in Tracked, v \notin disabledWindowIds, GroupKeyOf(v) = GroupKeyOf(w)
        PROVE  v \in Bookmarked
    <2>1. CASE w \in DOMAIN manualGroupOf
      <3>1. GroupKeyOf(w) = <<"manual", manualGroupOf[w]>>
        BY <2>1 DEF GroupKeyOf
      <3>2. v \in DOMAIN manualGroupOf
        BY <1>1, <3>1 DEF GroupKeyOf
      <3> QED
        BY <1>1, <3>2 DEF Bookmarked
    <2>2. CASE w \notin DOMAIN manualGroupOf
      <3>1. IsAppEnabled(GroupKeyOf(w))
        BY <2>2 DEF Bookmarked
      <3> QED
        BY <1>1, <3>1 DEF Bookmarked
    <2> QED
      BY <2>1, <2>2
  <1> QED
    BY <1>1 DEF StripMembers, Bookmarked

(* The number keys go where the strip of the active window says, after any *)
(* sequence of events, group commands and selections.                      *)
THEOREM KeysFollowStrips == Spec => []JumpMatchesFullGroups
  <1>1. StripsCurrent => JumpMatchesFullGroups
    <2> SUFFICES ASSUME StripsCurrent,
                        \A w \in DOMAIN manualGroupOf : Cardinality(GroupMembers(manualGroupOf[w])) >= 2,
                        NEW s \in strips, s.host = activeWindow
                 PROVE  s.items = ActiveGroupMembers
      BY DEF JumpMatchesFullGroups
    <2>1. s \in BuildModels
      BY DEF StripsCurrent, DesiredStrips
    <2>2. activeWindow \in Bookmarked /\ s.items = InStableOrder(StripMembers(activeWindow))
      BY <2>1 DEF BuildModels
    <2>3. StripMembers(activeWindow) = JumpGroup
      BY <2>2, StripIsJumpGroup DEF JumpGroup
    <2>4. ActiveGroupMembers = InStableOrder(JumpGroup)
      BY <2>2 DEF Bookmarked, ActiveGroupMembers
    <2> QED
      BY <2>2, <2>3, <2>4
  <1> QED
    BY <1>1, StripsStart, StripsStep, PTL DEF Spec

(* No handler forgets the borders: only a choice in the border picker may  *)
(* leave them as they were.                                                *)
LEMMA BordersStep ==
    ASSUME PinInv, [Next]_vars, BordersAreCurrent, BorderPicks' = BorderPicks
    PROVE  BordersAreCurrent'
  <1>1. CASE ApplyBorders(pins) \/ ApplyBorders(<<>>)
             \/ \E w : ApplyBorders(Removed(w)) \/ ApplyBorders(Added(w))
    BY <1>1 DEF ApplyBorders, BordersAreCurrent
  <1>2. ASSUME UNCHANGED <<started, settings, windows, activeWindow, pinPreview, borderDisabledIds,
                           pins, borders>>
        PROVE  BordersAreCurrent'
    BY <1>2, BordersFrom DEF BordersAreCurrent
  <1>3. CASE DesktopStep \/ EmitBatch \/ Switches \/ UNCHANGED vars
    <2>1. UNCHANGED coordinatorVars
      BY <1>3 DEF DesktopStep, Opens, Closes, Hides, Shows, Retitles, TurnsOwnTopmost, Places,
                  Moves, SwitchesDesktop, Focuses, HooksDie, Changed, EmitBatch, Switches, vars
    <2> QED
      BY <1>2, <2>1 DEF coordinatorVars, trackVars, pinVars, pickVars
  <1>4. CASE HandleEvent \/ Tick
    <2>1. (\E w, kind : OnWindowEvent(w, kind)) \/ WatchdogTick
      BY <1>4 DEF HandleEvent, Tick
    <2> QED
      BY <1>1, <1>2, <2>1, HandlersTell DEF trackVars, pinVars, pickVars
  <1>5. CASE (\E s \in SettingsChoices : ChangesSettings(s)) \/ UnpinsAll
             \/ (\E w \in Windows : TogglesPin(w))
             \/ (\E w \in Windows \cup {NoWindow} : Previews(w))
    BY <1>1, <1>5 DEF ChangesSettings, UpdateSettings, RefreshAll, UnpinsAll, UnpinAll,
                      TogglesPin, TogglePin, Previews, SetPinPreview
  <1>6. CASE DisbandsAll \/ \E w \in Windows : LeavesGroup(w) \/ Disbands(w)
    BY <1>2, <1>6 DEF DisbandsAll, LeavesGroup, Disbands, DisbandAllManualGroups,
         LeaveManualGroup, DisbandManualGroup, groupOnly, trackVars, pinVars, pickVars
  <1>7. CASE \/ \E w \in Windows, g \in 0 .. MaxGroup : JoinsGroup(w, g)
             \/ \E v, w \in Windows : DropsOn(v, w)
    <2>1. ASSUME NEW w, NEW g, JoinManualGroup(w, g) PROVE UNCHANGED <<groupOnly, pickVars>>
      BY <2>1 DEF JoinManualGroup
    <2>2. UNCHANGED <<groupOnly, pickVars>>
      BY <1>7, <2>1 DEF JoinsGroup, DropsOn, MergeIntoGroupOf
    <2> QED
      BY <1>2, <2>2 DEF groupOnly, trackVars, pinVars, pickVars
  <1>8. ASSUME UNCHANGED <<started, windows, activeWindow, pinPreview, borderDisabledIds, pins, borders>>,
               settings'.borderEnabled = settings.borderEnabled,
               settings'.borderExcludedApps = settings.borderExcludedApps
        PROVE  BordersAreCurrent'
    <2>1. BuildBorderModels' = BuildBorderModels
      BY <1>8 DEF BuildBorderModels, Outlined, Tracked
    <2> QED
      BY <1>8, <2>1 DEF BordersAreCurrent
  <1>9. CASE TurnsOverlay
    <2>1. /\ settings'.borderEnabled = settings.borderEnabled
          /\ settings'.borderExcludedApps = settings.borderExcludedApps
      BY <1>9 DEF TurnsOverlay, SetOverlayEnabled, PinInv, Settings
    <2> QED
      BY <1>8, <1>9, <2>1 DEF TurnsOverlay, SetOverlayEnabled, trackVars, pinVars, pickVars
  <1>10. CASE \E listed, off, offApps :
                Picks(listed, off, offApps) \/ PicksBorders(listed, off, offApps)
    <2>1. /\ settings'.borderEnabled = settings.borderEnabled
          /\ UNCHANGED <<started, trackVars, pinVars, borders>>
      BY <1>10 DEF Picks, PicksBorders, ApplySelection, ApplyBorderSelection, PinInv, Settings
    <2> QED
      BY <1>8, <2>1 DEF BorderPicks, trackVars, pinVars
  <1>11. CASE Stops
    BY <1>11 DEF Stops, Stop, BordersAreCurrent
  <1> QED
    BY <1>3, <1>4, <1>5, <1>6, <1>7, <1>9, <1>10, <1>11 DEF Next, UIStep

(* Pins, pin previews, settings, window events and ticks leave the borders *)
(* what BuildBorderModels makes of the record.                             *)
THEOREM BordersFollow == Spec => BordersStayCurrent
  <1>1. PinInv /\ [Next]_vars
           => [BordersAreCurrent /\ BorderPicks' = BorderPicks => BordersAreCurrent']_vars
    BY BordersStep
  <1> QED
    BY <1>1, PinStart, PinStep, PTL DEF Spec, BordersStayCurrent

(* In a program whose border picker is not used, both backends always show *)
(* the record.                                                             *)
THEOREM BackendsShowRecord ==
    ASSUME "pickborder" \notin Commands
    PROVE  Spec => []ShownIsCurrent
  <1> DEFINE Shown == StripsCurrent /\ BordersAreCurrent
  <1>1. Init => Shown
    BY StripsStart DEF Init, CoordinatorInit, BordersAreCurrent
  <1>2. Shown /\ PinInv /\ [Next]_vars => Shown'
    <2> SUFFICES ASSUME Shown, PinInv, [Next]_vars PROVE BordersAreCurrent'
      BY StripsStep
    <2>1. CASE BorderPicks' = BorderPicks
      BY <2>1, BordersStep
    <2>2. CASE BorderPicks' # BorderPicks
      <3>1. PICK s \in SettingsChoices : ChangesSettings(s)
        <4>1. ASSUME UNCHANGED <<settings, borderDisabledIds>> PROVE FALSE
          BY <2>2, <4>1 DEF BorderPicks
        <4>2. ~(DesktopStep \/ EmitBatch \/ Switches \/ UNCHANGED vars)
          <5>1. ASSUME DesktopStep \/ EmitBatch \/ Switches \/ UNCHANGED vars
                PROVE  UNCHANGED coordinatorVars
            BY <5>1 DEF DesktopStep, Opens, Closes, Hides, Shows, Retitles, TurnsOwnTopmost,
                 Places, Moves, SwitchesDesktop, Focuses, HooksDie, Changed, EmitBatch, Switches, vars
          <5> QED
            BY <4>1, <5>1 DEF coordinatorVars, pickVars
        <4>3. ~(HandleEvent \/ Tick)
          <5>1. ASSUME NEW w, RefreshOne(w) \/ RefreshGeometry(w) \/ ActiveChanged(w) \/ RefreshAll(pins)
                PROVE  UNCHANGED borderDisabledIds
            BY <5>1 DEF RefreshOne, RefreshGeometry, ActiveChanged, RefreshAll,
                        PruneTransientState, pickVars
          <5> QED
            BY <4>1, <5>1 DEF HandleEvent, Tick, OnWindowEvent, WatchdogTick, pickVars
        <4>4. ~(UnpinsAll \/ (\E w \in Windows : TogglesPin(w)) \/ Stops
                \/ (\E w \in Windows \cup {NoWindow} : Previews(w)))
          BY <4>1 DEF UnpinsAll, UnpinAll, TogglesPin, TogglePin, Previews, SetPinPreview,
                      Stops, Stop, pickVars
        <4>5. ~(DisbandsAll \/ \E w \in Windows : LeavesGroup(w) \/ Disbands(w))
          BY <4>1 DEF DisbandsAll, LeavesGroup, Disbands, DisbandAllManualGroups,
               LeaveManualGroup, DisbandManualGroup, groupOnly, pickVars
        <4>6. ~(\/ \E w \in Windows, g \in 0 .. MaxGroup : JoinsGroup(w, g)
                \/ \E v, w \in Windows : DropsOn(v, w))
          <5>1. ASSUME NEW w, NEW g, JoinManualGroup(w, g) PROVE UNCHANGED <<groupOnly, pickVars>>
            BY <5>1 DEF JoinManualGroup
          <5> QED
            BY <4>1, <5>1 DEF JoinsGroup, DropsOn, MergeIntoGroupOf, groupOnly, pickVars
        <4>7. ASSUME TurnsOverlay \/ \E listed, off, offApps :
                       Picks(listed, off, offApps) \/ PicksBorders(listed, off, offApps)
              PROVE  FALSE
          <5>1. ~\E listed, off, offApps : PicksBorders(listed, off, offApps)
            BY DEF PicksBorders, Command
          <5>2. /\ settings'.borderExcludedApps = settings.borderExcludedApps
                /\ UNCHANGED borderDisabledIds
            BY <4>7, <5>1 DEF TurnsOverlay, SetOverlayEnabled, Picks, ApplySelection, pickVars,
                              PinInv, Settings
          <5> QED
            BY <2>2, <5>2 DEF BorderPicks
        <4> QED
          BY <4>2, <4>3, <4>4, <4>5, <4>6, <4>7 DEF Next, UIStep
      <3> QED
        BY <3>1 DEF ChangesSettings, UpdateSettings, RefreshAll, ApplyBorders, BordersAreCurrent
    <2> QED
      BY <2>1, <2>2
  <1>3. Shown => ShownIsCurrent
    BY DEF StripsCurrent, ShownIsCurrent
  <1> QED
    BY <1>1, <1>2, <1>3, PinStart, PinStep, PTL DEF Spec

-----------------------------------------------------------------------------
(* Types.  What is left of TypeOK besides the invariants above.            *)
ChannelTyped ==
    /\ owed \subseteq Channel!Events /\ batch \subseteq Channel!Events
    /\ turn \in Windows \cup {NoWindow}

PinsTyped(p) == DOMAIN p \subseteq Windows /\ \A w \in DOMAIN p : p[w] \in BOOLEAN

RecordTyped ==
    /\ started \in BOOLEAN
    /\ Tracked \subseteq Windows /\ DOMAIN stableOrder \subseteq Windows
    /\ activeWindow \in Windows \cup {NoWindow}
    /\ previousActive \in Windows \cup {NoWindow}
    /\ suspects \subseteq Windows
    /\ PinsTyped(pins)
    /\ backendPins \subseteq Windows /\ pinPreview \in Windows \cup {NoWindow}
    /\ DOMAIN manualGroupOf \subseteq Windows
    /\ disabledWindowIds \subseteq Windows /\ borderDisabledIds \subseteq Windows

HistoryTyped ==
    /\ hooked \in BOOLEAN /\ changes \in Nat /\ stranded \subseteq Windows
    /\ lastForeground \in Windows \cup {NoWindow}
    /\ foregroundBefore \in Windows \cup {NoWindow}

LEMMA RaiseTyped ==
    ASSUME ChannelTyped, NEW w \in Windows, NEW K \in SUBSET Channel!Kinds, Raise(w, K)
    PROVE  ChannelTyped'
  BY DEF Raise, Channel!Accept, Channel!Events, ChannelTyped, channelVars

LEMMA ChannelStep ==
    ASSUME ChannelTyped, DesktopTypeOK, [Next]_vars
    PROVE  ChannelTyped'
  <1>1. CASE UNCHANGED channelVars
    BY <1>1 DEF channelVars, ChannelTyped
  <1>2. ASSUME NEW w \in Windows,
               \/ Opens(w) \/ Closes(w) \/ Hides(w) \/ Shows(w) \/ Retitles(w)
               \/ \E f \in Frames : Moves(w, f)
        PROVE  ChannelTyped'
    BY <1>1, <1>2, RaiseTyped DEF Opens, Closes, Hides, Shows, Retitles, Moves, Channel!Kinds
  <1>3. ASSUME NEW w \in Windows, NEW p \in Placements, Places(w, p) PROVE ChannelTyped'
    BY <1>3, RaiseTyped DEF Places, Channel!Kinds
  <1>4. ASSUME NEW w \in Windows \cup {NoWindow}, Focuses(w) PROVE ChannelTyped'
    BY <1>1, <1>4, RaiseTyped DEF Focuses, Channel!Kinds
  <1>5. ASSUME NEW w \in Windows, TurnsOwnTopmost(w) PROVE ChannelTyped'
    BY <1>1, <1>5 DEF TurnsOwnTopmost
  <1>6. CASE HooksDie \/ \E leaving \in SUBSET Windows : SwitchesDesktop(leaving)
    BY <1>1, <1>6 DEF HooksDie, SwitchesDesktop
  <1>7. CASE EmitBatch
    BY <1>7 DEF EmitBatch, Channel!Emit, ChannelTyped
  <1>8. CASE HandleEvent
    <2>1. PICK e \in batch : Channel!Deliver(e)
      BY <1>8 DEF HandleEvent
    <2>2. e[1] \in Windows
      BY DEF ChannelTyped, Channel!Events
    <2> QED
      BY <2>1, <2>2 DEF Channel!Deliver, ChannelTyped
  <1>9. CASE Switches
    <2>1. PICK w : w \in exists /\ Activate(w)
      BY <1>9 DEF Switches, Activate
    <2>2. w \in Windows
      BY <2>1 DEF DesktopTypeOK
    <2>3. \E K \in SUBSET Channel!Kinds : Raise(w, K)
      BY <2>1 DEF Activate, Channel!Kinds
    <2> QED
      BY <2>2, <2>3, RaiseTyped
  <1>10. CASE Stops
    BY <1>10 DEF Stops, ChannelTyped
  <1>11. CASE \/ Tick \/ UnpinsAll \/ DisbandsAll \/ TurnsOverlay
              \/ \E w : TogglesPin(w) \/ LeavesGroup(w) \/ Disbands(w) \/ Previews(w)
              \/ \E s : ChangesSettings(s)
              \/ \E w, g : JoinsGroup(w, g) \/ DropsOn(w, g)
              \/ \E listed, off, offApps :
                    Picks(listed, off, offApps) \/ PicksBorders(listed, off, offApps)
    BY <1>1, <1>11 DEF Tick, UnpinsAll, DisbandsAll, TurnsOverlay, TogglesPin, LeavesGroup,
         Disbands, Previews, ChangesSettings, JoinsGroup, DropsOn, Picks, PicksBorders,
         Command, StyleCommand
  <1>12. CASE UNCHANGED vars
    BY <1>1, <1>12 DEF vars
  <1> QED
    BY <1>2, <1>3, <1>4, <1>5, <1>6, <1>7, <1>8, <1>9, <1>10, <1>11, <1>12
       DEF Next, DesktopStep, UIStep

LEMMA RefreshAllTyped ==
    ASSUME RecordTyped, DesktopTypeOK', UNCHANGED started, NEW STATE p, PinsTyped(p), RefreshAll(p),
           suspects' \subseteq Windows
    PROVE  RecordTyped'
  <1>1. Listed' \subseteq Windows
    BY DEF Listed, OnScreen, DesktopTypeOK
  <1>2. Tracked' = Listed' /\ DOMAIN stableOrder' = Listed'
    BY DEF RefreshAll, Tracked, RankNew
  <1>3. activeWindow' \in Windows \cup {NoWindow}
    BY <1>1 DEF RefreshAll
  <1>4. PinsTyped(pins)' /\ backendPins' \subseteq Windows
    BY DEF RefreshAll, ApplyPins, ApplyBorders, PrunePins, Restrict, PinsTyped
  <1>5. /\ DOMAIN manualGroupOf' \subseteq Windows /\ disabledWindowIds' \subseteq Windows
        /\ UNCHANGED <<borderDisabledIds, previousActive, pinPreview>>
    BY DEF RefreshAll, PruneTransientState, Restrict, RecordTyped
  <1> QED
    BY <1>1, <1>2, <1>3, <1>4, <1>5 DEF RecordTyped

(* The handlers besides RefreshAll: what they may do to the record.        *)
LEMMA PrunedTyped ==
    ASSUME NEW STATE p, PinsTyped(p), ApplyBorders(p)
    PROVE  PinsTyped(pins)'
  BY DEF ApplyBorders, PrunePins, Restrict, PinsTyped

LEMMA UntouchedTyped ==
    ASSUME RecordTyped, UNCHANGED <<started, trackVars, groupVars, pickVars, pinVars>>,
           suspects' \subseteq Windows
    PROVE  RecordTyped'
  BY DEF RecordTyped, trackVars, groupVars, pickVars, pinVars, PinsTyped, Tracked

LEMMA EventTyped ==
    ASSUME RecordTyped, DesktopTypeOK, UNCHANGED desktopVars,
           NEW w \in Windows, NEW kind, OnWindowEvent(w, kind)
    PROVE  RecordTyped'
  <1>1. UNCHANGED <<started, suspects>> /\ suspects' \subseteq Windows /\ PinsTyped(pins)
    BY DEF OnWindowEvent, RecordTyped
  <1>2. ASSUME RefreshAll(pins) PROVE RecordTyped'
    BY <1>1, <1>2, RefreshAllTyped DEF DesktopTypeOK, desktopVars
  <1>3. ASSUME UNCHANGED <<trackVars, groupVars, pickVars, pinVars>> PROVE RecordTyped'
    BY <1>1, <1>3, UntouchedTyped
  <1>4. ASSUME RefreshOne(w) PROVE RecordTyped'
    <2>1. CASE w \in Listed
      <3>1. /\ Tracked' \subseteq Windows /\ DOMAIN stableOrder' \subseteq Windows
            /\ activeWindow' \in {w, activeWindow}
            /\ UNCHANGED <<previousActive, groupVars, pickVars, backendPins, pinPreview>>
            /\ ApplyBorders(pins)
        BY <1>4, <2>1 DEF RefreshOne, With, Tracked, RecordTyped
      <3> QED
        BY <1>1, <3>1, PrunedTyped DEF RecordTyped, groupVars, pickVars
    <2> QED
      BY <1>2, <1>4, <2>1 DEF RefreshOne
  <1>5. ASSUME RefreshGeometry(w) PROVE RecordTyped'
    <2>1. CASE /\ windows' = [windows EXCEPT ![w].frame = frame[w]]
               /\ UNCHANGED <<stableOrder, activeWindow, previousActive, groupVars, pickVars,
                              backendPins, pinPreview>>
               /\ ApplyBorders(pins)
      BY <1>1, <2>1, PrunedTyped DEF RecordTyped, Tracked, groupVars, pickVars
    <2> QED
      BY <1>2, <1>3, <1>4, <1>5, <2>1 DEF RefreshGeometry
  <1>6. ASSUME ActiveChanged(w) PROVE RecordTyped'
    <2>1. CASE w \in Tracked
      BY <1>1, <1>6, <2>1, PrunedTyped DEF ActiveChanged, RecordTyped, Tracked, groupVars, pickVars
    <2> QED
      BY <1>3, <1>6, <2>1 DEF ActiveChanged
  <1> QED
    BY <1>2, <1>4, <1>5, <1>6 DEF OnWindowEvent

LEMMA PinTyped ==
    ASSUME PinsTyped(pins), NEW w \in Windows
    PROVE  PinsTyped(Removed(w)) /\ PinsTyped(Added(w))
  <1>1. DOMAIN Removed(w) = DOMAIN pins \ {w} /\ \A v \in DOMAIN pins \ {w} : Removed(w)[v] = pins[v]
    BY DEF Removed, Without, Restrict
  <1>2. DOMAIN Added(w) = DOMAIN pins \cup {w}
    BY DEF Added, With
  <1>3. \A v \in DOMAIN pins \ {w} : Added(w)[v] = pins[v]
    BY DEF Added, With
  <1>4. Added(w)[w] = (w \in topmost)
    BY ZenonT(20) DEF Added, With
  <1>5. Added(w)[w] \in BOOLEAN
    BY <1>4
  <1>6. PinsTyped(Removed(w))
    BY <1>1 DEF PinsTyped
  <1>7. \A v \in DOMAIN Added(w) : v = w \/ v \in DOMAIN pins \ {w}
    BY <1>2
  <1> QED
    BY <1>2, <1>3, <1>5, <1>6, <1>7 DEF PinsTyped

LEMMA PinsCommandTyped ==
    ASSUME RecordTyped, UNCHANGED <<started, suspects, trackVars, groupVars, pickVars>>,
           pinPreview' \in Windows \cup {NoWindow}, NEW STATE p, PinsTyped(p), ApplyBorders(p),
           backendPins' \subseteq Windows
    PROVE  RecordTyped'
  BY PrunedTyped DEF RecordTyped, Tracked, trackVars, groupVars, pickVars

LEMMA GroupCommandTyped ==
    ASSUME RecordTyped, UNCHANGED <<started, suspects, trackVars, pinVars, pickVars>>,
           DOMAIN manualGroupOf' \subseteq Windows
    PROVE  RecordTyped'
  BY DEF RecordTyped, PinsTyped, Tracked, trackVars, pinVars, pickVars

LEMMA RecordTypes ==
    ASSUME RecordTyped, ChannelTyped, DesktopTypeOK, DesktopTypeOK', [Next]_vars
    PROVE  RecordTyped'
  <1>1. CASE DesktopStep \/ EmitBatch \/ Switches \/ UNCHANGED vars
    <2>1. UNCHANGED coordinatorVars
      BY <1>1 DEF DesktopStep, Opens, Closes, Hides, Shows, Retitles, TurnsOwnTopmost, Places,
                  Moves, SwitchesDesktop, Focuses, HooksDie, Changed, EmitBatch, Switches, vars
    <2> QED
      BY <2>1, UntouchedTyped DEF coordinatorVars, RecordTyped
  <1>2. CASE HandleEvent
    <2>1. PICK e \in batch : OnWindowEvent(e[1], e[2])
      BY <1>2 DEF HandleEvent
    <2>2. e[1] \in Windows
      BY DEF ChannelTyped, Channel!Events
    <2> QED
      BY <1>2, <2>1, <2>2, EventTyped DEF HandleEvent
  <1>3. CASE Tick
    <2>1. Mismatched \subseteq Windows
      BY DEF Mismatched, Listed, OnScreen, DesktopTypeOK, RecordTyped
    <2> QED
      BY <1>3, <2>1, RefreshAllTyped, UntouchedTyped DEF Tick, WatchdogTick, RecordTyped
  <1>4. CASE \E s \in SettingsChoices : ChangesSettings(s)
    <2>1. UNCHANGED <<started, suspects>> /\ (RefreshAll(<<>>) \/ RefreshAll(pins))
      BY <1>4 DEF ChangesSettings, UpdateSettings
    <2>2. PinsTyped(<<>>) /\ PinsTyped(pins)
      BY DEF PinsTyped, RecordTyped
    <2> QED
      BY <2>1, <2>2, RefreshAllTyped DEF RecordTyped
  <1>5. ASSUME NEW w \in Windows, TogglesPin(w) PROVE RecordTyped'
    <2>1. /\ UNCHANGED <<started, suspects, trackVars, groupVars, pickVars, pinPreview>>
          /\ \/ ApplyPins(Removed(w)) /\ ApplyBorders(Removed(w))
             \/ ApplyPins(Added(w)) /\ ApplyBorders(Added(w))
      BY <1>5 DEF TogglesPin, TogglePin
    <2>2. PinsTyped(Removed(w)) /\ PinsTyped(Added(w))
      BY PinTyped DEF RecordTyped
    <2>3. backendPins' \subseteq Windows
      BY <2>1, <2>2 DEF ApplyPins, PinsTyped
    <2> QED
      BY <2>1, <2>2, <2>3, PinsCommandTyped DEF RecordTyped
  <1>6. CASE UnpinsAll
    <2>1. PinsTyped(<<>>) /\ DOMAIN <<>> = {}
      BY DEF PinsTyped
    <2> QED
      BY <1>6, <2>1, PinsCommandTyped DEF UnpinsAll, UnpinAll, ApplyPins, RecordTyped
  <1>7. ASSUME NEW w \in Windows \cup {NoWindow}, Previews(w) PROVE RecordTyped'
    BY <1>7, PinsCommandTyped DEF Previews, SetPinPreview, RecordTyped
  <1>8. ASSUME NEW w, NEW g, JoinManualGroup(w, g) PROVE RecordTyped'
    BY <1>8, GroupCommandTyped DEF JoinManualGroup, groupOnly, With, RecordTyped
  <1>9. CASE \/ \E w \in Windows, g \in 0 .. MaxGroup : JoinsGroup(w, g)
             \/ \E v, w \in Windows : DropsOn(v, w)
    <2>1. ASSUME NEW v \in Windows, NEW w \in Windows, MergeIntoGroupOf(v, w) PROVE RecordTyped'
      <3>1. CASE w \in DOMAIN manualGroupOf
        BY <1>8, <2>1, <3>1 DEF MergeIntoGroupOf
      <3>2. CASE w \notin DOMAIN manualGroupOf
        BY <2>1, <3>2, GroupCommandTyped DEF MergeIntoGroupOf, groupOnly, With, RecordTyped
      <3> QED
        BY <3>1, <3>2
    <2> QED
      BY <1>8, <1>9, <2>1 DEF JoinsGroup, DropsOn
  <1>10. CASE DisbandsAll \/ \E w \in Windows : LeavesGroup(w) \/ Disbands(w)
    <2>1. UNCHANGED <<started, suspects, trackVars, pinVars, pickVars>>
      BY <1>10 DEF DisbandsAll, LeavesGroup, Disbands, DisbandAllManualGroups,
           LeaveManualGroup, DisbandManualGroup, groupOnly
    <2>2. \/ manualGroupOf' = <<>>
          \/ \E W \in SUBSET DOMAIN manualGroupOf : manualGroupOf' = Restrict(manualGroupOf, W)
      <3>1. CASE DisbandsAll
        BY <3>1 DEF DisbandsAll, DisbandAllManualGroups
      <3>2. ASSUME NEW w, LeavesGroup(w)
            PROVE \E W \in SUBSET DOMAIN manualGroupOf : manualGroupOf' = Restrict(manualGroupOf, W)
        BY <3>2 DEF LeavesGroup, LeaveManualGroup, Without
      <3>3. ASSUME NEW w, Disbands(w)
            PROVE \E W \in SUBSET DOMAIN manualGroupOf : manualGroupOf' = Restrict(manualGroupOf, W)
        BY <3>3 DEF Disbands, DisbandManualGroup
      <3> QED
        BY <1>10, <3>1, <3>2, <3>3
    <2>3. DOMAIN <<>> = {}
      OBVIOUS
    <2>4. DOMAIN manualGroupOf' \subseteq Windows
      BY <2>2, <2>3 DEF Restrict, RecordTyped
    <2> QED
      BY <2>1, <2>4, GroupCommandTyped
  <1>11. CASE TurnsOverlay
    BY <1>11, UntouchedTyped DEF TurnsOverlay, SetOverlayEnabled, RecordTyped
  <1>12. ASSUME NEW listed \in Pickers, NEW off \in SUBSET listed, NEW offApps,
                Picks(listed, off, offApps) \/ PicksBorders(listed, off, offApps)
         PROVE  RecordTyped'
    <2>1. \A old \in SUBSET Windows : Switched(old, listed, off, Tracked) \subseteq Windows
      BY WindowMarkAssumption DEF Switched
    <2>2. UNCHANGED <<started, suspects, trackVars, pinVars, groupVars>>
      BY <1>12 DEF Picks, PicksBorders, ApplySelection, ApplyBorderSelection
    <2>3. disabledWindowIds' \subseteq Windows /\ borderDisabledIds' \subseteq Windows
      BY <1>12, <2>1 DEF Picks, PicksBorders, ApplySelection, ApplyBorderSelection, RecordTyped
    <2> QED
      BY <2>2, <2>3 DEF RecordTyped, PinsTyped, Tracked, trackVars, pinVars, groupVars
  <1>13. CASE Stops
    <2>1. DOMAIN <<>> = {} /\ PinsTyped(<<>>)
      BY DEF PinsTyped
    <2>2. /\ started' = FALSE /\ pins' = <<>> /\ windows' = <<>>
          /\ backendPins' = {} /\ disabledWindowIds' = {}
          /\ UNCHANGED <<stableOrder, activeWindow, previousActive, suspects, pinPreview,
                         manualGroupOf, borderDisabledIds>>
      BY <1>13 DEF Stops, Stop, groupVars
    <2>3. PinsTyped(pins)'
      BY <2>1, <2>2 DEF PinsTyped
    <2>4. Tracked' = {}
      BY <2>1, <2>2 DEF Tracked
    <2> QED
      BY <2>2, <2>3, <2>4 DEF RecordTyped
  <1> QED
    BY <1>1, <1>2, <1>3, <1>4, <1>5, <1>6, <1>7, <1>9, <1>10, <1>11, <1>12, <1>13
       DEF Next, UIStep

LEMMA HistoryTypes ==
    ASSUME HistoryTyped, RecordTyped, DesktopTypeOK, DesktopTypeOK', [Next]_vars
    PROVE  HistoryTyped'
  <1>1. UNCHANGED <<lastForeground, foregroundBefore>> \/ NoteForeground
    BY DEF Next, DesktopStep, UIStep, Opens, Closes, Hides, Shows, Retitles, TurnsOwnTopmost,
           Places, Moves, SwitchesDesktop, Focuses, HooksDie, EmitBatch, HandleEvent, Tick,
           TogglesPin, LeavesGroup, Disbands, Previews, UnpinsAll, DisbandsAll, TurnsOverlay,
           Switches, Stops, ChangesSettings, JoinsGroup, DropsOn, Picks, PicksBorders,
           Command, StyleCommand, UIQuiet, vars, historyVars
  <1>2. /\ lastForeground' \in Windows \cup {NoWindow}
        /\ foregroundBefore' \in Windows \cup {NoWindow}
    BY <1>1 DEF NoteForeground, HistoryTyped, DesktopTypeOK
  <1>3. changes' \in Nat
    <2>1. CASE DesktopStep \/ Switches
      <3>1. changes' = changes + 1
        BY <2>1 DEF DesktopStep, Opens, Closes, Hides, Shows, Retitles, TurnsOwnTopmost, Places,
             Moves, SwitchesDesktop, Focuses, HooksDie, Changed, Switches
      <3> QED
        BY <3>1 DEF HistoryTyped
    <2>2. CASE (UIStep /\ ~Switches) \/ UNCHANGED vars
      <3>1. changes' = changes
        BY <2>2 DEF UIStep, EmitBatch, HandleEvent, Tick, TogglesPin, LeavesGroup, Disbands,
             Previews, UnpinsAll, DisbandsAll, TurnsOverlay, Stops, ChangesSettings, JoinsGroup,
             DropsOn, Picks, PicksBorders, Command, StyleCommand, UIQuiet, vars, historyVars
      <3> QED
        BY <3>1 DEF HistoryTyped
    <2> QED
      BY <2>1, <2>2 DEF Next
  <1>4. hooked' \in BOOLEAN
    BY DEF HistoryTyped, Next, DesktopStep, UIStep, Opens, Closes, Hides, Shows, Retitles,
           TurnsOwnTopmost, Places, Moves, SwitchesDesktop, Focuses, HooksDie, Changed, EmitBatch,
           HandleEvent, Tick, TogglesPin, LeavesGroup, Disbands, Previews, UnpinsAll, DisbandsAll,
           TurnsOverlay, Switches, Stops, ChangesSettings, JoinsGroup, DropsOn, Picks,
           PicksBorders, Command, StyleCommand, vars
  <1>5. ASSUME NEW STATE p, NoteStranded(p) PROVE stranded' \subseteq Windows
    BY <1>5 DEF NoteStranded, HistoryTyped, DesktopTypeOK
  <1>6. stranded' \subseteq Windows
    <2>1. CASE HandleEvent \/ Tick \/ \E s \in SettingsChoices : ChangesSettings(s)
      BY <1>5, <2>1 DEF HandleEvent, Tick, ChangesSettings
    <2>2. CASE DesktopStep
      BY <2>2 DEF DesktopStep, Opens, Closes, Hides, Shows, Retitles, TurnsOwnTopmost, Places,
           Moves, SwitchesDesktop, Focuses, HooksDie, HistoryTyped
    <2>3. CASE UNCHANGED stranded
      BY <2>3 DEF HistoryTyped
    <2>4. CASE \/ EmitBatch \/ UnpinsAll \/ DisbandsAll \/ TurnsOverlay \/ Switches \/ Stops
               \/ \E w : TogglesPin(w) \/ LeavesGroup(w) \/ Disbands(w) \/ Previews(w)
               \/ \E w, g : JoinsGroup(w, g) \/ DropsOn(w, g)
               \/ \E listed, off, offApps :
                     Picks(listed, off, offApps) \/ PicksBorders(listed, off, offApps)
               \/ UNCHANGED vars
      BY <2>3, <2>4 DEF EmitBatch, UnpinsAll, DisbandsAll, TurnsOverlay, Switches, Stops, TogglesPin,
           LeavesGroup, Disbands, Previews, JoinsGroup, DropsOn, Picks, PicksBorders, vars, historyVars
    <2> QED
      BY <2>1, <2>2, <2>4 DEF Next, UIStep
  <1> QED
    BY <1>2, <1>3, <1>4, <1>6 DEF HistoryTyped

LEMMA TypesStart == Init => ChannelTyped /\ RecordTyped /\ HistoryTyped
  <1> SUFFICES ASSUME Init PROVE ChannelTyped /\ RecordTyped /\ HistoryTyped
    OBVIOUS
  <1>1. Listed \subseteq Windows /\ activeWindow \in Listed \cup {NoWindow}
    BY WindowMarkAssumption DEF Init, DesktopInit, CoordinatorInit, Listed, OnScreen
  <1>2. Tracked = Listed /\ DOMAIN stableOrder = Listed
    BY DEF Init, CoordinatorInit, Tracked, Bijection, Injection
  <1> QED
    BY <1>1, <1>2 DEF Init, CoordinatorInit, Channel!ChannelInit, ChannelTyped, RecordTyped,
                      HistoryTyped, PinsTyped

(* Every variable keeps its type, for any number of windows and changes.   *)
THEOREM Typing == Spec => []TypeOK
  <1> DEFINE Typed == ChannelTyped /\ RecordTyped /\ HistoryTyped
  <1>1. Typed /\ HealInv /\ HealInv' /\ [Next]_vars => Typed'
    BY ChannelStep, RecordTypes, HistoryTypes DEF HealInv
  <1>2. Typed /\ HealInv /\ PinInv /\ RecordInv => TypeOK
    BY DEF ChannelTyped, RecordTyped, HistoryTyped, PinsTyped, HealInv, WindowsTyped, PinInv,
           RecordInv, TypeOK
  <1>3. PinInv => settings \in Settings
    BY DEF PinInv
  <1> QED
    BY <1>1, <1>2, <1>3, TypesStart, HealStart, HealStep, PinStart, PinStep, RecordStart, RecordStep,
       PTL DEF Spec
=============================================================================
