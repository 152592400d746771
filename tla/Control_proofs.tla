---------------------------- MODULE Control_proofs ----------------------------
(***************************************************************************)
(* Theorems about the control window, the system menus and the process,    *)
(* for any windows, groups, shortcuts, keys and processes: the crosshair   *)
(* accounts for what it outlines and captures, the program for the         *)
(* combinations and the menu items it made, and one program runs.          *)
(***************************************************************************)
EXTENDS Crosshair, Shortcuts, PinMenu, SingleInstance, TLAPS

(***************************************************************************)
(* The crosshair.                                                          *)
(***************************************************************************)
GrabInv == grabState \in {"None", "Grabbing"} /\ GrabIsAccounted

LEMMA GrabInvInit == GrabInit => GrabInv
  BY DEF GrabInit, GrabInv, GrabIsAccounted

(* A step that leaves the grab and the window list alone.                  *)
LEMMA GrabUntouched ==
    ASSUME GrabInv, UNCHANGED <<grabOwn, pickerOpen>>
    PROVE  GrabInv'
  BY DEF GrabInv, GrabIsAccounted, grabOwn

(* However a grab ends, outline, capture and timer go with it.             *)
LEMMA GrabEnds ==
    ASSUME GrabInv, NEW commit, EndGrab(commit)
    PROVE  GrabInv'
  BY DEF GrabInv, GrabIsAccounted, EndGrab, DestroyGrabHandle

LEMMA GrabInvKept == GrabInv /\ [GrabNext]_grabVars => GrabInv'
  <1> SUFFICES ASSUME GrabInv, [GrabNext]_grabVars PROVE GrabInv'
    OBVIOUS
  <1>1. CASE BeginGrab
    <2>1. CASE UNCHANGED grabOwn
      BY <1>1, <2>1, GrabUntouched DEF BeginGrab, recordNow
    <2>2. CASE ~UNCHANGED grabOwn
      BY <1>1, <2>2 DEF BeginGrab, GrabInv, GrabIsAccounted, recordNow
    <2> QED
      BY <2>1, <2>2
  <1>2. CASE ReleaseGrab \/ CancelGrab \/ CaptureTaken \/ GrabTimeout
    BY <1>2, GrabEnds DEF ReleaseGrab, CancelGrab, CaptureTaken, GrabTimeout
  <1>3. CASE PutHandleAway \/ HandleTimeout
    BY <1>3 DEF PutHandleAway, HandleTimeout, DestroyGrabHandle, GrabInv, GrabIsAccounted,
         recordNow
  <1>4. CASE TogglePinningFromMenu
    BY <1>4, GrabUntouched DEF TogglePinningFromMenu, Meanwhile
  <1>5. CASE StopGrab
    BY <1>5 DEF StopGrab, DestroyGrabHandle, GrabInv, GrabIsAccounted
  <1>6. CASE PickerOpens
    BY <1>6 DEF PickerOpens, grabOwn, GrabInv, GrabIsAccounted
  <1>7. ASSUME NEW purpose, NEW g, PickGrab(purpose, g) PROVE GrabInv'
    BY <1>7, GrabUntouched DEF PickGrab, recordNow
  <1>8. ASSUME NEW c, StartGrabFromHandle(c) PROVE GrabInv'
    BY <1>8 DEF StartGrabFromHandle, UpdateGrabTarget, GrabInv, GrabIsAccounted, recordNow
  <1>9. ASSUME NEW c, MoveGrab(c) PROVE GrabInv'
    BY <1>9 DEF MoveGrab, UpdateGrabTarget, GrabInv, GrabIsAccounted, recordNow
  <1>10. ASSUME NEW w, NEW open \in BOOLEAN, PickerOutlines(w, open) PROVE GrabInv'
    BY <1>10 DEF PickerOutlines, GrabInv, GrabIsAccounted
  <1>11. ASSUME NEW w, WindowComes(w) \/ WindowGoes(w) \/ PinHotkeyPressed(w) PROVE GrabInv'
    BY <1>11, GrabUntouched DEF WindowComes, WindowGoes, PinHotkeyPressed, Meanwhile
  <1>12. ASSUME NEW gs, DisbandGroups(gs) PROVE GrabInv'
    BY <1>12, GrabUntouched DEF DisbandGroups, Meanwhile
  <1>13. CASE UNCHANGED grabVars
    BY <1>13, GrabUntouched DEF grabVars, recordNow
  <1> QED
    BY <1>1, <1>2, <1>3, <1>4, <1>5, <1>6, <1>7, <1>8, <1>9, <1>10, <1>11, <1>12, <1>13
    DEF GrabNext

(* What is outlined is what a release would act upon, nothing stays        *)
(* outlined or captured after the grab, and a timer bounds it, whatever    *)
(* windows close and groups dissolve meanwhile (UpdateGrabTarget, EndGrab).*)
THEOREM GrabAccounted == GrabSpec => []GrabIsAccounted
  <1>1. GrabInv => GrabIsAccounted
    BY DEF GrabInv
  <1> QED
    BY GrabInvInit, GrabInvKept, <1>1, PTL DEF GrabSpec

Purposes == {"Pin", "JoinGroup"}
GroupIds == 0..MaxGroupId
Picks == {NoPick} \cup [purpose : Purposes, group : GroupIds]

(* The same as GrabTypeOK, switch by switch.                               *)
GrabTypes ==
  /\ grabHandle \in BOOLEAN /\ grabCapture \in BOOLEAN /\ handleTimer \in BOOLEAN
  /\ grabTimer \in BOOLEAN /\ pinningOn \in BOOLEAN /\ pickerOpen \in BOOLEAN
  /\ grabState \in {"None", "Grabbing"} /\ grabPurpose \in Purposes
  /\ grabTarget \in GrabWindows \cup {NoGrab} /\ outlined \in GrabWindows \cup {NoGrab}
  /\ grabGroup \in GroupIds /\ nextGroup \in 1..(MaxGroupId + 1)
  /\ picked \in Picks
  /\ trackedNow \subseteq GrabWindows /\ pinnedNow \subseteq trackedNow
  /\ groupOf \in [GrabWindows -> GroupIds]

LEMMA GrabTypesInit == GrabInit => GrabTypes
  <1> SUFFICES ASSUME GrabInit PROVE GrabTypes
    OBVIOUS
  <1>1. /\ grabHandle \in BOOLEAN /\ grabCapture \in BOOLEAN /\ handleTimer \in BOOLEAN
        /\ grabTimer \in BOOLEAN /\ pinningOn \in BOOLEAN /\ pickerOpen \in BOOLEAN
    BY DEF GrabInit
  <1>2. 0 \in GroupIds /\ 1 \in 1..(MaxGroupId + 1)
    BY GrabAssumption DEF GroupIds
  <1>3. picked \in Picks /\ grabPurpose \in Purposes
    BY DEF GrabInit, Picks, Purposes
  <1>4. /\ grabState = "None" /\ grabTarget = NoGrab /\ outlined = NoGrab
        /\ grabGroup = 0 /\ nextGroup = 1 /\ trackedNow = {} /\ pinnedNow = {}
        /\ groupOf = [w \in GrabWindows |-> 0]
    BY DEF GrabInit
  <1> QED
    BY <1>1, <1>2, <1>3, <1>4 DEF GrabTypes

LEMMA GrabTypesAre == GrabTypes => GrabTypeOK
  <1> SUFFICES ASSUME GrabTypes PROVE GrabTypeOK
    OBVIOUS
  <1>1. {grabHandle, grabCapture, handleTimer, grabTimer, pinningOn, pickerOpen} \subseteq BOOLEAN
    BY Zenon DEF GrabTypes
  <1>2. {grabTarget, outlined} \subseteq GrabWindows \cup {NoGrab}
    BY DEF GrabTypes
  <1> QED
    BY <1>1, <1>2 DEF GrabTypes, GrabTypeOK, Picks, Purposes, GroupIds

(* What a release does to the record.                                      *)
LEMMA RecordTyped ==
    ASSUME GrabTypes, NEW w \in GrabWindows \cup {NoGrab}, NEW g \in GroupIds,
           TogglePinOf(w) \/ JoinGroupOf(w, g) \/ UNCHANGED recordNow
    PROVE  /\ trackedNow' \subseteq GrabWindows /\ pinnedNow' \subseteq trackedNow'
           /\ groupOf' \in [GrabWindows -> GroupIds] /\ nextGroup' \in 1..(MaxGroupId + 1)
           /\ pinningOn' \in BOOLEAN /\ pickerOpen' \in BOOLEAN
  <1>1. /\ trackedNow \subseteq GrabWindows /\ pinnedNow \subseteq trackedNow
        /\ groupOf \in [GrabWindows -> GroupIds] /\ nextGroup \in 1..(MaxGroupId + 1)
    BY DEF GrabTypes
  <1>2. pinningOn' \in BOOLEAN /\ pickerOpen' \in BOOLEAN
    BY DEF GrabTypes, TogglePinOf, JoinGroupOf, recordNow
  <1>3. CASE TogglePinOf(w)
    BY <1>1, <1>2, <1>3 DEF TogglePinOf
  <1>4. CASE JoinGroupOf(w, g)
    <2>1. UNCHANGED <<trackedNow, pinnedNow>>
      BY <1>4 DEF JoinGroupOf
    <2>2. \/ UNCHANGED <<groupOf, nextGroup>>
          \/ groupOf' = [groupOf EXCEPT ![w] = g] /\ UNCHANGED nextGroup
          \/ /\ nextGroup <= MaxGroupId /\ groupOf' = [groupOf EXCEPT ![w] = nextGroup]
             /\ nextGroup' = nextGroup + 1
      BY <1>4 DEF JoinGroupOf
    <2>3. nextGroup <= MaxGroupId => nextGroup \in GroupIds /\ nextGroup + 1 \in 1..(MaxGroupId + 1)
      BY <1>1, GrabAssumption DEF GroupIds
    <2>4. groupOf' \in [GrabWindows -> GroupIds] /\ nextGroup' \in 1..(MaxGroupId + 1)
      BY <1>1, <2>2, <2>3
    <2> QED
      BY <1>1, <1>2, <2>1, <2>4
  <1>5. CASE UNCHANGED recordNow
    BY <1>1, <1>2, <1>5 DEF recordNow
  <1> QED
    BY <1>3, <1>4, <1>5

LEMMA GrabTypesKept == GrabTypes /\ [GrabNext]_grabVars => GrabTypes'
  <1> SUFFICES ASSUME GrabTypes, [GrabNext]_grabVars PROVE GrabTypes'
    OBVIOUS
  <1> DEFINE Own == /\ grabHandle \in BOOLEAN /\ grabCapture \in BOOLEAN
                    /\ handleTimer \in BOOLEAN /\ grabTimer \in BOOLEAN
                    /\ grabState \in {"None", "Grabbing"} /\ grabPurpose \in Purposes
                    /\ grabTarget \in GrabWindows \cup {NoGrab}
                    /\ outlined \in GrabWindows \cup {NoGrab} /\ grabGroup \in GroupIds
             Rec == /\ trackedNow \subseteq GrabWindows /\ pinnedNow \subseteq trackedNow
                    /\ groupOf \in [GrabWindows -> GroupIds] /\ nextGroup \in 1..(MaxGroupId + 1)
                    /\ pinningOn \in BOOLEAN /\ pickerOpen \in BOOLEAN
  <1>1. Own /\ Rec /\ picked \in Picks
    BY DEF GrabTypes
  <1>2. Own' /\ Rec' /\ picked' \in Picks => GrabTypes'
    BY DEF GrabTypes
  <1>3. UNCHANGED grabOwn => Own'
    BY <1>1 DEF grabOwn
  <1>4. UNCHANGED recordNow => Rec'
    BY <1>1 DEF recordNow
  <1>5. NoPick \in Picks /\ 0 \in GroupIds
    BY GrabAssumption DEF Picks, GroupIds
  <1>6. CASE BeginGrab
    <2>1. picked' = NoPick /\ UNCHANGED recordNow
      BY <1>6 DEF BeginGrab
    <2>2. CASE UNCHANGED grabOwn
      BY <1>2, <1>3, <1>4, <1>5, <2>1, <2>2
    <2>3. CASE ~UNCHANGED grabOwn
      <3>1. /\ grabPurpose' = picked.purpose /\ grabGroup' = picked.group
            /\ grabHandle' = TRUE /\ handleTimer' = (handleTimer \/ ~grabHandle)
            /\ UNCHANGED <<grabState, grabCapture, grabTarget, grabTimer, outlined>>
        BY <1>6, <2>3 DEF BeginGrab
      <3>2. picked \in [purpose : Purposes, group : GroupIds]
        BY <1>1, <1>6 DEF BeginGrab, Picks
      <3>3. grabPurpose' \in Purposes /\ grabGroup' \in GroupIds
        BY <3>1, <3>2
      <3>4. grabHandle' \in BOOLEAN /\ handleTimer' \in BOOLEAN
        BY <3>1
      <3>5. Own'
        BY <1>1, <3>1, <3>3, <3>4
      <3> QED
        BY <1>2, <1>4, <1>5, <2>1, <3>5
    <2> QED
      BY <2>2, <2>3
  <1>7. ASSUME NEW commit \in BOOLEAN, EndGrab(commit), UNCHANGED picked
        PROVE  GrabTypes'
    <2>1. /\ grabState' = "None" /\ grabTarget' = NoGrab /\ outlined' = NoGrab
          /\ UNCHANGED <<grabPurpose, grabGroup>>
      BY <1>7 DEF EndGrab
    <2>2. grabCapture' \in BOOLEAN /\ grabTimer' \in BOOLEAN
      BY <1>7 DEF EndGrab
    <2>3. grabHandle' \in BOOLEAN /\ handleTimer' \in BOOLEAN
      BY <1>7 DEF EndGrab, DestroyGrabHandle
    <2>4. TogglePinOf(grabTarget) \/ JoinGroupOf(grabTarget, grabGroup) \/ UNCHANGED recordNow
      BY <1>7 DEF EndGrab
    <2>5. Rec'
      BY <1>1, <2>4, RecordTyped
    <2>6. Own'
      BY <1>1, <2>1, <2>2, <2>3
    <2> QED
      BY <1>1, <1>2, <1>7, <2>5, <2>6
  <1>8. CASE PutHandleAway \/ HandleTimeout
    <2>1. /\ UNCHANGED <<grabState, grabCapture, grabTarget, grabPurpose, grabGroup,
                         grabTimer, outlined, picked, recordNow>>
      BY <1>8 DEF PutHandleAway, HandleTimeout
    <2>2. grabHandle' \in BOOLEAN /\ handleTimer' \in BOOLEAN
      BY <1>8 DEF PutHandleAway, HandleTimeout, DestroyGrabHandle
    <2>3. Own'
      BY <1>1, <2>1, <2>2
    <2> QED
      BY <1>1, <1>2, <1>4, <2>1, <2>3
  <1>9. CASE StopGrab
    <2>1. /\ grabState' = "None" /\ grabTarget' = NoGrab /\ outlined' = NoGrab /\ picked' = NoPick
          /\ trackedNow' = {} /\ pinnedNow' = {} /\ groupOf' = [w \in GrabWindows |-> 0]
          /\ UNCHANGED <<grabPurpose, grabGroup, nextGroup, pinningOn>>
      BY <1>9 DEF StopGrab
    <2>2. /\ grabCapture' \in BOOLEAN /\ grabTimer' \in BOOLEAN /\ pickerOpen' \in BOOLEAN
          /\ grabHandle' \in BOOLEAN /\ handleTimer' \in BOOLEAN
      BY <1>9 DEF StopGrab, DestroyGrabHandle
    <2>3. Own'
      BY <1>1, <2>1, <2>2
    <2>4. Rec'
      BY <1>1, <1>5, <2>1, <2>2
    <2> QED
      BY <1>2, <1>5, <2>1, <2>3, <2>4
  <1>10. ASSUME NEW purpose \in Purposes, NEW g \in {0} \cup Groups, PickGrab(purpose, g)
         PROVE  GrabTypes'
    <2>1. g \in GroupIds
      BY <1>1, <1>5 DEF Groups
    <2>2. picked' \in Picks /\ UNCHANGED <<grabOwn, recordNow>>
      BY <1>10, <2>1 DEF PickGrab, Picks
    <2> QED
      BY <1>2, <1>3, <1>4, <2>2
  <1>11. ASSUME NEW c \in GrabWindows \cup {NoGrab}, StartGrabFromHandle(c) \/ MoveGrab(c)
         PROVE  GrabTypes'
    <2>1. PICK before \in GrabWindows \cup {NoGrab} : UpdateGrabTarget(c, before)
      BY <1>1, <1>11 DEF StartGrabFromHandle, MoveGrab
    <2>2. grabTarget' \in GrabWindows \cup {NoGrab} /\ outlined' \in GrabWindows \cup {NoGrab}
      BY <1>1, <2>1 DEF UpdateGrabTarget
    <2>3. /\ UNCHANGED <<grabHandle, grabPurpose, grabGroup, picked, recordNow>>
          /\ grabState' \in {"None", "Grabbing"}
      BY <1>1, <1>11 DEF StartGrabFromHandle, MoveGrab
    <2>4. grabCapture' \in BOOLEAN /\ handleTimer' \in BOOLEAN /\ grabTimer' \in BOOLEAN
      BY <1>1, <1>11 DEF StartGrabFromHandle, MoveGrab
    <2>5. Own'
      BY <1>1, <2>2, <2>3, <2>4
    <2> QED
      BY <1>1, <1>2, <1>4, <2>3, <2>5
  <1>12. ASSUME NEW w \in GrabWindows \cup {NoGrab}, NEW open \in BOOLEAN, PickerOutlines(w, open)
         PROVE  GrabTypes'
    <2>1. outlined' = w /\ pickerOpen' = open
          /\ UNCHANGED <<grabHandle, grabState, grabCapture, grabTarget, grabPurpose, grabGroup,
                         handleTimer, grabTimer, picked, trackedNow, pinnedNow, groupOf,
                         nextGroup, pinningOn>>
      BY <1>12 DEF PickerOutlines
    <2> QED
      BY <1>1, <2>1, <1>2
  <1>13. CASE PickerOpens
    <2>1. pickerOpen' \in BOOLEAN /\ UNCHANGED <<grabOwn, picked, trackedNow, pinnedNow, groupOf,
                                                 nextGroup, pinningOn>>
      BY <1>13 DEF PickerOpens
    <2> QED
      BY <1>1, <1>2, <1>3, <2>1
  <1>14. CASE TogglePinningFromMenu
    <2>1. UNCHANGED <<grabOwn, picked, pickerOpen, trackedNow, groupOf, nextGroup>>
      BY <1>14 DEF TogglePinningFromMenu, Meanwhile
    <2>2. pinningOn' \in BOOLEAN /\ pinnedNow' \in {{}, pinnedNow}
      BY <1>14 DEF TogglePinningFromMenu
    <2> QED
      BY <1>1, <1>2, <1>3, <2>1, <2>2
  <1>15. ASSUME NEW w \in GrabWindows, WindowComes(w) \/ WindowGoes(w)
         PROVE  GrabTypes'
    <2>1. UNCHANGED <<grabOwn, picked, pickerOpen, nextGroup, pinningOn>>
      BY <1>15 DEF WindowComes, WindowGoes, Meanwhile
    <2>2. /\ trackedNow' \subseteq GrabWindows /\ pinnedNow' \subseteq trackedNow'
          /\ groupOf' \in [GrabWindows -> GroupIds]
      BY <1>1, <1>5, <1>15 DEF WindowComes, WindowGoes
    <2> QED
      BY <1>1, <1>2, <1>3, <2>1, <2>2
  <1>16. ASSUME NEW w \in GrabWindows, PinHotkeyPressed(w)
         PROVE  GrabTypes'
    <2>1. TogglePinOf(w) /\ UNCHANGED <<grabOwn, picked>>
      BY <1>16 DEF PinHotkeyPressed, Meanwhile
    <2>2. Rec'
      BY <1>5, <2>1, RecordTyped
    <2> QED
      BY <1>1, <1>2, <1>3, <2>1, <2>2
  <1>17. ASSUME NEW gs, DisbandGroups(gs)
         PROVE  GrabTypes'
    <2>1. UNCHANGED <<grabOwn, picked, pickerOpen, trackedNow, pinnedNow, nextGroup, pinningOn>>
      BY <1>17 DEF DisbandGroups, Meanwhile
    <2>2. groupOf' \in [GrabWindows -> GroupIds]
      BY <1>1, <1>5, <1>17 DEF DisbandGroups
    <2> QED
      BY <1>1, <1>2, <1>3, <2>1, <2>2
  <1>18. CASE UNCHANGED grabVars
    BY <1>1, <1>2, <1>3, <1>4, <1>18 DEF grabVars
  <1>19. CASE ReleaseGrab \/ CancelGrab \/ CaptureTaken \/ GrabTimeout
    BY <1>7, <1>19 DEF ReleaseGrab, CancelGrab, CaptureTaken, GrabTimeout
  <1> QED
    BY <1>6, <1>8, <1>9, <1>10, <1>11, <1>12, <1>13, <1>14, <1>15, <1>16, <1>17, <1>18, <1>19
    DEF GrabNext, Purposes
-----------------------------------------------------------------------------
(***************************************************************************)
(* The shortcuts.                                                          *)
(***************************************************************************)
(* What Windows grants and what the program remembers of it, as one        *)
(* statement about any table of holders.                                   *)
Remembers(h, pin, mods) ==
  \A c \in Combinations :
    /\ h[c] = "pin" <=> pin = c
    /\ h[c] \in SwitchKeys => c = <<mods, h[c]>>

KeyInv == ShortcutTypeOK /\ KeysAreAccounted

(* Holders by type.                                                        *)
Holders == [Combinations -> {"free", "other", "pin"} \cup SwitchKeys]

LEMMA ReleasedPin ==
    ASSUME NEW h \in Holders, NEW pin, NEW mods, Remembers(h, pin, mods)
    PROVE  /\ Released(h, {"pin"}) \in Holders
           /\ Remembers(Released(h, {"pin"}), NoKey, mods)
           /\ \A c \in Combinations : Released(h, {"pin"})[c] # "pin"
  <1>1. \A c \in Combinations :
          Released(h, {"pin"})[c] = IF h[c] = "pin" THEN "free" ELSE h[c]
    BY DEF Released
  <1>2. Released(h, {"pin"}) \in Holders
    BY DEF Released, Holders
  <1>3. \A c \in Combinations : NoKey # c
    BY ShortcutAssumption DEF Combinations
  <1> QED
    BY <1>1, <1>2, <1>3, ShortcutAssumption DEF Remembers

(* SetPinHotkey leaves the table and what it returns in agreement.         *)
LEMMA PinShortcutSet ==
    ASSUME NEW h \in Holders, NEW mods, Remembers(h, pinHotkey, mods),
           pinHotkey \in PinChoices, NEW key \in PinChoices
    PROVE  LET pin == SetPinHotkey(h, key)
           IN  /\ pin.keys \in Holders /\ pin.held \in PinChoices
               /\ Remembers(pin.keys, pin.held, mods)
               /\ pin.ok <=> pin.held = key
  <1> DEFINE without == Released(h, {"pin"})
  <1>1. /\ without \in Holders /\ Remembers(without, NoKey, mods)
        /\ \A c \in Combinations : without[c] # "pin"
    BY ReleasedPin
  <1>2. CASE key = pinHotkey \/ key = NoKey
    BY <1>1, <1>2 DEF SetPinHotkey, PinChoices
  <1>3. CASE key # pinHotkey /\ key # NoKey
    <2>1. key \in Combinations
      BY <1>3 DEF PinChoices, Combinations
    <2>2. CASE without[key] = "free"
      <3> DEFINE granted == [without EXCEPT ![key] = "pin"]
      <3>1. SetPinHotkey(h, key) = [keys |-> granted, held |-> key, ok |-> TRUE]
        BY <1>3, <2>2 DEF SetPinHotkey
      <3>2. granted \in Holders
        BY <1>1, <2>1 DEF Holders
      <3>3. \A c \in Combinations : granted[c] = IF c = key THEN "pin" ELSE without[c]
        BY <1>1, <2>1 DEF Holders
      <3>4. Remembers(granted, key, mods)
        BY <1>1, <3>3, ShortcutAssumption DEF Remembers
      <3> QED
        BY <3>1, <3>2, <3>4
    <2>3. CASE without[key] # "free"
      BY <1>1, <1>3, <2>3 DEF SetPinHotkey, PinChoices
    <2> QED
      BY <2>2, <2>3
  <1> QED
    BY <1>2, <1>3

(* SetSwitchHotkeys moves the switch keys to the new modifiers and leaves  *)
(* the pin's shortcut alone.                                               *)
LEMMA SwitchShortcutsSet ==
    ASSUME NEW h \in Holders, NEW pin, Remembers(h, pin, switchMods), NEW mods
    PROVE  /\ SetSwitchHotkeys(h, mods) \in Holders
           /\ Remembers(SetSwitchHotkeys(h, mods), pin, mods)
  <1>1. CASE mods = switchMods
    BY <1>1 DEF SetSwitchHotkeys
  <1>2. CASE mods # switchMods
    <2> DEFINE without == Released(h, SwitchKeys)
               set == SetSwitchHotkeys(h, mods)
    <2>1. \A c \in Combinations : without[c] = IF h[c] \in SwitchKeys THEN "free" ELSE h[c]
      BY DEF Released
    <2>2. set = [c \in Combinations |->
                   IF c[1] = mods /\ c[2] \in SwitchKeys /\ without[c] = "free"
                   THEN c[2] ELSE without[c]]
      BY <1>2 DEF SetSwitchHotkeys
    <2>3. set \in Holders
      BY <2>1, <2>2 DEF Holders
    <2>4. ASSUME NEW c \in Combinations
          PROVE  /\ set[c] = "pin" <=> pin = c
                 /\ set[c] \in SwitchKeys => c = <<mods, set[c]>>
      <3>1. c = <<c[1], c[2]>>
        BY DEF Combinations
      <3>2. h[c] = "pin" <=> pin = c
        BY DEF Remembers
      <3>3. CASE c[1] = mods /\ c[2] \in SwitchKeys /\ without[c] = "free"
        BY <2>1, <2>2, <3>1, <3>2, <3>3, ShortcutAssumption
      <3>4. CASE ~(c[1] = mods /\ c[2] \in SwitchKeys /\ without[c] = "free")
        BY <2>1, <2>2, <3>2, <3>4, ShortcutAssumption
      <3> QED
        BY <3>3, <3>4
    <2> QED
      BY <2>3, <2>4 DEF Remembers
  <1> QED
    BY <1>1, <1>2

LEMMA KeyInvInit == ShortcutInit => KeyInv
  <1> SUFFICES ASSUME ShortcutInit PROVE KeyInv
    OBVIOUS
  <1>1. ShortcutTypeOK
    BY DEF ShortcutInit, ShortcutTypeOK, PinChoices, ModChoices
  <1>2. KeysAreAccounted
    BY ShortcutAssumption DEF ShortcutInit, KeysAreAccounted, Combinations
  <1> QED
    BY <1>1, <1>2 DEF KeyInv

LEMMA KeyInvKept == KeyInv /\ [ShortcutNext]_shortcutVars => KeyInv'
  <1> SUFFICES ASSUME KeyInv, [ShortcutNext]_shortcutVars PROVE KeyInv'
    OBVIOUS
  <1>a. /\ holders \in Holders /\ pinHotkey \in PinChoices /\ wantedPin \in PinChoices
        /\ switchMods \in ModChoices /\ wantedMods \in ModChoices
        /\ Remembers(holders, pinHotkey, switchMods)
    BY DEF KeyInv, ShortcutTypeOK, KeysAreAccounted, Holders, Remembers
  <1>1. CASE StartControl
    <2> DEFINE pin == SetPinHotkey(holders, wantedPin)
    <2>1. /\ pin.keys \in Holders /\ pin.held \in PinChoices
          /\ Remembers(pin.keys, pin.held, switchMods) /\ (pin.ok <=> pin.held = wantedPin)
      BY <1>a, PinShortcutSet
    <2>2. /\ holders' \in Holders /\ Remembers(holders', pin.held, wantedMods)
      BY <1>1, <2>1, SwitchShortcutsSet DEF StartControl
    <2>3. /\ pinHotkey' = pin.held /\ switchMods' = wantedMods /\ control' = TRUE
          /\ refusal' = (IF pin.ok THEN "none" ELSE "silent")
          /\ UNCHANGED <<wantedPin, wantedMods>>
      BY <1>1 DEF StartControl
    <2>4. ShortcutTypeOK'
      BY <1>a, <2>1, <2>2, <2>3 DEF ShortcutTypeOK, Holders
    <2>5. KeysAreAccounted'
      BY <2>1, <2>2, <2>3 DEF KeysAreAccounted, Remembers
    <2> QED
      BY <2>4, <2>5 DEF KeyInv
  <1>2. ASSUME NEW key \in PinChoices, NEW mods \in ModChoices, AcceptShortcuts(key, mods)
        PROVE  KeyInv'
    <2> DEFINE pin == SetPinHotkey(holders, key)
    <2>1. /\ pin.keys \in Holders /\ pin.held \in PinChoices
          /\ Remembers(pin.keys, pin.held, switchMods) /\ (pin.ok <=> pin.held = key)
      BY <1>a, PinShortcutSet
    <2>2. /\ holders' = pin.keys /\ pinHotkey' = pin.held /\ wantedPin' = key
          /\ wantedMods' = mods /\ refusal' = (IF pin.ok THEN "none" ELSE "announced")
          /\ UNCHANGED <<control, switchMods>>
      BY <1>2 DEF AcceptShortcuts
    <2>3. ShortcutTypeOK'
      BY <1>a, <2>1, <2>2 DEF ShortcutTypeOK, Holders, KeyInv
    <2>4. KeysAreAccounted'
      BY <2>1, <2>2 DEF KeysAreAccounted, Remembers
    <2> QED
      BY <2>3, <2>4 DEF KeyInv
  <1>3. ASSUME NEW c \in Combinations, OtherProgram(c) PROVE KeyInv'
    <2>1. \A d \in Combinations : holders'[d] =
            IF d = c THEN IF holders[c] = "free" THEN "other" ELSE "free" ELSE holders[d]
      BY <1>3, <1>a DEF OtherProgram, Holders
    <2>2. holders' \in Holders
      BY <1>3, <1>a DEF OtherProgram, Holders
    <2>3. pinHotkey # c
      BY <1>3, <1>a DEF OtherProgram, Remembers
    <2>4. Remembers(holders', pinHotkey, switchMods)
      BY <1>a, <2>1, <2>3, ShortcutAssumption DEF Remembers
    <2> QED
      BY <1>3, <2>2, <2>4
      DEF OtherProgram, KeyInv, ShortcutTypeOK, KeysAreAccounted, Remembers, Holders
  <1>4. CASE StopControl
    <2> DEFINE pin == SetPinHotkey(holders, NoKey)
    <2>1. /\ pin.keys \in Holders /\ Remembers(pin.keys, pin.held, switchMods)
          /\ pin.held = NoKey
      <3>1. NoKey \in PinChoices
        BY DEF PinChoices
      <3> QED
        BY <1>a, <3>1, PinShortcutSet DEF SetPinHotkey
    <2>2. /\ holders' \in Holders /\ Remembers(holders', NoKey, NoMods)
      BY <1>4, <2>1, SwitchShortcutsSet DEF StopControl
    <2> QED
      BY <1>4, <1>a, <2>2
      DEF StopControl, KeyInv, ShortcutTypeOK, KeysAreAccounted, Remembers, Holders,
          PinChoices, ModChoices
  <1>5. CASE UNCHANGED shortcutVars
    BY <1>5 DEF shortcutVars, KeyInv, ShortcutTypeOK, KeysAreAccounted
  <1> QED
    BY <1>1, <1>2, <1>3, <1>4, <1>5 DEF ShortcutNext

(* The combinations taken from other programs are the ones remembered, so  *)
(* that Stop gives each back, whatever the others take meanwhile and       *)
(* whichever request is refused (SetPinHotkey, SetSwitchHotkeys).          *)
THEOREM KeysAccounted == ShortcutSpec => [](ShortcutTypeOK /\ KeysAreAccounted)
  <1>1. KeyInv => ShortcutTypeOK /\ KeysAreAccounted
    BY DEF KeyInv
  <1> QED
    BY KeyInvInit, KeyInvKept, <1>1, PTL DEF ShortcutSpec

(***************************************************************************)
(* The process.                                                            *)
(***************************************************************************)
(* Those that run, or go on to run once the others are stopped.            *)
Installing == {"install", "uninstall"}
Takers ==
  {p \in Procs : \/ stage[p] \in {"running", "leaving"}
                \/ (stage[p] \in {"stopping", "waiting"} /\ launch[p].kind \notin Installing)}

(* Of two of them one is on the list of the other: the later to answer has *)
(* found the earlier.  They all hold the mutex, so that no third gets it.  *)
OneStopsTheOther ==
  \A p, q \in Takers : p # q => p \in victims[q] \/ q \in victims[p]

InstanceTypes ==
  /\ stage \in [Procs -> Stages] /\ launch \in [Procs -> [file : Images, kind : Commands]]
  /\ victims \in [Procs -> SUBSET Procs]

(* What a process was started for tells where it may be.                   *)
WayOf(kind) ==
  IF kind \in Installing
  THEN {"off", "stopping", "waiting", "probed", "copying", "removing"}
  ELSE {"off", "claiming", "second", "asking", "stopping", "waiting", "running", "leaving"}
         \cup (IF kind = "replace" THEN {"replacing", "probed"} ELSE {})
         \cup (IF kind = "purge" THEN {"purging"} ELSE {})

OnTheirWay ==
  \A p \in Procs : /\ stage[p] \in WayOf(launch[p].kind)
                   /\ launch[p].file = "staged" => launch[p].kind = "uninstall"
                   /\ stage[p] # "stopping" => victims[p] = {}
                   /\ p \notin victims[p]
                   /\ stage[p] \in {"second", "asking"} => p \in handles

InstanceInv == InstanceTypes /\ OnTheirWay /\ Takers \subseteq handles /\ OneStopsTheOther

LEMMA InstanceInvInit == InstanceInit => InstanceInv
  BY InstanceAssumption
     DEF InstanceInit, InstanceInv, InstanceTypes, OnTheirWay, Takers, OneStopsTheOther, WayOf,
         NotLaunched, Installing, Stages, Images, Commands

(* A step that makes no taker, and shortens no list but of the ended.      *)
LEMMA TakersShrink ==
  ASSUME Takers \subseteq handles, OneStopsTheOther, Takers' \subseteq Takers \cap handles',
         \A p \in Takers' : victims'[p] = victims[p]
  PROVE  (Takers \subseteq handles)' /\ OneStopsTheOther'
  BY DEF OneStopsTheOther

(* One process moves on and becomes no taker by it.                        *)
LEMMA OneMoves ==
  ASSUME InstanceInv, NEW p \in Procs, NEW s \in Stages, Goes(p, s), UNCHANGED <<launch, victims>>,
         s \in WayOf(launch[p].kind), s # "stopping", victims[p] = {},
         handles \subseteq handles',
         s \in {"second", "asking"} => p \in handles',
         s \in {"waiting", "running", "leaving"} => p \in Takers \/ launch[p].kind \in Installing
  PROVE  InstanceInv'
  <1>1. \A q \in Procs : stage'[q] = IF q = p THEN s ELSE stage[q]
    BY DEF InstanceInv, InstanceTypes, Goes
  <1>2. InstanceTypes'
    BY DEF InstanceInv, InstanceTypes, Goes
  <1>3. OnTheirWay'
    BY <1>1 DEF InstanceInv, OnTheirWay
  <1>4. s \in {"running", "leaving"} => launch[p].kind \notin Installing
    BY DEF WayOf, Installing
  <1>5. Takers' \subseteq Takers
    BY <1>1, <1>4 DEF Takers
  <1>6. (Takers \subseteq handles)' /\ OneStopsTheOther'
    BY <1>5 DEF InstanceInv, OneStopsTheOther
  <1> QED
    BY <1>2, <1>3, <1>6 DEF InstanceInv

(* One process ends.                                                       *)
LEMMA OneEnds ==
  ASSUME InstanceInv, NEW p \in Procs, Goes(p, "off"),
         launch' = [launch EXCEPT ![p] = NotLaunched], handles \ {p} \subseteq handles',
         victims' = victims, victims[p] = {}
  PROVE  InstanceInv'
  <1>1. /\ \A q \in Procs : stage'[q] = IF q = p THEN "off" ELSE stage[q]
        /\ \A q \in Procs : launch'[q] = IF q = p THEN NotLaunched ELSE launch[q]
    BY DEF InstanceInv, InstanceTypes, Goes
  <1>2. InstanceTypes'
    BY DEF InstanceInv, InstanceTypes, Goes, Stages, NotLaunched, Images, Commands
  <1>3. OnTheirWay'
    BY <1>1 DEF InstanceInv, OnTheirWay, WayOf, NotLaunched, Installing
  <1>4. Takers' \subseteq Takers \ {p}
    BY <1>1 DEF Takers
  <1>5. (Takers \subseteq handles)' /\ OneStopsTheOther'
    BY <1>4 DEF InstanceInv, OneStopsTheOther
  <1> QED
    BY <1>2, <1>3, <1>5 DEF InstanceInv

(* p starts q with that image and kind, V the list it begins with: q is no  *)
(* taker yet, and p leaves or ends.  p may be q, started by the user.      *)
StartOf(p, q, s, r, file, kind, V) ==
  /\ stage[q] = "off" /\ (file = "staged" => kind = "uninstall")
  /\ s \in WayOf(kind) /\ s \notin {"second", "asking", "waiting", "running", "leaving"}
  /\ s = "stopping" => kind \in Installing
  /\ q \notin V /\ (s # "stopping" => V = {})
  /\ p # q => \/ stage[p] = "running" /\ r = "leaving" /\ launch'[p] = launch[p]
              \/ stage[p] = "copying" /\ r = "off" /\ launch'[p] = NotLaunched
  /\ \A x \in Procs : stage'[x] = IF x = q THEN s ELSE IF x = p THEN r ELSE stage[x]
  /\ \A x \in Procs \ {p, q} : launch'[x] = launch[x]
  /\ launch'[q] = [file |-> file, kind |-> kind]
  /\ \A x \in Procs : victims'[x] = IF x = q THEN V ELSE victims[x]
  /\ UNCHANGED handles

LEMMA OneStarts ==
  ASSUME InstanceInv, NEW p \in Procs, NEW q \in Procs, NEW s, NEW r, NEW file, NEW kind, NEW V,
         StartOf(p, q, s, r, file, kind, V), InstanceTypes'
  PROVE  InstanceInv'
  <1> USE DEF StartOf
  <1>1. OnTheirWay'
    <2> SUFFICES ASSUME NEW x \in Procs
                 PROVE  /\ stage'[x] \in WayOf(launch'[x].kind)
                        /\ launch'[x].file = "staged" => launch'[x].kind = "uninstall"
                        /\ stage'[x] # "stopping" => victims'[x] = {}
                        /\ x \notin victims'[x]
                        /\ stage'[x] \in {"second", "asking"} => x \in handles'
      BY DEF OnTheirWay, WayOf
    <2>1. CASE x = q
      BY <2>1
    <2>2. CASE x # q /\ x = p
      <3>1. /\ stage'[x] = r /\ victims'[x] = victims[x]
            /\ stage[x] \in WayOf(launch[x].kind)
            /\ launch[x].file = "staged" => launch[x].kind = "uninstall"
            /\ stage[x] # "stopping" => victims[x] = {}
        BY <2>2 DEF InstanceInv, OnTheirWay
      <3>2. CASE stage[p] = "running" /\ r = "leaving" /\ launch'[p] = launch[p]
        BY <2>2, <3>1, <3>2 DEF WayOf
      <3>3. CASE stage[p] = "copying" /\ r = "off" /\ launch'[p] = NotLaunched
        BY <2>2, <3>1, <3>3 DEF WayOf, NotLaunched
      <3> QED
        BY <2>2, <3>2, <3>3
    <2>3. CASE x # q /\ x # p
      BY <2>3 DEF InstanceInv, OnTheirWay
    <2> QED
      BY <2>1, <2>2, <2>3
  <1>2. Takers' \subseteq Takers /\ q \notin Takers' /\ Takers \subseteq Procs
    BY DEF Takers, Installing
  <1>3. (Takers \subseteq handles)' /\ OneStopsTheOther'
    BY <1>2 DEF InstanceInv, OneStopsTheOther
  <1> QED
    BY <1>1, <1>3 DEF InstanceInv

(* Starting, by the user, at logon, from the tray and by an installation.  *)
LEMMA StartsKeep ==
  ASSUME InstanceInv, NEW p \in Procs,
         \/ \E file \in Images \ {"staged"}, kind \in Commands : UserStarts(p, file, kind)
         \/ AtLogon(p)
  PROVE  InstanceInv'
  <1>1. \A x \in Procs : x \notin Found(x) /\ Found(x) \subseteq Procs
    BY DEF Found, Alive
  <1>2. CASE \E file \in Images \ {"staged"}, kind \in Commands : UserStarts(p, file, kind)
    <2> PICK file \in Images \ {"staged"}, kind \in Commands : UserStarts(p, file, kind)
      BY <1>2
    <2> DEFINE s == IF kind = "install" /\ Found(p) = {} THEN "copying" ELSE Entry(kind)
               V == IF Entry(kind) = "stopping" THEN Found(p) ELSE {}
    <2>1. stage[p] = "off" /\ victims[p] = {} /\ kind \notin {"replace", "uninstall"}
      BY DEF UserStarts, Started, InstanceInv, OnTheirWay
    <2>2. /\ s \in Stages /\ s \in WayOf(kind)
          /\ s \notin {"second", "asking", "waiting", "running", "leaving"}
          /\ s = "stopping" => kind \in Installing
          /\ V \in SUBSET Procs /\ p \notin V /\ (s # "stopping" => V = {})
      BY <1>1, <2>1 DEF Entry, Stages, WayOf, Installing
    <2>3. /\ stage' = [stage EXCEPT ![p] = s]
          /\ launch' = [launch EXCEPT ![p] = [file |-> file, kind |-> kind]]
          /\ victims' = [victims EXCEPT ![p] = V] /\ UNCHANGED handles
      BY <2>1 DEF UserStarts, Started, Goes, InstanceInv, InstanceTypes
    <2> HIDE DEF s, V
    <2>4. InstanceTypes'
      BY <2>2, <2>3 DEF InstanceInv, InstanceTypes
    <2>5. /\ \A x \in Procs : stage'[x] = IF x = p THEN s ELSE stage[x]
          /\ \A x \in Procs \ {p} : launch'[x] = launch[x]
          /\ launch'[p] = [file |-> file, kind |-> kind]
          /\ \A x \in Procs : victims'[x] = IF x = p THEN V ELSE victims[x]
      BY <2>3 DEF InstanceInv, InstanceTypes
    <2>6. StartOf(p, p, s, s, file, kind, V)
      BY <2>1, <2>2, <2>3, <2>5 DEF StartOf
    <2> QED
      BY <2>4, <2>6, OneStarts
  <1>3. CASE AtLogon(p)
    <2>1. /\ stage[p] = "off" /\ victims[p] = {} /\ stage' = [stage EXCEPT ![p] = "claiming"]
          /\ launch' = [launch EXCEPT ![p] = [file |-> "installed", kind |-> "autostart"]]
          /\ UNCHANGED <<victims, handles>>
      BY <1>3 DEF AtLogon, Started, Goes, InstanceInv, OnTheirWay
    <2>2. /\ "claiming" \in Stages /\ "claiming" \in WayOf("autostart")
          /\ "installed" \in Images /\ "autostart" \in Commands
      BY DEF Stages, WayOf, Installing, Images, Commands
    <2>3. InstanceTypes'
      BY <2>1, <2>2 DEF InstanceInv, InstanceTypes
    <2>4. /\ \A x \in Procs : stage'[x] = IF x = p THEN "claiming" ELSE stage[x]
          /\ \A x \in Procs \ {p} : launch'[x] = launch[x]
          /\ launch'[p] = [file |-> "installed", kind |-> "autostart"]
          /\ \A x \in Procs : victims'[x] = IF x = p THEN {} ELSE victims[x]
      BY <2>1 DEF InstanceInv, InstanceTypes
    <2>5. StartOf(p, p, "claiming", "claiming", "installed", "autostart", {})
      BY <2>1, <2>2, <2>4 DEF StartOf
    <2> QED
      BY <2>3, <2>5, OneStarts
  <1> QED
    BY <1>2, <1>3

LEMMA TrayKeeps ==
  ASSUME InstanceInv, NEW p \in Procs, NEW q \in Procs \cup {NoProc},
         TrayInstall(p, q) \/ (q \in Procs /\ TrayUninstall(p, q)) \/ Copying(p, q)
  PROVE  InstanceInv'
  <1>1. q \notin Found(q) /\ Found(q) \subseteq Procs
    BY DEF Found, Alive
  <1>2. {"replacing", "stopping", "leaving", "off"} \subseteq Stages
    BY DEF Stages
  <1>3. {"installed", "staged", "portable"} \subseteq Images /\ {"replace", "uninstall", "plain"} \subseteq Commands
    BY DEF Images, Commands
  <1>4. "replacing" \in WayOf("replace") /\ "stopping" \in WayOf("uninstall") /\ "uninstall" \in Installing
    BY DEF WayOf, Installing
  <1>5. \A x \in Procs : stage[x] # "stopping" => victims[x] = {}
    BY DEF InstanceInv, OnTheirWay
  <1>6. NoProc \notin Procs
    BY InstanceAssumption
  <1>7. CASE TrayInstall(p, q)
    <2>1. CASE q \notin Procs
      <3>1. UNCHANGED <<stage, launch, handles, victims>>
        BY <1>7, <2>1 DEF TrayInstall, Started
      <3> QED
        BY <3>1 DEF InstanceInv, InstanceTypes, OnTheirWay, Takers, OneStopsTheOther
    <2>2. CASE q \in Procs
      <3>1. /\ stage[p] = "running" /\ stage[q] = "off" /\ UNCHANGED <<handles, victims>>
            /\ launch' = [launch EXCEPT ![q] = [file |-> "installed", kind |-> "replace"]]
            /\ stage' = [stage EXCEPT ![q] = "replacing", ![p] = "leaving"]
        BY <1>6, <1>7, <2>2 DEF TrayInstall, Started, At
      <3>2. p # q
        BY <3>1
      <3>3. InstanceTypes'
        BY <1>2, <1>3, <3>1, <2>2 DEF InstanceInv, InstanceTypes
      <3>4. /\ \A x \in Procs : stage'[x] = IF x = q THEN "replacing" ELSE IF x = p THEN "leaving" ELSE stage[x]
            /\ \A x \in Procs \ {q} : launch'[x] = launch[x]
            /\ launch'[q] = [file |-> "installed", kind |-> "replace"]
            /\ \A x \in Procs : victims'[x] = IF x = q THEN {} ELSE victims[x]
        BY <1>5, <2>2, <3>1, <3>2 DEF InstanceInv, InstanceTypes
      <3>5. StartOf(p, q, "replacing", "leaving", "installed", "replace", {})
        BY <1>4, <3>1, <3>2, <3>4 DEF StartOf
      <3> QED
        BY <2>2, <3>3, <3>5, OneStarts
    <2> QED
      BY <2>1, <2>2
  <1>8. CASE q \in Procs /\ TrayUninstall(p, q)
    <2>1. /\ stage[p] = "running" /\ stage[q] = "off" /\ UNCHANGED handles
          /\ launch' = [launch EXCEPT ![q] = [file |-> "staged", kind |-> "uninstall"]]
          /\ stage' = [stage EXCEPT ![q] = "stopping", ![p] = "leaving"]
          /\ victims' = [victims EXCEPT ![q] = Found(q)]
      BY <1>8 DEF TrayUninstall, Started, At
    <2>2. p # q
      BY <2>1
    <2>3. InstanceTypes'
      BY <1>1, <1>2, <1>3, <1>8, <2>1 DEF InstanceInv, InstanceTypes
    <2>4. /\ \A x \in Procs : stage'[x] = IF x = q THEN "stopping" ELSE IF x = p THEN "leaving" ELSE stage[x]
          /\ \A x \in Procs \ {q} : launch'[x] = launch[x]
          /\ launch'[q] = [file |-> "staged", kind |-> "uninstall"]
          /\ \A x \in Procs : victims'[x] = IF x = q THEN Found(q) ELSE victims[x]
      BY <1>8, <2>1, <2>2 DEF InstanceInv, InstanceTypes
    <2>5. StartOf(p, q, "stopping", "leaving", "staged", "uninstall", Found(q))
      BY <1>1, <1>4, <2>1, <2>2, <2>4 DEF StartOf
    <2> QED
      BY <1>8, <2>3, <2>5, OneStarts
  <1>9. CASE Copying(p, q)
    <2>1. CASE q \notin Procs
      <3>1. /\ Goes(p, "off") /\ launch' = [launch EXCEPT ![p] = NotLaunched]
            /\ UNCHANGED <<handles, victims>> /\ victims[p] = {}
        BY <1>5, <1>9, <2>1 DEF Copying, At
      <3> QED
        BY <3>1, OneEnds
    <2>2. CASE q \in Procs
      <3>1. /\ stage[p] = "copying" /\ stage[q] = "off" /\ UNCHANGED <<handles, victims>> /\ p # q
            /\ launch' = [launch EXCEPT ![q] = [file |-> "installed", kind |-> "replace"],
                                        ![p] = NotLaunched]
            /\ stage' = [stage EXCEPT ![q] = "replacing", ![p] = "off"]
        BY <1>6, <1>9, <2>2 DEF Copying, At
      <3>2. NotLaunched \in [file : Images, kind : Commands]
        BY <1>3 DEF NotLaunched
      <3>3. InstanceTypes'
        BY <1>2, <1>3, <3>1, <3>2, <2>2 DEF InstanceInv, InstanceTypes
      <3>4. /\ \A x \in Procs : stage'[x] = IF x = q THEN "replacing" ELSE IF x = p THEN "off" ELSE stage[x]
            /\ \A x \in Procs \ {p, q} : launch'[x] = launch[x]
            /\ launch'[p] = NotLaunched
            /\ launch'[q] = [file |-> "installed", kind |-> "replace"]
            /\ \A x \in Procs : victims'[x] = IF x = q THEN {} ELSE victims[x]
        BY <1>5, <2>2, <3>1 DEF InstanceInv, InstanceTypes
      <3>5. StartOf(p, q, "replacing", "off", "installed", "replace", {})
        BY <1>4, <3>1, <3>4 DEF StartOf
      <3> QED
        BY <2>2, <3>3, <3>5, OneStarts
    <2> QED
      BY <2>1, <2>2
  <1> QED
    BY <1>7, <1>8, <1>9

(* Before the mutex is had, and after the wait for it.                     *)
LEMMA WaitingKeeps ==
  ASSUME InstanceInv, NEW p \in Procs,
         Replacing(p) \/ ReplaceProbed(p) \/ StoppedAll(p) \/ WaitForSingletonRelease(p) \/ StopProbed(p)
  PROVE  InstanceInv'
  <1>1. /\ stage[p] \in WayOf(launch[p].kind) /\ (stage[p] # "stopping" => victims[p] = {})
        /\ p \in Takers => p \in handles
    BY DEF InstanceInv, OnTheirWay
  <1>2. CASE Replacing(p) \/ ReplaceProbed(p)
    <2>1. stage[p] \in {"replacing", "probed"} /\ launch[p].kind \notin Installing /\ victims[p] = {}
      BY <1>1, <1>2 DEF Replacing, ReplaceProbed, At, WayOf, Installing
    <2>2. PICK s \in {"probed", "claiming"} :
            /\ Goes(p, s) /\ (s = "probed" => stage[p] = "replacing")
            /\ UNCHANGED <<launch, victims, handles>>
      BY <1>2 DEF Replacing, ReplaceProbed, At
    <2>3. s \in Stages /\ s \in WayOf(launch[p].kind)
      BY <1>1, <2>1, <2>2 DEF Stages, WayOf, Installing
    <2> QED
      BY <2>1, <2>2, <2>3, OneMoves
  <1>3. CASE StoppedAll(p)
    <2>1. /\ stage[p] = "stopping" /\ victims[p] = {} /\ Goes(p, "waiting")
          /\ UNCHANGED <<launch, victims, handles>>
      BY <1>3 DEF StoppedAll, At
    <2>2. "waiting" \in Stages /\ "waiting" \in WayOf(launch[p].kind)
      BY DEF Stages, WayOf
    <2>3. p \in Takers \/ launch[p].kind \in Installing
      BY <2>1 DEF Takers
    <2> QED
      BY <2>1, <2>2, <2>3, OneMoves
  <1>4. CASE WaitForSingletonRelease(p)
    <2>1. /\ stage[p] = "waiting" /\ victims[p] = {} /\ UNCHANGED <<launch, victims, handles>>
      BY <1>1, <1>4 DEF WaitForSingletonRelease, At
    <2>2. p \in Takers \/ launch[p].kind \in Installing
      BY <2>1 DEF Takers
    <2>3. CASE ~MutexExists /\ Goes(p, "probed")
      <3>1. launch[p].kind \in Installing
        BY <1>1, <2>2, <2>3 DEF MutexExists
      <3>2. "probed" \in Stages /\ "probed" \in WayOf(launch[p].kind)
        BY <3>1 DEF Stages, WayOf
      <3> QED
        BY <2>1, <2>3, <3>2, OneMoves
    <2>4. CASE Goes(p, AfterStopping(p))
      <3>1. AfterStopping(p) \in Stages /\ AfterStopping(p) \in WayOf(launch[p].kind)
            /\ AfterStopping(p) \in {"running", "copying", "removing"}
        BY DEF AfterStopping, Stages, WayOf, Installing
      <3> QED
        BY <2>1, <2>2, <2>4, <3>1, OneMoves
    <2> QED
      BY <1>4, <2>3, <2>4 DEF WaitForSingletonRelease
  <1>5. CASE StopProbed(p)
    <2>1. /\ stage[p] = "probed" /\ victims[p] = {} /\ UNCHANGED <<launch, victims, handles>>
          /\ Goes(p, AfterStopping(p)) /\ launch[p].kind # "replace"
      BY <1>1, <1>5 DEF StopProbed, At
    <2>2. launch[p].kind \in Installing
      BY <1>1, <2>1 DEF WayOf
    <2>3. AfterStopping(p) \in Stages /\ AfterStopping(p) \in WayOf(launch[p].kind)
          /\ AfterStopping(p) \in {"running", "copying", "removing"}
      BY DEF AfterStopping, Stages, WayOf, Installing
    <2> QED
      BY <2>1, <2>2, <2>3, OneMoves
  <1> QED
    BY <1>2, <1>3, <1>4, <1>5

(* The mutex: who creates it runs; who finds it may end, ask, or purge.    *)
LEMMA ClaimKeeps ==
  ASSUME InstanceInv, NEW p \in Procs, Claim(p) \/ Second(p)
  PROVE  InstanceInv'
  <1>1. /\ stage[p] \in WayOf(launch[p].kind) /\ stage[p] \in {"claiming", "second"}
        /\ victims[p] = {} /\ victims' = victims
    BY DEF Claim, Second, At, InstanceInv, OnTheirWay
  <1>2. {"second", "purging", "running", "asking"} \subseteq Stages
    BY DEF Stages
  <1>3. {"second", "asking", "running"} \subseteq WayOf(launch[p].kind)
    BY <1>1 DEF WayOf
  <1>4. launch[p].kind = "purge" => "purging" \in WayOf(launch[p].kind)
    BY DEF WayOf, Installing
  <1>5. CASE Claim(p)
    <2>1. UNCHANGED launch /\ handles' = handles \cup {p}
      BY <1>5 DEF Claim
    <2>2. CASE MutexExists
      <3>1. Goes(p, "second")
        BY <1>5, <2>2 DEF Claim
      <3> QED
        BY <1>1, <1>2, <1>3, <2>1, <3>1, OneMoves
    <2>3. CASE ~MutexExists /\ launch[p].kind = "purge"
      <3>1. Goes(p, "purging")
        BY <1>5, <2>3 DEF Claim
      <3> QED
        BY <1>1, <1>2, <1>4, <2>1, <2>3, <3>1, OneMoves
    <2>4. CASE ~MutexExists /\ launch[p].kind # "purge"
      <3>1. Goes(p, "running") /\ Takers = {}
        BY <1>5, <2>4 DEF Claim, MutexExists, InstanceInv
      <3>2. \A q \in Procs : stage'[q] = IF q = p THEN "running" ELSE stage[q]
        BY <3>1 DEF InstanceInv, InstanceTypes, Goes
      <3>3. InstanceTypes'
        BY <1>1, <1>2, <2>1, <3>1 DEF InstanceInv, InstanceTypes, Goes
      <3>4. OnTheirWay'
        BY <1>1, <1>3, <2>1, <3>2 DEF InstanceInv, OnTheirWay
      <3>5. Takers' \subseteq {p}
        BY <2>1, <3>1, <3>2 DEF Takers
      <3>6. (Takers \subseteq handles)' /\ OneStopsTheOther'
        BY <2>1, <3>5 DEF OneStopsTheOther
      <3> QED
        BY <3>3, <3>4, <3>6 DEF InstanceInv
    <2> QED
      BY <2>2, <2>3, <2>4
  <1>6. CASE Second(p)
    <2>1. p \in handles
      BY <1>6 DEF Second, At, InstanceInv, OnTheirWay
    <2>2. CASE Ended(p)
      BY <1>1, <2>2, OneEnds DEF Ended
    <2>3. CASE launch[p].kind = "purge" /\ Goes(p, "purging") /\ UNCHANGED <<handles, launch>>
      BY <1>1, <1>2, <1>4, <2>3, OneMoves
    <2>4. CASE Goes(p, "asking") /\ UNCHANGED <<handles, launch>>
      BY <1>1, <1>2, <1>3, <2>1, <2>4, OneMoves
    <2> QED
      BY <1>6, <2>2, <2>3, <2>4 DEF Second
  <1> QED
    BY <1>5, <1>6

(* The answer Yes: whoever holds the place by then is found and listed.    *)
LEMMA AnswerKeeps ==
  ASSUME InstanceInv, NEW p \in Procs, Answer(p)
  PROVE  InstanceInv'
  <1>1. /\ stage[p] = "asking" /\ p \in handles /\ victims[p] = {} /\ stage[p] \in WayOf(launch[p].kind)
    BY DEF Answer, At, InstanceInv, OnTheirWay
  <1>2. CASE Ended(p) /\ UNCHANGED victims
    BY <1>1, <1>2, OneEnds DEF Ended
  <1>3. CASE /\ victims' = [victims EXCEPT ![p] = Found(p)]
             /\ Goes(p, IF Found(p) = {} THEN "running" ELSE "stopping")
             /\ UNCHANGED <<handles, launch>>
    <2> DEFINE s == IF Found(p) = {} THEN "running" ELSE "stopping"
    <2>1. /\ Found(p) \subseteq Procs /\ p \notin Found(p) /\ s \in Stages
          /\ s \in WayOf(launch[p].kind) /\ (s # "stopping" => Found(p) = {})
          /\ s \notin {"second", "asking"}
      BY <1>1 DEF Found, Alive, Stages, WayOf
    <2>2. Takers \ {p} \subseteq Found(p)
      BY DEF Takers, Found, Alive, Installing, InstanceInv, OnTheirWay, WayOf
    <2>3. /\ \A q \in Procs : stage'[q] = IF q = p THEN s ELSE stage[q]
          /\ \A q \in Procs : victims'[q] = IF q = p THEN Found(p) ELSE victims[q]
      BY <1>3 DEF InstanceInv, InstanceTypes, Goes
    <2>4. InstanceTypes'
      BY <1>3, <2>1 DEF InstanceInv, InstanceTypes, Goes
    <2> HIDE DEF s
    <2>5. OnTheirWay'
      BY <1>3, <2>1, <2>3 DEF InstanceInv, OnTheirWay
    <2>6. Takers' \subseteq Takers \cup {p} /\ Takers' \subseteq Procs
      BY <1>3, <2>3 DEF Takers
    <2>7. (Takers \subseteq handles)' /\ OneStopsTheOther'
      BY <1>1, <1>3, <2>2, <2>3, <2>6 DEF InstanceInv, OneStopsTheOther
    <2> QED
      BY <2>4, <2>5, <2>7 DEF InstanceInv
  <1> QED
    BY <1>2, <1>3 DEF Answer

(* Who is struck off a list has ended, when every process can be opened.   *)
LEMMA StopKeeps ==
  ASSUME InstanceInv, NEW p \in Procs, StopOne(p), "elevated" \notin InstanceFaults
  PROVE  InstanceInv'
  <1>1. PICK q \in victims[p] :
          /\ stage' = [stage EXCEPT ![q] = "off"]
          /\ launch' = [launch EXCEPT ![q] = NotLaunched]
          /\ victims' = [victims EXCEPT ![p] = @ \ {q}, ![q] = {}]
          /\ handles' = handles \ {q}
    BY DEF StopOne
  <1>2. q \in Procs /\ q # p /\ stage[p] = "stopping"
    BY DEF InstanceInv, InstanceTypes, OnTheirWay, StopOne, At
  <1>3. /\ \A x \in Procs : stage'[x] = IF x = q THEN "off" ELSE stage[x]
        /\ \A x \in Procs : launch'[x] = IF x = q THEN NotLaunched ELSE launch[x]
        /\ victims'[p] = victims[p] \ {q} /\ victims'[q] = {}
        /\ \A x \in Procs \ {p, q} : victims'[x] = victims[x]
    BY <1>1, <1>2 DEF InstanceInv, InstanceTypes
  <1>4. InstanceTypes'
    BY <1>1, <1>2 DEF InstanceInv, InstanceTypes, Stages, NotLaunched, Images, Commands
  <1>5. OnTheirWay'
    <2> SUFFICES ASSUME NEW x \in Procs
                 PROVE  /\ stage'[x] \in WayOf(launch'[x].kind)
                        /\ launch'[x].file = "staged" => launch'[x].kind = "uninstall"
                        /\ stage'[x] # "stopping" => victims'[x] = {}
                        /\ x \notin victims'[x]
                        /\ stage'[x] \in {"second", "asking"} => x \in handles'
      BY DEF OnTheirWay
    <2>1. CASE x = q
      BY <1>3, <2>1 DEF WayOf, NotLaunched, Installing
    <2>2. CASE x # q
      <3>1. stage'[x] = stage[x] /\ launch'[x] = launch[x] /\ (x \in handles => x \in handles')
        BY <1>1, <1>3, <2>2
      <3>2. victims'[x] \subseteq victims[x]
        BY <1>3, <2>2
      <3> QED
        BY <3>1, <3>2 DEF InstanceInv, OnTheirWay
    <2> QED
      BY <2>1, <2>2
  <1>6. Takers' \subseteq Takers \ {q} /\ Takers \subseteq Procs
    BY <1>3 DEF Takers
  <1>7. (Takers \subseteq handles)'
    BY <1>1, <1>6 DEF InstanceInv
  <1>8. \A x \in Procs, y \in Procs \ {q} : x # q /\ x \in victims[y] => x \in victims'[y]
    BY <1>3
  <1>9. OneStopsTheOther'
    <2> SUFFICES ASSUME NEW x \in Takers', NEW y \in Takers', x # y
                 PROVE  x \in victims'[y] \/ y \in victims'[x]
      BY DEF OneStopsTheOther
    <2>1. x \in victims[y] \/ y \in victims[x]
      BY <1>6 DEF InstanceInv, OneStopsTheOther
    <2> QED
      BY <1>6, <1>8, <2>1
  <1> QED
    BY <1>4, <1>5, <1>7, <1>9 DEF InstanceInv

LEMMA EndsKeep ==
  ASSUME InstanceInv, NEW p \in Procs, Quit(p) \/ Leave(p) \/ Removing(p) \/ Purging(p)
  PROVE  InstanceInv'
  <1>1. stage[p] \in WayOf(launch[p].kind) /\ victims[p] = {}
    BY DEF Quit, Leave, Removing, Purging, At, InstanceInv, OnTheirWay
  <1>2. CASE Quit(p)
    <2>1. /\ stage[p] = "running" /\ Goes(p, "leaving") /\ UNCHANGED <<launch, handles, victims>>
      BY <1>2 DEF Quit, At
    <2>2. p \in Takers /\ "leaving" \in Stages /\ "leaving" \in WayOf(launch[p].kind)
      BY <1>1, <2>1 DEF Takers, Stages, WayOf
    <2> QED
      BY <1>1, <2>1, <2>2, OneMoves
  <1>3. CASE Leave(p) \/ Removing(p) \/ Purging(p)
    BY <1>1, <1>3, OneEnds DEF Leave, Removing, Purging, Ended
  <1> QED
    BY <1>2, <1>3

LEMMA InstanceInvKept ==
  ASSUME InstanceInv, [InstanceNext]_instanceVars, "elevated" \notin InstanceFaults
  PROVE  InstanceInv'
  <1>1. CASE UNCHANGED instanceVars
    BY <1>1 DEF instanceVars, InstanceInv, InstanceTypes, OnTheirWay, Takers, OneStopsTheOther
  <1>2. CASE InstanceNext
    <2> PICK p \in Procs :
          \/ AtLogon(p) \/ Replacing(p) \/ ReplaceProbed(p) \/ Claim(p) \/ Second(p)
          \/ Answer(p) \/ StopOne(p) \/ StoppedAll(p) \/ WaitForSingletonRelease(p)
          \/ StopProbed(p) \/ Quit(p) \/ Leave(p) \/ Removing(p) \/ Purging(p)
          \/ \E file \in Images \ {"staged"}, kind \in Commands : UserStarts(p, file, kind)
          \/ \E q \in Procs \cup {NoProc} : TrayInstall(p, q) \/ Copying(p, q)
          \/ \E q \in Procs : TrayUninstall(p, q)
      BY <1>2 DEF InstanceNext
    <2> QED
      BY StartsKeep, TrayKeeps, WaitingKeeps, ClaimKeeps, AnswerKeeps, StopKeeps, EndsKeep
  <1> QED
    BY <1>1, <1>2

(* However launches, answers, installing and uninstalling interleave, two  *)
(* processes never run WindowMark at once, when every process can be       *)
(* opened: StopRunningInstances passes over one that cannot, and nobody    *)
(* looks at what WaitForSingletonRelease returns.                          *)
THEOREM OneInstance ==
  ASSUME "elevated" \notin InstanceFaults
  PROVE  InstanceSpec => []AtMostOneRuns
  <1>1. InstanceInv => AtMostOneRuns
    BY DEF InstanceInv, AtMostOneRuns, Takers, OneStopsTheOther, OnTheirWay
  <1>2. InstanceInv /\ [InstanceNext]_instanceVars => InstanceInv'
    BY InstanceInvKept
  <1> QED
    BY InstanceInvInit, <1>1, <1>2, PTL DEF InstanceSpec

(***************************************************************************)
(* The item in the system menus.                                           *)
(***************************************************************************)
MenuEvents == [kind : {"foreground", "menustart", "invoked"}, window : MenuWindows]

(* The window the next click is to be taken for, when q is still to be     *)
(* delivered; and every click in q follows an event of its own window.     *)
Current(q, last) == IF q = <<>> THEN last ELSE q[Len(q)].window
Chained(q, last) ==
  \A i \in 1..Len(q) : q[i].kind = "invoked" => q[i].window = IF i = 1 THEN last ELSE q[i-1].window

LEMMA ChainedTail ==
  ASSUME NEW q \in Seq(MenuEvents), q # <<>>, NEW last, Chained(q, last)
  PROVE  /\ Tail(q) \in Seq(MenuEvents) /\ Head(q) \in MenuEvents
         /\ Chained(Tail(q), Head(q).window)
         /\ Current(Tail(q), Head(q).window) = Current(q, last)
         /\ Head(q).kind = "invoked" => Head(q).window = last
  <1>1. /\ Len(q) \in Nat \ {0} /\ Tail(q) \in Seq(MenuEvents) /\ Head(q) \in MenuEvents
        /\ Len(Tail(q)) = Len(q) - 1 /\ (Tail(q) = <<>> <=> Len(q) = 1)
        /\ \A i \in 1..Len(Tail(q)) : Tail(q)[i] = q[i + 1]
        /\ Head(q) = q[1]
    <2>1. Len(q) \in Nat \ {0} /\ Head(q) = q[1]
      OBVIOUS
    <2>2. Tail(q) \in Seq(MenuEvents) /\ Len(Tail(q)) = Len(q) - 1
      OBVIOUS
    <2>3. \A i \in 1..Len(Tail(q)) : Tail(q)[i] = q[i + 1]
      OBVIOUS
    <2>4. Head(q) \in MenuEvents
      OBVIOUS
    <2>5. Tail(q) = <<>> <=> Len(q) = 1
      BY <2>1, <2>2
    <2> QED
      BY <2>1, <2>2, <2>3, <2>4, <2>5
  <1>2. Chained(Tail(q), q[1].window)
    <2> SUFFICES ASSUME NEW i \in 1..Len(Tail(q)), Tail(q)[i].kind = "invoked"
                 PROVE  Tail(q)[i].window = IF i = 1 THEN q[1].window ELSE Tail(q)[i-1].window
      BY DEF Chained
    <2>1. i + 1 \in 2..Len(q) /\ q[i + 1].kind = "invoked" /\ Tail(q)[i] = q[i + 1]
      BY <1>1
    <2>2. q[i + 1].window = q[i].window
      BY <2>1 DEF Chained
    <2>3. i # 1 => Tail(q)[i-1] = q[i]
      BY <1>1
    <2> QED
      BY <2>1, <2>2, <2>3
  <1>3. Current(Tail(q), q[1].window) = Current(q, last)
    BY <1>1 DEF Current
  <1>4. q[1].kind = "invoked" => q[1].window = last
    BY <1>1 DEF Chained
  <1> QED
    BY <1>1, <1>2, <1>3, <1>4

LEMMA ChainedAppend ==
  ASSUME NEW q \in Seq(MenuEvents), NEW last, Chained(q, last), NEW e \in MenuEvents,
         e.kind = "invoked" => e.window = Current(q, last)
  PROVE  /\ q \o <<e>> \in Seq(MenuEvents)
         /\ Chained(q \o <<e>>, last)
         /\ Current(q \o <<e>>, last) = e.window
  <1> DEFINE r == q \o <<e>>
  <1>1. /\ Len(q) \in Nat /\ r \in Seq(MenuEvents) /\ Len(r) = Len(q) + 1 /\ r # <<>>
        /\ r[Len(r)] = e /\ (\A i \in 1..Len(q) : r[i] = q[i]) /\ (q = <<>> <=> Len(q) = 0)
    OBVIOUS
  <1> HIDE DEF r
  <1>2. Current(r, last) = e.window
    BY <1>1 DEF Current
  <1>3. Chained(r, last)
    <2> SUFFICES ASSUME NEW i \in 1..Len(r), r[i].kind = "invoked"
                 PROVE  r[i].window = IF i = 1 THEN last ELSE r[i-1].window
      BY DEF Chained
    <2>1. CASE i \in 1..Len(q)
      <3>1. r[i] = q[i] /\ (i # 1 => r[i-1] = q[i-1])
        BY <1>1, <2>1
      <3> QED
        BY <2>1, <3>1 DEF Chained
    <2>2. CASE i = Len(q) + 1
      BY <1>1, <2>2 DEF Current
    <2> QED
      BY <1>1, <2>1, <2>2
  <1> QED
    BY <1>1, <1>2, <1>3 DEF r

MenuTypes ==
  /\ item \in [MenuWindows -> {"none", "plain", "ticked"}]
  /\ visibleNow \subseteq MenuWindows /\ adoptable \subseteq MenuWindows
  /\ lastTouched \in MenuWindows \cup {NoMenuWindow}
  /\ openMenu.with => openMenu.of \in MenuWindows
  /\ openMenu.with \in BOOLEAN
  /\ events \in Seq(MenuEvents)
  /\ showItem \in BOOLEAN /\ hooked \in BOOLEAN /\ toggledOther \in BOOLEAN

(* The first candidate, when it has its item.                              *)
FirstCandidate == IF Carries(lastTouched) THEN lastTouched ELSE NoMenuWindow
ClicksFollow ==
  showItem => /\ Chained(events, FirstCandidate)
              /\ hooked /\ openMenu.with => openMenu.of = Current(events, FirstCandidate)
QuietWhenOff == ~hooked => events = <<>>

MenuInv == MenuTypes /\ ClicksFollow /\ QuietWhenOff /\ toggledOther = FALSE

LEMMA NothingChained == <<>> \in Seq(MenuEvents) /\ \A last : Chained(<<>>, last)
  BY DEF Chained

(* No click comes before the event of its window.                          *)
LEMMA ChainedAny ==
  ASSUME NEW q \in Seq(MenuEvents), Chained(q, NoMenuWindow), NEW last
  PROVE  /\ Chained(q, last)
         /\ Current(q, NoMenuWindow) \in MenuWindows => Current(q, last) = Current(q, NoMenuWindow)
  <1>1. \A i \in 1..Len(q) : q[i] \in MenuEvents
    OBVIOUS
  <1>2. \A i \in 1..Len(q) : q[i].window # NoMenuWindow
    BY <1>1, PinMenuAssumption DEF MenuEvents
  <1>3. Chained(q, last)
    BY <1>2 DEF Chained
  <1> QED
    BY <1>3, PinMenuAssumption DEF Current

LEMMA MenuInvInit == PinMenuInit => MenuInv
  <1> SUFFICES ASSUME PinMenuInit PROVE MenuInv
    OBVIOUS
  <1>1. MenuTypes /\ toggledOther = FALSE
    BY NothingChained DEF PinMenuInit, MenuTypes, Closed
  <1>2. ClicksFollow /\ QuietWhenOff
    BY NothingChained DEF PinMenuInit, ClicksFollow, QuietWhenOff
  <1> QED
    BY <1>1, <1>2 DEF MenuInv

LEMMA OwnKeeps ==
  ASSUME MenuInv, StartPins \/ StopPins \/ KillPins \/ ShowItemChanges
  PROVE  MenuInv'
  <1>1. CASE StartPins
    <2>1. /\ item' \in [MenuWindows -> {"none", "plain", "ticked"}] /\ adoptable' \subseteq MenuWindows
      BY <1>1 DEF StartPins, UpdateItems, Tick, MenuInv, MenuTypes
    <2>2. /\ events = <<>> /\ openMenu' = Closed /\ hooked' = TRUE
          /\ UNCHANGED <<visibleNow, showItem, lastTouched, events, toggledOther>>
      BY <1>1 DEF StartPins, MenuInv, QuietWhenOff
    <2> QED
      BY <2>1, <2>2, NothingChained DEF Closed, MenuInv, MenuTypes, ClicksFollow, QuietWhenOff
  <1>2. CASE StopPins \/ KillPins
    <2>1. /\ item' \in [MenuWindows -> {"none", "plain", "ticked"}] /\ adoptable' = {}
          /\ events' = <<>> /\ hooked' = FALSE /\ lastTouched' = NoMenuWindow
          /\ UNCHANGED <<visibleNow, showItem, openMenu, toggledOther>>
      BY <1>2 DEF StopPins, KillPins, MenuInv, MenuTypes
    <2>2. MenuTypes' /\ toggledOther' = FALSE
      BY <2>1, NothingChained DEF MenuInv, MenuTypes
    <2>3. ClicksFollow' /\ QuietWhenOff'
      BY <2>1, NothingChained DEF ClicksFollow, QuietWhenOff
    <2> QED
      BY <2>2, <2>3 DEF MenuInv
  <1>3. CASE ShowItemChanges
    <2>1. /\ item' \in [MenuWindows -> {"none", "plain", "ticked"}]
          /\ events' = <<>> /\ events = <<>> /\ openMenu' = Closed /\ showItem' \in BOOLEAN
          /\ UNCHANGED <<visibleNow, hooked, lastTouched, adoptable, toggledOther>>
      BY <1>3 DEF ShowItemChanges, MenuInv, MenuTypes
    <2> QED
      BY <2>1, NothingChained DEF Closed, MenuInv, MenuTypes, ClicksFollow, QuietWhenOff
  <1> QED
    BY <1>1, <1>2, <1>3

LEMMA PinElsewhereKeeps ==
  ASSUME MenuInv, NEW w \in MenuWindows, PinElsewhere(w)
  PROVE  MenuInv'
  <1>1. /\ item' \in [MenuWindows -> {"none", "plain", "ticked"}]
        /\ UNCHANGED <<visibleNow, hooked, showItem, lastTouched, openMenu, events, adoptable, toggledOther>>
    BY DEF PinElsewhere, Tick, MenuInv, MenuTypes
  <1>2. lastTouched \in MenuWindows => item'[lastTouched] # "none"
    BY PinMenuAssumption DEF PinElsewhere, Tick, MenuInv, MenuTypes
  <1>3. MenuTypes' /\ QuietWhenOff' /\ toggledOther' = FALSE
    BY <1>1 DEF MenuInv, MenuTypes, QuietWhenOff
  <1>4. CASE Carries(lastTouched)
    <2>1. FirstCandidate' = FirstCandidate
      BY <1>1, <1>2, <1>4 DEF FirstCandidate, Carries, MenuInv, MenuTypes
    <2> QED
      BY <1>1, <1>3, <2>1 DEF MenuInv, ClicksFollow
  <1>5. CASE ~Carries(lastTouched)
    <2>1. FirstCandidate = NoMenuWindow
      BY <1>5 DEF FirstCandidate
    <2>2. events \in Seq(MenuEvents) /\ (openMenu.with => openMenu.of \in MenuWindows)
      BY DEF MenuInv, MenuTypes
    <2>3. ASSUME showItem
          PROVE  /\ Chained(events, FirstCandidate')
                 /\ hooked /\ openMenu.with => openMenu.of = Current(events, FirstCandidate')
      BY <2>1, <2>2, <2>3, ChainedAny DEF MenuInv, ClicksFollow
    <2> QED
      BY <1>1, <1>3, <2>3 DEF MenuInv, ClicksFollow
  <1> QED
    BY <1>4, <1>5

(* A delivered event makes its window the first candidate, and a click     *)
(* that is delivered finds it so.                                          *)
LEMMA DeliveryKeeps ==
  ASSUME MenuInv, HookProc
  PROVE  MenuInv'
  <1> DEFINE e == Head(events)
  <1>1. /\ events # <<>> /\ events \in Seq(MenuEvents) /\ events' = Tail(events)
        /\ UNCHANGED <<visibleNow, hooked, showItem, openMenu, adoptable>>
        /\ hooked = TRUE
    BY DEF HookProc, MenuInv, MenuTypes
  <1>2. e \in MenuEvents /\ events' \in Seq(MenuEvents)
    BY <1>1
  <1>3. e.window \in MenuWindows /\ e.window # NoMenuWindow
    BY <1>2, PinMenuAssumption DEF MenuEvents
  <1>4. /\ MenuTypes' /\ toggledOther' = FALSE
        /\ showItem => FirstCandidate' = e.window
    <2>1. CASE e.kind = "invoked"
      <3>1. PICK named \in MenuWindows \cup {NoMenuWindow} : Invoked(e.window, named)
        BY <2>1 DEF HookProc
      <3>2. lastTouched' = lastTouched
        BY <2>1 DEF HookProc
      <3>3. CASE ~showItem
        <4>1. UNCHANGED <<item, toggledOther>>
          BY <3>1, <3>3 DEF Invoked
        <4> QED
          BY <1>1, <1>2, <3>2, <3>3, <4>1 DEF MenuInv, MenuTypes
      <3>4. CASE showItem
        <4>1. FirstCandidate = e.window
          BY <1>1, <2>1, <3>4, ChainedTail DEF MenuInv, ClicksFollow
        <4>2. Carries(lastTouched) /\ lastTouched = e.window
          BY <1>3, <4>1 DEF FirstCandidate
        <4>3. Candidate(named) = e.window
          BY <4>2 DEF Candidate
        <4> DEFINE pins == (pinnedSet \ {e.window}) \cup ({e.window} \ pinnedSet)
        <4>4. /\ item' = [item EXCEPT ![e.window] = Tick(e.window, pins)]
              /\ toggledOther' = (toggledOther \/ e.window # e.window)
          BY <1>3, <3>1, <3>4, <4>2, <4>3 DEF Invoked
        <4>5. toggledOther' = FALSE
          BY <4>4 DEF MenuInv
        <4>6. /\ item' \in [MenuWindows -> {"none", "plain", "ticked"}] /\ item'[e.window] # "none"
          BY <1>3, <4>4 DEF Tick, MenuInv, MenuTypes
        <4>7. FirstCandidate' = e.window
          BY <1>3, <3>2, <4>2, <4>6 DEF FirstCandidate, Carries
        <4> QED
          BY <1>1, <1>2, <3>2, <4>5, <4>6, <4>7 DEF MenuInv, MenuTypes
      <3> QED
        BY <3>3, <3>4
    <2>2. CASE e.kind # "invoked"
      <3>1. EnsureItem(e.window) /\ UNCHANGED toggledOther
        BY <2>2 DEF HookProc
      <3>2. CASE ~showItem
        <4>1. UNCHANGED <<item, lastTouched>>
          BY <3>1, <3>2 DEF EnsureItem
        <4> QED
          BY <1>1, <1>2, <3>1, <3>2, <4>1 DEF MenuInv, MenuTypes
      <3>3. CASE showItem
        <4>1. /\ lastTouched' = e.window
              /\ item' = [w \in MenuWindows |-> IF w \in {e.window} THEN Tick(w, pinnedSet) ELSE item[w]]
          BY <3>1, <3>3 DEF EnsureItem, UpdateItems
        <4>2. /\ item' \in [MenuWindows -> {"none", "plain", "ticked"}] /\ item'[e.window] # "none"
          BY <1>3, <4>1 DEF Tick, MenuInv, MenuTypes
        <4>3. FirstCandidate' = e.window
          BY <1>3, <4>1, <4>2 DEF FirstCandidate, Carries
        <4> QED
          BY <1>1, <1>2, <1>3, <3>1, <4>1, <4>2, <4>3 DEF MenuInv, MenuTypes
      <3> QED
        BY <3>2, <3>3
    <2> QED
      BY <2>1, <2>2
  <1>5. ClicksFollow'
    <2> SUFFICES ASSUME showItem
                 PROVE  /\ Chained(events', e.window)
                        /\ openMenu.with => openMenu.of = Current(events', e.window)
      BY <1>1, <1>4 DEF ClicksFollow
    <2> QED
      BY <1>1, ChainedTail DEF MenuInv, ClicksFollow
  <1> QED
    BY <1>1, <1>4, <1>5 DEF MenuInv, QuietWhenOff

LEMMA DesktopKeeps ==
  ASSUME MenuInv, \/ MenuClicked
                  \/ \E w \in MenuWindows : Activated(w) \/ MenuOpened(w) \/ HiddenOrShown(w)
  PROVE  MenuInv'
  <1> DEFINE last == FirstCandidate
  <1>1. /\ UNCHANGED <<hooked, showItem, item, lastTouched, adoptable, toggledOther>>
        /\ FirstCandidate' = FirstCandidate
        /\ events \in Seq(MenuEvents) /\ (hooked = FALSE => events = <<>>)
        /\ hooked \in BOOLEAN
    BY DEF MenuClicked, Activated, MenuOpened, HiddenOrShown, own, FirstCandidate, Carries,
           MenuInv, MenuTypes, QuietWhenOff
  <1>2. CASE MenuClicked
    <2> DEFINE click == [kind |-> "invoked", window |-> openMenu.of]
    <2>1. /\ click \in MenuEvents /\ openMenu.with = TRUE /\ openMenu' = Closed
          /\ events' = IF hooked THEN events \o <<click>> ELSE events
          /\ UNCHANGED visibleNow
      BY <1>2 DEF MenuClicked, Heard, MenuInv, MenuTypes, MenuEvents
    <2>2. CASE ~hooked
      BY <1>1, <2>1, <2>2 DEF Closed, MenuInv, MenuTypes, ClicksFollow, QuietWhenOff
    <2>3. CASE hooked
      <3>1. click.window = openMenu.of
        OBVIOUS
      <3> HIDE DEF click
      <3>2. events' \in Seq(MenuEvents)
        BY <1>1, <2>1, <2>3
      <3>3. showItem => Chained(events', last)
        BY <1>1, <2>1, <2>3, <3>1, ChainedAppend DEF MenuInv, ClicksFollow
      <3> QED
        BY <1>1, <2>1, <2>3, <3>2, <3>3 DEF Closed, MenuInv, MenuTypes, ClicksFollow, QuietWhenOff
    <2> QED
      BY <2>2, <2>3
  <1>3. ASSUME NEW w \in MenuWindows, Activated(w) \/ MenuOpened(w)
        PROVE  MenuInv'
    <2> DEFINE fg == [kind |-> "foreground", window |-> w]
               ms == [kind |-> "menustart", window |-> w]
    <2>1. fg \in MenuEvents /\ ms \in MenuEvents /\ fg.kind # "invoked" /\ ms.kind # "invoked" /\ ms.window = w
      BY DEF MenuEvents
    <2>2. visibleNow' = visibleNow
      BY <1>3 DEF Activated, MenuOpened
    <2>3. \/ openMenu' = Closed /\ events' = IF hooked THEN events \o <<fg>> ELSE events
          \/ /\ openMenu' = [of |-> w, with |-> item[w] # "none"]
             /\ \/ events' = IF hooked THEN events \o <<ms>> ELSE events
                \/ events' = IF hooked THEN (events \o <<fg>>) \o <<ms>> ELSE events
      <3>1. CASE Activated(w)
        BY <1>3, <3>1 DEF Activated, Heard, Foreground
      <3>2. CASE MenuOpened(w)
        <4>1. <<>> \o <<ms>> = <<ms>> /\ events \o (<<fg>> \o <<ms>>) = (events \o <<fg>>) \o <<ms>>
          BY <1>1, <2>1
        <4> QED
          BY <3>2, <4>1 DEF MenuOpened, Heard, Foreground
      <3> QED
        BY <1>3, <3>1, <3>2
    <2>4. /\ openMenu'.with \in BOOLEAN /\ (openMenu'.with = TRUE => openMenu'.of = w)
          /\ openMenu' = Closed => openMenu'.with = FALSE
      <3>1. Closed.with = FALSE
        BY DEF Closed
      <3>2. CASE openMenu' = Closed
        BY <3>1, <3>2
      <3>3. CASE openMenu' = [of |-> w, with |-> item[w] # "none"]
        <4>1. openMenu'.of = w /\ openMenu'.with = (item[w] # "none")
          BY <3>3, Zenon
        <4> QED
          BY <3>1, <4>1
      <3> QED
        BY <2>3, <3>2, <3>3
    <2> HIDE DEF fg, ms
    <2>5. CASE ~hooked
      <3>1. events' = events /\ events = <<>>
        BY <1>1, <2>3, <2>5
      <3> QED
        BY <1>1, <2>2, <2>4, <2>5, <3>1 DEF MenuInv, MenuTypes, ClicksFollow, QuietWhenOff
    <2>6. CASE hooked
      <3>1. PICK q \in {events, events \o <<fg>>} :
              \/ openMenu' = Closed /\ events' = events \o <<fg>>
              \/ events' = q \o <<ms>>
        BY <2>3, <2>6
      <3>2. events \o <<fg>> \in Seq(MenuEvents) /\ events \o <<ms>> \in Seq(MenuEvents) /\ q \in Seq(MenuEvents)
        BY <1>1, <2>1
      <3>3. q \o <<ms>> \in Seq(MenuEvents)
        BY <2>1, <3>2
      <3>4. ASSUME showItem
            PROVE  /\ Chained(events', last)
                   /\ openMenu'.with => openMenu'.of = Current(events', last)
        <4>1. Chained(events, last) /\ Chained(events \o <<fg>>, last)
          BY <1>1, <2>1, <3>4, ChainedAppend DEF MenuInv, ClicksFollow
        <4>2. Chained(q \o <<ms>>, last) /\ Current(q \o <<ms>>, last) = w
          BY <2>1, <3>2, <4>1, ChainedAppend
        <4>3. CASE openMenu' = Closed /\ events' = events \o <<fg>>
          BY <2>4, <4>1, <4>3
        <4>4. CASE events' = q \o <<ms>>
          BY <2>4, <4>2, <4>4
        <4> QED
          BY <3>1, <4>3, <4>4
      <3> QED
        BY <1>1, <2>2, <2>4, <2>6, <3>1, <3>2, <3>3, <3>4
           DEF Closed, MenuInv, MenuTypes, ClicksFollow, QuietWhenOff
    <2> QED
      BY <2>5, <2>6
  <1>4. ASSUME NEW w \in MenuWindows, HiddenOrShown(w)
        PROVE  MenuInv'
    <2>1. visibleNow' \subseteq MenuWindows /\ events' = events
      BY <1>4 DEF HiddenOrShown, MenuInv, MenuTypes
    <2>2. openMenu' = openMenu \/ openMenu' = Closed
      BY <1>4 DEF HiddenOrShown
    <2>3. CASE openMenu' = openMenu
      BY <1>1, <2>1, <2>3 DEF MenuInv, MenuTypes, ClicksFollow, QuietWhenOff
    <2>4. CASE openMenu' = Closed
      <3>1. openMenu'.with = FALSE
        BY <2>4 DEF Closed
      <3> QED
        BY <1>1, <2>1, <3>1 DEF MenuInv, MenuTypes, ClicksFollow, QuietWhenOff
    <2> QED
      BY <2>2, <2>3, <2>4
  <1> QED
    BY <1>2, <1>3, <1>4

LEMMA MenuInvKept == MenuInv /\ [PinMenuNext]_pinMenuVars => MenuInv'
  <1> SUFFICES ASSUME MenuInv, [PinMenuNext]_pinMenuVars
               PROVE  MenuInv'
    OBVIOUS
  <1>1. CASE UNCHANGED pinMenuVars
    <2>1. FirstCandidate' = FirstCandidate
      BY <1>1 DEF pinMenuVars, FirstCandidate, Carries
    <2> QED
      BY <1>1, <2>1 DEF pinMenuVars, MenuInv, MenuTypes, ClicksFollow, QuietWhenOff
  <1>2. CASE PinMenuNext
    BY <1>2, OwnKeeps, PinElsewhereKeeps, DeliveryKeeps, DesktopKeeps DEF PinMenuNext
  <1> QED
    BY <1>1, <1>2

(* However clicks, hook events, hotkeys and the setting interleave, a      *)
(* click in a system menu pins the window whose menu it was made in: the   *)
(* hooks deliver in order, and the menu's own opening comes before.        *)
THEOREM ClicksReachTheirWindow == PinMenuSpec => []TogglesTheClicked
  <1>1. MenuInv => TogglesTheClicked
    BY DEF MenuInv, TogglesTheClicked
  <1> QED
    BY MenuInvInit, MenuInvKept, <1>1, PTL DEF PinMenuSpec

(* A proper exit takes the item out of every menu that was in sight when   *)
(* it started, those of a killed run included: what Start seeds is         *)
(* remembered until Stop, whatever is touched besides.                     *)
THEOREM StopCleans == PinMenuSpec => StopLeavesNothing
  <1> DEFINE Remembered == /\ visibleNow \subseteq MenuWindows
                           /\ adoptable \subseteq MenuWindows \cap touched
  <1>1. PinMenuInit => Remembered
    BY DEF PinMenuInit
  <1>2. Remembered /\ [PinMenuNext]_pinMenuVars => Remembered'
    <2> SUFFICES ASSUME Remembered, [PinMenuNext]_pinMenuVars
                 PROVE  Remembered'
      OBVIOUS
    <2>1. CASE StartPins
      BY <2>1 DEF StartPins, UpdateItems
    <2>2. CASE StopPins \/ KillPins
      BY <2>2 DEF StopPins, KillPins
    <2>3. CASE HookProc
      BY <2>3 DEF HookProc, EnsureItem, UpdateItems
    <2>4. CASE ShowItemChanges \/ MenuClicked
      BY <2>4 DEF ShowItemChanges, MenuClicked, own
    <2>5. CASE \E w \in MenuWindows : PinElsewhere(w) \/ Activated(w) \/ MenuOpened(w) \/ HiddenOrShown(w)
      BY <2>5 DEF PinElsewhere, Activated, MenuOpened, HiddenOrShown, own
    <2>6. CASE UNCHANGED pinMenuVars
      BY <2>6 DEF pinMenuVars
    <2> QED
      BY <2>1, <2>2, <2>3, <2>4, <2>5, <2>6 DEF PinMenuNext
  <1>3. Remembered /\ [PinMenuNext]_pinMenuVars =>
          [hooked /\ StopPins => \A w \in adoptable : item'[w] = "none"]_pinMenuVars
    BY DEF StopPins
  <1> QED
    BY <1>1, <1>2, <1>3, PTL DEF PinMenuSpec, StopLeavesNothing
-----------------------------------------------------------------------------
(* The types: at most two events are added while there is room for one,    *)
(* and the click in the menu that opened with them.                        *)
MenuRest ==
  /\ pinnedSet \subseteq MenuWindows /\ touched \subseteq MenuWindows
  /\ lastTouched \in touched \cup {NoMenuWindow}
  /\ foreMenu \in MenuWindows \cup {NoMenuWindow}
  /\ openMenu.of \in MenuWindows \cup {NoMenuWindow}
  /\ Len(events) <= MaxMenuEvents + (IF openMenu.with THEN 1 ELSE 2)

LEMMA MenuRestTypes == MenuInv /\ MenuRest => PinMenuTypeOK
  <1> SUFFICES ASSUME MenuInv, MenuRest PROVE PinMenuTypeOK
    OBVIOUS
  <1>1. Len(events) <= MaxMenuEvents + 2
    BY PinMenuAssumption DEF MenuInv, MenuTypes, MenuRest
  <1> QED
    BY <1>1 DEF MenuInv, MenuTypes, MenuRest, PinMenuTypeOK

LEMMA MenuRestInit == PinMenuInit => MenuRest
  <1> SUFFICES ASSUME PinMenuInit PROVE MenuRest
    OBVIOUS
  <1>1. openMenu.of = NoMenuWindow /\ openMenu.with = FALSE
    BY DEF PinMenuInit, Closed
  <1>2. Len(events) = 0
    BY DEF PinMenuInit
  <1>3. Len(events) <= MaxMenuEvents + (IF openMenu.with THEN 1 ELSE 2)
    BY <1>2, PinMenuAssumption
  <1> QED
    BY <1>1, <1>3 DEF PinMenuInit, MenuRest

LEMMA MenuRestKept == MenuInv /\ MenuRest /\ [PinMenuNext]_pinMenuVars => MenuRest'
  <1> SUFFICES ASSUME MenuInv, MenuRest, [PinMenuNext]_pinMenuVars PROVE MenuRest'
    OBVIOUS
  <1> DEFINE room == MaxMenuEvents + (IF openMenu.with THEN 1 ELSE 2)
  <1>1. /\ visibleNow \subseteq MenuWindows /\ events \in Seq(MenuEvents) /\ Len(events) \in Nat
        /\ openMenu.with \in BOOLEAN /\ MaxMenuEvents \in Nat
        /\ pinnedSet \subseteq MenuWindows /\ touched \subseteq MenuWindows
        /\ lastTouched \in touched \cup {NoMenuWindow}
        /\ foreMenu \in MenuWindows \cup {NoMenuWindow}
        /\ openMenu.of \in MenuWindows \cup {NoMenuWindow}
        /\ Len(events) <= room
    BY PinMenuAssumption DEF MenuInv, MenuTypes, MenuRest
  <1>2. Closed.of = NoMenuWindow /\ Closed.with = FALSE
    BY DEF Closed
  <1>3. room \in {MaxMenuEvents + 1, MaxMenuEvents + 2} /\ (~openMenu.with => room = MaxMenuEvents + 2)
    OBVIOUS
  <1>4. openMenu' = Closed => /\ openMenu'.of \in MenuWindows \cup {NoMenuWindow}
                              /\ room' = MaxMenuEvents + 2
    BY <1>2
  <1>5. CASE StartPins
    <2>1. touched' = touched \cup (IF showItem THEN visibleNow ELSE {})
      BY <1>5 DEF StartPins, UpdateItems
    <2>2. UNCHANGED <<pinnedSet, lastTouched, foreMenu, events>> /\ openMenu' = Closed
      BY <1>5 DEF StartPins
    <2> QED
      BY <1>1, <1>3, <1>4, <2>1, <2>2 DEF MenuRest
  <1>6. CASE StopPins \/ KillPins
    <2>1. /\ touched' = {} /\ pinnedSet' = {} /\ lastTouched' = NoMenuWindow /\ events' = <<>>
          /\ UNCHANGED <<foreMenu, openMenu>>
      BY <1>6 DEF StopPins, KillPins
    <2>2. Len(events') = 0
      BY <2>1
    <2>3. Len(events') <= room'
      BY <1>1, <1>3, <2>1, <2>2
    <2> QED
      BY <1>1, <2>1, <2>3 DEF MenuRest
  <1>7. CASE HookProc
    <2> DEFINE e == Head(events)
    <2>1. /\ events # <<>> /\ events' = Tail(events) /\ UNCHANGED <<foreMenu, openMenu>>
      BY <1>7 DEF HookProc
    <2>2. e \in MenuEvents /\ Len(events') <= Len(events) /\ Len(events') \in Nat
      BY <1>1, <2>1
    <2>3. e.window \in MenuWindows
      BY <2>2 DEF MenuEvents
    <2>4. Len(events') <= room'
      BY <1>1, <1>3, <2>1, <2>2
    <2>5. CASE e.kind = "invoked"
      <3>1. PICK named \in MenuWindows \cup {NoMenuWindow} : Invoked(e.window, named)
        BY <1>7, <2>5 DEF HookProc
      <3>2. UNCHANGED <<touched, lastTouched>>
        BY <1>7, <2>5 DEF HookProc
      <3>3. Candidate(named) \in MenuWindows \cup {NoMenuWindow}
        BY <1>1 DEF Candidate
      <3>4. pinnedSet' \subseteq MenuWindows
        BY <1>1, <3>1, <3>3 DEF Invoked, Carries
      <3> QED
        BY <1>1, <2>1, <2>4, <3>2, <3>4 DEF MenuRest
    <2>6. CASE e.kind # "invoked"
      <3>1. EnsureItem(e.window) /\ UNCHANGED pinnedSet
        BY <1>7, <2>6 DEF HookProc
      <3>2. touched' \subseteq MenuWindows /\ lastTouched' \in touched' \cup {NoMenuWindow}
        BY <1>1, <2>3, <3>1 DEF EnsureItem, UpdateItems
      <3> QED
        BY <1>1, <2>1, <2>4, <3>1, <3>2 DEF MenuRest
    <2> QED
      BY <2>5, <2>6
  <1>8. CASE ShowItemChanges
    <2>1. UNCHANGED <<pinnedSet, touched, lastTouched, foreMenu, events>> /\ openMenu' = Closed
      BY <1>8 DEF ShowItemChanges
    <2> QED
      BY <1>1, <1>3, <1>4, <2>1 DEF MenuRest
  <1>9. CASE MenuClicked
    <2> DEFINE click == [kind |-> "invoked", window |-> openMenu.of]
    <2>1. /\ openMenu.with /\ openMenu' = Closed
          /\ UNCHANGED <<pinnedSet, touched, lastTouched, foreMenu>>
          /\ events' = IF hooked THEN events \o <<click>> ELSE events
      BY <1>9 DEF MenuClicked, own, Heard
    <2>2. click \in MenuEvents
      BY <2>1 DEF MenuInv, MenuTypes, MenuEvents
    <2> HIDE DEF click
    <2>3. Len(events') <= Len(events) + 1 /\ Len(events') \in Nat
      BY <1>1, <2>1, <2>2
    <2>4. Len(events') <= room'
      BY <1>1, <1>3, <1>4, <2>1, <2>3
    <2> QED
      BY <1>1, <1>4, <2>1, <2>4 DEF MenuRest
  <1>10. ASSUME NEW w \in MenuWindows, PinElsewhere(w)
         PROVE  MenuRest'
    <2>1. /\ UNCHANGED <<touched, lastTouched, foreMenu, openMenu, events>>
          /\ pinnedSet' \subseteq MenuWindows
      BY <1>1, <1>10 DEF PinElsewhere
    <2> QED
      BY <1>1, <2>1 DEF MenuRest
  <1>11. ASSUME NEW w \in MenuWindows, Activated(w) \/ MenuOpened(w)
         PROVE  MenuRest'
    <2> DEFINE fg == [kind |-> "foreground", window |-> w]
               ms == [kind |-> "menustart", window |-> w]
    <2>1. fg \in MenuEvents /\ ms \in MenuEvents
      BY DEF MenuEvents
    <2>2. /\ Len(events) < MaxMenuEvents /\ foreMenu' = w
          /\ UNCHANGED <<pinnedSet, touched, lastTouched>>
      BY <1>11 DEF Activated, MenuOpened, own
    <2>3. openMenu'.of \in MenuWindows \cup {NoMenuWindow}
      BY <1>4, <1>11 DEF Activated, MenuOpened
    <2>4. \/ events' = events \/ events' = events \o <<fg>> \/ events' = events \o (<<>> \o <<ms>>)
          \/ events' = events \o (<<fg>> \o <<ms>>) \/ events' = events \o <<>>
      BY <1>11 DEF Activated, MenuOpened, Heard, Foreground
    <2> HIDE DEF fg, ms
    <2>5. Len(events') \in Nat /\ Len(events') <= Len(events) + 2
      BY <1>1, <2>1, <2>4
    <2>6. room' \in {MaxMenuEvents + 1, MaxMenuEvents + 2}
      OBVIOUS
    <2>7. Len(events') <= room'
      BY <1>1, <2>2, <2>5, <2>6
    <2> QED
      BY <1>1, <2>2, <2>3, <2>7 DEF MenuRest
  <1>12. ASSUME NEW w \in MenuWindows, HiddenOrShown(w)
         PROVE  MenuRest'
    <2>1. /\ UNCHANGED <<pinnedSet, touched, lastTouched, events>>
          /\ foreMenu' \in MenuWindows \cup {NoMenuWindow}
          /\ openMenu' = openMenu \/ openMenu' = Closed
      BY <1>1, <1>12 DEF HiddenOrShown, own
    <2>2. openMenu'.of \in MenuWindows \cup {NoMenuWindow} /\ Len(events') <= room'
      BY <1>1, <1>3, <1>4, <2>1
    <2> QED
      BY <1>1, <2>1, <2>2 DEF MenuRest
  <1>13. CASE UNCHANGED pinMenuVars
    BY <1>1, <1>13 DEF pinMenuVars, MenuRest
  <1> QED
    BY <1>5, <1>6, <1>7, <1>8, <1>9, <1>10, <1>11, <1>12, <1>13 DEF PinMenuNext
-----------------------------------------------------------------------------
(***************************************************************************)
(* The types.                                                              *)
(***************************************************************************)
(* Only a living process holds or probes the mutex or is asked to quit:    *)
(* one that installs ends without giving up a handle, having taken none.   *)
Holding(p) ==
  /\ p \in handles \cup quitting \cup probing => stage[p] # "off"
  /\ p \in probing => stage[p] = "probed"
  /\ p \in handles => launch[p].kind \notin Installing
  /\ stage[p] \in {"replacing", "claiming"} => launch[p].kind \notin Installing
  /\ stage[p] = "copying" => launch[p].kind \in Installing

ProcessInv ==
  /\ InstanceTypes /\ installed \in BOOLEAN
  /\ handles \cup quitting \cup probing \subseteq Procs
  /\ \A p \in Procs : Holding(p)

LEMMA ProcessInvInit == InstanceInit => ProcessInv
  <1> SUFFICES ASSUME InstanceInit PROVE ProcessInv
    OBVIOUS
  <1>1. installed \in BOOLEAN
    BY DEF InstanceInit
  <1>2. handles = {} /\ probing = {} /\ quitting = {}
    BY DEF InstanceInit
  <1>3. InstanceTypes
    BY DEF InstanceInit, InstanceTypes, NotLaunched, Images, Commands, Stages
  <1>4. \A p \in Procs : stage[p] = "off"
    BY DEF InstanceInit
  <1> QED
    BY <1>1, <1>2, <1>3, <1>4 DEF ProcessInv, Holding

LEMMA ProcessInvTypes == ProcessInv => InstanceTypeOK
  BY DEF ProcessInv, Holding, InstanceTypes, InstanceTypeOK, Alive

LEMMA FoundAreAlive ==
    ASSUME NEW p \in Procs
    PROVE  Found(p) \subseteq Procs \ {p} /\ \A q \in Found(p) : stage[q] # "off"
  BY DEF Found, Alive

(* A step of p alone, by which it goes to s and is started as l says.      *)
LEMMA AloneKeeps ==
    ASSUME ProcessInv, NEW p \in Procs, NEW s \in Stages, Goes(p, s),
           NEW l \in [file : Images, kind : Commands], launch' = [launch EXCEPT ![p] = l],
           victims' \in [Procs -> SUBSET Procs], installed' \in BOOLEAN,
           handles' \ {p} \subseteq handles, probing' \ {p} \subseteq probing,
           \A q \in quitting' \ {p} : q \in Procs /\ stage[q] # "off",
           s = "off" => p \notin handles' \cup quitting' \cup probing',
           p \in probing' => s = "probed",
           p \in handles' => l.kind \notin Installing,
           s \in {"replacing", "claiming"} => l.kind \notin Installing,
           s = "copying" => l.kind \in Installing
    PROVE  ProcessInv'
  <1>1. /\ \A q \in Procs : stage'[q] = IF q = p THEN s ELSE stage[q]
        /\ \A q \in Procs : launch'[q] = IF q = p THEN l ELSE launch[q]
    BY DEF ProcessInv, InstanceTypes, Goes
  <1>2. InstanceTypes'
    BY DEF ProcessInv, InstanceTypes, Goes
  <1>3. (handles \cup quitting \cup probing)' \subseteq Procs
    BY DEF ProcessInv
  <1>4. ASSUME NEW q \in Procs PROVE Holding(q)'
    <2>1. Holding(q)
      BY DEF ProcessInv
    <2>2. CASE q = p
      BY <1>1, <2>2 DEF Holding
    <2>3. CASE q # p
      BY <1>1, <2>1, <2>3 DEF Holding
    <2> QED
      BY <2>2, <2>3
  <1> QED
    BY <1>2, <1>3, <1>4 DEF ProcessInv

(* The same when how p was started stays.                                  *)
LEMMA MoveTyped ==
    ASSUME ProcessInv, NEW p \in Procs, NEW s \in Stages, Goes(p, s), launch' = launch,
           victims' \in [Procs -> SUBSET Procs], installed' \in BOOLEAN,
           handles' \ {p} \subseteq handles, probing' \ {p} \subseteq probing,
           \A q \in quitting' \ {p} : q \in Procs /\ stage[q] # "off",
           s # "off", p \in probing' => s = "probed",
           p \in handles' => launch[p].kind \notin Installing,
           s \in {"replacing", "claiming"} => launch[p].kind \notin Installing,
           s = "copying" => launch[p].kind \in Installing
    PROVE  ProcessInv'
  <1>1. launch' = [launch EXCEPT ![p] = launch[p]] /\ launch[p] \in [file : Images, kind : Commands]
    BY DEF ProcessInv, InstanceTypes
  <1> QED
    BY <1>1, AloneKeeps

LEMMA EndKeeps ==
    ASSUME ProcessInv, NEW p \in Procs, Ended(p), p \notin probing,
           probing' = probing, victims' = victims, installed' \in BOOLEAN
    PROVE  ProcessInv'
  <1>1. NotLaunched \in [file : Images, kind : Commands] /\ "off" \in Stages
    BY DEF NotLaunched, Images, Commands, Stages
  <1>2. victims' \in [Procs -> SUBSET Procs] /\ \A q \in quitting : q \in Procs /\ stage[q] # "off"
    BY DEF ProcessInv, InstanceTypes, Holding
  <1>3. NotLaunched.kind \notin Installing
    BY DEF NotLaunched, Installing
  <1> QED
    BY <1>1, <1>2, <1>3, AloneKeeps DEF Ended

(* The mutex: probing, waiting for it and taking it.                       *)
LEMMA MutexStepsTyped ==
    ASSUME ProcessInv, NEW p \in Procs,
           \/ Replacing(p) \/ ReplaceProbed(p) \/ Claim(p) \/ StoppedAll(p)
           \/ WaitForSingletonRelease(p) \/ StopProbed(p) \/ Quit(p)
    PROVE  ProcessInv'
  <1>1. /\ Holding(p) /\ \A q \in quitting : q \in Procs /\ stage[q] # "off"
        /\ victims \in [Procs -> SUBSET Procs] /\ installed \in BOOLEAN
    BY DEF ProcessInv, Holding, InstanceTypes
  <1>2. \A s \in {"probed", "claiming", "second", "purging", "running", "waiting", "leaving",
                  "copying", "removing"} : s \in Stages
    BY DEF Stages
  <1>3. CASE Replacing(p)
    <2>1. \E s \in {"probed", "claiming"} :
            /\ Goes(p, s)
            /\ probing' = IF s = "probed" THEN probing \cup {p} ELSE probing
      BY <1>3 DEF Replacing
    <2>2. /\ UNCHANGED <<launch, handles, quitting, victims, installed>> /\ stage[p] = "replacing"
      BY <1>3 DEF Replacing, At
    <2> QED
      BY <1>1, <1>2, <2>1, <2>2, MoveTyped DEF Holding
  <1>4. CASE ReplaceProbed(p)
    <2>1. /\ UNCHANGED <<launch, handles, quitting, victims, installed>> /\ Goes(p, "claiming")
          /\ probing' = probing \ {p} /\ launch[p].kind \notin Installing
      BY <1>4 DEF ReplaceProbed, At, Installing
    <2> QED
      BY <1>1, <1>2, <2>1, MoveTyped DEF Holding
  <1>5. CASE Claim(p)
    <2>1. PICK s \in {"second", "purging", "running"} : Goes(p, s)
      BY <1>5 DEF Claim
    <2>2. /\ UNCHANGED <<launch, probing, quitting, victims, installed>>
          /\ handles' = handles \cup {p} /\ stage[p] = "claiming"
      BY <1>5 DEF Claim, At
    <2> QED
      BY <1>1, <1>2, <2>1, <2>2, MoveTyped DEF Holding
  <1>6. CASE StoppedAll(p)
    <2>1. /\ UNCHANGED <<launch, handles, probing, quitting, victims, installed>>
          /\ Goes(p, "waiting") /\ stage[p] = "stopping"
      BY <1>6 DEF StoppedAll, At
    <2> QED
      BY <1>1, <1>2, <2>1, MoveTyped DEF Holding
  <1>7. /\ AfterStopping(p) \in {"copying", "removing", "running"}
        /\ AfterStopping(p) = "copying" => launch[p].kind \in Installing
    BY DEF AfterStopping, Installing
  <1>8. CASE WaitForSingletonRelease(p)
    <2>1. \/ Goes(p, "probed") /\ probing' = probing \cup {p}
          \/ Goes(p, AfterStopping(p)) /\ probing' = probing
      BY <1>8 DEF WaitForSingletonRelease
    <2>2. /\ UNCHANGED <<launch, handles, quitting, victims, installed>> /\ stage[p] = "waiting"
      BY <1>8 DEF WaitForSingletonRelease, At
    <2>3. CASE Goes(p, "probed") /\ probing' = probing \cup {p}
      BY <1>1, <1>2, <2>2, <2>3, MoveTyped DEF Holding
    <2>4. CASE Goes(p, AfterStopping(p)) /\ probing' = probing
      <3> DEFINE s == AfterStopping(p)
      <3> HIDE DEF s
      <3>1. s \in Stages /\ s \notin {"off", "replacing", "claiming"}
        BY <1>2, <1>7 DEF s
      <3> QED
        BY <1>1, <1>7, <2>2, <2>4, <3>1, MoveTyped DEF Holding, s
    <2> QED
      BY <2>1, <2>3, <2>4
  <1>9. CASE StopProbed(p)
    <2> DEFINE s == AfterStopping(p)
    <2>1. /\ UNCHANGED <<launch, handles, quitting, victims, installed>> /\ Goes(p, s)
          /\ probing' = probing \ {p}
      BY <1>9 DEF StopProbed
    <2> HIDE DEF s
    <2>2. s \in Stages /\ s \notin {"off", "replacing", "claiming"}
      BY <1>2, <1>7 DEF s
    <2> QED
      BY <1>1, <1>7, <2>1, <2>2, MoveTyped DEF Holding, s
  <1>10. CASE Quit(p)
    <2>1. /\ UNCHANGED <<launch, handles, probing, victims, installed>> /\ Goes(p, "leaving")
          /\ stage[p] = "running" /\ quitting' = quitting \ {p}
      BY <1>10 DEF Quit, At
    <2> QED
      BY <1>1, <1>2, <2>1, MoveTyped DEF Holding
  <1> QED
    BY <1>3, <1>4, <1>5, <1>6, <1>8, <1>9, <1>10

(* The second launch asks and is answered; processes end.                  *)
LEMMA EndingStepsTyped ==
    ASSUME ProcessInv, NEW p \in Procs,
           Second(p) \/ Answer(p) \/ Leave(p) \/ Removing(p) \/ Purging(p)
    PROVE  ProcessInv'
  <1>1. /\ Holding(p) /\ \A q \in quitting : q \in Procs /\ stage[q] # "off"
        /\ victims \in [Procs -> SUBSET Procs] /\ installed \in BOOLEAN
    BY DEF ProcessInv, Holding, InstanceTypes
  <1>2. "purging" \in Stages /\ "asking" \in Stages /\ "running" \in Stages /\ "stopping" \in Stages
    BY DEF Stages
  <1>3. CASE Leave(p) \/ Removing(p) \/ Purging(p)
    <2>1. /\ Ended(p) /\ UNCHANGED <<probing, victims>> /\ stage[p] # "probed"
          /\ installed' \in BOOLEAN
      BY <1>1, <1>3 DEF Leave, Removing, Purging, At
    <2> QED
      BY <1>1, <2>1, EndKeeps DEF Holding
  <1>4. CASE Second(p)
    <2>1. UNCHANGED <<probing, victims, installed>> /\ stage[p] = "second"
      BY <1>4 DEF Second, At
    <2>2. CASE /\ quitting' = quitting \cup {q \in Found(p) : stage[q] = "running"}
               /\ Goes(p, "purging") /\ UNCHANGED <<handles, launch>>
      <3>1. \A q \in quitting' \ {p} : q \in Procs /\ stage[q] # "off"
        BY <1>1, <2>2, FoundAreAlive
      <3> QED
        BY <1>1, <1>2, <2>1, <2>2, <3>1, MoveTyped DEF Holding
    <2>3. CASE Goes(p, "asking") /\ UNCHANGED <<handles, quitting, launch>>
      BY <1>1, <1>2, <2>1, <2>3, MoveTyped DEF Holding
    <2>4. CASE Ended(p)
      BY <1>1, <2>1, <2>4, EndKeeps DEF Holding
    <2> QED
      BY <1>4, <2>2, <2>3, <2>4 DEF Second
  <1>5. CASE Answer(p)
    <2>1. UNCHANGED <<probing, installed>> /\ stage[p] = "asking"
      BY <1>5 DEF Answer, At
    <2>2. CASE Ended(p) /\ UNCHANGED victims
      BY <1>1, <2>1, <2>2, EndKeeps DEF Holding
    <2>3. CASE ~(Ended(p) /\ UNCHANGED victims)
      <3>1. /\ quitting' = quitting \cup {q \in Found(p) : stage[q] = "running"}
            /\ victims' = [victims EXCEPT ![p] = Found(p)]
            /\ UNCHANGED <<handles, launch>>
        BY <1>5, <2>3 DEF Answer
      <3>2. PICK s \in {"running", "stopping"} : Goes(p, s)
        BY <1>5, <2>3 DEF Answer
      <3>3. victims' \in [Procs -> SUBSET Procs]
        BY <1>1, <3>1, FoundAreAlive
      <3>4. \A q \in quitting' \ {p} : q \in Procs /\ stage[q] # "off"
        BY <1>1, <3>1, FoundAreAlive
      <3> QED
        BY <1>1, <1>2, <2>1, <3>1, <3>2, <3>3, <3>4, MoveTyped DEF Holding
    <2> QED
      BY <2>2, <2>3
  <1> QED
    BY <1>3, <1>4, <1>5

(* Starting from outside.                                                  *)
LEMMA StartStepsTyped ==
    ASSUME ProcessInv, NEW p \in Procs,
           \/ AtLogon(p)
           \/ \E file \in Images \ {"staged"}, kind \in Commands : UserStarts(p, file, kind)
    PROVE  ProcessInv'
  <1>1. /\ Holding(p) /\ \A q \in quitting : q \in Procs /\ stage[q] # "off"
        /\ victims \in [Procs -> SUBSET Procs] /\ installed \in BOOLEAN
    BY DEF ProcessInv, Holding, InstanceTypes
  <1>2. CASE AtLogon(p)
    <2> DEFINE l == [file |-> "installed", kind |-> "autostart"]
    <2>1. /\ stage[p] = "off" /\ launch' = [launch EXCEPT ![p] = l] /\ Goes(p, "claiming")
          /\ UNCHANGED <<handles, probing, quitting, victims, installed>>
      BY <1>2 DEF AtLogon, Started
    <2>2. l \in [file : Images, kind : Commands] /\ l.kind \notin Installing
      BY DEF Images, Commands, Installing
    <2>3. "claiming" \in Stages
      BY DEF Stages
    <2> HIDE DEF l
    <2> QED
      BY <1>1, <2>1, <2>2, <2>3, AloneKeeps DEF Holding
  <1>3. ASSUME NEW file \in Images \ {"staged"}, NEW kind \in Commands, UserStarts(p, file, kind)
        PROVE  ProcessInv'
    <2> DEFINE l == [file |-> file, kind |-> kind]
    <2>1. /\ stage[p] = "off" /\ launch' = [launch EXCEPT ![p] = l]
          /\ UNCHANGED <<handles, probing, installed>>
      BY <1>3 DEF UserStarts, Started
    <2>2. PICK s : /\ Goes(p, s) /\ s \in Stages \ {"off", "replacing"}
                   /\ s = "claiming" => kind \notin Installing
                   /\ s = "copying" => kind \in Installing
      <3>1. kind # "replace" /\ kind # "uninstall"
        BY <1>3 DEF UserStarts
      <3>2. Entry(kind) \in Stages \ {"off", "replacing", "copying"}
        BY <3>1 DEF Entry, Stages
      <3>3. Entry(kind) = "claiming" => kind \notin Installing
        BY <3>1 DEF Entry, Installing
      <3>4. CASE kind = "install" /\ Found(p) = {}
        BY <1>3, <3>4 DEF UserStarts, Stages, Installing
      <3>5. CASE ~(kind = "install" /\ Found(p) = {})
        BY <1>3, <3>2, <3>3, <3>5 DEF UserStarts
      <3> QED
        BY <3>4, <3>5
    <2>3. victims' \in [Procs -> SUBSET Procs]
      BY <1>1, <1>3, FoundAreAlive DEF UserStarts
    <2>4. \A q \in quitting' \ {p} : q \in Procs /\ stage[q] # "off"
      BY <1>1, <1>3, FoundAreAlive DEF UserStarts
    <2>5. l \in [file : Images, kind : Commands] /\ l.kind = kind
      OBVIOUS
    <2> HIDE DEF l
    <2> QED
      BY <1>1, <2>1, <2>2, <2>3, <2>4, <2>5, AloneKeeps DEF Holding
  <1> QED
    BY <1>2, <1>3

(* A process starts another and itself moves on, or ends.                  *)
LEMMA PairKeeps ==
    ASSUME ProcessInv, NEW p \in Procs, NEW q \in Procs, p # q,
           NEW s \in Stages, NEW r \in Stages,
           stage' = [stage EXCEPT ![q] = s, ![p] = r],
           NEW l \in [file : Images, kind : Commands], NEW k \in [file : Images, kind : Commands],
           launch' = [launch EXCEPT ![q] = l, ![p] = k],
           victims' \in [Procs -> SUBSET Procs], installed' \in BOOLEAN,
           handles' = handles, probing' = probing, q \notin handles \cup probing, p \notin probing,
           \A x \in quitting' \ {q} : x \in Procs /\ stage[x] # "off" /\ (x = p => r # "off"),
           s # "off", r = "off" => p \notin handles,
           s \in {"replacing", "claiming"} => l.kind \notin Installing, s # "copying",
           r \notin {"replacing", "claiming", "copying"},
           p \in handles => k.kind \notin Installing
    PROVE  ProcessInv'
  <1>1. /\ \A x \in Procs : stage'[x] = IF x = p THEN r ELSE IF x = q THEN s ELSE stage[x]
        /\ \A x \in Procs : launch'[x] = IF x = p THEN k ELSE IF x = q THEN l ELSE launch[x]
    BY DEF ProcessInv, InstanceTypes
  <1>2. InstanceTypes'
    BY DEF ProcessInv, InstanceTypes
  <1>3. (handles \cup quitting \cup probing)' \subseteq Procs
    BY DEF ProcessInv
  <1>4. ASSUME NEW x \in Procs PROVE Holding(x)'
    <2>1. Holding(x)
      BY DEF ProcessInv
    <2>2. CASE x = p
      BY <1>1, <2>1, <2>2 DEF Holding
    <2>3. CASE x = q
      BY <1>1, <2>1, <2>3 DEF Holding
    <2>4. CASE x # p /\ x # q
      BY <1>1, <2>1, <2>4 DEF Holding
    <2> QED
      BY <2>2, <2>3, <2>4
  <1> QED
    BY <1>2, <1>3, <1>4 DEF ProcessInv

(* The same when the one goes on to leave.                                 *)
LEMMA LeavesBehind ==
    ASSUME ProcessInv, NEW p \in Procs, NEW q \in Procs, stage[p] = "running", stage[q] = "off",
           NEW s \in {"replacing", "stopping"},
           stage' = [stage EXCEPT ![q] = s, ![p] = "leaving"],
           NEW l \in [file : Images, kind : Commands], launch' = [launch EXCEPT ![q] = l],
           s = "replacing" => l.kind \notin Installing,
           victims' \in [Procs -> SUBSET Procs], installed' \in BOOLEAN,
           handles' = handles, probing' = probing,
           \A x \in quitting' : x \in Procs /\ stage[x] # "off"
    PROVE  ProcessInv'
  <1>1. /\ launch \in [Procs -> [file : Images, kind : Commands]] /\ p # q
        /\ stage \in [Procs -> Stages] /\ handles \cup quitting \cup probing \subseteq Procs
        /\ \A x \in Procs : Holding(x)
    BY DEF ProcessInv, InstanceTypes
  <1>2. /\ \A x \in Procs : stage'[x] = IF x = p THEN "leaving" ELSE IF x = q THEN s ELSE stage[x]
        /\ \A x \in Procs : launch'[x] = IF x = q THEN l ELSE launch[x]
    BY <1>1
  <1>3. s \in Stages /\ "leaving" \in Stages
    BY DEF Stages
  <1>4. InstanceTypes'
    BY <1>1, <1>3 DEF InstanceTypes
  <1>5. (handles \cup quitting \cup probing)' \subseteq Procs
    BY <1>1
  <1>6. ASSUME NEW x \in Procs PROVE Holding(x)'
    <2>1. CASE x = p
      BY <1>1, <1>2, <2>1 DEF Holding
    <2>2. CASE x # p
      BY <1>1, <1>2, <2>2 DEF Holding
    <2> QED
      BY <2>1, <2>2
  <1> QED
    BY <1>4, <1>5, <1>6 DEF ProcessInv

LEMMA TrayStepsTyped ==
    ASSUME ProcessInv, NEW p \in Procs, NEW q \in Procs \cup {NoProc},
           TrayInstall(p, q) \/ Copying(p, q) \/ (q \in Procs /\ TrayUninstall(p, q))
    PROVE  ProcessInv'
  <1>1. /\ Holding(p) /\ \A x \in quitting : x \in Procs /\ stage[x] # "off"
        /\ q \in Procs => Holding(q)
        /\ victims \in [Procs -> SUBSET Procs] /\ installed \in BOOLEAN
        /\ launch \in [Procs -> [file : Images, kind : Commands]]
        /\ stage \in [Procs -> Stages]
    BY DEF ProcessInv, Holding, InstanceTypes
  <1> DEFINE l == [file |-> "installed", kind |-> "replace"]
             u == [file |-> "staged", kind |-> "uninstall"]
  <1>2. /\ l \in [file : Images, kind : Commands] /\ l.kind \notin Installing
        /\ u \in [file : Images, kind : Commands]
        /\ NotLaunched \in [file : Images, kind : Commands]
        /\ NotLaunched.kind \notin Installing
    BY DEF Images, Commands, Installing, NotLaunched
  <1>3. "replacing" \in Stages /\ "leaving" \in Stages /\ "off" \in Stages /\ "stopping" \in Stages
    BY DEF Stages
  <1> HIDE DEF l, u
  <1>4. CASE TrayInstall(p, q)
    <2>1. /\ stage[p] = "running" /\ UNCHANGED <<handles, probing, quitting, victims>>
          /\ installed' \in BOOLEAN
      BY <1>1, <1>4 DEF TrayInstall, At
    <2>2. CASE /\ stage' = [stage EXCEPT ![q] = "replacing", ![p] = "leaving"]
               /\ Started(q, "installed", "replace")
      <3>1. q \in Procs /\ stage[q] = "off" /\ launch' = [launch EXCEPT ![q] = l] /\ p # q
        BY <2>1, <2>2 DEF Started, l
      <3>2. victims' \in [Procs -> SUBSET Procs] /\ quitting' = quitting
        BY <1>1, <2>1
      <3> QED
        BY <1>1, <1>2, <2>1, <2>2, <3>1, <3>2, LeavesBehind
    <2>3. CASE UNCHANGED <<stage, launch>>
      BY <2>1, <2>3 DEF ProcessInv, InstanceTypes, Holding
    <2> QED
      BY <1>4, <2>2, <2>3 DEF TrayInstall
  <1>5. CASE Copying(p, q)
    <2>1. /\ stage[p] = "copying" /\ UNCHANGED <<handles, probing, victims>>
          /\ installed' \in BOOLEAN /\ quitting' = quitting \ {p} /\ p \notin handles
      BY <1>1, <1>5 DEF Copying, At, Holding
    <2>2. CASE /\ q # p /\ q \in Procs /\ stage[q] = "off"
               /\ launch' = [launch EXCEPT ![q] = l, ![p] = NotLaunched]
               /\ stage' = [stage EXCEPT ![q] = "replacing", ![p] = "off"]
      BY <1>1, <1>2, <1>3, <2>1, <2>2, PairKeeps DEF Holding
    <2>3. CASE Goes(p, "off") /\ launch' = [launch EXCEPT ![p] = NotLaunched]
      BY <1>1, <1>2, <1>3, <2>1, <2>3, AloneKeeps DEF Holding
    <2> QED
      BY <1>5, <2>2, <2>3 DEF Copying, l
  <1>6. CASE q \in Procs /\ TrayUninstall(p, q)
    <2>1. /\ stage[p] = "running" /\ stage[q] = "off" /\ p # q
          /\ UNCHANGED <<handles, probing, installed>> /\ launch' = [launch EXCEPT ![q] = u]
          /\ stage' = [stage EXCEPT ![q] = "stopping", ![p] = "leaving"]
          /\ victims' = [victims EXCEPT ![q] = Found(q)]
          /\ quitting' = quitting \cup {x \in Found(q) \ {p} : stage[x] = "running"}
      BY <1>6 DEF TrayUninstall, At, Started, u
    <2>2. victims' \in [Procs -> SUBSET Procs]
      BY <1>1, <1>6, <2>1, FoundAreAlive
    <2>3. \A x \in quitting' : x \in Procs /\ stage[x] # "off"
      BY <1>1, <1>6, <2>1, FoundAreAlive
    <2>4. installed' \in BOOLEAN
      BY <1>1, <2>1
    <2> QED
      BY <1>2, <1>6, <2>1, <2>2, <2>3, <2>4, LeavesBehind
  <1> QED
    BY <1>4, <1>5, <1>6

(* A process that is stopped loses all it held.                            *)
LEMMA StopStepsTyped ==
    ASSUME ProcessInv, NEW p \in Procs, StopOne(p)
    PROVE  ProcessInv'
  <1>1. /\ victims \in [Procs -> SUBSET Procs] /\ installed' \in BOOLEAN
    BY DEF ProcessInv, InstanceTypes, StopOne
  <1>2. PICK q \in victims[p] :
          \/ /\ stage' = [stage EXCEPT ![q] = "off"]
             /\ launch' = [launch EXCEPT ![q] = NotLaunched]
             /\ victims' = [victims EXCEPT ![p] = @ \ {q}, ![q] = {}]
             /\ handles' = handles \ {q} /\ probing' = probing \ {q}
             /\ quitting' = quitting \ {q}
          \/ /\ victims' = [victims EXCEPT ![p] = @ \ {q}]
             /\ UNCHANGED <<stage, launch, handles, probing, quitting>>
    BY DEF StopOne
  <1>3. q \in Procs
    BY <1>1
  <1>4. victims' \in [Procs -> SUBSET Procs]
    BY <1>1, <1>2, <1>3
  <1>5. CASE UNCHANGED <<stage, launch, handles, probing, quitting>>
    BY <1>1, <1>4, <1>5 DEF ProcessInv, InstanceTypes, Holding
  <1>6. CASE /\ stage' = [stage EXCEPT ![q] = "off"]
             /\ launch' = [launch EXCEPT ![q] = NotLaunched]
             /\ handles' = handles \ {q} /\ probing' = probing \ {q}
             /\ quitting' = quitting \ {q}
    <2>1. NotLaunched \in [file : Images, kind : Commands] /\ "off" \in Stages
      BY DEF NotLaunched, Images, Commands, Stages
    <2>2. \A x \in quitting' \ {q} : x \in Procs /\ stage[x] # "off"
      BY <1>6 DEF ProcessInv, Holding
    <2> QED
      BY <1>1, <1>3, <1>4, <1>6, <2>1, <2>2, AloneKeeps DEF Goes
  <1> QED
    BY <1>2, <1>5, <1>6

LEMMA ProcessInvKept == ProcessInv /\ [InstanceNext]_instanceVars => ProcessInv'
  <1> SUFFICES ASSUME ProcessInv, [InstanceNext]_instanceVars PROVE ProcessInv'
    OBVIOUS
  <1>1. CASE UNCHANGED instanceVars
    BY <1>1 DEF instanceVars, ProcessInv, InstanceTypes, Holding
  <1> QED
    BY <1>1, MutexStepsTyped, EndingStepsTyped, StartStepsTyped, TrayStepsTyped, StopStepsTyped
       DEF InstanceNext
=============================================================================
