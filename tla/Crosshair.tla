------------------------------ MODULE Crosshair ------------------------------
(***************************************************************************)
(* The crosshair of the control window (WinControlWindow.cpp): picked up   *)
(* from a small handle and dropped on a window to pin it or to put it into *)
(* a group, while windows close and groups dissolve underneath.            *)
(***************************************************************************)
EXTENDS Naturals

CONSTANTS
  GrabWindows,   \* windows under the crosshair
  NoGrab,        \* 0 in WindowId
  MaxGroupId     \* bound: groups ever made

ASSUME GrabAssumption == NoGrab \notin GrabWindows /\ MaxGroupId \in Nat

VARIABLES
  grabHandle,                    \* the handle is on the screen
  grabState, grabCapture, grabTarget, grabPurpose, grabGroup,
  handleTimer, grabTimer,        \* kGrabTimeoutTimer of the handle and of hwnd_
  outlined,                      \* Coordinator::pinPreview_
  pickerOpen,                    \* a window list of drags or borders, which outlines too
  picked,                        \* the command of the menu or the panel, posted
  trackedNow, pinnedNow, groupOf, nextGroup, pinningOn   \* the Coordinator's

grabOwn == <<grabHandle, grabState, grabCapture, grabTarget, grabPurpose, grabGroup,
             handleTimer, grabTimer, outlined>>
recordNow == <<pickerOpen, trackedNow, pinnedNow, groupOf, nextGroup,
               pinningOn>>
grabVars == <<grabOwn, picked, recordNow>>

NoPick == [purpose |-> "none", group |-> 0]
Groups == {groupOf[w] : w \in GrabWindows} \ {0}

GrabInit ==
  /\ grabHandle = FALSE /\ grabState = "None" /\ grabCapture = FALSE
  /\ grabTarget = NoGrab /\ grabPurpose = "Pin" /\ grabGroup = 0
  /\ handleTimer = FALSE /\ grabTimer = FALSE /\ outlined = NoGrab /\ picked = NoPick
  /\ trackedNow = {} /\ pinnedNow = {} /\ groupOf = [w \in GrabWindows |-> 0]
  /\ nextGroup = 1 /\ pinningOn = TRUE /\ pickerOpen = FALSE
-----------------------------------------------------------------------------
\* The tray menu, or the panel: the command is posted, with the group resolved
\* when it is handled; the group may be gone by the time of the drop.
PickGrab(purpose, g) ==
  /\ picked = NoPick
  /\ purpose = "Pin" => g = 0
  /\ picked' = [purpose |-> purpose, group |-> g]
  /\ UNCHANGED <<grabOwn, recordNow>>

\* BeginGrabFromMenu and ShowGrabHandle: a handle that is waiting is used again.
BeginGrab ==
  /\ picked # NoPick /\ picked' = NoPick
  /\ IF grabState # "None" THEN UNCHANGED grabOwn
     ELSE /\ grabPurpose' = picked.purpose /\ grabGroup' = picked.group
          /\ grabHandle' = TRUE
          /\ handleTimer' = (handleTimer \/ ~grabHandle)
          /\ UNCHANGED <<grabState, grabCapture, grabTarget, grabTimer, outlined>>
  /\ UNCHANGED recordNow

DestroyGrabHandle == grabHandle' = FALSE /\ handleTimer' = FALSE

\* UpdateGrabTarget with the window under the cursor: what cannot be grabbed
\* leaves the target alone.
UpdateGrabTarget(c, before) ==
  LET target == IF c \in trackedNow THEN c ELSE before
  IN  /\ grabTarget' = target
      /\ outlined' = IF target = before THEN outlined ELSE target

StartGrabFromHandle(c) ==
  /\ grabHandle /\ grabState = "None"
  /\ grabState' = "Grabbing" /\ grabCapture' = TRUE
  /\ handleTimer' = FALSE /\ grabTimer' = TRUE
  /\ UpdateGrabTarget(c, NoGrab)
  /\ UNCHANGED <<grabHandle, grabPurpose, grabGroup, picked, recordNow>>

MoveGrab(c) ==
  /\ grabState = "Grabbing" /\ UpdateGrabTarget(c, grabTarget)
  /\ UNCHANGED <<grabHandle, grabState, grabCapture, grabPurpose, grabGroup,
                 handleTimer, grabTimer, picked, recordNow>>

\* TogglePin, which ignores untracked windows and a feature that is off.
TogglePinOf(w) ==
  /\ pinnedNow' = IF ~pinningOn \/ w \notin trackedNow THEN pinnedNow
                  ELSE IF w \in pinnedNow THEN pinnedNow \ {w} ELSE pinnedNow \cup {w}
  /\ UNCHANGED <<pickerOpen, trackedNow, groupOf, nextGroup, pinningOn>>

\* CommitGrabToGroup and JoinManualGroup: a group that is gone, like group 0,
\* becomes a new one.
JoinGroupOf(w, g) ==
  /\ IF w \notin trackedNow \/ (g # 0 /\ groupOf[w] = g) THEN UNCHANGED <<groupOf, nextGroup>>
     ELSE IF g \in Groups
          THEN groupOf' = [groupOf EXCEPT ![w] = g] /\ UNCHANGED nextGroup
          ELSE /\ nextGroup <= MaxGroupId
               /\ groupOf' = [groupOf EXCEPT ![w] = nextGroup]
               /\ nextGroup' = nextGroup + 1
  /\ UNCHANGED <<pickerOpen, trackedNow, pinnedNow, pinningOn>>

(* Mutant: only a commit takes the outline away.                           *)
EndGrabOutlined(commit) ==
  /\ grabState # "None" /\ grabState' = "None"
  /\ grabTarget' = NoGrab /\ grabCapture' = FALSE /\ grabTimer' = FALSE
  /\ DestroyGrabHandle
  /\ outlined' = IF commit THEN NoGrab ELSE outlined
  /\ IF ~commit \/ grabTarget = NoGrab THEN UNCHANGED recordNow
     ELSE IF grabPurpose = "JoinGroup" THEN JoinGroupOf(grabTarget, grabGroup)
          ELSE TogglePinOf(grabTarget)
  /\ UNCHANGED <<grabPurpose, grabGroup>>

\* EndGrab: the outline goes before the commit.
EndGrab(commit) ==
  /\ grabState # "None" /\ grabState' = "None"
  /\ grabTarget' = NoGrab /\ grabCapture' = FALSE /\ grabTimer' = FALSE
  /\ DestroyGrabHandle
  /\ outlined' = NoGrab
  /\ IF ~commit \/ grabTarget = NoGrab THEN UNCHANGED recordNow
     ELSE IF grabPurpose = "JoinGroup" THEN JoinGroupOf(grabTarget, grabGroup)
          ELSE TogglePinOf(grabTarget)
  /\ UNCHANGED <<grabPurpose, grabGroup>>

\* The release, the right button and Escape, the capture taken by another
\* window, the timer of hwnd_.
ReleaseGrab == EndGrab(TRUE) /\ UNCHANGED picked
CancelGrab == EndGrab(FALSE) /\ UNCHANGED picked
CaptureTaken == grabCapture /\ EndGrab(FALSE) /\ UNCHANGED picked
GrabTimeout == grabTimer /\ EndGrab(FALSE) /\ UNCHANGED picked

\* The handle put away before it was picked up, by hand or by its own timer.
PutHandleAway ==
  /\ grabHandle /\ grabState = "None" /\ DestroyGrabHandle
  /\ UNCHANGED <<grabState, grabCapture, grabTarget, grabPurpose, grabGroup,
                 grabTimer, outlined, picked, recordNow>>
HandleTimeout == handleTimer /\ PutHandleAway
-----------------------------------------------------------------------------
(***************************************************************************)
(* Meanwhile: windows come and go, the pin shortcut, the switch of the     *)
(* feature, groups that are left or disbanded.                             *)
(***************************************************************************)
Meanwhile == UNCHANGED <<grabOwn, picked, pickerOpen>>

WindowComes(w) ==
  /\ w \notin trackedNow /\ trackedNow' = trackedNow \cup {w}
  /\ UNCHANGED <<pinnedNow, groupOf, nextGroup, pinningOn>> /\ Meanwhile

WindowGoes(w) ==
  /\ w \in trackedNow /\ trackedNow' = trackedNow \ {w} /\ pinnedNow' = pinnedNow \ {w}
  /\ groupOf' = [groupOf EXCEPT ![w] = 0]
  /\ UNCHANGED <<nextGroup, pinningOn>> /\ Meanwhile

PinHotkeyPressed(w) ==
  /\ w \in trackedNow /\ TogglePinOf(w) /\ Meanwhile

TogglePinningFromMenu ==
  /\ pinningOn' = ~pinningOn
  /\ pinnedNow' = IF pinningOn THEN {} ELSE pinnedNow
  /\ UNCHANGED <<trackedNow, groupOf, nextGroup>> /\ Meanwhile

DisbandGroups(gs) ==
  /\ gs # {}
  /\ groupOf' = [w \in GrabWindows |-> IF groupOf[w] \in gs THEN 0 ELSE groupOf[w]]
  /\ UNCHANGED <<trackedNow, pinnedNow, nextGroup, pinningOn>> /\ Meanwhile

\* The window lists of drags and of borders, whose rows are chosen while the mouse is free.
PickerOpens ==
  /\ ~pickerOpen /\ grabState = "None" /\ pickerOpen' = TRUE
  /\ UNCHANGED <<grabOwn, picked, trackedNow, pinnedNow, groupOf, nextGroup, pinningOn>>

PickerOutlines(w, open) ==
  /\ pickerOpen /\ grabState = "None" /\ (w # NoGrab => open)
  /\ outlined' = w /\ pickerOpen' = open
  /\ UNCHANGED <<grabHandle, grabState, grabCapture, grabTarget, grabPurpose, grabGroup,
                 handleTimer, grabTimer, picked, trackedNow, pinnedNow, groupOf, nextGroup,
                 pinningOn>>

\* Stop: the handle and whatever is under way, with the process.
StopGrab ==
  /\ grabState' = "None" /\ grabTarget' = NoGrab /\ grabCapture' = FALSE
  /\ grabTimer' = FALSE /\ outlined' = NoGrab /\ picked' = NoPick /\ DestroyGrabHandle
  /\ pickerOpen' = FALSE
  /\ trackedNow' = {} /\ pinnedNow' = {} /\ groupOf' = [w \in GrabWindows |-> 0]
  /\ UNCHANGED <<grabPurpose, grabGroup, nextGroup, pinningOn>>

GrabNext ==
  \/ BeginGrab \/ ReleaseGrab \/ CancelGrab \/ CaptureTaken \/ GrabTimeout
  \/ PutHandleAway \/ HandleTimeout \/ TogglePinningFromMenu \/ StopGrab \/ PickerOpens
  \/ \E purpose \in {"Pin", "JoinGroup"}, g \in {0} \cup Groups : PickGrab(purpose, g)
  \/ \E c \in GrabWindows \cup {NoGrab} : StartGrabFromHandle(c) \/ MoveGrab(c)
  \/ \E w \in GrabWindows \cup {NoGrab}, open \in BOOLEAN : PickerOutlines(w, open)
  \/ \E w \in GrabWindows : WindowComes(w) \/ WindowGoes(w) \/ PinHotkeyPressed(w)
  \/ \E gs \in SUBSET Groups : DisbandGroups(gs)

GrabSpec == GrabInit /\ [][GrabNext]_grabVars
-----------------------------------------------------------------------------
GrabTypeOK ==
  /\ {grabHandle, grabCapture, handleTimer, grabTimer, pinningOn, pickerOpen}
        \subseteq BOOLEAN
  /\ grabState \in {"None", "Grabbing"} /\ grabPurpose \in {"Pin", "JoinGroup"}
  /\ {grabTarget, outlined} \subseteq GrabWindows \cup {NoGrab}
  /\ grabGroup \in 0..MaxGroupId /\ nextGroup \in 1..(MaxGroupId + 1)
  /\ picked \in {NoPick} \cup [purpose : {"Pin", "JoinGroup"}, group : 0..MaxGroupId]
  /\ trackedNow \subseteq GrabWindows /\ pinnedNow \subseteq trackedNow
  /\ groupOf \in [GrabWindows -> 0..MaxGroupId]

\* "Whatever is outlined is what gets pinned" (the comment in UpdateGrabTarget),
\* and nothing stays outlined once crosshair and window list are gone; whichever way it ends, the
\* capture goes with it, and a timer runs for as long as crosshair or handle are
\* there, so that nobody is "left clicking into nothing" (WinControlWindow.h:191).
GrabIsAccounted ==
  /\ grabTarget # NoGrab => outlined = grabTarget
  /\ grabState = "None" /\ ~pickerOpen => outlined = NoGrab
  /\ grabState = "None" => grabTarget = NoGrab /\ ~grabCapture /\ ~grabTimer
  /\ grabState = "Grabbing" => grabHandle /\ grabCapture /\ grabTimer /\ ~handleTimer
  /\ grabHandle /\ grabState = "None" => handleTimer
=============================================================================
