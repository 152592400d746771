# WindowMark in TLA+

A verification project for WindowMark, a Windows tray program that puts a strip of
bookmarks on windows of the same application, outlines windows, pins them on top, lets the
user group them by hand and drag them with a modifier key. It models the code that decides
*what* is shown, pinned, dragged, kept and saved, and the guard that widens a part of the
taskbar under a lease; painting, layout and the controls of dialogs are outside. Paths below
are relative to the program's repository, line numbers are those of the modelled commit.

## 1. Inventory

| Part | Where | State | Operations | What makes it hard |
|---|---|---|---|---|
| Event path of the window backend | `src/platform/windows/WinWindowBackend.cpp` | hooks, pending bit mask per window, wake flag, geometry timer, caches | WinEvent callback, enqueue, wake, timer, emit, resync | callbacks run inside sink calls; coalescing; throttling; hooks die silently |
| Coordinator | `src/core/Coordinator.cpp` | record of windows, ranks, active and previous window, watchdog suspects, pins, groups, selections | one handler per event kind, refreshes, watchdog, user commands, settings, start, stop | events are hints: every handler reads the desktop again, and it may have moved on |
| Pins | `src/core/PinRegistry.cpp`, `WinPinBackend.cpp` | handle -> was it topmost before; the style bit itself lives in the other program's window | toggle, unpin all, preview, apply | the state to restore must survive every order of commands; elevated and dead windows |
| UI thread | `src/platform/windows/WinMain.cpp` | message loop, watchdog timer, command handlers | all commands | handlers interleave with events only between messages |
| Border backend | `WinBorderBackend.cpp`, `WinBorderPlan.cpp`, `WinDesktopSnapshot.cpp`, `WinOverlay.cpp`, `src/core/BorderGeometry.cpp`, `BorderOcclusion.cpp` | snapshot of the desktop, one canvas per monitor, last strokes, suspension | apply, move, refresh, health tick, session events | the snapshot lags behind; suspension that is never lifted; occlusion geometry |
| Bookmark strip, preview | `WinOverlayBackend.cpp`, `WinPreviewBackend.cpp`, `src/core/LayoutEngine.cpp`, `MagneticDock.cpp` | a strip per host with hover, timers, drag and menu; one shared preview | apply, move, mouse, timers, posted commands | models arrive in the middle of a drag, a menu or an animation |
| Pin backend: menu items | `WinPinBackend.cpp` | the windows an item was put into; the item itself lives in the other program's window | start, hook events, click, stop | clicks that do not name their window; items left by a killed program |
| Drag gesture | `WinDragBackend.cpp`, `src/core/DragGeometry.cpp`, `DragModifiers.cpp` | dragging flag, target, swallowed Win key | low-level mouse and keyboard hooks, configuration | presses and releases must stay paired |
| Input-method tray guard | `WinImeTrayGuard.cpp`, `tools/ime-tray-guard/` | request, lease, recovery marker, suspension; a helper process and a library in Explorer | enable, restore, recover, tick, shutdown | leases across three processes, crash, timeouts |
| Settings | `src/core/Settings.cpp`, `ConfigLocation.cpp` | one file, several places it may be | load, save, draft of the settings page, move | crash while saving, stale drafts |
| ClipKeeper | `src/clipkeeper/` | clipboard history, sequence to ignore, rescue timer | capture, rescue, restore | busy clipboard, own changes against those of others |
| Control window, hotkeys | `WinControlWindow.cpp`, `WinSelectionDialog.cpp`, `src/core/Hotkey.cpp` | the crosshair that picks a window; the combinations held; a handle with a timer | grab, commit, cancel, shortcuts | six ways to end a grab; refusals of Windows |
| Instances, installer | `src/installer/`, `WinMain.cpp` | mutex, running processes | start, take over, install, uninstall, purge | processes started by processes |
| Dialogs, panels, tools | rest of `src/`, `tools/` | little of their own | user interface, files, reports | |

How they interact: Windows calls `WinEventProc`; `EnqueueEvent` sets a bit and posts one
wake message; `HandleWake` or `HandleGeometryTimer` lists what is pending and calls
`Coordinator::OnWindowEvent` once per event. Each handler reads the desktop through the
window backend (`EnumerateWindows`, `QueryWindow`, `QueryFrame`), updates the record and
hands complete models to the overlay, border and pin backends. Commands of the user reach
the Coordinator as plain calls from the same thread, and every five seconds the watchdog
compares the record with the desktop.

The tray guard stands apart from all this. `WinImeTrayGuard` writes a marker file, starts a
controller process and gives it a heartbeat in shared memory; the controller attaches a
component to Explorer, or sends the one that is there a new lease, and renews it while the
heartbeat is fresh; the component (the tap) overrides the width of a container on
Explorer's UI thread, and undoes it when the lease is stopped, when its controller has died
or when its time is up. Reports flow back the same way, and only a confirmed undo removes
the marker.

The remaining parts stand beside the record: the drag backend works on hooks of its own and
asks only for the excluded programs; the strips and borders get models and give back posted
commands; the settings file, ClipKeeper (a program of its own) and the control window share
with the rest only the calls named in their modules.

What makes each part correct: the event path loses nothing it accepted and holds nothing
back for ever; the record heals whatever was lost before; the backends show what the
record says; a pin can always be undone and is undone when pinning stops; groups,
selections and ranks never refer to windows that are gone; the keyboard and the strips
agree; an override of the taskbar ends soon after whoever asked for it is gone, and is marked
until it is known to be undone. No program gets half a click from the drag gesture and the
start menu works; the borders follow the desktop and never cross the window in front; a
strip comes to rest and leaves no outline or preview behind; a menu item acts on its own
window and goes with the program; what is in the file is what the program works with; every
copy is kept; at most one instance runs; whatever was outlined, captured or taken by the
control window is given back.

## 2. Modules

| Module | Models |
|---|---|
| `EventChannel` | Abstract: accepted events are owed until emitted in a batch; equal events merge; only geometry may be held back; one window's events leave together in `kOrder`. |
| `WindowBackend` | Detailed event path: bit masks, `wakePosted_`, the message in the queue, the timer, the throttle, `topLevelCache_`. Implements `EventChannel`. |
| `Desktop` | External: the windows of other programs, as `IsWindow`, `IsWindowVisible`, cloaking, `IsIconic`/`IsZoomed`, frames, `WS_EX_TOPMOST` and `GetForegroundWindow` report them. |
| `HandleMaps` | Insert and erase on maps from handles, in a form the provers can expand. |
| `Coordinator` | Every state-changing handler of `Coordinator` as an action over its members, with what it hands to the backends (`strips`, `borders`, `backendPins`). |
| `WindowMark` | Composition: desktop steps raise events into `EventChannel`; the UI thread emits batches, handles one event, runs a command or a watchdog tick. |
| `ImeLease` | The controller (`XamlContainerTrial.cpp`) and the tap (`XamlContainerTap.cpp`) with the two blocks of memory they share, Explorer, and time as ages and remaining times. |
| `ImeGuard` | Extends `ImeLease` by WindowMark's side: `WinImeTrayGuard`, `ime_guard::Client`, the marker file, the saved switch, crashes and restarts. |
| `TrayPromise` | Abstract: the container is lent to one session at a time and only unchanged; the marker goes only when nothing can be left; a confirmed change outlives the last sign of life by a bounded time. `ImeGuard` implements it. |
| `DragGesture` | `WinDragBackend`: both hooks, the modifiers, what the program below and the start menu get to see of each press and release. |
| `Rectangles`, `DragGeometry`, `BorderGeometry` | Rectangle arithmetic, drag zones, resizing, centring; rings, clamping, occlusion. Functions only. |
| `KeyNames` | How shortcuts and modifiers are spelled in the settings file (`Hotkey.cpp`, `DragModifiers.cpp`), over tokens. Functions only. |
| `SettingsStore` | The settings in memory, in the page's draft and in the files at the places they may be; saving cut off, refused, locked; the drive going away. |
| `ClipKeeper` | The clipboard, its sequence number and the messages about it, against the keeper's history, rescue and restore. |
| `BookmarkStrip` | A strip per host, the shared preview, the highlight of a drag and the commands posted by the menu. |
| `PinMenu` | The items in other programs' system menus and the events that report their clicks. |
| `SingleInstance` | Processes, the mutex, takeover, install, uninstall and purge. |
| `BorderBackend` | The desktop as it is and as the snapshot has it; plan, canvases, suspension, health tick. |
| `Crosshair`, `Shortcuts` | The grab of the control window and the window lists; the combinations it takes from Windows. |
| `MCParts`, `MCScreen` | The components that share no state, side by side in one run: `part` (`shows`) names the one that steps. |
| `MCWindowBackend`, `MCWindowMark`, `MCImeGuard` | Values of the constants for TLC. |
| `Control_proofs`, `Drag_proofs`, `ImeGuard_proofs`, `Parts_proofs`, `Screen_proofs`, `Store_proofs`, `WindowBackend_proofs`, `WindowMark_proofs` | Theorems. |

Correspondence. A member `foo_` of the class is the variable `foo`. One action is one whole
handler: `RefreshAll` contains the pruning, `ApplyPins`, `ApplyBorders` (with `PrunePins`)
and `ApplyModels` it ends in, in the effects they have in that order. `Listed` is what
`EnumerateWindows` returns when the handler runs. Early returns are guards or `UNCHANGED`
branches. In `WindowBackend` the handlers that call the sink are split at every call
(`HandleWake`, `CallSink`, `FinishWake`), because callbacks and other programs run there;
`pc` says which one is open. In `WindowMark` a batch is delivered event by event, the
desktop may change between two events and between an event and the handler of it, and
commands and ticks wait until the batch is empty, as in the message loop.

In `ImeLease` a step is what one process does between two accesses of shared memory that
the others can tell apart: the controller's round is `Renew`, `ReportClient`, `Check`, and
`Leave` is the exit after the last report; a report of four fields is one step. The tap's
timer, its messages and `WM_COPYDATA` are one step each, since they run on one thread.
`ctl` says where a controller is, `shared` whose lease the tap holds, `dirty` whose override
stands. The handlers of `ImeGuard` are whole, except that `Client::Tick` is split between
reading the report and asking whether the controller has exited (`TickReads`, then
`TickGoesOn` or `TickEnds`). `Restore` stands for `Pause` too, which differs in what it
tells the user. `Faults` lists what may go wrong besides: killed controllers, a hung or
restarting Explorer, failing attachments, undos, removals, a lost container, the 24-hour
limit, crashes of WindowMark.

In the modules of the second group the handlers are whole too, and the steps of the outside
world (a mouse button, a program that writes the clipboard, a killed process) are actions of
their own. Where a handler gives way in the middle the model splits it: a save is cut off by
the end of the process with whatever `CutShort` leaves; ClipKeeper's restore stops between
closing the clipboard and reading its number (`doing`), with the message of its own write
still to be handled inside `CloseClipboard` (`closing`) or handled, or left to come (`number`);
a strip's menu runs a message loop
(`menu`), and its command is a message that arrives later (`commands`); stopping running
instances waits for each of them (`victims`). Some variables record the past for the
properties only: `orphans`, `winBurned`, `snatched`, `disturbed`, `doubtful`, `chosen`,
`kept`, `mistaken`, `behindPage`, `adoptable`, `toggledOther`, `unpainted`.

Each operator marked "Mutant" is a variant of the definition after it with one plausible
slip. The runs must fail when it takes the definition's place; it is otherwise unused.

Kept from the data: handles, executables, an interval for the frame (rectangles where the
geometry is the matter), placement, the switches and lists of the settings that a handler
reads; of the rest of the settings one value of the settings page. Texts and images are kinds
with a size; a strip's enlargement is none, partial or full; two Win keys are one key.
Left out: titles, colours, custom labels, layout, tray order, the DWM caches of one query,
`forceIncludeClasses`, and `WindowInfo.visible`, which is true for every window that is
returned.

## 3. Runs

All with two workers. Bounds are named constants: `MaxChanges` (desktop changes),
`MaxGroup` (group numbers handed out), `Tolerance` (the watchdog's two pixels).

| Run | Instance | Checks |
|---|---|---|
| `backend` | 2 windows, a visibility and a geometry kind, no bound on steps (the state space is finite) | `TypeOK`, `NoLostWakeup`, refinement `ImplementsChannel`, liveness `NothingHeldBack`; no deadlock |
| `tracking` | 2 windows of one application, 3 frames (one within reach of neither watchdog tolerance nor width, one wider), minimizing, virtual desktops, dying hooks, 3 changes, watchdog | `TypeOK`, `WatchdogBound`, `ShownIsCurrent`; no deadlock |
| `pins` | 2 windows, one elevated, both with a topmost switch of their own, settings that switch pins and borders off, previews, border picker, stop, 2 changes | `PinRecords`, `PinsReleased`, `BordersStayCurrent` |
| `groups` | 3 windows of two applications, 2 group numbers, every sequence of group commands and selections, 1 change; the two twins are symmetric | `RecordConsistent`, `JumpMatchesFullGroups`; no deadlock |
| `lease` | 1 session, every fault in any number and combination, heartbeats stale after 1, renewal by 1, first lease of 3 | `TypeOK`, `OverrideIsMarked`, `LeaseBound`, `RequestIsServed`; no deadlock |
| `takeover` | 2 sessions, crashes and restarts of WindowMark, one reason to suspend | `DriverHasLease`, `ImplementsPromise`; no deadlock |
| `parts` | Drag: 1 window, 6 settings. Store: 2 locations, 2 changes, every fault but a full disk. Keeper: 5 writes, 2 entries of 3 units, 1 rescue. Strips: 2 hosts. Menu: 2 windows, 1 further event under way. Instances: 3 processes (symmetric). Grab: 2 windows (symmetric), 2 groups. Shortcuts: 2 modifiers, 2 switch keys, 2 pin keys. Sums: rectangles of up to 3 by 3, texts of up to 3 of 17 tokens | `PartsTypeOK`, `PressesPaired`, `WinKeyKept`, `HooksAsConfigured`, `FileHoldsSettings`, `ChoicesStand`, `NothingSwitchesOn`, `EachCopyIsKept`, `HistoryInOrder`, `HighlightIsHonest`, `PreviewIsOwned`, `TogglesTheClicked`, `StopLeavesNothing`, `AtMostOneRuns`, `GrabIsAccounted`, `KeysAreAccounted`, `SumsAreExact` |
| `screen` | Borders: 3 windows (one topmost) with 2 frames that overlap, 1 or 2 monitors, 2 widths, 3 changes, faults of monitors, session and event sink. Strip: 1 host | `ScreenTypeOK`, `BordersMatchDesktop`, `ForegroundUncrossed`, liveness `BordersComeBack`, `StripsComeToRest` |
| `stranded`, `previous`, `active`, `snatched` | small instances | one claim of the repository each, which the code does not keep |

`pins` switches deadlock checking off because `Stop` ends the program, and `parts` and
`screen` because their components reach their bounds or their end. The violation runs do
too: they stop at the first counterexample.

Why the bounds are enough. Two windows are the least in which one window's events can
delay or overtake another's; three the least in which a group of two leaves one out. Three
changes allow a lost event followed by a change that is seen and one that undoes it; the
watchdog needs one change and two ticks. Pins need one change of the desktop between
pinning and releasing, and one more to disturb the release. Two group numbers let a window
move from one group to another while both live. One session suffices for what a lease does
to Explorer; two are needed where an old controller meets a new one, and they are the whole
story there because a third would find the same singleton, the same tap and the same marker.
The limits of time keep their order (a first lease is longer than heartbeat and renewal
together; waits may be 0, which only makes them end sooner), and every length between 0 and
the limit occurs. Of the parts: one window suffices for what a press is followed by, since a
gesture has one target; two locations are all there are; two entries and three units let
either limit bite first, and five writes are a copy, its loss, a rescue and a foreign write
before and after it; two strips are a host and a drop target; three processes are the one
that runs, one that takes over and one that starts in between; three windows are a foreground,
one it covers and one that is always above; two frames that overlap by a part exercise every
case of the ring against a hole, and `sums` takes all small rectangles. The components of
`parts` have no variable in common, so the run is their union and not their product.
Theorems (section 5) remove the bounds for thirty-seven of the forty properties of the passing runs.

Properties, in words:

* `NoLostWakeup`: anything pending has a wake message, a timer, or the end of the running
  `HandleWake` ahead of it, and the flag that stops a second message is up exactly while
  there is a first.
* `ImplementsChannel`, `NothingHeldBack`: the queue is the abstract channel, and nothing
  accepted waits for ever, even if other windows never stop moving.
* `WatchdogBound`: whatever was lost, after two ticks without a change in between the
  record agrees with the desktop up to the tolerance (README.md:201-203 of the program,
  "at most ten seconds").
* `ShownIsCurrent`: after every step the strips and borders last given to the backends are
  the ones the record asks for. `BordersStayCurrent` says it step by step where the border
  picker is in play.
* `RecordConsistent`: active window tracked; ranks distinct and below the counter; groups,
  switched-off windows and pins only of tracked windows; groups in use have their name.
* `PinRecords`, `PinsReleased`: a pin can be undone; with pinning off nothing is pinned.
* `JumpMatchesFullGroups`: number keys and strip agree when no group has one member.
* `OverrideIsMarked`: while an override stands, the marker that bars an automatic start
  exists. Left out, by `Standing`, is one case the code does not cover: the controller of a
  crashed WindowMark that stops between two lines for as long as a later session lasts, and
  only then attaches. It never renews, and the tap drops its lease when it is noticed.
* `LeaseBound`: an override that was renewed once is undone, or being undone, when the last
  heartbeat of the UI thread is older than `HeartbeatLimit + Renewal` (7 seconds), as long
  as Explorer answers; so a controller that hangs or dies cannot keep the taskbar changed.
* `DriverHasLease`: a controller in its loop holds the tap's lease, or has been told that it
  ended; no two controllers drive the tap.
* `RequestIsServed`: protection that is requested has a session, or a recovery that waits.
* `ImplementsPromise`: each step of the three processes is a step of `TrayPromise`, or none.
  The mapping forgets who knows what: `held` is the tap's lease unless it waits for
  `kFinish`, `given` and `closed` come from the reports, `confirmed` from the renewals, `quiet`
  is `age`. The refinement says, beyond the invariants, that nobody is lent the container
  while the width of another stands, also after a failed undo; that the marker is taken away
  only when the last session has closed; that a renewal follows a heartbeat of the living
  program; and that no session begins over a standing override unless a user turns it on.

* `PressesPaired`: the program below gets a press and its release, or neither; while the
  user works with one button and does not switch the gesture off under his own hand.
* `WinKeyKept`, `HooksAsConfigured`: only the release of a Win key that began a drag is
  swallowed; hooks are there only where the settings ask, and no drag without its hook.
* `ExcludedKeepTheirPresses` (`snatched`): a claim of README.md that does not hold.
* `FileHoldsSettings`, `ChoicesStand`, `NothingSwitchesOn`: the file is what the program
  works with; what was chosen last stands, whenever the page was opened, except the guard's
  switch when it was made while the page was open (`behindPage`, section 6); what a broken
  save leaves switches on neither the guard nor the drag gesture at the next start (drawer,
  borders and pins are on by default, and come on with a file that has lost them).
* `EachCopyIsKept`: a text or image that stays on the clipboard is in the history once the
  keeper has handled its messages. Between the keeper's own write and the reading of its
  number another program may copy something. If the message of the own write is still to
  come then, the copy is kept; if it was handled inside `CloseClipboard`, the copy is the
  one exception (`mistaken`, section 6). `HistoryInOrder`: newest first, within both limits.
* `HighlightIsHonest`, `PreviewIsOwned`, `StripsComeToRest`: what is outlined during a drag is
  where a release drops; a preview has a strip that will hide it; a strip that was left is not
  enlarged for ever and its timer ends.
* `TogglesTheClicked`, `StopLeavesNothing`: a click pins the window whose menu it was in; a
  proper exit removes the items of a killed run as well.
* `AtMostOneRuns`: across start, takeover, install, uninstall and purge.
* `BordersMatchDesktop`, `ForegroundUncrossed`, `BordersComeBack`: with nothing under way
  every canvas shows the borders of the desktop as it is, pixel by pixel (`SamePicture`: the
  pieces may be cut otherwise), unless the monitors have changed since the snapshot or the
  last painting was left out wrongly (`unpainted`, section 6); no stroke crosses the window in
  front, however old the snapshot; a suspension ends though the message of the unlocking
  never comes.
* `GrabIsAccounted`, `KeysAreAccounted`: what the crosshair outlines is what it will pin, and
  outline, capture and timers end with it; a combination that is held is remembered.
* `SumsAreExact`: pieces around a hole and sides of a ring cover each pixel once; a zone has
  one edge or two that meet; a resized window keeps the other edges; a centred one can be
  reached; a shortcut and the keys of the gesture, once written, are read back as themselves.

## 4. Fairness

`WindowBackend!Fairness` assumes of the message loop that a posted wake message is fetched,
that the timer fires once no message waits, that a running handler goes on, and that time
passes; each is weak fairness of one action, since the loop is a single thread that calls
`GetMessage` again whenever a handler returns. Nothing is assumed of the desktop. The timer
needs the queue to be empty of the wake message; `HandleWake` takes it out and only a new
event puts it back, and a wake emits the geometry itself once the throttle has elapsed, so
weak fairness suffices even under a steady stream. `WindowMark` has no fairness: healing is
stated as the bound of two ticks, not as an eventuality, because `WM_TIMER` has the lowest
priority and nothing promises when a tick comes. `ImeGuard` has none either: that an override
ends is stated as a bound. Its one assumption about speed is a guard, not fairness: while
Explorer answers, the tap's 250 ms timer runs between two units of time (`LeaseElapses`).
A hung Explorer is free of it.

`BorderFairness` assumes of the watchdog that it notices a suspension that may end: the timer
runs for as long as the program does, and its ticks are dropped only while a dialog runs a
loop of its own (`WinMain.cpp:1087`), so it comes to no dialog staying open for ever.
`StripFairness` is weak fairness of the animation timer of each strip: `WM_TIMER` is
dispatched by the main loop and by the menu's, and the timer stays set until the handler
finds nothing moving. Nothing is assumed of the mouse, the desktop or the session.

## 5. Proofs

`WindowBackend_proofs` (any finite set of windows, any kinds raised):

* `Typing`: `TypeOK` is inductive. The part with content is that a listing of a finite set
  of pending pairs is a sequence of events of the known kinds (`ListingIsSequence`).
* `WakeupsKept`: `NoLostWakeup` is inductive together with `TypeOK`; the case to note is
  a geometry event under an armed timer, which posts nothing.
* `Refinement`: `ImplementsChannel`. `HandleWake` and `HandleGeometryTimer` map to `Emit`
  (or to a stutter when nothing is taken), `CallSink` to `Deliver`, callbacks to `Accept`.
  The strengthening `BatchInOrder` says that the events of a batch are distinct, that a
  window's events stand together and in order, the window being served first, and that no
  batch is open between handlers.

`WindowMark_proofs` (any constants that meet the named assumptions):

* `PinsCanBeUndone`, `NothingStaysPinned`: from `PinInv`. `PinRecords` alone is not
  inductive: a refresh drops the pins of windows it does not list, so all pins must be of
  tracked windows; a reused handle must come without a pin, so styles and wishes exist only
  for living windows; and switching pins on and off needs `PinsReleased`.
* `RecordStaysConsistent`: from `RecordInv`, which adds types and that the rank counter is
  above every rank. The heart is `RanksGiven`: `RankNew` gives the new windows a block of
  ranks above all old ones, so ranks stay distinct although windows go in the middle.
* `RecordHeals`: `WatchdogBound`, from `HealInv`: after one quiet tick every window that
  differs from the desktop is a suspect, and the handlers in between only make the set of
  differing windows smaller; the second tick finds its suspects again and refreshes.
* `BackendsShowRecord`: `ShownIsCurrent`, as long as nothing is selected in the border
  picker; `BordersFollow`: `BordersStayCurrent`, that this is the only exception. Each handler
  that changes the record ends in the applications that its changes call for, so there is
  one lemma per handler.
* `KeysFollowStrips`: `JumpMatchesFullGroups`, from what the strips show and what ordering by
  rank does to a group (`ByRank`). `Typing`: `TypeOK` of the composed program.

`ImeGuard_proofs` (any limits, any number of sessions, any faults):

* `LeaseBounded`: `LeaseBound`, from `BoundInv`. The key is `RenewedEnds`: renewing sets the
  remaining time to `Renewal` when the age is at most `HeartbeatLimit`, and from then on the
  sum of the two cannot grow, because time moves both and a heartbeat only lowers the age.
  A tick of the tap that does not end the lease saw time left, hence `OnTime`. It takes that
  a session that has renewed is never attached again (`NotRenewedYet`, `SenderWaits`,
  `LaterSessionsAreNew`), which would grant it a first lease anew.
* `RequestServed`: `RequestIsServed`, from `WishInv`, which holds in the middle of a tick too
  and adds that a wish does not outlive its process.
* `OverridesAreMarked`, `OneDriver`, `RecoveryWaits`, `GuardTyping`: from `ServeInv`, which
  joins `TypeOK` and `BoundInv` with what ties a session to its controller and the marker
  (`MarkInv`: what the tap serves or has widened is a session that was taken and is not
  closed; a session is attached once; a controller leaves in order only after its session
  is closed; the marker is missing only before the first session or once the last is closed
  and nothing renewed is served) and with `DriverInv`. None of the three is inductive without
  the others: who may take the marker away depends on who still drives.
  `RecoveryWaits` proves `RecoversAfterUndo`: no session is started automatically over a
  standing override (no run checks it; the promise's `Begins` asks for more).
* `KeepsPromise`: `ImplementsPromise`, one lemma for each of the processes. It needs of the
  composition what a single handler cannot see (`PromiseInv`): a session that is watched has
  a program; a controller in its loop was lent the container (`DriverWasLent`); and once an
  undo has failed, the window that takes leases is gone and this Explorer has been attached
  to, so that the container is never lent again over what was left behind (`LeftBehind`).
  `TapEffect` says what a tick of the tap may do, and `RenewedEnds` and `OnTime` of
  `BoundInv` give the promise's bound, at each override and at each unit of time.

`Drag_proofs` (any windows, exclusions and choices of settings):

* `PressesStayPaired`, `WinKeyIsKept`, `HooksFollowSettings`: from one invariant. It adds that
  a hand that was not disturbed holds one button (`OneHand`) and that a Win key that was
  consumed is watched by the keyboard hook (`ConsumedIsWatched`). That the target of a
  drag can be dragged rests on `FirstPosition`: the window under the pointer is the least
  position of those that fit, which exists because the naturals are well founded.
* `ResizeAnchored`, `ZonesAreUsable`, `CentredReachable`: the gesture's part of `SumsAreExact`
  for all integers (the runs take coordinates up to 3). `LeastPosition` and `FirstPosition`
  also order the keys in `Parts_proofs`.

`Store_proofs` (any values, places and faults; any writers of the clipboard):

* `FileIsCurrent`, `ChoicesAreKept`, `LeftoversSwitchNothingOn`: from `StoreInv`, which adds
  that the program saves to a place it found, that the file, whole or cut short, has neither
  guard nor gesture on that the program had off, and that an open page has the guard's switch
  as it is unless it was made behind the page (`DraftFollows`). The proof found that a process killed in the middle of
  a save had its page left open in an earlier version of the model.
* `CopiesAreKept` (neither `"busy"` nor `"unreadable"` in `KeeperFaults`): `EachCopyIsKept`,
  with its one exception, from `KeeperInv`. The keeper throws away one message after a write
  of its own, and the message is told from that of a foreign copy by the sequence number
  alone. `OwnWriteKept`: while the number is still to be read, the one noted is older than
  the write, so no message is thrown away, and what is on the clipboard, if nobody wrote
  since, is kept. `CopyToCome` counts: while a copy is neither kept nor excepted, one
  message is under way, or two when the keeper's own is still to come as well
  (`Expected`), so what it throws away is never the last.
* `HistoryIsOrdered`: `HistoryInOrder`, without the condition. Entries carry the number they
  were captured at, none above the last capture; trimming keeps the longest beginning that
  fits (`LastPosition`), and the order of what is left is that of what was there.

`Screen_proofs` (all integers, any windows, monitors and hosts):

* `SubtractExact`, `RingExact`, `RingGrows`, `BorderStaysOnScreen`: the pieces around one hole,
  the sides of a ring, what `ClampBorderToScreen` leaves on each of the four sides. `SubtractExact` takes a hole that is
  not empty: around a rectangle turned inside out the pieces would overlap, but windows
  with an empty frame are not collected (`WinDesktopSnapshot.cpp:98-100`).
* `ClipExact`: what is left of a border behind any finite set of windows is the pixels that
  none of them covers, in pieces that still do not overlap. `ClipSegments` is a recursive
  function over sets of holes; the order they are taken in does not matter to the proof,
  whose induction is the well-foundedness of the proper-subset relation (`CutInduction`).
* `BordersMatch`: `BordersMatchDesktop`, from `BorderInv`, whose parts are: the snapshot is the
  desktop as far as no event waits, but for where in the z order the foreground stands
  (`SnapshotFollows`); the models are those of the desktop (`ModelsFollow`); the strokes
  painted last are the plan for the snapshot, or there are none (`PlanIsPainted`). Beside it
  `CanvasShows`: unless a painting was left out, each canvas shows its part of the strokes
  painted last; every handler that forgets strokes, clears canvases or makes them anew is
  followed through. The rest is that the place of the foreground does not show: it cuts every border wherever it
  stands, by the order or by `ForegroundHole`, and no ordinary window cuts its own; so the
  two plans agree at every pixel although their pieces differ. `PutBehindOrders` says that
  putting a missed foreground in, and bringing one to the front, gives an order again.
* `ForegroundIsUncrossed`: `ForegroundUncrossed`, from `ClipExact`, for any snapshot.
* `HighlightHonest`, `PreviewOwned` (both `"told" \notin DestroyNotices`): one lemma per
  function that passes a strip and the preview on (`Owns`, `KeepsDrag`), then one per action.
  At most one strip has a drag, and a strip that is gone is empty.
* `StripsKeepMoving`, `StripTyping`: told or not, a strip that is not at rest has its timer
  (with `StripFairness`, why strips come to rest), and at most one posted command waits,
  because a menu is open only while none does (`PostsInv`). `ScreenTyping`: `ScreenTypeOK`.

`Control_proofs` (any windows, groups, keys and processes):

* `GrabAccounted` and `KeysAccounted`; both properties are inductive with their types, since
  every way a grab ends goes through `EndGrab`, and every change of shortcuts first gives up
  what it held.
* `OneInstance` (`"elevated" \notin InstanceFaults`): `AtMostOneRuns`, from `InstanceInv`. The
  takers are those that run and those that will once they have stopped the others. They all
  hold the mutex, so `Claim` lets nobody run beside them; and of two takers one is on the
  other's list, because the later to answer found the earlier. Two that run have empty lists.
* `ClicksReachTheirWindow`: `TogglesTheClicked`, from `MenuInv`: in the queue every click
  follows an event of its own window, or the first candidate is that window and has its item.
* `StopCleans`: `StopLeavesNothing`: what was seeded stays among the touched until `Stop`.

`Parts_proofs`:

* `PartsTyping`: `PartsTypeOK` of the components side by side, from the conjunction of their
  invariants: a step of one is a stutter of the others (`EachSteps`). What is more than types
  in it: the queue of menu events is bounded, though a menu that is open adds its own click
  (`MenuRest`), and who holds, probes or waits for the mutex is alive (`Holding`, which needs
  no condition on elevated processes, unlike `OneInstance`).
* `SpellingKept`: `SpellingIsKept` for texts of any length over any words (the run takes three
  tokens of seventeen). No name stands twice in a table and none is a modifier's or in two
  tables (`NamedRows`, `OwnRows`), so the first name of a key is read back as that key
  (`NameBack`, `KeyBack`, `DragKeyBack`). A shortcut's modifiers are written each once, which
  is what the parser counts (`SpelledAll`, `HotkeyBack`). The keys of the gesture are a finite
  set, which has a canonical order (`CanBeSorted`, by its size), in which each key stands once
  (`SortedAll`: an injection between sets of one size is onto); the recursion of
  `FormatDragModifiers` is solved by the prefixes of the result (`FormatSpelled`), and the
  same set is sorted the same, in whatever order it was typed.
* `SumsStayExact`: `SumsAreExact`, whose parts are `SpellingKept`, `SubtractExact`, `RingExact`,
  `ZonesAreUsable`, `CentredReachable` and `ResizeAnchored`; the only thing it needs of the
  state is that a question is one of those the run asks (`Asked`). The parts say more than the
  whole: they hold for all integers and texts.

The assumptions used are those named in the modules (`HandleAssumption`,
`DesktopAssumption`, `CoordinatorAssumption`, `WindowMarkAssumption`, `LeaseAssumption`,
`GuardAssumption` and one for each further module); TLC evaluates them in
every run. `BorderAssumption` is the longest: frames and monitors are rectangles of integers,
frames are not empty, and there are finitely many windows.

Only model-checked: what is liveness (`NothingHeldBack`, `BordersComeBack`,
`StripsComeToRest`), out of the prover's reach.

## 6. What the code does differently from what it says

* `stranded`: a pinned window that is hidden, cloaked or newly excluded is taken for gone;
  its style stays and `Stop` does not release it (`Coordinator.cpp:848-856`, against 150-152).
* `previous`: a window that is restored by turning to it is made active by its restore
  event, and the previous-window key goes elsewhere (`Coordinator.cpp:771-773`, `477`).
* `active`: two foreground events of one batch come in hash-map order
  (`WinWindowBackend.cpp:585`); the watchdog does not compare the active window.
* `snatched`: a press over a window of an excluded program is swallowed and drags the window
  below (`WinDragBackend.cpp:179`, against README.md:431).

Seen in the models and without a run of their own:

* Record and borders. The number keys and the strips ask the group question of different
  windows (`Coordinator.cpp:590` and `923`); `JumpMatchesFullGroups` holds where no group
  has one member. The border picker refreshes the strips and not the borders
  (`Coordinator.cpp:406`); usually the next foreground event mends it. A group whose last
  member joins another keeps its name, and stands empty in the menu, until the next refresh
  (`Coordinator.cpp:513-526`, `1023`); leaving a group drops the name at once, to keep empty
  groups out of the menu (533). `Redraw` leaves a painting out when the plan equals
  `lastStrokes_` (`WinBorderBackend.cpp:349`), twice wrongly: canvases that `Sync` made anew
  for other monitors (311, against the comment at 307-310) stay blank while the plan stays
  equal; and where the strokes were forgotten, by new settings (292) or because the canvases
  had sunk (222, 321), and none is planned any more, the old border stays (say, settings are
  accepted while the event of the last bordered window's end still waits). `BordersMatchDesktop` excepts exactly these, by
  `unpainted`, until something is painted again. A snapshot that is only refreshed keeps
  the monitors it was taken with, and no message of theirs makes it new. Borders of owned
  windows may lag until the next event.
* Strips. Beginning a drag kills the preview's timers but not the animation's, whose next
  frame shows the preview again. A strip that is destroyed in mid-drag may leave the
  highlight it set until the next drag.
* Drag. With two buttons, or when the gesture is switched off in the middle, a program gets
  half a click (`WinDragBackend.cpp:369-371`); a release that the secure desktop takes is missed.
* Settings. Accepting the settings page undoes, and saves, a switch of the tray guard made
  while the page was open: only the drawer, borders, pins and drag gesture are taken over from
  the current settings (`WinMain.cpp:349-360`, against the comment at 353-354), the guard's
  command is not kept from running by an open dialog (582-606), and all else is replaced
  (`Coordinator.cpp:414`). `ChoicesStand` excepts exactly this (`behindPage`). The first save
  of a new file may fail unnoticed (`Settings.cpp:218-223`). In a move the renaming of the
  portable file (`WinMain.cpp:813`) and the registry value (822) may each fail unnoticed, one
  without the other, and the message says that the place has changed. `Save` returns the state of the stream before it is flushed; a file that cannot
  be read becomes defaults, which are then saved over it; after a move the running program
  saves to the old place until it is restarted; switch keys are applied at the start only,
  though the comment at `WinMain.cpp:1049` says otherwise; `pin.color` `#00000000` is saved
  as `accent`; the separator of `tracking.exclude_classes` is `|` and a comment says comma.
* Shortcuts. A function key with a number too large for an `int` throws in
  `KeyFromToken`, where the comment says a typo parses as no shortcut.
* Control window. Picking another purpose while the handle waits changes what it does and
  neither its hint nor its timer (`WinControlWindow.cpp:289-293`). A group that is disbanded
  between menu and drop is made anew, and the balloon says "joined". The tray's list of
  pinned windows is a snapshot: a window that was released meanwhile is pinned by the click.
* Menu items of other windows stay, and can be clicked, after the item was switched off.
* ClipKeeper. Windows sends the message of a write inside `CloseClipboard`, before the keeper
  has read the number to ignore (`clipboard.cpp:242-243`, `main.cpp:140`). Handled there, the
  keeper's own write comes into its history again, and counts as a sign that rescues worked
  (`main.cpp:113`); a copy that another program makes before the number is read has the
  number that is ignored, and is lost (`main.cpp:162-165`). `EachCopyIsKept` excepts exactly
  that copy (`mistaken`). The entry restored is found by its index once more after the
  history may have moved (`main.cpp:142`), so the status line may name another. A rescue overwrites a copy of another program made just then (README.md:442-443).
* Installer. A takeover waits four seconds for a mutex of which it holds a handle itself
  (`InstallerCommon.cpp:135`). With an elevated instance two may run. The uninstaller
  removes its entry before the removal of the files, which may fail.

Seen in the model of the tray guard, on the safe side and without a run of its own: a
normal close leaves the marker, so that the next start switches the feature off, when the
controller was still validating, or when it closed and exited between the two halves of
`Client::Tick` (`ImeGuardClient.cpp:49-53`); and after 24 hours of one session the
controller ends by itself, which saves the switch as off (`XamlContainerTrial.cpp:220`).

## 7. Assumptions of the model

* A handler reads one state of the desktop: other programs act between handlers and
  between the events of a batch, not between two queries of one handler.
* A handle is not used again while the record still has it (`Opens`). Windows reuses
  handles rarely and late; properties about reuse need a model without this.
* An application does not turn its own topmost switch while its window is pinned.
* Elevated windows keep their style whatever `SetWindowPos` is asked.
* Events are lost when the hooks are dead, or when the window they are about is closed
  (`IsTopLevel` asks a window that is gone). Cloaking raises no event at all; in
  `BorderBackend` what waits after `CloakChanges` stands for the next application of the
  models, which the watchdog brings if no event does.
* `PostMessageW` and `SetTimer` succeed.
* The executable of a window stands for its window class in the excluded classes.
* The tray guard: attaching an Explorer that has no tap is one step, as is a report; the
  two begin times of a lease (the controller's and the tap's) are the same moment; the
  controller's own keyboard interrupt and its trial modes do not occur; removing the marker
  fails or not, writing it fails or not, and a file that is there is seen.
* A picker's list may be older than the record; its ticked rows come back in one call.
* The strips: Windows does not send `WM_CAPTURECHANGED` to a window that is being destroyed
  (`DestroyNotices = {"silent"}` in the runs, an assumption of the theorems). `Destroy` of
  `WinOverlayBackend.cpp:308` leaves the handler attached until the window is gone; if it
  were told (`"told"`, which the model has), the last frame could leave a preview behind.
* ClipKeeper can open the clipboard in the end, and a format that is announced is given
  (`"busy"` and `"unreadable"`, left out of the run, are copies that are not kept; the model
  has both, and `CopiesAreKept` assumes they do not happen). Whether the message of its own
  write is handled inside `CloseClipboard` depends on who is first in the chain of viewers;
  the model has both orders. Between `OpenClipboard` and `CloseClipboard` of a capture no
  message is handled.
* No instance runs elevated (`"elevated"`); the disk is not full (`"full"`,
  which acts as a save that is cut short and goes on running).
* Pickers highlight a window only while the mouse is free, and one menu is open at a time.
* Rectangles are integers; C++ computes them with 32 bits, which the coordinates of
  screens do not fill.

## 8. Not modelled

Painting, layout and dock magnification (floating point, no state), titles and labels, the
controls of dialogs and panels, the files and registry values the installer writes, the
diagnostics and bench tools (read-only), the macOS and stub platforms (placeholders). In the
parts that are modelled: the caches of one desktop query; fading; formats of the clipboard
beyond their kind; the syntax of TOML; the trial modes of the tray guard's controller;
balloons and hints. And, more exactly than the rows of section 2 say:

* Borders are square rings of one width. The rounded unit of one piece, which the default
  corners give on Windows 11 (`WinBorderPlan.cpp:258-260`), and the width of its own that a
  pinned window may have (`pin.width`, line 28) are left out.
* `WindowMark!Raise` enqueues an event and no more: the geometry sink also moves a border and
  a strip at once (`WinWindowBackend.cpp:519-521`, `Coordinator.cpp:135-139`), so
  `ShownIsCurrent` is about the models handed over, not about where these moves put a window
  of the program. `BorderBackend` has that move (`MoveBorder`).
* `PinMenu` has one switch for `pin.enabled` and `pin.showInSystemMenu`
  (`WinPinBackend.cpp:148` reads the second).
* `SingleInstance` has no uninstaller started by the user from the settings of Windows, and
  `TerminateProcess` succeeds except on an elevated process.
* `BookmarkStrip` has no strip whose weight is zero or less (`EmitPreview`).

## 9. Plan

What was planned is built: the event path, record, pins and groups; the tray guard; the
settings, drag gesture, ClipKeeper, borders, strips, menu items, instances, crosshair and
shortcuts; abstract promises of the event path and of the tray guard. Left, in order of worth:

1. Theorems over more of the composition: that the record's promises (`ShownIsCurrent`) and
   those of the borders (`BordersMatchDesktop`) meet at the models handed over.
2. Handles that are reused while a record of them is kept, for the selections that are
   never pruned (`Coordinator.cpp:1055`).
3. The strips' dock layout as integer geometry, once it is worth the rounding.
