------------------------------ MODULE PinMenu -------------------------------
(***************************************************************************)
(* The item the pin backend puts into the system menus of other programs'  *)
(* windows (WinPinBackend.cpp): it lives in the window, survives a crash   *)
(* of WindowMark, and its click comes back as an event that does not name  *)
(* the window reliably.                                                    *)
(***************************************************************************)
EXTENDS Naturals, Sequences

CONSTANTS
  MenuWindows,    \* windows with a system menu that can be written
  NoMenuWindow,
  MaxMenuEvents   \* bound: events of the hooks not yet delivered

ASSUME PinMenuAssumption == NoMenuWindow \notin MenuWindows /\ MaxMenuEvents \in Nat

VARIABLES
  item,        \* [MenuWindows -> "none", "plain" or "ticked"]
  visibleNow,  \* visible windows
  hooked,      \* WindowMark runs, its hooks installed
  showItem,    \* pin.enabled and pin.showInSystemMenu
  pinnedSet,   \* pinned_
  touched, lastTouched,   \* touchedWindows_, lastTouchedWindow_
  foreMenu,    \* the foreground window
  openMenu,    \* [of, with]: the system menu open now, and whether it was opened with the item
  events,      \* WinEvents on their way
  adoptable,   \* windows that were visible when WindowMark started with the item on
  toggledOther \* a click pinned another window than the one it was made in

pinMenuVars == <<item, visibleNow, hooked, showItem, pinnedSet, touched, lastTouched,
                 foreMenu, openMenu, events, adoptable, toggledOther>>
own == <<hooked, showItem, pinnedSet, touched, lastTouched>>

Closed == [of |-> NoMenuWindow, with |-> FALSE]

PinMenuInit ==
  /\ item = [w \in MenuWindows |-> "none"]
  /\ visibleNow = MenuWindows
  /\ hooked = FALSE /\ showItem = TRUE
  /\ pinnedSet = {} /\ touched = {} /\ lastTouched = NoMenuWindow
  /\ foreMenu = NoMenuWindow /\ openMenu = Closed /\ events = <<>>
  /\ adoptable = {} /\ toggledOther = FALSE

Tick(w, set) == IF w \in set THEN "ticked" ELSE "plain"
-----------------------------------------------------------------------------
(* Mutant: an item that was there already is ticked and not remembered.    *)
UpdateItemsAdded(windows) ==
  /\ item' = [w \in MenuWindows |-> IF w \in windows THEN Tick(w, pinnedSet) ELSE item[w]]
  /\ touched' = touched \cup {w \in windows : item[w] = "none"}

\* UpdateSystemMenuItem: the tick of an item already there, which is adopted,
\* or a new item; either way the window is remembered for Stop.
UpdateItems(windows) ==
  /\ item' = [w \in MenuWindows |-> IF w \in windows THEN Tick(w, pinnedSet) ELSE item[w]]
  /\ touched' = touched \cup windows

\* Start: the hooks, then SeedExistingWindows.  Starting it, the user has left
\* any menu.
StartPins ==
  /\ ~hooked
  /\ hooked' = TRUE
  /\ LET seeds == IF showItem THEN visibleNow ELSE {}
     IN UpdateItems(seeds) /\ adoptable' = seeds
  /\ openMenu' = Closed
  /\ UNCHANGED <<visibleNow, showItem, pinnedSet, lastTouched, foreMenu, events,
                 toggledOther>>

(* Mutant: the window touched last is remembered beyond the end.           *)
StopPinsRemembering ==
  /\ hooked
  /\ hooked' = FALSE
  /\ item' = [w \in MenuWindows |-> IF w \in touched THEN "none" ELSE item[w]]
  /\ touched' = {} /\ pinnedSet' = {}
  /\ events' = <<>> /\ adoptable' = {}
  /\ UNCHANGED <<lastTouched, visibleNow, showItem, foreMenu, openMenu, toggledOther>>

\* The Coordinator has released every pin before.
StopPins ==
  /\ hooked
  /\ hooked' = FALSE
  /\ item' = [w \in MenuWindows |-> IF w \in touched THEN "none" ELSE item[w]]
  /\ touched' = {} /\ pinnedSet' = {} /\ lastTouched' = NoMenuWindow
  /\ events' = <<>> /\ adoptable' = {}
  /\ UNCHANGED <<visibleNow, showItem, foreMenu, openMenu, toggledOther>>

\* Killed: what it put into the menus stays.
KillPins ==
  /\ hooked
  /\ hooked' = FALSE
  /\ touched' = {} /\ pinnedSet' = {} /\ lastTouched' = NoMenuWindow
  /\ events' = <<>> /\ adoptable' = {}
  /\ UNCHANGED <<item, visibleNow, showItem, foreMenu, openMenu, toggledOther>>

\* EnsureSystemMenuItem, on EVENT_SYSTEM_FOREGROUND and EVENT_SYSTEM_MENUSTART.
EnsureItem(w) ==
  IF showItem THEN lastTouched' = w /\ UpdateItems({w})
  ELSE UNCHANGED <<lastTouched, item, touched>>

\* OnMenuItemInvoked: the event names the window unreliably, so the first
\* candidate that carries the item is taken.
Carries(w) == w # NoMenuWindow /\ item[w] # "none"
Candidate(named) == IF Carries(lastTouched) THEN lastTouched
                    ELSE IF Carries(named) THEN named ELSE foreMenu

\* The Coordinator toggles it and hands the pins back (Apply), which renews the
\* tick of the window touched last.
Invoked(clicked, named) ==
  LET w == Candidate(named)
      pins == (pinnedSet \ {w}) \cup ({w} \ pinnedSet)
  IN IF ~showItem \/ ~Carries(w) THEN UNCHANGED <<pinnedSet, item, toggledOther>>
     ELSE /\ pinnedSet' = pins
          /\ item' = IF lastTouched = NoMenuWindow THEN item
                     ELSE [item EXCEPT ![lastTouched] = Tick(lastTouched, pins)]
          /\ toggledOther' = (toggledOther \/ w # clicked)

(* Mutant: an opened menu is not listened to, only a changed foreground.   *)
HookProcForeground ==
  /\ hooked /\ events # <<>>
  /\ events' = Tail(events)
  /\ LET e == Head(events)
     IN IF e.kind = "invoked"
        THEN /\ \E named \in MenuWindows \cup {NoMenuWindow} : Invoked(e.window, named)
             /\ UNCHANGED <<touched, lastTouched>>
        ELSE IF e.kind = "foreground"
        THEN EnsureItem(e.window) /\ UNCHANGED <<pinnedSet, toggledOther>>
        ELSE UNCHANGED <<pinnedSet, toggledOther, item, touched, lastTouched>>
  /\ UNCHANGED <<visibleNow, hooked, showItem, foreMenu, openMenu, adoptable>>

HookProc ==
  /\ hooked /\ events # <<>>
  /\ events' = Tail(events)
  /\ LET e == Head(events)
     IN IF e.kind = "invoked"
        THEN /\ \E named \in MenuWindows \cup {NoMenuWindow} : Invoked(e.window, named)
             /\ UNCHANGED <<touched, lastTouched>>
        ELSE EnsureItem(e.window) /\ UNCHANGED <<pinnedSet, toggledOther>>
  /\ UNCHANGED <<visibleNow, hooked, showItem, foreMenu, openMenu, adoptable>>

\* Pinning by the hotkey or the panel.
PinElsewhere(w) ==
  /\ hooked /\ w \in visibleNow
  /\ pinnedSet' = (pinnedSet \ {w}) \cup ({w} \ pinnedSet)
  /\ item' = IF lastTouched # NoMenuWindow
             THEN [item EXCEPT ![lastTouched] = Tick(lastTouched, pinnedSet')] ELSE item
  /\ UNCHANGED <<visibleNow, hooked, showItem, touched, lastTouched, foreMenu, openMenu,
                 events, adoptable, toggledOther>>

\* UpdateSettings: only the window touched last loses its item.  The command
\* reaches the thread after the hook events of the clicks before it.
ShowItemChanges ==
  /\ hooked /\ events = <<>>
  /\ showItem' = ~showItem
  /\ item' = IF showItem /\ lastTouched # NoMenuWindow
             THEN [item EXCEPT ![lastTouched] = "none"] ELSE item
  /\ openMenu' = Closed
  /\ UNCHANGED <<visibleNow, hooked, pinnedSet, touched, lastTouched, foreMenu, events,
                 adoptable, toggledOther>>
-----------------------------------------------------------------------------
(***************************************************************************)
(* The desktop and the user.                                               *)
(***************************************************************************)
Heard(new) == IF hooked THEN events \o new ELSE events
Foreground(w) == IF foreMenu = w THEN <<>> ELSE <<[kind |-> "foreground", window |-> w]>>

Activated(w) ==
  /\ w \in visibleNow /\ w # foreMenu /\ Len(events) < MaxMenuEvents
  /\ foreMenu' = w /\ openMenu' = Closed
  /\ events' = Heard(Foreground(w))
  /\ UNCHANGED <<own, item, visibleNow, adoptable, toggledOther>>

\* A right click on a title bar activates the window and opens the menu.
MenuOpened(w) ==
  /\ w \in visibleNow /\ openMenu = Closed /\ Len(events) < MaxMenuEvents
  /\ foreMenu' = w
  /\ openMenu' = [of |-> w, with |-> item[w] # "none"]
  /\ events' = Heard(Foreground(w) \o <<[kind |-> "menustart", window |-> w]>>)
  /\ UNCHANGED <<own, item, visibleNow, adoptable, toggledOther>>

MenuClicked ==
  /\ openMenu.with
  /\ events' = Heard(<<[kind |-> "invoked", window |-> openMenu.of]>>)
  /\ openMenu' = Closed
  /\ UNCHANGED <<own, item, visibleNow, foreMenu, adoptable, toggledOther>>

HiddenOrShown(w) ==
  /\ visibleNow' = (visibleNow \ {w}) \cup ({w} \ visibleNow)
  /\ foreMenu' = IF foreMenu = w THEN NoMenuWindow ELSE foreMenu
  /\ openMenu' = IF openMenu.of = w THEN Closed ELSE openMenu
  /\ UNCHANGED <<own, item, events, adoptable, toggledOther>>
-----------------------------------------------------------------------------
PinMenuNext ==
  \/ StartPins \/ StopPins \/ KillPins \/ HookProc \/ ShowItemChanges \/ MenuClicked
  \/ \E w \in MenuWindows :
       PinElsewhere(w) \/ Activated(w) \/ MenuOpened(w) \/ HiddenOrShown(w)
PinMenuSpec == PinMenuInit /\ [][PinMenuNext]_pinMenuVars

PinMenuTypeOK ==
  /\ item \in [MenuWindows -> {"none", "plain", "ticked"}]
  /\ visibleNow \subseteq MenuWindows /\ pinnedSet \subseteq MenuWindows
  /\ touched \subseteq MenuWindows /\ adoptable \subseteq MenuWindows
  /\ lastTouched \in touched \cup {NoMenuWindow}
  /\ foreMenu \in MenuWindows \cup {NoMenuWindow}
  /\ openMenu.of \in MenuWindows \cup {NoMenuWindow}
  /\ Len(events) <= MaxMenuEvents + 2

\* A click pins the window whose menu it was made in.
TogglesTheClicked == ~toggledOther

\* A proper exit takes the item out of every menu WindowMark could see when it
\* started, those of a run that was killed included.
StopLeavesNothing ==
  [][hooked /\ StopPins => \A w \in adoptable : item'[w] = "none"]_pinMenuVars

=============================================================================
