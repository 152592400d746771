------------------------------ MODULE Shortcuts ------------------------------
(***************************************************************************)
(* The global shortcuts of the control window (WinControlWindow.cpp):      *)
(* Windows gives a combination to the first program that asks, and         *)
(* WindowMark asks for one that pins a window and for ten that switch.     *)
(***************************************************************************)
EXTENDS Naturals

CONSTANTS
  Mods,          \* modifiers a shortcut may have
  SwitchKeys,    \* the keys 1 to 9 and the backquote
  PinKeys,       \* keys of the pin shortcut; may be one of SwitchKeys
  NoMods, NoKey

ASSUME ShortcutAssumption ==
  /\ NoMods \notin Mods /\ NoKey \notin Mods \X (SwitchKeys \cup PinKeys)
  /\ {"free", "other", "pin"} \cap SwitchKeys = {}

VARIABLES
  control,                   \* hwnd_ exists
  holders,                   \* who has each combination, by the id it was given
  pinHotkey, switchMods,     \* pinHotkey_, switchMods_
  wantedPin, wantedMods,     \* pin.hotkey, drawer.switchHotkey
  refusal                    \* of pin.hotkey: "none", "silent" or "announced"

shortcutVars == <<control, holders, pinHotkey, switchMods, wantedPin, wantedMods, refusal>>

Combinations == Mods \X (SwitchKeys \cup PinKeys)
PinChoices == {NoKey} \cup Mods \X PinKeys
ModChoices == {NoMods} \cup Mods

ShortcutInit ==
  /\ control = FALSE /\ holders = [c \in Combinations |-> "free"]
  /\ pinHotkey = NoKey /\ switchMods = NoMods /\ refusal = "none"
  /\ wantedPin = NoKey /\ wantedMods = NoMods
-----------------------------------------------------------------------------
\* UnregisterHotKey with the given ids.
Released(h, ids) == [c \in Combinations |-> IF h[c] \in ids THEN "free" ELSE h[c]]

(* Mutant: the old combination goes only once the new one is held.         *)
SetPinHotkeyLate(h, key) ==
  IF key = pinHotkey \/ key = NoKey
  THEN [keys |-> IF key = NoKey THEN Released(h, {"pin"}) ELSE h, held |-> key, ok |-> TRUE]
  ELSE IF h[key] = "free"
       THEN [keys |-> [h EXCEPT ![key] = "pin"], held |-> key, ok |-> TRUE]
       ELSE [keys |-> Released(h, {"pin"}), held |-> NoKey, ok |-> FALSE]

\* SetPinHotkey: the old combination goes first, so a refused new one leaves
\* none.  The combinations then, the one held, and whether it was granted.
SetPinHotkey(h, key) ==
  LET without == Released(h, {"pin"})
  IN  IF key = pinHotkey THEN [keys |-> h, held |-> key, ok |-> TRUE]
      ELSE IF key = NoKey THEN [keys |-> without, held |-> NoKey, ok |-> TRUE]
      ELSE IF without[key] = "free"
           THEN [keys |-> [without EXCEPT ![key] = "pin"], held |-> key, ok |-> TRUE]
           ELSE [keys |-> without, held |-> NoKey, ok |-> FALSE]

\* SetSwitchHotkeys: every key that is free, the others are left out.
SetSwitchHotkeys(h, mods) ==
  LET without == Released(h, SwitchKeys)
  IN  IF mods = switchMods THEN h
      ELSE [c \in Combinations |->
              IF c[1] = mods /\ c[2] \in SwitchKeys /\ without[c] = "free"
              THEN c[2] ELSE without[c]]

\* Start; the shortcuts follow once the Coordinator runs, refusals in silence.
StartControl ==
  /\ ~control /\ control' = TRUE /\ switchMods' = wantedMods
  /\ LET pin == SetPinHotkey(holders, wantedPin)
     IN  /\ holders' = SetSwitchHotkeys(pin.keys, wantedMods)
         /\ pinHotkey' = pin.held /\ refusal' = IF pin.ok THEN "none" ELSE "silent"
  /\ UNCHANGED <<wantedPin, wantedMods>>

\* reapplyHotkey after the settings page, which sees to the pin's shortcut only.
AcceptShortcuts(key, mods) ==
  /\ control /\ wantedPin' = key /\ wantedMods' = mods
  /\ LET pin == SetPinHotkey(holders, key)
     IN  /\ holders' = pin.keys /\ pinHotkey' = pin.held
         /\ refusal' = IF pin.ok THEN "none" ELSE "announced"
  /\ UNCHANGED <<control, switchMods>>

\* Another program takes a combination, or gives it back.
OtherProgram(c) ==
  /\ holders[c] \in {"free", "other"}
  /\ holders' = [holders EXCEPT ![c] = IF @ = "free" THEN "other" ELSE "free"]
  /\ UNCHANGED <<control, pinHotkey, switchMods, wantedPin, wantedMods, refusal>>

\* Stop.
StopControl ==
  /\ control /\ control' = FALSE
  /\ holders' = SetSwitchHotkeys(SetPinHotkey(holders, NoKey).keys, NoMods)
  /\ pinHotkey' = NoKey /\ switchMods' = NoMods /\ refusal' = "none"
  /\ UNCHANGED <<wantedPin, wantedMods>>

ShortcutNext ==
  \/ StartControl \/ StopControl
  \/ \E key \in PinChoices, mods \in ModChoices : AcceptShortcuts(key, mods)
  \/ \E c \in Combinations : OtherProgram(c)

ShortcutSpec == ShortcutInit /\ [][ShortcutNext]_shortcutVars
-----------------------------------------------------------------------------
ShortcutTypeOK ==
  /\ control \in BOOLEAN
  /\ holders \in [Combinations -> {"free", "other", "pin"} \cup SwitchKeys]
  /\ pinHotkey \in PinChoices /\ wantedPin \in PinChoices
  /\ switchMods \in ModChoices /\ wantedMods \in ModChoices
  /\ refusal \in {"none", "silent", "announced"}

\* A combination is taken from every other program: the ones WindowMark holds
\* are the ones it remembers, so that each is given back; and a pin shortcut
\* that was chosen is held, or its refusal is known.
KeysAreAccounted ==
  /\ \A c \in Combinations :
        /\ holders[c] = "pin" <=> pinHotkey = c
        /\ holders[c] \in SwitchKeys => c = <<switchMods, holders[c]>>
  /\ control => (pinHotkey = wantedPin <=> refusal = "none")
=============================================================================
