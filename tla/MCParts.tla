------------------------------ MODULE MCParts -------------------------------
(***************************************************************************)
(* The components that share no state with the record of windows, checked  *)
(* one after the other in one run: part names the one that steps, the      *)
(* others stay as they began.  Runs "parts" and "snatched" of the README.  *)
(***************************************************************************)
EXTENDS DragGesture, SettingsStore, ClipKeeper, BookmarkStrip, PinMenu, SingleInstance,
        Crosshair, Shortcuts, BorderGeometry, KeyNames, TLC

CONSTANT Parts     \* the components this run steps

VARIABLES
  part,    \* the one that steps in this behaviour
  input    \* what the calculations are asked, or NoInput

AllParts == {"drag", "store", "keeper", "strip", "menu", "instance", "grab", "keys",
             "sums"}
DragOnly == {"drag"}

NoInput == <<>>
OneDragWindow == <<"w1">>
TwoDragWindows == <<"w1", "w2">>
SomeChoices ==
  [on : {TRUE}, mods : {{}, {"alt"}, {"win"}, {"alt", "win"}}, excluded : {{}}]
    \cup [on : {FALSE}, mods : {{"win"}}, excluded : {{}}]
    \cup [on : {TRUE}, mods : {{"win"}}, excluded : {{"w1"}}]
Lookalikes == Permutations(Procs) \cup Permutations(GrabWindows)
-----------------------------------------------------------------------------
(* Rectangles of up to 3 by 3, and the questions asked of them.            *)
Small == {r \in [left : 0..3, top : 0..3, right : 0..3, bottom : 0..3] : ~IsEmpty(r)}
Displacements == {-4, -1, 0, 2}

Tokens == {Char(84), Char(49), FKey(0), FKey(1), FKey(24), FKey(25)}
            \cup {Word(w) : w \in {"", "CTRL", "CONTROL", "ALT", "WIN", "LALT", "RCTRL", "LSHIFT",
                                   "RETURN", "PGUP", "NONSENSE"}}

Questions ==
  [ask : {"spell"}, text : BoundedSeq(Tokens, 3)]
    \cup [ask : {"cut"}, from : Small, hole : Small]
    \cup [ask : {"zone"}, frame : Small]
    \cup [ask : {"resize"}, frame : {r \in Small : r.left = 0 /\ r.top = 0}, edges : Edges,
          dx : Displacements, dy : Displacements, least : {0, 2}]

(* The calculations do what their callers rely on: the drag and border     *)
(* geometry (DragGeometry.cpp, BorderOcclusion.cpp, WinBorderPlan.cpp) and *)
(* the spelling of keys (Hotkey.cpp, DragModifiers.cpp).                   *)
SumsAreExact ==
  input # NoInput =>
    CASE input.ask = "cut" ->
           \A x, y \in 0..3 : /\ SubtractsExactly(input.from, input.hole, x, y)
                              /\ RingIsExact(input.from, input.hole, x, y)
      [] input.ask = "zone" ->
           /\ \A x, y \in 0..3 : ZoneIsUsable(input.frame, x, y)
           /\ \A work \in Small : CentredIsReachable(input.frame, work)
      [] input.ask = "resize" ->
           ResizeIsAnchored(input.frame, input.edges, input.dx, input.dy,
                            input.least, input.least)
      [] input.ask = "spell" -> SpellingIsKept(input.text)
-----------------------------------------------------------------------------
PartsInit ==
  /\ part \in Parts /\ input = NoInput
  /\ DragInit /\ StoreInit /\ KeeperInit /\ StripInit /\ PinMenuInit /\ InstanceInit
  /\ GrabInit /\ ShortcutInit

(* Only part p steps.                                                      *)
Only(p) ==
  /\ part = p /\ UNCHANGED part
  /\ p # "drag" => UNCHANGED dragVars
  /\ p # "store" => UNCHANGED storeVars
  /\ p # "keeper" => UNCHANGED keeperVars
  /\ p # "strip" => UNCHANGED stripVars
  /\ p # "menu" => UNCHANGED pinMenuVars
  /\ p # "instance" => UNCHANGED instanceVars
  /\ p # "grab" => UNCHANGED grabVars
  /\ p # "keys" => UNCHANGED shortcutVars
  /\ p # "sums" => UNCHANGED input

AskSums == input = NoInput /\ input' \in Questions

PartsNext ==
  \/ Only("drag") /\ DragNext
  \/ Only("store") /\ StoreNext
  \/ Only("keeper") /\ KeeperNext
  \/ Only("strip") /\ StripNext
  \/ Only("menu") /\ PinMenuNext
  \/ Only("instance") /\ InstanceNext
  \/ Only("grab") /\ GrabNext
  \/ Only("keys") /\ ShortcutNext
  \/ Only("sums") /\ AskSums

PartsSpec ==
  PartsInit /\ [][PartsNext]_<<part, input, dragVars, storeVars, keeperVars, stripVars,
                               pinMenuVars, instanceVars, grabVars, shortcutVars>>

PartsTypeOK ==
  /\ DragTypeOK /\ StoreTypeOK /\ KeeperTypeOK /\ StripTypeOK /\ PinMenuTypeOK
  /\ InstanceTypeOK /\ GrabTypeOK /\ ShortcutTypeOK
=============================================================================
