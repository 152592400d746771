---------------------------- MODULE SettingsStore ----------------------------
(***************************************************************************)
(* Where the settings live and how they get there: the search for the file *)
(* (ConfigLocation.cpp, WinUtil.cpp), reading and writing it (Settings.cpp)*)
(* and the commands of WinMain.cpp that change settings, with the settings *)
(* page that works on a draft while the tray keeps working.                *)
(* Settings are three: "ime" is written first and is authorised by the user*)
(* alone, "page" stands for what the settings page edits, "drag" for the   *)
(* switches of the tray, written last.                                     *)
(***************************************************************************)
EXTENDS Naturals, FiniteSets

CONSTANTS
  PageValues,    \* values of what the page edits; the first start has Plain
  Plain,
  Marker,        \* whether portable.on lies beside the program, in a writable directory
  MaxChanges,    \* bound: changes of a setting
  StoreFaults    \* subset of {"locked", "full", "killed", "unreadable", "refused", "unplugged"}

ASSUME StoreAssumption == Plain \in PageValues /\ MaxChanges \in Nat /\ Marker \in BOOLEAN

VARIABLES
  mem,         \* Coordinator::settings_
  files,       \* the settings file at each location
  registry,    \* the configured location, or Nowhere
  unplugged,   \* the configured location's directory cannot be written now
  running, where,         \* the program, and the path it saves to
  draft,       \* the settings page's copy while it is open
  pinKey,     \* the shortcut to pin, as registered
  chosen,      \* what the user chose last, per setting
  behindPage,  \* the guard was switched while a page was open
  movedTo,     \* the location the user was told is used from the next start
  doubtful,    \* the last save failed (told or, while closing the file, not told),
               \* or the file could not be read
  changes

storeVars == <<mem, files, registry, unplugged, running, where, draft, pinKey,
               chosen, behindPage, movedTo, doubtful, changes>>

Locations == {"portable", "custom", "fallback"}
Nowhere == "nowhere"
Keys == {"ime", "page", "drag"}
SettingsValues == [ime : BOOLEAN, page : PageValues, drag : BOOLEAN]
Default == [ime |-> FALSE, page |-> Plain, drag |-> FALSE]
Absent == [there |-> FALSE, val |-> Default]
File(s) == [there |-> TRUE, val |-> s]
-----------------------------------------------------------------------------
(***************************************************************************)
(* Settings::Save and Settings::LoadOrCreate.                              *)
(***************************************************************************)
(* Mutant: what cannot be read of a switch counts as on.                   *)
CutShortIsOn(s) ==
  {[k \in Keys |-> IF k \notin lost THEN s[k] ELSE IF k = "page" THEN Plain ELSE TRUE] :
      lost \in {Keys, Keys \ {"ime"}, {"drag"}}}

\* The file is truncated and written in order.  What a write that ends early
\* leaves is read back with the default for every key that is missing; of a
\* number or a colour the end may be missing, a cut Boolean is no Boolean.
CutShort(s) ==
  {[k \in Keys |-> IF k \in lost THEN Default[k] ELSE s[k]] :
      lost \in {Keys, Keys \ {"ime"}, {"drag"}}}
  \cup {[s EXCEPT !.page = cut, !.drag = FALSE] : cut \in PageValues}

SaveOutcomes == {"saved"} \cup (StoreFaults \cap {"locked", "full", "killed"})

\* What Save leaves at a location.
Written(s, outcome) ==
  CASE outcome = "saved" -> {File(s)}
    [] outcome = "locked" -> {}
    [] OTHER -> {File(t) : t \in CutShort(s)}

SaveTo(loc, s, outcome) ==
  IF outcome = "locked" THEN files' = files
  ELSE \E f \in Written(s, outcome) : files' = [files EXCEPT ![loc] = f]

\* ConfigLocation.cpp: the portable file or its marker first, then the
\* registry's location while it can be written, then the default one.
Resolve(reg, fs, unusable) ==
  IF fs["portable"].there \/ Marker THEN "portable"
  ELSE IF reg # Nowhere /\ ~unusable THEN reg
  ELSE "fallback"
-----------------------------------------------------------------------------
StoreInit ==
  /\ mem = Default /\ files = [l \in Locations |-> Absent]
  /\ registry = Nowhere /\ unplugged = FALSE
  /\ running = FALSE /\ where = Nowhere /\ draft = <<>>
  /\ pinKey = Plain
  /\ chosen = Default /\ behindPage = FALSE /\ movedTo = Nowhere /\ doubtful = FALSE /\ changes = 0

\* wWinMain up to the message loop.  A file that exists and cannot be opened
\* is read as the defaults, and one that is missing is written with them; neither
\* failure is told.
StartUp(readable, outcome) ==
  /\ ~running
  /\ LET loc == Resolve(registry, files, unplugged)
         there == files[loc].there
         loaded == IF there /\ readable THEN files[loc].val ELSE Default
     IN /\ there => outcome = "saved"
        /\ ~there => readable
        /\ running' = (outcome # "killed")
        /\ where' = loc
        /\ mem' = loaded
        /\ IF there THEN files' = files ELSE SaveTo(loc, Default, outcome)
        /\ doubtful' = (~readable \/ outcome \in {"locked", "full"})
        /\ pinKey' = loaded.page
        /\ chosen' = loaded
  /\ draft' = <<>> /\ movedTo' = Nowhere /\ behindPage' = FALSE
  /\ UNCHANGED <<registry, unplugged, changes>>

\* Every command ends in a save; a save that fails says so, a process killed
\* while it saves is gone.
Persist(s, outcome) ==
  /\ SaveTo(where, s, outcome)
  /\ mem' = s
  /\ doubtful' = (outcome \in {"locked", "full"})
  /\ running' = (outcome # "killed")
  /\ changes' = changes + 1

(* Mutant: the switch is applied and not saved.                            *)
ToggleSwitchUnsaved(outcome) ==
  /\ running /\ changes < MaxChanges
  /\ mem' = [mem EXCEPT !.drag = ~mem.drag]
  /\ chosen' = [chosen EXCEPT !.drag = ~mem.drag]
  /\ changes' = changes + 1
  /\ UNCHANGED <<files, running, doubtful, registry, unplugged, where, draft, pinKey,
                 behindPage, movedTo>>

\* onToggleDrag and its like: a switch of the tray, at any time.
ToggleSwitch(outcome) ==
  /\ running /\ changes < MaxChanges
  /\ Persist([mem EXCEPT !.drag = ~mem.drag], outcome)
  /\ chosen' = [chosen EXCEPT !.drag = ~mem.drag]
  /\ UNCHANGED <<registry, unplugged, where, draft, pinKey, behindPage, movedTo>>

\* The page goes with the process.
DialogOpen == running /\ draft # <<>>

\* onRequestedChanged of the input-method guard: not behind the dialog guard.
ToggleImeGuard(outcome) ==
  /\ running /\ changes < MaxChanges
  /\ Persist([mem EXCEPT !.ime = ~mem.ime], outcome)
  /\ chosen' = [chosen EXCEPT !.ime = ~mem.ime]
  /\ behindPage' = DialogOpen
  /\ UNCHANGED <<registry, unplugged, where, draft, pinKey, movedTo>>

OpenPage ==
  /\ running /\ ~DialogOpen
  /\ draft' = <<mem>>
  /\ UNCHANGED <<mem, files, registry, unplugged, running, where, pinKey,
                 chosen, behindPage, movedTo, doubtful, changes>>

\* The page edits its draft; nothing else sees it.
EditPage(v) ==
  /\ DialogOpen /\ v # draft[1].page
  /\ draft' = <<[draft[1] EXCEPT !.page = v]>>
  /\ UNCHANGED <<mem, files, registry, unplugged, running, where, pinKey,
                 chosen, behindPage, movedTo, doubtful, changes>>

CancelPage ==
  /\ DialogOpen
  /\ draft' = <<>>
  /\ UNCHANGED <<mem, files, registry, unplugged, running, where, pinKey,
                 chosen, behindPage, movedTo, doubtful, changes>>

(* Mutant: the draft replaces everything.                                  *)
AcceptedAsDrafted(d) == d

\* OK takes the draft, with the switches as they are now, applies it, and
\* registers the pin shortcut anew.
Accepted(d) == [d EXCEPT !.drag = mem.drag]

AcceptPage(outcome) ==
  /\ DialogOpen /\ changes < MaxChanges
  /\ Persist(Accepted(draft[1]), outcome)
  /\ chosen' = [chosen EXCEPT !.page = draft[1].page]
  /\ pinKey' = draft[1].page
  /\ draft' = <<>>
  /\ UNCHANGED <<registry, unplugged, where, behindPage, movedTo>>

\* onConfigPath: save to the new place, put the portable file aside, note the
\* new place in the registry, of which each may fail alone and either failure goes
\* by in silence.  The running program keeps its path.
MoveConfig(loc, outcome, renamed, noted) ==
  LET before == Resolve(registry, files, unplugged)
  IN /\ running /\ ~DialogOpen
     /\ loc # before
     /\ loc = "custom" => ~unplugged
     /\ outcome # "killed"
     /\ \E f \in (IF outcome = "locked" THEN {files[loc]} ELSE Written(mem, outcome)) :
          LET saved == [files EXCEPT ![loc] = f]
          IN IF outcome # "saved"
             THEN /\ files' = saved
                  /\ UNCHANGED <<registry, movedTo>>
             ELSE /\ files' = IF before = "portable" /\ loc # "portable" /\ renamed
                              THEN [saved EXCEPT !["portable"] = Absent] ELSE saved
                  /\ registry' = IF ~noted THEN registry
                                 ELSE IF loc = "custom" THEN "custom" ELSE Nowhere
                  /\ movedTo' = loc
     /\ doubtful' = (doubtful \/ outcome = "full")
     /\ UNCHANGED <<mem, unplugged, running, where, draft, pinKey,
                    chosen, behindPage, changes>>

\* The end of the process, asked for or not, between two commands.
Ends ==
  /\ running
  /\ running' = FALSE /\ draft' = <<>>
  /\ UNCHANGED <<mem, files, registry, unplugged, where, pinKey,
                 chosen, behindPage, movedTo, doubtful, changes>>

\* The drive of the configured location is removed or comes back.
Unplug ==
  /\ "unplugged" \in StoreFaults
  /\ unplugged' = ~unplugged
  /\ UNCHANGED <<mem, files, registry, running, where, draft, pinKey,
                 chosen, behindPage, movedTo, doubtful, changes>>

StoreNext ==
  \/ \E readable \in (IF "unreadable" \in StoreFaults THEN BOOLEAN ELSE {TRUE}),
        o \in SaveOutcomes : StartUp(readable, o)
  \/ \E o \in SaveOutcomes : ToggleSwitch(o)
  \/ \E o \in SaveOutcomes : ToggleImeGuard(o)
  \/ OpenPage
  \/ \E v \in PageValues : EditPage(v)
  \/ CancelPage
  \/ \E o \in SaveOutcomes : AcceptPage(o)
  \/ \E loc \in Locations, o \in SaveOutcomes,
        renamed, noted \in (IF "refused" \in StoreFaults THEN BOOLEAN ELSE {TRUE}) :
       MoveConfig(loc, o, renamed, noted)
  \/ Ends
  \/ Unplug

StoreSpec == StoreInit /\ [][StoreNext]_storeVars
-----------------------------------------------------------------------------
StoreTypeOK ==
  /\ mem \in SettingsValues
  /\ files \in [Locations -> [there : BOOLEAN, val : SettingsValues]]
  /\ registry \in Locations \cup {Nowhere} /\ unplugged \in BOOLEAN
  /\ running \in BOOLEAN /\ where \in Locations \cup {Nowhere}
  /\ draft \in {<<>>} \cup {<<s>> : s \in SettingsValues}
  /\ pinKey \in PageValues
  /\ chosen \in SettingsValues /\ behindPage \in BOOLEAN
  /\ movedTo \in Locations \cup {Nowhere} /\ doubtful \in BOOLEAN
  /\ changes \in 0..MaxChanges

\* Between two commands the file holds what the program holds, so that nothing
\* is lost however the process ends, unless a save failed, the file could not
\* be read, or it was moved away.
FileHoldsSettings ==
  running /\ ~doubtful /\ movedTo = Nowhere => files[where] = File(mem)

\* In whatever order a page that was opened earlier is accepted, what the user has
\* set with the page stays set, and so does what was switched in the tray (the
\* comment above the four lines of openSettingsPage); the shortcut to pin is the one
\* set.  The guard stays as it was switched unless that was done while the page was
\* open: those lines leave the guard out, and accepting the page undoes the switch.
ChoicesStand ==
  running => /\ mem.drag = chosen.drag /\ mem.page = chosen.page /\ pinKey = mem.page
             /\ ~behindPage => mem.ime = chosen.ime

\* A save cut short by the end of the process switches nothing on: whatever is
\* left of the file, the guard and the gesture run after the next start only if
\* they were on, because what is missing or cut is read as off.
NothingSwitchesOn ==
  [][~running /\ running' /\ where' = where /\ movedTo = Nowhere /\ ~doubtful
       => (mem'.ime => mem.ime) /\ (mem'.drag => mem.drag)]_storeVars
=============================================================================
