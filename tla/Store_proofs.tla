---------------------------- MODULE Store_proofs ----------------------------
(***************************************************************************)
(* Theorems about what the program remembers, for any values, locations    *)
(* with or without the portable marker, and every combination of faults:   *)
(* the settings and their file; and the copies that the clipboard keeper   *)
(* holds, which are all kept, in order, unless another program holds the   *)
(* clipboard too long.                                                     *)
(***************************************************************************)
EXTENDS SettingsStore, ClipKeeper, WellFoundedInduction, TLAPS

-----------------------------------------------------------------------------
(***************************************************************************)
(* The settings.                                                           *)
(***************************************************************************)
(* The program saves to a location it found.                               *)
SavesSomewhere == running => where \in Locations

(* What is left of the file, whole or cut short, has no switch on that the *)
(* program had off, unless a save failed or the file was moved.            *)
LeftoverIsOff ==
  where \in Locations /\ movedTo = Nowhere /\ ~doubtful /\ files[where].there =>
    (files[where].val.ime => mem.ime) /\ (files[where].val.drag => mem.drag)

(* The page has the guard as it is, unless it was switched behind the page. *)
DraftFollows == running /\ draft # <<>> /\ ~behindPage => draft[1].ime = mem.ime

FileInv == SavesSomewhere /\ FileHoldsSettings /\ LeftoverIsOff
StoreInv == StoreTypeOK /\ FileInv /\ ChoicesStand /\ DraftFollows

(* Nothing of the file changes, nor what is in memory.                     *)
LEMMA FileUntouched ==
    ASSUME FileInv, running' => running, movedTo' = movedTo,
           UNCHANGED <<files, mem, where, doubtful>>
    PROVE  FileInv'
  BY DEF FileInv, SavesSomewhere, FileHoldsSettings, LeftoverIsOff

LEMMA DefaultIsSettings == Default \in SettingsValues
  BY StoreAssumption DEF Default, SettingsValues

(* A file that was cut short is read as settings, with nothing switched on.*)
LEMMA CutShortIsOff ==
    ASSUME NEW s \in SettingsValues, NEW t \in CutShort(s)
    PROVE  t \in SettingsValues /\ (t.ime => s.ime) /\ (t.drag => s.drag)
  <1>1. CASE \E lost \in {Keys, Keys \ {"ime"}, {"drag"}} :
               t = [k \in Keys |-> IF k \in lost THEN Default[k] ELSE s[k]]
    <2>1. PICK lost \in {Keys, Keys \ {"ime"}, {"drag"}} :
                 t = [k \in Keys |-> IF k \in lost THEN Default[k] ELSE s[k]]
      BY <1>1
    <2>2. /\ t = [k \in Keys |-> t[k]]
          /\ t["ime"] = IF "ime" \in lost THEN FALSE ELSE s["ime"]
          /\ t["page"] = IF "page" \in lost THEN Plain ELSE s["page"]
          /\ t["drag"] = IF "drag" \in lost THEN FALSE ELSE s["drag"]
      BY <2>1 DEF Keys, Default
    <2>3. t = [ime |-> t["ime"], page |-> t["page"], drag |-> t["drag"]]
      BY <2>2 DEF Keys
    <2>4. t["ime"] \in BOOLEAN /\ t["page"] \in PageValues /\ t["drag"] \in BOOLEAN
      BY <2>2, StoreAssumption DEF SettingsValues
    <2>5. t \in SettingsValues
      BY <2>3, <2>4 DEF SettingsValues
    <2> QED
      BY <2>2, <2>5
  <1>2. CASE \E cut \in PageValues : t = [s EXCEPT !.page = cut, !.drag = FALSE]
    BY <1>2 DEF SettingsValues
  <1> QED
    BY <1>1, <1>2 DEF CutShort

(* What Save leaves: the settings if it was saved, else something that has *)
(* nothing switched on.                                                    *)
LEMMA WrittenIsOff ==
    ASSUME NEW s \in SettingsValues, NEW o \in SaveOutcomes, o # "locked", NEW f \in Written(s, o)
    PROVE  /\ f \in [there : BOOLEAN, val : SettingsValues]
           /\ (f.val.ime => s.ime) /\ (f.val.drag => s.drag)
           /\ o = "saved" => f = File(s)
  <1>1. CASE o = "saved"
    <2>1. Written(s, o) = {File(s)}
      BY <1>1 DEF Written
    <2>2. f = File(s)
      BY <2>1
    <2>3. f \in [there : BOOLEAN, val : SettingsValues] /\ f.val = s
      BY <2>2 DEF File
    <2> QED
      BY <2>2, <2>3
  <1>2. CASE o # "saved"
    <2>1. PICK t \in CutShort(s) : f = File(t)
      <3>1. Written(s, o) = {File(t) : t \in CutShort(s)}
        BY <1>2 DEF Written
      <3> QED
        BY <3>1
    <2> QED
      BY <1>2, <2>1, CutShortIsOff DEF File
  <1> QED
    BY <1>1, <1>2
-----------------------------------------------------------------------------
LEMMA StoreInvInit == StoreInit => StoreInv
  <1> SUFFICES ASSUME StoreInit PROVE StoreInv
    OBVIOUS
  <1>1. StoreTypeOK
    <2>1. Absent \in [there : BOOLEAN, val : SettingsValues]
      BY DefaultIsSettings DEF Absent
    <2>2. draft \in {<<>>} \cup {<<s>> : s \in SettingsValues}
      BY DEF StoreInit
    <2>3. changes \in 0..MaxChanges
      BY StoreAssumption DEF StoreInit
    <2> QED
      BY <2>1, <2>2, <2>3, DefaultIsSettings, StoreAssumption DEF StoreInit, StoreTypeOK
  <1>2. Nowhere \notin Locations
    BY DEF Nowhere, Locations
  <1>3. FileInv
    BY <1>2 DEF StoreInit, FileInv, SavesSomewhere, FileHoldsSettings, LeftoverIsOff
  <1>4. ChoicesStand /\ DraftFollows
    BY DEF StoreInit, ChoicesStand, DraftFollows
  <1> QED
    BY <1>1, <1>3, <1>4 DEF StoreInv

(* Saving to a location: the file has what was saved, or the save failed   *)
(* or the process is gone.                                                 *)
LEMMA SaveKeeps ==
    ASSUME StoreTypeOK, NEW loc \in Locations, NEW s \in SettingsValues, NEW o \in SaveOutcomes,
           SaveTo(loc, s, o)
    PROVE  /\ files' \in [Locations -> [there : BOOLEAN, val : SettingsValues]]
           /\ o = "saved" => files'[loc] = File(s)
           /\ o # "locked" => (files'[loc].val.ime => s.ime) /\ (files'[loc].val.drag => s.drag)
           /\ o = "locked" => files' = files
  <1>1. files \in [Locations -> [there : BOOLEAN, val : SettingsValues]]
    BY DEF StoreTypeOK
  <1>2. CASE o = "locked"
    BY <1>1, <1>2 DEF SaveTo
  <1>3. CASE o # "locked"
    <2>1. PICK f \in Written(s, o) : files' = [files EXCEPT ![loc] = f]
      BY <1>3 DEF SaveTo
    <2>2. /\ f \in [there : BOOLEAN, val : SettingsValues]
          /\ (f.val.ime => s.ime) /\ (f.val.drag => s.drag)
          /\ o = "saved" => f = File(s)
      BY <1>3, WrittenIsOff
    <2>3. files'[loc] = f
      BY <1>1, <2>1
    <2>4. files' \in [Locations -> [there : BOOLEAN, val : SettingsValues]]
      BY <1>1, <2>1, <2>2
    <2> QED
      BY <1>3, <2>2, <2>3, <2>4
  <1> QED
    BY <1>2, <1>3

(* A command that saves: the file has what the program has, or the save    *)
(* failed and is known to have, or the process is gone.                    *)
LEMMA PersistKeeps ==
    ASSUME StoreInv, running, changes < MaxChanges,
           NEW s \in SettingsValues, NEW o \in SaveOutcomes, Persist(s, o),
           UNCHANGED <<where, movedTo>>
    PROVE  /\ files' \in [Locations -> [there : BOOLEAN, val : SettingsValues]]
           /\ mem' = s /\ changes' \in 0..MaxChanges
           /\ running' \in BOOLEAN /\ doubtful' \in BOOLEAN
           /\ FileInv'
  <1>1. where \in Locations /\ changes \in 0..MaxChanges /\ StoreTypeOK
    BY DEF StoreInv, FileInv, SavesSomewhere, StoreTypeOK
  <1>2. /\ mem' = s /\ changes' = changes + 1 /\ running' = (o # "killed")
        /\ doubtful' = (o \in {"locked", "full"})
        /\ SaveTo(where, s, o)
    BY DEF Persist
  <1>3. changes' \in 0..MaxChanges
    BY <1>1, <1>2, StoreAssumption
  <1>4. /\ files' \in [Locations -> [there : BOOLEAN, val : SettingsValues]]
        /\ o = "saved" => files'[where] = File(s)
        /\ o # "locked" => (files'[where].val.ime => s.ime) /\ (files'[where].val.drag => s.drag)
    BY <1>1, <1>2, SaveKeeps
  <1>5. o \in {"saved", "locked", "full", "killed"}
    BY DEF SaveOutcomes
  <1>6. FileHoldsSettings'
    BY <1>2, <1>4, <1>5 DEF FileHoldsSettings
  <1>7. LeftoverIsOff'
    BY <1>2, <1>4, <1>5 DEF LeftoverIsOff
  <1>8. SavesSomewhere'
    BY <1>1 DEF SavesSomewhere
  <1> QED
    BY <1>2, <1>3, <1>4, <1>6, <1>7, <1>8 DEF FileInv

LEMMA StartUpKeeps ==
    ASSUME StoreInv, NEW readable \in BOOLEAN, NEW o \in SaveOutcomes, StartUp(readable, o)
    PROVE  StoreInv'
  <1> DEFINE loc == Resolve(registry, files, unplugged)
             there == files[loc].there
             loaded == IF there /\ readable THEN files[loc].val ELSE Default
             FileType == [there : BOOLEAN, val : SettingsValues]
  <1>1. /\ StoreTypeOK /\ files \in [Locations -> FileType]
        /\ registry \in Locations \cup {Nowhere} /\ unplugged \in BOOLEAN
        /\ changes \in 0..MaxChanges
    BY DEF StoreInv, StoreTypeOK
  <1>2. loc \in Locations
    BY <1>1 DEF Resolve, Locations
  <1>3. /\ there => o = "saved"
        /\ ~there => readable
        /\ running' = (o # "killed") /\ where' = loc /\ mem' = loaded
        /\ IF there THEN files' = files ELSE SaveTo(loc, Default, o)
        /\ doubtful' = (~readable \/ o \in {"locked", "full"})
        /\ pinKey' = loaded.page /\ chosen' = loaded /\ draft' = <<>> /\ movedTo' = Nowhere
        /\ behindPage' = FALSE
        /\ UNCHANGED <<registry, unplugged, changes>>
    BY DEF StartUp
  <1>4. loaded \in SettingsValues
    BY <1>1, <1>2, DefaultIsSettings
  <1>5. o \in {"saved", "locked", "full", "killed"}
    BY DEF SaveOutcomes
  <1>6. ~there => /\ files' \in [Locations -> FileType]
                  /\ o = "saved" => files'[loc] = File(Default)
                  /\ o # "locked" => /\ files'[loc].val.ime => Default.ime
                                     /\ files'[loc].val.drag => Default.drag
    BY <1>1, <1>2, <1>3, DefaultIsSettings, SaveKeeps
  <1>7. files' \in [Locations -> FileType]
    BY <1>1, <1>3, <1>6
  <1>8. loaded.page \in PageValues
    BY <1>4 DEF SettingsValues
  <1>9. o = "saved" /\ readable => files'[loc] = File(loaded)
    <2>1. CASE there
      BY <1>1, <1>2, <1>3, <2>1 DEF File
    <2>2. CASE ~there
      BY <1>6, <2>2
    <2> QED
      BY <2>1, <2>2
  <1>10. ~there => loaded = Default
    OBVIOUS
  <1> HIDE DEF loc, loaded, there, FileType
  <1>11. StoreTypeOK'
    <2>1. running' \in BOOLEAN /\ doubtful' \in BOOLEAN
      BY <1>3
    <2>2. draft' \in {<<>>} \cup {<<s>> : s \in SettingsValues}
      BY <1>3
    <2> QED
      BY <1>1, <1>2, <1>3, <1>4, <1>7, <1>8, <2>1, <2>2 DEF StoreTypeOK, FileType
  <1>12. FileHoldsSettings'
    BY <1>3, <1>5, <1>9 DEF FileHoldsSettings
  <1>13. LeftoverIsOff'
    <2>1. CASE o = "saved"
      <3>1. ~doubtful' => readable
        BY <1>3
      <3>2. readable => files'[where'].val = mem'
        BY <1>3, <1>9, <2>1 DEF File
      <3> QED
        BY <3>1, <3>2 DEF LeftoverIsOff
    <2>2. CASE o = "killed"
      BY <1>3, <1>6, <1>10, <2>2 DEF LeftoverIsOff
    <2>3. CASE o \in {"locked", "full"}
      BY <1>3, <2>3 DEF LeftoverIsOff
    <2> QED
      BY <1>5, <2>1, <2>2, <2>3
  <1>14. SavesSomewhere'
    BY <1>2, <1>3 DEF SavesSomewhere
  <1>15. ChoicesStand' /\ DraftFollows'
    BY <1>3 DEF ChoicesStand, DraftFollows
  <1> QED
    BY <1>11, <1>12, <1>13, <1>14, <1>15 DEF StoreInv, FileInv

LEMMA MoveKeeps ==
    ASSUME StoreInv, NEW loc \in Locations, NEW o \in SaveOutcomes, NEW renamed \in BOOLEAN,
           NEW noted \in BOOLEAN, MoveConfig(loc, o, renamed, noted)
    PROVE  StoreInv'
  <1> DEFINE before == Resolve(registry, files, unplugged)
             FileType == [there : BOOLEAN, val : SettingsValues]
  <1>1. /\ files \in [Locations -> FileType] /\ mem \in SettingsValues
        /\ registry \in Locations \cup {Nowhere} /\ movedTo \in Locations \cup {Nowhere}
        /\ doubtful \in BOOLEAN /\ FileInv
    BY DEF StoreInv, StoreTypeOK
  <1>2. /\ doubtful' = (doubtful \/ o = "full")
        /\ UNCHANGED <<mem, unplugged, running, where, draft, pinKey, chosen, behindPage, changes>>
        /\ o # "killed"
    BY DEF MoveConfig
  <1>3. PICK f \in (IF o = "locked" THEN {files[loc]} ELSE Written(mem, o)) :
          LET saved == [files EXCEPT ![loc] = f]
          IN  IF o # "saved"
              THEN files' = saved /\ UNCHANGED <<registry, movedTo>>
              ELSE /\ files' = IF before = "portable" /\ loc # "portable" /\ renamed
                               THEN [saved EXCEPT !["portable"] = Absent] ELSE saved
                   /\ registry' = IF ~noted THEN registry
                                  ELSE IF loc = "custom" THEN "custom" ELSE Nowhere
                   /\ movedTo' = loc
    BY Zenon DEF MoveConfig
  <1>4. f \in FileType
    BY <1>1, <1>3, WrittenIsOff
  <1>5. Absent \in FileType
    BY DefaultIsSettings DEF Absent
  <1>6. [files EXCEPT ![loc] = f] \in [Locations -> FileType]
    BY <1>1, <1>4
  <1>7. files' \in [Locations -> FileType]
    BY <1>3, <1>5, <1>6
  <1>8. registry' \in Locations \cup {Nowhere} /\ movedTo' \in Locations \cup {Nowhere}
    BY <1>1, <1>3 DEF Locations
  <1>9. doubtful' \in BOOLEAN
    BY <1>1, <1>2
  <1>10. StoreTypeOK'
    BY <1>2, <1>7, <1>8, <1>9 DEF StoreInv, StoreTypeOK
  <1>11. ChoicesStand' /\ DraftFollows'
    BY <1>2 DEF StoreInv, ChoicesStand, DraftFollows
  <1>12. CASE o = "saved"
    <2>1. movedTo' # Nowhere
      BY <1>3, <1>12 DEF Locations, Nowhere
    <2>2. FileInv'
      BY <1>1, <1>2, <2>1 DEF FileInv, SavesSomewhere, FileHoldsSettings, LeftoverIsOff
    <2> QED
      BY <1>10, <1>11, <2>2 DEF StoreInv
  <1>13. CASE o = "locked"
    <2>1. files' = files /\ movedTo' = movedTo /\ doubtful' = doubtful
      BY <1>1, <1>2, <1>3, <1>13
    <2> QED
      BY <1>1, <1>2, <1>10, <1>11, <2>1, FileUntouched DEF StoreInv
  <1>14. CASE o = "full"
    <2>1. FileInv'
      BY <1>1, <1>2, <1>14 DEF FileInv, SavesSomewhere, FileHoldsSettings, LeftoverIsOff
    <2> QED
      BY <1>10, <1>11, <2>1 DEF StoreInv
  <1> QED
    BY <1>2, <1>12, <1>13, <1>14 DEF SaveOutcomes

LEMMA StoreInvKept == StoreInv /\ [StoreNext]_storeVars => StoreInv'
  <1> SUFFICES ASSUME StoreInv, [StoreNext]_storeVars PROVE StoreInv'
    OBVIOUS
  <1>a. StoreTypeOK /\ ChoicesStand /\ DraftFollows /\ FileInv
    BY DEF StoreInv
  <1>1. ASSUME NEW readable \in BOOLEAN, NEW o \in SaveOutcomes, StartUp(readable, o)
        PROVE  StoreInv'
    BY <1>1, StartUpKeeps
  <1>2. ASSUME NEW o \in SaveOutcomes, ToggleSwitch(o) PROVE StoreInv'
    <2> DEFINE s == [mem EXCEPT !.drag = ~mem.drag]
    <2>1. /\ running /\ changes < MaxChanges /\ Persist(s, o)
          /\ chosen' = [chosen EXCEPT !.drag = ~mem.drag]
          /\ UNCHANGED <<registry, unplugged, where, draft, pinKey, behindPage, movedTo>>
      BY <1>2 DEF ToggleSwitch
    <2>2. s \in SettingsValues /\ s.drag = ~mem.drag /\ s.page = mem.page /\ s.ime = mem.ime
      BY <1>a DEF StoreTypeOK, SettingsValues
    <2>3. /\ chosen' \in SettingsValues /\ chosen'.drag = ~mem.drag
          /\ chosen'.page = chosen.page /\ chosen'.ime = chosen.ime
      BY <1>a, <2>1 DEF StoreTypeOK, SettingsValues
    <2> HIDE DEF s
    <2>4. /\ files' \in [Locations -> [there : BOOLEAN, val : SettingsValues]]
          /\ mem' = s /\ changes' \in 0..MaxChanges
          /\ running' \in BOOLEAN /\ doubtful' \in BOOLEAN /\ FileInv'
      BY <2>1, <2>2, PersistKeeps
    <2>5. StoreTypeOK'
      BY <1>a, <2>1, <2>2, <2>3, <2>4 DEF StoreTypeOK
    <2>6. ChoicesStand'
      BY <1>a, <2>1, <2>2, <2>3, <2>4 DEF ChoicesStand
    <2>7. DraftFollows'
      BY <1>a, <2>1, <2>2, <2>4 DEF DraftFollows
    <2> QED
      BY <2>4, <2>5, <2>6, <2>7 DEF StoreInv
  <1>3. ASSUME NEW o \in SaveOutcomes, ToggleImeGuard(o) PROVE StoreInv'
    <2> DEFINE s == [mem EXCEPT !.ime = ~mem.ime]
    <2>1. /\ running /\ changes < MaxChanges /\ Persist(s, o)
          /\ chosen' = [chosen EXCEPT !.ime = ~mem.ime] /\ behindPage' = DialogOpen
          /\ UNCHANGED <<registry, unplugged, where, draft, pinKey, movedTo>>
      BY <1>3 DEF ToggleImeGuard
    <2>2. s \in SettingsValues /\ s.drag = mem.drag /\ s.page = mem.page /\ s.ime = ~mem.ime
      BY <1>a DEF StoreTypeOK, SettingsValues
    <2>3. /\ chosen' \in SettingsValues /\ chosen'.drag = chosen.drag
          /\ chosen'.page = chosen.page /\ chosen'.ime = ~mem.ime
      BY <1>a, <2>1 DEF StoreTypeOK, SettingsValues
    <2> HIDE DEF s
    <2>4. /\ files' \in [Locations -> [there : BOOLEAN, val : SettingsValues]]
          /\ mem' = s /\ changes' \in 0..MaxChanges
          /\ running' \in BOOLEAN /\ doubtful' \in BOOLEAN /\ FileInv'
      BY <2>1, <2>2, PersistKeeps
    <2>5. StoreTypeOK'
      <3>1. behindPage' \in BOOLEAN
        BY <2>1 DEF DialogOpen
      <3> QED
        BY <1>a, <2>1, <2>2, <2>3, <2>4, <3>1 DEF StoreTypeOK
    <2>6. ChoicesStand'
      BY <1>a, <2>1, <2>2, <2>3, <2>4 DEF ChoicesStand
    <2>7. DraftFollows'
      BY <2>1 DEF DraftFollows, DialogOpen
    <2> QED
      BY <2>4, <2>5, <2>6, <2>7 DEF StoreInv
  <1>4. ASSUME \/ OpenPage \/ CancelPage \/ \E v \in PageValues : EditPage(v)
        PROVE  StoreInv'
    <2>1. /\ running /\ UNCHANGED <<mem, files, registry, unplugged, running, where, pinKey,
                                    chosen, behindPage, movedTo, doubtful, changes>>
      BY <1>4 DEF OpenPage, CancelPage, EditPage, DialogOpen
    <2>2. draft' = <<>> \/ \E s \in SettingsValues : draft' = <<s>> /\ (~behindPage => s.ime = mem.ime)
      <3>1. CASE OpenPage
        BY <1>a, <3>1 DEF OpenPage, StoreTypeOK
      <3>2. CASE CancelPage
        BY <3>2 DEF CancelPage
      <3>3. CASE \E v \in PageValues : EditPage(v)
        <4>1. PICK v \in PageValues : EditPage(v)
          BY <3>3
        <4>2. PICK s \in SettingsValues : draft = <<s>>
          BY <1>a, <4>1 DEF EditPage, DialogOpen, StoreTypeOK
        <4>3. [s EXCEPT !.page = v] \in SettingsValues /\ [s EXCEPT !.page = v].ime = s.ime
          BY DEF SettingsValues
        <4>4. ~behindPage => s.ime = mem.ime
          BY <1>a, <2>1, <4>2 DEF DraftFollows
        <4> QED
          BY <4>1, <4>2, <4>3, <4>4 DEF EditPage
      <3> QED
        BY <1>4, <3>1, <3>2, <3>3
    <2>3. draft' \in {<<>>} \cup {<<s>> : s \in SettingsValues}
      BY <2>2
    <2>4. StoreTypeOK'
      BY <1>a, <2>1, <2>3 DEF StoreTypeOK
    <2>5. DraftFollows'
      BY <2>1, <2>2 DEF DraftFollows
    <2>6. ChoicesStand'
      BY <1>a, <2>1 DEF ChoicesStand
    <2>7. FileInv'
      BY <1>a, <2>1, FileUntouched
    <2> QED
      BY <2>4, <2>5, <2>6, <2>7 DEF StoreInv
  <1>7. ASSUME NEW o \in SaveOutcomes, AcceptPage(o) PROVE StoreInv'
    <2>1. PICK d \in SettingsValues : draft = <<d>>
      BY <1>7 DEF AcceptPage, DialogOpen, StoreInv, StoreTypeOK
    <2> DEFINE s == [d EXCEPT !.drag = mem.drag]
    <2>2. /\ changes < MaxChanges /\ Persist(s, o)
          /\ chosen' = [chosen EXCEPT !.page = d.page] /\ pinKey' = d.page /\ draft' = <<>>
          /\ UNCHANGED <<registry, unplugged, where, behindPage, movedTo>>
      BY <1>7, <2>1 DEF AcceptPage, Accepted
    <2>3. /\ s \in SettingsValues /\ s.drag = mem.drag /\ s.page = d.page /\ s.ime = d.ime
          /\ d.page \in PageValues
      BY <1>a DEF StoreTypeOK, SettingsValues
    <2>4. /\ chosen' \in SettingsValues /\ chosen'.drag = chosen.drag /\ chosen'.page = d.page
          /\ chosen'.ime = chosen.ime
      BY <1>a, <2>2 DEF StoreTypeOK, SettingsValues
    <2>5. running /\ draft # <<>>
      BY <1>7 DEF AcceptPage, DialogOpen
    <2>6. ~behindPage => d.ime = mem.ime
      BY <1>a, <2>1, <2>5 DEF DraftFollows
    <2> HIDE DEF s
    <2>7. /\ files' \in [Locations -> [there : BOOLEAN, val : SettingsValues]]
          /\ mem' = s /\ changes' \in 0..MaxChanges
          /\ running' \in BOOLEAN /\ doubtful' \in BOOLEAN /\ FileInv'
      BY <2>2, <2>3, <2>5, PersistKeeps
    <2>8. StoreTypeOK'
      <3>1. draft' \in {<<>>} \cup {<<e>> : e \in SettingsValues}
        BY <2>2
      <3> QED
        BY <1>a, <2>2, <2>3, <2>4, <2>7, <3>1 DEF StoreTypeOK
    <2>9. mem.drag = chosen.drag /\ (~behindPage => mem.ime = chosen.ime)
      BY <1>a, <2>5 DEF ChoicesStand
    <2>10. /\ mem'.drag = chosen'.drag /\ mem'.page = chosen'.page /\ pinKey' = mem'.page
      BY <2>2, <2>3, <2>4, <2>7, <2>9
    <2>11. ~behindPage' => mem'.ime = chosen'.ime
      BY <2>2, <2>3, <2>4, <2>6, <2>7, <2>9
    <2>12. ChoicesStand'
      BY <2>10, <2>11 DEF ChoicesStand
    <2>13. DraftFollows'
      BY <2>2 DEF DraftFollows
    <2> QED
      BY <2>7, <2>8, <2>12, <2>13 DEF StoreInv
  <1>8. ASSUME NEW loc \in Locations, NEW o \in SaveOutcomes, NEW renamed \in BOOLEAN,
               NEW noted \in BOOLEAN, MoveConfig(loc, o, renamed, noted)
        PROVE  StoreInv'
    BY <1>8, MoveKeeps
  <1>9. ASSUME Ends \/ Unplug \/ UNCHANGED storeVars
        PROVE  StoreInv'
    <2>1. /\ UNCHANGED <<mem, files, registry, where, pinKey, chosen, behindPage, movedTo,
                         doubtful, changes>>
          /\ running' \in BOOLEAN /\ unplugged' \in BOOLEAN
          /\ running' => running /\ draft' = draft
          /\ draft' \in {draft, <<>>}
      <3>1. running \in BOOLEAN /\ unplugged \in BOOLEAN
        BY <1>a DEF StoreTypeOK
      <3>2. CASE Ends
        BY <3>1, <3>2 DEF Ends
      <3>3. CASE Unplug
        <4>1. unplugged' \in BOOLEAN
          BY <3>3 DEF Unplug
        <4> QED
          BY <3>1, <3>3, <4>1 DEF Unplug
      <3>4. CASE UNCHANGED storeVars
        BY <3>1, <3>4 DEF storeVars
      <3> QED
        BY <1>9, <3>2, <3>3, <3>4
    <2>2. StoreTypeOK'
      BY <1>a, <2>1 DEF StoreTypeOK
    <2>3. ChoicesStand' /\ DraftFollows'
      BY <1>a, <2>1 DEF ChoicesStand, DraftFollows
    <2>4. FileInv'
      BY <1>a, <2>1, FileUntouched
    <2> QED
      BY <2>2, <2>3, <2>4 DEF StoreInv
  <1> QED
    BY <1>1, <1>2, <1>3, <1>4, <1>7, <1>8, <1>9 DEF StoreNext

LEMMA StoreInvAlways == StoreSpec => []StoreInv
  BY StoreInvInit, StoreInvKept, PTL DEF StoreSpec
-----------------------------------------------------------------------------
(* Between two commands the file is what the program holds (Save and the   *)
(* commands of WinMain.cpp), unless a save failed or the file was moved.   *)
THEOREM FileIsCurrent == StoreSpec => []FileHoldsSettings
  <1>1. StoreInv => FileHoldsSettings
    BY DEF StoreInv, FileInv
  <1> QED
    BY StoreInvAlways, <1>1, PTL

(* What was set with the settings page stands, and so do the switches of   *)
(* the tray, however old the draft is that is accepted (openSettingsPage); *)
(* the guard's unless it was switched while the page was open.             *)
THEOREM ChoicesAreKept == StoreSpec => []ChoicesStand
  <1>1. StoreInv => ChoicesStand
    BY DEF StoreInv
  <1> QED
    BY StoreInvAlways, <1>1, PTL

(* A start after a process that ended while it saved switches nothing on   *)
(* that was off (Settings::Save, LoadOrCreate).                            *)
THEOREM LeftoversSwitchNothingOn == StoreSpec => NothingSwitchesOn
  <1> DEFINE Starts == ~running /\ running' /\ where' = where /\ movedTo = Nowhere /\ ~doubtful
             NothingOn == (mem'.ime => mem.ime) /\ (mem'.drag => mem.drag)
  <1>1. StoreInv /\ [StoreNext]_storeVars => [Starts => NothingOn]_storeVars
    <2> SUFFICES ASSUME StoreInv, [StoreNext]_storeVars, Starts PROVE NothingOn
      OBVIOUS
    <2>1. PICK readable \in BOOLEAN, o \in SaveOutcomes : StartUp(readable, o)
      BY DEF StoreNext, storeVars, ToggleSwitch, ToggleImeGuard, OpenPage, EditPage, CancelPage,
         AcceptPage, DialogOpen, MoveConfig, Ends, Unplug
    <2>2. /\ where' = Resolve(registry, files, unplugged)
          /\ mem' = IF files[where'].there /\ readable THEN files[where'].val ELSE Default
      BY <2>1 DEF StartUp
    <2>3. where \in Locations
      BY <2>2 DEF StoreInv, StoreTypeOK, Resolve, Locations
    <2>4. CASE files[where].there /\ readable
      BY <2>2, <2>3, <2>4 DEF StoreInv, FileInv, LeftoverIsOff
    <2>5. CASE ~(files[where].there /\ readable)
      BY <2>2, <2>5 DEF Default
    <2> QED
      BY <2>4, <2>5
  <1> QED
    BY StoreInvAlways, <1>1, PTL DEF StoreSpec, NothingSwitchesOn

-----------------------------------------------------------------------------
(***************************************************************************)
(* The clipboard keeper.                                                   *)
(***************************************************************************)
Entries == [kind : Copied, copy : Nat, seq : Nat]
Doings == [step : {"nothing", "restore", "closing", "number"}, at : Nat, wrote : Nat]

(* What the parts of the program's state are, more exactly than the type   *)
(* invariant says: the room for the restoring write is still there.        *)
KeeperTypes ==
  /\ clip \in [kind : Kinds, copy : Nat] /\ sequence \in Nat \ {0} /\ notices \in Nat
  /\ sequence <= MaxWrites + 1 /\ clip.copy <= sequence
  /\ keeping \in {"gone", "shown", "hidden"} /\ panelMail \subseteq {"close", "show"}
  /\ history \in Seq(Entries)
  /\ ignoreSequence \in 0..sequence /\ lastCaptured \in 0..sequence
  /\ attempts \in 0..MaxRescueAttempts
  /\ fresh \in BOOLEAN /\ autoRescue \in BOOLEAN /\ rescueTimer \in BOOLEAN
  /\ doing \in Doings
  /\ doing.step = "restore" => doing.at \in DOMAIN history /\ sequence <= MaxWrites

(* A program that is gone remembers nothing and is told nothing.           *)
GoneIsClean ==
  ~Running => /\ notices = 0 /\ history = <<>> /\ doing.step = "nothing"
              /\ ignoreSequence = 0 /\ lastCaptured = 0

(* Every entry stems from a copy that was kept, and was captured no later  *)
(* than the last capture.                                                  *)
EntriesKept ==
  \A i \in DOMAIN history : /\ history[i].copy \in kept /\ history[i].copy <= sequence
                            /\ history[i].seq <= lastCaptured

(* The clipboard that was captured last is kept.                           *)
CapturedIsKept == HoldsCopy /\ lastCaptured = sequence => clip.copy \in kept

(* Once the program wrote the clipboard, the number is past the one it     *)
(* noted before, and what it wrote is a copy that is kept.                 *)
Closing == doing.step \in {"closing", "number"}
OwnWriteKept ==
  Closing => /\ ignoreSequence < doing.wrote /\ doing.wrote <= sequence
             /\ doing.wrote = sequence => clip.copy \in kept

(* While the program closes the clipboard the message of its own write is  *)
(* still to come; that of a copy that is not kept is another one, while    *)
(* the next message is taken for the program's own.                        *)
Expected == ignoreSequence = sequence \/ doing.step = "closing"
OwnNoticeToCome == doing.step = "closing" => notices > 0
CopyToCome ==
  Running /\ HoldsCopy /\ clip.copy \notin kept \cup mistaken
    => notices > (IF Expected THEN 1 ELSE 0)
NeverRefused == {"busy", "unreadable"} \cap KeeperFaults = {}

KeeperInv ==
  /\ KeeperTypes /\ GoneIsClean /\ EntriesKept /\ HistoryInOrder
  /\ CapturedIsKept /\ OwnWriteKept /\ OwnNoticeToCome
  /\ NeverRefused => CopyToCome

(* A set of positions that is not empty has a last one.                    *)
LEMMA LastPosition ==
    ASSUME NEW k \in Nat, NEW fit \in SUBSET (1..k), fit # {}
    PROVE  \E n \in fit : \A m \in fit : m <= n
  <1> DEFINE Less == {p \in Nat \X Nat : p[1] < p[2]}
             fromTheEnd == {k - n : n \in fit}
  <1>1. OpToRel(<, Nat) = Less
    BY DEF OpToRel
  <1>2. IsWellFoundedOn(Less, Nat)
    BY <1>1, NatLessThanWellFounded
  <1>3. fromTheEnd \subseteq Nat /\ fromTheEnd # {}
    <2>1. \A n \in fit : n \in 1..k /\ k - n \in Nat
      OBVIOUS
    <2>2. PICK n \in fit : TRUE
      OBVIOUS
    <2>3. k - n \in fromTheEnd
      OBVIOUS
    <2> QED
      BY <2>1, <2>3
  <1>4. PICK i \in fromTheEnd : \A j \in fromTheEnd : ~(<<j, i>> \in Less)
    <2> HIDE DEF Less, fromTheEnd
    <2> QED
      BY <1>2, <1>3, WFMin
  <1>5. ASSUME NEW j \in fromTheEnd PROVE i <= j
    <2> HIDE DEF fromTheEnd
    <2>1. <<j, i>> \in Nat \X Nat /\ ~(<<j, i>> \in Less)
      BY <1>3, <1>4
    <2>2. ~(j < i)
      BY <2>1
    <2> QED
      BY <1>3, <2>2
  <1>6. PICK n \in fit : i = k - n
    OBVIOUS
  <1>7. ASSUME NEW m \in fit PROVE m <= n
    <2>1. k - m \in fromTheEnd
      OBVIOUS
    <2>2. i <= k - m
      BY <1>5, <2>1
    <2> QED
      BY <1>6, <2>2
  <1> QED
    BY <1>7

(* What stays of a list is a prefix of it, which is not empty and within   *)
(* the bounds (AddSnapshot).                                               *)
LEMMA EvictedPrefix ==
    ASSUME NEW s \in Seq(Entries), s # <<>>
    PROVE  \E n \in 1..Len(s) :
             /\ Evicted(s) = SubSeq(s, 1, n)
             /\ n <= MaxHistory /\ (n > 1 => Bytes(Evicted(s)) <= MaxHistoryBytes)
  <1> DEFINE Fits(n) == n = 1 \/ (n <= MaxHistory /\ Bytes(SubSeq(s, 1, n)) <= MaxHistoryBytes)
             fit == {n \in 1..Len(s) : Fits(n)}
             n == CHOOSE n \in DOMAIN s : Fits(n) /\ \A k \in DOMAIN s : Fits(k) => k <= n
  <1>1. DOMAIN s = 1..Len(s) /\ Len(s) \in Nat /\ 1 \in 1..Len(s)
    OBVIOUS
  <1>2. fit # {}
    BY <1>1
  <1>3. PICK k \in fit : \A m \in fit : m <= k
    <2> HIDE DEF fit
    <2>1. fit \in SUBSET (1..Len(s))
      BY DEF fit
    <2> QED
      BY <1>1, <1>2, <2>1, LastPosition
  <1>4. k \in DOMAIN s /\ Fits(k) /\ \A m \in DOMAIN s : Fits(m) => m <= k
    BY <1>1, <1>3
  <1>5. n \in DOMAIN s /\ Fits(n)
    <2> HIDE DEF Fits
    <2> QED
      BY <1>4
  <1>6. Evicted(s) = SubSeq(s, 1, n)
    BY DEF Evicted
  <1>7. n <= MaxHistory /\ (n > 1 => Bytes(SubSeq(s, 1, n)) <= MaxHistoryBytes)
    <2> HIDE DEF n
    <2> QED
      BY <1>1, <1>5, KeeperAssumption
  <1> QED
    <2> HIDE DEF n
    <2> QED
      BY <1>1, <1>5, <1>6, <1>7

LEMMA NothingIsDone ==
    Nothing \in Doings
  BY DEF Nothing, Doings

LEMMA KeeperInvInit == KeeperInit => KeeperInv
  <1> SUFFICES ASSUME KeeperInit PROVE KeeperInv
    OBVIOUS
  <1>1. history = <<>> /\ history \in Seq(Entries) /\ Len(history) = 0 /\ DOMAIN history = {}
    BY DEF KeeperInit
  <1>2. MaxWrites \in Nat /\ MaxHistory \in Nat /\ MaxRescueAttempts \in Nat
    BY KeeperAssumption
  <1>3. KeeperTypes
    <2>1. clip \in [kind : Kinds, copy : Nat] /\ clip.copy = 0
      BY DEF KeeperInit, Kinds
    <2>2. doing \in Doings
      BY NothingIsDone DEF KeeperInit
    <2>3. doing.step = "nothing"
      BY DEF KeeperInit, Nothing
    <2>4. fresh \in BOOLEAN /\ autoRescue \in BOOLEAN /\ rescueTimer \in BOOLEAN
      BY DEF KeeperInit
    <2> QED
      BY <1>1, <1>2, <2>1, <2>2, <2>3, <2>4 DEF KeeperInit, KeeperTypes
  <1>4. EntriesKept /\ HistoryInOrder /\ GoneIsClean
    <2>1. doing.step = "nothing"
      BY DEF KeeperInit, Nothing
    <2> QED
      BY <1>1, <1>2, <2>1 DEF KeeperInit, EntriesKept, HistoryInOrder, GoneIsClean
  <1>5. CapturedIsKept /\ OwnWriteKept /\ OwnNoticeToCome /\ CopyToCome
    BY DEF KeeperInit, CapturedIsKept, OwnWriteKept, Closing, OwnNoticeToCome, CopyToCome,
           HoldsCopy, Copied, Nothing
  <1> QED
    BY <1>3, <1>4, <1>5 DEF KeeperInv

(* A capture adds the newest entry and drops the oldest ones.              *)
LEMMA CaptureKeeps ==
    ASSUME KeeperInv, HoldsCopy, AddSnapshot, sequence # lastCaptured
    PROVE  /\ history' \in Seq(Entries) /\ lastCaptured' = sequence
           /\ attempts' = 0 /\ fresh' = TRUE /\ kept' = kept \cup {clip.copy}
           /\ UNCHANGED <<ignoreSequence, mistaken>>
           /\ Len(history') <= MaxHistory
           /\ Len(history') > 1 => Bytes(history') <= MaxHistoryBytes
           /\ \A i, j \in DOMAIN history' : i < j => history'[i].seq > history'[j].seq
           /\ \A i \in DOMAIN history' :
                /\ history'[i].copy \in kept' /\ history'[i].copy <= sequence
                /\ history'[i].seq <= sequence
  <1> DEFINE e == [kind |-> clip.kind, copy |-> clip.copy, seq |-> sequence]
             s == <<e>> \o history
  <1>1. /\ e \in Entries /\ e.copy = clip.copy /\ e.seq = sequence /\ e.copy <= sequence
    BY DEF KeeperInv, KeeperTypes, HoldsCopy, Entries
  <1>2. /\ history \in Seq(Entries) /\ lastCaptured < sequence
        /\ sequence \in Nat /\ lastCaptured \in Nat
    BY DEF KeeperInv, KeeperTypes
  <1>3. /\ lastCaptured' = sequence /\ attempts' = 0 /\ fresh' = TRUE
        /\ history' = Evicted(s) /\ kept' = kept \cup {clip.copy}
        /\ UNCHANGED <<ignoreSequence, mistaken>>
    BY DEF AddSnapshot
  <1>4. /\ s \in Seq(Entries) /\ Len(s) = Len(history) + 1 /\ s[1] = e /\ s # <<>>
        /\ \A i \in 2..Len(s) : i - 1 \in DOMAIN history /\ s[i] = history[i - 1]
    <2> HIDE DEF e
    <2> QED
      BY <1>1, <1>2
  <1>5. PICK n \in 1..Len(s) :
          /\ Evicted(s) = SubSeq(s, 1, n)
          /\ n <= MaxHistory /\ (n > 1 => Bytes(Evicted(s)) <= MaxHistoryBytes)
    <2> HIDE DEF s
    <2> QED
      BY <1>4, EvictedPrefix
  <1> HIDE DEF s, e
  <1>6. /\ history' \in Seq(Entries) /\ Len(history') = n /\ n \in Nat
        /\ DOMAIN history' = 1..n /\ \A i \in 1..n : history'[i] = s[i]
    BY <1>3, <1>4, <1>5
  <1>7. \A i \in DOMAIN history : /\ history[i].copy \in kept /\ history[i].copy <= sequence
                                 /\ history[i].seq <= lastCaptured /\ history[i].seq \in Nat
    <2>1. EntriesKept
      BY DEF KeeperInv
    <2>2. \A i \in DOMAIN history : history[i] \in Entries
      BY <1>2
    <2> QED
      BY <2>1, <2>2 DEF EntriesKept, Entries
  <1>8. ASSUME NEW i \in 2..n
        PROVE  /\ history'[i].copy \in kept /\ history'[i].copy <= sequence
               /\ history'[i].seq < sequence
    <2>1. i \in 1..n /\ i - 1 \in DOMAIN history /\ history'[i] = history[i - 1]
      BY <1>4, <1>5, <1>6
    <2> QED
      BY <1>2, <1>7, <2>1
  <1>9. \A i, j \in DOMAIN history' : i < j => history'[i].seq > history'[j].seq
    <2> SUFFICES ASSUME NEW i \in 1..n, NEW j \in 1..n, i < j
                 PROVE  history'[i].seq > history'[j].seq
      BY <1>6
    <2>1. j \in 2..n
      OBVIOUS
    <2>2. CASE i = 1
      BY <1>1, <1>4, <1>6, <1>8, <2>1, <2>2
    <2>3. CASE i # 1
      <3>1. /\ i - 1 \in DOMAIN history /\ history'[i] = history[i - 1]
            /\ j - 1 \in DOMAIN history /\ history'[j] = history[j - 1]
        BY <1>4, <1>5, <1>6, <2>1, <2>3
      <3>2. i - 1 < j - 1
        OBVIOUS
      <3> QED
        BY <3>1, <3>2 DEF KeeperInv, HistoryInOrder
    <2> QED
      BY <2>2, <2>3
  <1>10. ASSUME NEW i \in DOMAIN history'
         PROVE  /\ history'[i].copy \in kept' /\ history'[i].copy <= sequence
                /\ history'[i].seq <= sequence
    <2>1. CASE i = 1
      BY <1>1, <1>2, <1>3, <1>4, <1>6, <2>1
    <2>2. CASE i # 1
      <3>1. i \in 2..n
        BY <1>6, <2>2
      <3> QED
        <4>1. /\ history'[i].copy \in kept' /\ history'[i].copy <= sequence
              /\ history'[i].seq < sequence
          BY <1>3, <1>8, <3>1
        <4>2. history'[i] \in Entries
          BY <1>6
        <4> QED
          BY <1>2, <4>1, <4>2 DEF Entries
    <2> QED
      BY <2>1, <2>2
  <1> QED
    BY <1>3, <1>5, <1>6, <1>9, <1>10

(* The list is as good as before when nothing is captured.                 *)
LEMMA ListStays ==
    ASSUME KeeperInv, UNCHANGED <<history, kept, lastCaptured>>,
           sequence' \in Nat, sequence <= sequence'
    PROVE  EntriesKept' /\ HistoryInOrder'
  <1>1. HistoryInOrder'
    BY DEF KeeperInv, HistoryInOrder
  <1>2. \A i \in DOMAIN history : history[i].copy \in Nat
    <2>1. \A i \in DOMAIN history : history[i] \in Entries
      BY DEF KeeperInv, KeeperTypes
    <2> QED
      BY <2>1 DEF Entries
  <1>3. sequence \in Nat /\ EntriesKept
    BY DEF KeeperInv, KeeperTypes
  <1> QED
    BY <1>1, <1>2, <1>3 DEF EntriesKept

(* A step that leaves the memory, what is being done and the clipboard     *)
(* alone, and passes over no message.                                      *)
LEMMA KeeperUntouched ==
    ASSUME KeeperInv, UNCHANGED <<others, memory, doing>>, Running, Running',
           keeping' \in {"gone", "shown", "hidden"}, panelMail' \subseteq {"close", "show"},
           autoRescue' \in BOOLEAN, rescueTimer' \in BOOLEAN
    PROVE  KeeperInv'
  <1>1. KeeperTypes'
    BY DEF KeeperInv, KeeperTypes, others, memory
  <1>2. GoneIsClean'
    BY DEF GoneIsClean, others, memory
  <1>3. EntriesKept' /\ HistoryInOrder'
    BY ListStays DEF KeeperInv, KeeperTypes, others, memory
  <1>4. CapturedIsKept' /\ OwnWriteKept' /\ OwnNoticeToCome'
    BY DEF KeeperInv, CapturedIsKept, OwnWriteKept, Closing, OwnNoticeToCome, HoldsCopy,
           others, memory
  <1>5. NeverRefused => CopyToCome'
    BY DEF KeeperInv, CopyToCome, Expected, HoldsCopy, others, memory
  <1> QED
    BY <1>1, <1>2, <1>3, <1>4, <1>5 DEF KeeperInv

(* Someone writes the clipboard, the keeper among them.                    *)
LEMMA ChangeKeeps ==
    ASSUME KeeperInv, NEW k \in Kinds, NEW c \in 0..(sequence + 1), Changed(k, c),
           sequence <= MaxWrites, UNCHANGED <<keeping, panelMail, memory, autoRescue, rescueTimer>>,
           \/ doing' = doing /\ (doing.step = "restore" => sequence < MaxWrites)
           \/ /\ Running /\ c \in kept
              /\ doing' = [step |-> "closing", at |-> 0, wrote |-> sequence + 1]
           \/ doing' = Nothing
    PROVE  KeeperInv'
  <1>1. /\ sequence \in Nat \ {0} /\ notices \in Nat /\ sequence' = sequence + 1
        /\ ignoreSequence \in 0..sequence /\ lastCaptured \in 0..sequence
        /\ doing \in Doings
        /\ notices' = IF Running THEN notices + 1 ELSE 0
        /\ clip' = [kind |-> k, copy |-> c] /\ MaxWrites \in Nat
    BY KeeperAssumption DEF KeeperInv, KeeperTypes, Changed
  <1>2. /\ doing' \in Doings
        /\ doing'.step = "restore" => doing' = doing /\ sequence' <= MaxWrites
        /\ Closing' => /\ Running
                      /\ \/ doing' = doing /\ Closing
                         \/ doing'.wrote = sequence + 1 /\ c \in kept
        /\ ~Running => doing'.step = "nothing"
    <2>1. ~Running => doing.step = "nothing"
      BY DEF KeeperInv, GoneIsClean
    <2>2. Nothing.step = "nothing"
      BY DEF Nothing
    <2>3. CASE doing' = doing /\ (doing.step = "restore" => sequence < MaxWrites)
      <3>1. Closing' => Closing /\ Running
        BY <2>1, <2>3 DEF Closing
      <3> QED
        BY <1>1, <2>1, <2>3, <3>1
    <2>4. CASE /\ Running /\ c \in kept
               /\ doing' = [step |-> "closing", at |-> 0, wrote |-> sequence + 1]
      <3>1. doing' \in Doings /\ doing'.step = "closing" /\ doing'.wrote = sequence + 1
        BY <1>1, <2>4 DEF Doings
      <3> QED
        BY <2>4, <3>1
    <2>5. CASE doing' = Nothing
      <3>1. ~Closing'
        BY <2>2, <2>5 DEF Closing
      <3> QED
        BY <2>2, <2>5, <3>1, NothingIsDone
    <2> QED
      BY <2>3, <2>4, <2>5
  <1>3. KeeperTypes'
    <2>1. clip' \in [kind : Kinds, copy : Nat] /\ clip'.copy <= sequence'
      BY <1>1
    <2> QED
      BY <1>1, <1>2, <2>1 DEF KeeperInv, KeeperTypes, memory
  <1>4. GoneIsClean'
    BY <1>1, <1>2 DEF KeeperInv, GoneIsClean, Running, memory
  <1>5. EntriesKept' /\ HistoryInOrder'
    BY <1>1, ListStays DEF memory
  <1>6. CapturedIsKept' /\ OwnWriteKept' /\ OwnNoticeToCome'
    <2>1. lastCaptured' # sequence' /\ clip'.copy = c
      BY <1>1 DEF memory
    <2>2. OwnWriteKept'
      <3> SUFFICES ASSUME Closing'
                   PROVE  /\ ignoreSequence' < doing'.wrote /\ doing'.wrote <= sequence'
                          /\ doing'.wrote = sequence' => clip'.copy \in kept'
        BY DEF OwnWriteKept
      <3>1. CASE doing' = doing /\ Closing
        <4>1. ignoreSequence < doing.wrote /\ doing.wrote <= sequence
          BY <3>1 DEF KeeperInv, OwnWriteKept
        <4>2. doing.wrote \in Nat
          BY <1>1 DEF Doings
        <4> QED
          BY <1>1, <3>1, <4>1, <4>2 DEF memory
      <3>2. CASE doing'.wrote = sequence + 1 /\ c \in kept
        BY <1>1, <2>1, <3>2 DEF memory
      <3> QED
        BY <1>2, <3>1, <3>2
    <2>3. OwnNoticeToCome'
      BY <1>1, <1>2 DEF OwnNoticeToCome, Closing
    <2> QED
      BY <2>1, <2>2, <2>3 DEF CapturedIsKept
  <1>7. NeverRefused => CopyToCome'
    <2> SUFFICES ASSUME Running, c \notin kept
                 PROVE  notices' > (IF Expected' THEN 1 ELSE 0)
      BY <1>1 DEF CopyToCome, Running, memory
    <2>1. notices' = notices + 1 /\ ignoreSequence' # sequence'
      BY <1>1 DEF memory
    <2>2. Expected' => notices > 0
      <3>1. Expected' => doing'.step = "closing"
        BY <2>1 DEF Expected
      <3>2. doing'.step = "closing" => doing.step = "closing"
        BY <1>2 DEF Closing
      <3> QED
        BY <3>1, <3>2 DEF KeeperInv, OwnNoticeToCome
    <2> QED
      BY <1>1, <2>1, <2>2
  <1> QED
    BY <1>3, <1>4, <1>5, <1>6, <1>7 DEF KeeperInv

(* The handling of a message (HandleClipboardUpdate), also while the       *)
(* program closes the clipboard.                                           *)
LEMMA UpdateKeeps ==
    ASSUME KeeperInv, NEW captured \in Captured, NEW again \in Opened,
           HandleClipboardUpdate(captured, again)
    PROVE  KeeperInv'
  <1>1. /\ Running /\ notices > 0 /\ notices' = notices - 1
        /\ UNCHANGED <<clip, sequence, keeping, panelMail, autoRescue>>
        /\ \/ doing.step = "nothing" /\ doing' = doing
           \/ doing.step = "closing" /\ doing' = [doing EXCEPT !.step = "number"]
    <2>1. doing.step = "closing" => Running /\ ~Idle
      BY DEF KeeperInv, GoneIsClean, Idle
    <2> QED
      BY <2>1 DEF HandleClipboardUpdate, Handling, Idle
  <1>2. /\ sequence \in Nat \ {0} /\ notices \in Nat /\ doing \in Doings
        /\ ignoreSequence \in 0..sequence /\ lastCaptured \in 0..sequence
    BY DEF KeeperInv, KeeperTypes
  <1>3. notices' \in Nat /\ Running'
    BY <1>1, <1>2 DEF Running
  <1>4. GoneIsClean'
    BY <1>3 DEF GoneIsClean
  <1>5. /\ doing' \in Doings /\ doing'.step \in {"nothing", "number"}
        /\ doing'.wrote = doing.wrote
        /\ doing'.step = "number" => doing.step = "closing" /\ Closing
    <2>1. CASE doing.step = "nothing" /\ doing' = doing
      BY <1>2, <2>1
    <2>2. CASE doing.step = "closing" /\ doing' = [doing EXCEPT !.step = "number"]
      BY <1>2, <2>2 DEF Doings, Closing
    <2> QED
      BY <1>1, <2>1, <2>2
  <1>6. ASSUME ignoreSequence' \in {0, ignoreSequence}, kept \subseteq kept'
        PROVE  OwnWriteKept' /\ OwnNoticeToCome' /\ (Expected' => ignoreSequence' = sequence)
    <2>1. OwnNoticeToCome' /\ (Expected' => ignoreSequence' = sequence)
      BY <1>1, <1>5 DEF OwnNoticeToCome, Expected
    <2>2. ASSUME Closing'
          PROVE  /\ ignoreSequence' < doing'.wrote /\ doing'.wrote <= sequence'
                 /\ doing'.wrote = sequence' => clip'.copy \in kept'
      <3>1. Closing
        BY <1>5, <2>2 DEF Closing
      <3>2. /\ ignoreSequence < doing.wrote /\ doing.wrote <= sequence
            /\ doing.wrote = sequence => clip.copy \in kept
        BY <3>1 DEF KeeperInv, OwnWriteKept
      <3>3. doing.wrote \in Nat
        BY <1>2 DEF Doings
      <3> QED
        BY <1>1, <1>2, <1>5, <1>6, <3>2, <3>3
    <2> QED
      BY <2>1, <2>2 DEF OwnWriteKept
  <1>7. CASE sequence = ignoreSequence
    <2>1. /\ ignoreSequence' = 0
          /\ UNCHANGED <<history, lastCaptured, attempts, fresh, kept, mistaken, rescueTimer>>
      BY <1>7 DEF HandleClipboardUpdate
    <2>2. KeeperTypes'
      BY <1>1, <1>2, <1>3, <1>5, <2>1 DEF KeeperInv, KeeperTypes
    <2>3. EntriesKept' /\ HistoryInOrder'
      BY <1>1, <1>2, <2>1, ListStays
    <2>4. CapturedIsKept' /\ OwnWriteKept' /\ OwnNoticeToCome'
      BY <1>1, <1>6, <2>1 DEF KeeperInv, CapturedIsKept, HoldsCopy
    <2>5. NeverRefused => CopyToCome'
      <3>1. ~Expected'
        BY <1>2, <1>6, <2>1
      <3> QED
        BY <1>1, <1>2, <1>7, <2>1, <3>1 DEF KeeperInv, CopyToCome, Expected, HoldsCopy, Running
    <2> QED
      BY <1>4, <2>2, <2>3, <2>4, <2>5 DEF KeeperInv
  <1>8. CASE sequence # ignoreSequence /\ captured /\ HoldsCopy /\ sequence # lastCaptured
    <2>1. AddSnapshot /\ UNCHANGED rescueTimer
      BY <1>8 DEF HandleClipboardUpdate
    <2>2. /\ history' \in Seq(Entries) /\ lastCaptured' = sequence
          /\ attempts' = 0 /\ fresh' = TRUE /\ kept' = kept \cup {clip.copy}
          /\ UNCHANGED <<ignoreSequence, mistaken>>
          /\ Len(history') <= MaxHistory
          /\ Len(history') > 1 => Bytes(history') <= MaxHistoryBytes
          /\ \A i, j \in DOMAIN history' : i < j => history'[i].seq > history'[j].seq
          /\ \A i \in DOMAIN history' :
               /\ history'[i].copy \in kept' /\ history'[i].copy <= sequence
               /\ history'[i].seq <= sequence
      BY <1>8, <2>1, CaptureKeeps
    <2>3. KeeperTypes'
      BY <1>1, <1>2, <1>3, <1>5, <2>1, <2>2, KeeperAssumption DEF KeeperInv, KeeperTypes
    <2>4. EntriesKept' /\ HistoryInOrder'
      BY <1>1, <2>2 DEF EntriesKept, HistoryInOrder
    <2>5. OwnWriteKept' /\ OwnNoticeToCome'
      BY <1>6, <2>2
    <2>6. CapturedIsKept' /\ CopyToCome'
      BY <1>1, <2>2 DEF CapturedIsKept, CopyToCome
    <2> QED
      BY <1>4, <2>3, <2>4, <2>5, <2>6 DEF KeeperInv
  <1>9. CASE sequence # ignoreSequence /\ ~(captured /\ HoldsCopy /\ sequence # lastCaptured)
    <2>1. UNCHANGED memory /\ rescueTimer' \in BOOLEAN
      <3>1. CASE captured /\ HoldsCopy
        BY <1>9, <3>1 DEF HandleClipboardUpdate, AddSnapshot, KeeperInv, KeeperTypes
      <3>2. CASE ~(captured /\ HoldsCopy)
        BY <1>9, <3>2 DEF HandleClipboardUpdate
      <3> QED
        BY <3>1, <3>2
    <2>2. KeeperTypes'
      BY <1>1, <1>2, <1>3, <1>5, <2>1 DEF KeeperInv, KeeperTypes, memory
    <2>3. EntriesKept' /\ HistoryInOrder'
      BY <1>1, <1>2, <2>1, ListStays DEF memory
    <2>4. CapturedIsKept' /\ OwnWriteKept' /\ OwnNoticeToCome'
      BY <1>1, <1>6, <2>1 DEF KeeperInv, CapturedIsKept, HoldsCopy, memory
    <2>5. NeverRefused => CopyToCome'
      <3> SUFFICES ASSUME NeverRefused, HoldsCopy PROVE clip.copy \in kept
        BY <1>1, <2>1 DEF CopyToCome, HoldsCopy, memory
      <3>1. captured
        BY DEF Captured, NeverRefused
      <3> QED
        BY <1>9, <3>1 DEF KeeperInv, CapturedIsKept
    <2> QED
      BY <1>4, <2>2, <2>3, <2>4, <2>5 DEF KeeperInv
  <1> QED
    BY <1>7, <1>8, <1>9

(* What was captured and what is known of the own write stays the same.    *)
LEMMA MemoryKept ==
    ASSUME KeeperInv, Running, Running', KeeperTypes',
           doing'.step \in {"nothing", "restore"},
           UNCHANGED <<clip, sequence, notices, ignoreSequence, lastCaptured, kept, mistaken,
                       history>>
    PROVE  KeeperInv'
  <1>1. EntriesKept' /\ HistoryInOrder'
    BY ListStays DEF KeeperInv, KeeperTypes
  <1>2. GoneIsClean'
    BY DEF GoneIsClean
  <1>3. (Expected' => Expected) /\ ~Closing' /\ doing'.step # "closing"
    BY DEF Expected, Closing
  <1>4. CapturedIsKept' /\ OwnWriteKept' /\ OwnNoticeToCome'
    BY <1>3 DEF KeeperInv, CapturedIsKept, OwnWriteKept, OwnNoticeToCome, HoldsCopy
  <1>5. NeverRefused => CopyToCome'
    BY <1>3 DEF KeeperInv, KeeperTypes, CopyToCome, HoldsCopy
  <1> QED
    BY <1>1, <1>2, <1>4, <1>5 DEF KeeperInv

LEMMA KeeperInvKept == KeeperInv /\ [KeeperNext]_keeperVars => KeeperInv'
  <1> SUFFICES ASSUME KeeperInv, [KeeperNext]_keeperVars PROVE KeeperInv'
    OBVIOUS
  <1>1. /\ sequence \in Nat \ {0} /\ notices \in Nat /\ keeping \in {"gone", "shown", "hidden"}
        /\ panelMail \subseteq {"close", "show"} /\ autoRescue \in BOOLEAN
        /\ rescueTimer \in BOOLEAN /\ fresh \in BOOLEAN /\ attempts \in 0..MaxRescueAttempts
        /\ history \in Seq(Entries) /\ MaxWrites \in Nat /\ MaxRescueAttempts \in Nat
        /\ doing \in Doings
    BY KeeperAssumption DEF KeeperInv, KeeperTypes
  <1>2. doing.step # "nothing" => Running
    BY DEF KeeperInv, GoneIsClean, Nothing
  <1>3. ASSUME NEW k \in Kinds, SomeoneWrites(k) PROVE KeeperInv'
    <2>1. sequence + 1 \in 0..(sequence + 1)
      BY <1>1
    <2> QED
      BY <1>1, <1>3, <2>1, ChangeKeeps DEF SomeoneWrites
  <1>4. ASSUME NEW captured \in Captured, NEW again \in Opened,
               HandleClipboardUpdate(captured, again)
        PROVE  KeeperInv'
    BY <1>4, UpdateKeeps
  <1>5. ASSUME NEW opened \in Opened, DoRescueTimer(opened) PROVE KeeperInv'
    <2>1. /\ Running /\ rescueTimer' = FALSE /\ sequence < MaxWrites /\ doing.step = "nothing"
          /\ UNCHANGED <<others, keeping, panelMail, history, ignoreSequence, lastCaptured,
                         fresh, kept, mistaken, autoRescue>>
      BY <1>5 DEF DoRescueTimer, Idle
    <2>2. CASE MayRescue /\ LooksEmptied(opened)
      <3> DEFINE restoring == [step |-> "restore", at |-> 1, wrote |-> 0]
      <3>0. doing' = restoring
        BY <1>5, <2>2 DEF DoRescueTimer
      <3>1. attempts' = attempts + 1 /\ attempts < MaxRescueAttempts /\ history # <<>>
        BY <1>5, <2>2 DEF DoRescueTimer, MayRescue
      <3>2. doing' \in Doings
        BY <3>0 DEF Doings
      <3>3. doing'.step = "restore" /\ doing'.at = 1 /\ 1 \in DOMAIN history
        <4>1. doing'.step = "restore" /\ doing'.at = 1
          BY <3>0
        <4>2. 1 \in DOMAIN history
          BY <1>1, <3>1
        <4> QED
          BY <4>1, <4>2
      <3>4. attempts' \in 0..MaxRescueAttempts
        BY <1>1, <3>1
      <3>5. KeeperTypes'
        <4>1. rescueTimer' \in BOOLEAN
          <5>1. rescueTimer' = FALSE
            BY <2>1
          <5> QED
            BY <5>1
        <4>2. sequence <= MaxWrites
          BY <1>1, <2>1
        <4> QED
          BY <2>1, <3>2, <3>3, <3>4, <4>1, <4>2 DEF KeeperInv, KeeperTypes, others
      <3> QED
        BY <2>1, <3>3, <3>5, MemoryKept DEF Running, others
    <2>3. CASE ~(MayRescue /\ LooksEmptied(opened))
      <3>1. UNCHANGED <<attempts, doing>>
        BY <1>5, <2>3 DEF DoRescueTimer
      <3> QED
        BY <1>1, <2>1, <3>1, KeeperUntouched DEF Running, memory
    <2> QED
      BY <2>2, <2>3
  <1>6. ASSUME NEW i \in 1..MaxHistory, RestoreIndex(i) PROVE KeeperInv'
    <2>1. /\ Running /\ sequence < MaxWrites /\ i \in DOMAIN history
          /\ doing' = [step |-> "restore", at |-> i, wrote |-> 0]
          /\ UNCHANGED <<others, keeping, panelMail, memory, autoRescue, rescueTimer>>
      BY <1>6 DEF RestoreIndex, Idle
    <2>2. doing' \in Doings
      BY <1>1, <2>1 DEF Doings
    <2>3. doing'.step = "restore" /\ doing'.at = i
      BY <2>1
    <2>4. KeeperTypes'
      BY <1>1, <2>1, <2>2, <2>3 DEF KeeperInv, KeeperTypes, others, memory
    <2> QED
      BY <2>1, <2>3, <2>4, MemoryKept DEF Running, others, memory
  <1>7. CASE RestoreClipboardSnapshot
    <2> DEFINE entry == history[doing.at]
    <2>1. /\ doing.step = "restore" /\ Running
          /\ UNCHANGED <<keeping, panelMail, memory, autoRescue, rescueTimer>>
      BY <1>2, <1>7 DEF RestoreClipboardSnapshot
    <2>2. doing.at \in DOMAIN history /\ sequence <= MaxWrites /\ entry \in Entries
      BY <1>1, <2>1 DEF KeeperInv, KeeperTypes
    <2>3. entry.kind \in Kinds /\ entry.copy \in kept /\ entry.copy \in 0..(sequence + 1)
      BY <1>1, <2>2 DEF KeeperInv, EntriesKept, Entries, Kinds
    <2>4. CASE /\ Changed(entry.kind, entry.copy)
               /\ doing' = [step |-> "closing", at |-> 0, wrote |-> sequence + 1]
      BY <2>1, <2>2, <2>3, <2>4, ChangeKeeps
    <2>5. CASE Changed("empty", sequence + 1) /\ doing' = Nothing
      <3>1. "empty" \in Kinds /\ sequence + 1 \in 0..(sequence + 1)
        BY <1>1 DEF Kinds
      <3> QED
        BY <2>1, <2>2, <2>5, <3>1, ChangeKeeps
    <2>6. CASE doing' = Nothing /\ UNCHANGED others
      <3>1. KeeperTypes' /\ doing'.step = "nothing"
        BY <1>1, <2>1, <2>6, NothingIsDone DEF KeeperInv, KeeperTypes, others, memory, Nothing
      <3> QED
        BY <2>1, <2>6, <3>1, MemoryKept DEF Running, others, memory
    <2> QED
      BY <1>7, <2>4, <2>5, <2>6 DEF RestoreClipboardSnapshot
  <1>8. CASE NoteOwnWrite
    <2>1. /\ Closing /\ ignoreSequence' = sequence /\ doing' = Nothing
          /\ mistaken' = IF doing.step = "number" /\ sequence # doing.wrote
                         THEN mistaken \cup {clip.copy} ELSE mistaken
          /\ Running /\ Running'
          /\ UNCHANGED <<others, keeping, panelMail, history, lastCaptured, attempts, fresh,
                         kept, autoRescue, rescueTimer>>
      BY <1>2, <1>8 DEF NoteOwnWrite, Running, Closing
    <2>2. KeeperTypes' /\ doing'.step = "nothing"
      BY <1>1, <2>1, NothingIsDone DEF KeeperInv, KeeperTypes, others, Nothing
    <2>3. EntriesKept' /\ HistoryInOrder'
      BY <1>1, <2>1, ListStays DEF others
    <2>4. GoneIsClean'
      BY <2>1 DEF GoneIsClean
    <2>5. CapturedIsKept' /\ OwnWriteKept' /\ OwnNoticeToCome'
      BY <2>1, <2>2
         DEF KeeperInv, CapturedIsKept, OwnWriteKept, Closing, OwnNoticeToCome, HoldsCopy, others
    <2>6. NeverRefused => CopyToCome'
      <3> SUFFICES ASSUME NeverRefused, HoldsCopy, clip.copy \notin kept \cup mistaken'
                   PROVE  notices > 1
        BY <1>1, <2>1 DEF CopyToCome, HoldsCopy, others
      <3>1. doing.wrote # sequence
        BY <2>1 DEF KeeperInv, OwnWriteKept
      <3>2. doing.step = "closing"
        BY <2>1, <3>1 DEF Closing
      <3>3. clip.copy \notin kept \cup mistaken
        BY <2>1, <3>2
      <3> QED
        BY <1>1, <2>1, <3>2, <3>3 DEF KeeperInv, CopyToCome, Expected
    <2> QED
      BY <2>2, <2>3, <2>4, <2>5, <2>6 DEF KeeperInv
  <1>9. CASE WindowPasses
    <2>1. /\ Running /\ fresh' = FALSE
          /\ UNCHANGED <<others, keeping, panelMail, history, ignoreSequence, lastCaptured,
                         attempts, kept, mistaken, autoRescue, rescueTimer, doing>>
      BY <1>9 DEF WindowPasses
    <2>2. KeeperTypes'
      BY <2>1 DEF KeeperInv, KeeperTypes, others
    <2>3. EntriesKept' /\ HistoryInOrder'
      BY <1>1, <2>1, ListStays DEF others
    <2>4. GoneIsClean' /\ CapturedIsKept' /\ OwnWriteKept' /\ OwnNoticeToCome'
      BY <2>1 DEF KeeperInv, GoneIsClean, CapturedIsKept, OwnWriteKept, Closing,
                  OwnNoticeToCome, HoldsCopy, Running, others
    <2>5. NeverRefused => CopyToCome'
      BY <2>1 DEF KeeperInv, CopyToCome, Expected, HoldsCopy, Running, others
    <2> QED
      BY <2>2, <2>3, <2>4, <2>5 DEF KeeperInv
  <1>10. CASE ClearHistory
    <2>1. /\ Running /\ history' = <<>> /\ doing.step = "nothing"
          /\ UNCHANGED <<others, keeping, panelMail, ignoreSequence, lastCaptured, attempts,
                         fresh, kept, mistaken, autoRescue, rescueTimer, doing>>
      BY <1>10 DEF ClearHistory, Idle
    <2>2. history' \in Seq(Entries) /\ Len(history') = 0 /\ DOMAIN history' = {}
      BY <2>1
    <2>3. KeeperTypes'
      BY <2>1, <2>2 DEF KeeperInv, KeeperTypes, others
    <2>4. EntriesKept' /\ HistoryInOrder'
      BY <2>2, KeeperAssumption DEF EntriesKept, HistoryInOrder
    <2>5. GoneIsClean' /\ CapturedIsKept' /\ OwnWriteKept' /\ OwnNoticeToCome'
      BY <2>1 DEF KeeperInv, GoneIsClean, CapturedIsKept, OwnWriteKept, Closing,
                  OwnNoticeToCome, HoldsCopy, Running, others
    <2>6. NeverRefused => CopyToCome'
      BY <2>1 DEF KeeperInv, CopyToCome, Expected, HoldsCopy, Running, others
    <2> QED
      BY <2>3, <2>4, <2>5, <2>6 DEF KeeperInv
  <1>11. CASE ToggleAutoRescue
    BY <1>1, <1>11, KeeperUntouched DEF ToggleAutoRescue, Idle, Running
  <1>12. CASE OnClipKeeper
    <2>1. UNCHANGED <<clip, sequence, memory, rescueTimer, doing>>
      BY <1>12 DEF OnClipKeeper
    <2>2. CASE Running
      <3>1. /\ panelMail' = panelMail \cup {IF keeping = "shown" THEN "close" ELSE "show"}
            /\ UNCHANGED <<keeping, autoRescue, notices>>
        BY <1>12, <2>2 DEF OnClipKeeper
      <3>2. panelMail' \subseteq {"close", "show"}
        BY <1>1, <3>1
      <3> QED
        BY <1>1, <2>1, <2>2, <3>1, <3>2, KeeperUntouched DEF Running, others
    <2>3. CASE ~Running
      <3>1. /\ keeping' = "shown" /\ autoRescue' = TRUE /\ notices' = 1
            /\ UNCHANGED panelMail
        BY <1>12, <2>3 DEF OnClipKeeper
      <3>2. /\ history = <<>> /\ ignoreSequence = 0 /\ lastCaptured = 0
            /\ doing.step = "nothing"
        BY <2>3 DEF KeeperInv, GoneIsClean
      <3>3. KeeperTypes'
        BY <2>1, <3>1 DEF KeeperInv, KeeperTypes, memory
      <3>4. EntriesKept' /\ HistoryInOrder'
        BY <1>1, <2>1, ListStays DEF memory
      <3>5. ~Expected' /\ ~Closing' /\ lastCaptured' # sequence'
        BY <1>1, <2>1, <3>2 DEF Expected, Closing, memory
      <3>6. /\ GoneIsClean' /\ CapturedIsKept' /\ OwnWriteKept' /\ OwnNoticeToCome'
            /\ CopyToCome'
        BY <3>1, <3>5 DEF GoneIsClean, CapturedIsKept, OwnWriteKept, OwnNoticeToCome,
                          CopyToCome, Running
      <3> QED
        BY <3>3, <3>4, <3>6 DEF KeeperInv
    <2> QED
      BY <2>2, <2>3
  <1>13. ASSUME NEW msg \in {"close", "show"}, HandlePanel(msg) PROVE KeeperInv'
    <2>1. /\ Running /\ panelMail' = panelMail \ {msg}
          /\ keeping' = IF msg = "close" THEN "hidden" ELSE "shown"
          /\ UNCHANGED <<others, memory, autoRescue, rescueTimer, doing>>
      BY <1>13 DEF HandlePanel, Idle
    <2>2. Running' /\ keeping' \in {"gone", "shown", "hidden"}
      BY <2>1 DEF Running
    <2>3. panelMail' \subseteq {"close", "show"}
      BY <1>1, <2>1
    <2> QED
      BY <1>1, <2>1, <2>2, <2>3, KeeperUntouched
  <1>14. CASE KeeperExits
    <2>1. /\ keeping' = "gone" /\ panelMail' = {} /\ notices' = 0 /\ doing.step = "nothing"
          /\ history' = <<>> /\ ignoreSequence' = 0 /\ lastCaptured' = 0 /\ attempts' = 0
          /\ fresh' = FALSE /\ kept' = {} /\ mistaken' = {} /\ rescueTimer' = FALSE
          /\ UNCHANGED <<clip, sequence, autoRescue, doing>>
      BY <1>14 DEF KeeperExits, Idle
    <2>2. history' \in Seq(Entries) /\ Len(history') = 0 /\ DOMAIN history' = {}
      BY <2>1
    <2>3. KeeperTypes'
      <3>1. /\ attempts' \in 0..MaxRescueAttempts /\ ignoreSequence' \in 0..sequence
            /\ lastCaptured' \in 0..sequence /\ notices' \in Nat
        BY <1>1, <2>1
      <3>2. fresh' \in BOOLEAN /\ rescueTimer' \in BOOLEAN /\ panelMail' \subseteq {"close", "show"}
        BY <2>1
      <3> QED
        BY <2>1, <2>2, <3>1, <3>2 DEF KeeperInv, KeeperTypes
    <2>4. EntriesKept' /\ HistoryInOrder'
      BY <2>2, KeeperAssumption DEF EntriesKept, HistoryInOrder
    <2>5. /\ GoneIsClean' /\ CapturedIsKept' /\ OwnWriteKept' /\ OwnNoticeToCome'
          /\ CopyToCome'
      BY <1>1, <2>1 DEF GoneIsClean, CapturedIsKept, OwnWriteKept, Closing, OwnNoticeToCome,
                        CopyToCome, Running
    <2> QED
      BY <2>3, <2>4, <2>5 DEF KeeperInv
  <1>15. CASE UNCHANGED keeperVars
    <2>1. KeeperTypes' /\ GoneIsClean'
      BY <1>15 DEF KeeperInv, KeeperTypes, GoneIsClean, Running, keeperVars
    <2>2. EntriesKept' /\ HistoryInOrder'
      BY <1>1, <1>15, ListStays DEF keeperVars
    <2>3. CapturedIsKept' /\ OwnWriteKept' /\ OwnNoticeToCome'
      BY <1>15 DEF KeeperInv, CapturedIsKept, OwnWriteKept, Closing, OwnNoticeToCome,
                   HoldsCopy, keeperVars
    <2>4. NeverRefused => CopyToCome'
      BY <1>15 DEF KeeperInv, CopyToCome, Expected, HoldsCopy, Running, keeperVars
    <2> QED
      BY <2>1, <2>2, <2>3, <2>4 DEF KeeperInv
  <1> QED
    BY <1>3, <1>4, <1>5, <1>6, <1>7, <1>8, <1>9, <1>10, <1>11, <1>12, <1>13, <1>14, <1>15
       DEF KeeperNext

LEMMA KeeperInvAlways == KeeperSpec => []KeeperInv
  BY KeeperInvInit, KeeperInvKept, PTL DEF KeeperSpec

LEMMA KeeperInvTypes == KeeperInv => KeeperTypeOK
  <1> SUFFICES ASSUME KeeperInv PROVE KeeperTypeOK
    OBVIOUS
  <1>1. \A i \in DOMAIN history : history[i] \in Entries
    BY DEF KeeperInv, KeeperTypes
  <1> QED
    BY <1>1, KeeperAssumption DEF KeeperInv, KeeperTypes, KeeperTypeOK, Entries, Doings

(* A text or image that stays on the clipboard is in the keeper's list or  *)
(* was there, once its messages are handled, if the clipboard can be       *)
(* opened and gives what it announces: also one made while the keeper was  *)
(* restoring, as long as the message of its own write was still to come.   *)
(* The one made after that message was handled inside CloseClipboard, and  *)
(* before the number was read, may be missed and is set apart (mistaken).  *)
THEOREM CopiesAreKept ==
    ASSUME "busy" \notin KeeperFaults, "unreadable" \notin KeeperFaults
    PROVE  KeeperSpec => []EachCopyIsKept
  <1>1. NeverRefused
    BY DEF NeverRefused
  <1>2. KeeperInv => EachCopyIsKept
    BY <1>1 DEF KeeperInv, KeeperTypes, CopyToCome, EachCopyIsKept, Idle
  <1> QED
    BY <1>2, KeeperInvAlways, PTL

(* The list keeps its bounds and its order, whatever is copied, restored   *)
(* or thrown away (AddSnapshot).                                           *)
THEOREM HistoryIsOrdered == KeeperSpec => []HistoryInOrder
  <1>1. KeeperInv => HistoryInOrder
    BY DEF KeeperInv
  <1> QED
    BY <1>1, KeeperInvAlways, PTL
=============================================================================
