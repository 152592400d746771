----------------------------- MODULE ClipKeeper -----------------------------
(***************************************************************************)
(* The clipboard keeper (src/clipkeeper): a program of its own that keeps  *)
(* every copied text or image and, when another program empties the        *)
(* clipboard shortly after, puts it back.  Windows tells the first viewer  *)
(* of every change with a message; between two calls of the keeper any     *)
(* program may write the clipboard, and the sequence number, read after    *)
(* the clipboard was closed, is all that tells the keeper's own writes.    *)
(* The message is sent: when the keeper itself closes the clipboard, it    *)
(* may be told of its own write before CloseClipboard returns.             *)
(***************************************************************************)
EXTENDS Naturals, Sequences, FiniteSets, SequencesExt

CONSTANTS
  MaxWrites,         \* bound: changes of the clipboard
  MaxHistory,        \* kMaxHistory
  MaxHistoryBytes,   \* kMaxHistoryBytes; a text is 1, an image 2
  MaxRescueAttempts, \* kMaxRescueAttempts
  KeeperFaults       \* subset of {"busy", "unreadable", "nomemory"}

ASSUME KeeperAssumption ==
  /\ {MaxWrites, MaxHistory, MaxHistoryBytes, MaxRescueAttempts} \subseteq Nat
  /\ MaxHistory > 0

VARIABLES
  clip,          \* what the clipboard holds: its kind and the copy it stems from
  sequence,      \* GetClipboardSequenceNumber
  notices,       \* WM_DRAWCLIPBOARD messages not handled yet
  keeping,       \* the program and its window: "gone", "shown", "hidden"
  panelMail,     \* panel messages posted by the tray menu of WindowMark
  history, ignoreSequence, lastCaptured, attempts, fresh,
                 \* fresh: the newest entry is younger than kRescueWindowMs
  autoRescue, rescueTimer,
  doing,         \* between two calls: "nothing", a restore, or what follows it
  kept,          \* the copies that were taken into the history
  mistaken       \* those whose number the keeper noted as that of its own write,
                 \* when the message of that write had already been handled

keeperVars == <<clip, sequence, notices, keeping, panelMail, history, ignoreSequence,
                lastCaptured, attempts, fresh, autoRescue, rescueTimer, doing, kept,
                mistaken>>
others == <<clip, sequence, notices>>
memory == <<history, ignoreSequence, lastCaptured, attempts, fresh, kept, mistaken>>

Copied == {"text", "image"}
\* "empty" is a clipboard with private formats only, too.
Kinds == Copied \cup {"files", "empty"}
\* wrote: the number of the keeper's own write.
Nothing == [step |-> "nothing", at |-> 0, wrote |-> 0]
Size(entry) == IF entry.kind = "image" THEN 2 ELSE 1
Bytes(s) == FoldSeq(LAMBDA e, sum : sum + Size(e), 0, s)
-----------------------------------------------------------------------------
KeeperInit ==
  /\ clip = [kind |-> "empty", copy |-> 0] /\ sequence = 1 /\ notices = 0
  /\ keeping = "gone" /\ panelMail = {}
  /\ history = <<>> /\ ignoreSequence = 0 /\ lastCaptured = 0 /\ attempts = 0
  /\ fresh = FALSE /\ autoRescue = TRUE /\ rescueTimer = FALSE
  /\ doing = Nothing /\ kept = {} /\ mistaken = {}

Running == keeping # "gone"
Idle == Running /\ doing.step = "nothing"
HoldsCopy == clip.kind \in Copied

\* Any program writes the clipboard; the keeper is told if it runs.
Changed(k, c) ==
  /\ clip' = [kind |-> k, copy |-> c]
  /\ sequence' = sequence + 1
  /\ notices' = IF Running THEN notices + 1 ELSE 0

SomeoneWrites(k) ==
  /\ sequence < MaxWrites
  /\ Changed(k, sequence + 1)
  /\ UNCHANGED <<keeping, panelMail, memory, autoRescue, rescueTimer, doing>>

\* AddSnapshot: newest first, and the oldest go while there are too many or
\* they are too large, but never the last one.
Evicted(s) ==
  LET fits(n) == n = 1 \/ (n <= MaxHistory /\ Bytes(SubSeq(s, 1, n)) <= MaxHistoryBytes)
      n == CHOOSE n \in DOMAIN s : fits(n) /\ \A k \in DOMAIN s : fits(k) => k <= n
  IN SubSeq(s, 1, n)

(* Mutant: every message adds an entry, also a second one for one change.  *)
AddSnapshotAgain ==
  /\ lastCaptured' = sequence
  /\ attempts' = 0
  /\ fresh' = TRUE
  /\ history' = Evicted(<<[kind |-> clip.kind, copy |-> clip.copy, seq |-> sequence]>>
                        \o history)
  /\ kept' = kept \cup {clip.copy}
  /\ UNCHANGED <<ignoreSequence, mistaken>>

AddSnapshot ==
  IF sequence = lastCaptured
  THEN UNCHANGED memory
  ELSE /\ lastCaptured' = sequence
       /\ attempts' = 0
       /\ fresh' = TRUE
       /\ history' = Evicted(<<[kind |-> clip.kind, copy |-> clip.copy, seq |-> sequence]>>
                             \o history)
       /\ kept' = kept \cup {clip.copy}
       /\ UNCHANGED <<ignoreSequence, mistaken>>

MayRescue == autoRescue /\ history # <<>> /\ fresh /\ attempts < MaxRescueAttempts

\* InspectClipboard: a clipboard that cannot be opened looks like an empty one.
LooksEmptied(opened) == ~opened \/ clip.kind = "empty"
Opened == IF "busy" \in KeeperFaults THEN BOOLEAN ELSE {TRUE}
\* CaptureClipboardSnapshot opens the clipboard, too, and gets the data of a text or
\* image that is announced, which its owner may fail to give (GetClipboardData).
Captured == IF {"busy", "unreadable"} \cap KeeperFaults = {} THEN {TRUE} ELSE BOOLEAN

\* When a message is handled: between two calls, or inside the keeper's own
\* CloseClipboard, whose message is then used up before the number is read.
Handling ==
  /\ Idle \/ doing.step = "closing"
  /\ notices > 0
  /\ notices' = notices - 1
  /\ doing' = IF Idle THEN doing ELSE [doing EXCEPT !.step = "number"]

(* Mutant: the number to ignore stays noted.                               *)
HandleClipboardUpdateStale(captured, again) ==
  /\ Handling
  /\ IF sequence = ignoreSequence THEN UNCHANGED <<memory, rescueTimer>>
     ELSE IF captured /\ HoldsCopy
     THEN AddSnapshot /\ UNCHANGED rescueTimer
     ELSE /\ rescueTimer' = (rescueTimer \/ (MayRescue /\ LooksEmptied(again)))
          /\ UNCHANGED memory
  /\ UNCHANGED <<clip, sequence, keeping, panelMail, autoRescue>>

\* HandleClipboardUpdate, the message then passed on to the next viewer.
HandleClipboardUpdate(captured, again) ==
  /\ Handling
  /\ IF sequence = ignoreSequence
     THEN /\ ignoreSequence' = 0
          /\ UNCHANGED <<history, lastCaptured, attempts, fresh, kept, mistaken, rescueTimer>>
     ELSE IF captured /\ HoldsCopy
     THEN AddSnapshot /\ UNCHANGED rescueTimer
     ELSE /\ rescueTimer' = (rescueTimer \/ (MayRescue /\ LooksEmptied(again)))
          /\ UNCHANGED memory
  /\ UNCHANGED <<clip, sequence, keeping, panelMail, autoRescue>>

\* DoRescueTimer looks again before it restores the newest entry.
DoRescueTimer(opened) ==
  /\ Idle /\ rescueTimer /\ sequence < MaxWrites
  /\ rescueTimer' = FALSE
  /\ IF MayRescue /\ LooksEmptied(opened)
     THEN /\ attempts' = attempts + 1
          /\ doing' = [step |-> "restore", at |-> 1, wrote |-> 0]
     ELSE UNCHANGED <<attempts, doing>>
  /\ UNCHANGED <<others, keeping, panelMail, history, ignoreSequence, lastCaptured,
                 fresh, kept, mistaken, autoRescue>>

\* The hot key, the menu, the button or a double click in the list.
RestoreIndex(i) ==
  /\ Idle /\ i \in DOMAIN history /\ sequence < MaxWrites
  /\ doing' = [step |-> "restore", at |-> i, wrote |-> 0]
  /\ UNCHANGED <<others, keeping, panelMail, memory, autoRescue, rescueTimer>>

\* RestoreClipboardSnapshot: open, empty, write, close; without memory for the
\* data the clipboard stays empty, and the restore ends there.
RestoreClipboardSnapshot ==
  /\ doing.step = "restore"
  /\ LET entry == history[doing.at]
     IN \/ /\ Changed(entry.kind, entry.copy)
           /\ doing' = [step |-> "closing", at |-> 0, wrote |-> sequence + 1]
        \/ /\ "nomemory" \in KeeperFaults
           /\ Changed("empty", sequence + 1)
           /\ doing' = Nothing
        \/ /\ "busy" \in KeeperFaults
           /\ doing' = Nothing
           /\ UNCHANGED others
  /\ UNCHANGED <<keeping, panelMail, memory, autoRescue, rescueTimer>>

\* ... and then, the clipboard closed, the number by which to know this write.  Its
\* message was handled meanwhile ("number"), or another viewer is told before the
\* keeper and it comes later ("closing").
NoteOwnWrite ==
  /\ doing.step \in {"closing", "number"}
  /\ ignoreSequence' = sequence
  /\ mistaken' = IF doing.step = "number" /\ sequence # doing.wrote
                 THEN mistaken \cup {clip.copy} ELSE mistaken
  /\ doing' = Nothing
  /\ UNCHANGED <<others, keeping, panelMail, history, lastCaptured, attempts, fresh,
                 kept, autoRescue, rescueTimer>>

WindowPasses ==
  /\ Running /\ fresh
  /\ fresh' = FALSE
  /\ UNCHANGED <<others, keeping, panelMail, history, ignoreSequence, lastCaptured,
                 attempts, kept, mistaken, autoRescue, rescueTimer, doing>>

ClearHistory ==
  /\ Idle /\ history # <<>>
  /\ history' = <<>>
  /\ UNCHANGED <<others, keeping, panelMail, ignoreSequence, lastCaptured, attempts,
                 fresh, kept, mistaken, autoRescue, rescueTimer, doing>>

ToggleAutoRescue ==
  /\ Idle
  /\ autoRescue' = ~autoRescue
  /\ UNCHANGED <<others, keeping, panelMail, memory, rescueTimer, doing>>

\* onClipKeeper of WindowMark: start it, put its panel away or call it back;
\* the program obeys when it handles the message.
\* A new viewer is told of the clipboard at once.
OnClipKeeper ==
  /\ IF Running
     THEN /\ panelMail' = panelMail \cup {IF keeping = "shown" THEN "close" ELSE "show"}
          /\ UNCHANGED <<keeping, autoRescue, notices>>
     ELSE /\ keeping' = "shown" /\ autoRescue' = TRUE /\ notices' = 1
          /\ UNCHANGED panelMail
  /\ UNCHANGED <<clip, sequence, memory, rescueTimer, doing>>

\* WM_CLOSE puts the panel away; a second instance, and the menu, show it.
HandlePanel(msg) ==
  /\ Idle /\ msg \in panelMail
  /\ panelMail' = panelMail \ {msg}
  /\ keeping' = IF msg = "close" THEN "hidden" ELSE "shown"
  /\ UNCHANGED <<others, memory, autoRescue, rescueTimer, doing>>

\* Leaving by its menu or at the installer's request: out of the viewer chain,
\* and the history is gone.
KeeperExits ==
  /\ Idle
  /\ keeping' = "gone" /\ panelMail' = {} /\ notices' = 0
  /\ history' = <<>> /\ ignoreSequence' = 0 /\ lastCaptured' = 0 /\ attempts' = 0
  /\ fresh' = FALSE /\ kept' = {} /\ mistaken' = {} /\ rescueTimer' = FALSE
  /\ UNCHANGED <<clip, sequence, autoRescue, doing>>

KeeperNext ==
  \/ \E k \in Kinds : SomeoneWrites(k)
  \/ \E captured \in Captured, again \in Opened : HandleClipboardUpdate(captured, again)
  \/ \E opened \in Opened : DoRescueTimer(opened)
  \/ \E i \in 1..MaxHistory : RestoreIndex(i)
  \/ RestoreClipboardSnapshot
  \/ NoteOwnWrite
  \/ WindowPasses
  \/ ClearHistory
  \/ ToggleAutoRescue
  \/ OnClipKeeper
  \/ \E msg \in {"close", "show"} : HandlePanel(msg)
  \/ KeeperExits

KeeperSpec == KeeperInit /\ [][KeeperNext]_keeperVars
-----------------------------------------------------------------------------
KeeperTypeOK ==
  /\ clip.kind \in Kinds /\ clip.copy \in 0..sequence
  /\ sequence \in 1..(MaxWrites + 1) /\ notices \in Nat
  /\ keeping \in {"gone", "shown", "hidden"} /\ panelMail \subseteq {"close", "show"}
  /\ \A i \in DOMAIN history : history[i].kind \in Copied
  /\ {ignoreSequence, lastCaptured} \subseteq 0..sequence
  /\ attempts \in 0..MaxRescueAttempts
  /\ {fresh, autoRescue, rescueTimer} \subseteq BOOLEAN
  /\ doing.step \in {"nothing", "restore", "closing", "number"}
  /\ doing.step = "restore" => doing.at \in DOMAIN history

\* A text or image that stays on the clipboard is kept by the time the keeper
\* has handled its messages.  One may be missed: a copy made after the keeper
\* handled the message of its own write inside CloseClipboard and before it read the
\* number (clipboard.cpp:242-243), because the only message of that copy is then
\* taken for its own.  Made when the own message is still to come, it is kept.
EachCopyIsKept ==
  Idle /\ notices = 0 /\ HoldsCopy => clip.copy \in kept \cup mistaken

\* The list offers every capture once, newest first, within its bounds.
HistoryInOrder ==
  /\ Len(history) <= MaxHistory
  /\ Len(history) > 1 => Bytes(history) <= MaxHistoryBytes
  /\ \A i, j \in DOMAIN history : i < j => history[i].seq > history[j].seq

=============================================================================
