---------------------------- MODULE WindowBackend ---------------------------
(***************************************************************************)
(* The event path of WinWindowBackend: WinEvent callbacks are filtered     *)
(* (WinEventProc, IsTopLevel), coalesced as bits of a per-window mask      *)
(* (EnqueueEvent), and handed to the sink in batches (EmitPending) from a  *)
(* posted wake message (HandleWake) or, for throttled geometry, from a     *)
(* timer (HandleGeometryTimer).                                            *)
(*                                                                         *)
(* Everything runs on the UI thread, but the sink calls into other         *)
(* processes, so callbacks and world changes may fall between two sink     *)
(* calls: the handlers are split there, and pc says which one is running.  *)
(* Time is abstracted to one bit: is the last geometry dispatch more       *)
(* recent than the throttling interval.                                    *)
(***************************************************************************)
EXTENDS Naturals, Sequences, FiniteSets, HandleMaps

CONSTANTS
    Windows,            \* top-level window handles
    NoWindow,           \* the handle 0
    RaisedKinds         \* the kinds of event the desktop raises

ASSUME HandleAssumption == NoWindow \notin Windows /\ IsFiniteSet(Windows)

VARIABLES
    alive,              \* the handles that name a live window now
    topLevelCache,      \* handle -> answer, for the handles asked about
    pendingBits,        \* window -> set of kinds waiting
    wakePosted,         \* the flag that says a wake message is on its way
    wakeQueued,         \* kWakeMessage is in the thread's message queue
    geometryTimerArmed, \* the geometry timer is running
    throttled,          \* the throttling interval has not elapsed
    pc,                 \* the handler that is running, or "idle"
    events,             \* the batch being handed to the sink
    serving             \* the window of the event handed over last

worldVars == <<alive, topLevelCache>>
wakeVars  == <<wakePosted, wakeQueued, geometryTimerArmed, throttled>>
batchVars == <<pc, events, serving>>
vars == <<worldVars, pendingBits, wakeVars, batchVars>>

(* What the bits of the pending map stand for, and what a batch holds.     *)
Owed  == UNION {{w} \X pendingBits[w] : w \in Windows}
Batch == Range(events)

Channel == INSTANCE EventChannel WITH owed <- Owed, batch <- Batch, turn <- serving

Kinds == Channel!Kinds

(* EVENT_OBJECT_* events are filtered by IsTopLevel, EVENT_SYSTEM_* not.   *)
(* Minimize start and end are system events of kind visibility.            *)
ObjectKinds == {"structure", "visibility", "title", "geometry"}
SystemKinds == {"active", "visibility"}

PendingGeometry == {w \in Windows : "geometry" \in pendingBits[w]}

TypeOK ==
    /\ alive \subseteq Windows
    /\ DOMAIN topLevelCache \subseteq Windows
    /\ \A w \in DOMAIN topLevelCache : topLevelCache[w] \in BOOLEAN
    /\ pendingBits \in [Windows -> SUBSET Kinds]
    /\ wakePosted \in BOOLEAN /\ wakeQueued \in BOOLEAN
    /\ geometryTimerArmed \in BOOLEAN /\ throttled \in BOOLEAN
    /\ pc \in {"idle", "wake", "timer"}
    /\ events \in Seq(Windows \X Kinds)
    /\ serving \in Windows \cup {NoWindow}

-----------------------------------------------------------------------------

Init ==
    /\ alive \in SUBSET Windows
    /\ topLevelCache = <<>>
    /\ pendingBits = [w \in Windows |-> {}]
    /\ wakePosted = FALSE /\ wakeQueued = FALSE
    /\ geometryTimerArmed = FALSE /\ throttled = FALSE
    /\ pc = "idle" /\ events = <<>> /\ serving = NoWindow

(* The desktop: windows come and go, and a handle may be used again.       *)
WindowBorn(w) ==
    /\ w \notin alive /\ alive' = alive \cup {w}
    /\ UNCHANGED <<topLevelCache, pendingBits, wakeVars, batchVars>>

WindowDies(w) ==
    /\ w \in alive /\ alive' = alive \ {w}
    /\ UNCHANGED <<topLevelCache, pendingBits, wakeVars, batchVars>>

(* Mutant: a kind that EmitPending does not list is set as well.           *)
EnqueueUnlisted(w, k) ==
    /\ pendingBits' = [pendingBits EXCEPT ![w] = @ \cup {k, "dragEnded"}]
    /\ wakePosted' = TRUE /\ wakeQueued' = TRUE
    /\ UNCHANGED <<geometryTimerArmed, throttled>>

(* Mutant: an armed timer keeps every kind of event from waking.           *)
EnqueueTimerFirst(w, k) ==
    /\ pendingBits' = [pendingBits EXCEPT ![w] = @ \cup {k}]
    /\ IF geometryTimerArmed \/ wakePosted
       THEN UNCHANGED <<wakePosted, wakeQueued>>
       ELSE wakePosted' = TRUE /\ wakeQueued' = TRUE
    /\ UNCHANGED <<geometryTimerArmed, throttled>>

(* EnqueueEvent: set the bit; a geometry event leaves the waking to an     *)
(* armed timer; otherwise one wake message is kept in flight.              *)
EnqueueEvent(w, k) ==
    /\ pendingBits' = [pendingBits EXCEPT ![w] = @ \cup {k}]
    /\ IF (k = "geometry" /\ geometryTimerArmed) \/ wakePosted
       THEN UNCHANGED <<wakePosted, wakeQueued>>
       ELSE wakePosted' = TRUE /\ wakeQueued' = TRUE
    /\ UNCHANGED <<geometryTimerArmed, throttled>>

(* IsTopLevel: a handle is asked about once; GetAncestor says no for a     *)
(* window that is already gone, and that answer is remembered too.         *)
TopLevelAnswer(w) ==
    IF w \in DOMAIN topLevelCache THEN topLevelCache[w] ELSE w \in alive

Remember(w) == topLevelCache' = With(topLevelCache, w, TopLevelAnswer(w))

(* WinEventProc for an EVENT_OBJECT_* event.                               *)
ObjectEvent(w, k) ==
    /\ Remember(w)
    /\ IF TopLevelAnswer(w)
       THEN EnqueueEvent(w, k)
       ELSE UNCHANGED <<pendingBits, wakeVars>>
    /\ UNCHANGED <<alive, batchVars>>

(* WinEventProc for an EVENT_SYSTEM_* event.                               *)
SystemEvent(w, k) ==
    /\ EnqueueEvent(w, k)
    /\ UNCHANGED <<worldVars, batchVars>>

(* EmitPending: the bits leave the map before any sink call; geometry only *)
(* when it is included, and then the throttling interval starts again.     *)
Taken(includeGeometry) == {e \in Owed : e[2] = "geometry" => includeGeometry}

(* The orders in which the events S may be listed: window by window, in    *)
(* any order of the windows (the pending map is a hash map), the kinds of  *)
(* one window in the order of kOrder.                                      *)
Listings(S) ==
    {list \in Bijection(1 .. Cardinality(S), S) :
        \A i, j \in DOMAIN list : i < j /\ list[i][1] = list[j][1] =>
            /\ Channel!Before(list[i][2], list[j][2])
            /\ \A m \in i .. j : list[m][1] = list[i][1]}

(* Mutant: throttled geometry is cleared with the rest.                    *)
BitsLeftNone(includeGeometry) == [w \in Windows |-> {}]

(* The bits that stay in the map: throttled geometry.                      *)
BitsLeft(includeGeometry) ==
    [w \in Windows |-> IF includeGeometry THEN {} ELSE pendingBits[w] \cap {"geometry"}]

EmitPending(includeGeometry) ==
    /\ events' \in Listings(Taken(includeGeometry))
    /\ pendingBits' = BitsLeft(includeGeometry)
    /\ throttled' = (throttled \/ includeGeometry)
    /\ serving' = NoWindow

HandleWake ==
    /\ pc = "idle" /\ wakeQueued
    /\ wakeQueued' = FALSE /\ wakePosted' = FALSE
    /\ EmitPending(~throttled)
    /\ pc' = "wake"
    /\ UNCHANGED <<worldVars, geometryTimerArmed>>

(* WM_TIMER is generated only when no posted message waits.                *)
HandleGeometryTimer ==
    /\ pc = "idle" /\ geometryTimerArmed /\ ~wakeQueued
    /\ geometryTimerArmed' = FALSE
    /\ EmitPending(TRUE)
    /\ pc' = "timer"
    /\ UNCHANGED <<worldVars, wakePosted, wakeQueued>>

(* One call of the sink.                                                   *)
CallSink ==
    /\ events # <<>>
    /\ serving' = IF Tail(events) = <<>> THEN NoWindow ELSE Head(events)[1]
    /\ events' = Tail(events)
    /\ UNCHANGED <<worldVars, pendingBits, wakeVars, pc>>

(* Mutant: no timer for the geometry that HandleWake left.                 *)
FinishWakeUnarmed ==
    /\ pc = "wake" /\ events = <<>>
    /\ pc' = "idle"
    /\ UNCHANGED <<worldVars, pendingBits, wakeVars, events, serving>>

(* The rest of HandleWake: geometry that was left, or that came meanwhile, *)
(* gets a timer.                                                           *)
FinishWake ==
    /\ pc = "wake" /\ events = <<>>
    /\ geometryTimerArmed' = (geometryTimerArmed \/ PendingGeometry # {})
    /\ pc' = "idle"
    /\ UNCHANGED <<worldVars, pendingBits, wakePosted, wakeQueued, throttled, events, serving>>

FinishTimer ==
    /\ pc = "timer" /\ events = <<>>
    /\ pc' = "idle"
    /\ UNCHANGED <<worldVars, pendingBits, wakeVars, events, serving>>

(* The throttling interval (kGeometryThrottle) runs out.                   *)
ThrottleElapses ==
    /\ throttled /\ throttled' = FALSE
    /\ UNCHANGED <<worldVars, pendingBits, wakePosted, wakeQueued, geometryTimerArmed, batchVars>>

(* Resync: the hooks are installed again and the caches forgotten; the     *)
(* queue, the wake flag and the timer are left alone.                      *)
Resync ==
    /\ pc = "idle"
    /\ topLevelCache' = <<>>
    /\ UNCHANGED <<alive, pendingBits, wakeVars, batchVars>>

World == \E w \in Windows : WindowBorn(w) \/ WindowDies(w)

Callbacks ==
    \E w \in Windows :
        \/ \E k \in ObjectKinds \cap RaisedKinds : ObjectEvent(w, k)
        \/ \E k \in SystemKinds \cap RaisedKinds : SystemEvent(w, k)

Handlers ==
    \/ HandleWake \/ HandleGeometryTimer
    \/ CallSink \/ FinishWake \/ FinishTimer

Next == World \/ Callbacks \/ Handlers \/ ThrottleElapses \/ Resync

(* The message loop keeps running: a queued wake message is fetched, the   *)
(* timer fires once nothing is queued, a handler that started goes on to   *)
(* its end, and time passes.  Nothing is assumed of the desktop.           *)
Fairness ==
    /\ WF_vars(HandleWake) /\ WF_vars(HandleGeometryTimer)
    /\ WF_vars(CallSink) /\ WF_vars(FinishWake) /\ WF_vars(FinishTimer)
    /\ WF_vars(ThrottleElapses)

Spec == Init /\ [][Next]_vars /\ Fairness

-----------------------------------------------------------------------------
(* Properties.                                                             *)

(* No wake-up is lost: whatever is pending has something on the way that   *)
(* will emit it.  A pending kind other than geometry has its wake message  *)
(* in the queue; pending geometry has the message, the timer, or the end   *)
(* of the running HandleWake, which arms the timer; and the flag that      *)
(* stops a second message is up exactly when there is a first one.         *)
NoLostWakeup ==
    /\ wakePosted = wakeQueued
    /\ \A w \in Windows : pendingBits[w] \ {"geometry"} # {} => wakeQueued
    /\ PendingGeometry # {} =>
          wakeQueued \/ geometryTimerArmed \/ pc = "wake"

(* Every step of the bits, flags and timer is a step of the channel that   *)
(* EventChannel promises, or no step of it.                                *)
ImplementsChannel == Channel!ChannelSpec

(* Under the message loop's fairness no accepted event is held back for    *)
(* ever, even if other windows never stop moving.                          *)
NothingHeldBack == Channel!NothingHeldBack
=============================================================================
