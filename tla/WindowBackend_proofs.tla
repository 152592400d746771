------------------------- MODULE WindowBackend_proofs -----------------------
(***************************************************************************)
(* Theorems of WindowBackend, for any finite set of windows and any kinds  *)
(* of event: its type invariant, that no wake-up is lost, and that its     *)
(* steps are steps of the abstract EventChannel.                           *)
(***************************************************************************)
EXTENDS WindowBackend, FiniteSetTheorems, SequenceTheorems, TLAPS

-----------------------------------------------------------------------------
(* The pairs that a map of pending bits stands for.                        *)
LEMMA OwedPairs ==
    ASSUME NEW bits \in [Windows -> SUBSET Kinds], NEW e
    PROVE  e \in UNION {{w} \X bits[w] : w \in Windows}
              <=> e \in Windows \X Kinds /\ e[2] \in bits[e[1]]
  <1>1. ASSUME e \in Windows \X Kinds, e[2] \in bits[e[1]]
        PROVE  e \in UNION {{w} \X bits[w] : w \in Windows}
    <2>1. e \in {e[1]} \X bits[e[1]] /\ e[1] \in Windows
      BY <1>1
    <2> QED
      BY <2>1
  <1>2. ASSUME e \in UNION {{w} \X bits[w] : w \in Windows}
        PROVE  e \in Windows \X Kinds /\ e[2] \in bits[e[1]]
    <2>1. PICK w \in Windows : e \in {w} \X bits[w]
      BY <1>2
    <2>2. bits[w] \subseteq Kinds
      OBVIOUS
    <2> QED
      BY <2>1, <2>2
  <1> QED
    BY <1>1, <1>2

(* There are finitely many kinds, so a batch is finite.                    *)
LEMMA FiniteKinds == IsFiniteSet(Kinds)
  <1>1. IsFiniteSet({"structure", "visibility", "title"})
    <2>1. IsFiniteSet({"structure"} \cup {"visibility"})
      BY FS_Singleton, FS_Union
    <2>2. IsFiniteSet(({"structure"} \cup {"visibility"}) \cup {"title"})
      BY <2>1, FS_Singleton, FS_Union
    <2>3. ({"structure"} \cup {"visibility"}) \cup {"title"} = {"structure", "visibility", "title"}
      OBVIOUS
    <2> QED
      BY <2>2, <2>3
  <1>2. IsFiniteSet({"active"} \cup {"geometry"})
    BY FS_Singleton, FS_Union
  <1>3. Kinds = {"structure", "visibility", "title"} \cup ({"active"} \cup {"geometry"})
    BY DEF Kinds, Channel!Kinds
  <1> QED
    BY <1>1, <1>2, <1>3, FS_Union

(* A listing of events is a sequence of them, each of them once, in which  *)
(* a window's events stand together and in the order of the kinds.         *)
LEMMA ListingIsSequence ==
    ASSUME NEW S \in SUBSET (Windows \X Kinds), NEW list \in Listings(S)
    PROVE  /\ list \in Seq(Windows \X Kinds)
           /\ Range(list) = S
           /\ S = {} => list = <<>>
           /\ \A i, j \in DOMAIN list : list[i] = list[j] => i = j
           /\ \A i, j \in DOMAIN list : i < j /\ list[i][1] = list[j][1] =>
                 /\ Channel!Before(list[i][2], list[j][2])
                 /\ \A m \in i .. j : list[m][1] = list[i][1]
  <1>1. IsFiniteSet(S)
    BY FiniteKinds, HandleAssumption, FS_Product, FS_Subset
  <1>2. Cardinality(S) \in Nat
    BY <1>1, FS_CardinalityType
  <1>3. list \in Bijection(1 .. Cardinality(S), S)
    BY DEF Listings
  <1>4. /\ list \in [1 .. Cardinality(S) -> S]
        /\ \A s \in S : \E i \in 1 .. Cardinality(S) : list[i] = s
        /\ \A i, j \in DOMAIN list : list[i] = list[j] => i = j
    BY <1>3 DEF Bijection, Injection, Surjection, IsInjective
  <1>5. list \in Seq(S)
    BY <1>2, <1>4
  <1>6. list \in Seq(Windows \X Kinds)
    BY <1>5
  <1>7. Range(list) = S
    BY <1>4 DEF Range
  <1>8. S = {} => list = <<>>
    BY <1>5
  <1> QED
    BY <1>4, <1>6, <1>7, <1>8 DEF Listings

-----------------------------------------------------------------------------
(* TypeOK: a bit that is set is one of the kinds EmitPending lists, and a  *)
(* batch is a sequence of events of such kinds.                            *)
LEMMA WithMap ==
    ASSUME NEW map, NEW x, NEW v
    PROVE  /\ DOMAIN With(map, x, v) = DOMAIN map \cup {x}
           /\ With(map, x, v)[x] = v
           /\ \A y \in DOMAIN map : y # x => With(map, x, v)[y] = map[y]
  BY DEF With

LEMMA EnqueueType ==
    ASSUME TypeOK, NEW w \in Windows, NEW k \in Kinds, EnqueueEvent(w, k)
    PROVE  /\ pendingBits' \in [Windows -> SUBSET Kinds]
           /\ wakePosted' \in BOOLEAN /\ wakeQueued' \in BOOLEAN
           /\ geometryTimerArmed' \in BOOLEAN /\ throttled' \in BOOLEAN
  BY DEF TypeOK, EnqueueEvent

LEMMA EmitType ==
    ASSUME TypeOK, NEW b \in BOOLEAN, EmitPending(b)
    PROVE  /\ pendingBits' \in [Windows -> SUBSET Kinds]
           /\ events' \in Seq(Windows \X Kinds)
           /\ throttled' \in BOOLEAN /\ serving' = NoWindow
  <1>1. Taken(b) \in SUBSET (Windows \X Kinds)
    BY OwedPairs DEF TypeOK, Taken, Owed
  <1>2. events' \in Seq(Windows \X Kinds)
    BY <1>1, ListingIsSequence DEF EmitPending
  <1> QED
    BY <1>2 DEF TypeOK, EmitPending, BitsLeft

LEMMA TypeInit == Init => TypeOK
  <1> SUFFICES ASSUME Init PROVE TypeOK
    OBVIOUS
  <1>1. DOMAIN topLevelCache = {}
    BY DEF Init
  <1>2. events \in Seq(Windows \X Kinds)
    BY DEF Init
  <1> QED
    BY <1>1, <1>2 DEF Init, TypeOK

LEMMA TypeStep == TypeOK /\ [Next]_vars => TypeOK'
  <1> SUFFICES ASSUME TypeOK, [Next]_vars PROVE TypeOK'
    OBVIOUS
  <1>1. CASE World
    BY <1>1 DEF World, WindowBorn, WindowDies, TypeOK, wakeVars, batchVars
  <1>2. ASSUME NEW w \in Windows, NEW k \in Kinds, ObjectEvent(w, k) PROVE TypeOK'
    <2>1. /\ DOMAIN topLevelCache' \subseteq Windows
          /\ \A v \in DOMAIN topLevelCache' : topLevelCache'[v] \in BOOLEAN
      <3>1. TopLevelAnswer(w) \in BOOLEAN
        <4>1. CASE w \in DOMAIN topLevelCache
          BY <4>1 DEF TopLevelAnswer, TypeOK
        <4>2. CASE w \notin DOMAIN topLevelCache
          BY <4>2, SMT DEF TopLevelAnswer
        <4> QED
          BY <4>1, <4>2
      <3>2. topLevelCache' = With(topLevelCache, w, TopLevelAnswer(w))
        BY <1>2 DEF ObjectEvent, Remember
      <3>3. /\ DOMAIN topLevelCache' = DOMAIN topLevelCache \cup {w}
            /\ topLevelCache'[w] = TopLevelAnswer(w)
            /\ \A v \in DOMAIN topLevelCache : v # w => topLevelCache'[v] = topLevelCache[v]
        BY <3>2 DEF With
      <3>4. ASSUME NEW v \in DOMAIN topLevelCache' PROVE topLevelCache'[v] \in BOOLEAN
        <4>1. CASE v = w
          BY <3>1, <3>3, <4>1, Zenon
        <4>2. CASE v # w
          BY <3>3, <4>2 DEF TypeOK
        <4> QED
          BY <4>1, <4>2
      <3> QED
        BY <3>3, <3>4 DEF TypeOK
    <2>2. CASE TopLevelAnswer(w)
      BY <1>2, <2>1, <2>2, EnqueueType DEF ObjectEvent, TypeOK, batchVars
    <2>3. CASE ~TopLevelAnswer(w)
      BY <1>2, <2>1, <2>3 DEF ObjectEvent, TypeOK, batchVars, wakeVars
    <2> QED
      BY <2>2, <2>3
  <1>3. ASSUME NEW w \in Windows, NEW k \in Kinds, SystemEvent(w, k) PROVE TypeOK'
    BY <1>3, EnqueueType DEF SystemEvent, TypeOK, worldVars, batchVars
  <1>4. CASE HandleWake
    BY <1>4, EmitType DEF HandleWake, TypeOK, worldVars
  <1>5. CASE HandleGeometryTimer
    BY <1>5, EmitType DEF HandleGeometryTimer, TypeOK, worldVars
  <1>6. CASE CallSink
    <2>1. /\ Tail(events) \in Seq(Windows \X Kinds)
          /\ Head(events) \in Windows \X Kinds
      BY <1>6, HeadTailProperties DEF CallSink, TypeOK
    <2> QED
      BY <1>6, <2>1 DEF CallSink, TypeOK, worldVars, wakeVars
  <1>7. CASE FinishWake
    BY <1>7 DEF FinishWake, TypeOK, worldVars
  <1>8. CASE FinishTimer
    BY <1>8 DEF FinishTimer, TypeOK, worldVars, wakeVars
  <1>9. CASE ThrottleElapses
    BY <1>9 DEF ThrottleElapses, TypeOK, worldVars, batchVars
  <1>10. CASE Resync
    BY <1>10 DEF Resync, TypeOK, wakeVars, batchVars
  <1>11. CASE UNCHANGED vars
    BY <1>11 DEF vars, TypeOK, worldVars, wakeVars, batchVars
  <1> QED
    BY <1>1, <1>2, <1>3, <1>4, <1>5, <1>6, <1>7, <1>8, <1>9, <1>10, <1>11
       DEF Next, Callbacks, Handlers, ObjectKinds, SystemKinds, Kinds, Channel!Kinds

(* The bits, flags, caches and batch of the backend keep their types.      *)
THEOREM Typing == Spec => []TypeOK
  BY TypeInit, TypeStep, PTL DEF Spec

-----------------------------------------------------------------------------
(* No wake-up is lost.  NoLostWakeup is inductive: an event is enqueued    *)
(* either with a wake message or, geometry only, with the timer armed; the *)
(* two handlers that clear a flag empty what it stood for, except for      *)
(* throttled geometry, for which the end of HandleWake arms the timer.     *)
LEMMA EnqueueWakes ==
    ASSUME TypeOK, NoLostWakeup, NEW w \in Windows, NEW k \in Kinds,
           EnqueueEvent(w, k), UNCHANGED pc
    PROVE  NoLostWakeup'
  <1>1. wakePosted' = wakeQueued'
    BY DEF NoLostWakeup, EnqueueEvent
  <1>2. /\ \A v \in Windows : v # w => pendingBits'[v] = pendingBits[v]
        /\ pendingBits'[w] = pendingBits[w] \cup {k}
    BY DEF EnqueueEvent, TypeOK
  <1>3. ASSUME NEW v \in Windows, pendingBits'[v] \ {"geometry"} # {} PROVE wakeQueued'
    <2>1. CASE pendingBits[v] \ {"geometry"} # {}
      BY <2>1 DEF NoLostWakeup, EnqueueEvent
    <2>2. CASE k # "geometry"
      BY <2>2 DEF NoLostWakeup, EnqueueEvent
    <2> QED
      BY <1>2, <1>3, <2>1, <2>2
  <1>4. wakeQueued' \/ geometryTimerArmed' \/ pc' = "wake" \/ PendingGeometry' = {}
    <2>1. CASE PendingGeometry # {}
      BY <2>1 DEF NoLostWakeup, EnqueueEvent
    <2>2. CASE k = "geometry"
      BY <2>2 DEF NoLostWakeup, EnqueueEvent
    <2>3. CASE PendingGeometry = {} /\ k # "geometry"
      BY <1>2, <2>3 DEF PendingGeometry
    <2> QED
      BY <2>1, <2>2, <2>3
  <1> QED
    BY <1>1, <1>3, <1>4 DEF NoLostWakeup

LEMMA WakeStep == TypeOK /\ NoLostWakeup /\ [Next]_vars => NoLostWakeup'
  <1> SUFFICES ASSUME TypeOK, NoLostWakeup, [Next]_vars PROVE NoLostWakeup'
    OBVIOUS
  <1>1. ASSUME UNCHANGED <<pendingBits, wakePosted, wakeQueued, geometryTimerArmed, pc>>
        PROVE  NoLostWakeup'
    BY <1>1 DEF NoLostWakeup, PendingGeometry
  <1>2. ASSUME NEW w \in Windows, NEW k \in Kinds, ObjectEvent(w, k) PROVE NoLostWakeup'
    <2>1. CASE EnqueueEvent(w, k)
      BY <1>2, <2>1, EnqueueWakes DEF ObjectEvent, batchVars
    <2>2. CASE UNCHANGED <<pendingBits, wakeVars>>
      BY <1>1, <1>2, <2>2 DEF ObjectEvent, batchVars, wakeVars
    <2> QED
      BY <1>2, <2>1, <2>2 DEF ObjectEvent
  <1>3. ASSUME NEW w \in Windows, NEW k \in Kinds, SystemEvent(w, k) PROVE NoLostWakeup'
    BY <1>3, EnqueueWakes DEF SystemEvent, batchVars
  <1>4. CASE HandleWake
    BY <1>4 DEF HandleWake, EmitPending, BitsLeft, NoLostWakeup, PendingGeometry, TypeOK
  <1>5. CASE HandleGeometryTimer
    BY <1>5 DEF HandleGeometryTimer, EmitPending, BitsLeft, NoLostWakeup, PendingGeometry, TypeOK
  <1>6. CASE FinishWake
    BY <1>6 DEF FinishWake, NoLostWakeup, PendingGeometry
  <1>7. CASE FinishTimer
    BY <1>7 DEF FinishTimer, NoLostWakeup, PendingGeometry, wakeVars
  <1>8. CASE World
    BY <1>1, <1>8 DEF World, WindowBorn, WindowDies, wakeVars, batchVars
  <1>9. CASE CallSink
    BY <1>1, <1>9 DEF CallSink, wakeVars
  <1>10. CASE ThrottleElapses \/ Resync
    BY <1>1, <1>10 DEF ThrottleElapses, Resync, wakeVars, batchVars
  <1>11. CASE UNCHANGED vars
    BY <1>1, <1>11 DEF vars, wakeVars, batchVars
  <1> QED
    BY <1>2, <1>3, <1>4, <1>5, <1>6, <1>7, <1>8, <1>9, <1>10, <1>11
       DEF Next, Callbacks, Handlers, ObjectKinds, SystemKinds, Kinds, Channel!Kinds

(* Whatever is pending has a wake message, the timer, or the end of the    *)
(* running HandleWake to emit it, for every set of windows.                *)
THEOREM WakeupsKept == Spec => []NoLostWakeup
  <1>1. Init => NoLostWakeup
    BY DEF Init, NoLostWakeup, PendingGeometry
  <1> QED
    BY <1>1, Typing, WakeStep, PTL DEF Spec

-----------------------------------------------------------------------------
(* Refinement.  What makes CallSink a Deliver is how the rest of a batch   *)
(* stands while it is handed over: no batch is open between handlers, no   *)
(* event comes twice, a window's events are together and in order, and if  *)
(* the window that was served last has events left, they come first.       *)
BatchInOrder ==
    /\ pc = "idle" => events = <<>>
    /\ \A i, j \in DOMAIN events : events[i] = events[j] => i = j
    /\ \A i, j \in DOMAIN events : i < j /\ events[i][1] = events[j][1] =>
          /\ Channel!Before(events[i][2], events[j][2])
          /\ \A m \in i .. j : events[m][1] = events[i][1]
    /\ events = <<>> => serving = NoWindow
    /\ \A i \in DOMAIN events : events[i][1] = serving => events[1][1] = serving

LEMMA TailOfBatch ==
    ASSUME TypeOK, events # <<>>
    PROVE  /\ Len(events) \in Nat /\ Len(events) > 0
           /\ DOMAIN events = 1 .. Len(events)
           /\ Tail(events) \in Seq(Windows \X Kinds)
           /\ DOMAIN Tail(events) = 1 .. Len(events) - 1
           /\ \A i \in DOMAIN Tail(events) : Tail(events)[i] = events[i + 1]
           /\ Head(events) = events[1]
  BY HeadTailProperties DEF TypeOK

LEMMA EmitInOrder ==
    ASSUME TypeOK, NEW b \in BOOLEAN, EmitPending(b), pc' # "idle"
    PROVE  BatchInOrder'
  <1>1. Taken(b) \in SUBSET (Windows \X Kinds)
    BY OwedPairs DEF TypeOK, Taken, Owed
  <1>2. /\ events' \in Seq(Windows \X Kinds)
        /\ \A i, j \in DOMAIN events' : events'[i] = events'[j] => i = j
        /\ \A i, j \in DOMAIN events' : i < j /\ events'[i][1] = events'[j][1] =>
              /\ Channel!Before(events'[i][2], events'[j][2])
              /\ \A m \in i .. j : events'[m][1] = events'[i][1]
    BY <1>1, ListingIsSequence DEF EmitPending
  <1>3. serving' = NoWindow
    BY DEF EmitPending
  <1>4. \A i \in DOMAIN events' : events'[i][1] # serving'
    BY <1>2, <1>3, HandleAssumption
  <1> QED
    BY <1>2, <1>3, <1>4 DEF BatchInOrder

LEMMA CallInOrder ==
    ASSUME TypeOK, BatchInOrder, CallSink
    PROVE  BatchInOrder'
  <1>1. events # <<>> /\ events' = Tail(events) /\ pc' = pc
    BY DEF CallSink, worldVars, wakeVars
  <1>2. /\ Len(events) \in Nat /\ DOMAIN events = 1 .. Len(events)
        /\ DOMAIN events' = 1 .. Len(events) - 1
        /\ \A i \in DOMAIN events' : i + 1 \in DOMAIN events /\ events'[i] = events[i + 1]
    BY <1>1, TailOfBatch
  <1>3. pc' # "idle"
    BY <1>1 DEF BatchInOrder
  <1>4. \A i, j \in DOMAIN events' : events'[i] = events'[j] => i = j
    BY <1>2 DEF BatchInOrder
  <1>5. ASSUME NEW i \in DOMAIN events', NEW j \in DOMAIN events', i < j,
               events'[i][1] = events'[j][1]
        PROVE  /\ Channel!Before(events'[i][2], events'[j][2])
               /\ \A m \in i .. j : events'[m][1] = events'[i][1]
    <2>1. i + 1 < j + 1 /\ events[i + 1][1] = events[j + 1][1]
      BY <1>2, <1>5
    <2>2. \A m \in (i + 1) .. (j + 1) : events[m][1] = events[i + 1][1]
      BY <1>2, <2>1 DEF BatchInOrder
    <2>3. ASSUME NEW m \in i .. j PROVE events'[m][1] = events'[i][1]
      BY <1>2, <2>2
    <2> QED
      BY <1>2, <2>1, <2>3 DEF BatchInOrder
  <1>6. events' = <<>> => serving' = NoWindow
    BY <1>1 DEF CallSink
  <1>7. ASSUME NEW i \in DOMAIN events', events'[i][1] = serving' PROVE events'[1][1] = serving'
    <2>1. Tail(events) # <<>>
      BY <1>1, <1>2
    <2>2. serving' = events[1][1]
      BY <1>1, <2>1, TailOfBatch DEF CallSink
    <2>3. \A m \in 1 .. (i + 1) : events[m][1] = events[1][1]
      BY <1>2, <1>7, <2>2 DEF BatchInOrder
    <2> QED
      BY <1>2, <2>2, <2>3
  <1> QED
    BY <1>3, <1>4, <1>5, <1>6, <1>7 DEF BatchInOrder

LEMMA OrderStep == TypeOK /\ BatchInOrder /\ [Next]_vars => BatchInOrder'
  <1> SUFFICES ASSUME TypeOK, BatchInOrder, [Next]_vars PROVE BatchInOrder'
    OBVIOUS
  <1>1. ASSUME UNCHANGED batchVars PROVE BatchInOrder'
    BY <1>1 DEF BatchInOrder, batchVars
  <1>2. CASE HandleWake
    BY <1>2, EmitInOrder DEF HandleWake
  <1>3. CASE HandleGeometryTimer
    BY <1>3, EmitInOrder DEF HandleGeometryTimer
  <1>4. CASE CallSink
    BY <1>4, CallInOrder
  <1>5. CASE FinishWake
    BY <1>5 DEF FinishWake, BatchInOrder
  <1>6. CASE FinishTimer
    BY <1>6 DEF FinishTimer, BatchInOrder
  <1>7. CASE World \/ Callbacks \/ ThrottleElapses \/ Resync
    BY <1>1, <1>7 DEF World, WindowBorn, WindowDies, Callbacks, ObjectEvent, SystemEvent,
                      ThrottleElapses, Resync
  <1>8. CASE UNCHANGED vars
    BY <1>1, <1>8 DEF vars
  <1> QED
    BY <1>2, <1>3, <1>4, <1>5, <1>6, <1>7, <1>8 DEF Next, Handlers

(* A handler that empties the pending map emits what it takes, or does     *)
(* nothing the channel can see if there is nothing to take.                *)
LEMMA EmitRefines ==
    ASSUME TypeOK, BatchInOrder, pc = "idle", NEW b \in BOOLEAN, EmitPending(b)
    PROVE  [Channel!ChannelNext]_(Channel!channelVars)
  <1>1. pendingBits' \in [Windows -> SUBSET Kinds]
    BY EmitType
  <1>2. Taken(b) \in SUBSET (Windows \X Kinds)
    BY OwedPairs DEF TypeOK, Taken, Owed
  <1>3. Batch = {} /\ serving = NoWindow /\ serving' = NoWindow
    BY DEF BatchInOrder, Batch, Range, EmitPending
  <1>4. Batch' = Taken(b)
    BY <1>2, ListingIsSequence DEF EmitPending, Batch
  <1>5. Owed' = Owed \ Taken(b)
    <2>1. ASSUME NEW e PROVE e \in Owed' <=> e \in Owed \ Taken(b)
      <3>1. e \in Owed' <=> e \in Windows \X Kinds /\ e[2] \in pendingBits'[e[1]]
        BY <1>1, OwedPairs DEF Owed
      <3>2. e \in Owed <=> e \in Windows \X Kinds /\ e[2] \in pendingBits[e[1]]
        BY OwedPairs DEF Owed, TypeOK
      <3>3. e \in Windows \X Kinds =>
               (e[2] \in pendingBits'[e[1]] <=> e[2] \in pendingBits[e[1]] /\ e[2] = "geometry" /\ ~b)
        BY DEF EmitPending, BitsLeft
      <3> QED
        BY <3>1, <3>2, <3>3 DEF Taken
    <2> QED
      BY <2>1
  <1>6. CASE Taken(b) = {}
    BY <1>3, <1>4, <1>5, <1>6 DEF Channel!channelVars
  <1>7. CASE Taken(b) # {}
    <2>1. Taken(b) \subseteq Owed /\ \A e \in Owed \ Taken(b) : e[2] = "geometry"
      BY DEF Taken
    <2>2. Channel!Emit(Taken(b))
      BY <1>3, <1>4, <1>5, <1>7, <2>1 DEF Channel!Emit
    <2> QED
      BY <2>1, <2>2 DEF Channel!ChannelNext
  <1> QED
    BY <1>6, <1>7

(* The kinds are listed once each, so none comes before itself.            *)
LEMMA BeforeIsStrict ==
    ASSUME NEW j, NEW k, Channel!Before(j, k)
    PROVE  ~Channel!Before(k, j)
  BY DEF Channel!Before, Channel!KindOrder

LEMMA CallRefines ==
    ASSUME TypeOK, BatchInOrder, CallSink
    PROVE  Channel!Deliver(Head(events)) /\ Head(events) \in Batch
  <1> DEFINE e == Head(events)
  <1>1. events # <<>> /\ events' = Tail(events) /\ UNCHANGED pendingBits
    BY DEF CallSink
  <1>2. /\ Len(events) \in Nat /\ Len(events) > 0 /\ DOMAIN events = 1 .. Len(events)
        /\ DOMAIN events' = 1 .. Len(events) - 1
        /\ \A i \in DOMAIN events' : events'[i] = events[i + 1]
        /\ e = events[1]
    BY <1>1, TailOfBatch
  <1>3. e \in Batch
    BY <1>2 DEF Batch, Range
  <1>4. Batch' = Batch \ {e}
    <2>1. ASSUME NEW x \in Batch' PROVE x \in Batch \ {e}
      <3>1. PICK i \in DOMAIN events' : x = events'[i]
        BY DEF Batch, Range
      <3>2. i + 1 \in DOMAIN events /\ x = events[i + 1] /\ i + 1 # 1
        BY <1>2, <3>1
      <3>3. x # e
        BY <1>2, <3>2 DEF BatchInOrder
      <3> QED
        BY <3>2, <3>3 DEF Batch, Range
    <2>2. ASSUME NEW x \in Batch \ {e} PROVE x \in Batch'
      <3>1. PICK i \in DOMAIN events : x = events[i] /\ i # 1
        BY <1>2 DEF Batch, Range
      <3>2. i - 1 \in DOMAIN events' /\ x = events'[i - 1]
        BY <1>2, <3>1
      <3> QED
        BY <3>2 DEF Batch, Range
    <2> QED
      BY <2>1, <2>2
  <1>5. serving' = IF Batch' = {} THEN NoWindow ELSE e[1]
    <2>1. Batch' = {} <=> Tail(events) = <<>>
      <3>1. Batch' = {} <=> DOMAIN events' = {}
        BY DEF Batch, Range
      <3>2. events' \in Seq(Windows \X Kinds)
        BY <1>1, TailOfBatch
      <3>3. DOMAIN events' = {} <=> events' = <<>>
        BY <3>2
      <3> QED
        BY <1>1, <3>1, <3>3
    <2> QED
      BY <2>1 DEF CallSink
  <1>6. (\E k \in Channel!Kinds : <<serving, k>> \in Batch) => e[1] = serving
    BY <1>2 DEF BatchInOrder, Batch, Range
  <1>7. ASSUME NEW k \in Channel!Kinds, Channel!Before(k, e[2]) PROVE <<e[1], k>> \notin Batch
    <2> SUFFICES ASSUME NEW i \in DOMAIN events, events[i] = <<e[1], k>> PROVE FALSE
      BY DEF Batch, Range
    <2>1. CASE i = 1
      BY <1>2, <1>7, <2>1, BeforeIsStrict
    <2>2. CASE i # 1
      <3>1. Channel!Before(e[2], k)
        BY <1>2, <2>2 DEF BatchInOrder
      <3> QED
        BY <1>7, <3>1, BeforeIsStrict
    <2> QED
      BY <2>1, <2>2
  <1>8. Owed' = Owed
    BY <1>1 DEF Owed
  <1> QED
    BY <1>3, <1>4, <1>5, <1>6, <1>7, <1>8 DEF Channel!Deliver, Channel!NextInBatch

(* An enqueued event is an accepted one.                                   *)
LEMMA EnqueueRefines ==
    ASSUME TypeOK, NEW w \in Windows, NEW k \in Kinds, EnqueueEvent(w, k), UNCHANGED batchVars
    PROVE  Channel!Accept(w, {k})
  <1>1. pendingBits' \in [Windows -> SUBSET Kinds]
    BY EnqueueType
  <1>2. ASSUME NEW e PROVE e \in Owed' <=> e \in Owed \cup ({w} \X {k})
    <2>1. e \in Owed' <=> e \in Windows \X Kinds /\ e[2] \in pendingBits'[e[1]]
      BY <1>1, OwedPairs DEF Owed
    <2>2. e \in Owed <=> e \in Windows \X Kinds /\ e[2] \in pendingBits[e[1]]
      BY OwedPairs DEF Owed, TypeOK
    <2>3. e \in Windows \X Kinds =>
             (e[2] \in pendingBits'[e[1]] <=> e[2] \in pendingBits[e[1]] \/ (e[1] = w /\ e[2] = k))
      BY DEF EnqueueEvent, TypeOK
    <2>4. e \in {w} \X {k} <=> e \in Windows \X Kinds /\ e[1] = w /\ e[2] = k
      OBVIOUS
    <2> QED
      BY <2>1, <2>2, <2>3, <2>4
  <1> QED
    BY <1>2 DEF Channel!Accept, batchVars, Batch

LEMMA RefinementStep ==
    TypeOK /\ BatchInOrder /\ [Next]_vars => [Channel!ChannelNext]_(Channel!channelVars)
  <1> SUFFICES ASSUME TypeOK, BatchInOrder, [Next]_vars
               PROVE  [Channel!ChannelNext]_(Channel!channelVars)
    OBVIOUS
  <1>1. ASSUME UNCHANGED <<pendingBits, events, serving>>
        PROVE  UNCHANGED Channel!channelVars
    BY <1>1 DEF Channel!channelVars, Owed, Batch
  <1>2. ASSUME NEW w \in Windows, NEW k \in Kinds, EnqueueEvent(w, k), UNCHANGED batchVars
        PROVE  Channel!ChannelNext
    BY <1>2, EnqueueRefines DEF Channel!ChannelNext, Kinds
  <1>3. CASE Callbacks
    <2>1. ASSUME NEW w \in Windows, NEW k \in Kinds, ObjectEvent(w, k)
          PROVE  [Channel!ChannelNext]_(Channel!channelVars)
      BY <1>1, <1>2, <2>1 DEF ObjectEvent, batchVars
    <2>2. ASSUME NEW w \in Windows, NEW k \in Kinds, SystemEvent(w, k)
          PROVE  Channel!ChannelNext
      BY <1>2, <2>2 DEF SystemEvent
    <2> QED
      BY <1>3, <2>1, <2>2 DEF Callbacks, ObjectKinds, SystemKinds, Kinds, Channel!Kinds
  <1>4. CASE HandleWake
    BY <1>4, EmitRefines DEF HandleWake
  <1>5. CASE HandleGeometryTimer
    BY <1>5, EmitRefines DEF HandleGeometryTimer
  <1>6. CASE CallSink
    BY <1>6, CallRefines DEF Channel!ChannelNext
  <1>7. CASE FinishWake \/ FinishTimer
    BY <1>1, <1>7 DEF FinishWake, FinishTimer
  <1>8. CASE World \/ ThrottleElapses \/ Resync \/ UNCHANGED vars
    BY <1>1, <1>8 DEF World, WindowBorn, WindowDies, ThrottleElapses, Resync, vars, batchVars
  <1> QED
    BY <1>3, <1>4, <1>5, <1>6, <1>7, <1>8 DEF Next, Handlers

(* WinWindowBackend keeps the promise of EventChannel: whatever callbacks  *)
(* come between two sink calls, each step of the pending map, the batch    *)
(* and the sink is an Accept, an Emit or a Deliver of the channel.         *)
THEOREM Refinement == Spec => ImplementsChannel
  <1>1. Init => Channel!ChannelInit
    BY DEF Init, Channel!ChannelInit, Owed, Batch, Range
  <1>2. Init => BatchInOrder
    BY DEF Init, BatchInOrder
  <1> QED
    BY <1>1, <1>2, Typing, OrderStep, RefinementStep, PTL DEF Spec, ImplementsChannel, Channel!ChannelSpec
=============================================================================
