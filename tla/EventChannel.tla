---------------------------- MODULE EventChannel ----------------------------
(***************************************************************************)
(* What the window backend promises the Coordinator about window events:   *)
(* an accepted event stays owed until it is emitted in a batch, equal      *)
(* events that wait together are handed over once, only geometry events    *)
(* may be held back from a batch, the events of one window leave a batch   *)
(* together and in a fixed order of kinds, and nothing is held back for    *)
(* ever.  How the promise is kept (a bit per kind, one wake message, a     *)
(* throttling timer) is the subject of WindowBackend, which implements     *)
(* this module; WindowMark composes the Coordinator with it.               *)
(***************************************************************************)
EXTENDS Naturals, Sequences, FiniteSets

CONSTANTS
    Windows,            \* window handles
    NoWindow            \* the handle 0, no window

VARIABLES
    owed,               \* events accepted and not yet emitted
    batch,              \* the emitted events still to be handed to the sink
    turn                \* the window whose events are being handed over

channelVars == <<owed, batch, turn>>

(* The kinds of WindowEvent, in the order EmitPending lists them.          *)
KindOrder == <<"structure", "visibility", "title", "active", "geometry">>

Kinds == {"structure", "visibility", "title", "active", "geometry"}

Events == Windows \X Kinds

Before(j, k) ==
    \E m, n \in DOMAIN KindOrder : m < n /\ KindOrder[m] = j /\ KindOrder[n] = k

(* The events that may come next: the window being served is finished      *)
(* first, any window may follow it (the pending map is a hash map), and a  *)
(* window's kinds come in KindOrder.                                       *)
NextInBatch ==
    {e \in batch :
        /\ (\E k \in Kinds : <<turn, k>> \in batch) => e[1] = turn
        /\ \A k \in Kinds : Before(k, e[2]) => <<e[1], k>> \notin batch}

-----------------------------------------------------------------------------

ChannelInit == owed = {} /\ batch = {} /\ turn = NoWindow

(* Events of kinds K arrive for window w; one that already waits is        *)
(* absorbed.                                                               *)
Accept(w, K) == owed' = owed \cup ({w} \X K) /\ UNCHANGED <<batch, turn>>

(* A new batch takes everything owed except, possibly, geometry events.    *)
Emit(S) ==
    /\ batch = {}
    /\ S # {} /\ S \subseteq owed
    /\ \A e \in owed \ S : e[2] = "geometry"
    /\ batch' = S
    /\ owed' = owed \ S
    /\ turn' = NoWindow

(* The sink is called with event e of the batch.                           *)
Deliver(e) ==
    /\ e \in NextInBatch
    /\ batch' = batch \ {e}
    /\ turn' = IF batch' = {} THEN NoWindow ELSE e[1]
    /\ UNCHANGED owed

ChannelNext ==
    \/ \E w \in Windows, k \in Kinds : Accept(w, {k})
    \/ \E S \in SUBSET owed : Emit(S)
    \/ \E e \in batch : Deliver(e)

ChannelSpec == ChannelInit /\ [][ChannelNext]_channelVars

-----------------------------------------------------------------------------

(* Liveness half of the promise: an accepted event is emitted sooner or    *)
(* later (WinWindowBackend loses no wake-up and no throttled geometry).    *)
NothingHeldBack == \A e \in Events : (e \in owed) ~> (e \notin owed)
=============================================================================
