------------------------------ MODULE ImeLease ------------------------------
(***************************************************************************)
(* The lease under which WindowMark widens a taskbar container that        *)
(* belongs to Explorer.  Three processes take part: WindowMark renews by   *)
(* heartbeat (ime_guard::Client), a controller process per session relays  *)
(* the lease (XamlContainerTrial), and a component inside Explorer, the    *)
(* tap (XamlContainerTap), writes the width and must undo it when the      *)
(* lease ends.  They share two blocks of memory per session: the client    *)
(* block (WindowMark and controller) and the view (controller and tap).    *)
(*                                                                         *)
(* Any process may stop or die between two accesses.  Time is discrete;    *)
(* ages and remaining times are kept instead of a clock, so that nothing   *)
(* grows.  The one promise about speed is that a responsive Explorer runs  *)
(* the tap's 250 ms timer between two units of time.                       *)
(***************************************************************************)
EXTENDS Naturals

CONSTANTS
    MaxSessions,        \* bound: controllers started
    HeartbeatLimit,     \* a heartbeat older than this is stale (2 s)
    Renewal,            \* how far ahead the controller renews (5 s)
    FirstLease,         \* the lease that attaching grants (30 s)
    CleanupLimit,       \* how long the controller waits for the undo (5 s)
    SampleLimit,        \* a tap that did not sample for longer is stale (3 s)
    FirstSampleLimit,   \* the same before the first sample (10 s)
    Faults              \* what may go wrong, a subset of AllFaults

AllFaults == {"killed", "hung", "restart", "attach", "restore", "layout", "day", "crash", "prepare"}

ASSUME LeaseAssumption ==
    /\ MaxSessions \in Nat
    /\ HeartbeatLimit \in Nat /\ Renewal \in Nat /\ FirstLease \in Nat
    /\ CleanupLimit \in Nat /\ SampleLimit \in Nat /\ FirstSampleLimit \in Nat
    /\ Faults \subseteq AllFaults

VARIABLES
    owner,      \* the session that the living WindowMark watches, or None
    client,     \* session -> what the controller reports in the client block
    clientStop, \* sessions: WindowMark has set stop in the client block
    age,        \* session -> time since the last heartbeat
    ctl,        \* session -> where its controller is
    clean,      \* the sessions whose controller exited with code 0
    gone,       \* the sessions whose Explorer process has exited
    patience,   \* time until the controller in the loop takes the tap for stale
    cleanup,    \* time it still waits for the undo
    renewed,    \* history: the sessions renewed at least once
    view,       \* session -> what the tap reports in the view
    viewStop,   \* sessions: the controller has set stop in the view
    left,       \* time to the deadline of the lease the tap holds
    explorer,   \* "up", "hung" (its UI thread is stuck) or "down"
    broker,     \* the tap's message window exists
    once,       \* the event that says this Explorer was attached to exists
    shared,     \* the session whose lease the tap holds, or None
    finishing,  \* kFinish is posted to the tap
    dirty,      \* the session whose override of the container's width stands
    inbox,      \* sessions whose WM_COPYDATA is on its way to the tap
    punctual    \* the tap's timer has run in this unit of time

clientVars == <<owner, client, clientStop, age>>
ctlVars    == <<ctl, clean, gone, patience, cleanup, renewed>>
viewVars   == <<view, viewStop, left>>
linkVars   == <<explorer, broker, once, inbox>>
tapVars    == <<shared, finishing, dirty, punctual>>
leaseVars  == <<clientVars, ctlVars, viewVars, linkVars, tapVars>>

Sessions == 1 .. MaxSessions
None == 0

States == {"none", "attached", "observing", "reserved", "closed", "failed"}
Report == [state : States, writes : 0 .. 1, restores : 0 .. 1, failures : 0 .. 1]
NoReport == [state |-> "none", writes |-> 0, restores |-> 0, failures |-> 0]

(* Where a controller runs the loop, and where it holds the singleton.     *)
Loop  == {"renew", "report", "check"}
Holds == Loop \cup {"holding", "sending", "leaving"}

(* Ages saturate where no guard and no property tells them apart any more. *)
AgeCap == HeartbeatLimit + Renewal + 1

LeaseTypeOK ==
    /\ owner \in Sessions \cup {None}
    /\ client \in [Sessions -> Report] /\ clientStop \subseteq Sessions
    /\ age \in [Sessions -> 0 .. AgeCap]
    /\ ctl \in [Sessions -> {"none", "starting", "validated", "exited"} \cup Holds]
    /\ clean \subseteq Sessions /\ gone \subseteq Sessions /\ renewed \subseteq Sessions
    /\ patience \in Nat /\ cleanup \in Nat
    /\ view \in [Sessions -> Report] /\ viewStop \subseteq Sessions /\ left \in Nat
    /\ explorer \in {"up", "hung", "down"}
    /\ broker \in BOOLEAN /\ once \in BOOLEAN /\ inbox \subseteq Sessions
    /\ shared \in Sessions \cup {None}
    /\ finishing \in BOOLEAN /\ dirty \in Sessions \cup {None} /\ punctual \in BOOLEAN

LeaseInit ==
    /\ owner = None /\ client = [s \in Sessions |-> NoReport] /\ clientStop = {}
    /\ age = [s \in Sessions |-> AgeCap]
    /\ ctl = [s \in Sessions |-> "none"] /\ clean = {} /\ gone = {} /\ renewed = {}
    /\ patience = 0 /\ cleanup = 0
    /\ view = [s \in Sessions |-> NoReport] /\ viewStop = {} /\ left = 0
    /\ explorer = "up" /\ broker = FALSE /\ once = FALSE /\ inbox = {}
    /\ shared = None /\ finishing = FALSE /\ dirty = None /\ punctual = FALSE

-----------------------------------------------------------------------------
(* The controller, XamlContainerTrial.cpp wmain.                           *)

Goes(s, place) == ctl' = [ctl EXCEPT ![s] = place]

(* An exit with another code than 0; the codes are not told apart.         *)
Fails(s) == Goes(s, "exited") /\ UNCHANGED clean

(* Mutant: the process lives, whatever its UI thread does.                 *)
ClientAliveByProcess(s) == s \notin clientStop /\ s = owner

(* Before anything else, and in each round: is the client alive?           *)
ClientAlive(s) == s \notin clientStop /\ s = owner /\ age[s] <= HeartbeatLimit

Validate(s) ==
    /\ ctl[s] = "starting"
    /\ IF ClientAlive(s) /\ explorer # "down"
       THEN Goes(s, "validated") /\ UNCHANGED clean
       ELSE Fails(s)
    /\ UNCHANGED <<clientVars, gone, patience, cleanup, renewed, viewVars, linkVars, tapVars>>

(* One controller at a time: a second one exits.                           *)
Acquire(s) ==
    /\ ctl[s] = "validated"
    /\ IF \E t \in Sessions : ctl[t] \in Holds
       THEN Fails(s)
       ELSE Goes(s, "holding") /\ UNCHANGED clean
    /\ UNCHANGED <<clientVars, gone, patience, cleanup, renewed, viewVars, linkVars, tapVars>>

(* Attach.  A broker that is there is sent the lease; otherwise the tap is *)
(* injected, once per Explorer process.                                    *)
SendLease(s) ==
    /\ ctl[s] = "holding" /\ s \notin gone /\ broker
    /\ Goes(s, "sending") /\ inbox' = inbox \cup {s}
    /\ UNCHANGED <<clientVars, clean, gone, patience, cleanup, renewed, viewVars,
                   explorer, broker, once, tapVars>>

(* The tap takes the lease of s; its controller will start its loop.       *)
Takes(s, state) ==
    /\ shared' = s /\ finishing' = FALSE /\ punctual' = TRUE
    /\ view' = [view EXCEPT ![s].state = state]
    /\ left' = FirstLease /\ patience' = FirstSampleLimit /\ cleanup' = CleanupLimit
    /\ Goes(s, "renew")

Inject(s) ==
    /\ ctl[s] = "holding" /\ s \notin gone /\ explorer = "up" /\ ~broker /\ ~once
    /\ broker' = TRUE /\ once' = TRUE
    /\ Takes(s, "attached")
    /\ UNCHANGED <<clientVars, clean, gone, renewed, viewStop, explorer, inbox, dirty>>

(* Nothing is attached: the Explorer found first is gone, it was attached  *)
(* to before, a file or an interface is missing, or SetSite refuses, which *)
(* it may do after the event was opened for good.                          *)
AttachFails(s) ==
    /\ ctl[s] = "holding"
    /\ (s \in gone \/ (~broker /\ once) \/ "attach" \in Faults)
    /\ Fails(s)
    /\ once' \in IF s \in gone \/ broker THEN {once} ELSE {once, TRUE}
    /\ UNCHANGED <<clientVars, gone, patience, cleanup, renewed, viewVars,
                   explorer, broker, inbox, tapVars>>

(* SendMessageTimeout gives up; the message may or may not be withdrawn.   *)
SendTimesOut(s) ==
    /\ ctl[s] = "sending"
    /\ Fails(s) /\ viewStop' = viewStop \cup {s}
    /\ inbox' \in {inbox, inbox \ {s}}
    /\ UNCHANGED <<clientVars, gone, patience, cleanup, renewed, view, left,
                   explorer, broker, once, tapVars>>

(* The head of the loop: stop the tap for a dead client, a stale tap or a  *)
(* session of a day, and give up when the undo is not seen in time; else   *)
(* renew, unless stop was ever set.                                        *)
Unhealthy(s) == ~ClientAlive(s) \/ patience = 0

Prolong(s) ==
    /\ left' = IF shared = s THEN Renewal ELSE left
    /\ renewed' = renewed \cup {s}

Renew(s) ==
    /\ ctl[s] = "renew"
    /\ \/ /\ Unhealthy(s) /\ s \in viewStop /\ cleanup = 0
          /\ Fails(s)
          /\ UNCHANGED <<viewStop, left, renewed>>
       \/ /\ (Unhealthy(s) \/ ("day" \in Faults /\ s \notin viewStop))
          /\ (s \in viewStop => cleanup > 0)
          /\ Goes(s, "report") /\ viewStop' = viewStop \cup {s}
          /\ UNCHANGED <<clean, left, renewed>>
       \/ /\ ~Unhealthy(s)
          /\ Goes(s, "report")
          /\ IF s \in viewStop THEN UNCHANGED <<left, renewed>> ELSE Prolong(s)
          /\ UNCHANGED <<clean, viewStop>>
    /\ UNCHANGED <<clientVars, gone, patience, cleanup, view, linkVars, tapVars>>

ReportClient(s) ==
    /\ ctl[s] = "report"
    /\ Goes(s, "check")
    /\ client' = [client EXCEPT ![s] = view[s]]
    /\ UNCHANGED <<owner, clientStop, age, clean, gone, patience, cleanup, renewed, viewVars,
                   linkVars, tapVars>>

(* The end of the loop.  The last report does not copy the writes again.   *)
Check(s) ==
    /\ ctl[s] = "check"
    /\ \/ /\ view[s].state = "closed"
          /\ client' = [client EXCEPT ![s] = [view[s] EXCEPT !.writes = client[s].writes]]
          /\ Goes(s, "leaving")
          /\ UNCHANGED <<clean, viewStop>>
       \/ /\ view[s].state # "closed" /\ (view[s].state = "failed" \/ s \in gone)
          /\ Fails(s) /\ viewStop' = viewStop \cup {s}
          /\ UNCHANGED client
       \/ /\ view[s].state \notin {"closed", "failed"} /\ s \notin gone
          /\ Goes(s, "renew")
          /\ UNCHANGED <<clean, client, viewStop>>
    /\ UNCHANGED <<owner, clientStop, age, gone, patience, cleanup, renewed, view, left,
                   linkVars, tapVars>>

(* The process ends after its last report.                                 *)
Leave(s) ==
    /\ ctl[s] = "leaving"
    /\ Goes(s, "exited")
    /\ clean' = IF view[s].failures = 0 THEN clean \cup {s} ELSE clean
    /\ viewStop' = viewStop \cup {s}
    /\ UNCHANGED <<clientVars, gone, patience, cleanup, renewed, view, left, linkVars, tapVars>>

(* The controller is killed: nothing is written any more.                  *)
Killed(s) ==
    /\ "killed" \in Faults /\ ctl[s] \notin {"none", "exited"}
    /\ Fails(s)
    /\ UNCHANGED <<clientVars, gone, patience, cleanup, renewed, viewVars, linkVars, tapVars>>

-----------------------------------------------------------------------------
(* The tap, on Explorer's UI thread.  Its stopping_ is TRUE exactly while  *)
(* it holds no lease or kFinish is posted.                                 *)

Serving == explorer = "up" /\ shared # None /\ ~finishing

(* Mutant: the state stays "restored", nothing closes the lease.           *)
TapStopUnclosed(overridden, undone) ==
    LET failed == overridden /\ ~undone
        after == [view[shared] EXCEPT
                     !.restores = IF overridden /\ undone THEN 1 ELSE @,
                     !.failures = IF failed THEN 1 ELSE @,
                     !.state = IF failed THEN "failed" ELSE "restored"]
    IN  /\ dirty' = IF failed THEN shared ELSE None
        /\ finishing' = failed
        /\ shared' = IF failed THEN shared ELSE None
        /\ view' = [view EXCEPT ![shared] = after]

(* Tap::Stop: undo an override, count how it went, and drop the lease; the *)
(* connection stays, unless the undo failed: then the window goes too.     *)
TapStop(overridden, undone) ==
    LET failed == overridden /\ ~undone
        after == [view[shared] EXCEPT
                     !.restores = IF overridden /\ undone THEN 1 ELSE @,
                     !.failures = IF failed THEN 1 ELSE @,
                     !.state = IF failed THEN "failed" ELSE "closed"]
    IN  /\ dirty' = IF failed THEN shared ELSE None
        /\ finishing' = failed
        /\ shared' = IF failed THEN shared ELSE None
        /\ view' = [view EXCEPT ![shared] = after]

(* How an undo may end.                                                    *)
Undos == IF "restore" \in Faults THEN BOOLEAN ELSE {TRUE}

(* The lease is over: stop is set, the controller is dead, or time is up.  *)
LeaseOver(s) == s \in viewStop \/ ctl[s] = "exited" \/ left = 0

(* The container's full width is known and stable: override it.            *)
Apply ==
    /\ view[shared].state = "observing"
    /\ dirty' = shared
    /\ view' = [view EXCEPT ![shared] = [@ EXCEPT !.writes = 1, !.state = "reserved"]]
    /\ UNCHANGED <<shared, finishing>>

TapTick ==
    /\ Serving
    /\ punctual' = TRUE
    /\ \/ /\ LeaseOver(shared)
          /\ \E undone \in Undos : TapStop(dirty # None, undone)
          /\ UNCHANGED patience
       \/ /\ ~LeaseOver(shared) /\ view[shared].state = "attached"
          /\ UNCHANGED <<patience, view, shared, finishing, dirty>>
       \/ /\ ~LeaseOver(shared) /\ view[shared].state # "attached"
          /\ patience' = SampleLimit
          /\ (Apply \/ UNCHANGED <<view, shared, finishing, dirty>>)
       \/ \* the container is lost, or an exception: the width may be half written
          /\ "layout" \in Faults
          /\ ~LeaseOver(shared) /\ view[shared].state # "attached"
          /\ \E overridden \in {dirty # None, TRUE}, undone \in Undos : TapStop(overridden, undone)
          /\ UNCHANGED patience
    /\ UNCHANGED <<clientVars, ctl, clean, gone, cleanup, renewed, viewStop, left, linkVars>>

(* kReady: the first lease is observed from now on.                        *)
TapReady ==
    /\ Serving /\ view[shared].state = "attached"
    /\ view' = [view EXCEPT ![shared].state = "observing"]
    /\ UNCHANGED <<clientVars, ctlVars, viewStop, left, linkVars, tapVars>>

(* kFinish, after a failed undo: the lease is dropped, the window goes.    *)
TapFinish ==
    /\ explorer = "up" /\ finishing
    /\ finishing' = FALSE /\ shared' = None /\ broker' = FALSE /\ inbox' = {}
    /\ UNCHANGED <<clientVars, ctlVars, viewVars, explorer, once, dirty, punctual>>

(* Mutant: the lease that is held is not asked for.                        *)
CanOpenTaken(s) == ctl[s] # "exited"

(* WM_COPYDATA: OpenLease, if none is held and the sender's mapping exists. *)
CanOpen(s) == shared = None /\ ctl[s] # "exited"

(* Mutant: the answer is there, whatever it says (&& accepted is dropped). *)
RefuseLeaseUnread(s) ==
    /\ IF ctl[s] = "exited" THEN UNCHANGED ctl ELSE Goes(s, "renew")
    /\ UNCHANGED <<clean, viewStop, shared, finishing, punctual, view, left, patience, cleanup>>

(* A lease that is not taken is refused, if its sender still waits.        *)
RefuseLease(s) ==
    /\ IF ctl[s] = "exited" THEN UNCHANGED <<ctl, clean, viewStop>>
       ELSE Fails(s) /\ viewStop' = viewStop \cup {s}
    /\ UNCHANGED <<shared, finishing, punctual, view, left, patience, cleanup>>

OpenLease(s) ==
    /\ explorer = "up" /\ s \in inbox
    /\ inbox' = inbox \ {s}
    /\ IF CanOpen(s) THEN Takes(s, "observing") /\ UNCHANGED <<clean, viewStop>>
       ELSE RefuseLease(s)
    /\ UNCHANGED <<clientVars, gone, renewed, explorer, broker, once, dirty>>

-----------------------------------------------------------------------------
(* Explorer and time.                                                      *)

(* Explorer dies, and with it the tap and the override.                    *)
ExplorerDies ==
    /\ "restart" \in Faults /\ explorer # "down"
    /\ explorer' = "down"
    /\ gone' = gone \cup {s \in Sessions : ctl[s] \in Holds \cup {"validated"}}
    /\ broker' = FALSE /\ once' = FALSE /\ inbox' = {}
    /\ shared' = None /\ finishing' = FALSE /\ dirty' = None /\ punctual' = FALSE
    /\ UNCHANGED <<clientVars, ctl, clean, patience, cleanup, renewed, viewVars>>

ExplorerHangs ==
    /\ "hung" \in Faults /\ explorer = "up"
    /\ explorer' = "hung"
    /\ UNCHANGED <<clientVars, ctlVars, viewVars, broker, once, inbox, tapVars>>

ExplorerAnswers ==
    /\ explorer = "hung"
    /\ explorer' = "up" /\ punctual' = FALSE
    /\ UNCHANGED <<clientVars, ctlVars, viewVars, broker, once, inbox, shared, finishing, dirty>>

Less(n) == IF n = 0 THEN 0 ELSE n - 1

LeaseElapses ==
    /\ (Serving => punctual)
    /\ punctual' = FALSE
    /\ age' = [s \in Sessions |-> IF age[s] = AgeCap THEN AgeCap ELSE age[s] + 1]
    /\ left' = Less(left) /\ patience' = Less(patience)
    /\ cleanup' = IF \E s \in viewStop : ctl[s] \in Loop THEN Less(cleanup) ELSE cleanup
    /\ UNCHANGED <<owner, client, clientStop, ctl, clean, gone, renewed, view, viewStop,
                   linkVars, shared, finishing, dirty>>

ControllerStep(s) ==
    \/ Validate(s) \/ Acquire(s) \/ SendLease(s) \/ Inject(s) \/ AttachFails(s)
    \/ SendTimesOut(s) \/ Renew(s) \/ ReportClient(s) \/ Check(s) \/ Leave(s)

LeaseNext ==
    \/ \E s \in Sessions : ControllerStep(s) \/ Killed(s) \/ OpenLease(s)
    \/ TapTick \/ TapReady \/ TapFinish
    \/ ExplorerDies \/ ExplorerHangs \/ ExplorerAnswers
=============================================================================
