------------------------------ MODULE ImeGuard ------------------------------
(***************************************************************************)
(* WindowMark's side of the lease of ImeLease: WinImeTrayGuard with its    *)
(* ime_guard::Client, the switch that settings.conf keeps, and the marker  *)
(* file that says an override may have been left behind.  The marker and   *)
(* the switch survive the process.                                         *)
(*                                                                         *)
(* All of it runs on the UI thread, so handlers do not interleave with     *)
(* each other; but the other processes go on while Client::Tick reads the  *)
(* client block and then asks whether the controller has exited, and the   *)
(* tick is split there.                                                    *)
(*                                                                         *)
(* What the members of the class have in common is kept once: the client   *)
(* is running (and hadLease_ is TRUE) exactly while owner is a session,    *)
(* and its stopping flag is clientStop.  recoverAt_ and recoverDeadline_   *)
(* are one timer that runs down to 0, the deadline.                        *)
(***************************************************************************)
EXTENDS ImeLease

CONSTANTS
    Reasons,            \* reasons to wait: the bits of suspended_
    RecoverDelay,       \* a layout must be stable for so long (2 s)
    RecoverWindow,      \* then recovery is tried for so long (30 s)
    ShutdownLimit       \* how long Shutdown waits for the undo (6.5 s)

ASSUME GuardAssumption ==
    RecoverDelay \in Nat /\ RecoverWindow \in Nat /\ ShutdownLimit \in Nat

VARIABLES
    app,                \* WindowMark is "down", "up" or "closing" (in Shutdown)
    session,            \* the session started last
    sampled,            \* the tick has read the block and not yet asked for the exit
    status,             \* what it has read
    requested,          \* the user wants the protection
    recovering,         \* a new session is to follow the one that is being undone
    suspended,          \* reasons to wait
    recoverLeft,        \* time to the deadline of recovery
    closeLeft,          \* time Shutdown still waits
    rebuilt,            \* TaskbarCreated is on its way
    marker,             \* the file active-session.lock exists
    enabled             \* ime_guard.enabled in settings.conf

processVars == <<app, suspended, closeLeft, rebuilt>>
tickVars    == <<sampled, status>>
wishVars    == <<requested, recovering, recoverLeft, enabled>>
guardVars   == <<processVars, tickVars, wishVars, session, marker>>
vars == <<leaseVars, guardVars>>

Running == owner # None

TypeOK ==
    /\ LeaseTypeOK
    /\ app \in {"down", "up", "closing"} /\ suspended \subseteq Reasons
    /\ closeLeft \in Nat /\ rebuilt \in BOOLEAN
    /\ sampled \in BOOLEAN /\ status \in Report
    /\ requested \in BOOLEAN /\ recovering \in BOOLEAN
    /\ recoverLeft \in Nat /\ enabled \in BOOLEAN
    /\ session \in Sessions \cup {None} /\ marker \in BOOLEAN

Init ==
    /\ LeaseInit
    /\ app = "down" /\ suspended = {} /\ closeLeft = 0 /\ rebuilt = FALSE
    /\ sampled = FALSE /\ status = NoReport
    /\ requested = FALSE /\ recovering = FALSE /\ recoverLeft = 0 /\ enabled \in BOOLEAN
    /\ session = None /\ marker = FALSE

-----------------------------------------------------------------------------
(* Pieces of the handlers.                                                 *)

(* SetRequested: a change is saved, unless Shutdown has cut the callback.  *)
SetRequested(value) ==
    /\ requested' = value
    /\ enabled' = IF value # requested /\ app = "up" THEN value ELSE enabled

(* Client::Stop.                                                           *)
StopClient == clientStop' = IF Running THEN clientStop \cup {owner} ELSE clientStop

EndRecovery == recovering' = FALSE /\ recoverLeft' = 0

Restore == EndRecovery /\ SetRequested(FALSE) /\ StopClient

RecoverLayout ==
    IF requested
    THEN /\ recovering' = TRUE /\ recoverLeft' = RecoverDelay + RecoverWindow
         /\ StopClient
         /\ UNCHANGED <<requested, enabled>>
    ELSE UNCHANGED <<wishVars, clientStop>>

(* Compatibility: there is a taskbar.                                      *)
Compatible == explorer # "down"

(* An automatic start is barred while a marker is there.                   *)
Barred(automatic, file) == automatic /\ file

(* Mutant: the marker is written by whoever finds that it is needed.       *)
StartsUnmarked(automatic, file) ==
    /\ Compatible /\ ~Barred(automatic, file)
    /\ session < MaxSessions
    /\ session' = session + 1 /\ owner' = session + 1
    /\ Goes(session + 1, "starting")
    /\ age' = [age EXCEPT ![session + 1] = 0]
    /\ marker' = file
    /\ EndRecovery

(* Enable, up to Client::Start; file says whether the marker exists.       *)
Starts(automatic, file) ==
    /\ Compatible /\ ~Barred(automatic, file)
    /\ session < MaxSessions
    /\ session' = session + 1 /\ owner' = session + 1
    /\ Goes(session + 1, "starting")
    /\ age' = [age EXCEPT ![session + 1] = 0]
    /\ marker' = TRUE
    /\ EndRecovery

(* Enable is refused, or a copy, the marker or the process fails: then the *)
(* marker may have been written.                                           *)
Refused(automatic, file) ==
    /\ \/ (~Compatible \/ Barred(automatic, file)) /\ marker' = file
       \/ "prepare" \in Faults /\ ~Barred(automatic, file) /\ marker' \in {file, TRUE}
    /\ owner' = None
    /\ EndRecovery
    /\ UNCHANGED <<session, ctl, age>>

(* What Enable leaves alone, besides wishVars.                             *)
EnableFrame == UNCHANGED <<client, clientStop, clean, gone, patience, cleanup, renewed,
                           viewVars, linkVars, tapVars, status>>

(* What the handlers of messages leave alone.                              *)
Frame == UNCHANGED <<owner, client, age, ctlVars, viewVars, linkVars, tapVars,
                     tickVars, session, marker>>

-----------------------------------------------------------------------------
(* The process and its user.                                               *)

Free == app = "up" /\ ~sampled

StartApp ==
    /\ app = "down"
    /\ app' = "up"
    /\ \/ /\ ~enabled
          /\ UNCHANGED <<owner, age, ctl, wishVars, session, marker>>
       \/ /\ enabled /\ Starts(TRUE, marker)
          /\ requested' = TRUE /\ UNCHANGED enabled
       \/ /\ enabled /\ Refused(TRUE, marker)
          /\ enabled' = FALSE /\ UNCHANGED requested
    /\ EnableFrame /\ UNCHANGED <<suspended, closeLeft, rebuilt, sampled>>

(* Enable asks for the earlier session to have ended.                      *)
TogglesOn ==
    /\ Free /\ ~requested /\ ~Running
    /\ \/ Starts(FALSE, marker) /\ SetRequested(TRUE)
       \/ Refused(FALSE, marker) /\ SetRequested(FALSE)
    /\ EnableFrame /\ UNCHANGED <<processVars, sampled>>

TogglesOff ==
    /\ Free /\ (requested \/ Running)
    /\ Restore
    /\ Frame /\ UNCHANGED processVars

(* Broadcasts: the layout, the session and power state, a new taskbar.     *)
LayoutChanges ==
    /\ Free /\ requested
    /\ RecoverLayout
    /\ Frame /\ UNCHANGED processVars

Suspends(r) ==
    /\ Free /\ r \notin suspended
    /\ suspended' = suspended \cup {r} /\ RecoverLayout
    /\ Frame /\ UNCHANGED <<app, closeLeft, rebuilt>>

Resumes(r) ==
    /\ Free /\ r \in suspended
    /\ suspended' = suspended \ {r} /\ RecoverLayout
    /\ Frame /\ UNCHANGED <<app, closeLeft, rebuilt>>

ExplorerStarts ==
    /\ explorer = "down"
    /\ explorer' = "up" /\ rebuilt' = (app # "down")
    /\ UNCHANGED <<clientVars, ctlVars, viewVars, broker, once, inbox, tapVars>>
    /\ UNCHANGED <<app, suspended, closeLeft, tickVars, wishVars, session, marker>>

(* Pause: nothing is done if there is neither a wish nor a session.        *)
TaskbarCreated ==
    /\ Free /\ rebuilt
    /\ rebuilt' = FALSE
    /\ Restore
    /\ Frame /\ UNCHANGED <<app, suspended, closeLeft>>

(* Shutdown: the callback is cut before Restore, so the wish is kept.      *)
Closes ==
    /\ Free
    /\ app' = "closing" /\ closeLeft' = ShutdownLimit
    /\ EndRecovery /\ requested' = FALSE /\ UNCHANGED enabled
    /\ StopClient
    /\ Frame /\ UNCHANGED <<suspended, rebuilt>>

Vanishes ==
    /\ app' = "down" /\ suspended' = {} /\ closeLeft' = 0 /\ rebuilt' = FALSE
    /\ sampled' = FALSE /\ status' = NoReport
    /\ EndRecovery /\ requested' = FALSE
    /\ owner' = None
    /\ UNCHANGED <<client, clientStop, age, ctlVars, viewVars, linkVars, tapVars,
                   session, marker, enabled>>

AppExits ==
    /\ app = "closing" /\ ~sampled /\ (~Running \/ closeLeft = 0)
    /\ Vanishes

AppCrashes == "crash" \in Faults /\ app # "down" /\ Vanishes

-----------------------------------------------------------------------------
(* The 250 ms timer: Client::Tick, then WinImeTrayGuard::Tick.             *)

TickReads ==
    /\ app # "down" /\ ~sampled /\ Running
    /\ sampled' = TRUE /\ status' = client[owner]
    /\ age' = IF owner \in clientStop THEN age ELSE [age EXCEPT ![owner] = 0]
    /\ UNCHANGED <<owner, client, clientStop, ctlVars, viewVars, linkVars, tapVars>>
    /\ UNCHANGED <<processVars, wishVars, session, marker>>

(* The controller still runs: give up after a failed undo; else look at    *)
(* the taskbar, whose scale or monitor may have changed.                   *)
TickGoesOn ==
    /\ sampled /\ ctl[owner] # "exited"
    /\ sampled' = FALSE /\ status' = NoReport
    /\ \/ status.failures > 0 /\ Restore
       \/ status.failures = 0 /\ owner \notin clientStop /\ ~recovering /\ RecoverLayout
       \/ status.failures = 0 /\ UNCHANGED <<wishVars, clientStop>>
    /\ UNCHANGED <<owner, client, age, ctlVars, viewVars, linkVars, tapVars>>
    /\ UNCHANGED <<processVars, session, marker>>

(* Mutant: the wish outlives its session.                                  *)
EndsWishing(file) ==
    /\ EndRecovery /\ UNCHANGED <<requested, enabled>>
    /\ marker' = file /\ owner' = None
    /\ UNCHANGED <<session, ctl, age>>

(* No session is left and none is to follow.                               *)
Ends(file) ==
    /\ EndRecovery /\ SetRequested(FALSE)
    /\ marker' = file /\ owner' = None
    /\ UNCHANGED <<session, ctl, age>>

(* Recovery waits, is given up at its deadline, or starts a session once   *)
(* the layout has been stable.  Bound: after the last session it waits.    *)
Recover(file) ==
    LET due  == requested /\ suspended = {}
        ripe == due /\ recoverLeft \in 1 .. RecoverWindow /\ Compatible
    IN
    \/ /\ (~ripe /\ (due => recoverLeft > 0)) \/ (ripe /\ session = MaxSessions)
       /\ marker' = file /\ owner' = None
       /\ UNCHANGED <<session, ctl, age, wishVars>>
    \/ due /\ recoverLeft = 0 /\ Ends(file)
    \/ ripe /\ Starts(TRUE, file) /\ SetRequested(TRUE)
    \/ ripe /\ Refused(TRUE, file) /\ SetRequested(FALSE)

(* Mutant: no failed undo was reported, so it was undone.                  *)
RestoredUnlessFailed == status.failures = 0

(* ImeGuardRestored, on the report that was read before the exit code.     *)
Restored ==
    /\ owner \in clean
    /\ status.state = "closed" /\ status.writes = status.restores /\ status.failures = 0

(* The controller has exited: a confirmed undo removes the marker, and     *)
(* only then may recovery go on.  The removal may fail.                    *)
TickEnds ==
    /\ sampled /\ ctl[owner] = "exited"
    /\ sampled' = FALSE /\ status' = NoReport
    /\ \/ Restored /\ recovering /\ Recover(FALSE)
       \/ Restored /\ ~recovering /\ Ends(FALSE)
       \/ (~Restored \/ "prepare" \in Faults) /\ Ends(marker)
    /\ UNCHANGED <<client, clientStop, clean, gone, patience, cleanup, renewed,
                   viewVars, linkVars, tapVars, processVars>>

(* A tick without a controller.                                            *)
TickIdle ==
    /\ Free /\ ~Running /\ recovering
    /\ Recover(marker)
    /\ EnableFrame /\ UNCHANGED <<processVars, sampled>>

-----------------------------------------------------------------------------
Elapse ==
    /\ LeaseElapses
    /\ recoverLeft' = Less(recoverLeft) /\ closeLeft' = Less(closeLeft)
    /\ UNCHANGED <<app, suspended, rebuilt, tickVars, requested, recovering, enabled,
                   session, marker>>

Next ==
    \/ LeaseNext /\ UNCHANGED guardVars
    \/ StartApp \/ TogglesOn \/ TogglesOff \/ LayoutChanges \/ TaskbarCreated
    \/ \E r \in Reasons : Suspends(r) \/ Resumes(r)
    \/ ExplorerStarts \/ Closes \/ AppExits \/ AppCrashes
    \/ TickReads \/ TickGoesOn \/ TickEnds \/ TickIdle
    \/ Elapse

Spec == Init /\ [][Next]_vars

-----------------------------------------------------------------------------
(* Safety.                                                                 *)

(* The overrides that the marker speaks for.  Not among them is that of an *)
(* earlier session whose controller attached only after its WindowMark was *)
(* gone, and so never renewed: the marker is then another session's.       *)
Standing == dirty # None /\ (dirty = session \/ dirty \in renewed)

(* While an override stands the marker file exists, whoever has crashed in *)
(* between: the next start must not attach on its own.                     *)
OverrideIsMarked == Standing => marker

(* An override that was ever renewed ends within HeartbeatLimit + Renewal  *)
(* of the last heartbeat of the UI thread, as long as Explorer responds:   *)
(* whatever the controller does, hung or killed, it cannot prolong it.     *)
LeaseBound ==
    dirty # None /\ Serving /\ shared \in renewed /\ punctual
        => age[shared] <= HeartbeatLimit + Renewal

(* A controller in its loop holds the tap's lease, or the tap has ended    *)
(* that lease, or its Explorer is gone: no two controllers drive the tap.  *)
DriverHasLease ==
    \A s \in Sessions : ctl[s] \in Loop /\ s \notin gone =>
        shared = s \/ view[s].state \in {"closed", "failed"}

(* A wish is served: between two handlers, protection that is requested    *)
(* has a session or is waiting for the next one.                           *)
RequestIsServed == Free /\ requested => Running \/ recovering

(* Recovery connects again only after the earlier override is undone: no   *)
(* session starts on its own over the width that another one has written.  *)
RecoversAfterUndo == [][requested /\ session' # session => ~Standing]_vars

(* The sessions that were lent the container and that have given it back,  *)
(* and the one that has it: a tap that waits for kFinish after a failed    *)
(* undo holds its lease in name only.                                      *)
Lent == {s \in Sessions : view[s].state # "none"}
GivenBack == {s \in Sessions : view[s].state = "closed"}
Holder == IF finishing THEN None ELSE shared

Promise == INSTANCE TrayPromise WITH
    Bound <- HeartbeatLimit + Renewal,
    running <- app # "down", asked <- requested, latest <- session, marked <- marker,
    quiet <- age, given <- Lent, confirmed <- renewed, held <- Holder, widened <- dirty,
    closed <- GivenBack, answers <- explorer = "up"

(* Each step of the three processes is a step of TrayPromise, or none: the *)
(* container is lent and changed, the marker comes and goes and time       *)
(* passes only as it is promised there.                                    *)
ImplementsPromise == Promise!PromiseSpec
=============================================================================
