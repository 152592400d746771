---------------------------- MODULE ImeGuard_proofs ----------------------------
(***************************************************************************)
(* Theorems about ImeGuard, for every value of the constants: how long an  *)
(* override outlives the heartbeat, that a wish is served, that overrides  *)
(* are marked and the tap has one driver, and that the three processes     *)
(* together implement TrayPromise.                                         *)
(***************************************************************************)
EXTENDS ImeGuard, TLAPS

Places == {"none", "starting", "validated", "exited"} \cup Holds

(* The types of what the bound depends on.                                 *)
BoundTypes ==
    /\ age \in [Sessions -> Nat] /\ ctl \in [Sessions -> Places] /\ left \in Nat
    /\ renewed \subseteq Sessions /\ inbox \subseteq Sessions
    /\ session \in Nat /\ shared \in Sessions \cup {None}

(* No controller runs for a session that was not started.                  *)
LaterSessionsAreNew == \A s \in Sessions : s > session => ctl[s] = "none"

(* A controller that is still to attach has not renewed ...                *)
Attaching == {"none", "starting", "validated", "holding", "sending"}
NotRenewedYet == \A s \in renewed : ctl[s] \notin Attaching

(* ... and a message under way is that of one that waits, or has ended.    *)
SenderWaits == \A s \in inbox : ctl[s] \in {"sending", "exited"}

(* A renewed lease ends, or has ended, within the bound: renewing sets     *)
(* left to Renewal when age is at most HeartbeatLimit, from then on left   *)
(* falls as age grows, and only a heartbeat makes age smaller.             *)
RenewedEnds ==
    shared \in renewed => left = 0 \/ left + age[shared] <= HeartbeatLimit + Renewal

(* The tap has looked at the time left since the last unit of time.        *)
OnTime ==
    Serving /\ punctual /\ shared \in renewed => age[shared] <= HeartbeatLimit + Renewal

(* The lease is gone with its Explorer.                                    *)
DownHoldsNone == explorer = "down" => shared = None

BoundInv ==
    /\ BoundTypes /\ LaterSessionsAreNew /\ NotRenewedYet /\ SenderWaits
    /\ RenewedEnds /\ OnTime /\ DownHoldsNone

(* It holds before WindowMark has started.                                *)
LEMMA BoundInit == Init => BoundInv
  <1> SUFFICES ASSUME Init PROVE BoundInv
    OBVIOUS
  <1>1. BoundTypes
    BY LeaseAssumption DEF Init, LeaseInit, BoundTypes, Places, None, Sessions, AgeCap
  <1>2. LaterSessionsAreNew
    BY DEF Init, LeaseInit, LaterSessionsAreNew
  <1> QED
    BY <1>1, <1>2 DEF Init, LeaseInit, BoundInv, NotRenewedYet, SenderWaits, RenewedEnds, OnTime,
         DownHoldsNone

(* A step that touches nothing of the bound.                               *)
LEMMA BoundUntouched ==
    ASSUME BoundInv,
           UNCHANGED <<age, ctl, left, renewed, inbox, session, shared, finishing, explorer, punctual>>
    PROVE  BoundInv'
  BY DEF BoundInv, BoundTypes, LaterSessionsAreNew, NotRenewedYet, SenderWaits,
           RenewedEnds, OnTime, DownHoldsNone,
         Serving

(* The controller of a session.                                            *)
LEMMA BoundController ==
    ASSUME BoundInv, NEW s \in Sessions, ControllerStep(s) \/ Killed(s) \/ OpenLease(s),
           UNCHANGED guardVars
    PROVE  BoundInv'
  <1> USE DEF BoundInv, BoundTypes, LaterSessionsAreNew, NotRenewedYet, SenderWaits,
           RenewedEnds, OnTime, DownHoldsNone,
                   Attaching, Places, Holds, Loop, Serving, None, Sessions,
              Goes, Fails, clientVars, ctlVars, viewVars, linkVars, tapVars, guardVars
  <1>1. CASE Validate(s)
    BY <1>1, LeaseAssumption DEF Validate
  <1>2. CASE Acquire(s)
    BY <1>2, LeaseAssumption DEF Acquire
  <1>3. CASE SendLease(s)
    BY <1>3, LeaseAssumption DEF SendLease
  <1>4. CASE Inject(s)
    BY <1>4, LeaseAssumption DEF Inject, Takes
  <1>5. CASE AttachFails(s)
    BY <1>5, LeaseAssumption DEF AttachFails
  <1>6. CASE SendTimesOut(s)
    BY <1>6, LeaseAssumption DEF SendTimesOut
  <1>7. CASE Renew(s)
    <2>1. ctl[s] = "renew" /\ UNCHANGED <<age, inbox, session, shared, finishing, explorer, punctual>>
      BY <1>7 DEF Renew
    <2>2. CASE UNCHANGED <<left, renewed>>
      <3>1. PICK place \in {"report", "exited"} : ctl' = [ctl EXCEPT ![s] = place]
        BY <1>7 DEF Renew
      <3> QED
        BY <2>1, <2>2, <3>1
    <2>3. CASE Prolong(s) /\ ClientAlive(s) /\ Goes(s, "report")
      <3>1. age[s] <= HeartbeatLimit /\ renewed' = renewed \cup {s}
        BY <2>3 DEF Prolong, ClientAlive
      <3>2. left' = IF shared = s THEN Renewal ELSE left
        BY <2>3 DEF Prolong
      <3>3. BoundTypes' /\ LaterSessionsAreNew' /\ NotRenewedYet' /\ SenderWaits'
        BY <2>1, <2>3, <3>1, <3>2, LeaseAssumption
      <3>4. RenewedEnds'
        BY <2>1, <3>1, <3>2, LeaseAssumption
      <3>5. OnTime'
        BY <2>1, <3>1, LeaseAssumption
      <3>6. DownHoldsNone'
        BY <2>1
      <3> QED
        BY <3>3, <3>4, <3>5, <3>6
    <2> QED
      BY <1>7, <2>2, <2>3 DEF Renew, Unhealthy
  <1>8. CASE ReportClient(s)
    BY <1>8, LeaseAssumption DEF ReportClient
  <1>9. CASE Check(s)
    BY <1>9, LeaseAssumption DEF Check
  <1>10. CASE Leave(s)
    BY <1>10, LeaseAssumption DEF Leave
  <1>11. CASE Killed(s)
    BY <1>11, LeaseAssumption DEF Killed
  <1>12. CASE OpenLease(s)
    BY <1>12, LeaseAssumption DEF OpenLease, CanOpen, RefuseLease, Takes
  <1> QED
    BY <1>1, <1>2, <1>3, <1>4, <1>5, <1>6, <1>7, <1>8, <1>9, <1>10, <1>11, <1>12 DEF ControllerStep

(* The tap, Explorer and time.  A tick of the tap that finds no time left  *)
(* drops the lease or is finishing; else age is within the bound.          *)
LEMMA BoundTap ==
    ASSUME BoundInv, TapTick \/ TapReady \/ TapFinish, UNCHANGED guardVars
    PROVE  BoundInv'
  <1> USE DEF BoundInv, BoundTypes, LaterSessionsAreNew, NotRenewedYet, SenderWaits,
           RenewedEnds, OnTime, DownHoldsNone,
                   Attaching, Places, Holds, Loop, Serving, None, Sessions,
              clientVars, ctlVars, viewVars, linkVars, tapVars, guardVars
  <1>1. CASE TapTick
    <2>1. /\ UNCHANGED <<age, ctl, left, renewed, inbox, session, explorer>>
          /\ Serving /\ shared \in Sessions
      BY <1>1 DEF TapTick
    <2>2. CASE \E overridden, undone : TapStop(overridden, undone)
      <3>1. shared' \in {shared, None} /\ (shared' = None \/ finishing')
        BY <2>2 DEF TapStop
      <3> QED
        BY <2>1, <3>1
    <2>3. CASE ~LeaseOver(shared) /\ UNCHANGED <<shared, finishing>>
      <3>1. left # 0
        BY <2>3 DEF LeaseOver
      <3>2. shared \in renewed => age[shared] <= HeartbeatLimit + Renewal
        BY <2>1, <3>1, LeaseAssumption
      <3> QED
        BY <2>1, <2>3, <3>2
    <2> QED
      BY <1>1, <2>2, <2>3 DEF TapTick, Apply
  <1>2. CASE TapReady
    BY <1>2, BoundUntouched DEF TapReady
  <1>3. CASE TapFinish
    BY <1>3 DEF TapFinish
  <1> QED
    BY <1>1, <1>2, <1>3

(* Explorer takes the lease with it, or stops looking at it.               *)
LEMMA BoundExplorer ==
    ASSUME BoundInv, ExplorerDies \/ ExplorerHangs \/ ExplorerAnswers, UNCHANGED guardVars
    PROVE  BoundInv'
  <1> USE DEF BoundInv, BoundTypes, LaterSessionsAreNew, NotRenewedYet, SenderWaits,
           RenewedEnds, OnTime, DownHoldsNone,
                   Attaching, Places, Holds, Loop, Serving, None, Sessions,
              clientVars, ctlVars, viewVars, linkVars, tapVars, guardVars
  <1>1. CASE ExplorerDies
    <2>1. shared' = None /\ inbox' = {} /\ UNCHANGED <<age, ctl, left, renewed, session>>
      BY <1>1 DEF ExplorerDies
    <2>2. BoundTypes' /\ LaterSessionsAreNew' /\ NotRenewedYet' /\ SenderWaits'
      BY <2>1
    <2>3. shared' \notin renewed' /\ DownHoldsNone'
      BY <2>1
    <2> QED
      BY <2>2, <2>3
  <1>2. CASE ExplorerHangs
    BY <1>2 DEF ExplorerHangs
  <1>3. CASE ExplorerAnswers
    BY <1>3 DEF ExplorerAnswers
  <1> QED
    BY <1>1, <1>2, <1>3

(* A unit of time takes from left what it adds to age.                     *)
LEMMA BoundElapse ==
    ASSUME BoundInv, Elapse
    PROVE  BoundInv'
  BY LeaseAssumption
     DEF Elapse, LeaseElapses, Less, AgeCap, clientVars, viewVars, linkVars, tickVars,
         BoundInv, BoundTypes, LaterSessionsAreNew, NotRenewedYet, SenderWaits,
                  RenewedEnds, OnTime, DownHoldsNone,
                   Attaching, Places, Holds, Loop, Serving, None, Sessions

(* Enable starts a session whose controller has not run before.            *)
LEMMA BoundStarts ==
    ASSUME BoundInv, NEW automatic, NEW file, Starts(automatic, file),
           UNCHANGED <<left, renewed, inbox, shared, finishing, explorer, punctual>>
    PROVE  BoundInv'
  BY LeaseAssumption
     DEF Starts, Goes, BoundInv, BoundTypes, LaterSessionsAreNew, NotRenewedYet, SenderWaits,
         RenewedEnds, OnTime, DownHoldsNone, Attaching, Places, Holds, Loop, Serving, None, Sessions

(* The timer of WindowMark: a heartbeat lowers age, recovery starts anew.   *)
LEMMA BoundTick ==
    ASSUME BoundInv, TickReads \/ TickGoesOn \/ TickEnds \/ TickIdle
    PROVE  BoundInv'
  <1> USE DEF EnableFrame, clientVars, ctlVars, viewVars, linkVars, tapVars, processVars, wishVars
  <1>1. CASE TickReads
    <2>1. UNCHANGED <<ctl, left, renewed, inbox, session, shared, finishing, explorer, punctual>>
      BY <1>1 DEF TickReads
    <2>2. age' \in [Sessions -> Nat] /\ \A s \in Sessions : age'[s] <= age[s]
      <3>1. age \in [Sessions -> Nat]
        BY DEF BoundInv, BoundTypes
      <3>2. CASE age' = age
        BY <3>1, <3>2
      <3>3. CASE age' = [age EXCEPT ![owner] = 0]
        <4>1. \A s \in Sessions : age'[s] = IF s = owner THEN 0 ELSE age[s]
          BY <3>1, <3>3
        <4>2. age' \in [Sessions -> Nat]
          BY <3>1, <3>3
        <4> QED
          BY <3>1, <4>1, <4>2
      <3> QED
        BY <1>1, <3>2, <3>3 DEF TickReads
    <2>3. BoundTypes' /\ LaterSessionsAreNew' /\ NotRenewedYet' /\ SenderWaits' /\ DownHoldsNone'
      BY <2>1, <2>2
         DEF BoundInv, BoundTypes, LaterSessionsAreNew, NotRenewedYet, SenderWaits, DownHoldsNone
    <2>4. shared \in renewed => age'[shared] <= age[shared] /\ age'[shared] \in Nat /\ age[shared] \in Nat
      BY <2>2 DEF BoundInv, BoundTypes
    <2>5. RenewedEnds' /\ OnTime'
      BY <2>1, <2>4, LeaseAssumption DEF BoundInv, BoundTypes, RenewedEnds, OnTime, Serving
    <2> QED
      BY <2>3, <2>5 DEF BoundInv
  <1>2. CASE TickGoesOn
    BY <1>2, BoundUntouched DEF TickGoesOn
  <1>3. ASSUME NEW file, Recover(file),
               UNCHANGED <<left, renewed, inbox, shared, finishing, explorer, punctual>>
        PROVE  BoundInv'
    <2>1. CASE Starts(TRUE, file)
      BY <1>3, <2>1, BoundStarts
    <2>2. CASE UNCHANGED <<age, ctl, session>>
      BY <1>3, <2>2, BoundUntouched
    <2> QED
      BY <1>3, <2>1, <2>2 DEF Recover, Ends, Refused
  <1>4. CASE TickEnds
    <2>1. UNCHANGED <<left, renewed, inbox, shared, finishing, explorer, punctual>>
      BY <1>4 DEF TickEnds
    <2>2. CASE \E file : Ends(file)
      BY <2>1, <2>2, BoundUntouched DEF Ends
    <2> QED
      BY <1>3, <1>4, <2>1, <2>2 DEF TickEnds
  <1>5. CASE TickIdle
    BY <1>3, <1>5 DEF TickIdle
  <1> QED
    BY <1>1, <1>2, <1>4, <1>5

(* The other handlers of WindowMark, and the ends of its process.          *)
LEMMA BoundUser ==
    ASSUME BoundInv,
           \/ StartApp \/ TogglesOn \/ TogglesOff \/ LayoutChanges \/ TaskbarCreated
           \/ \E r \in Reasons : Suspends(r) \/ Resumes(r)
           \/ ExplorerStarts \/ Closes \/ AppExits \/ AppCrashes
    PROVE  BoundInv'
  <1> USE DEF EnableFrame, Frame, clientVars, ctlVars, viewVars, linkVars, tapVars, processVars, wishVars
  <1>1. CASE StartApp \/ TogglesOn
    <2>1. UNCHANGED <<left, renewed, inbox, shared, finishing, explorer, punctual>>
      BY <1>1 DEF StartApp, TogglesOn
    <2>2. CASE \E automatic : Starts(automatic, marker)
      BY <2>1, <2>2, BoundStarts
    <2>3. CASE UNCHANGED <<age, ctl, session>>
      BY <2>1, <2>3, BoundUntouched
    <2> QED
      BY <1>1, <2>2, <2>3 DEF StartApp, TogglesOn, Refused
  <1>2. CASE \/ TogglesOff \/ LayoutChanges \/ TaskbarCreated \/ Closes
             \/ \E r \in Reasons : Suspends(r) \/ Resumes(r)
    BY <1>2, BoundUntouched DEF TogglesOff, LayoutChanges, TaskbarCreated, Closes, Suspends, Resumes
  <1>3. CASE AppExits \/ AppCrashes
    BY <1>3, BoundUntouched DEF AppExits, AppCrashes, Vanishes
  <1>4. CASE ExplorerStarts
    BY <1>4 DEF ExplorerStarts, BoundInv, BoundTypes, LaterSessionsAreNew, NotRenewedYet,
                SenderWaits, RenewedEnds, OnTime, DownHoldsNone, Serving
  <1> QED
    BY <1>1, <1>2, <1>3, <1>4

LEMMA BoundStep == BoundInv /\ [Next]_vars => BoundInv'
  <1> SUFFICES ASSUME BoundInv, [Next]_vars PROVE BoundInv'
    OBVIOUS
  <1>1. CASE UNCHANGED vars
    BY <1>1, BoundUntouched DEF vars, leaseVars, guardVars, clientVars, ctlVars, viewVars, linkVars, tapVars
  <1>2. CASE LeaseNext /\ UNCHANGED guardVars
    BY <1>2, BoundController, BoundTap, BoundExplorer DEF LeaseNext
  <1> QED
    BY <1>1, <1>2, BoundUser, BoundTick, BoundElapse DEF Next

(* An override that was ever renewed ends within HeartbeatLimit + Renewal  *)
(* of the last heartbeat, however the three processes interleave, hang or  *)
(* die, and for any limits.                                                *)
THEOREM LeaseBounded == Spec => []LeaseBound
  <1>1. BoundInv => LeaseBound
    BY DEF BoundInv, OnTime, LeaseBound
  <1> QED
    BY BoundInit, BoundStep, <1>1, PTL DEF Spec

-----------------------------------------------------------------------------
(* Requests.                                                               *)

(* A wish has a session or waits for one, and does not outlive the process *)
(* (the switch in settings.conf does); sessions are numbers above None.    *)
WishInv ==
    /\ session \in Nat
    /\ requested => (Running \/ recovering) /\ app # "down"

(* Every way out of a session and of recovery takes the wish back.         *)
LEMMA WishKept == WishInv /\ [Next]_vars => WishInv'
  <1> SUFFICES ASSUME WishInv, [Next]_vars PROVE WishInv'
    OBVIOUS
  <1> USE DEF WishInv, Running, None
  <1>1. CASE UNCHANGED <<session, requested, owner, recovering, app>>
    BY <1>1
  <1>2. ASSUME NEW automatic, NEW file, Starts(automatic, file), requested' => app' # "down" PROVE WishInv'
    BY <1>2 DEF Starts
  <1>3. ASSUME NEW file, Recover(file), recovering, UNCHANGED app PROVE WishInv'
    <2>1. CASE UNCHANGED <<session, requested, recovering>>
      BY <1>3, <2>1
    <2>2. CASE UNCHANGED session /\ ~requested'
      BY <2>2
    <2>3. CASE Starts(TRUE, file) /\ requested
      BY <1>2, <1>3, <2>3
    <2>4. CASE Ends(file) \/ (Refused(TRUE, file) /\ SetRequested(FALSE))
      BY <2>2, <2>4 DEF Ends, Refused, SetRequested
    <2> QED
      BY <1>3, <2>1, <2>3, <2>4 DEF Recover, wishVars
  <1>4. CASE LeaseNext /\ UNCHANGED guardVars
    <2>1. UNCHANGED owner
      BY <1>4 DEF LeaseNext, ControllerStep, Validate, Acquire, SendLease, Inject, AttachFails,
                  SendTimesOut, Renew, ReportClient, Check, Leave, Killed, OpenLease, TapTick,
                  TapReady, TapFinish, ExplorerDies, ExplorerHangs, ExplorerAnswers, clientVars
    <2> QED
      BY <1>1, <1>4, <2>1 DEF guardVars, wishVars, processVars
  <1>5. CASE StartApp
    <2>1. CASE Starts(TRUE, marker)
      BY <1>2, <1>5, <2>1 DEF StartApp
    <2>2. CASE UNCHANGED <<session, requested>>
      BY <1>5, <2>2 DEF StartApp
    <2> QED
      BY <1>5, <2>1, <2>2 DEF StartApp, Refused, wishVars
  <1>6. CASE TogglesOn
    <2>1. CASE Starts(FALSE, marker)
      BY <1>2, <1>6, <2>1 DEF TogglesOn, Free, processVars
    <2>2. CASE UNCHANGED session /\ ~requested'
      BY <2>2
    <2> QED
      BY <1>6, <2>1, <2>2 DEF TogglesOn, Refused, SetRequested
  <1>7. CASE TogglesOff \/ TaskbarCreated \/ Closes
    BY <1>7 DEF TogglesOff, TaskbarCreated, Closes, Restore, SetRequested, Frame, processVars
  <1>8. CASE LayoutChanges \/ \E r \in Reasons : Suspends(r) \/ Resumes(r)
    BY <1>1, <1>8 DEF LayoutChanges, Suspends, Resumes, RecoverLayout, Frame, wishVars, processVars
  <1>9. CASE ExplorerStarts \/ TickReads \/ Elapse
    BY <1>1, <1>9 DEF ExplorerStarts, TickReads, Elapse, LeaseElapses, clientVars, wishVars, processVars
  <1>10. CASE AppExits \/ AppCrashes
    BY <1>10 DEF AppExits, AppCrashes, Vanishes
  <1>11. CASE TickGoesOn
    BY <1>1, <1>11 DEF TickGoesOn, Restore, SetRequested, RecoverLayout, wishVars, processVars
  <1>12. CASE TickEnds \/ TickIdle
    BY <1>3, <1>12 DEF TickEnds, TickIdle, Ends, SetRequested, processVars
  <1> QED
    BY <1>1, <1>4, <1>5, <1>6, <1>7, <1>8, <1>9, <1>10, <1>11, <1>12
       DEF Next, vars, leaseVars, clientVars, guardVars, wishVars, processVars

(* A wish is served, whatever becomes of the sessions: no path through the *)
(* handlers leaves protection requested with nothing under way.            *)
THEOREM RequestServed == Spec => []RequestIsServed
  <1>1. Init => WishInv
    BY DEF Init, WishInv, None
  <1>2. WishInv => RequestIsServed
    BY DEF WishInv, RequestIsServed
  <1> QED
    BY WishKept, <1>1, <1>2, PTL DEF Spec

-----------------------------------------------------------------------------
(* Types.  The lease's variables and the guard's, by what each step        *)
(* assigns; age needs no fairness of time, since it saturates.             *)
LEMMA TypesStart == Init => TypeOK
  <1> SUFFICES ASSUME Init PROVE TypeOK
    OBVIOUS
  <1>1. NoReport \in Report
    BY DEF NoReport, Report, States
  <1>2. AgeCap \in 0 .. AgeCap
    BY LeaseAssumption DEF AgeCap
  <1>3. LeaseTypeOK
    BY <1>1, <1>2 DEF Init, LeaseInit, LeaseTypeOK
  <1> QED
    BY <1>1, <1>3 DEF Init, TypeOK

LEMMA ControllerTypes ==
    ASSUME LeaseTypeOK, NEW s \in Sessions, ControllerStep(s) \/ Killed(s) \/ OpenLease(s)
    PROVE  LeaseTypeOK'
  <1> USE LeaseAssumption DEF LeaseTypeOK, Holds, Loop, None, Goes, Fails, Takes, Report, States,
          clientVars, ctlVars, viewVars, linkVars, tapVars
  <1>1. CASE Validate(s)
    BY <1>1 DEF Validate
  <1>2. CASE Acquire(s)
    BY <1>2 DEF Acquire
  <1>3. CASE SendLease(s)
    BY <1>3 DEF SendLease
  <1>4. CASE Inject(s)
    BY <1>4 DEF Inject
  <1>5. CASE AttachFails(s)
    BY <1>5 DEF AttachFails
  <1>6. CASE SendTimesOut(s)
    BY <1>6 DEF SendTimesOut
  <1>7. CASE Renew(s)
    BY <1>7 DEF Renew, Prolong
  <1>8. CASE ReportClient(s)
    BY <1>8 DEF ReportClient
  <1>9. CASE Check(s)
    <2>1. [view[s] EXCEPT !.writes = client[s].writes] \in Report
      OBVIOUS
    <2>2. client' \in [Sessions -> Report]
      BY <1>9, <2>1 DEF Check
    <2>3. ctl' \in [Sessions -> {"none", "starting", "validated", "exited"} \cup Holds]
      BY <1>9 DEF Check
    <2> QED
      BY <1>9, <2>2, <2>3 DEF Check
  <1>10. CASE Leave(s)
    BY <1>10 DEF Leave
  <1>11. CASE Killed(s)
    BY <1>11 DEF Killed
  <1>12. CASE OpenLease(s)
    <2>1. CASE Takes(s, "observing") /\ UNCHANGED <<clean, viewStop>>
      BY <1>12, <2>1 DEF OpenLease
    <2>2. CASE RefuseLease(s)
      BY <1>12, <2>2 DEF OpenLease, RefuseLease
    <2> QED
      BY <1>12, <2>1, <2>2 DEF OpenLease
  <1> QED
    BY <1>1, <1>2, <1>3, <1>4, <1>5, <1>6, <1>7, <1>8, <1>9, <1>10, <1>11, <1>12 DEF ControllerStep

LEMMA ReportChanged ==
    ASSUME NEW report \in Report, NEW n \in 0 .. 1, NEW m \in 0 .. 1, NEW state \in States
    PROVE  /\ [report EXCEPT !.restores = n, !.failures = m, !.state = state] \in Report
           /\ [report EXCEPT !.writes = n, !.state = state] \in Report
  BY DEF Report

LEMMA TapTypes ==
    ASSUME LeaseTypeOK,
           \/ TapTick \/ TapReady \/ TapFinish
           \/ ExplorerDies \/ ExplorerHangs \/ ExplorerAnswers
    PROVE  LeaseTypeOK'
  <1> USE LeaseAssumption DEF LeaseTypeOK, None, Report, States, Serving,
          clientVars, ctlVars, viewVars, linkVars, tapVars
  <1>1. CASE TapTick
    <2>1. /\ UNCHANGED <<clientVars, ctl, clean, gone, cleanup, renewed, viewStop, left, linkVars>>
          /\ punctual' = TRUE /\ shared \in Sessions /\ patience' \in {patience, SampleLimit}
      BY <1>1 DEF TapTick
    <2>2. ASSUME shared' \in {shared, None}, dirty' \in {shared, None}, finishing' \in BOOLEAN,
                 NEW report \in Report, view' = [view EXCEPT ![shared] = report]
          PROVE  LeaseTypeOK'
      <3>1. view' \in [Sessions -> Report]
        BY <2>2
      <3> QED
        BY <2>1, <2>2, <3>1
    <2>3. ASSUME NEW overridden, NEW undone, TapStop(overridden, undone) PROVE LeaseTypeOK'
      <3> DEFINE failed == overridden /\ ~undone
                 after == [view[shared] EXCEPT
                              !.restores = IF overridden /\ undone THEN 1 ELSE @,
                              !.failures = IF failed THEN 1 ELSE @,
                              !.state = IF failed THEN "failed" ELSE "closed"]
      <3>1. view' = [view EXCEPT ![shared] = after]
        BY <2>3 DEF TapStop
      <3>2. after \in Report
        <4>1. view[shared] \in Report /\ {view[shared].restores, view[shared].failures} \subseteq 0 .. 1
          BY <2>1
        <4>2. \A p \in BOOLEAN : {IF p THEN 1 ELSE view[shared].restores,
                                  IF p THEN 1 ELSE view[shared].failures} \subseteq 0 .. 1
          BY <4>1
        <4>3. (IF failed THEN "failed" ELSE "closed") \in States
          BY DEF States
        <4> HIDE DEF failed
        <4> USE DEF Report
        <4> QED
          BY <4>1, <4>2, <4>3, ReportChanged DEF failed
      <3>3. shared' \in {shared, None} /\ dirty' \in {shared, None} /\ finishing' = failed
        BY <2>3 DEF TapStop
      <3>4. finishing' \in BOOLEAN
        BY <3>3
      <3> HIDE DEF after, failed
      <3> QED
        BY <2>2, <3>1, <3>2, <3>3, <3>4
    <2>5. CASE Apply
      <3> DEFINE after == [view[shared] EXCEPT !.writes = 1, !.state = "reserved"]
      <3>1. after \in Report
        <4>1. view[shared] \in Report /\ 1 \in 0 .. 1 /\ "reserved" \in States
          BY <2>1 DEF States
        <4> QED
          BY <4>1, ReportChanged
      <3>2. view' = [view EXCEPT ![shared] = after]
        BY <2>5 DEF Apply
      <3>3. shared' = shared /\ dirty' = shared /\ finishing' = finishing
        BY <2>5 DEF Apply
      <3> HIDE DEF after
      <3> QED
        BY <2>2, <3>1, <3>2, <3>3
    <2>4. CASE UNCHANGED <<view, shared, finishing, dirty>>
      BY <2>1, <2>4
    <2> QED
      BY <1>1, <2>3, <2>4, <2>5 DEF TapTick
  <1>2. CASE TapReady
    BY <1>2 DEF TapReady
  <1>3. CASE TapFinish
    BY <1>3 DEF TapFinish
  <1>4. CASE ExplorerDies
    BY <1>4 DEF ExplorerDies
  <1>5. CASE ExplorerHangs \/ ExplorerAnswers
    BY <1>5 DEF ExplorerHangs, ExplorerAnswers
  <1> QED
    BY <1>1, <1>2, <1>3, <1>4, <1>5

LEMMA StartsTypes ==
    ASSUME LeaseTypeOK, session \in Sessions \cup {None}, NEW automatic, NEW file \in BOOLEAN,
           Starts(automatic, file),
           UNCHANGED <<client, clientStop, clean, gone, patience, cleanup, renewed, viewVars,
                       linkVars, tapVars>>
    PROVE  LeaseTypeOK' /\ session' \in Sessions /\ marker' \in BOOLEAN
  <1>1. session + 1 \in Sessions
    BY LeaseAssumption DEF Starts, Sessions, None
  <1>2. 0 \in 0 .. AgeCap
    BY LeaseAssumption DEF AgeCap
  <1> QED
    BY <1>1, <1>2 DEF Starts, LeaseTypeOK, Goes, viewVars, linkVars, tapVars

LEMMA GuardTypes ==
    ASSUME TypeOK, [Next]_vars
    PROVE  TypeOK'
  <1> USE DEF EnableFrame, Frame, clientVars, ctlVars, viewVars, linkVars, tapVars, processVars,
              wishVars, tickVars, guardVars
  <1>1. CASE UNCHANGED vars
    BY <1>1 DEF TypeOK, LeaseTypeOK, vars, leaseVars
  <1>2. CASE LeaseNext /\ UNCHANGED guardVars
    <2>1. LeaseTypeOK'
      BY <1>2, ControllerTypes, TapTypes DEF LeaseNext, TypeOK
    <2> QED
      BY <1>2, <2>1 DEF TypeOK
  <1>3. ASSUME NEW value \in BOOLEAN, SetRequested(value) PROVE requested' \in BOOLEAN /\ enabled' \in BOOLEAN
    BY <1>3 DEF SetRequested, TypeOK
  <1>4. RecoverDelay + RecoverWindow \in Nat
    BY GuardAssumption
  <1>5. ASSUME EndRecovery PROVE recovering' \in BOOLEAN /\ recoverLeft' \in Nat
    BY <1>5 DEF EndRecovery
  <1>6. ASSUME StopClient PROVE clientStop' \subseteq Sessions
    BY <1>6 DEF StopClient, Running, TypeOK, LeaseTypeOK
  <1>7. ASSUME clientStop' \subseteq Sessions,
               UNCHANGED <<owner, client, age, ctlVars, viewVars, linkVars, tapVars>>
        PROVE  LeaseTypeOK'
    BY <1>7 DEF TypeOK, LeaseTypeOK
  <1>8. ASSUME NEW automatic, NEW file \in BOOLEAN, Refused(automatic, file),
               UNCHANGED <<client, clientStop, clean, gone, patience, cleanup, renewed, viewVars,
                           linkVars, tapVars>>
        PROVE  LeaseTypeOK' /\ marker' \in BOOLEAN /\ UNCHANGED session
    BY <1>8 DEF Refused, TypeOK, LeaseTypeOK
  <1>9. Restore => /\ clientStop' \subseteq Sessions /\ requested' \in BOOLEAN /\ enabled' \in BOOLEAN
                   /\ recovering' \in BOOLEAN /\ recoverLeft' \in Nat
    BY <1>3, <1>5, <1>6 DEF Restore
  <1>10. RecoverLayout => /\ clientStop' \subseteq Sessions /\ requested' \in BOOLEAN
                          /\ enabled' \in BOOLEAN /\ recovering' \in BOOLEAN /\ recoverLeft' \in Nat
    BY <1>4, <1>6 DEF RecoverLayout, TypeOK, LeaseTypeOK
  <1>11. CASE StartApp \/ TogglesOn
    <2>1. /\ UNCHANGED <<client, clientStop, clean, gone, patience, cleanup, renewed, viewVars,
                         linkVars, tapVars, status, suspended, closeLeft, rebuilt, sampled>>
          /\ app' \in {"up", app}
      BY <1>11 DEF StartApp, TogglesOn
    <2>2. \/ \E automatic : Starts(automatic, marker)
          \/ \E automatic : Refused(automatic, marker)
          \/ UNCHANGED <<owner, age, ctl, wishVars, session, marker>>
      BY <1>11 DEF StartApp, TogglesOn
    <2>3. requested' \in BOOLEAN /\ enabled' \in BOOLEAN
      BY <1>3, <1>11 DEF StartApp, TogglesOn, TypeOK
    <2>4. LeaseTypeOK' /\ session' \in Sessions \cup {None} /\ marker' \in BOOLEAN
          /\ recovering' \in BOOLEAN /\ recoverLeft' \in Nat
      <3>1. CASE \E automatic : Starts(automatic, marker)
        BY <1>5, <2>1, <3>1, StartsTypes DEF TypeOK, Starts
      <3>2. CASE \E automatic : Refused(automatic, marker)
        BY <1>5, <1>8, <2>1, <3>2 DEF TypeOK, Refused
      <3>3. CASE UNCHANGED <<owner, age, ctl, wishVars, session, marker>>
        BY <2>1, <3>3 DEF TypeOK, LeaseTypeOK
      <3> QED
        BY <2>2, <3>1, <3>2, <3>3
    <2> QED
      BY <2>1, <2>3, <2>4 DEF TypeOK
  <1>12. CASE TogglesOff \/ TaskbarCreated
    BY <1>7, <1>9, <1>12 DEF TogglesOff, TaskbarCreated, TypeOK
  <1>13. CASE LayoutChanges \/ \E r \in Reasons : Suspends(r) \/ Resumes(r)
    BY <1>7, <1>10, <1>13 DEF LayoutChanges, Suspends, Resumes, TypeOK
  <1>14. CASE ExplorerStarts
    <2>1. (app # "down") \in BOOLEAN
      OBVIOUS
    <2> QED
      BY <1>14, <2>1 DEF ExplorerStarts, TypeOK, LeaseTypeOK
  <1>15. CASE Closes
    BY <1>5, <1>6, <1>7, <1>15, GuardAssumption DEF Closes, TypeOK
  <1>16. CASE AppExits \/ AppCrashes
    <2>1. NoReport \in Report
      BY DEF NoReport, Report, States
    <2>2. Vanishes
      BY <1>16 DEF AppExits, AppCrashes
    <2>3. LeaseTypeOK'
      BY <2>2 DEF Vanishes, TypeOK, LeaseTypeOK
    <2>4. recovering' \in BOOLEAN /\ recoverLeft' \in Nat
      BY <1>5, <2>2 DEF Vanishes
    <2> QED
      BY <2>1, <2>2, <2>3, <2>4 DEF Vanishes, TypeOK
  <1>17. CASE TickReads
    <2>1. client[owner] \in Report /\ owner \in Sessions
      BY <1>17 DEF TickReads, Running, TypeOK, LeaseTypeOK
    <2>2. 0 \in 0 .. AgeCap
      BY LeaseAssumption DEF AgeCap
    <2>3. age' \in [Sessions -> 0 .. AgeCap]
      BY <1>17, <2>2 DEF TickReads, TypeOK, LeaseTypeOK
    <2>4. LeaseTypeOK'
      BY <1>17, <2>3 DEF TickReads, TypeOK, LeaseTypeOK
    <2> QED
      BY <1>17, <2>1, <2>4 DEF TickReads, TypeOK
  <1>18. CASE TickGoesOn
    <2>1. NoReport \in Report
      BY DEF NoReport, Report, States
    <2>2. /\ clientStop' \subseteq Sessions /\ requested' \in BOOLEAN /\ enabled' \in BOOLEAN
          /\ recovering' \in BOOLEAN /\ recoverLeft' \in Nat
      BY <1>9, <1>10, <1>18 DEF TickGoesOn, TypeOK, LeaseTypeOK
    <2> QED
      BY <1>7, <1>18, <2>1, <2>2 DEF TickGoesOn, TypeOK
  <1>19. ASSUME NEW file \in BOOLEAN, Recover(file) \/ Ends(file),
                UNCHANGED <<client, clientStop, clean, gone, patience, cleanup, renewed, viewVars,
                            linkVars, tapVars>>
         PROVE  /\ LeaseTypeOK' /\ session' \in Sessions \cup {None} /\ marker' \in BOOLEAN
                /\ requested' \in BOOLEAN /\ enabled' \in BOOLEAN
                /\ recovering' \in BOOLEAN /\ recoverLeft' \in Nat
    <2>1. CASE Starts(TRUE, file) /\ SetRequested(TRUE)
      BY <1>3, <1>5, <1>19, <2>1, StartsTypes DEF TypeOK, Starts
    <2>2. CASE Refused(TRUE, file) /\ SetRequested(FALSE)
      BY <1>3, <1>5, <1>8, <1>19, <2>2 DEF TypeOK, Refused
    <2>3. ASSUME marker' = file, owner' = None, UNCHANGED <<session, ctl, age>>
          PROVE  LeaseTypeOK' /\ session' \in Sessions \cup {None} /\ marker' \in BOOLEAN
      BY <1>19, <2>3 DEF TypeOK, LeaseTypeOK
    <2>4. CASE Ends(file)
      BY <1>3, <1>5, <2>3, <2>4 DEF Ends
    <2>5. CASE marker' = file /\ owner' = None /\ UNCHANGED <<session, ctl, age, wishVars>>
      BY <2>3, <2>5 DEF TypeOK
    <2> QED
      BY <1>19, <2>1, <2>2, <2>4, <2>5 DEF Recover
  <1>20. CASE TickEnds \/ TickIdle
    <2>1. NoReport \in Report
      BY DEF NoReport, Report, States
    <2>2. /\ UNCHANGED <<client, clientStop, clean, gone, patience, cleanup, renewed, viewVars,
                         linkVars, tapVars, processVars>>
          /\ sampled' \in BOOLEAN /\ status' \in Report
      BY <1>20, <2>1 DEF TickEnds, TickIdle, TypeOK
    <2>3. \E file \in BOOLEAN : Recover(file) \/ Ends(file)
      BY <1>20 DEF TickEnds, TickIdle, TypeOK
    <2> QED
      BY <1>19, <2>2, <2>3 DEF TypeOK
  <1>21. CASE Elapse
    <2>1. \A n \in Nat : Less(n) \in Nat
      BY DEF Less
    <2>2. age' \in [Sessions -> 0 .. AgeCap]
      <3>1. \A n \in 0 .. AgeCap : (IF n = AgeCap THEN AgeCap ELSE n + 1) \in 0 .. AgeCap
        BY LeaseAssumption DEF AgeCap
      <3>2. age \in [Sessions -> 0 .. AgeCap]
        BY DEF TypeOK, LeaseTypeOK
      <3> QED
        BY <1>21, <3>1, <3>2 DEF Elapse, LeaseElapses
    <2>3. LeaseTypeOK'
      BY <1>21, <2>1, <2>2 DEF Elapse, LeaseElapses, TypeOK, LeaseTypeOK
    <2> QED
      BY <1>21, <2>1, <2>3 DEF Elapse, TypeOK
  <1> QED
    BY <1>1, <1>2, <1>11, <1>12, <1>13, <1>14, <1>15, <1>16, <1>17, <1>18, <1>20, <1>21 DEF Next

(* Every variable of the guard and of the lease keeps its type, for any    *)
(* limits and any number of sessions.                                      *)
THEOREM GuardTyping == Spec => []TypeOK
  BY TypesStart, GuardTypes, PTL DEF Spec

-----------------------------------------------------------------------------
(* The marker, and who drives the tap.                                     *)

(* What the tap holds, and what it has widened, is a session that it took  *)
(* and has not closed; a session is taken once, for its controller is      *)
(* attached once.                                                          *)
TakenAndOpen(s) == s # None => view[s].state \notin {"none", "closed"}
AttachedOnce == \A s \in Sessions : view[s].state # "none" => ctl[s] \notin Attaching

(* A controller leaves cleanly after it has seen its session closed.       *)
CleanIsClosed == \A s \in Sessions : s \in clean \/ ctl[s] = "leaving" => view[s].state = "closed"

(* Once the last session is closed nothing that was renewed is served: an  *)
(* earlier session that attaches late never had its client, and is not     *)
(* renewed any more.                                                       *)
Closed == session # None /\ view[session].state = "closed"
NoneServedAfterClose == Closed => shared \notin renewed /\ dirty \notin renewed

(* The marker is missing only before the first session or once the last is *)
(* closed.                                                                 *)
MarkedUntilClosed == marker \/ session = None \/ Closed

MarkInv ==
    /\ TakenAndOpen(shared) /\ TakenAndOpen(dirty) /\ AttachedOnce /\ CleanIsClosed
    /\ owner \in {None, session}
    /\ NoneServedAfterClose /\ MarkedUntilClosed

(* A tap without its window holds no lease, and one that is finishing has  *)
(* reported the failed undo.                                               *)
DriverInv ==
    /\ DriverHasLease
    /\ finishing => shared # None /\ view[shared].state = "failed"
    /\ ~broker => shared = None /\ inbox = {}

ServedVars == <<view, ctl, shared, dirty, clean, renewed, gone, finishing, broker, inbox>>

(* Between the processes the parts above hold of one invariant.            *)
ServeInv == TypeOK /\ BoundInv /\ MarkInv /\ DriverInv

LEMMA ServeStart == Init => MarkInv /\ DriverInv
  BY DEF Init, LeaseInit, NoReport, MarkInv, TakenAndOpen, AttachedOnce, CleanIsClosed, Attaching,
         NoneServedAfterClose, MarkedUntilClosed, Closed, DriverInv, DriverHasLease, Loop, None

LEMMA ServeUntouched ==
    ASSUME ServeInv, UNCHANGED <<ServedVars, session>>, owner' \in {owner, None},
           marker' = marker \/ (Closed /\ ~marker') \/ marker'
    PROVE  MarkInv' /\ DriverInv'
  BY DEF ServeInv, ServedVars, MarkInv, TakenAndOpen, AttachedOnce, CleanIsClosed,
         NoneServedAfterClose, MarkedUntilClosed, Closed, DriverInv, DriverHasLease

(* The tap takes the lease of a session that is attaching.                 *)
LEMMA ServeTakes ==
    ASSUME ServeInv, NEW s \in Sessions, ctl[s] \in {"holding", "sending"}, shared = None,
           NEW state \in {"attached", "observing"}, Takes(s, state), broker',
           UNCHANGED <<owner, dirty, clean, renewed, gone, session, marker>>
    PROVE  MarkInv' /\ DriverInv'
  <1>1. /\ view \in [Sessions -> Report] /\ s # None
        /\ ctl \in [Sessions -> {"none", "starting", "validated", "exited"} \cup Holds]
        /\ renewed \subseteq Sessions /\ dirty \in Sessions \cup {None}
        /\ session \in Sessions \cup {None}
    BY DEF ServeInv, TypeOK, LeaseTypeOK, Sessions, None
  <1>2. view[s].state = "none" /\ s \notin renewed /\ s # dirty
    BY DEF ServeInv, MarkInv, AttachedOnce, Attaching, BoundInv, NotRenewedYet, TakenAndOpen, None, Sessions
  <1>3. /\ \A t \in Sessions : view'[t].state = IF t = s THEN state ELSE view[t].state
        /\ \A t \in Sessions : ctl'[t] = IF t = s THEN "renew" ELSE ctl[t]
        /\ shared' = s /\ finishing' = FALSE
    BY <1>1 DEF Takes, Goes, Report
  <1>4. TakenAndOpen(shared)' /\ TakenAndOpen(dirty)'
    BY <1>1, <1>3 DEF ServeInv, MarkInv, TakenAndOpen
  <1>5. AttachedOnce' /\ CleanIsClosed'
    BY <1>1, <1>2, <1>3 DEF ServeInv, MarkInv, AttachedOnce, CleanIsClosed, Attaching
  <1>6. NoneServedAfterClose' /\ MarkedUntilClosed'
    BY <1>1, <1>2, <1>3 DEF ServeInv, MarkInv, NoneServedAfterClose, MarkedUntilClosed, Closed
  <1>7. DriverInv'
    <2>1. \A t \in Sessions : ctl[t] \in Loop /\ t \notin gone => view[t].state \in {"closed", "failed"}
      BY DEF ServeInv, DriverInv, DriverHasLease, Sessions, None
    <2>2. DriverHasLease'
      BY <1>3, <2>1 DEF DriverHasLease, Loop
    <2> QED
      BY <1>3, <2>2 DEF DriverInv
  <1> QED
    BY <1>4, <1>5, <1>6, <1>7 DEF ServeInv, MarkInv

(* A controller goes on without touching the tap.                          *)
LEMMA ServeGoes ==
    ASSUME ServeInv, NEW s \in Sessions, NEW place, Goes(s, place),
           place \in Attaching => ctl[s] \in Attaching,
           place \in Loop => ctl[s] \in Loop,
           place = "leaving" => view[s].state = "closed",
           clean' \in {clean, clean \cup {s}}, clean' # clean => view[s].state = "closed",
           inbox' \subseteq inbox \cup {s}, s \in inbox' \ inbox => broker,
           renewed' \in {renewed, renewed \cup {s}}, renewed' # renewed => s = owner,
           UNCHANGED <<view, shared, dirty, gone, finishing, broker, owner, session, marker>>
    PROVE  MarkInv' /\ DriverInv'
  <1>1. /\ ctl \in [Sessions -> {"none", "starting", "validated", "exited"} \cup Holds]
        /\ s # None
    BY DEF ServeInv, TypeOK, LeaseTypeOK, Sessions, None
  <1>2. \A t \in Sessions : ctl'[t] = IF t = s THEN place ELSE ctl[t]
    BY <1>1 DEF Goes
  <1>3. TakenAndOpen(shared)' /\ TakenAndOpen(dirty)'
    BY DEF ServeInv, MarkInv, TakenAndOpen
  <1>4. AttachedOnce' /\ CleanIsClosed'
    BY <1>2 DEF ServeInv, MarkInv, AttachedOnce, CleanIsClosed
  <1>5. NoneServedAfterClose'
    <2>1. CASE renewed' = renewed
      BY <2>1 DEF ServeInv, MarkInv, NoneServedAfterClose, Closed
    <2>2. CASE s = owner /\ renewed' = renewed \cup {s}
      BY <1>1, <2>2 DEF ServeInv, MarkInv, NoneServedAfterClose, Closed, TakenAndOpen
    <2> QED
      BY <2>1, <2>2
  <1>6. MarkedUntilClosed'
    BY DEF ServeInv, MarkInv, MarkedUntilClosed, Closed
  <1>7. DriverInv'
    BY <1>2 DEF ServeInv, DriverInv, DriverHasLease
  <1> QED
    BY <1>3, <1>4, <1>5, <1>6, <1>7 DEF ServeInv, MarkInv

LEMMA ServeController ==
    ASSUME ServeInv, NEW s \in Sessions, ControllerStep(s) \/ Killed(s) \/ OpenLease(s),
           UNCHANGED guardVars
    PROVE  MarkInv' /\ DriverInv'
  <1> USE DEF Fails, clientVars, ctlVars, viewVars, linkVars, tapVars, guardVars
  <1>1. CASE Validate(s)
    BY <1>1, ServeGoes DEF Validate, Attaching, Loop
  <1>2. CASE Acquire(s)
    BY <1>2, ServeGoes DEF Acquire, Attaching, Loop
  <1>3. CASE SendLease(s)
    BY <1>3, ServeGoes DEF SendLease, Attaching, Loop
  <1>4. CASE Inject(s)
    BY <1>4, ServeTakes DEF Inject, ServeInv, DriverInv
  <1>5. CASE AttachFails(s)
    BY <1>5, ServeGoes DEF AttachFails, Attaching, Loop
  <1>6. CASE SendTimesOut(s)
    BY <1>6, ServeGoes DEF SendTimesOut, Attaching, Loop
  <1>7. CASE Renew(s)
    BY <1>7, ServeGoes DEF Renew, Prolong, Unhealthy, ClientAlive, Attaching, Loop
  <1>8. CASE ReportClient(s)
    BY <1>8, ServeGoes DEF ReportClient, Attaching, Loop
  <1>9. CASE Check(s)
    BY <1>9, ServeGoes DEF Check, Attaching, Loop
  <1>10. CASE Leave(s)
    <2>1. view[s].state = "closed"
      BY <1>10 DEF Leave, ServeInv, MarkInv, CleanIsClosed
    <2> QED
      BY <1>10, <2>1, ServeGoes DEF Leave, Attaching, Loop
  <1>11. CASE Killed(s)
    BY <1>11, ServeGoes DEF Killed, Attaching, Loop
  <1>12. CASE OpenLease(s)
    <2>1. ctl[s] \in {"sending", "exited"} /\ broker
      BY <1>12 DEF OpenLease, ServeInv, BoundInv, SenderWaits, DriverInv
    <2>2. CASE CanOpen(s)
      BY <1>12, <2>1, <2>2, ServeTakes DEF OpenLease, CanOpen
    <2>3. CASE ctl[s] = "exited" /\ ~CanOpen(s)
      <3>1. Goes(s, "exited")
        BY <1>12, <2>3 DEF OpenLease, RefuseLease, Goes, ServeInv, TypeOK, LeaseTypeOK
      <3> QED
        BY <1>12, <2>3, <3>1, ServeGoes DEF OpenLease, RefuseLease, Attaching, Loop
    <2>4. CASE ctl[s] # "exited" /\ ~CanOpen(s)
      BY <1>12, <2>4, ServeGoes DEF OpenLease, RefuseLease, Attaching, Loop
    <2> QED
      BY <2>2, <2>3, <2>4
  <1> QED
    BY <1>1, <1>2, <1>3, <1>4, <1>5, <1>6, <1>7, <1>8, <1>9, <1>10, <1>11, <1>12 DEF ControllerStep

(* The tap ends a lease by closing it or by reporting that it cannot undo, *)
(* and looks only at the session it serves.                                *)
LEMMA ServeTap ==
    ASSUME ServeInv, TapTick \/ TapReady \/ TapFinish, UNCHANGED guardVars
    PROVE  MarkInv' /\ DriverInv'
  <1> USE DEF clientVars, ctlVars, viewVars, linkVars, tapVars, guardVars
  <1>1. /\ view \in [Sessions -> Report] /\ shared \in Sessions \cup {None}
        /\ dirty \in Sessions \cup {None} /\ session \in Sessions \cup {None}
        /\ owner \in {None, session}
        /\ \A t \in Sessions : t # None
    BY DEF ServeInv, MarkInv, TypeOK, LeaseTypeOK, Sessions, None
  <1>2. UNCHANGED <<owner, ctl, clean, renewed, gone, session, marker>>
    BY DEF TapTick, TapReady, TapFinish
  <1>3. ASSUME shared \in Sessions, ~finishing, UNCHANGED <<broker, inbox>>,
               NEW report, view' = [view EXCEPT ![shared] = report],
               \/ /\ report.state \in {"attached", "observing", "reserved"}
                  /\ dirty' \in {dirty, shared} /\ UNCHANGED <<shared, finishing>>
               \/ /\ report.state = "closed" /\ dirty' = None /\ shared' = None /\ ~finishing'
               \/ /\ report.state = "failed" /\ dirty' = shared /\ shared' = shared /\ finishing'
        PROVE  MarkInv' /\ DriverInv'
    <2>1. view[shared].state \notin {"none", "closed"}
      BY <1>1, <1>3 DEF ServeInv, MarkInv, TakenAndOpen
    <2>2. /\ view'[shared] = report
          /\ \A t \in Sessions \ {shared} : view'[t] = view[t]
      BY <1>1, <1>3
    <2>3. TakenAndOpen(shared)' /\ TakenAndOpen(dirty)'
      BY <1>1, <1>3, <2>2 DEF ServeInv, MarkInv, TakenAndOpen
    <2>4. ctl[shared] \notin Attaching /\ shared \notin clean /\ ctl[shared] # "leaving"
      BY <1>3, <2>1 DEF ServeInv, MarkInv, AttachedOnce, CleanIsClosed
    <2>5. AttachedOnce' /\ CleanIsClosed'
      BY <1>2, <2>2, <2>4 DEF ServeInv, MarkInv, AttachedOnce, CleanIsClosed
    <2>6. NoneServedAfterClose'
      <3>1. CASE report.state = "closed"
        <4>1. None \notin renewed
          BY <1>1 DEF ServeInv, TypeOK, LeaseTypeOK
        <4> QED
          BY <1>2, <1>3, <3>1, <4>1 DEF NoneServedAfterClose
      <3>2. CASE report.state # "closed"
        BY <1>1, <1>2, <1>3, <2>2, <3>2 DEF ServeInv, MarkInv, NoneServedAfterClose, Closed
      <3> QED
        BY <3>1, <3>2
    <2>7. MarkedUntilClosed'
      BY <1>1, <1>2, <2>1, <2>2 DEF ServeInv, MarkInv, MarkedUntilClosed, Closed
    <2>8. DriverInv'
      <3>1. broker /\ broker'
        BY <1>1, <1>3 DEF ServeInv, DriverInv
      <3>2. DriverHasLease'
        BY <1>2, <1>3, <2>2 DEF ServeInv, DriverInv, DriverHasLease
      <3>3. finishing' => shared' # None /\ view'[shared'].state = "failed"
        BY <1>1, <1>3, <2>2
      <3> QED
        BY <3>1, <3>2, <3>3 DEF DriverInv
    <2> QED
      BY <1>1, <1>2, <2>3, <2>5, <2>6, <2>7, <2>8 DEF MarkInv
  <1>4. CASE TapTick
    <2>1. shared \in Sessions /\ ~finishing /\ UNCHANGED <<broker, inbox>> /\ view[shared] \in Report
      BY <1>1, <1>4 DEF TapTick, Serving
    <2>2. ASSUME NEW overridden, NEW undone, TapStop(overridden, undone) PROVE MarkInv' /\ DriverInv'
      <3> DEFINE failed == overridden /\ ~undone
                 after == [view[shared] EXCEPT
                              !.restores = IF overridden /\ undone THEN 1 ELSE @,
                              !.failures = IF failed THEN 1 ELSE @,
                              !.state = IF failed THEN "failed" ELSE "closed"]
      <3>1. view' = [view EXCEPT ![shared] = after]
        BY <2>2 DEF TapStop
      <3>2. after.state = IF failed THEN "failed" ELSE "closed"
        BY <2>1 DEF Report
      <3>3. /\ dirty' = IF failed THEN shared ELSE None
            /\ shared' = IF failed THEN shared ELSE None
            /\ finishing' = failed
        BY <2>2 DEF TapStop
      <3> HIDE DEF after, failed
      <3>4. CASE failed
        BY <1>3, <2>1, <3>1, <3>2, <3>3, <3>4
      <3>5. CASE ~failed
        BY <1>3, <2>1, <3>1, <3>2, <3>3, <3>5
      <3> QED
        BY <3>4, <3>5
    <2>3. CASE Apply
      <3> DEFINE after == [view[shared] EXCEPT !.writes = 1, !.state = "reserved"]
      <3>1. view' = [view EXCEPT ![shared] = after] /\ UNCHANGED <<shared, finishing>> /\ dirty' = shared
        BY <2>3 DEF Apply
      <3>2. after.state = "reserved"
        BY <2>1 DEF Report
      <3> HIDE DEF after
      <3> QED
        BY <1>3, <2>1, <3>1, <3>2
    <2>4. CASE UNCHANGED <<view, shared, finishing, dirty>>
      BY <1>1, <1>2, <2>1, <2>4, ServeUntouched DEF ServedVars
    <2> QED
      BY <1>4, <2>2, <2>3, <2>4 DEF TapTick
  <1>5. CASE TapReady
    <2> DEFINE after == [view[shared] EXCEPT !.state = "observing"]
    <2>1. /\ shared \in Sessions /\ ~finishing /\ UNCHANGED <<broker, inbox, shared, finishing, dirty>>
          /\ view' = [view EXCEPT ![shared] = after]
      BY <1>1, <1>5 DEF TapReady, Serving
    <2>2. after.state = "observing"
      BY <1>1, <2>1 DEF Report
    <2> HIDE DEF after
    <2> QED
      BY <1>3, <2>1, <2>2
  <1>6. CASE TapFinish
    <2>1. /\ finishing /\ ~finishing' /\ shared' = None /\ inbox' = {}
          /\ UNCHANGED <<view, dirty>>
      BY <1>6 DEF TapFinish
    <2>2. shared # None /\ view[shared].state = "failed"
      BY <2>1 DEF ServeInv, DriverInv
    <2>3. None \notin renewed
      BY <1>1 DEF ServeInv, TypeOK, LeaseTypeOK
    <2>4. MarkInv'
      BY <1>2, <2>1, <2>3 DEF ServeInv, MarkInv, TakenAndOpen, AttachedOnce, CleanIsClosed,
           NoneServedAfterClose, MarkedUntilClosed, Closed
    <2>5. DriverInv'
      BY <1>1, <1>2, <2>1, <2>2 DEF ServeInv, DriverInv, DriverHasLease
    <2> QED
      BY <2>4, <2>5
  <1> QED
    BY <1>4, <1>5, <1>6

LEMMA ServeExplorer ==
    ASSUME ServeInv, ExplorerDies \/ ExplorerHangs \/ ExplorerAnswers \/ ExplorerStarts \/ Elapse,
           UNCHANGED <<session, marker>>
    PROVE  MarkInv' /\ DriverInv'
  <1> USE DEF clientVars, ctlVars, viewVars, linkVars, tapVars, guardVars
  <1>1. CASE ExplorerDies
    <2>1. /\ shared' = None /\ dirty' = None /\ ~finishing' /\ inbox' = {}
          /\ gone' = gone \cup {s \in Sessions : ctl[s] \in Holds \cup {"validated"}}
          /\ UNCHANGED <<view, ctl, clean, renewed, owner>>
      BY <1>1 DEF ExplorerDies
    <2>2. None \notin renewed
      BY DEF ServeInv, TypeOK, LeaseTypeOK, Sessions, None
    <2>3. MarkInv'
      BY <2>1, <2>2 DEF ServeInv, MarkInv, TakenAndOpen, AttachedOnce, CleanIsClosed,
           NoneServedAfterClose, MarkedUntilClosed, Closed
    <2>4. DriverInv'
      BY <2>1 DEF DriverInv, DriverHasLease, Holds
    <2> QED
      BY <2>3, <2>4
  <1>2. CASE ExplorerHangs \/ ExplorerAnswers \/ ExplorerStarts
    BY <1>2, ServeUntouched DEF ExplorerHangs, ExplorerAnswers, ExplorerStarts, ServedVars
  <1>3. CASE Elapse
    BY <1>3, ServeUntouched DEF Elapse, LeaseElapses, ServedVars
  <1> QED
    BY <1>1, <1>2, <1>3

(* A new session is marked, and nothing of it has been taken.              *)
LEMMA ServeStarts ==
    ASSUME ServeInv, NEW automatic, NEW file, Starts(automatic, file),
           UNCHANGED <<view, shared, dirty, clean, renewed, gone, finishing, broker, inbox>>
    PROVE  MarkInv' /\ DriverInv'
  <1>1. /\ session' = session + 1 /\ owner' = session + 1 /\ marker'
        /\ session + 1 \in Sessions /\ Goes(session + 1, "starting")
    BY LeaseAssumption DEF Starts, ServeInv, TypeOK, Sessions, None
  <1>2. ctl[session + 1] = "none"
    BY <1>1 DEF ServeInv, BoundInv, LaterSessionsAreNew, TypeOK, Sessions, None
  <1>3. view[session + 1].state = "none"
    <2>1. ctl[session + 1] \in Attaching
      BY <1>2 DEF Attaching
    <2> QED
      BY <1>1, <2>1 DEF ServeInv, MarkInv, AttachedOnce
  <1>4. \A t \in Sessions : ctl'[t] = IF t = session + 1 THEN "starting" ELSE ctl[t]
    BY <1>1 DEF Goes, ServeInv, TypeOK, LeaseTypeOK
  <1>5. AttachedOnce' /\ CleanIsClosed'
    BY <1>2, <1>3, <1>4 DEF ServeInv, MarkInv, AttachedOnce, CleanIsClosed
  <1>6. ~Closed'
    BY <1>1, <1>3 DEF Closed
  <1>7. DriverInv'
    BY <1>4 DEF ServeInv, DriverInv, DriverHasLease, Loop
  <1> QED
    BY <1>1, <1>5, <1>6, <1>7 DEF ServeInv, MarkInv, TakenAndOpen, NoneServedAfterClose, MarkedUntilClosed

(* A session is taken off the books with its marker only when it is closed.*)
LEMMA RestoredIsClosed ==
    ASSUME ServeInv, Restored
    PROVE  Closed
  BY DEF ServeInv, MarkInv, CleanIsClosed, Restored, Closed, TypeOK, LeaseTypeOK, Sessions, None

LEMMA ServeTick ==
    ASSUME ServeInv, TickEnds \/ TickIdle
    PROVE  MarkInv' /\ DriverInv'
  <1> USE DEF EnableFrame, viewVars, linkVars, tapVars
  <1>1. UNCHANGED <<view, shared, dirty, clean, renewed, gone, finishing, broker, inbox>>
    BY DEF TickEnds, TickIdle
  <1>2. ASSUME NEW file \in BOOLEAN, Recover(file) \/ Ends(file), file \/ Closed \/ file = marker
        PROVE  MarkInv' /\ DriverInv'
    <2>1. CASE Starts(TRUE, file)
      BY <1>1, <2>1, ServeStarts
    <2>2. CASE UNCHANGED <<ctl, session>> /\ owner' = None /\ marker' \in {file, TRUE}
      BY <1>1, <1>2, <2>2, ServeUntouched DEF ServedVars
    <2> QED
      BY <1>2, <2>1, <2>2 DEF Recover, Refused, Ends
  <1>3. marker \in BOOLEAN
    BY DEF ServeInv, TypeOK
  <1>4. CASE TickIdle
    BY <1>2, <1>3, <1>4 DEF TickIdle
  <1>5. CASE TickEnds
    BY <1>2, <1>3, <1>5, RestoredIsClosed DEF TickEnds
  <1> QED
    BY <1>4, <1>5

LEMMA ServeUser ==
    ASSUME ServeInv,
           \/ StartApp \/ TogglesOn \/ TogglesOff \/ LayoutChanges \/ TaskbarCreated
           \/ \E r \in Reasons : Suspends(r) \/ Resumes(r)
           \/ Closes \/ AppExits \/ AppCrashes \/ TickReads \/ TickGoesOn
    PROVE  MarkInv' /\ DriverInv'
  <1> USE DEF EnableFrame, Frame, ctlVars, viewVars, linkVars, tapVars
  <1>1. CASE StartApp \/ TogglesOn
    <2>1. UNCHANGED <<view, shared, dirty, clean, renewed, gone, finishing, broker, inbox>>
      BY <1>1 DEF StartApp, TogglesOn
    <2>2. CASE \E automatic : Starts(automatic, marker)
      BY <2>1, <2>2, ServeStarts
    <2>3. CASE UNCHANGED <<ctl, session>> /\ owner' \in {owner, None} /\ marker' \in {marker, TRUE}
      BY <2>1, <2>3, ServeUntouched DEF ServedVars
    <2> QED
      BY <1>1, <2>2, <2>3 DEF StartApp, TogglesOn, Refused
  <1>2. CASE \/ TogglesOff \/ LayoutChanges \/ TaskbarCreated \/ Closes \/ TickReads \/ TickGoesOn
             \/ AppExits \/ AppCrashes \/ \E r \in Reasons : Suspends(r) \/ Resumes(r)
    <2>1. UNCHANGED <<ServedVars, session, marker>> /\ owner' \in {owner, None}
      BY <1>2 DEF TogglesOff, LayoutChanges, TaskbarCreated, Closes, TickReads, TickGoesOn,
           AppExits, AppCrashes, Vanishes, Suspends, Resumes, ServedVars
    <2> QED
      BY <2>1, ServeUntouched
  <1> QED
    BY <1>1, <1>2

(* What TypeOK, BoundInv and the two invariants say together is inductive. *)
LEMMA ServeStep == ServeInv /\ [Next]_vars => MarkInv' /\ DriverInv'
  <1> SUFFICES ASSUME ServeInv, [Next]_vars PROVE MarkInv' /\ DriverInv'
    OBVIOUS
  <1>1. CASE UNCHANGED vars
    BY <1>1, ServeUntouched DEF vars, leaseVars, clientVars, ctlVars, viewVars, linkVars, tapVars,
         guardVars, ServedVars
  <1>2. CASE LeaseNext /\ UNCHANGED guardVars
    <2>1. UNCHANGED <<session, marker>>
      BY <1>2 DEF guardVars
    <2> QED
      BY <1>2, <2>1, ServeController, ServeTap, ServeExplorer DEF LeaseNext
  <1>3. CASE ExplorerStarts \/ Elapse
    BY <1>3, ServeExplorer DEF ExplorerStarts, Elapse
  <1> QED
    BY <1>1, <1>2, <1>3, ServeUser, ServeTick DEF Next

LEMMA ServeAlways == Spec => []ServeInv
  BY BoundInit, BoundStep, TypesStart, GuardTypes, ServeStart, ServeStep, PTL DEF Spec, ServeInv

(* An override that WindowMark answers for never stands without the marker *)
(* file, whoever crashes, hangs or is killed between two accesses.         *)
LEMMA MarkerSpeaks == ServeInv => OverrideIsMarked
  <1> SUFFICES ASSUME ServeInv, Standing, ~marker PROVE FALSE
    BY DEF OverrideIsMarked
  <1>1. dirty \in Sessions /\ dirty # None /\ view[dirty].state \notin {"none", "closed"}
    BY DEF Standing, ServeInv, TypeOK, LeaseTypeOK, MarkInv, TakenAndOpen
  <1>2. CASE session = None
    <2>1. ctl[dirty] = "none"
      BY <1>1, <1>2 DEF ServeInv, BoundInv, LaterSessionsAreNew, Sessions, None
    <2> QED
      BY <1>1, <2>1 DEF ServeInv, MarkInv, AttachedOnce, Attaching
  <1>3. CASE Closed
    BY <1>1, <1>3 DEF ServeInv, MarkInv, NoneServedAfterClose, Closed, Standing
  <1> QED
    BY <1>2, <1>3 DEF ServeInv, MarkInv, MarkedUntilClosed

(* While an override stands the marker file exists, for any limits, any    *)
(* number of sessions and any faults: the next start does not attach on    *)
(* its own over a width that may have been left behind.                    *)
THEOREM OverridesAreMarked == Spec => []OverrideIsMarked
  BY ServeAlways, MarkerSpeaks, PTL

(* No two controllers drive the tap: one in its loop holds the lease, or   *)
(* the tap has ended it, or its Explorer is gone.                          *)
THEOREM OneDriver == Spec => []DriverHasLease
  <1>1. ServeInv => DriverHasLease
    BY DEF ServeInv, DriverInv
  <1> QED
    BY <1>1, ServeAlways, PTL

(* Recovery starts no session over the width that another has written.     *)
THEOREM RecoveryWaits == Spec => RecoversAfterUndo
  <1>1. ServeInv /\ WishInv /\ [Next]_vars
            => [requested /\ session' # session => ~Standing]_vars
    <2> SUFFICES ASSUME ServeInv, WishInv, Next, requested, session' # session PROVE ~Standing
      OBVIOUS
    <2> USE DEF EnableFrame, Frame, guardVars
    <2>1. CASE TickEnds
      <3>1. Closed
        BY <2>1, RestoredIsClosed DEF TickEnds, Ends
      <3> QED
        BY <3>1 DEF ServeInv, MarkInv, NoneServedAfterClose, TakenAndOpen, Closed, Standing
    <2>2. CASE TickIdle
      <3>1. ~marker
        BY <2>2 DEF TickIdle, Recover, Ends, Refused, Starts, Barred
      <3> QED
        BY <3>1, MarkerSpeaks DEF OverrideIsMarked
    <2>3. CASE StartApp \/ TogglesOn
      BY <2>3 DEF StartApp, TogglesOn, WishInv
    <2>4. CASE \/ LeaseNext /\ UNCHANGED guardVars
               \/ TogglesOff \/ LayoutChanges \/ TaskbarCreated
               \/ \E r \in Reasons : Suspends(r) \/ Resumes(r)
               \/ ExplorerStarts \/ Closes \/ AppExits \/ AppCrashes
               \/ TickReads \/ TickGoesOn \/ Elapse
      BY <2>4 DEF TogglesOff, LayoutChanges, TaskbarCreated, Suspends, Resumes, ExplorerStarts,
           Closes, AppExits, AppCrashes, Vanishes, TickReads, TickGoesOn, Elapse
    <2> QED
      BY <2>1, <2>2, <2>3, <2>4 DEF Next
  <1>2. Init => WishInv
    BY DEF Init, WishInv, None
  <1> QED
    BY <1>1, <1>2, ServeAlways, WishKept, PTL DEF Spec, RecoversAfterUndo

-----------------------------------------------------------------------------
(* The promise.                                                            *)

(* A session has a program; a controller in its loop was lent the          *)
(* container; and once an undo has failed the container cannot be lent     *)
(* again in this Explorer, which has lost the window that takes leases and *)
(* has been attached to before.                                            *)
SessionHasProgram == (Running => app # "down") /\ (sampled => Running)
DriverWasLent == \A s \in Sessions : ctl[s] \in Loop => view[s].state # "none"
LeftBehind ==
    /\ broker => once
    /\ dirty # None => dirty = shared \/ (shared = None /\ ~broker /\ once)

PromiseInv == SessionHasProgram /\ DriverWasLent /\ LeftBehind

LEMMA PromiseInvInit == Init => PromiseInv
  BY DEF Init, LeaseInit, PromiseInv, SessionHasProgram, DriverWasLent, LeftBehind, Running, Loop,
         None

LEMMA PromiseUntouched ==
    ASSUME PromiseInv,
           UNCHANGED <<app, owner, sampled, ctl, view, broker, once, dirty, shared>>
    PROVE  PromiseInv'
  BY DEF PromiseInv, SessionHasProgram, DriverWasLent, LeftBehind, Running

(* What a tick of the tap does to its session: nothing, an override, or    *)
(* the end, with or without an undo; of the others it touches nothing.     *)
LEMMA TapEffect ==
    ASSUME ServeInv, TapTick
    PROVE  /\ explorer = "up" /\ shared \in Sessions /\ ~finishing
           /\ UNCHANGED <<ctl, explorer, broker, once, age, renewed>>
           /\ \A t \in Sessions \ {shared} : view'[t] = view[t]
           /\ view[shared].state \notin {"none", "closed"}
           /\ \/ UNCHANGED <<view, shared, finishing, dirty>>
              \/ /\ ~LeaseOver(shared) /\ dirty' = shared /\ UNCHANGED <<shared, finishing>>
                 /\ view'[shared].state = "reserved"
              \/ /\ dirty' = None /\ shared' = None /\ finishing' = FALSE
                 /\ view'[shared].state = "closed"
              \/ /\ dirty' = shared /\ shared' = shared /\ finishing' = TRUE
                 /\ view'[shared].state = "failed"
  <1>1. /\ explorer = "up" /\ shared \in Sessions /\ ~finishing /\ view \in [Sessions -> Report]
        /\ UNCHANGED <<ctl, explorer, broker, once, age, renewed>>
    BY DEF TapTick, Serving, ServeInv, TypeOK, LeaseTypeOK, linkVars, clientVars
  <1>2. view[shared].state \notin {"none", "closed"} /\ view[shared] \in Report
    BY <1>1 DEF ServeInv, MarkInv, TakenAndOpen, None, Sessions
  <1>3. ASSUME NEW overridden, NEW undone, TapStop(overridden, undone)
        PROVE  /\ \A t \in Sessions \ {shared} : view'[t] = view[t]
               /\ \/ /\ dirty' = None /\ shared' = None /\ finishing' = FALSE
                     /\ view'[shared].state = "closed"
                  \/ /\ dirty' = shared /\ shared' = shared /\ finishing' = TRUE
                     /\ view'[shared].state = "failed"
    <2> DEFINE failed == overridden /\ ~undone
               after == [view[shared] EXCEPT
                            !.restores = IF overridden /\ undone THEN 1 ELSE @,
                            !.failures = IF failed THEN 1 ELSE @,
                            !.state = IF failed THEN "failed" ELSE "closed"]
    <2>1. view' = [view EXCEPT ![shared] = after]
      BY <1>3 DEF TapStop
    <2>2. after.state = IF failed THEN "failed" ELSE "closed"
      BY <1>2 DEF Report
    <2>3. /\ dirty' = IF failed THEN shared ELSE None
          /\ shared' = IF failed THEN shared ELSE None
          /\ finishing' = failed
      BY <1>3 DEF TapStop
    <2> HIDE DEF after
    <2>4. view'[shared] = after /\ \A t \in Sessions \ {shared} : view'[t] = view[t]
      BY <1>1, <2>1
    <2>5. CASE failed
      BY <2>2, <2>3, <2>4, <2>5
    <2>6. CASE ~failed
      <3>1. finishing' = FALSE
        BY <2>3, <2>6
      <3> HIDE DEF failed
      <3> QED
        BY <2>2, <2>3, <2>4, <2>6, <3>1
    <2> QED
      BY <2>5, <2>6
  <1>4. CASE Apply /\ ~LeaseOver(shared)
    <2> DEFINE after == [view[shared] EXCEPT !.writes = 1, !.state = "reserved"]
    <2>1. view' = [view EXCEPT ![shared] = after] /\ UNCHANGED <<shared, finishing>> /\ dirty' = shared
      BY <1>4 DEF Apply
    <2>2. after.state = "reserved"
      BY <1>2 DEF Report
    <2> HIDE DEF after
    <2> QED
      BY <1>1, <1>2, <1>4, <2>1, <2>2
  <1>5. CASE UNCHANGED <<view, shared, finishing, dirty>>
    BY <1>1, <1>2, <1>5
  <1>6. \/ \E overridden, undone : TapStop(overridden, undone)
        \/ Apply /\ ~LeaseOver(shared)
        \/ UNCHANGED <<view, shared, finishing, dirty>>
    BY DEF TapTick
  <1> QED
    BY <1>1, <1>2, <1>3, <1>4, <1>5, <1>6

(* The loop is entered by those that are lent the container ...            *)
LEMMA LeaseKeepsDriver ==
    ASSUME ServeInv, DriverWasLent, LeaseNext
    PROVE  DriverWasLent'
  <1> USE DEF DriverWasLent
  <1>1. /\ ctl \in [Sessions -> {"none", "starting", "validated", "exited"} \cup Holds]
        /\ view \in [Sessions -> Report]
    BY DEF ServeInv, TypeOK, LeaseTypeOK
  <1>2. ASSUME NEW s \in Sessions, NEW place, Goes(s, place), place \in Loop => ctl[s] \in Loop,
               UNCHANGED view
        PROVE  DriverWasLent'
    BY <1>1, <1>2 DEF Goes
  <1>3. ASSUME NEW s \in Sessions, NEW state \in {"attached", "observing"}, Takes(s, state)
        PROVE  DriverWasLent'
    BY <1>1, <1>3 DEF Takes, Goes, Report
  <1>4. ASSUME NEW s \in Sessions, ControllerStep(s) \/ Killed(s) PROVE DriverWasLent'
    <2> USE DEF Loop, viewVars
    <2>1. CASE Validate(s) \/ Acquire(s) \/ SendLease(s) \/ AttachFails(s) \/ SendTimesOut(s)
      BY <1>2, <2>1 DEF Validate, Acquire, SendLease, AttachFails, SendTimesOut, Fails
    <2>2. CASE Renew(s) \/ ReportClient(s) \/ Check(s) \/ Leave(s) \/ Killed(s)
      BY <1>2, <2>2 DEF Renew, ReportClient, Check, Leave, Killed, Fails
    <2>3. CASE Inject(s)
      BY <1>3, <2>3 DEF Inject
    <2> QED
      BY <1>4, <2>1, <2>2, <2>3 DEF ControllerStep
  <1>5. ASSUME NEW s \in Sessions, OpenLease(s) PROVE DriverWasLent'
    BY <1>2, <1>3, <1>5 DEF OpenLease, RefuseLease, Fails, Loop
  <1>6. ASSUME UNCHANGED ctl, \A s \in Sessions : view[s].state # "none" => view'[s].state # "none"
        PROVE  DriverWasLent'
    BY <1>6
  <1>7. CASE TapTick
    <2>1. \A t \in Sessions : view[t].state # "none" => view'[t].state # "none"
      BY <1>7, TapEffect
    <2> QED
      BY <1>6, <1>7, <2>1, TapEffect
  <1>8. CASE TapReady
    <2> DEFINE after == [view[shared] EXCEPT !.state = "observing"]
    <2>1. /\ shared \in Sessions /\ UNCHANGED ctl
          /\ view' = [view EXCEPT ![shared] = after]
      BY <1>8 DEF TapReady, Serving, ctlVars, ServeInv, TypeOK, LeaseTypeOK
    <2>2. after.state = "observing"
      BY <1>1, <2>1 DEF Report
    <2> HIDE DEF after
    <2> QED
      BY <1>1, <1>6, <2>1, <2>2
  <1>9. CASE TapFinish \/ ExplorerDies \/ ExplorerHangs \/ ExplorerAnswers
    BY <1>6, <1>9 DEF TapFinish, ExplorerDies, ExplorerHangs, ExplorerAnswers, ctlVars, viewVars
  <1> QED
    BY <1>4, <1>5, <1>7, <1>8, <1>9 DEF LeaseNext

(* ... and what is left behind stays so for as long as Explorer lives.     *)
LEMMA LeaseKeepsLeftBehind ==
    ASSUME ServeInv, LeftBehind, LeaseNext
    PROVE  LeftBehind'
  <1> USE DEF LeftBehind
  <1>1. /\ ~broker => shared = None /\ inbox = {}
        /\ shared \in Sessions \cup {None} /\ broker \in BOOLEAN /\ once \in BOOLEAN
        /\ finishing => shared # None
    BY DEF ServeInv, DriverInv, TypeOK, LeaseTypeOK
  <1>2. CASE UNCHANGED <<broker, once, dirty, shared>>
    BY <1>2
  <1>3. ASSUME NEW s \in Sessions, ControllerStep(s) \/ Killed(s) PROVE LeftBehind'
    <2> USE DEF linkVars, tapVars
    <2>1. CASE Validate(s) \/ Acquire(s) \/ SendLease(s) \/ SendTimesOut(s)
      BY <1>2, <2>1 DEF Validate, Acquire, SendLease, SendTimesOut
    <2>2. CASE Renew(s) \/ ReportClient(s) \/ Check(s) \/ Leave(s) \/ Killed(s)
      BY <1>2, <2>2 DEF Renew, ReportClient, Check, Leave, Killed
    <2>3. CASE AttachFails(s)
      BY <1>1, <2>3 DEF AttachFails
    <2>4. CASE Inject(s)
      BY <1>1, <2>4 DEF Inject, Takes
    <2> QED
      BY <1>3, <2>1, <2>2, <2>3, <2>4 DEF ControllerStep
  <1>4. ASSUME NEW s \in Sessions, OpenLease(s) PROVE LeftBehind'
    <2>1. CASE CanOpen(s)
      BY <1>1, <1>4, <2>1 DEF OpenLease, CanOpen, Takes
    <2>2. CASE ~CanOpen(s)
      BY <1>2, <1>4, <2>2 DEF OpenLease, RefuseLease
    <2> QED
      BY <2>1, <2>2
  <1>5. CASE TapTick
    <2>1. shared # None /\ UNCHANGED <<broker, once>>
      BY <1>5, TapEffect DEF TapTick, Serving
    <2>2. \/ UNCHANGED <<dirty, shared>>
          \/ dirty' = None
          \/ dirty' = shared /\ shared' = shared
      BY <1>5, TapEffect
    <2> QED
      BY <2>1, <2>2
  <1>6. CASE TapReady \/ ExplorerHangs \/ ExplorerAnswers
    BY <1>2, <1>6 DEF TapReady, ExplorerHangs, ExplorerAnswers, linkVars, tapVars
  <1>7. CASE TapFinish
    BY <1>1, <1>7 DEF TapFinish
  <1>8. CASE ExplorerDies
    BY <1>8 DEF ExplorerDies
  <1> QED
    BY <1>3, <1>4, <1>5, <1>6, <1>7, <1>8 DEF LeaseNext

LEMMA LeaseKeepsOwner ==
    ASSUME LeaseNext
    PROVE  UNCHANGED <<owner, clientStop, age>>
  BY DEF LeaseNext, ControllerStep, clientVars, Validate, Acquire, SendLease, Inject, AttachFails,
         SendTimesOut, Renew, ReportClient, Check, Leave, Killed, OpenLease, TapTick, TapReady,
         TapFinish, ExplorerDies, ExplorerHangs, ExplorerAnswers

(* A controller is started outside its loop.                               *)
LEMMA StartKeepsDriver ==
    ASSUME ServeInv, PromiseInv, UNCHANGED <<view, broker, once, dirty, shared>>,
           ctl' = ctl \/ \E s \in Sessions : Goes(s, "starting")
    PROVE  DriverWasLent' /\ LeftBehind'
  <1>1. ctl \in [Sessions -> {"none", "starting", "validated", "exited"} \cup Holds]
    BY DEF ServeInv, TypeOK, LeaseTypeOK
  <1>2. \A s \in Sessions : ctl'[s] \in Loop => ctl[s] \in Loop
    BY <1>1 DEF Goes, Loop
  <1> QED
    BY <1>2 DEF PromiseInv, DriverWasLent, LeftBehind

LEMMA PromiseInvKept == ServeInv /\ PromiseInv /\ [Next]_vars => PromiseInv'
  <1> SUFFICES ASSUME ServeInv, PromiseInv, [Next]_vars PROVE PromiseInv'
    OBVIOUS
  <1> USE DEF SessionHasProgram, Running
  <1>1. CASE UNCHANGED vars
    BY <1>1, PromiseUntouched DEF vars, leaseVars, clientVars, ctlVars, viewVars, linkVars, tapVars,
         guardVars, processVars, tickVars
  <1>2. CASE LeaseNext /\ UNCHANGED guardVars
    <2>1. DriverWasLent' /\ LeftBehind'
      BY <1>2, LeaseKeepsDriver, LeaseKeepsLeftBehind DEF PromiseInv
    <2>2. SessionHasProgram'
      BY <1>2, LeaseKeepsOwner DEF PromiseInv, guardVars, processVars, tickVars
    <2> QED
      BY <2>1, <2>2 DEF PromiseInv
  <1>3. ASSUME NEW automatic, NEW file, Starts(automatic, file)
        PROVE  /\ session + 1 \in Sessions /\ Goes(session + 1, "starting")
               /\ owner' = session + 1
    BY <1>3, LeaseAssumption DEF Starts, ServeInv, TypeOK, Sessions, None
  <1> USE DEF EnableFrame, Frame, ctlVars, viewVars, linkVars, tapVars, processVars, tickVars
  <1>4. CASE StartApp \/ TogglesOn \/ TickIdle
    <2>1. UNCHANGED <<view, broker, once, dirty, shared>>
      BY <1>4 DEF StartApp, TogglesOn, TickIdle
    <2>2. ctl' = ctl \/ \E s \in Sessions : Goes(s, "starting")
      BY <1>3, <1>4 DEF StartApp, TogglesOn, TickIdle, Recover, Refused, Ends
    <2>3. app' = "up"
      BY <1>4 DEF StartApp, TogglesOn, TickIdle, Free
    <2>4. ~sampled
      BY <1>4 DEF StartApp, TogglesOn, TickIdle, Free, PromiseInv
    <2>5. UNCHANGED sampled
      BY <1>4 DEF StartApp, TogglesOn, TickIdle
    <2> QED
      BY <2>1, <2>2, <2>3, <2>4, <2>5, StartKeepsDriver DEF PromiseInv
  <1>5. CASE TickEnds
    <2>1. UNCHANGED <<view, broker, once, dirty, shared, app>> /\ ~sampled' /\ app # "down"
      BY <1>5 DEF TickEnds, PromiseInv
    <2>2. ctl' = ctl \/ \E s \in Sessions : Goes(s, "starting")
      BY <1>3, <1>5 DEF TickEnds, Recover, Refused, Ends
    <2> QED
      BY <2>1, <2>2, StartKeepsDriver DEF PromiseInv
  <1>6. CASE \/ TogglesOff \/ LayoutChanges \/ TaskbarCreated \/ Closes \/ TickReads \/ TickGoesOn
             \/ \E r \in Reasons : Suspends(r) \/ Resumes(r)
             \/ AppExits \/ AppCrashes \/ ExplorerStarts \/ Elapse
    <2>1. UNCHANGED <<view, broker, once, dirty, shared, ctl>>
      BY <1>6 DEF TogglesOff, LayoutChanges, TaskbarCreated, Closes, TickReads, TickGoesOn, AppExits,
           AppCrashes, Vanishes, ExplorerStarts, Elapse, LeaseElapses, Suspends, Resumes
    <2>2. SessionHasProgram'
      <3>1. CASE TogglesOff \/ LayoutChanges \/ TaskbarCreated \/ Closes \/ \E r \in Reasons : Suspends(r) \/ Resumes(r)
        BY <3>1 DEF TogglesOff, LayoutChanges, TaskbarCreated, Closes, Suspends, Resumes, Free, PromiseInv
      <3>2. CASE TickReads \/ TickGoesOn
        BY <3>2 DEF TickReads, TickGoesOn, PromiseInv
      <3>3. CASE AppExits \/ AppCrashes
        BY <3>3 DEF AppExits, AppCrashes, Vanishes
      <3>4. CASE ExplorerStarts \/ Elapse
        BY <3>4 DEF ExplorerStarts, Elapse, LeaseElapses, clientVars, PromiseInv
      <3> QED
        BY <1>6, <3>1, <3>2, <3>3, <3>4
    <2> QED
      BY <2>1, <2>2, StartKeepsDriver DEF PromiseInv
  <1> QED
    BY <1>1, <1>2, <1>4, <1>5, <1>6 DEF Next

PromiseStep == Promise!PromiseNext \/ UNCHANGED Promise!promiseVars
LoanVars == <<view, renewed, shared, finishing, dirty, explorer>>

(* What the promise sees of the loan is a function of LoanVars ...         *)
LEMMA LoanUntouched ==
    ASSUME UNCHANGED LoanVars
    PROVE  UNCHANGED Promise!loanVars
  BY DEF LoanVars, Promise!loanVars, Lent, GivenBack, Holder

(* ... and of the program that of four more variables and of age.          *)
LEMMA PromiseStutters ==
    ASSUME UNCHANGED LoanVars, UNCHANGED <<app, requested, session, marker, age>>
    PROVE  PromiseStep
  BY LoanUntouched DEF PromiseStep, Promise!promiseVars, Promise!programVars

(* The container is lent to a session that attaches.                       *)
LEMMA TakesLends ==
    ASSUME ServeInv, PromiseInv, NEW s \in Sessions, ctl[s] \in {"holding", "sending"},
           NEW state \in {"attached", "observing"}, Takes(s, state), shared = None,
           explorer = "up", ~broker => ~once, UNCHANGED guardVars,
           UNCHANGED <<age, renewed, dirty, explorer>>
    PROVE  PromiseStep
  <1>1. /\ view \in [Sessions -> Report] /\ s # None /\ s \in Nat /\ session \in Nat
        /\ ~finishing
    BY DEF ServeInv, DriverInv, TypeOK, LeaseTypeOK, Sessions, None
  <1>2. dirty = None
    BY DEF PromiseInv, LeftBehind
  <1>3. view[s].state = "none"
    BY DEF ServeInv, MarkInv, AttachedOnce, Attaching
  <1>4. s <= session
    BY <1>1 DEF ServeInv, BoundInv, LaterSessionsAreNew
  <1>5. \A t \in Sessions : view'[t].state = IF t = s THEN state ELSE view[t].state
    BY <1>1 DEF Takes, Report
  <1>6. Lent' = Lent \cup {s} /\ s \notin Lent
    BY <1>3, <1>5 DEF Lent
  <1>7. GivenBack' = GivenBack
    BY <1>3, <1>5 DEF GivenBack
  <1>8. Holder = None
    BY DEF Holder
  <1>9. Holder' = s
    BY DEF Holder, Takes
  <1>10. UNCHANGED <<app, requested, session, marker>>
    BY DEF guardVars, processVars, wishVars
  <1>11. Promise!Lends(s)
    BY <1>2, <1>4, <1>6, <1>7, <1>8, <1>9, <1>10 DEF Promise!Lends, Promise!programVars, Promise!None, None
  <1> QED
    BY <1>11 DEF PromiseStep, Promise!PromiseNext, Promise!Sessions, Sessions

LEMMA ControllerKeepsPromise ==
    ASSUME ServeInv, PromiseInv, NEW s \in Sessions,
           ControllerStep(s) \/ Killed(s) \/ OpenLease(s), UNCHANGED guardVars
    PROVE  PromiseStep
  <1> USE DEF clientVars, ctlVars, viewVars, linkVars, tapVars
  <1>1. UNCHANGED <<app, requested, session, marker>>
    BY DEF guardVars, processVars, wishVars
  <1>2. CASE Validate(s) \/ Acquire(s) \/ SendLease(s) \/ AttachFails(s) \/ SendTimesOut(s)
    <2>1. UNCHANGED <<LoanVars, age>>
      BY <1>2 DEF Validate, Acquire, SendLease, AttachFails, SendTimesOut, LoanVars
    <2> QED
      BY <1>1, <2>1, PromiseStutters
  <1>3. CASE ReportClient(s) \/ Check(s) \/ Leave(s) \/ Killed(s)
    <2>1. UNCHANGED <<LoanVars, age>>
      BY <1>3 DEF ReportClient, Check, Leave, Killed, LoanVars
    <2> QED
      BY <1>1, <2>1, PromiseStutters
  <1>4. CASE Inject(s)
    <2>1. shared = None
      BY <1>4 DEF Inject, ServeInv, DriverInv
    <2> QED
      BY <1>4, <2>1, TakesLends DEF Inject
  <1>5. CASE Renew(s)
    <2>1. UNCHANGED <<view, shared, finishing, dirty, explorer, age>>
      BY <1>5 DEF Renew
    <2>2. CASE UNCHANGED renewed
      BY <1>1, <2>1, <2>2, PromiseStutters DEF LoanVars
    <2>3. CASE ClientAlive(s) /\ renewed' = renewed \cup {s}
      <3>1. s = owner /\ age[s] <= HeartbeatLimit /\ s # None
        BY <2>3 DEF ClientAlive, Sessions, None
      <3>2. s = session /\ app # "down"
        BY <3>1 DEF ServeInv, MarkInv, PromiseInv, SessionHasProgram, Running
      <3>3. s \in Lent
        BY <1>5 DEF Renew, Loop, PromiseInv, DriverWasLent, Lent
      <3>4. UNCHANGED <<Lent, GivenBack, Holder>>
        BY <2>1 DEF Lent, GivenBack, Holder
      <3>5. Promise!Confirms
        BY <1>1, <2>1, <2>3, <3>1, <3>2, <3>3, <3>4 DEF Promise!Confirms, Promise!programVars
      <3> QED
        BY <3>5 DEF PromiseStep, Promise!PromiseNext
    <2> QED
      BY <1>5, <2>2, <2>3 DEF Renew, Unhealthy, Prolong
  <1>6. CASE OpenLease(s)
    <2>1. UNCHANGED <<age, renewed, dirty, explorer>> /\ explorer = "up" /\ broker
      BY <1>6 DEF OpenLease, ServeInv, DriverInv
    <2>2. CASE CanOpen(s)
      <3>1. Takes(s, "observing") /\ shared = None
        BY <1>6, <2>2 DEF OpenLease, CanOpen
      <3>2. ctl[s] = "sending"
        BY <1>6, <2>2 DEF OpenLease, CanOpen, ServeInv, BoundInv, SenderWaits
      <3> QED
        BY <2>1, <3>1, <3>2, TakesLends
    <2>3. CASE ~CanOpen(s)
      <3>1. UNCHANGED <<view, shared, finishing>>
        BY <1>6, <2>3 DEF OpenLease, RefuseLease
      <3> QED
        BY <1>1, <2>1, <3>1, PromiseStutters DEF LoanVars
    <2> QED
      BY <2>2, <2>3
  <1> QED
    BY <1>2, <1>3, <1>4, <1>5, <1>6 DEF ControllerStep

(* The tap widens within the lease, and gives back at its end.             *)
LEMMA TapKeepsPromise ==
    ASSUME ServeInv, TapTick \/ TapReady \/ TapFinish, UNCHANGED guardVars
    PROVE  PromiseStep
  <1>1. UNCHANGED <<app, requested, session, marker>>
    BY DEF guardVars, processVars, wishVars
  <1>2. CASE TapTick
    <2>1. /\ explorer = "up" /\ shared \in Sessions /\ shared # None
          /\ UNCHANGED <<explorer, age, renewed>>
      BY <1>2, TapEffect DEF Sessions, None
    <2>2. ~finishing
      BY <1>2, TapEffect
    <2>3. view[shared].state \notin {"none", "closed"} /\ \A t \in Sessions \ {shared} : view'[t] = view[t]
      BY <1>2, TapEffect
    <2>4. Holder = shared
      BY <2>2 DEF Holder
    <2>5. view'[shared].state # "none" => UNCHANGED Lent
      BY <2>1, <2>3 DEF Lent
    <2>6. view'[shared].state # "closed" => UNCHANGED GivenBack
      BY <2>1, <2>3 DEF GivenBack
    <2>7. CASE UNCHANGED <<view, shared, finishing, dirty>>
      BY <1>1, <2>1, <2>7, PromiseStutters DEF LoanVars
    <2>8. CASE /\ ~LeaseOver(shared) /\ dirty' = shared /\ UNCHANGED <<shared, finishing>>
               /\ view'[shared].state = "reserved"
      <3>1. UNCHANGED <<Lent, GivenBack, Holder>>
        BY <2>5, <2>6, <2>8 DEF Holder
      <3>2. left # 0
        BY <2>8 DEF LeaseOver
      <3>3. shared \in renewed => age[shared] <= HeartbeatLimit + Renewal
        BY <2>1, <3>2, LeaseAssumption DEF ServeInv, BoundInv, BoundTypes, RenewedEnds
      <3>4. Promise!Widens
        BY <1>1, <2>1, <2>4, <2>8, <3>1, <3>3
           DEF Promise!Widens, Promise!InTime, Promise!programVars, Promise!None, None
      <3> QED
        BY <3>4 DEF PromiseStep, Promise!PromiseNext
    <2>9. CASE /\ dirty' = None /\ shared' = None /\ finishing' = FALSE
               /\ view'[shared].state = "closed"
      <3>1. UNCHANGED Lent /\ Holder' = None
        BY <2>5, <2>9 DEF Holder
      <3>2. GivenBack' = GivenBack \cup {shared}
        BY <2>1, <2>3, <2>9 DEF GivenBack
      <3>3. Promise!GivesBack
        BY <1>1, <2>1, <2>4, <2>9, <3>1, <3>2 DEF Promise!GivesBack, Promise!programVars, Promise!None, None
      <3> QED
        BY <3>3 DEF PromiseStep, Promise!PromiseNext
    <2>10. CASE /\ dirty' = shared /\ shared' = shared /\ finishing' = TRUE
                /\ view'[shared].state = "failed"
      <3>1. UNCHANGED <<Lent, GivenBack>>
        BY <2>5, <2>6, <2>10
      <3>2. Holder' = None
        BY <2>10 DEF Holder
      <3>3. Promise!GivesBack
        BY <1>1, <2>1, <2>4, <2>10, <3>1, <3>2 DEF Promise!GivesBack, Promise!programVars, Promise!None, None
      <3> QED
        BY <3>3 DEF PromiseStep, Promise!PromiseNext
    <2> QED
      BY <1>2, <2>7, <2>8, <2>9, <2>10, TapEffect
  <1>3. CASE TapReady
    <2> DEFINE after == [view[shared] EXCEPT !.state = "observing"]
    <2>1. /\ shared \in Sessions /\ view \in [Sessions -> Report]
          /\ view[shared].state = "attached" /\ view' = [view EXCEPT ![shared] = after]
          /\ UNCHANGED <<renewed, shared, finishing, dirty, explorer, age>>
      BY <1>3 DEF TapReady, Serving, clientVars, ctlVars, linkVars, tapVars, ServeInv, TypeOK, LeaseTypeOK
    <2>2. after.state = "observing"
      BY <2>1 DEF Report
    <2> HIDE DEF after
    <2>3. UNCHANGED <<Lent, GivenBack, Holder>>
      BY <2>1, <2>2 DEF Lent, GivenBack, Holder
    <2> QED
      BY <1>1, <2>1, <2>3 DEF PromiseStep, Promise!promiseVars, Promise!programVars, Promise!loanVars
  <1>4. CASE TapFinish
    <2>1. UNCHANGED <<view, renewed, dirty, explorer, age>> /\ shared' = None
      BY <1>4 DEF TapFinish, clientVars, ctlVars, viewVars
    <2>2. UNCHANGED <<Lent, GivenBack>>
      BY <2>1 DEF Lent, GivenBack
    <2>3. Holder = None
      BY <1>4 DEF TapFinish, Holder
    <2>4. Holder' = None
      BY <2>1 DEF Holder
    <2> QED
      BY <1>1, <2>1, <2>2, <2>3, <2>4 DEF PromiseStep, Promise!promiseVars, Promise!programVars, Promise!loanVars
  <1> QED
    BY <1>2, <1>3, <1>4

LEMMA ExplorerKeepsPromise ==
    ASSUME \/ (ExplorerDies \/ ExplorerHangs \/ ExplorerAnswers) /\ UNCHANGED guardVars
           \/ ExplorerStarts
    PROVE  PromiseStep
  <1>1. UNCHANGED <<app, requested, session, marker, age, view, renewed>>
    BY DEF ExplorerDies, ExplorerHangs, ExplorerAnswers, ExplorerStarts, guardVars, processVars, wishVars,
           clientVars, ctlVars, viewVars
  <1>2. UNCHANGED <<Lent, GivenBack>>
    BY <1>1 DEF Lent, GivenBack
  <1>3. CASE ExplorerDies
    <2>1. explorer' = "down" /\ dirty' = None
      BY <1>3 DEF ExplorerDies
    <2>2. Holder' = None
      BY <1>3 DEF ExplorerDies, Holder
    <2>3. Promise!ExplorerChanges
      BY <1>1, <1>2, <2>1, <2>2 DEF Promise!ExplorerChanges, Promise!programVars, Promise!None, None
    <2> QED
      BY <2>3 DEF PromiseStep, Promise!PromiseNext
  <1>4. CASE ExplorerHangs \/ ExplorerAnswers \/ ExplorerStarts
    <2>1. UNCHANGED <<shared, finishing, dirty>>
      BY <1>4 DEF ExplorerHangs, ExplorerAnswers, ExplorerStarts, tapVars
    <2>2. UNCHANGED Holder
      BY <2>1 DEF Holder
    <2>3. Promise!ExplorerChanges
      BY <1>1, <1>2, <2>1, <2>2 DEF Promise!ExplorerChanges, Promise!programVars
    <2> QED
      BY <2>3 DEF PromiseStep, Promise!PromiseNext
  <1> QED
    BY <1>3, <1>4

(* Time passes over a lease only if the tap has looked at it.              *)
LEMMA ElapseKeepsPromise ==
    ASSUME ServeInv, Elapse
    PROVE  PromiseStep
  <1>1. UNCHANGED <<app, requested, session, marker, LoanVars>>
    BY DEF Elapse, LeaseElapses, LoanVars, linkVars
  <1>2. age' = [s \in Sessions |-> IF age[s] = AgeCap THEN AgeCap ELSE age[s] + 1]
    BY DEF Elapse, LeaseElapses
  <1>3. explorer = "up" /\ Holder \in renewed => age[Holder] <= HeartbeatLimit + Renewal
    <2> SUFFICES ASSUME explorer = "up", Holder \in renewed PROVE age[Holder] <= HeartbeatLimit + Renewal
      OBVIOUS
    <2>1. Holder # None
      BY DEF ServeInv, TypeOK, LeaseTypeOK, Sessions, None
    <2>2. Holder = shared
      BY <2>1 DEF Holder
    <2>3. ~finishing
      BY <2>1 DEF Holder
    <2>4. Serving
      BY <2>1, <2>2, <2>3 DEF Serving
    <2>5. punctual
      BY <2>4 DEF Elapse, LeaseElapses
    <2> QED
      BY <2>2, <2>4, <2>5 DEF ServeInv, BoundInv, OnTime
  <1>4. UNCHANGED Promise!loanVars
    BY <1>1, LoanUntouched
  <1>5. Promise!Elapses
    BY <1>1, <1>2, <1>3, <1>4 DEF Promise!Elapses, Promise!InTime, Promise!programVars, Promise!Cap, AgeCap,
       Promise!Sessions, Sessions
  <1> QED
    BY <1>5 DEF PromiseStep, Promise!PromiseNext

(* The wish changes, or the program ends.                                  *)
LEMMA WishKeepsPromise ==
    ASSUME UNCHANGED <<LoanVars, session, age>>, requested' \in BOOLEAN,
           requested' => app' # "down", marker' \in {marker, TRUE}
    PROVE  PromiseStep
  <1>1. UNCHANGED Promise!loanVars
    BY LoanUntouched
  <1>2. Promise!WishChanges
    BY <1>1 DEF Promise!WishChanges
  <1> QED
    BY <1>2 DEF PromiseStep, Promise!PromiseNext

(* The marker goes with the last session, once that is closed.             *)
LEMMA EndKeepsPromise ==
    ASSUME ServeInv, Closed, app # "down", UNCHANGED <<LoanVars, session, age, app>>,
           ~marker', ~requested' \/ UNCHANGED requested, requested' \in BOOLEAN
    PROVE  PromiseStep
  <1>1. UNCHANGED Promise!loanVars
    BY LoanUntouched
  <1>2. session \in GivenBack
    BY DEF Closed, GivenBack, ServeInv, TypeOK
  <1>3. Holder \notin renewed
    BY DEF Holder, ServeInv, MarkInv, NoneServedAfterClose, TypeOK, LeaseTypeOK, Sessions, None
  <1>4. ~Promise!Standing
    BY DEF Promise!Standing, Promise!None, None, ServeInv, MarkInv, NoneServedAfterClose, TakenAndOpen, Closed
  <1>5. requested' \in {FALSE, requested}
    OBVIOUS
  <1>6. Promise!Unmarks
    BY <1>1, <1>2, <1>3, <1>4, <1>5 DEF Promise!Unmarks
  <1> QED
    BY <1>6 DEF PromiseStep, Promise!PromiseNext

(* A session begins over a change only if the user asks for it anew.       *)
LEMMA StartKeepsPromise ==
    ASSUME ServeInv, NEW automatic, NEW file, Starts(automatic, file),
           UNCHANGED LoanVars, app' # "down", requested',
           Standing => app # "down" /\ ~requested
    PROVE  PromiseStep
  <1>1. UNCHANGED Promise!loanVars
    BY LoanUntouched
  <1>2. Promise!Standing => app # "down" /\ ~requested
    BY DEF Promise!Standing, Standing, Promise!None, None
  <1>3. /\ session < MaxSessions /\ session' = session + 1
        /\ age' = [age EXCEPT ![session + 1] = 0]
    BY DEF Starts
  <1>4. marker'
    BY DEF Starts
  <1>5. Promise!Begins
    BY <1>1, <1>2, <1>3, <1>4 DEF Promise!Begins
  <1> QED
    BY <1>5 DEF PromiseStep, Promise!PromiseNext

(* Every way in which a session ends or is followed, on a marker that is   *)
(* there or has just been removed.                                         *)
LEMMA RecoveryKeepsPromise ==
    ASSUME ServeInv, NEW file \in BOOLEAN, Recover(file) \/ Ends(file), app # "down",
           UNCHANGED <<LoanVars, app>>, file = marker \/ (Closed /\ ~file)
    PROVE  PromiseStep
  <1>1. requested \in BOOLEAN /\ marker \in BOOLEAN
    BY DEF ServeInv, TypeOK
  <1>2. ~file => ~Standing
    <2>1. CASE file = marker
      BY <2>1, MarkerSpeaks DEF OverrideIsMarked
    <2>2. CASE Closed
      BY <2>2 DEF ServeInv, MarkInv, NoneServedAfterClose, TakenAndOpen, Closed, Standing
    <2> QED
      BY <2>1, <2>2
  <1>3. CASE UNCHANGED <<session, age>> /\ (requested' = FALSE \/ requested' = requested) /\ marker' \in {file, TRUE}
    <2>1. requested' \in BOOLEAN /\ (~requested' \/ UNCHANGED requested)
      BY <1>1, <1>3
    <2>2. CASE marker' \in {marker, TRUE}
      BY <1>3, <2>1, <2>2, WishKeepsPromise
    <2>3. CASE Closed /\ ~marker'
      BY <1>3, <2>1, <2>3, EndKeepsPromise
    <2> QED
      BY <1>3, <2>2, <2>3
  <1>4. CASE Starts(TRUE, file) /\ SetRequested(TRUE)
    <2>1. ~Standing
      BY <1>2, <1>4 DEF Starts, Barred
    <2>2. requested'
      BY <1>4 DEF SetRequested
    <2> QED
      BY <1>4, <2>1, <2>2, StartKeepsPromise
  <1>5. ASSUME Refused(TRUE, file) \/ Ends(file)
        PROVE  UNCHANGED <<session, age>> /\ marker' \in {file, TRUE}
    BY <1>5 DEF Refused, Ends
  <1>6. CASE Ends(file)
    BY <1>3, <1>5, <1>6 DEF Ends, SetRequested
  <1>7. CASE Refused(TRUE, file) /\ SetRequested(FALSE)
    BY <1>3, <1>5, <1>7 DEF SetRequested
  <1>8. CASE marker' = file /\ UNCHANGED <<session, ctl, age, wishVars>>
    BY <1>3, <1>8 DEF wishVars
  <1> QED
    BY <1>4, <1>6, <1>7, <1>8 DEF Recover

LEMMA TickKeepsPromise ==
    ASSUME ServeInv, PromiseInv, TickReads \/ TickGoesOn \/ TickEnds \/ TickIdle
    PROVE  PromiseStep
  <1> USE DEF EnableFrame, clientVars, ctlVars, viewVars, linkVars, tapVars, processVars
  <1>1. UNCHANGED <<LoanVars, app>>
    BY DEF TickReads, TickGoesOn, TickEnds, TickIdle, LoanVars
  <1>2. requested \in BOOLEAN /\ marker \in BOOLEAN
    BY DEF ServeInv, TypeOK
  <1>3. CASE TickReads
    <2>1. UNCHANGED <<requested, session, marker>>
      BY <1>3 DEF TickReads, wishVars
    <2>2. CASE UNCHANGED age
      BY <1>1, <2>1, <2>2, PromiseStutters
    <2>3. CASE age' = [age EXCEPT ![owner] = 0]
      <3>1. app # "down" /\ owner # None
        BY <1>3 DEF TickReads, Running
      <3>2. owner = session
        BY <3>1 DEF ServeInv, MarkInv
      <3>3. Promise!SignOfLife
        BY <1>1, <2>1, <2>3, <3>1, <3>2, LoanUntouched
           DEF Promise!SignOfLife, Promise!programVars, Promise!None, None
      <3> QED
        BY <3>3 DEF PromiseStep, Promise!PromiseNext
    <2> QED
      BY <1>3, <2>2, <2>3 DEF TickReads
  <1>4. CASE TickGoesOn
    <2>1. UNCHANGED <<session, age, marker>>
      BY <1>4 DEF TickGoesOn
    <2>2. requested' \in BOOLEAN
      BY <1>2, <1>4 DEF TickGoesOn, Restore, RecoverLayout, SetRequested, wishVars
    <2>3. app # "down"
      BY <1>4 DEF TickGoesOn, PromiseInv, SessionHasProgram
    <2> QED
      BY <1>1, <2>1, <2>2, <2>3, WishKeepsPromise
  <1>5. CASE TickEnds
    <2>1. app # "down"
      BY <1>5 DEF TickEnds, PromiseInv, SessionHasProgram
    <2>2. \/ Ends(marker)
          \/ Closed /\ (Recover(FALSE) \/ Ends(FALSE))
      BY <1>5, RestoredIsClosed DEF TickEnds
    <2> QED
      BY <1>1, <1>2, <2>1, <2>2, RecoveryKeepsPromise
  <1>6. CASE TickIdle
    BY <1>1, <1>2, <1>6, RecoveryKeepsPromise DEF TickIdle, Free
  <1> QED
    BY <1>3, <1>4, <1>5, <1>6

LEMMA UserKeepsPromise ==
    ASSUME ServeInv, WishInv,
           \/ StartApp \/ TogglesOn \/ TogglesOff \/ LayoutChanges \/ TaskbarCreated
           \/ \E r \in Reasons : Suspends(r) \/ Resumes(r)
           \/ Closes \/ AppExits \/ AppCrashes
    PROVE  PromiseStep
  <1> USE DEF EnableFrame, Frame, ctlVars, viewVars, linkVars, tapVars
  <1>1. UNCHANGED LoanVars
    BY DEF StartApp, TogglesOn, TogglesOff, LayoutChanges, TaskbarCreated, Suspends, Resumes,
           Closes, AppExits, AppCrashes, Vanishes, LoanVars
  <1>2. requested \in BOOLEAN /\ marker \in BOOLEAN
    BY DEF ServeInv, TypeOK
  <1>3. ASSUME UNCHANGED <<session, age>>, requested' = FALSE \/ (requested' = requested /\ app' # "down"),
               marker' \in {marker, TRUE}
        PROVE  PromiseStep
    BY <1>1, <1>2, <1>3, WishKeepsPromise
  <1>4. ASSUME NEW automatic, Refused(automatic, marker)
        PROVE  UNCHANGED <<session, age>> /\ marker' \in {marker, TRUE}
    BY <1>4 DEF Refused
  <1>5. CASE StartApp
    <2>1. ~requested /\ app' = "up"
      BY <1>5 DEF StartApp, WishInv
    <2>2. CASE Starts(TRUE, marker) /\ requested'
      <3>1. ~Standing
        BY <2>2, MarkerSpeaks DEF Starts, Barred, OverrideIsMarked
      <3> QED
        BY <1>1, <2>1, <2>2, <3>1, StartKeepsPromise
    <2>3. CASE Refused(TRUE, marker) /\ requested' = requested
      BY <1>3, <1>4, <2>1, <2>3
    <2>4. CASE UNCHANGED <<age, wishVars, session, marker>>
      BY <1>3, <2>1, <2>4 DEF wishVars
    <2> QED
      BY <1>5, <2>2, <2>3, <2>4 DEF StartApp
  <1>6. CASE TogglesOn
    <2>1. ~requested /\ app # "down" /\ app' = app
      BY <1>6 DEF TogglesOn, Free, processVars
    <2>2. CASE Starts(FALSE, marker) /\ SetRequested(TRUE)
      <3>1. requested'
        BY <2>2 DEF SetRequested
      <3> QED
        BY <1>1, <2>1, <2>2, <3>1, StartKeepsPromise
    <2>3. CASE Refused(FALSE, marker) /\ SetRequested(FALSE)
      BY <1>3, <1>4, <2>3 DEF SetRequested
    <2> QED
      BY <1>6, <2>2, <2>3 DEF TogglesOn
  <1>7. CASE TogglesOff \/ TaskbarCreated \/ Closes
    <2>1. UNCHANGED <<session, age, marker>>
      BY <1>7 DEF TogglesOff, TaskbarCreated, Closes
    <2>2. requested' = FALSE
      BY <1>7 DEF TogglesOff, TaskbarCreated, Closes, Restore, SetRequested
    <2> QED
      BY <1>3, <2>1, <2>2
  <1>8. CASE LayoutChanges \/ \E r \in Reasons : Suspends(r) \/ Resumes(r)
    <2>1. UNCHANGED <<session, age, marker>>
      BY <1>8 DEF LayoutChanges, Suspends, Resumes
    <2>2. UNCHANGED requested
      BY <1>8 DEF LayoutChanges, Suspends, Resumes, RecoverLayout, wishVars
    <2>3. app' = app /\ app = "up"
      BY <1>8 DEF LayoutChanges, Suspends, Resumes, Free, processVars
    <2> QED
      BY <1>3, <2>1, <2>2, <2>3
  <1>9. CASE AppExits \/ AppCrashes
    <2>1. UNCHANGED <<session, age, marker>>
      BY <1>9 DEF AppExits, AppCrashes, Vanishes
    <2>2. requested' = FALSE
      BY <1>9 DEF AppExits, AppCrashes, Vanishes
    <2> QED
      BY <1>3, <2>1, <2>2
  <1> QED
    BY <1>5, <1>6, <1>7, <1>8, <1>9

LEMMA EveryStepKeepsPromise ==
    ServeInv /\ WishInv /\ PromiseInv /\ [Next]_vars
        => [Promise!PromiseNext]_(Promise!promiseVars)
  <1> SUFFICES ASSUME ServeInv, WishInv, PromiseInv, [Next]_vars PROVE PromiseStep
    BY DEF PromiseStep
  <1>1. CASE UNCHANGED vars
    BY <1>1, PromiseStutters
       DEF vars, leaseVars, clientVars, ctlVars, viewVars, linkVars, tapVars, guardVars, processVars,
           wishVars, LoanVars
  <1>2. CASE LeaseNext /\ UNCHANGED guardVars
    BY <1>2, ControllerKeepsPromise, TapKeepsPromise, ExplorerKeepsPromise DEF LeaseNext
  <1> QED
    BY <1>1, <1>2, ExplorerKeepsPromise, ElapseKeepsPromise, TickKeepsPromise, UserKeepsPromise DEF Next

(* The three processes keep the promise of TrayPromise, however they       *)
(* interleave, hang and die: the container is lent to one session at a     *)
(* time and only unchanged, a marker is removed only when the last session *)
(* has given it back, no session is begun without the user over a change   *)
(* that stands, and a lease that was ever renewed is over in time.         *)
THEOREM KeepsPromise == Spec => ImplementsPromise
  <1>1. Init => Promise!PromiseInit
    BY DEF Init, LeaseInit, Promise!PromiseInit, Promise!None, Promise!Cap, Promise!Sessions, None, Sessions,
           AgeCap, NoReport, Lent, GivenBack, Holder
  <1>2. Init => WishInv
    BY DEF Init, WishInv, None
  <1> QED
    BY <1>1, <1>2, ServeAlways, WishKept, PromiseInvInit, PromiseInvKept, EveryStepKeepsPromise, PTL
       DEF Spec, ImplementsPromise, Promise!PromiseSpec
=============================================================================
