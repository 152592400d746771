----------------------------- MODULE TrayPromise -----------------------------
(***************************************************************************)
(* What the input-method tray guard promises about a container of the      *)
(* taskbar that belongs to Explorer: its width is changed only by the      *)
(* session that has been lent it, and by nobody else before it has been    *)
(* given back; a marker speaks for what may have been left behind, and is  *)
(* taken away only when nothing can have been; on its own the program      *)
(* starts no session over a changed width; and a change outlives the last  *)
(* sign of life of the user interface by a bounded time.  How three        *)
(* processes keep the promise (leases, blocks of shared memory, messages,  *)
(* a file) is the subject of ImeGuard, which implements this module.       *)
(***************************************************************************)
EXTENDS Naturals

CONSTANTS
    MaxSessions,        \* bound: sessions started
    HeartbeatLimit,     \* a sign of life older than this confirms nothing
    Bound               \* a confirmed change stands no longer than this after one

VARIABLES
    running,            \* the program that started the sessions is alive
    asked,              \* the user wants the change
    latest,             \* the session started last, or None
    marked,             \* the marker is there
    quiet,              \* session -> time since its last sign of life
    given,              \* the sessions that were lent the container
    confirmed,          \* those of them that a living program has confirmed
    held,               \* the session that has it now, or None
    widened,            \* the session whose change of the width stands, or None
    closed,             \* the sessions that have given it back unchanged
    answers             \* Explorer responds

programVars == <<running, asked, latest, marked>>
loanVars    == <<given, confirmed, held, widened, closed, answers>>
promiseVars == <<programVars, quiet, loanVars>>

Sessions == 1 .. MaxSessions
None == 0
Cap == Bound + 1

(* The changes the marker speaks for: those of the last session and those  *)
(* that were ever confirmed.                                               *)
Standing == widened # None /\ (widened = latest \/ widened \in confirmed)

PromiseInit ==
    /\ running = FALSE /\ asked = FALSE /\ latest = None /\ marked = FALSE
    /\ quiet = [s \in Sessions |-> Cap]
    /\ given = {} /\ confirmed = {} /\ held = None /\ widened = None /\ closed = {}
    /\ answers = TRUE
-----------------------------------------------------------------------------
(* The program and its user.                                               *)

(* A session begins with its marker.  Only a user who turns the change on  *)
(* in the running program may begin one over a change that stands.         *)
Begins ==
    /\ latest < MaxSessions
    /\ Standing => running /\ ~asked
    /\ running' /\ asked' /\ latest' = latest + 1 /\ marked'
    /\ quiet' = [quiet EXCEPT ![latest + 1] = 0]
    /\ UNCHANGED loanVars

(* Wishes come and go, and so does the program; no wish outlives it.  The  *)
(* marker may appear at any time.                                          *)
WishChanges ==
    /\ running' \in BOOLEAN /\ asked' \in BOOLEAN /\ (asked' => running')
    /\ marked' \in {marked, TRUE}
    /\ UNCHANGED <<latest, quiet, loanVars>>

(* The marker goes when the last session has given the container back and  *)
(* no other that was confirmed has it.                                     *)
Unmarks ==
    /\ running /\ latest \in closed /\ held \notin confirmed /\ ~Standing
    /\ ~marked' /\ asked' \in {FALSE, asked}
    /\ UNCHANGED <<running, latest, quiet, loanVars>>

SignOfLife ==
    /\ running /\ latest # None
    /\ quiet' = [quiet EXCEPT ![latest] = 0]
    /\ UNCHANGED <<programVars, loanVars>>
-----------------------------------------------------------------------------
(* The container.                                                          *)

(* It is lent once to a session, and only unchanged.                       *)
Lends(s) ==
    /\ answers /\ held = None /\ widened = None
    /\ s <= latest /\ s \notin given
    /\ held' = s /\ given' = given \cup {s}
    /\ UNCHANGED <<programVars, quiet, confirmed, widened, closed, answers>>

(* The last session alone is confirmed, while its program is alive.        *)
Confirms ==
    /\ running /\ latest \in given /\ quiet[latest] <= HeartbeatLimit
    /\ confirmed' = confirmed \cup {latest}
    /\ UNCHANGED <<programVars, quiet, given, held, widened, closed, answers>>

InTime == held \in confirmed => quiet[held] <= Bound

Widens ==
    /\ answers /\ held # None /\ InTime
    /\ widened' = held
    /\ UNCHANGED <<programVars, quiet, given, confirmed, held, closed, answers>>

(* The session ends; when the undo fails the change is left behind, and    *)
(* nobody is lent the container after that.                                *)
GivesBack ==
    /\ answers /\ held # None
    /\ held' = None
    /\ \/ widened' = None /\ closed' = closed \cup {held}
       \/ widened' = held /\ UNCHANGED closed
    /\ UNCHANGED <<programVars, quiet, given, confirmed, answers>>

(* Explorer hangs or answers again, or its end takes everything with it.   *)
ExplorerChanges ==
    /\ answers' \in BOOLEAN
    /\ \/ UNCHANGED <<held, widened>>
       \/ ~answers' /\ held' = None /\ widened' = None
    /\ UNCHANGED <<programVars, quiet, given, confirmed, closed>>

(* While Explorer answers, time does not pass over a loan that is overdue. *)
Elapses ==
    /\ answers => InTime
    /\ quiet' = [s \in Sessions |-> IF quiet[s] = Cap THEN Cap ELSE quiet[s] + 1]
    /\ UNCHANGED <<programVars, loanVars>>

PromiseNext ==
    \/ Begins \/ WishChanges \/ Unmarks \/ SignOfLife
    \/ \E s \in Sessions : Lends(s)
    \/ Confirms \/ Widens \/ GivesBack \/ ExplorerChanges \/ Elapses

PromiseSpec == PromiseInit /\ [][PromiseNext]_promiseVars
=============================================================================
