--------------------------- MODULE SingleInstance ---------------------------
(***************************************************************************)
(* One WindowMark at a time: the named mutex, the second launch that may   *)
(* take over, and installing and uninstalling, which start one process     *)
(* from another (WinMain.cpp, InstallerCommon.cpp, SelfInstall.cpp).       *)
(* The mutex exists while any process holds a handle to it.                *)
(***************************************************************************)
EXTENDS FiniteSets

CONSTANTS
  Procs,           \* processes; one that ended may be started again
  NoProc,
  InstanceFaults   \* subset of {"elevated"}: processes that cannot be opened

ASSUME InstanceAssumption == NoProc \notin Procs /\ InstanceFaults \subseteq {"elevated"}

VARIABLES
  stage,       \* [Procs -> where its WinMain is]
  launch,      \* [Procs -> [file, kind]]: the image and the command line
  handles,     \* processes holding a handle to the mutex
  probing,     \* processes between creating the mutex and closing it again
  quitting,    \* processes whose control window was asked to quit
  victims,     \* [Procs -> those StopRunningInstances has still to wait for]
  installed    \* the installation directory holds a program

instanceVars == <<stage, launch, handles, probing, quitting, victims, installed>>

Images == {"portable", "installed", "staged"}
Commands == {"plain", "autostart", "replace", "purge", "install", "uninstall"}
Stages == {"off", "replacing", "probed", "claiming", "second", "asking", "stopping",
           "waiting", "running", "leaving", "copying", "removing", "purging"}

NotLaunched == [file |-> "portable", kind |-> "plain"]

InstanceInit ==
  /\ stage = [p \in Procs |-> "off"]
  /\ launch = [p \in Procs |-> NotLaunched]
  /\ handles = {} /\ probing = {} /\ quitting = {}
  /\ victims = [p \in Procs |-> {}]
  /\ installed = FALSE

Alive == {p \in Procs : stage[p] # "off"}
MutexExists == handles \cup probing # {}
\* FindRunningInstances: by the name of the executable; the copy the uninstaller
\* works from has another.
Found(p) == {q \in Alive \ {p} : launch[q].file # "staged"}
At(p, s) == stage[p] = s
Goes(p, s) == stage' = [stage EXCEPT ![p] = s]

\* What a process does once StopRunningInstances has returned.
AfterStopping(p) == CASE launch[p].kind = "install" -> "copying"
                      [] launch[p].kind = "uninstall" -> "removing"
                      [] OTHER -> "running"
-----------------------------------------------------------------------------
(***************************************************************************)
(* Starting: wWinMain up to the mutex, and what a second launch does.      *)
(***************************************************************************)
\* --install and --uninstall come before the mutex.
Entry(kind) == CASE kind = "replace" -> "replacing"
                 [] kind \in {"install", "uninstall"} -> "stopping"
                 [] OTHER -> "claiming"

Started(p, file, kind) ==
  /\ p \in Procs /\ stage[p] = "off"
  /\ launch' = [launch EXCEPT ![p] = [file |-> file, kind |-> kind]]

UserStarts(p, file, kind) ==
  /\ Started(p, file, kind)
  /\ file = "installed" => installed
  /\ kind = "install" => file = "portable"
  /\ kind \notin {"replace", "uninstall"}
  /\ Goes(p, IF kind = "install" /\ Found(p) = {} THEN "copying" ELSE Entry(kind))
  /\ IF Entry(kind) = "stopping"
     THEN victims' = [victims EXCEPT ![p] = Found(p)] /\ quitting' = quitting \cup Found(p)
     ELSE UNCHANGED <<victims, quitting>>
  /\ UNCHANGED <<handles, probing, installed>>

AtLogon(p) ==
  /\ installed
  /\ Started(p, "installed", "autostart")
  /\ Goes(p, "claiming")
  /\ UNCHANGED <<handles, probing, quitting, victims, installed>>

\* --replace: WaitForSingletonRelease(8000) first.  A probe that finds no mutex
\* creates it and closes it again.
Replacing(p) ==
  /\ At(p, "replacing")
  /\ \/ ~MutexExists /\ probing' = probing \cup {p} /\ Goes(p, "probed")
     \/ MutexExists /\ Goes(p, "claiming") /\ UNCHANGED probing
  /\ UNCHANGED <<launch, handles, quitting, victims, installed>>

ReplaceProbed(p) ==
  /\ At(p, "probed") /\ launch[p].kind = "replace"
  /\ probing' = probing \ {p} /\ Goes(p, "claiming")
  /\ UNCHANGED <<launch, handles, quitting, victims, installed>>

Claim(p) ==
  /\ At(p, "claiming")
  /\ handles' = handles \cup {p}
  /\ Goes(p, IF MutexExists THEN "second"
             ELSE IF launch[p].kind = "purge" THEN "purging" ELSE "running")
  /\ UNCHANGED <<launch, probing, quitting, victims, installed>>

Ended(p) ==
  /\ handles' = handles \ {p} /\ quitting' = quitting \ {p}
  /\ launch' = [launch EXCEPT ![p] = NotLaunched]
  /\ Goes(p, "off")

\* Another file than the one that runs may take over, if the user says so; the
\* running one's path is unknown when the process cannot be opened.  --purge asks
\* the running one to quit and waits, holding a handle itself, until time is up.
Second(p) ==
  /\ At(p, "second")
  /\ \/ /\ launch[p].kind = "purge"
        /\ quitting' = quitting \cup {q \in Found(p) : stage[q] = "running"}
        /\ Goes(p, "purging")
        /\ UNCHANGED <<handles, launch>>
     \/ /\ launch[p].kind \notin {"purge", "autostart"}
        /\ \E q \in Found(p) : launch[q].file # launch[p].file
        /\ Goes(p, "asking")
        /\ UNCHANGED <<handles, quitting, launch>>
     \/ /\ launch[p].kind # "purge"
        /\ \/ launch[p].kind = "autostart" \/ Found(p) = {}
           \/ \E q \in Found(p) : \/ launch[q].file = launch[p].file
                                 \/ "elevated" \in InstanceFaults
        /\ Ended(p)
  /\ UNCHANGED <<probing, victims, installed>>

\* The message box: Yes stops every other instance, wherever it is by then.
Answer(p) ==
  /\ At(p, "asking")
  /\ \/ /\ quitting' = quitting \cup {q \in Found(p) : stage[q] = "running"}
        /\ victims' = [victims EXCEPT ![p] = Found(p)]
        /\ Goes(p, IF Found(p) = {} THEN "running" ELSE "stopping")
        /\ UNCHANGED <<handles, launch>>
     \/ Ended(p) /\ UNCHANGED victims
  /\ UNCHANGED <<probing, installed>>
-----------------------------------------------------------------------------
(***************************************************************************)
(* StopRunningInstances and WaitForSingletonRelease.                       *)
(***************************************************************************)
(* Mutant: a process that does not go is given up.                         *)
StopOneGivingUp(p) ==
  /\ At(p, "stopping")
  /\ \E q \in victims[p] : victims' = [victims EXCEPT ![p] = @ \ {q}]
  /\ UNCHANGED <<stage, launch, handles, probing, quitting, installed>>

\* One process after the other is waited for and, when it does not go,
\* terminated; one that cannot be opened is passed over.
StopOne(p) ==
  /\ At(p, "stopping")
  /\ \E q \in victims[p] :
       \/ /\ stage' = [stage EXCEPT ![q] = "off"]
          /\ launch' = [launch EXCEPT ![q] = NotLaunched]
          /\ victims' = [victims EXCEPT ![p] = @ \ {q}, ![q] = {}]
          /\ handles' = handles \ {q} /\ probing' = probing \ {q}
          /\ quitting' = quitting \ {q}
       \/ /\ "elevated" \in InstanceFaults
          /\ victims' = [victims EXCEPT ![p] = @ \ {q}]
          /\ UNCHANGED <<stage, launch, handles, probing, quitting>>
  /\ UNCHANGED installed

StoppedAll(p) ==
  /\ At(p, "stopping") /\ victims[p] = {}
  /\ Goes(p, "waiting")
  /\ UNCHANGED <<launch, handles, probing, quitting, victims, installed>>

\* No caller that goes on looks at the result.
WaitForSingletonRelease(p) ==
  /\ At(p, "waiting")
  /\ \/ ~MutexExists /\ probing' = probing \cup {p} /\ Goes(p, "probed")
     \/ MutexExists /\ Goes(p, AfterStopping(p)) /\ UNCHANGED probing
  /\ UNCHANGED <<launch, handles, quitting, victims, installed>>

StopProbed(p) ==
  /\ At(p, "probed") /\ launch[p].kind # "replace"
  /\ probing' = probing \ {p} /\ Goes(p, AfterStopping(p))
  /\ UNCHANGED <<launch, handles, quitting, victims, installed>>
-----------------------------------------------------------------------------
(***************************************************************************)
(* Running, and what the tray menu starts.                                 *)
(***************************************************************************)
Quit(p) ==
  /\ At(p, "running")
  /\ Goes(p, "leaving") /\ quitting' = quitting \ {p}
  /\ UNCHANGED <<launch, handles, probing, victims, installed>>

Leave(p) ==
  /\ At(p, "leaving") /\ Ended(p)
  /\ UNCHANGED <<probing, victims, installed>>

\* InstallFromTray: the copy may fail, and so may starting it.
TrayInstall(p, q) ==
  /\ At(p, "running") /\ launch[p].file = "portable"
  /\ \/ /\ Started(q, "installed", "replace")
        /\ stage' = [stage EXCEPT ![q] = "replacing", ![p] = "leaving"]
        /\ installed' = TRUE
     \/ /\ q = NoProc
        /\ UNCHANGED <<stage, launch>> /\ installed' \in {installed, TRUE}
  /\ UNCHANGED <<handles, probing, quitting, victims>>

\* StageAndRelaunchUninstall, and the copy's own start.
TrayUninstall(p, q) ==
  /\ At(p, "running") /\ installed
  /\ Started(q, "staged", "uninstall")
  /\ stage' = [stage EXCEPT ![q] = "stopping", ![p] = "leaving"]
  /\ victims' = [victims EXCEPT ![q] = Found(q)]
  /\ quitting' = quitting \cup {x \in Found(q) \ {p} : stage[x] = "running"}
  /\ UNCHANGED <<handles, probing, installed>>

\* DoInstall from the command line, once the others are stopped: copy, start
\* the installed one, end.
Copying(p, q) ==
  /\ At(p, "copying")
  /\ \/ /\ q # p /\ q \in Procs /\ stage[q] = "off"
        /\ launch' = [launch EXCEPT ![q] = [file |-> "installed", kind |-> "replace"],
                                    ![p] = NotLaunched]
        /\ stage' = [stage EXCEPT ![q] = "replacing", ![p] = "off"]
        /\ installed' = TRUE
     \/ /\ q = NoProc
        /\ Goes(p, "off") /\ launch' = [launch EXCEPT ![p] = NotLaunched]
        /\ installed' \in {installed, TRUE}
  /\ quitting' = quitting \ {p}
  /\ UNCHANGED <<handles, probing, victims>>

\* The tree stays as long as a process runs from it.
Removing(p) ==
  /\ At(p, "removing")
  /\ installed' = (installed /\ \E q \in Alive : launch[q].file = "installed")
  /\ Ended(p)
  /\ UNCHANGED <<probing, victims>>

Purging(p) ==
  /\ At(p, "purging") /\ Ended(p)
  /\ UNCHANGED <<probing, victims, installed>>
-----------------------------------------------------------------------------
InstanceNext ==
  \E p \in Procs :
    \/ AtLogon(p) \/ Replacing(p) \/ ReplaceProbed(p) \/ Claim(p) \/ Second(p)
    \/ Answer(p) \/ StopOne(p) \/ StoppedAll(p) \/ WaitForSingletonRelease(p)
    \/ StopProbed(p) \/ Quit(p) \/ Leave(p) \/ Removing(p) \/ Purging(p)
    \/ \E file \in Images \ {"staged"}, kind \in Commands : UserStarts(p, file, kind)
    \/ \E q \in Procs \cup {NoProc} : TrayInstall(p, q) \/ Copying(p, q)
    \/ \E q \in Procs : TrayUninstall(p, q)
InstanceSpec == InstanceInit /\ [][InstanceNext]_instanceVars

InstanceTypeOK ==
  /\ stage \in [Procs -> Stages]
  /\ launch \in [Procs -> [file : Images, kind : Commands]]
  /\ handles \subseteq Alive /\ probing \subseteq Alive /\ quitting \subseteq Alive
  /\ \A p \in Procs : victims[p] \subseteq Procs
  /\ installed \in BOOLEAN

\* Two instances never run at once, one on its way out included.
AtMostOneRuns ==
  \A p, q \in Procs :
    p # q /\ stage[p] = "running" => stage[q] \notin {"running", "leaving"}

=============================================================================
