----------------------------- MODULE Lifecycle -----------------------------
(* updater.rs, the update handlers of admin.rs, the desktop shell and the  *)
(* start and end of the backend: how BotGate is launched, watched, updated *)
(* and launched again.  Three kinds of process take part: the desktop      *)
(* window (macOS and Windows), which spawns the backend and waits for its  *)
(* dashboard; the backend, in which an update is a task; and the script an *)
(* update leaves behind, which waits for the old process to be gone,       *)
(* replaces the application and starts it.  On Linux there is no desktop   *)
(* and the script waits for the backend itself.  Nothing in the code keeps *)
(* a second launch from running beside the first.                          *)
EXTENDS Naturals, FiniteSets

CONSTANTS
  Task,          \* requests to update
  MaxLaunches,   \* bound: launches of the application
  MaxCrashes     \* bound: deaths of a backend or a window that nobody asked for

ASSUME LifecycleAssumptions == MaxLaunches \in Nat /\ MaxCrashes \in Nat

Launch == 1..MaxLaunches

VARIABLES
  platform,      \* "linux", "macos" or "windows"
  launches,      \* launches so far
  crashes,       \* deaths so far
  desktop,       \* the window of each launch: off, waiting for the dashboard, open, closing
  backend,       \* the backend of each launch: off, booting, or up
  version,       \* the version it is of
  status,        \* its UpdateProgress.status
  installed,     \* the version on disk: old, new, unverified, or in pieces
  task,          \* where each update is
  at,            \* the launch whose backend it runs in
  package,       \* what each update downloaded, in memory
  folder,        \* the directory it is saved in, named after an update
  saved,         \* what is saved there
  script,        \* where each update's script is, and what it found installed
  raced,         \* history: launches where two requests passed the check before
                 \* either set the status, until the next update after those
  orphaned,      \* history: launches whose window ended beside a live backend
  overwritten    \* history: updates over whose package another saved a bad one

launched == <<platform, launches, version>>
processes == <<launched, crashes, desktop, backend>>
memory == <<status, task, package>>
downloads == <<folder, saved, overwritten>>
files == <<installed, downloads, script>>
marks == <<at, raced, orphaned>>
vars == <<processes, memory, files, marks>>

Working == {"checking", "downloading", "saved", "scheduling", "exiting"}
ActiveButRestarting == {"checking", "downloading"}                \* mutant
Active == {"checking", "downloading", "restarting"}
Content == {"none", "good", "bad"}
OnDisk == {"old", "new", "unverified", "pieces"}
ScriptState == [pc: {"none", "waiting", "installing", "replacing", "done", "failed"},
                found: OnDisk]

TypeOK ==
  /\ platform \in {"linux", "macos", "windows"}
  /\ launches \in 0..MaxLaunches /\ crashes \in 0..MaxCrashes
  /\ desktop \in [Launch -> {"off", "waiting", "open", "closing"}]
  /\ backend \in [Launch -> {"off", "booting", "up"}]
  /\ version \in [Launch -> OnDisk \ {"pieces"}] /\ installed \in OnDisk
  /\ status \in [Launch -> {"idle", "failed"} \cup Active]
  /\ task \in [Task -> {"unasked", "asked", "ended"} \cup Working]
  /\ at \in [Task -> 0..MaxLaunches]
  /\ package \in [Task -> Content] /\ saved \in [Task -> Content]
  /\ folder \in [Task -> Task]
  /\ script \in [Task -> ScriptState]
  /\ raced \subseteq Launch /\ orphaned \subseteq Launch /\ overwritten \subseteq Task

Init ==
  /\ platform \in {"linux", "macos", "windows"}
  /\ launches = 0 /\ crashes = 0
  /\ desktop = [l \in Launch |-> "off"] /\ backend = desktop
  /\ version = [l \in Launch |-> "old"] /\ installed = "old"
  /\ status = [l \in Launch |-> "idle"]
  /\ task = [t \in Task |-> "unasked"] /\ at = [t \in Task |-> 0]
  /\ package = [t \in Task |-> "none"] /\ saved = package
  /\ folder = [t \in Task |-> t]
  /\ script = [t \in Task |-> [pc |-> "none", found |-> "old"]]
  /\ raced = {} /\ orphaned = {} /\ overwritten = {}

HasDesktop == platform # "linux"
TasksAt(l) == {t \in Task : at[t] = l}

\* What is in the memory of a process dies with it: the status, its tasks and
\* what they have downloaded.
TasksEnd(l) ==
  /\ task' = [t \in Task |-> IF at[t] = l THEN "ended" ELSE task[t]]
  /\ package' = [t \in Task |-> IF at[t] = l THEN "none" ELSE package[t]]
BackendDies(l) ==
  /\ backend' = [backend EXCEPT ![l] = "off"]
  /\ status' = [status EXCEPT ![l] = "idle"]
  /\ TasksEnd(l)

Shows(l, w) == desktop' = [desktop EXCEPT ![l] = w]

---------------------------------------------------------------------------
(* Launch, watch and quit. *)

\* The desktop's setup spawns the backend, of the version on disk.
Start(v) ==
  LET l == launches + 1 IN
  /\ launches' = l
  /\ IF HasDesktop THEN Shows(l, "waiting") ELSE UNCHANGED desktop
  /\ backend' = [backend EXCEPT ![l] = "booting"]
  /\ version' = [version EXCEPT ![l] = v]

\* macOS brings an application that runs to the front and starts no second one.
\* On Windows and Linux the next one takes another port, as bind_listener and
\* available_port do, and runs beside it.
AlreadyShown == platform = "macos" /\ \E l \in Launch : desktop[l] # "off"

LaunchableAnyway == TRUE                                          \* mutant
Launchable == installed # "pieces"

UserLaunches ==
  /\ Launchable
  /\ ~AlreadyShown
  /\ launches < MaxLaunches
  /\ Start(installed)
  /\ UNCHANGED <<platform, crashes, memory, files, marks>>

\* run() up to the dashboard's listener; any error on the way ends it.
BackendBoots(l) ==
  /\ backend[l] = "booting"
  /\ \/ backend' = [backend EXCEPT ![l] = "up"] /\ UNCHANGED memory
     \/ BackendDies(l)
  /\ UNCHANGED <<launched, crashes, desktop, files, marks>>

BackendCrashes(l) ==
  /\ backend[l] = "up"
  /\ crashes < MaxCrashes
  /\ crashes' = crashes + 1
  /\ BackendDies(l)
  /\ UNCHANGED <<launched, desktop, files, marks>>

\* wait_for_admin: whoever answers on the port is taken for the backend.  The
\* port was free when available_port looked, and may be someone else's now.
AdminAnswers(l) ==
  /\ desktop[l] = "waiting"
  /\ Shows(l, "open")
  /\ UNCHANGED <<launched, crashes, backend, memory, files, marks>>

\* The window ends and nothing is there to stop the backend.
LeavesBackend(l) ==
  /\ Shows(l, "off")
  /\ orphaned' = orphaned \cup {l}
  /\ UNCHANGED <<launched, backend, memory, files, at, raced>>

\* Once the backend answers, the window and the tray are made; if that fails the
\* application ends with its setup.
SetupFails(l) == desktop[l] = "waiting" /\ LeavesBackend(l) /\ UNCHANGED crashes

\* A panic, or the window is killed: stop_backend is called by the tray and at
\* the end of the event loop, and neither is reached.
DesktopDies(l) ==
  /\ desktop[l] \in {"waiting", "open"}
  /\ crashes < MaxCrashes
  /\ crashes' = crashes + 1
  /\ LeavesBackend(l)

\* The backend has exited before it answers, or twelve seconds are over: then it
\* is killed.
LeftRunning(l) == UNCHANGED <<backend, memory>>                   \* mutant
Killed(l) == BackendDies(l)

GiveUpWaiting(l) ==
  /\ desktop[l] = "waiting"
  /\ Shows(l, "off")
  /\ Killed(l)
  /\ UNCHANGED <<launched, crashes, files, marks>>

ExitUnnoticed(l) == FALSE                                         \* mutant
ExitNoticed(l) == backend[l] = "off"

\* watch_backend, every 250 ms, once the window is there.
Watch(l) ==
  /\ desktop[l] = "open"
  /\ ExitNoticed(l)
  /\ Shows(l, "off")
  /\ UNCHANGED <<launched, crashes, backend, memory, files, marks>>

\* Quit kills the backend and then ends the application.
Quit(l) ==
  /\ IF HasDesktop THEN desktop[l] = "open" /\ Shows(l, "closing")
                   ELSE backend[l] = "up" /\ UNCHANGED desktop
  /\ BackendDies(l)
  /\ UNCHANGED <<launched, crashes, files, marks>>

Close(l) ==
  /\ desktop[l] = "closing"
  /\ Shows(l, "off")
  /\ UNCHANGED <<launched, crashes, backend, memory, files, marks>>

---------------------------------------------------------------------------
(* One update, in the backend of a launch. *)

Moves(t, pc) == task' = [task EXCEPT ![t] = pc]
Progress(t, s) == status' = [status EXCEPT ![at[t]] = s]
Busy(t) == task[t] \in Working \cup {"asked"}

\* admin_update_apply looks at the progress and sets it under two locks.
Ask(l, t) ==
  /\ backend[l] = "up"
  /\ task[t] = "unasked"
  /\ status[l] \notin Active
  /\ Moves(t, "asked")
  /\ at' = [at EXCEPT ![t] = l]
  /\ raced' = IF \E u \in TasksAt(l) : task[u] = "asked" THEN raced \cup {l}
              ELSE IF \E u \in TasksAt(l) : Busy(u) THEN raced ELSE raced \ {l}
  /\ UNCHANGED <<processes, status, package, files, orphaned>>

Accept(t) ==
  /\ task[t] = "asked"
  /\ Progress(t, "checking")
  /\ Moves(t, "checking")
  /\ UNCHANGED <<processes, package, files, marks>>

\* load_selection, is_newer_version and update_temp_dir.  The directory is named
\* after the process and the millisecond: two updates of one backend that get
\* here in the same one share it.
FindRelease(t) ==
  /\ task[t] = "checking"
  /\ version[at[t]] # "new"
  /\ Progress(t, "downloading")
  /\ \E u \in {t} \cup {v \in TasksAt(at[t]) : task[v] \in Working} :
       folder' = [folder EXCEPT ![t] = folder[u]]
  /\ Moves(t, "downloading")
  /\ UNCHANGED <<processes, package, installed, saved, overwritten, script, marks>>

\* The package, in memory and in the directory of this update.
Download(t) ==
  /\ task[t] = "downloading"
  /\ Progress(t, "downloading")
  /\ \E p \in {"good", "bad"} :
       /\ package' = [package EXCEPT ![t] = p]
       /\ saved' = [saved EXCEPT ![folder[t]] = p]
       /\ overwritten' = (IF p = "good" THEN overwritten ELSE
                            overwritten \cup {u \in Task : folder[u] = folder[t]}) \ {t}
  /\ Moves(t, "saved")
  /\ UNCHANGED <<processes, installed, folder, script, marks>>

Unverified(t) == TRUE                                             \* mutant
Verified(t) == package[t] = "good"

\* The checksum is downloaded and compared with the package in memory.
Verify(t) ==
  /\ task[t] = "saved"
  /\ Verified(t)
  /\ Progress(t, "restarting")
  /\ Moves(t, "scheduling")
  /\ UNCHANGED <<processes, package, files, marks>>

ExitForgotten == "ended"                                          \* mutant
ExitScheduled == "exiting"

\* schedule_platform_update: the script is spawned, and the exit is scheduled.
Schedule(t) ==
  /\ task[t] = "scheduling"
  /\ script' = [script EXCEPT ![t].pc = "waiting"]
  /\ Moves(t, ExitScheduled)
  /\ UNCHANGED <<processes, status, package, installed, downloads, marks>>

\* Any of these steps may fail: the network, the disk, the checksum.
Fail(t) ==
  /\ task[t] \in Working \ {"exiting"}
  /\ Progress(t, "failed")
  /\ Moves(t, "ended")
  /\ package' = [package EXCEPT ![t] = "none"]
  /\ UNCHANGED <<processes, files, marks>>

NoExit(t) == FALSE                                                \* mutant
ExitIsDue(t) == TRUE

\* schedule_process_exit, 1.5 seconds later.
Exit(t) ==
  /\ task[t] = "exiting"
  /\ ExitIsDue(t)
  /\ BackendDies(at[t])
  /\ UNCHANGED <<launched, crashes, desktop, files, marks>>

---------------------------------------------------------------------------
(* The script it leaves behind. *)

\* The process id the script was given is that of the desktop, where there is one.
ParentAlive(t) == IF HasDesktop THEN desktop[at[t]] # "off" ELSE backend[at[t]] # "off"

ScriptAt(t, pc) == script' = [script EXCEPT ![t].pc = pc]

\* Polling: kill -0 every second, Get-Process twice a second.
ParentIsGone(t) ==
  /\ script[t].pc = "waiting"
  /\ ~ParentAlive(t)
  /\ ScriptAt(t, "installing")
  /\ UNCHANGED <<processes, memory, installed, downloads, marks>>

\* Windows stops waiting after five minutes.
WaitTimesOut(t) ==
  /\ platform = "windows"
  /\ script[t].pc = "waiting"
  /\ ParentAlive(t)
  /\ ScriptAt(t, "failed")
  /\ UNCHANGED <<processes, memory, installed, downloads, marks>>

\* The first destructive step: the .app is moved away, the binary overwritten.
\* msiexec replaces all or nothing.
Replace(t) ==
  /\ script[t].pc = "installing"
  /\ platform = "macos" => installed # "pieces"
  /\ installed' = IF platform = "windows" THEN installed ELSE "pieces"
  /\ script' = [script EXCEPT ![t] = [pc |-> "replacing", found |-> installed]]
  /\ UNCHANGED <<processes, memory, downloads, marks>>

Brought(t) == IF saved[folder[t]] = "good" THEN "new" ELSE "unverified"

\* The last one, and the application is started.
Finish(t) ==
  /\ script[t].pc = "replacing"
  /\ installed' = Brought(t)
  /\ ScriptAt(t, "done")
  /\ IF ~AlreadyShown /\ launches < MaxLaunches
       THEN Start(Brought(t)) ELSE UNCHANGED <<launches, version, desktop, backend>>
  /\ UNCHANGED <<platform, crashes, memory, downloads, marks>>

\* A command that fails ends the script, and nothing is started: a file that
\* cannot be moved, or the start of what has just been installed.  macOS moves
\* the old .app back when the new one cannot be moved into place.
Leaves(t) ==
  CASE script[t].pc = "installing" -> {installed}
    [] platform = "windows" -> {installed, Brought(t)}
    [] platform = "macos" -> {script[t].found, "pieces", Brought(t)}
    [] OTHER -> {"pieces"}

InstallFails(t) ==
  /\ script[t].pc \in {"installing", "replacing"}
  /\ installed' \in Leaves(t)
  /\ ScriptAt(t, "failed")
  /\ UNCHANGED <<processes, memory, downloads, marks>>

---------------------------------------------------------------------------

DesktopStep(l) == AdminAnswers(l) \/ SetupFails(l) \/ GiveUpWaiting(l) \/ Watch(l) \/ Close(l)
TaskStep(t) == Accept(t) \/ FindRelease(t) \/ Download(t) \/ Verify(t)
                 \/ Schedule(t) \/ Fail(t) \/ Exit(t)
ScriptStep(t) == ParentIsGone(t) \/ WaitTimesOut(t) \/ Replace(t) \/ Finish(t)
                   \/ InstallFails(t)
LaunchStep(l) ==
  \/ BackendBoots(l) \/ BackendCrashes(l) \/ Quit(l) \/ DesktopDies(l) \/ DesktopStep(l)
  \/ \E t \in Task : Ask(l, t)

Next ==
  \/ UserLaunches
  \/ \E l \in Launch : LaunchStep(l)
  \/ \E t \in Task : TaskStep(t) \/ ScriptStep(t)

Spec == Init /\ [][Next]_vars

\* The shell's threads and the scripts run; a task goes on once it is answered,
\* and the servers it asks do answer (its client has no timeout of its own).
Fairness ==
  /\ \A l \in Launch : WF_vars(BackendBoots(l)) /\ WF_vars(DesktopStep(l))
  /\ \A t \in Task : WF_vars(TaskStep(t)) /\ WF_vars(ScriptStep(t))

FairSpec == Spec /\ Fairness

---------------------------------------------------------------------------
(* Properties. *)

UpdatesOf(l) == {t \in TasksAt(l) : task[t] \in Working}

\* No request is refused for an update that is over; and in a backend where no
\* two requests have passed the check before either set the status, at most one
\* update is under way and the status says so.
OneUpdate ==
  \A l \in Launch : backend[l] = "up" =>
    /\ status[l] \in Active => UpdatesOf(l) # {}
    /\ l \notin raced => /\ \A t, u \in UpdatesOf(l) : t = u
                         /\ UpdatesOf(l) # {} => status[l] \in Active

\* While files are replaced nothing runs of the launch whose update replaces
\* them, although its script only looks for one of the two processes.  The
\* exception is a backend whose window was killed or failed: the script does not
\* see it, and it runs on until the exit that the update has scheduled.
InstallQuiet ==
  \A t \in Task : script[t].pc \in {"installing", "replacing"} =>
    /\ desktop[at[t]] = "off"
    /\ backend[at[t]] # "off" => at[t] \in orphaned /\ task[t] = "exiting"

\* A script waits for nobody who stays: as long as its process is there, the
\* backend is gone, and the window follows it, or the update that left the
\* script is about to end the backend.
ScriptsAwaitTheDying ==
  \A t \in Task : script[t].pc = "waiting" /\ ParentAlive(t)
    => backend[at[t]] = "off" \/ (backend[at[t]] = "up" /\ task[t] = "exiting")

\* Nothing unverified is installed, by updates that share a directory either,
\* but by an update over whose package, verified in memory, another has saved a
\* bad one.
OnlyVerified ==
  installed = "unverified" => \E t \in overwritten : script[t].pc \in {"done", "failed"}

\* A backend is without its window only when that was killed, or failed between
\* the answer of the dashboard and the tray: whether it quits, gives up waiting
\* or sees the backend exit, the two end together.
NoOrphan ==
  HasDesktop => \A l \in Launch \ orphaned : backend[l] # "off" => desktop[l] # "off"

\* An update that was accepted ends: it fails, or its process does.
UpdatesEnd == \A t \in Task : task[t] \in Working ~> task[t] = "ended"

\* A script does not wait forever: the process it waits for goes away.
ScriptsEnd == \A t \in Task : script[t].pc = "waiting" ~> script[t].pc \in {"done", "failed"}
===========================================================================
