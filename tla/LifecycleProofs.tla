-------------------------- MODULE LifecycleProofs --------------------------
(* Proofs about Lifecycle: its types, and the five invariants that its run *)
(* checks, for any number of update requests, launches and crashes.        *)
EXTENDS Lifecycle, TLAPS

---------------------------------------------------------------------------
(* Types, one lemma per group of actions. *)

LEMMA TypeOfStart ==
  ASSUME TypeOK, launches < MaxLaunches, NEW v \in OnDisk \ {"pieces"}, Start(v)
  PROVE  /\ launches + 1 \in Launch /\ launches' = launches + 1
         /\ launches' \in 0..MaxLaunches
         /\ desktop' \in [Launch -> {"off", "waiting", "open", "closing"}]
         /\ backend' \in [Launch -> {"off", "booting", "up"}]
         /\ version' \in [Launch -> OnDisk \ {"pieces"}]
<1>1. launches + 1 \in Launch /\ launches + 1 \in 0..MaxLaunches
  BY LifecycleAssumptions DEF LifecycleAssumptions, TypeOK, Launch
<1> QED BY <1>1 DEF Start, Shows, TypeOK

\* What the death of a backend changes keeps its type.
LEMMA TypeOfDeath ==
  ASSUME TypeOK, NEW l \in Launch, BackendDies(l)
  PROVE  /\ backend' \in [Launch -> {"off", "booting", "up"}]
         /\ status' \in [Launch -> {"idle", "failed"} \cup Active]
         /\ task' \in [Task -> {"unasked", "asked", "ended"} \cup Working]
         /\ package' \in [Task -> Content]
BY DEF TypeOK, BackendDies, TasksEnd, Content

LEMMA TypeOfProcesses ==
  ASSUME TypeOK,
         \/ UserLaunches
         \/ \E l \in Launch : \/ BackendBoots(l) \/ BackendCrashes(l) \/ Quit(l)
                              \/ DesktopDies(l) \/ DesktopStep(l)
  PROVE  TypeOK'
<1> USE DEF launched, processes, memory, downloads, files, marks
<1>1. CASE UserLaunches
  <2>1. installed \in OnDisk \ {"pieces"} /\ Start(installed) /\ launches < MaxLaunches
    BY <1>1 DEF UserLaunches, Launchable, TypeOK
  <2>2. platform' = platform /\ UNCHANGED <<crashes, memory, files, marks>>
    BY <1>1 DEF UserLaunches
  <2> QED BY <2>1, <2>2, TypeOfStart DEF TypeOK
<1>2. ASSUME NEW l \in Launch, \/ BackendBoots(l) \/ BackendCrashes(l) \/ Quit(l)
                               \/ DesktopDies(l) \/ DesktopStep(l)
      PROVE  TypeOK'
  <2>1. CASE BackendBoots(l)
    <3>1. CASE BackendDies(l)
      BY <2>1, <3>1, TypeOfDeath DEF BackendBoots, TypeOK
    <3>2. CASE ~BackendDies(l)
      BY <2>1, <3>2 DEF BackendBoots, TypeOK
    <3> QED BY <3>1, <3>2
  <2>2. CASE BackendCrashes(l)
    <3>1. crashes' \in 0..MaxCrashes
      BY <2>2, LifecycleAssumptions DEF LifecycleAssumptions, BackendCrashes, TypeOK
    <3> QED BY <2>2, <3>1, TypeOfDeath DEF BackendCrashes, TypeOK
  <2>3. CASE Quit(l)
    BY <2>3, TypeOfDeath DEF Quit, Shows, TypeOK
  <2>4. CASE DesktopDies(l)
    <3>1. crashes' \in 0..MaxCrashes
      BY <2>4, LifecycleAssumptions DEF LifecycleAssumptions, DesktopDies, TypeOK
    <3> QED BY <2>4, <3>1 DEF DesktopDies, LeavesBackend, Shows, TypeOK
  <2>5. CASE AdminAnswers(l)
    BY <2>5 DEF AdminAnswers, Shows, TypeOK
  <2>6. CASE SetupFails(l)
    BY <2>6 DEF SetupFails, LeavesBackend, Shows, TypeOK
  <2>7. CASE GiveUpWaiting(l)
    BY <2>7, TypeOfDeath DEF GiveUpWaiting, Killed, Shows, TypeOK
  <2>8. CASE Watch(l)
    BY <2>8 DEF Watch, Shows, TypeOK
  <2>9. CASE Close(l)
    BY <2>9 DEF Close, Shows, TypeOK
  <2> QED BY <1>2, <2>1, <2>2, <2>3, <2>4, <2>5, <2>6, <2>7, <2>8, <2>9 DEF DesktopStep
<1> QED BY <1>1, <1>2

LEMMA TypeOfTasks ==
  ASSUME TypeOK, NEW t \in Task, TaskStep(t) \/ \E l \in Launch : Ask(l, t)
  PROVE  TypeOK'
<1> USE DEF TypeOK, launched, processes, memory, downloads, files, marks, Moves, Progress,
            Working, Active
<1>1. ASSUME NEW l \in Launch, Ask(l, t)
      PROVE  TypeOK'
  <2>1. l \in 0..MaxLaunches
    BY DEF Launch
  <2> QED BY <1>1, <2>1 DEF Ask
<1>2. CASE Accept(t)
  BY <1>2 DEF Accept
<1>3. CASE FindRelease(t)
  <2>1. PICK u \in {t} \cup {v \in TasksAt(at[t]) : task[v] \in Working} :
          folder' = [folder EXCEPT ![t] = folder[u]]
    BY <1>3 DEF FindRelease
  <2>2. u \in Task
    BY <2>1 DEF TasksAt
  <2>3. folder' \in [Task -> Task]
    BY <2>1, <2>2
  <2> QED BY <1>3, <2>3 DEF FindRelease
<1>4. CASE Download(t)
  <2>1. PICK p \in {"good", "bad"} :
          /\ package' = [package EXCEPT ![t] = p]
          /\ saved' = [saved EXCEPT ![folder[t]] = p]
          /\ overwritten' = (IF p = "good" THEN overwritten ELSE
                             overwritten \cup {u \in Task : folder[u] = folder[t]}) \ {t}
    BY <1>4 DEF Download
  <2>2. package' \in [Task -> Content] /\ saved' \in [Task -> Content]
    BY <2>1 DEF Content
  <2>3. overwritten' \subseteq Task
    BY <2>1
  <2> QED BY <1>4, <2>2, <2>3 DEF Download
<1>5. CASE Verify(t)
  BY <1>5 DEF Verify
<1>6. CASE Schedule(t)
  BY <1>6 DEF Schedule, ExitScheduled, ScriptState
<1>7. CASE Fail(t)
  BY <1>7 DEF Fail, Content
<1>8. CASE Exit(t)
  <2>1. CASE at[t] \in Launch
    BY <1>8, <2>1, TypeOfDeath DEF Exit
  <2>2. CASE at[t] \notin Launch
    BY <1>8, <2>2 DEF Exit, BackendDies, TasksEnd, Content
  <2> QED BY <2>1, <2>2
<1> QED BY <1>1, <1>2, <1>3, <1>4, <1>5, <1>6, <1>7, <1>8 DEF TaskStep

LEMMA TypeOfScripts ==
  ASSUME TypeOK, NEW t \in Task, ScriptStep(t)
  PROVE  TypeOK'
<1> USE DEF TypeOK, launched, processes, memory, downloads, files, marks, ScriptAt, ScriptState
<1>1. CASE ParentIsGone(t)
  BY <1>1 DEF ParentIsGone
<1>2. CASE WaitTimesOut(t)
  BY <1>2 DEF WaitTimesOut
<1>3. CASE Replace(t)
  BY <1>3 DEF Replace, OnDisk
<1>4. CASE Finish(t)
  <2>1. Brought(t) \in OnDisk \ {"pieces"} /\ installed' \in OnDisk
    BY <1>4 DEF Finish, Brought, OnDisk
  <2>2. CASE ~AlreadyShown /\ launches < MaxLaunches
    BY <1>4, <2>1, <2>2, TypeOfStart DEF Finish
  <2>3. CASE ~(~AlreadyShown /\ launches < MaxLaunches)
    BY <1>4, <2>1, <2>3 DEF Finish
  <2> QED BY <2>2, <2>3
<1>5. CASE InstallFails(t)
  <2>1. script[t].found \in OnDisk
    OBVIOUS
  <2>2. Leaves(t) \subseteq OnDisk
    BY <2>1 DEF Leaves, Brought, OnDisk
  <2> QED BY <1>5, <2>2 DEF InstallFails
<1> QED BY <1>1, <1>2, <1>3, <1>4, <1>5 DEF ScriptStep

\* Every variable keeps its type, whatever the number of requests and launches.
THEOREM TypeCorrect == Spec => []TypeOK
<1>1. Init => TypeOK
  <2> SUFFICES ASSUME Init PROVE TypeOK
    OBVIOUS
  <2>1. 0 \in 0..MaxLaunches /\ 0 \in 0..MaxCrashes
    BY LifecycleAssumptions DEF LifecycleAssumptions
  <2>2. script \in [Task -> ScriptState]
    BY DEF Init, ScriptState, OnDisk
  <2> QED BY <2>1, <2>2 DEF Init, TypeOK, OnDisk, Content
<1>2. TypeOK /\ [Next]_vars => TypeOK'
  <2> SUFFICES ASSUME TypeOK, [Next]_vars PROVE TypeOK'
    OBVIOUS
  <2>1. CASE UNCHANGED vars
    BY <2>1 DEF vars, launched, processes, memory, downloads, files, marks, TypeOK
  <2> QED BY <2>1, TypeOfProcesses, TypeOfTasks, TypeOfScripts DEF Next, LaunchStep
<1> QED BY <1>1, <1>2, PTL DEF Spec

---------------------------------------------------------------------------
(* What a start, a death and a window do to the launches. *)

LEMMA StartEffect ==
  ASSUME TypeOK, launches < MaxLaunches, NEW v, Start(v)
  PROVE  /\ launches \in Nat /\ launches' = launches + 1 /\ launches + 1 \in Launch
         /\ backend'[launches + 1] = "booting"
         /\ desktop'[launches + 1] = IF HasDesktop THEN "waiting" ELSE desktop[launches + 1]
         /\ \A l \in Launch \ {launches + 1} : backend'[l] = backend[l] /\ desktop'[l] = desktop[l]
<1>1. launches \in Nat /\ launches + 1 \in Launch
  BY LifecycleAssumptions DEF LifecycleAssumptions, TypeOK, Launch
<1> QED BY <1>1 DEF Start, Shows, TypeOK

LEMMA DeathEffect ==
  ASSUME TypeOK, NEW l \in Launch, BackendDies(l)
  PROVE  /\ backend'[l] = "off" /\ status'[l] = "idle"
         /\ \A k \in Launch \ {l} : backend'[k] = backend[k] /\ status'[k] = status[k]
         /\ \A t \in Task : IF at[t] = l THEN task'[t] = "ended" /\ package'[t] = "none"
                            ELSE task'[t] = task[t] /\ package'[t] = package[t]
BY DEF TypeOK, BackendDies, TasksEnd

\* The steps of one launch that change its window or its backend.
ProcessStep(l) ==
  \/ BackendBoots(l) \/ BackendCrashes(l) \/ Quit(l) \/ DesktopDies(l) \/ DesktopStep(l)

\* No such step starts a launch, moves a script or touches a file; the backend
\* dies, stays, or is up after it booted.
LEMMA ProcessEffect ==
  ASSUME NEW l \in Launch, ProcessStep(l)
  PROVE  /\ UNCHANGED <<platform, launches, files, at, raced>>
         /\ orphaned \subseteq orphaned'
         /\ \/ BackendDies(l)
            \/ UNCHANGED <<backend, memory>>
            \/ /\ backend[l] = "booting" /\ backend' = [backend EXCEPT ![l] = "up"]
               /\ UNCHANGED memory
         /\ desktop' = desktop \/ \E w \in {"off", "open", "closing"} :
                                     desktop[l] # "off" /\ Shows(l, w)
<1> USE DEF launched, marks
<1>1. CASE BackendBoots(l)
  BY <1>1 DEF BackendBoots
<1>2. CASE BackendCrashes(l)
  BY <1>2 DEF BackendCrashes
<1>3. CASE Quit(l)
  BY <1>3 DEF Quit
<1>4. CASE DesktopDies(l)
  BY <1>4 DEF DesktopDies, LeavesBackend
<1>5. CASE AdminAnswers(l)
  BY <1>5 DEF AdminAnswers
<1>6. CASE SetupFails(l)
  BY <1>6 DEF SetupFails, LeavesBackend
<1>7. CASE GiveUpWaiting(l)
  BY <1>7 DEF GiveUpWaiting, Killed
<1>8. CASE Watch(l)
  BY <1>8 DEF Watch
<1>9. CASE Close(l)
  BY <1>9 DEF Close
<1> QED BY <1>1, <1>2, <1>3, <1>4, <1>5, <1>6, <1>7, <1>8, <1>9 DEF ProcessStep, DesktopStep

\* A script starts the application anew, or leaves all processes alone.
LEMMA ScriptEffect ==
  ASSUME NEW t \in Task, ScriptStep(t)
  PROVE  /\ UNCHANGED <<platform, memory, downloads, marks>>
         /\ \/ UNCHANGED processes
            \/ launches < MaxLaunches /\ \E v \in {"new", "unverified"} : Start(v)
BY DEF ScriptStep, ParentIsGone, WaitTimesOut, Replace, Finish, InstallFails, Brought,
       processes, launched, files

---------------------------------------------------------------------------
(* Windows and backends: what runs beside what. *)

\* A window that is about to close has killed its backend.
WindowInv ==
  /\ \A l \in Launch : desktop[l] = "closing" => backend[l] = "off"
  /\ \A l \in Launch : ~HasDesktop => desktop[l] = "off"
  /\ NoOrphan

\* The same for one launch.
Together(l) ==
  /\ desktop[l] = "closing" => backend[l] = "off"
  /\ ~HasDesktop => desktop[l] = "off"
  /\ HasDesktop /\ l \notin orphaned /\ backend[l] # "off" => desktop[l] # "off"

LEMMA TogetherInv == WindowInv <=> \A l \in Launch : Together(l)
BY DEF WindowInv, Together, NoOrphan

LEMMA StartTogether ==
  ASSUME TypeOK, WindowInv, launches < MaxLaunches, NEW v, Start(v),
         UNCHANGED <<platform, orphaned>>
  PROVE  WindowInv'
<1>1. \A l \in Launch : Together(l)'
  <2> TAKE l \in Launch
  <2>1. Together(l)
    BY TogetherInv
  <2> QED BY <2>1, StartEffect DEF Together, HasDesktop
<1> QED BY <1>1, TogetherInv DEF WindowInv, Together, NoOrphan, HasDesktop

LEMMA ProcessTogether ==
  ASSUME TypeOK, WindowInv, NEW l \in Launch, ProcessStep(l)
  PROVE  WindowInv'
<1>1. Together(l)
  BY TogetherInv
<1>2. \A k \in Launch \ {l} : Together(k)'
  <2> TAKE k \in Launch \ {l}
  <2>1. Together(k)
    BY TogetherInv
  <2>2. desktop'[k] = desktop[k]
    BY ProcessEffect DEF Shows, TypeOK
  <2>3. backend'[k] = backend[k]
    BY ProcessEffect, DeathEffect DEF TypeOK
  <2>4. platform' = platform /\ orphaned \subseteq orphaned'
    BY ProcessEffect
  <2> QED BY <2>1, <2>2, <2>3, <2>4 DEF Together, HasDesktop
<1>3. Together(l)'
  <2> USE DEF launched, marks, Shows, HasDesktop, Together
  <2>1. CASE BackendBoots(l)
    BY <1>1, <2>1, DeathEffect DEF BackendBoots, TypeOK
  <2>2. CASE BackendCrashes(l)
    BY <1>1, <2>2, DeathEffect DEF BackendCrashes, TypeOK
  <2>3. CASE Quit(l)
    BY <1>1, <2>3, DeathEffect DEF Quit, TypeOK
  <2>4. CASE DesktopDies(l)
    BY <1>1, <2>4 DEF DesktopDies, LeavesBackend, TypeOK
  <2>5. CASE AdminAnswers(l)
    BY <1>1, <2>5 DEF AdminAnswers, TypeOK
  <2>6. CASE SetupFails(l)
    BY <1>1, <2>6 DEF SetupFails, LeavesBackend, TypeOK
  <2>7. CASE GiveUpWaiting(l)
    BY <1>1, <2>7, DeathEffect DEF GiveUpWaiting, Killed, TypeOK
  <2>8. CASE Watch(l)
    BY <1>1, <2>8 DEF Watch, ExitNoticed, TypeOK
  <2>9. CASE Close(l)
    BY <1>1, <2>9 DEF Close, TypeOK
  <2> QED BY <2>1, <2>2, <2>3, <2>4, <2>5, <2>6, <2>7, <2>8, <2>9 DEF ProcessStep, DesktopStep
<1> QED BY <1>2, <1>3 DEF WindowInv, Together, NoOrphan, HasDesktop

LEMMA TaskTogether ==
  ASSUME TypeOK, WindowInv, NEW t \in Task, TaskStep(t) \/ \E l \in Launch : Ask(l, t)
  PROVE  WindowInv'
<1> USE DEF processes, launched, marks
<1>1. UNCHANGED <<platform, desktop, orphaned>>
  BY DEF TaskStep, Ask, Accept, FindRelease, Download, Verify, Schedule, Fail, Exit
<1>2. \A l \in Launch : backend'[l] = backend[l] \/ backend'[l] = "off"
  BY DEF TaskStep, Ask, Accept, FindRelease, Download, Verify, Schedule, Fail, Exit,
         BackendDies, TypeOK
<1> QED BY <1>1, <1>2 DEF WindowInv, NoOrphan, HasDesktop

LEMMA WindowStep ==
  ASSUME TypeOK, WindowInv, [Next]_vars
  PROVE  WindowInv'
<1>1. CASE UserLaunches
  BY <1>1, StartTogether DEF UserLaunches, Start, marks
<1>2. ASSUME NEW l \in Launch, LaunchStep(l)
      PROVE  WindowInv'
  BY <1>2, ProcessTogether, TaskTogether DEF LaunchStep, ProcessStep
<1>3. ASSUME NEW t \in Task, ScriptStep(t)
      PROVE  WindowInv'
  <2>1. CASE UNCHANGED processes
    BY <1>3, <2>1, ScriptEffect DEF processes, launched, marks, WindowInv, NoOrphan, HasDesktop
  <2>2. CASE ~UNCHANGED processes
    BY <1>3, <2>2, ScriptEffect, StartTogether DEF marks
  <2> QED BY <2>1, <2>2
<1>4. CASE UNCHANGED vars
  BY <1>4 DEF vars, processes, launched, marks, WindowInv, NoOrphan, HasDesktop
<1> QED BY <1>1, <1>2, <1>3, <1>4, TaskTogether DEF Next

LEMMA WindowInvariant == Spec => []WindowInv
<1>1. Init => WindowInv
  BY DEF Init, WindowInv, NoOrphan
<1> QED BY <1>1, WindowStep, TypeCorrect, PTL DEF Spec

\* A backend is without its window only where that was killed or failed: every
\* other way in which the window ends kills the backend or finds it gone.
THEOREM NoOrphans == Spec => []NoOrphan
<1>1. WindowInv => NoOrphan
  BY DEF WindowInv
<1> QED BY <1>1, WindowInvariant, PTL

---------------------------------------------------------------------------
(* Updates: where they run, and how the backend of a script ends. *)

\* The backend whose update has left a script is off, or up until that exits.
Dying(t) ==
  at[t] \in Launch /\ (backend[at[t]] = "off" \/ (backend[at[t]] = "up" /\ task[t] = "exiting"))

\* Processes belong to launches that have been, updates to backends that are up,
\* and a script to a backend on its way out.
LifeInv ==
  /\ \A l \in Launch : backend[l] # "off" => l <= launches
  /\ \A l \in Launch : backend[l] # "up" => status[l] = "idle"
  /\ \A t \in Task : at[t] <= launches
  /\ \A t \in Task : Busy(t) => at[t] \in Launch /\ backend[at[t]] = "up"
  /\ \A t \in Task : script[t].pc # "none" => task[t] # "unasked" /\ Dying(t)

LEMMA StartLife ==
  ASSUME TypeOK, LifeInv, launches < MaxLaunches, NEW v, Start(v),
         UNCHANGED <<memory, at>>,
         \A t \in Task : script'[t].pc # "none" => script[t].pc # "none"
  PROVE  LifeInv'
<1>1. /\ launches \in Nat /\ launches' = launches + 1
      /\ \A l \in Launch \ {launches + 1} : backend'[l] = backend[l]
      /\ backend'[launches + 1] = "booting"
      /\ Launch \subseteq Nat /\ \A t \in Task : at[t] \in Nat
  BY StartEffect, LifecycleAssumptions DEF LifecycleAssumptions, Launch, TypeOK
<1>2. backend[launches + 1] = "off" \/ launches + 1 \notin Launch
  BY <1>1 DEF LifeInv
<1>3. status' = status /\ task' = task /\ at' = at
  BY DEF memory
<1>4. \A t \in Task : at[t] # launches + 1 /\ at[t] <= launches + 1
  BY <1>1 DEF LifeInv
<1>5. \A l \in Launch : backend'[l] # "off" => l <= launches'
  BY <1>1 DEF LifeInv
<1>6. \A l \in Launch : backend'[l] # "up" => status'[l] = "idle"
  BY <1>1, <1>2, <1>3 DEF LifeInv
<1>7. \A t \in Task : Busy(t)' => at'[t] \in Launch /\ backend'[at'[t]] = "up"
  BY <1>1, <1>3, <1>4 DEF LifeInv, Busy
<1>8. \A t \in Task : script'[t].pc # "none" => task'[t] # "unasked" /\ Dying(t)'
  BY <1>1, <1>3, <1>4 DEF LifeInv, Dying
<1> QED BY <1>1, <1>3, <1>4, <1>5, <1>6, <1>7, <1>8 DEF LifeInv

LEMMA DeathLife ==
  ASSUME TypeOK, LifeInv, NEW l \in Launch, BackendDies(l), UNCHANGED <<launches, at, script>>
  PROVE  LifeInv'
<1>1. /\ \A k \in Launch : backend'[k] = backend[k] \/ backend'[k] = "off"
      /\ \A k \in Launch : backend'[k] # "up" => status'[k] = "idle"
  BY DeathEffect DEF LifeInv
<1>2. \A t \in Task : Busy(t)' => at'[t] \in Launch /\ backend'[at'[t]] = "up"
  <2> SUFFICES ASSUME NEW t \in Task, Busy(t)' PROVE at[t] \in Launch /\ backend'[at[t]] = "up"
    OBVIOUS
  <2>1. at[t] # l /\ task'[t] = task[t]
    BY DeathEffect DEF Busy, Working
  <2>2. at[t] \in Launch /\ backend[at[t]] = "up"
    BY <2>1 DEF LifeInv, Busy
  <2> QED BY <2>1, <2>2, DeathEffect
<1>3. \A t \in Task : script'[t].pc # "none" => task'[t] # "unasked" /\ Dying(t)'
  <2> SUFFICES ASSUME NEW t \in Task, script[t].pc # "none"
               PROVE  task'[t] # "unasked" /\ Dying(t)'
    OBVIOUS
  <2>1. task[t] # "unasked" /\ Dying(t)
    BY DEF LifeInv
  <2>2. CASE at[t] = l
    BY <2>1, <2>2, DeathEffect DEF Dying
  <2>3. CASE at[t] # l
    BY <2>1, <2>3, DeathEffect DEF Dying
  <2> QED BY <2>2, <2>3
<1> QED BY <1>1, <1>2, <1>3 DEF LifeInv

\* A step of the update t in its live backend: the others stay as they are, and a
\* script is there only with the exit.
LEMMA MoveLife ==
  ASSUME TypeOK, LifeInv, NEW t \in Task, NEW l \in Launch, backend[l] = "up",
         UNCHANGED <<launches, backend>>,
         at' = [at EXCEPT ![t] = l],
         \A k \in Launch \ {l} : status'[k] = status[k],
         \A u \in Task \ {t} : task'[u] = task[u] /\ script'[u] = script[u],
         script'[t].pc # "none" => task'[t] = "exiting"
  PROVE  LifeInv'
<1>1. l <= launches
  BY DEF LifeInv
<1>2. at'[t] = l /\ \A u \in Task \ {t} : at'[u] = at[u]
  BY DEF TypeOK
<1>3. \A u \in Task : at'[u] <= launches'
  BY <1>1, <1>2 DEF LifeInv
<1>4. \A u \in Task : Busy(u)' => at'[u] \in Launch /\ backend'[at'[u]] = "up"
  BY <1>2 DEF LifeInv, Busy
<1>5. \A u \in Task : script'[u].pc # "none" => task'[u] # "unasked" /\ Dying(u)'
  BY <1>2 DEF LifeInv, Dying
<1>6. \A k \in Launch : backend'[k] # "up" => status'[k] = "idle"
  BY DEF LifeInv
<1> QED BY <1>3, <1>4, <1>5, <1>6 DEF LifeInv

\* What a step of a task does to its own backend.
LEMMA TaskEffect ==
  ASSUME TypeOK, LifeInv, NEW t \in Task, TaskStep(t)
  PROVE  /\ Busy(t) /\ at[t] \in Launch /\ backend[at[t]] = "up"
         /\ UNCHANGED <<launched, crashes, desktop, marks>>
         /\ \/ BackendDies(at[t]) /\ UNCHANGED files
            \/ /\ UNCHANGED backend /\ task[t] # "exiting"
               /\ \A k \in Launch \ {at[t]} : status'[k] = status[k]
               /\ \A u \in Task \ {t} : task'[u] = task[u] /\ script'[u] = script[u]
               /\ script'[t] = script[t] \/ task'[t] = "exiting"
<1>1. Busy(t)
  BY DEF TaskStep, Accept, FindRelease, Download, Verify, Schedule, Fail, Exit, Busy, Working
<1>2. at[t] \in Launch /\ backend[at[t]] = "up"
  BY <1>1 DEF LifeInv
<1> USE DEF processes, launched, marks, files, Moves, Progress, TypeOK
<1>3. CASE Accept(t)
  BY <1>1, <1>2, <1>3 DEF Accept
<1>4. CASE FindRelease(t)
  BY <1>1, <1>2, <1>4 DEF FindRelease
<1>5. CASE Download(t)
  BY <1>1, <1>2, <1>5 DEF Download
<1>6. CASE Verify(t)
  BY <1>1, <1>2, <1>6 DEF Verify
<1>7. CASE Schedule(t)
  BY <1>1, <1>2, <1>7 DEF Schedule, ExitScheduled
<1>8. CASE Fail(t)
  BY <1>1, <1>2, <1>8 DEF Fail
<1>9. CASE Exit(t)
  BY <1>1, <1>2, <1>9 DEF Exit
<1> QED BY <1>3, <1>4, <1>5, <1>6, <1>7, <1>8, <1>9 DEF TaskStep

LEMMA LifeStep ==
  ASSUME TypeOK, LifeInv, [Next]_vars
  PROVE  LifeInv'
<1>1. CASE UserLaunches
  BY <1>1, StartLife DEF UserLaunches, files, marks
<1>2. ASSUME NEW l \in Launch, ProcessStep(l)
      PROVE  LifeInv'
  <2>1. UNCHANGED <<launches, at, script>>
    BY <1>2, ProcessEffect DEF files
  <2>2. CASE BackendDies(l)
    BY <2>1, <2>2, DeathLife
  <2>3. CASE UNCHANGED <<backend, memory>>
    BY <2>1, <2>3 DEF LifeInv, Dying, Busy, memory
  <2>4. CASE /\ backend[l] = "booting" /\ backend' = [backend EXCEPT ![l] = "up"]
             /\ UNCHANGED memory
    <3>1. /\ backend'[l] = "up" /\ \A k \in Launch \ {l} : backend'[k] = backend[k]
          /\ \A t \in Task : ~(Busy(t) /\ at[t] = l)
          /\ \A t \in Task : ~(script[t].pc # "none" /\ at[t] = l)
      BY <2>4 DEF TypeOK, LifeInv, Dying
    <3> QED BY <2>1, <2>4, <3>1 DEF LifeInv, Dying, Busy, memory
  <2> QED BY <1>2, <2>2, <2>3, <2>4, ProcessEffect
<1>3. ASSUME NEW l \in Launch, NEW t \in Task, Ask(l, t)
      PROVE  LifeInv'
  <2>1. script[t].pc = "none"
    BY <1>3 DEF Ask, LifeInv
  <2> QED BY <1>3, <2>1, MoveLife DEF Ask, Moves, processes, launched, files, TypeOK
<1>4. ASSUME NEW t \in Task, TaskStep(t)
      PROVE  LifeInv'
  <2>1. /\ Busy(t) /\ at[t] \in Launch /\ backend[at[t]] = "up"
        /\ UNCHANGED <<launches, at>>
    BY <1>4, TaskEffect DEF launched, marks
  <2>2. CASE BackendDies(at[t]) /\ UNCHANGED files
    BY <2>1, <2>2, DeathLife DEF files
  <2>3. CASE ~(BackendDies(at[t]) /\ UNCHANGED files)
    <3>1. /\ UNCHANGED backend /\ task[t] # "exiting"
          /\ \A k \in Launch \ {at[t]} : status'[k] = status[k]
          /\ \A u \in Task \ {t} : task'[u] = task[u] /\ script'[u] = script[u]
          /\ script'[t] = script[t] \/ task'[t] = "exiting"
      BY <1>4, <2>3, TaskEffect
    <3>2. script[t].pc = "none"
      BY <2>1, <3>1 DEF LifeInv, Dying
    <3>3. at' = [at EXCEPT ![t] = at[t]]
      BY <2>1 DEF TypeOK
    <3> QED BY <2>1, <3>1, <3>2, <3>3, MoveLife
  <2> QED BY <2>2, <2>3
<1>5. ASSUME NEW t \in Task, ScriptStep(t)
      PROVE  LifeInv'
  <2>1. \A u \in Task : script'[u].pc # "none" => script[u].pc # "none"
    BY <1>5 DEF ScriptStep, ParentIsGone, WaitTimesOut, Replace, Finish, InstallFails,
                ScriptAt, TypeOK
  <2>2. UNCHANGED <<memory, at>>
    BY <1>5, ScriptEffect DEF marks
  <2>3. CASE UNCHANGED processes
    BY <2>1, <2>2, <2>3 DEF LifeInv, Dying, Busy, memory, processes, launched
  <2>4. CASE ~UNCHANGED processes
    BY <1>5, <2>1, <2>2, <2>4, ScriptEffect, StartLife
  <2> QED BY <2>3, <2>4
<1>6. CASE UNCHANGED vars
  BY <1>6 DEF vars, LifeInv, Dying, Busy, memory, processes, launched, files, marks
<1> QED BY <1>1, <1>2, <1>3, <1>4, <1>5, <1>6 DEF Next, LaunchStep, ProcessStep

LEMMA LifeInvariant == Spec => []LifeInv
<1>1. Init => LifeInv
  <2> SUFFICES ASSUME Init PROVE LifeInv
    OBVIOUS
  <2>1. \A t \in Task : ~Busy(t) /\ script[t].pc = "none" /\ at[t] <= launches
    BY DEF Init, Busy, Working
  <2> QED BY <2>1 DEF Init, LifeInv
<1> QED BY <1>1, LifeStep, TypeCorrect, PTL DEF Spec

\* No script waits in vain: whatever its process is, the update that left it or
\* the loss of the backend brings it down.  What ScriptsEnd owes to fairness is
\* only that exit, window and script take their next step.
THEOREM ScriptsDoNotWaitInVain == Spec => []ScriptsAwaitTheDying
<1>1. LifeInv => ScriptsAwaitTheDying
  BY DEF LifeInv, Dying, ScriptsAwaitTheDying
<1> QED BY <1>1, LifeInvariant, PTL

---------------------------------------------------------------------------
(* Scripts: when files are replaced. *)

Installing(t) == script[t].pc \in {"installing", "replacing"}

\* Once a script goes on, the process it waited for stays gone.
QuietInv == \A t \in Task : Installing(t) => ~ParentAlive(t)

\* Windows and backends that are gone stay so, and no script begins to install.
LEMMA QuietFrame ==
  ASSUME LifeInv, QuietInv, platform' = platform,
         \A t \in Task : Installing(t)' => Installing(t) /\ at'[t] = at[t],
         \A l \in Launch : l <= launches /\ desktop[l] = "off" => desktop'[l] = "off",
         \A l \in Launch : l <= launches /\ backend[l] = "off" => backend'[l] = "off"
  PROVE  QuietInv'
<1> SUFFICES ASSUME NEW t \in Task, Installing(t)' PROVE ~ParentAlive(t)'
  BY DEF QuietInv
<1>1. Installing(t) /\ at'[t] = at[t] /\ ~ParentAlive(t)
  BY DEF QuietInv
<1>2. at[t] \in Launch /\ at[t] <= launches
  BY <1>1 DEF LifeInv, Dying, Installing
<1> QED BY <1>1, <1>2 DEF ParentAlive, HasDesktop

LEMMA StartQuiet ==
  ASSUME TypeOK, LifeInv, QuietInv, launches < MaxLaunches, NEW v, Start(v),
         platform' = platform,
         \A t \in Task : Installing(t)' => Installing(t) /\ at'[t] = at[t]
  PROVE  QuietInv'
<1>1. \A l \in Launch : l <= launches => l # launches + 1
  BY StartEffect, LifecycleAssumptions DEF LifecycleAssumptions, Launch
<1>2. \A l \in Launch : l <= launches => backend'[l] = backend[l] /\ desktop'[l] = desktop[l]
  BY <1>1, StartEffect
<1> QED BY <1>2, QuietFrame

LEMMA QuietStep ==
  ASSUME TypeOK, LifeInv, QuietInv, [Next]_vars
  PROVE  QuietInv'
<1>1. CASE UserLaunches
  BY <1>1, StartQuiet DEF UserLaunches, Start, files, marks, Installing
<1>2. ASSUME NEW l \in Launch, ProcessStep(l)
      PROVE  QuietInv'
  <2>1. UNCHANGED <<platform, at, script>>
    BY <1>2, ProcessEffect DEF files
  <2>2. \A k \in Launch : desktop[k] = "off" => desktop'[k] = "off"
    BY <1>2, ProcessEffect DEF Shows, TypeOK
  <2>3. \A k \in Launch : backend[k] = "off" => backend'[k] = "off"
    BY <1>2, ProcessEffect, DeathEffect DEF TypeOK
  <2> QED BY <2>1, <2>2, <2>3, QuietFrame DEF Installing
<1>3. ASSUME NEW l \in Launch, NEW t \in Task, Ask(l, t)
      PROVE  QuietInv'
  <2>1. /\ UNCHANGED <<platform, desktop, backend, script>>
        /\ script[t].pc = "none" /\ \A u \in Task \ {t} : at'[u] = at[u]
    BY <1>3 DEF Ask, LifeInv, TypeOK, processes, launched, files
  <2> QED BY <2>1, QuietFrame DEF Installing
<1>4. ASSUME NEW t \in Task, TaskStep(t)
      PROVE  QuietInv'
  <2>1. UNCHANGED <<platform, desktop, at>>
    BY <1>4, TaskEffect DEF launched, marks
  <2>2. \A k \in Launch : backend[k] = "off" => backend'[k] = "off"
    BY <1>4, TaskEffect, DeathEffect
  <2>3. \A u \in Task : Installing(u)' => Installing(u)
    <3>1. CASE Schedule(t)
      BY <3>1 DEF Schedule, Installing, TypeOK, ScriptState
    <3>2. CASE ~Schedule(t)
      <4>1. UNCHANGED script
        BY <1>4, <3>2 DEF TaskStep, Accept, FindRelease, Download, Verify, Fail, Exit, files
      <4> QED BY <4>1 DEF Installing
    <3> QED BY <3>1, <3>2
  <2> QED BY <2>1, <2>2, <2>3, QuietFrame
<1>5. ASSUME NEW t \in Task, ScriptStep(t)
      PROVE  QuietInv'
  <2>1. platform' = platform /\ at' = at
    BY <1>5, ScriptEffect DEF marks
  <2>2. CASE ParentIsGone(t)
    <3>1. /\ UNCHANGED <<desktop, backend>> /\ ~ParentAlive(t)
          /\ \A u \in Task \ {t} : script'[u] = script[u]
      BY <2>2 DEF ParentIsGone, ScriptAt, processes, TypeOK
    <3> QED BY <2>1, <3>1 DEF QuietInv, Installing, ParentAlive, HasDesktop
  <2>3. CASE ~ParentIsGone(t)
    <3>1. \A u \in Task : Installing(u)' => Installing(u)
      BY <1>5, <2>3 DEF ScriptStep, WaitTimesOut, Replace, Finish, InstallFails, ScriptAt,
                        Installing, TypeOK, ScriptState
    <3>2. CASE UNCHANGED processes
      BY <2>1, <3>1, <3>2, QuietFrame DEF processes
    <3>3. CASE ~UNCHANGED processes
      BY <1>5, <2>1, <3>1, <3>3, ScriptEffect, StartQuiet
    <3> QED BY <3>2, <3>3
  <2> QED BY <2>2, <2>3
<1>6. CASE UNCHANGED vars
  BY <1>6, QuietFrame DEF vars, processes, launched, files, marks, Installing
<1> QED BY <1>1, <1>2, <1>3, <1>4, <1>5, <1>6 DEF Next, LaunchStep, ProcessStep

\* While a script replaces files its launch is gone, or what is left of it is a
\* backend whose window was killed or failed and which is about to exit.
THEOREM InstallsAreQuiet == Spec => []InstallQuiet
<1>1. Init => QuietInv
  BY DEF Init, QuietInv, Installing
<1>2. WindowInv /\ LifeInv /\ QuietInv => InstallQuiet
  <2> SUFFICES ASSUME WindowInv, LifeInv, QuietInv, NEW t \in Task, Installing(t)
               PROVE  /\ desktop[at[t]] = "off"
                      /\ backend[at[t]] # "off" => at[t] \in orphaned /\ task[t] = "exiting"
    BY DEF InstallQuiet, Installing
  <2>1. Dying(t) /\ ~ParentAlive(t) /\ at[t] \in Launch
    BY DEF LifeInv, QuietInv, Installing, Dying
  <2> QED BY <2>1 DEF WindowInv, NoOrphan, ParentAlive, Dying
<1> QED BY <1>1, <1>2, QuietStep, WindowInvariant, LifeInvariant, TypeCorrect, PTL DEF Spec

---------------------------------------------------------------------------
(* Updates: one at a time. *)

\* While the status of a backend is active an update is under way; and where no two
\* requests have raced, at most one is, from the request on, and the status says so.
Alone(l) ==
  backend[l] = "up" =>
    /\ status[l] \in Active => UpdatesOf(l) # {}
    /\ l \notin raced => /\ \A t, u \in TasksAt(l) : Busy(t) /\ Busy(u) => t = u
                         /\ UpdatesOf(l) # {} => status[l] \in Active

SingleInv == \A l \in Launch : Alone(l)

\* Nothing changes for one launch, or its backend dies.
LEMMA AloneFrame ==
  ASSUME NEW l \in Launch, Alone(l),
         \/ backend'[l] # "up"
         \/ /\ backend'[l] = backend[l] /\ status'[l] = status[l] /\ (l \in raced <=> l \in raced')
            /\ \A t \in Task : (Busy(t) /\ at[t] = l) \/ (Busy(t)' /\ at'[t] = l)
                              => task'[t] = task[t] /\ at'[t] = at[t]
  PROVE  Alone(l)'
<1>1. CASE backend'[l] # "up"
  BY <1>1 DEF Alone
<1>2. CASE backend'[l] = "up"
  <2>1. /\ backend'[l] = backend[l] /\ status'[l] = status[l] /\ (l \in raced <=> l \in raced')
        /\ \A t \in Task : (Busy(t) /\ at[t] = l) \/ (Busy(t)' /\ at'[t] = l)
                          => task'[t] = task[t] /\ at'[t] = at[t]
    BY <1>2
  <2>2. UpdatesOf(l)' = UpdatesOf(l)
    BY <2>1 DEF UpdatesOf, TasksAt, Busy
  <2>3. \A t \in TasksAt(l)' : Busy(t)' => t \in TasksAt(l) /\ Busy(t)
    BY <2>1 DEF TasksAt, Busy
  <2> QED BY <1>2, <2>1, <2>2, <2>3 DEF Alone
<1> QED BY <1>1, <1>2

LEMMA DeathAlone ==
  ASSUME TypeOK, SingleInv, NEW l \in Launch, BackendDies(l), UNCHANGED <<at, raced>>
  PROVE  SingleInv'
<1> SUFFICES ASSUME NEW k \in Launch PROVE Alone(k)'
  BY DEF SingleInv
<1>1. CASE k = l
  BY <1>1, DeathEffect DEF Alone
<1>2. CASE k # l
  <2>1. /\ backend'[k] = backend[k] /\ status'[k] = status[k]
        /\ \A t \in Task : at[t] = k => task'[t] = task[t]
    BY <1>2, DeathEffect
  <2>2. Alone(k)
    BY DEF SingleInv
  <2> QED BY <2>1, <2>2, AloneFrame
<1> QED BY <1>1, <1>2

LEMMA ProcessAlone ==
  ASSUME TypeOK, LifeInv, SingleInv, NEW l \in Launch, ProcessStep(l)
  PROVE  SingleInv'
<1>1. UNCHANGED <<at, raced>>
  BY ProcessEffect
<1>2. CASE BackendDies(l)
  BY <1>1, <1>2, DeathAlone
<1>3. CASE UNCHANGED <<backend, memory>>
  BY <1>1, <1>3, AloneFrame DEF SingleInv, memory
<1>4. CASE /\ backend[l] = "booting" /\ backend' = [backend EXCEPT ![l] = "up"]
           /\ UNCHANGED memory
  <2> SUFFICES ASSUME NEW k \in Launch PROVE Alone(k)'
    BY DEF SingleInv
  <2>1. CASE k = l
    <3>1. status'[l] = "idle" /\ \A t \in Task : at'[t] = l => ~Busy(t)'
      BY <1>1, <1>4 DEF LifeInv, Busy, memory
    <3> QED BY <2>1, <3>1 DEF Alone, UpdatesOf, TasksAt, Busy, Active
  <2>2. CASE k # l
    BY <1>1, <1>4, <2>2, AloneFrame DEF SingleInv, memory, TypeOK
  <2> QED BY <2>1, <2>2
<1> QED BY <1>2, <1>3, <1>4, ProcessEffect

LEMMA AskAlone ==
  ASSUME TypeOK, LifeInv, SingleInv, NEW l \in Launch, NEW t \in Task, Ask(l, t)
  PROVE  SingleInv'
<1>1. /\ backend[l] = "up" /\ task[t] = "unasked" /\ status[l] \notin Active
      /\ UNCHANGED <<backend, status>>
      /\ task'[t] = "asked" /\ at'[t] = l
      /\ \A u \in Task \ {t} : task'[u] = task[u] /\ at'[u] = at[u]
  BY DEF Ask, Moves, processes, TypeOK
<1>2. raced' = IF \E u \in TasksAt(l) : task[u] = "asked" THEN raced \cup {l}
               ELSE IF \E u \in TasksAt(l) : Busy(u) THEN raced ELSE raced \ {l}
  BY DEF Ask
<1> SUFFICES ASSUME NEW k \in Launch PROVE Alone(k)'
  BY DEF SingleInv
<1>3. UpdatesOf(k)' = UpdatesOf(k) \ {t}
  BY <1>1 DEF UpdatesOf, TasksAt, Working
<1>4. t \notin UpdatesOf(k)
  BY <1>1 DEF UpdatesOf, Working
<1>5. CASE k = l
  <2>1. Alone(l)
    BY DEF SingleInv
  <2>2. l \notin raced' => \A u \in TasksAt(l) : ~Busy(u)
    <3> SUFFICES ASSUME l \notin raced', NEW u \in TasksAt(l), Busy(u) PROVE FALSE
      OBVIOUS
    <3>1. l \notin raced /\ task[u] # "asked"
      BY <1>2
    <3>2. u \in UpdatesOf(l)
      BY <3>1 DEF Busy, UpdatesOf
    <3> QED BY <1>1, <2>1, <3>1, <3>2 DEF Alone
  <2>3. l \notin raced' => \A u \in TasksAt(l)' : Busy(u)' => u = t
    BY <1>1, <2>2 DEF TasksAt, Busy
  <2>4. l \notin raced' => UpdatesOf(l)' = {}
    BY <1>3, <1>5, <2>2 DEF UpdatesOf, Busy
  <2> QED BY <1>1, <1>5, <2>3, <2>4 DEF Alone
<1>6. CASE k # l
  <2>1. k \in raced <=> k \in raced'
    BY <1>2, <1>6
  <2>2. ~Busy(t) /\ at'[t] # k
    BY <1>1, <1>6 DEF Busy, Working
  <2> QED BY <1>1, <2>1, <2>2, AloneFrame DEF SingleInv
<1> QED BY <1>5, <1>6

\* A step of the update t, alone among those of its launch to move.
LEMMA MoveAlone ==
  ASSUME TypeOK, SingleInv, NEW t \in Task, Busy(t), at[t] \in Launch, backend[at[t]] = "up",
         UNCHANGED <<backend, at, raced>>,
         \A k \in Launch \ {at[t]} : status'[k] = status[k],
         \A u \in Task \ {t} : task'[u] = task[u],
         \/ task'[t] \in Working /\ status'[at[t]] \in Active
         \/ task'[t] \in Working /\ task[t] \in Working /\ status'[at[t]] = status[at[t]]
         \/ task'[t] = "ended" /\ status'[at[t]] \notin Active
  PROVE  SingleInv'
<1> SUFFICES ASSUME NEW k \in Launch PROVE Alone(k)'
  BY DEF SingleInv
<1>1. Alone(k)
  BY DEF SingleInv
<1>2. CASE k # at[t]
  BY <1>1, <1>2, AloneFrame
<1>3. CASE k = at[t]
  <2>1. \A u \in TasksAt(k)' : Busy(u)' => u \in TasksAt(k) /\ Busy(u)
    BY DEF TasksAt, Busy
  <2>2. k \notin raced' => \A u, w \in TasksAt(k)' : Busy(u)' /\ Busy(w)' => u = w
    BY <1>1, <1>3, <2>1 DEF Alone
  <2>3. CASE task'[t] \in Working /\ status'[k] \in Active
    BY <1>3, <2>2, <2>3 DEF Alone, UpdatesOf, TasksAt
  <2>4. CASE task'[t] \in Working /\ task[t] \in Working /\ status'[k] = status[k]
    <3>1. t \in UpdatesOf(k) /\ t \in UpdatesOf(k)'
      BY <1>3, <2>4 DEF UpdatesOf, TasksAt
    <3> QED BY <1>1, <1>3, <2>2, <2>4, <3>1 DEF Alone
  <2>5. CASE task'[t] = "ended" /\ status'[k] \notin Active
    <3>1. k \notin raced' => UpdatesOf(k)' = {}
      <4> SUFFICES ASSUME k \notin raced, NEW u \in UpdatesOf(k)' PROVE FALSE
        OBVIOUS
      <4>1. u # t /\ u \in TasksAt(k) /\ Busy(u)
        BY <2>5 DEF UpdatesOf, TasksAt, Busy, Working
      <4>2. t \in TasksAt(k) /\ Busy(t)
        BY <1>3 DEF TasksAt
      <4> QED BY <1>1, <1>3, <4>1, <4>2 DEF Alone
    <3> QED BY <1>3, <2>2, <2>5, <3>1 DEF Alone
  <2> QED BY <1>3, <2>3, <2>4, <2>5
<1> QED BY <1>2, <1>3

LEMMA TaskAlone ==
  ASSUME TypeOK, LifeInv, SingleInv, NEW t \in Task, TaskStep(t)
  PROVE  SingleInv'
<1>1. Busy(t) /\ at[t] \in Launch /\ backend[at[t]] = "up" /\ UNCHANGED <<at, raced>>
  BY TaskEffect DEF marks
<1>2. CASE BackendDies(at[t])
  BY <1>1, <1>2, DeathAlone
<1>3. CASE ~BackendDies(at[t])
  <2>1. /\ UNCHANGED backend
        /\ \A k \in Launch \ {at[t]} : status'[k] = status[k]
        /\ \A u \in Task \ {t} : task'[u] = task[u]
    BY <1>3, TaskEffect
  <2>2. \/ task'[t] \in Working /\ status'[at[t]] \in Active
        \/ task'[t] \in Working /\ task[t] \in Working /\ status'[at[t]] = status[at[t]]
        \/ task'[t] = "ended" /\ status'[at[t]] \notin Active
    <3> USE DEF Moves, Progress, Working, Active, TypeOK
    <3>1. CASE Accept(t)
      BY <1>1, <3>1 DEF Accept
    <3>2. CASE FindRelease(t)
      BY <1>1, <3>2 DEF FindRelease
    <3>3. CASE Download(t)
      BY <1>1, <3>3 DEF Download
    <3>4. CASE Verify(t)
      BY <1>1, <3>4 DEF Verify
    <3>5. CASE Schedule(t)
      BY <1>1, <3>5 DEF Schedule, ExitScheduled
    <3>6. CASE Fail(t)
      BY <1>1, <3>6 DEF Fail
    <3> QED BY <1>3, <3>1, <3>2, <3>3, <3>4, <3>5, <3>6 DEF TaskStep, Exit
  <2> QED BY <1>1, <2>1, <2>2, MoveAlone
<1> QED BY <1>2, <1>3

\* The new launch boots; of the others nothing that the invariant is about changes.
LEMMA StartAlone ==
  ASSUME TypeOK, SingleInv, launches < MaxLaunches, NEW v, Start(v),
         UNCHANGED <<memory, at, raced>>
  PROVE  SingleInv'
<1> SUFFICES ASSUME NEW k \in Launch PROVE Alone(k)'
  BY DEF SingleInv
<1>1. Alone(k) /\ (backend'[k] = backend[k] \/ backend'[k] = "booting")
  BY StartEffect DEF SingleInv
<1> QED BY <1>1, AloneFrame DEF memory

LEMMA SingleStep ==
  ASSUME TypeOK, LifeInv, SingleInv, [Next]_vars
  PROVE  SingleInv'
<1>1. CASE UserLaunches
  BY <1>1, StartAlone DEF UserLaunches, marks
<1>2. ASSUME NEW t \in Task, ScriptStep(t)
      PROVE  SingleInv'
  <2>1. UNCHANGED <<memory, at, raced>>
    BY <1>2, ScriptEffect DEF marks
  <2>2. CASE UNCHANGED processes
    BY <2>1, <2>2, AloneFrame DEF SingleInv, memory, processes
  <2>3. CASE ~UNCHANGED processes
    BY <1>2, <2>1, <2>3, ScriptEffect, StartAlone
  <2> QED BY <2>2, <2>3
<1>3. CASE UNCHANGED vars
  BY <1>3, AloneFrame DEF vars, SingleInv, memory, processes, marks
<1> QED BY <1>1, <1>2, <1>3, ProcessAlone, AskAlone, TaskAlone DEF Next, LaunchStep, ProcessStep

\* In one backend no request is refused for an update that is over, and no second
\* update begins beside the first, unless two requests passed the check before
\* either set the status; and that excuses only the updates of that moment.
THEOREM UpdatesAreSingle == Spec => []OneUpdate
<1>1. Init => SingleInv
  BY DEF Init, SingleInv, Alone
<1>2. SingleInv => OneUpdate
  BY DEF SingleInv, Alone, OneUpdate, UpdatesOf, Busy
<1> QED BY <1>1, <1>2, SingleStep, LifeInvariant, TypeCorrect, PTL DEF Spec

---------------------------------------------------------------------------
(* Packages: what the scripts find. *)

\* An update holds on to its package from its verification to the end of its script.
Kept(t) ==
  script[t].pc # "none" \/ (task[t] \in {"saved", "scheduling"} /\ package[t] = "good")

Overwritten == \E t \in overwritten : script[t].pc \in {"done", "failed"}

\* What is kept is saved, unless another update has overwritten it; and something
\* unverified is installed, or moved away to be moved back, only by such an update.
PackageInv ==
  /\ \A t \in Task : task[t] \in {"unasked", "asked", "checking", "downloading"}
                       => script[t].pc = "none"
  /\ \A t \in Task : task[t] = "scheduling" => package[t] = "good"
  /\ \A t \in Task : Kept(t) => t \in overwritten \/ saved[folder[t]] = "good"
  /\ installed = "unverified" => Overwritten
  /\ \A t \in Task : script[t].found = "unverified" => Overwritten

\* Files and scripts stay, and tasks go on as they are or end.
LEMMA PackageFrame ==
  ASSUME PackageInv, UNCHANGED files,
         \A t \in Task : task'[t] = "ended" \/ (task'[t] = task[t] /\ package'[t] = package[t])
  PROVE  PackageInv'
<1>1. \A t \in Task : Kept(t)' => Kept(t)
  BY DEF Kept, files
<1> QED BY <1>1 DEF PackageInv, Overwritten, files, downloads

LEMMA PackageTask ==
  ASSUME TypeOK, PackageInv, LifeInv, NEW t \in Task, TaskStep(t)
  PROVE  PackageInv'
<1> USE DEF files, downloads, Moves
<1>1. CASE Accept(t)
  BY <1>1 DEF Accept, PackageInv, Kept, Overwritten, TypeOK
<1>2. CASE FindRelease(t)
  <2>1. /\ task[t] = "checking" /\ task'[t] = "downloading"
        /\ \A u \in Task \ {t} : task'[u] = task[u] /\ folder'[u] = folder[u]
        /\ UNCHANGED <<installed, saved, overwritten, script, package>>
    BY <1>2 DEF FindRelease, TypeOK
  <2>2. \A u \in Task : Kept(u)' => u # t /\ Kept(u)
    BY <2>1 DEF PackageInv, Kept
  <2> QED BY <2>1, <2>2 DEF PackageInv, Overwritten
<1>3. CASE Download(t)
  <2>1. PICK p \in {"good", "bad"} :
          /\ package' = [package EXCEPT ![t] = p]
          /\ saved' = [saved EXCEPT ![folder[t]] = p]
          /\ overwritten' = (IF p = "good" THEN overwritten ELSE
                             overwritten \cup {u \in Task : folder[u] = folder[t]}) \ {t}
    BY <1>3 DEF Download
  <2>2. /\ task[t] = "downloading" /\ task'[t] = "saved"
        /\ \A u \in Task \ {t} : task'[u] = task[u] /\ package'[u] = package[u]
        /\ UNCHANGED <<installed, folder, script>>
    BY <1>3, <2>1 DEF Download, TypeOK
  <2>3. script[t].pc = "none"
    BY <2>2 DEF PackageInv
  <2>4. Overwritten => Overwritten'
    <3> SUFFICES ASSUME NEW u \in overwritten, script[u].pc \in {"done", "failed"}
                 PROVE  Overwritten'
      BY DEF Overwritten
    <3>1. u # t
      BY <2>3
    <3> QED BY <2>1, <2>2, <3>1 DEF Overwritten
  <2>5. \A u \in Task : Kept(u)' => u \in overwritten' \/ saved'[folder'[u]] = "good"
    <3> SUFFICES ASSUME NEW u \in Task, Kept(u)'
                 PROVE  u \in overwritten' \/ saved'[folder[u]] = "good"
      BY <2>2
    <3>0. folder[u] \in Task /\ folder[t] \in Task
      BY DEF TypeOK
    <3>1. CASE u = t
      <4>1. package'[t] = "good" /\ package'[t] = p
        BY <2>1, <2>2, <2>3, <3>1 DEF Kept, TypeOK
      <4> QED BY <2>1, <3>0, <3>1, <4>1 DEF TypeOK
    <3>2. CASE u # t
      <4>1. u \in overwritten \/ saved[folder[u]] = "good"
        BY <2>2, <3>2 DEF PackageInv, Kept
      <4>2. CASE folder[u] # folder[t]
        BY <2>1, <3>0, <3>2, <4>1, <4>2 DEF TypeOK
      <4>3. CASE folder[u] = folder[t]
        BY <2>1, <3>0, <3>2, <4>3 DEF TypeOK
      <4> QED BY <4>2, <4>3
    <3> QED BY <3>1, <3>2
  <2> QED BY <2>2, <2>3, <2>4, <2>5 DEF PackageInv
<1>4. CASE Verify(t)
  <2>1. /\ task[t] = "saved" /\ package[t] = "good" /\ task'[t] = "scheduling"
        /\ \A u \in Task \ {t} : task'[u] = task[u]
        /\ UNCHANGED <<package, files>>
    BY <1>4 DEF Verify, Verified, TypeOK
  <2>2. \A u \in Task : Kept(u)' => Kept(u)
    BY <2>1 DEF Kept
  <2> QED BY <2>1, <2>2 DEF PackageInv, Overwritten
<1>5. CASE Schedule(t)
  <2>1. /\ task[t] = "scheduling" /\ task'[t] = "exiting"
        /\ script'[t].found = script[t].found /\ script'[t].pc = "waiting"
        /\ \A u \in Task \ {t} : task'[u] = task[u] /\ script'[u] = script[u]
        /\ UNCHANGED <<package, installed, downloads>>
    BY <1>5 DEF Schedule, ExitScheduled, TypeOK, ScriptState
  <2>2. Kept(t) /\ \A u \in Task : Kept(u)' => Kept(u)
    BY <2>1 DEF PackageInv, Kept
  <2>3. Busy(t) /\ script[t].pc \notin {"done", "failed"}
    BY <2>1 DEF Busy, Working, LifeInv, Dying
  <2>4. Overwritten => Overwritten'
    BY <2>1, <2>3 DEF Overwritten, TypeOK
  <2> QED BY <2>1, <2>2, <2>4 DEF PackageInv
<1>6. CASE Fail(t)
  BY <1>6, PackageFrame DEF Fail, TypeOK
<1>7. CASE Exit(t)
  <2>1. at[t] \in Launch /\ BackendDies(at[t]) /\ UNCHANGED files
    BY <1>7, TaskEffect DEF Exit
  <2> QED BY <2>1, DeathEffect, PackageFrame
<1> QED BY <1>1, <1>2, <1>3, <1>4, <1>5, <1>6, <1>7 DEF TaskStep

\* A script moves on, and if what it leaves installed is unverified, its package
\* has been overwritten.
LEMMA PackageScript ==
  ASSUME TypeOK, PackageInv, NEW t \in Task, ScriptStep(t)
  PROVE  PackageInv'
<1>1. UNCHANGED <<task, package, folder, saved, overwritten>>
  BY ScriptEffect DEF memory, downloads
<1>2. /\ script[t].pc \in {"waiting", "installing", "replacing"} /\ script'[t].pc # "none"
      /\ script'[t].found \in {script[t].found, installed}
      /\ \A u \in Task \ {t} : script'[u] = script[u]
  BY DEF ScriptStep, ParentIsGone, WaitTimesOut, Replace, Finish, InstallFails, ScriptAt,
         TypeOK, ScriptState
<1>3. Kept(t) /\ \A u \in Task : Kept(u)' => Kept(u)
  BY <1>1, <1>2 DEF Kept
<1>4. Overwritten => Overwritten'
  BY <1>1, <1>2 DEF Overwritten, TypeOK
<1>5. installed' = "unverified" => Overwritten'
  <2>1. CASE ParentIsGone(t) \/ WaitTimesOut(t) \/ Replace(t)
    BY <1>4, <2>1 DEF ParentIsGone, WaitTimesOut, Replace, PackageInv
  <2>2. CASE Finish(t) \/ InstallFails(t)
    <3>1. script'[t].pc \in {"done", "failed"}
      BY <2>2 DEF Finish, InstallFails, ScriptAt, TypeOK, ScriptState
    <3>2. installed' \in {installed, script[t].found, "pieces", Brought(t)}
      BY <2>2 DEF Finish, InstallFails, Leaves
    <3>3. Brought(t) = "unverified" => t \in overwritten
      BY <1>3 DEF PackageInv, Brought
    <3> QED BY <1>1, <1>4, <3>1, <3>2, <3>3 DEF PackageInv, Overwritten
  <2> QED BY <2>1, <2>2 DEF ScriptStep
<1>6. \A u \in Task : script'[u].found = "unverified" => Overwritten'
  BY <1>2, <1>4 DEF PackageInv
<1>7. \A u \in Task : task'[u] \in {"unasked", "asked", "checking", "downloading"}
                        => script'[u].pc = "none"
  BY <1>1, <1>2 DEF PackageInv
<1> QED BY <1>1, <1>3, <1>5, <1>6, <1>7 DEF PackageInv

LEMMA PackageStep ==
  ASSUME TypeOK, LifeInv, PackageInv, [Next]_vars
  PROVE  PackageInv'
<1>1. CASE UserLaunches \/ UNCHANGED vars
  BY <1>1, PackageFrame DEF UserLaunches, vars, memory
<1>2. ASSUME NEW l \in Launch, ProcessStep(l)
      PROVE  PackageInv'
  <2>1. UNCHANGED files /\ (BackendDies(l) \/ UNCHANGED memory)
    BY <1>2, ProcessEffect
  <2>2. CASE BackendDies(l)
    BY <2>1, <2>2, DeathEffect, PackageFrame
  <2>3. CASE UNCHANGED memory
    BY <2>1, <2>3, PackageFrame DEF memory
  <2> QED BY <2>1, <2>2, <2>3
<1>3. ASSUME NEW l \in Launch, NEW t \in Task, Ask(l, t)
      PROVE  PackageInv'
  <2>1. /\ task[t] = "unasked" /\ task'[t] = "asked"
        /\ \A u \in Task \ {t} : task'[u] = task[u]
        /\ UNCHANGED <<package, files>>
    BY <1>3 DEF Ask, Moves, TypeOK
  <2>2. \A u \in Task : Kept(u)' => Kept(u)
    BY <2>1 DEF Kept, files
  <2> QED BY <2>1, <2>2 DEF PackageInv, Overwritten, files, downloads
<1> QED BY <1>1, <1>2, <1>3, PackageTask, PackageScript DEF Next, LaunchStep, ProcessStep

\* Whatever updates run beside each other and share a directory, and however they
\* fail, something unverified is installed only by the script of an update over
\* whose verified package another update has saved a bad one.
THEOREM OnlyVerifiedInstalled == Spec => []OnlyVerified
<1>1. Init => PackageInv
  <2> SUFFICES ASSUME Init PROVE PackageInv
    OBVIOUS
  <2>1. \A t \in Task : script[t].pc = "none" /\ script[t].found = "old" /\ ~Kept(t)
    BY DEF Init, Kept
  <2> QED BY <2>1 DEF Init, PackageInv
<1>2. PackageInv => OnlyVerified
  BY DEF PackageInv, OnlyVerified, Overwritten
<1> QED BY <1>1, <1>2, PackageStep, LifeInvariant, TypeCorrect, PTL DEF Spec
===========================================================================
