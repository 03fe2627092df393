------------------------- MODULE Administration_proofs -------------------------
(***************************************************************************)
(* Proofs about the parts of Administration, for any instances: restarts   *)
(* of containers, Wake-on-LAN and the status of a router; and that the     *)
(* parts, side by side, are the parts alone.                               *)
(***************************************************************************)
EXTENDS Administration, BackupRestore_proofs, UserAdministration_proofs

-----------------------------------------------------------------------------
(* Restarts of containers.                                                 *)

\* A task that goes on, and a request that becomes one, is a task.
LEMMA StepType ==
  ASSUME NEW x \in RestarterState, x.step # "idle", NEW s \in TaskSteps
  PROVE  /\ [x EXCEPT !.step = s] \in RestarterState
         /\ [x EXCEPT !.step = s].container = x.container
         /\ x.container \in Container
BY DEF RestarterState, NoRestart, TaskSteps

\* Every variable has its type: initially and after every step.
LEMMA InitRestartsTypeOK == InitRestarts => RestartsTypeOK
BY RestartsAssumption DEF InitRestarts, RestartsTypeOK, EngineState, RestarterState, StatusState

\* The end of a task leaves every type alone.
LEMMA FinishType ==
  ASSUME RestartsTypeOK, NEW r \in Restarter, restarter[r].step \in TaskSteps,
         NEW failed \in BOOLEAN, Finish(r, failed)
  PROVE  /\ restart_errors' \subseteq Container /\ pending_restarts' \subseteq Container
         /\ restarter' \in [Restarter -> RestarterState]
<1>1. restarter[r].container \in Container
  BY StepType DEF RestartsTypeOK, TaskSteps
<1>. QED
  BY <1>1 DEF RestartsTypeOK, Finish, RestarterState

LEMMA NextRestartsTypeOK == RestartsTypeOK /\ [NextRestarts]_restartVars => RestartsTypeOK'
<1> SUFFICES ASSUME RestartsTypeOK, [NextRestarts]_restartVars PROVE RestartsTypeOK'
  OBVIOUS
<1> USE RestartsAssumption DEF RestartsTypeOK
<1>1. ASSUME NEW r \in Restarter, NEW c \in Container, GetRestartTarget(r, c) PROVE RestartsTypeOK'
  BY <1>1 DEF GetRestartTarget, RestarterState
<1>2. ASSUME NEW r \in Restarter, RefusePending(r) PROVE RestartsTypeOK'
  BY <1>2 DEF RefusePending, RestarterState
<1>3. ASSUME NEW r \in Restarter, RestartContainer(r) PROVE RestartsTypeOK'
  <2>1. /\ restarter[r].container \in Container
        /\ [restarter[r] EXCEPT !.step = "waiting"] \in RestarterState
    BY <1>3, StepType DEF RestartContainer, TaskSteps
  <2>. QED
    BY <1>3, <2>1 DEF RestartContainer
<1>4. ASSUME NEW r \in Restarter, Recheck(r) PROVE RestartsTypeOK'
  <2>1. \A s \in TaskSteps : [restarter[r] EXCEPT !.step = s] \in RestarterState
    BY <1>4, StepType DEF Recheck
  <2>. QED
    BY <1>4, <2>1 DEF Recheck, TaskGoesOn, UnchangedByTask, TaskSteps
<1>5. ASSUME NEW r \in Restarter, Unpause(r) PROVE RestartsTypeOK'
  <2>1. [restarter[r] EXCEPT !.step = "stopping"] \in RestarterState
    BY <1>5, StepType DEF Unpause, TaskSteps
  <2>. QED
    BY <1>5, <2>1 DEF Unpause, TaskGoesOn, UnchangedByTask, EngineState
<1>6. ASSUME NEW r \in Restarter, StopToRestart(r) PROVE RestartsTypeOK'
  <2>1. [restarter[r] EXCEPT !.step = "starting"] \in RestarterState
    BY <1>6, StepType DEF StopToRestart, TaskSteps
  <2>. QED
    BY <1>6, <2>1 DEF StopToRestart, TaskGoesOn, UnchangedByTask, EngineState
<1>7. ASSUME NEW r \in Restarter, StartAgain(r) PROVE RestartsTypeOK'
  <2>1. restarter[r].step \in TaskSteps
    BY <1>7 DEF StartAgain, TaskSteps
  <2>. QED
    BY <1>7, <2>1, FinishType DEF StartAgain, UnchangedByTask, EngineState
<1>8. ASSUME NEW r \in Restarter, TaskFails(r) PROVE RestartsTypeOK'
  <2>1. engine' \in [Container -> EngineState]
    BY <1>8 DEF TaskFails, EngineState
  <2>. QED
    BY <1>8, <2>1, FinishType DEF TaskFails, UnchangedByTask
<1>9. CASE AskStatus
  BY <1>9 DEF AskStatus, UnchangedByStatus, StatusState
<1>10. CASE ListContainers
  <2>1. /\ statusRequest.pending \in SUBSET Container
        /\ statusRequest.generations \in [Container -> Nat]
    BY <1>10 DEF ListContainers, StatusState, NotAsking
  <2>. QED
    BY <1>10, <2>1 DEF ListContainers, UnchangedByStatus, StatusState
<1>11. CASE GetContainersStatus \/ StatusFails
  BY <1>11 DEF GetContainersStatus, StatusFails, UnchangedByStatus, StatusState
<1>12. ASSUME NEW c \in Container, EngineChanges(c) PROVE RestartsTypeOK'
  BY <1>12 DEF EngineChanges
<1>13. CASE ServiceStops
  BY <1>13 DEF ServiceStops, RestarterState, StatusState
<1>14. CASE UNCHANGED restartVars
  BY <1>14 DEF restartVars
<1>. QED
  BY <1>1, <1>2, <1>3, <1>4, <1>5, <1>6, <1>7, <1>8, <1>9, <1>10, <1>11, <1>12, <1>13, <1>14
     DEF NextRestarts, Restarting

\* The types hold always: restarts, status requests and stops of the service
\* in any order leave every record complete.
THEOREM RestartsTypeCorrect == RestartsSpec => []RestartsTypeOK
BY InitRestartsTypeOK, NextRestartsTypeOK, PTL DEF RestartsSpec

-----------------------------------------------------------------------------
(* One restart at a time.                                                  *)

\* A task that goes on is still a task of the same container, and the others
\* are what they were.
LEMMA SameTasks ==
  ASSUME RestartsTypeOK, NEW r \in Restarter, restarter[r].step \in TaskSteps,
         NEW s \in TaskSteps, TaskGoesOn(r, s)
  PROVE  /\ Tasks' = Tasks
         /\ \A t \in Restarter : restarter'[t].container = restarter[t].container
<1>1. /\ [restarter[r] EXCEPT !.step = s].step = s
      /\ [restarter[r] EXCEPT !.step = s].container = restarter[r].container
  BY StepType DEF RestartsTypeOK, RestarterState, NoRestart, TaskSteps
<1>2. \A t \in Restarter : restarter'[t] = IF t = r THEN [restarter[r] EXCEPT !.step = s] ELSE restarter[t]
  BY DEF RestartsTypeOK, TaskGoesOn
<1>. QED
  BY <1>1, <1>2 DEF Tasks

\* When a task ends its container is not pending any more, and no other task
\* had that container.
LEMMA FinishKeepsOne ==
  ASSUME RestartsTypeOK, OneRestartAtATime, NEW r \in Restarter, restarter[r].step \in TaskSteps,
         NEW failed \in BOOLEAN, Finish(r, failed)
  PROVE  OneRestartAtATime'
<1>1. \A t \in Restarter : restarter'[t] = IF t = r THEN NoRestart ELSE restarter[t]
  BY DEF RestartsTypeOK, Finish
<1>2. Tasks' = Tasks \ {r} /\ r \in Tasks
  BY <1>1 DEF Tasks, NoRestart, TaskSteps
<1>3. pending_restarts' = pending_restarts \ {restarter[r].container}
  BY DEF Finish
<1>. QED
  BY <1>1, <1>2, <1>3 DEF OneRestartAtATime, Tasks

LEMMA NextOne == RestartsTypeOK /\ OneRestartAtATime /\ [NextRestarts]_restartVars => OneRestartAtATime'
<1> SUFFICES ASSUME RestartsTypeOK, OneRestartAtATime, [NextRestarts]_restartVars
             PROVE  OneRestartAtATime'
  OBVIOUS
<1>1. ASSUME NEW r \in Restarter, NEW c \in Container, GetRestartTarget(r, c) PROVE OneRestartAtATime'
  <2>1. \A t \in Restarter : restarter'[t] = IF t = r THEN [step |-> "found", container |-> c] ELSE restarter[t]
    BY <1>1 DEF GetRestartTarget, RestartsTypeOK
  <2>2. Tasks' = Tasks /\ r \notin Tasks
    BY <1>1, <2>1 DEF GetRestartTarget, Tasks, TaskSteps, NoRestart
  <2>. QED
    BY <1>1, <2>1, <2>2 DEF GetRestartTarget, OneRestartAtATime
<1>2. ASSUME NEW r \in Restarter, RefusePending(r) PROVE OneRestartAtATime'
  <2>1. \A t \in Restarter : restarter'[t] = IF t = r THEN NoRestart ELSE restarter[t]
    BY <1>2 DEF RefusePending, RestartsTypeOK
  <2>2. Tasks' = Tasks /\ r \notin Tasks
    BY <1>2, <2>1 DEF RefusePending, Tasks, TaskSteps, NoRestart
  <2>. QED
    BY <1>2, <2>1, <2>2 DEF RefusePending, OneRestartAtATime
<1>3. ASSUME NEW r \in Restarter, RestartContainer(r) PROVE OneRestartAtATime'
  <2> DEFINE c == restarter[r].container
  <2>1. /\ [restarter[r] EXCEPT !.step = "waiting"].step = "waiting"
        /\ [restarter[r] EXCEPT !.step = "waiting"].container = c
    BY <1>3 DEF RestartContainer, RestartsTypeOK, RestarterState, NoRestart, TaskSteps
  <2>2. \A t \in Restarter :
          restarter'[t] = IF t = r THEN [restarter[r] EXCEPT !.step = "waiting"] ELSE restarter[t]
    BY <1>3 DEF RestartContainer, RestartsTypeOK
  <2>3. Tasks' = Tasks \cup {r} /\ r \notin Tasks
    BY <1>3, <2>1, <2>2 DEF RestartContainer, Tasks, TaskSteps
  <2>4. \A t \in Restarter : restarter'[t].container = restarter[t].container
    BY <2>1, <2>2
  <2>5. c \notin pending_restarts /\ pending_restarts' = pending_restarts \cup {c}
    BY <1>3 DEF RestartContainer
  <2>6. \A t \in Tasks : restarter[t].container # c
    BY <2>5 DEF OneRestartAtATime
  <2>7. Tasks \subseteq Restarter
    BY DEF Tasks
  <2>. QED
    BY <2>3, <2>4, <2>5, <2>6, <2>7 DEF OneRestartAtATime
<1>4. ASSUME NEW r \in Restarter, Recheck(r) \/ Unpause(r) \/ StopToRestart(r) PROVE OneRestartAtATime'
  <2>1. PICK s \in TaskSteps : TaskGoesOn(r, s)
    BY <1>4 DEF Recheck, Unpause, StopToRestart, TaskSteps
  <2>2. restarter[r].step \in TaskSteps /\ UNCHANGED pending_restarts
    BY <1>4 DEF Recheck, Unpause, StopToRestart, TaskSteps
  <2>3. Tasks' = Tasks /\ \A t \in Restarter : restarter'[t].container = restarter[t].container
    BY <2>1, <2>2, SameTasks
  <2>4. Tasks \subseteq Restarter
    BY DEF Tasks
  <2>. QED
    BY <2>2, <2>3, <2>4 DEF OneRestartAtATime
<1>5. ASSUME NEW r \in Restarter, StartAgain(r) \/ TaskFails(r) PROVE OneRestartAtATime'
  <2>1. restarter[r].step \in TaskSteps /\ \E failed \in BOOLEAN : Finish(r, failed)
    BY <1>5 DEF StartAgain, TaskFails, TaskSteps
  <2>. QED
    BY <2>1, FinishKeepsOne
<1>6. CASE AskStatus \/ ListContainers \/ GetContainersStatus \/ StatusFails
  BY <1>6 DEF AskStatus, ListContainers, GetContainersStatus, StatusFails, UnchangedByStatus,
              OneRestartAtATime, Tasks
<1>7. ASSUME NEW c \in Container, EngineChanges(c) PROVE OneRestartAtATime'
  BY <1>7 DEF EngineChanges, OneRestartAtATime, Tasks
<1>8. CASE ServiceStops
  <2>1. Tasks' = {} /\ pending_restarts' = {}
    BY <1>8 DEF ServiceStops, Tasks, NoRestart, TaskSteps
  <2>. QED
    BY <2>1 DEF OneRestartAtATime
<1>9. CASE UNCHANGED restartVars
  BY <1>9 DEF restartVars, OneRestartAtATime, Tasks
<1>. QED
  BY <1>1, <1>2, <1>3, <1>4, <1>5, <1>6, <1>7, <1>8, <1>9 DEF NextRestarts, Restarting

\* A container is restarted by one task at a time and pending exactly as long
\* as that task exists, for any number of requests and containers.
THEOREM RestartsOneAtATime == RestartsSpec => []OneRestartAtATime
<1>1. InitRestarts => OneRestartAtATime
  BY DEF InitRestarts, OneRestartAtATime, Tasks, NoRestart, TaskSteps
<1>. QED
  BY <1>1, NextOne, RestartsTypeCorrect, PTL DEF RestartsSpec

-----------------------------------------------------------------------------
(* What a request for the status shows.                                    *)

\* What the request remembers is enough to tell the restarts it overlapped:
\* they are those that were pending at first and those whose generation grew.
Remembers ==
  statusRequest # NotAsking =>
    /\ \A c \in Container : statusRequest.generations[c] <= restart_generations[c]
    /\ pending_restarts \subseteq restartedMeanwhile
    /\ restartedMeanwhile = statusRequest.pending \cup
         {c \in Container : restart_generations[c] # statusRequest.generations[c]}

\* Requests have their fields.
LEMMA AskingHasFields ==
  ASSUME RestartsTypeOK, statusRequest # NotAsking
  PROVE  /\ statusRequest.pending \subseteq Container
         /\ statusRequest.generations \in [Container -> Nat]
         /\ statusRequest.step \in {"asking", "listed"}
BY DEF RestartsTypeOK, StatusState

LEMMA NextRemembers == RestartsTypeOK /\ Remembers /\ [NextRestarts]_restartVars => Remembers'
<1> SUFFICES ASSUME RestartsTypeOK, Remembers, [NextRestarts]_restartVars PROVE Remembers'
  OBVIOUS
<1>1. ASSUME NEW r \in Restarter, NEW c \in Container, GetRestartTarget(r, c) PROVE Remembers'
  BY <1>1 DEF GetRestartTarget, Remembers
<1>2. ASSUME NEW r \in Restarter, RefusePending(r) PROVE Remembers'
  BY <1>2 DEF RefusePending, Remembers
<1>3. ASSUME NEW r \in Restarter, RestartContainer(r) PROVE Remembers'
  <2> DEFINE c == restarter[r].container
  <2>1. c \in Container
    BY <1>3, StepType DEF RestartContainer, RestartsTypeOK, TaskSteps
  <2>2. \A d \in Container :
          restart_generations'[d] = IF d = c THEN restart_generations[c] + 1 ELSE restart_generations[d]
    BY <1>3, <2>1 DEF RestartContainer, RestartsTypeOK
  <2>3. restart_generations \in [Container -> Nat]
    BY DEF RestartsTypeOK
  <2>4. /\ restartedMeanwhile' = restartedMeanwhile \cup {c}
        /\ pending_restarts' = pending_restarts \cup {c}
        /\ statusRequest' = statusRequest
    BY <1>3 DEF RestartContainer
  <2>5. CASE statusRequest = NotAsking
    BY <2>4, <2>5 DEF Remembers
  <2>6. CASE statusRequest # NotAsking
    <3>1. \A d \in Container : statusRequest.generations[d] \in Nat /\ restart_generations[d] \in Nat
      BY <2>3, <2>6, AskingHasFields
    <3>2. {d \in Container : restart_generations'[d] # statusRequest.generations[d]} =
          {d \in Container : restart_generations[d] # statusRequest.generations[d]} \cup {c}
      BY <2>1, <2>2, <2>6, <3>1 DEF Remembers
    <3>3. \A d \in Container : statusRequest.generations[d] <= restart_generations'[d]
      BY <2>2, <2>6, <3>1 DEF Remembers
    <3>. QED
      BY <2>4, <2>6, <3>2, <3>3 DEF Remembers
  <2>. QED
    BY <2>5, <2>6
<1>4. ASSUME NEW r \in Restarter, Recheck(r) \/ Unpause(r) \/ StopToRestart(r) PROVE Remembers'
  BY <1>4 DEF Recheck, Unpause, StopToRestart, UnchangedByTask, Remembers
<1>5. ASSUME NEW r \in Restarter, StartAgain(r) \/ TaskFails(r) PROVE Remembers'
  <2>1. /\ \E failed \in BOOLEAN : Finish(r, failed)
        /\ UnchangedByTask
    BY <1>5 DEF StartAgain, TaskFails
  <2>2. pending_restarts' \subseteq pending_restarts
    BY <2>1 DEF Finish, Remembers
  <2>. QED
    BY <2>1, <2>2 DEF UnchangedByTask, Remembers
<1>6. CASE AskStatus
  BY <1>6 DEF AskStatus, UnchangedByStatus, Remembers, RestartsTypeOK
<1>7. CASE ListContainers
  BY <1>7 DEF ListContainers, UnchangedByStatus, Remembers, NotAsking
<1>8. CASE GetContainersStatus \/ StatusFails
  BY <1>8 DEF GetContainersStatus, StatusFails, UnchangedByStatus, Remembers
<1>9. ASSUME NEW c \in Container, EngineChanges(c) PROVE Remembers'
  BY <1>9 DEF EngineChanges, Remembers
<1>10. CASE ServiceStops
  BY <1>10 DEF ServiceStops, Remembers
<1>11. CASE UNCHANGED restartVars
  BY <1>11 DEF restartVars, Remembers
<1>. QED
  BY <1>1, <1>2, <1>3, <1>4, <1>5, <1>6, <1>7, <1>8, <1>9, <1>10, <1>11 DEF NextRestarts, Restarting

\* Every answer shows as restarting the containers of which a restart was pending
\* at some moment of the request, and every other one as Docker listed it.
THEOREM StatusIsTrue == RestartsSpec => StatusShowsRestarts
<1> DEFINE Shows ==
      GetContainersStatus =>
        \A c \in DOMAIN StatusAnswer :
          StatusAnswer[c].state = IF c \in restartedMeanwhile THEN "restarting"
                                  ELSE statusRequest.states[c]
<1>1. InitRestarts => Remembers
  BY DEF InitRestarts, Remembers
<1>2. RestartsTypeOK /\ Remembers => Shows
  <2> SUFFICES ASSUME RestartsTypeOK, Remembers, GetContainersStatus
               PROVE  \A c \in DOMAIN StatusAnswer :
                        StatusAnswer[c].state = IF c \in restartedMeanwhile THEN "restarting"
                                                ELSE statusRequest.states[c]
    OBVIOUS
  <2>1. statusRequest # NotAsking
    BY DEF GetContainersStatus, NotAsking
  <2>2. PendingIds = restartedMeanwhile
    BY <2>1 DEF PendingIds, Remembers
  <2>. QED
    BY <2>2 DEF StatusAnswer
<1>3. RestartsTypeOK /\ Remembers /\ [NextRestarts]_restartVars => [Shows]_restartVars
  BY <1>2
<1>. QED
  BY <1>1, <1>3, NextRemembers, RestartsTypeCorrect, PTL DEF RestartsSpec, StatusShowsRestarts

-----------------------------------------------------------------------------
(* Wake-on-LAN.                                                            *)

\* Every variable has its type, and time never passes the limit of the batch.
LEMMA InitWakeTypeOK == InitWake => WakeTypeOK
BY WakeAssumption DEF InitWake, WakeTypeOK, Untouched, Ended

LEMMA NextWakeTypeOK == WakeTypeOK /\ [NextWake]_wakeVars => WakeTypeOK'
<1> SUFFICES ASSUME WakeTypeOK, [NextWake]_wakeVars PROVE WakeTypeOK'
  OBVIOUS
<1> USE WakeAssumption DEF WakeTypeOK, Ended
<1>1. ASSUME NEW devices \in Layouts, WakeClassroom(devices) PROVE WakeTypeOK'
  BY <1>1 DEF WakeClassroom, Untouched
<1>2. CASE AddressesUnread
  BY <1>2 DEF AddressesUnread
<1>3. ASSUME NEW addresses \in Addresses, SendWolPackets(addresses) PROVE WakeTypeOK'
  BY <1>3 DEF SendWolPackets
<1>4. ASSUME NEW m \in Text, Post(m) PROVE WakeTypeOK'
  BY <1>4 DEF Post, Becomes
<1>5. ASSUME NEW m \in Text, RouterSends(m) PROVE WakeTypeOK'
  <2>1. posted' \in [Text -> Nat] /\ packets' \in [Text -> Nat]
    BY <1>5 DEF RouterSends
  <2>2. target' \in [Text -> [step: {"wanted", "sending"} \cup Ended, since: 0..BatchTimeout]]
    BY <1>5 DEF RouterSends, Becomes
  <2>. QED
    BY <1>5, <2>1, <2>2 DEF RouterSends
<1>6. ASSUME NEW m \in Text, RouterRefuses(m) PROVE WakeTypeOK'
  BY <1>6 DEF RouterRefuses, Becomes
<1>7. ASSUME NEW m \in Text, GiveUp(m) PROVE WakeTypeOK'
  BY <1>7 DEF GiveUp, Becomes
<1>8. CASE Tick
  BY <1>8 DEF Tick, Overdue
<1>9. CASE Gather
  BY <1>9 DEF Gather
<1>10. CASE UNCHANGED wakeVars
  BY <1>10 DEF wakeVars
<1>. QED
  BY <1>1, <1>2, <1>3, <1>4, <1>5, <1>6, <1>7, <1>8, <1>9, <1>10 DEF NextWake

\* Every variable has its type in every behaviour; in particular no task is
\* left waiting when the limit of the batch has passed.
THEOREM WakeTypeCorrect == WakeSpec => []WakeTypeOK
BY InitWakeTypeOK, NextWakeTypeOK, PTL DEF WakeSpec

-----------------------------------------------------------------------------
(* One packet.  Each request to the router is one that its task posted, and*)
(* a task posts once; tasks go to MACs in upper case only.                 *)

Untried == {"none", "wanted"}

\* What the task of a MAC says of what was posted and sent for it.
Accounted(m) ==
  /\ target[m].step # "none" => Upper[m] = m
  /\ target[m].step \in Untried => posted[m] = 0 /\ packets[m] = 0
  /\ target[m].step \in {"sending", "failed"} => posted[m] + packets[m] <= 1
  /\ target[m].step = "sent" => posted[m] = 0 /\ packets[m] = 1

\* No task acts before the addresses are read.
NotBegun ==
  /\ batch = "idle" => \A m \in Text : target[m].step = "none"
  /\ batch = "reading" => \A m \in Text : target[m].step \in Untried

WakeInv == NotBegun /\ \A m \in Text : Accounted(m)

LEMMA OneOfTwo ==
  ASSUME NEW p \in Nat, NEW k \in Nat, p > 0, p + k <= 1
  PROVE  p = 1 /\ k = 0
OBVIOUS

LEMMA InitWakeInv == InitWake => WakeInv
BY DEF InitWake, WakeInv, Accounted, NotBegun, Untouched, Untried

LEMMA NextWakeInv == WakeTypeOK /\ WakeInv /\ [NextWake]_wakeVars => WakeInv'
<1> SUFFICES ASSUME WakeTypeOK, WakeInv, [NextWake]_wakeVars PROVE WakeInv'
  OBVIOUS
<1> USE WakeAssumption DEF WakeTypeOK, Ended, Untried
<1>1. ASSUME NEW devices \in Layouts, WakeClassroom(devices) PROVE WakeInv'
  <2>1. \A m \in Text : target[m].step = "none"
    BY <1>1 DEF WakeClassroom, WakeInv, NotBegun
  <2>2. \A m \in Targets(devices) : Upper[m] = m
    BY DEF Targets
  <2>3. \A m \in Text : target'[m].step \in Untried /\ (target'[m].step = "wanted" => m \in Targets(devices))
    BY <1>1, <2>1 DEF WakeClassroom, Untouched
  <2>4. \A m \in Text : posted'[m] = 0 /\ packets'[m] = 0
    BY <1>1, <2>1 DEF WakeClassroom, WakeInv, Accounted
  <2>5. \A m \in Text : Accounted(m)'
    BY <2>2, <2>3, <2>4 DEF Accounted
  <2>6. NotBegun'
    BY <1>1, <2>1, <2>3 DEF WakeClassroom, NotBegun
  <2>. QED
    BY <2>5, <2>6 DEF WakeInv
<1>2. CASE AddressesUnread \/ Tick \/ Gather \/ UNCHANGED wakeVars
  <2>1. target' = target /\ posted' = posted /\ packets' = packets
    BY <1>2 DEF AddressesUnread, Tick, Gather, wakeVars
  <2>2. \A m \in Text : Accounted(m)'
    BY <2>1 DEF WakeInv, Accounted
  <2>3. NotBegun'
    BY <1>2, <2>1 DEF WakeInv, NotBegun, AddressesUnread, Tick, Gather, wakeVars
  <2>. QED
    BY <2>2, <2>3 DEF WakeInv
<1>3. ASSUME NEW addresses \in Addresses, SendWolPackets(addresses) PROVE WakeInv'
  <2>1. \A m \in Text : target[m].step \in Untried
    BY <1>3 DEF SendWolPackets, WakeInv, NotBegun
  <2>2. \A m \in Text : \/ target'[m] = target[m]
                        \/ target[m].step = "wanted" /\ target'[m].step = "failed"
    BY <1>3 DEF SendWolPackets
  <2>3. posted' = posted /\ packets' = packets
    BY <1>3 DEF SendWolPackets
  <2>4. \A m \in Text : Accounted(m)'
    BY <2>1, <2>2, <2>3 DEF WakeInv, Accounted
  <2>5. NotBegun'
    BY <1>3 DEF SendWolPackets, NotBegun
  <2>. QED
    BY <2>4, <2>5 DEF WakeInv
<1>4. ASSUME NEW m \in Text, Post(m) PROVE WakeInv'
  <2>1. /\ target[m].step = "wanted" /\ batch = "sending" /\ batch' = batch
        /\ target' = [target EXCEPT ![m] = [step |-> "sending", since |-> elapsed]]
        /\ posted' = [posted EXCEPT ![m] = @ + 1] /\ packets' = packets
    BY <1>4 DEF Post, Becomes
  <2>2. \A x \in Text : Accounted(x)'
    BY <2>1 DEF WakeInv, Accounted
  <2>. QED
    BY <2>1, <2>2 DEF WakeInv, NotBegun
<1>5. ASSUME NEW m \in Text, RouterSends(m) PROVE WakeInv'
  <2>1. posted[m] > 0 /\ target[m].step \in {"sending", "failed"} /\ Upper[m] = m
    BY <1>5 DEF RouterSends, WakeInv, Accounted
  <2>2. posted[m] = 1 /\ packets[m] = 0
    <3>1. posted[m] + packets[m] <= 1
      BY <2>1 DEF WakeInv, Accounted
    <3>2. posted[m] \in Nat /\ packets[m] \in Nat
      OBVIOUS
    <3>3. posted[m] > 0
      BY <2>1
    <3>. QED
      BY <3>1, <3>2, <3>3, OneOfTwo
  <2>3. /\ posted' = [posted EXCEPT ![m] = 0] /\ packets' = [packets EXCEPT ![m] = 1]
        /\ batch' = batch
    BY <1>5, <2>1, <2>2 DEF RouterSends
  <2>4. /\ \A x \in Text \ {m} : target'[x] = target[x]
        /\ target'[m].step = "sent" \/ target'[m] = target[m]
    BY <1>5 DEF RouterSends, Becomes
  <2>5. \A x \in Text : Accounted(x)'
    BY <2>1, <2>3, <2>4 DEF WakeInv, Accounted
  <2>6. NotBegun'
    BY <2>1, <2>3 DEF WakeInv, NotBegun
  <2>. QED
    BY <2>5, <2>6 DEF WakeInv
<1>6. ASSUME NEW m \in Text, RouterRefuses(m) PROVE WakeInv'
  <2>1. posted[m] > 0 /\ target[m].step \in {"sending", "failed"} /\ Upper[m] = m
    BY <1>6 DEF RouterRefuses, WakeInv, Accounted
  <2>2. /\ posted' = [posted EXCEPT ![m] = @ - 1] /\ packets' = packets /\ batch' = batch
        /\ \A x \in Text \ {m} : target'[x] = target[x]
        /\ target'[m].step = "failed"
    BY <1>6, <2>1 DEF RouterRefuses, Becomes
  <2>3. \A x \in Text : Accounted(x)'
    BY <2>1, <2>2 DEF WakeInv, Accounted
  <2>4. NotBegun'
    BY <2>1, <2>2 DEF WakeInv, NotBegun
  <2>. QED
    BY <2>3, <2>4 DEF WakeInv
<1>7. ASSUME NEW m \in Text, GiveUp(m) PROVE WakeInv'
  <2>1. target[m].step \in {"wanted", "sending"} /\ batch = "sending" /\ batch' = batch
    BY <1>7 DEF GiveUp, Overdue
  <2>2. /\ posted' = posted /\ packets' = packets
        /\ \A x \in Text \ {m} : target'[x] = target[x]
        /\ target'[m].step = "failed"
    BY <1>7 DEF GiveUp, Becomes
  <2>3. \A x \in Text : Accounted(x)'
    <3>1. Accounted(m)'
      BY <2>1, <2>2 DEF WakeInv, Accounted
    <3>2. \A x \in Text \ {m} : Accounted(x)'
      BY <2>2 DEF WakeInv, Accounted
    <3>. QED
      BY <3>1, <3>2
  <2>. QED
    BY <2>1, <2>3 DEF WakeInv, NotBegun
<1>. QED
  BY <1>1, <1>2, <1>3, <1>4, <1>5, <1>6, <1>7 DEF NextWake

\* For any devices, addresses, slots and limits: no MAC gets two packets, what is
\* reported as sent was sent, and what is reported as failed was sent at most once.
THEOREM OnePacketPerMac == WakeSpec => []PacketsMatchResults
<1>1. WakeTypeOK /\ WakeInv => PacketsMatchResults
  BY DEF WakeTypeOK, WakeInv, Accounted, PacketsMatchResults, Ended, Untried
<1>. QED
  BY <1>1, InitWakeInv, NextWakeInv, WakeTypeCorrect, PTL DEF WakeSpec
-----------------------------------------------------------------------------
(* The status of a router: types.  A write that is given up is still a     *)
(* write; there is a row as soon as a write has loaded one.                *)

Loads(W) == \A w \in W : w \in Write /\ (w.loaded # NoRow => row # NoRow)

StatusInv ==
  /\ StatusTypeOK
  /\ Loads(writes)
  /\ router.version + routerChangesLeft <= MaxRouterChanges

WorkerState ==
  [step: {"new", "starting", "polling", "sleeping", "stopping"}, router: Settings,
   failures: 0..3]

LEMMA SentType ==
  ASSUME NEW by \in Writer, NEW status \in Status
  PROVE  /\ Sent(by, status) \in Write /\ Sent(by, status).loaded = NoRow
         /\ [Sent(by, status) EXCEPT !.awaited = FALSE] \in Write
         /\ [Sent(by, status) EXCEPT !.awaited = FALSE].loaded = NoRow
BY DEF Sent, Write

LEMMA GivenUpType ==
  ASSUME NEW w \in Write
  PROVE  /\ [w EXCEPT !.awaited = FALSE] \in Write
         /\ [w EXCEPT !.awaited = FALSE].loaded = w.loaded
BY DEF Write

LEMMA GivenUpLoads ==
  ASSUME Loads(writes), NEW by
  PROVE  Loads(GivenUp(by)) /\ Loads({[w EXCEPT !.awaited = FALSE] : w \in writes})
BY GivenUpType DEF GivenUp, Loads

LEMMA SentLoads ==
  ASSUME NEW by \in Writer, NEW status \in Status
  PROVE  Loads({Sent(by, status)}) /\ Loads({[Sent(by, status) EXCEPT !.awaited = FALSE]})
BY SentType DEF Loads

LEMMA InventoryWritesType ==
  ASSUME StatusInv, NEW w \in writes,
         LoadStatusRow(w) \/ UpsertRouterServiceStatus(w) \/ WriteFault(w)
  PROVE  StatusInv'
<1>1. w \in Write /\ (w.loaded # NoRow => row # NoRow) /\ row \in Row \cup {NoRow}
  BY DEF StatusInv, StatusTypeOK, Loads
<1>2. CASE LoadStatusRow(w)
  <2> DEFINE loaded == [w EXCEPT !.step = "loaded", !.loaded = row]
  <2>1. loaded \in Write /\ loaded.loaded = row
    BY <1>1 DEF Write
  <2>2. writes' = (writes \ {w}) \cup {loaded} /\ row' = row
    BY <1>2 DEF LoadStatusRow
  <2> HIDE DEF loaded
  <2>3. Loads(writes)'
    BY <2>1, <2>2 DEF StatusInv, Loads
  <2>4. writes' \subseteq Write
    BY <2>3 DEF Loads
  <2>. QED
    BY <1>2, <2>3, <2>4 DEF LoadStatusRow, UnchangedByWrite, StatusInv, StatusTypeOK
<1>3. CASE UpsertRouterServiceStatus(w)
  <2>1. w.status \in Status
    BY <1>1 DEF Write
  <2>2. row' \in Row
    <3>1. CASE w.loaded = NoRow
      <4>1. [status |-> w.status, recent |-> TRUE] \in Row
        BY <2>1 DEF Row
      <4>. QED
        BY <1>1, <1>3, <3>1, <4>1 DEF UpsertRouterServiceStatus
    <3>2. CASE w.loaded # NoRow
      <4> DEFINE status == IF w.status = w.loaded.status THEN row.status ELSE w.status
      <4>1. row' = [status |-> status, recent |-> TRUE]
        BY <1>3, <3>2 DEF UpsertRouterServiceStatus
      <4>2. row.status \in Status
        BY <1>1, <3>2 DEF Row
      <4>3. status \in Status
        BY <2>1, <4>2
      <4> HIDE DEF status
      <4>. QED
        BY <4>1, <4>3 DEF Row
    <3>. QED
      BY <3>1, <3>2
  <2>3. writes' \subseteq writes
    BY <1>3 DEF UpsertRouterServiceStatus
  <2>4. row' # NoRow
    BY <2>2, StatusAssumption
  <2>. QED
    BY <1>3, <2>2, <2>3, <2>4
       DEF UpsertRouterServiceStatus, UnchangedByWrite, StatusInv, StatusTypeOK, Loads
<1>4. CASE WriteFault(w)
  <2>1. writes' \in {writes \ {w}, GivenUp(w.by)} /\ row' = row
    BY <1>4 DEF WriteFault, UnchangedByWrite
  <2>2. Loads(writes)'
    BY <2>1, GivenUpLoads DEF StatusInv, Loads
  <2>3. writes' \subseteq Write
    BY <2>2 DEF Loads
  <2>. QED
    BY <1>4, <2>2, <2>3, StatusAssumption
       DEF WriteFault, Extra, UnchangedByWrite, StatusInv, StatusTypeOK
<1>. QED
  BY <1>2, <1>3, <1>4

\* A step that sends at most one write and does not touch the row.
LEMMA SendsType ==
  ASSUME StatusInv, row' = row, NEW by \in Writer, NEW status \in Status,
         \/ writes' = writes
         \/ writes' = writes \cup {Sent(by, status)}
         \/ writes' = writes \cup {[Sent(by, status) EXCEPT !.awaited = FALSE]}
  PROVE  writes' \subseteq Write /\ Loads(writes)'
<1>1. Loads({Sent(by, status)}) /\ Loads({[Sent(by, status) EXCEPT !.awaited = FALSE]})
  BY SentLoads
<1>2. \A W : (Loads(W) /\ (writes' = writes \/ writes' = writes \cup W)) => Loads(writes)'
  BY DEF StatusInv, Loads
<1>3. Loads(writes)'
  BY <1>1, <1>2 DEF StatusInv
<1>. QED
  BY <1>3 DEF Loads

LEMMA WorkerStepType ==
  ASSUME StatusInv, WorkerStep
  PROVE  StatusInv'
<1>1. worker \in WorkerState /\ worker # NoWorker /\ UnchangedByWorker
  BY DEF WorkerStep, StartWorker, BeginRound, PollOnce, WorkerEnds, StatusInv, StatusTypeOK,
         WorkerState
<1>2. CASE WorkerEnds
  BY <1>2 DEF WorkerEnds, UnchangedByWorker, Limits, StatusInv, StatusTypeOK, Loads
<1>3. CASE ~WorkerEnds
  <2>1. PICK step \in {"starting", "polling", "sleeping"}, failures \in 0..3, status \in Status :
          WorkerWrites(step, failures, status)
    <3>1. /\ worker.failures \in 0..3
          /\ worker.failures # 3 => worker.failures + 1 \in 0..3
      BY <1>1 DEF WorkerState
    <3>2. {"starting", "ok", "warning", "error"} \subseteq Status
      BY DEF Status
    <3>3. CASE StartWorker
      BY <3>2, <3>3 DEF StartWorker
    <3>4. CASE BeginRound
      <4> DEFINE status == IF worker.failures = 0 THEN "ok" ELSE "warning"
      <4>1. status \in Status
        BY <3>2
      <4>2. WorkerWrites("polling", worker.failures, status)
        BY <3>4 DEF BeginRound
      <4> HIDE DEF status
      <4>. QED
        BY <3>1, <4>1, <4>2
    <3>5. CASE PollOnce
      <4>1. CASE answers
        BY <3>2, <3>5, <4>1 DEF PollOnce
      <4>2. CASE ~answers
        <5> DEFINE failures == IF worker.failures = 3 THEN 3 ELSE worker.failures + 1
                   status == IF failures < 3 THEN "warning" ELSE "error"
        <5>1. failures \in 0..3
          BY <3>1
        <5>2. WorkerWrites("sleeping", failures, status)
          BY <3>5, <4>2 DEF PollOnce
        <5> HIDE DEF failures
        <5>3. status \in Status
          BY <3>2
        <5> HIDE DEF status
        <5>. QED
          BY <5>1, <5>2, <5>3
      <4>. QED
        BY <4>1, <4>2
    <3>. QED
      BY <1>3, <3>3, <3>4, <3>5 DEF WorkerStep
  <2>2. [worker EXCEPT !.step = step, !.failures = failures] \in WorkerState
    BY <1>1 DEF WorkerState
  <2>3. worker' \in WorkerState
    BY <2>1, <2>2 DEF WorkerWrites
  <2>4. writes' \subseteq Write /\ Loads(writes)'
    <3>1. row' = row /\ "worker" \in Writer /\ writes' = writes \cup {Sent("worker", status)}
      BY <1>1, <2>1 DEF UnchangedByWorker, WorkerWrites, Writer
    <3>. QED
      BY <3>1, SendsType
  <2>. QED
    BY <1>1, <2>3, <2>4 DEF UnchangedByWorker, Limits, StatusInv, StatusTypeOK, WorkerState
<1>. QED
  BY <1>2, <1>3

SupervisorState == [step: {"loading", "deciding", "sleeping", "down"}, router: Settings \cup {NoRouter}]

LEMMA SupervisorStepType ==
  ASSUME StatusInv, SupervisorStep \/ GetActiveRoutersFails
  PROVE  StatusInv'
<1>1. /\ supervisor \in SupervisorState /\ router \in Settings
      /\ worker # NoWorker => worker \in WorkerState
  BY DEF StatusInv, StatusTypeOK, SupervisorState, WorkerState
<1>2. UnchangedBySupervisor /\ statusExtrasLeft' \in 0..MaxExtras
  BY StatusAssumption
     DEF SupervisorStep, GetActiveRouters, StopWorker, StartPolling, KeepPolling, ReportDisabled,
         NextRound, GetActiveRoutersFails, Extra, StatusInv, StatusTypeOK
<1>3. supervisor' \in SupervisorState
  <2>1. \A s \in {"loading", "deciding", "sleeping", "down"}, r \in Settings \cup {NoRouter} :
          [step |-> s, router |-> r] \in SupervisorState
    BY DEF SupervisorState
  <2>2. [supervisor EXCEPT !.step = "sleeping"] \in SupervisorState
    BY <1>1 DEF SupervisorState
  <2>. QED
    BY <1>1, <2>1, <2>2
     DEF SupervisorStep, GetActiveRouters, StopWorker, StartPolling, KeepPolling, ReportDisabled,
         NextRound, GetActiveRoutersFails
<1>4. worker' \in {NoWorker} \cup WorkerState
  <2>1. CASE StopWorker
    <3>1. worker # NoWorker
      BY <2>1 DEF StopWorker, Outdated
    <3>2. [worker EXCEPT !.step = "stopping"] \in WorkerState
      BY <1>1, <3>1 DEF WorkerState
    <3>. QED
      BY <2>1, <3>2 DEF StopWorker, Cancelled
  <2>2. CASE StartPolling
    <3>1. supervisor.router \in Settings
      BY <1>1, <2>2 DEF StartPolling, ToPoll, SupervisorState
    <3>. QED
      BY <2>2, <3>1 DEF StartPolling, WorkerState
  <2>3. CASE UNCHANGED worker
    BY <1>1, <2>3
  <2>. QED
    BY <2>1, <2>2, <2>3
     DEF SupervisorStep, GetActiveRouters, KeepPolling, ReportDisabled, NextRound,
         GetActiveRoutersFails
<1>5. writes' \subseteq Write /\ Loads(writes)'
  <2>1. row' = row /\ {"supervisor", "worker"} \subseteq Writer /\ "disabled" \in Status
    BY <1>2 DEF UnchangedBySupervisor, Writer, Status
  <2>2. CASE StopWorker
    <3>1. Loads(GivenUp("worker")) /\ Loads({Sent("worker", "disabled")})
      BY <2>1, GivenUpLoads, SentLoads DEF StatusInv
    <3>2. writes' \subseteq GivenUp("worker") \cup {Sent("worker", "disabled")}
      BY <2>2 DEF StopWorker, Cancelled
    <3>. QED
      BY <2>1, <3>1, <3>2 DEF Loads
  <2>3. CASE ReportDisabled
    BY <2>1, <2>3, SendsType DEF ReportDisabled
  <2>4. CASE UNCHANGED writes
    BY <2>1, <2>4 DEF StatusInv, StatusTypeOK, Loads
  <2>. QED
    BY <2>2, <2>3, <2>4
     DEF SupervisorStep, GetActiveRouters, StartPolling, KeepPolling, NextRound,
         GetActiveRoutersFails
<1>. QED
  BY <1>2, <1>3, <1>4, <1>5
     DEF UnchangedBySupervisor, StatusInv, StatusTypeOK, SupervisorState, WorkerState

LEMMA ManualPollType ==
  ASSUME StatusInv, PollRouterNow \/ FinishPollNow
  PROVE  StatusInv'
<1>1. /\ "manual" \in Writer /\ {"starting", "ok", "error"} \subseteq Status
      /\ UnchangedByPoll /\ row' = row
      /\ manual' \in {"idle", "polling"} /\ statusExtrasLeft' \in 0..MaxExtras
  BY StatusAssumption
     DEF Writer, Status, PollRouterNow, FinishPollNow, UnchangedByPoll, Extra, StatusInv, StatusTypeOK
<1>2. \E status \in Status :
        \/ writes' = writes \cup {Sent("manual", status)}
        \/ writes' = writes \cup {[Sent("manual", status) EXCEPT !.awaited = FALSE]}
  BY <1>1 DEF PollRouterNow, FinishPollNow
<1>3. writes' \subseteq Write /\ Loads(writes)'
  BY <1>1, <1>2, SendsType
<1>. QED
  BY <1>1, <1>3 DEF UnchangedByPoll, StatusInv, StatusTypeOK

LEMMA AroundType ==
  ASSUME StatusInv, Age \/ SettingsChange \/ RouterChanges \/ PollerDies \/ PollerStarts
  PROVE  StatusInv'
<1> USE StatusAssumption DEF StatusInv, StatusTypeOK, Loads
<1>0. router.version \in Nat /\ routerChangesLeft \in Nat
  BY DEF Settings
<1>1. CASE Age
  <2>1. [row EXCEPT !.recent = FALSE] \in Row
    BY <1>1 DEF Age, Row
  <2>2. row' \in Row /\ row' # NoRow
    BY <1>1, <2>1 DEF Age
  <2>. QED
    BY <1>1, <2>2 DEF Age, Limits
<1>2. CASE SettingsChange
  <2>1. PICK s \in Settings : router' = [s EXCEPT !.version = router.version + 1]
    BY <1>2 DEF SettingsChange
  <2>2. router.version + 1 \in 0..MaxRouterChanges
    BY <1>2 DEF SettingsChange, Changes, Settings
  <2>3. router' \in Settings
    BY <2>1, <2>2 DEF Settings
  <2>4. router'.version = router.version + 1
    BY <2>1 DEF Settings
  <2>. QED
    BY <1>0, <1>2, <2>3, <2>4 DEF SettingsChange, Changes
<1>3. CASE RouterChanges
  BY <1>0, <1>3 DEF RouterChanges, Changes
<1>4. CASE PollerDies
  <2>1. writes' = {[w EXCEPT !.awaited = FALSE] : w \in writes} /\ row' = row
    BY <1>4 DEF PollerDies
  <2>2. writes' \subseteq Write /\ Loads(writes)'
    BY <2>1, GivenUpLoads
  <2>. QED
    BY <1>0, <1>4, <2>2 DEF PollerDies, Changes
<1>5. CASE PollerStarts
  BY <1>5 DEF PollerStarts, Limits
<1>. QED
  BY <1>1, <1>2, <1>3, <1>4, <1>5

LEMMA InitStatusInv == InitStatus => StatusInv
BY StatusAssumption DEF InitStatus, StatusInv, StatusTypeOK, Loads, Settings

LEMMA NextStatusInv == StatusInv /\ [NextStatus]_statusVars => StatusInv'
<1> SUFFICES ASSUME StatusInv, [NextStatus]_statusVars PROVE StatusInv'
  OBVIOUS
<1>1. CASE UNCHANGED statusVars
  BY <1>1 DEF statusVars, StatusInv, StatusTypeOK, Loads
<1>2. CASE (\E w \in writes : WriteFault(w)) \/ InventoryStep
  BY <1>2, InventoryWritesType DEF InventoryStep
<1>. QED
  BY <1>1, <1>2, WorkerStepType, SupervisorStepType, ManualPollType, AroundType DEF NextStatus

\* The types hold always: a write is complete wherever it is on its way, and it
\* never updates a row that is not there.
THEOREM StatusTypeCorrect == StatusSpec => []StatusTypeOK
<1>1. StatusInv => StatusTypeOK
  BY DEF StatusInv
<1>. QED
  BY <1>1, InitStatusInv, NextStatusInv, PTL DEF StatusSpec

-----------------------------------------------------------------------------
(* The parts side by side.  What one does leaves the variables of the      *)
(* others alone, so that each part is, step by step, the part by itself.   *)

LEMMA NextOfParts ==
  ASSUME [Next]_vars
  PROVE  /\ [NextRestarts]_restartVars /\ [NextBackup]_backupVars
         /\ [NextAdministration]_administrationVars
         /\ [NextWake]_wakeVars /\ [NextStatus]_statusVars
         /\ part' = part
BY DEF Next, vars, Restarts, Backups, Accounts, Wakes, Statuses

\* Every behaviour of the parts side by side is one of each part: what is
\* proved of a part holds of it in Administration.
THEOREM PartsImplemented ==
  Spec => RestartsSpec /\ BackupSpec /\ AdministrationSpec /\ WakeSpec /\ StatusSpec
<1>1. Init => InitRestarts /\ InitBackup /\ InitAdministration /\ InitWake /\ InitStatus
  BY DEF Init
<1>2. [Next]_vars => /\ [NextRestarts]_restartVars /\ [NextBackup]_backupVars
                     /\ [NextAdministration]_administrationVars
                     /\ [NextWake]_wakeVars /\ [NextStatus]_statusVars
  BY NextOfParts
<1>3. Spec => Init /\ [][Next]_vars
  BY DEF Spec
<1>. QED
  BY <1>1, <1>2, <1>3, PTL
     DEF RestartsSpec, BackupSpec, AdministrationSpec, WakeSpec, StatusSpec

\* Every variable of every part keeps its type.
THEOREM TypeCorrect == Spec => []TypeOK
<1>1. Init => part \in Part
  BY DEF Init
<1>2. part \in Part /\ [Next]_vars => (part \in Part)'
  BY NextOfParts
<1>3. Spec => Init /\ [][Next]_vars
  BY DEF Spec
<1>4. Spec => [](part \in Part)
  BY <1>1, <1>2, <1>3, PTL
<1>5. /\ part \in Part /\ RestartsTypeOK /\ BackupTypeOK
      /\ AdministrationTypeOK /\ WakeTypeOK /\ StatusTypeOK
      => TypeOK
  BY DEF TypeOK
<1>. QED
  BY <1>4, <1>5, PartsImplemented, RestartsTypeCorrect, BackupTypeCorrect,
     AdministrationTypeCorrect, WakeTypeCorrect, StatusTypeCorrect, PTL

\* What the parts promise by themselves they promise side by side.
THEOREM PartsKeepPromises ==
  Spec => /\ []OneRestartAtATime /\ StatusShowsRestarts
          /\ RestoredIsWhole
          /\ EffectsWereAuthorised /\ RevokedStaysRevoked
          /\ []PacketsMatchResults
BY PartsImplemented, RestartsOneAtATime, StatusIsTrue, SuccessfulRestoreIsWhole,
   ChangesWereAuthorised, RevocationHolds, OnePacketPerMac, PTL
=============================================================================
