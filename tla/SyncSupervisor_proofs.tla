------------------------ MODULE SyncSupervisor_proofs ------------------------
(***************************************************************************)
(* Proofs about SyncSupervisor, for any number of routers, tasks, settings *)
(* and any queue size: the types, the ownership of worker tasks, and what  *)
(* the dict looks like when the supervisor sleeps.                         *)
(***************************************************************************)
EXTENDS SyncSupervisor, TLAPS

\* Every variable has its type: initially and after every step.
LEMMA InitTypeOK == Init => TypeOK
BY QueueAssumption, BoundAssumption, SentinelAssumption
   DEF Init, TypeOK, Asleep, SupervisorState, NoTask, TaskState

\* The two task records the supervisor writes are tasks.
LEMMA TaskTypes ==
  /\ NoTask \in TaskState
  /\ \A r \in Router, c \in Config \cup {None} : NewTask(r, c) \in TaskState
BY QueueAssumption DEF NoTask, NewTask, TaskState, LivePhase

\* A task stays a task when its phase, and no more, is set to another phase.
LEMMA PhaseType ==
  ASSUME NEW x \in TaskState, NEW p \in LivePhase \cup {"none", "done", "failed"}
  PROVE  [x EXCEPT !.phase = p] \in TaskState
BY DEF TaskState

\* The same for what waking up does to a task.
LEMMA WakeType ==
  ASSUME NEW x \in TaskState, NEW b \in BOOLEAN, NEW q \in 0..QueueSize
  PROVE  [x EXCEPT !.phase = "fetching", !.triggered = b, !.queued = q] \in TaskState
<1>1. CASE b = TRUE
  BY <1>1 DEF TaskState, LivePhase
<1>2. CASE b = FALSE
  BY <1>2 DEF TaskState, LivePhase
<1>. QED
  BY <1>1, <1>2

LEMMA NextTypeOK == TypeOK /\ [Next]_vars => TypeOK'
<1> SUFFICES ASSUME TypeOK, [Next]_vars PROVE TypeOK'
  OBVIOUS
<1> USE QueueAssumption, BoundAssumption, SentinelAssumption DEF TypeOK
<1>1. ASSUME NEW t \in TaskId, NEW b \in BOOLEAN, Wake(t, b) PROVE TypeOK'
  <2> DEFINE q == IF b THEN 0 ELSE tasks[t].queued
             x == [tasks[t] EXCEPT !.phase = "fetching", !.triggered = b, !.queued = q]
  <2>1. x \in TaskState
    <3>1. tasks[t] \in TaskState
      OBVIOUS
    <3>2. q \in 0..QueueSize
      <4>1. CASE b = TRUE
        BY <4>1
      <4>2. CASE b = FALSE
        BY <3>1, <4>2 DEF TaskState
      <4>. QED
        BY <4>1, <4>2
    <3>. HIDE DEF q
    <3>. QED
      BY <3>1, <3>2, WakeType
  <2>2. tasks' = [tasks EXCEPT ![t] = x]
    BY <1>1, Zenon DEF Wake
  <2>. QED
    BY <1>1, <2>1, <2>2 DEF Wake
<1>2. ASSUME NEW t \in TaskId, ReadPolicy(t) PROVE TypeOK'
  BY <1>2 DEF ReadPolicy, TaskState, LivePhase
<1>3. ASSUME NEW t \in TaskId, CompleteSync(t) PROVE TypeOK'
  BY <1>3 DEF CompleteSync, TaskState, LivePhase
<1>4. ASSUME NEW t \in TaskId, SyncFails(t) PROVE TypeOK'
  BY <1>4 DEF SyncFails, Fault, TaskState, LivePhase
<1>5. ASSUME NEW t \in TaskId, ReportFailure(t) PROVE TypeOK'
  BY <1>5 DEF ReportFailure, TaskState, LivePhase
<1>6. ASSUME NEW t \in TaskId, ReportFails(t) PROVE TypeOK'
  BY <1>6 DEF ReportFails, Fault, TaskState, LivePhase
<1>7. ASSUME NEW t \in TaskId, StopWorker(t) PROVE TypeOK'
  BY <1>7 DEF StopWorker, TaskState, LivePhase
<1>8. CASE LoadRouters
  BY <1>8 DEF LoadRouters, Asleep, Fault, SupervisorState
<1>9. CASE Sleep
  BY <1>9 DEF Sleep, SupervisorState
<1>10. ASSUME NEW r \in Router, KeepWorker(r) PROVE TypeOK'
  BY <1>10 DEF KeepWorker, SupervisorState
<1>11. ASSUME NEW r \in Router, Create(r)
       PROVE tasks' \in [TaskId -> TaskState] /\ workers' \in [Router -> TaskId \cup {None}]
  <2>1. supervisor.listed[r] \in Config \cup {None}
    BY DEF SupervisorState
  <2>. QED
    BY <1>11, <2>1, TaskTypes DEF Create
<1>12. ASSUME NEW r \in Router, StartWorker(r) PROVE TypeOK'
  BY <1>11, <1>12 DEF StartWorker, SupervisorState
<1>13. ASSUME NEW r \in Router, CancelWorker(r) PROVE TypeOK'
  <2>1. workers[r] \in TaskId
    BY <1>13 DEF CancelWorker, MustStop, HasWorker
  <2>2. tasks[workers[r]].phase \in LivePhase \cup {"none", "done", "failed"}
    BY <2>1 DEF TaskState
  <2> DEFINE p == IF Live(workers[r]) THEN "cancelled" ELSE tasks[workers[r]].phase
  <2>3. p \in LivePhase \cup {"none", "done", "failed"}
    BY <2>2 DEF LivePhase
  <2>4. tasks' = [tasks EXCEPT ![workers[r]] = [tasks[workers[r]] EXCEPT !.phase = p]]
    BY <1>13 DEF CancelWorker
  <2>5. tasks' \in [TaskId -> TaskState]
    BY <2>1, <2>3, <2>4, PhaseType
  <2>. QED
    BY <1>13, <2>5 DEF CancelWorker, SupervisorState
<1>14. ASSUME NEW r \in Router, ReplaceWorker(r) PROVE TypeOK'
  <2>1. tasks' \in [TaskId -> TaskState] /\ workers' \in [Router -> TaskId \cup {None}]
    <3>1. CASE Create(r)
      BY <1>11, <3>1
    <3>2. CASE Drop(r)
      BY <3>2, TaskTypes DEF Drop
    <3>. QED
      BY <1>14, <3>1, <3>2 DEF ReplaceWorker
  <2>. QED
    BY <1>14, <2>1 DEF ReplaceWorker, SupervisorState
<1>15. ASSUME Restart, faultsLeft' \in 0..MaxFaults PROVE TypeOK'
  BY <1>15, TaskTypes DEF Restart, Asleep, SupervisorState
<1>16. ASSUME NEW r \in Router, SupervisorDies(r) PROVE TypeOK'
  BY <1>15, <1>16 DEF SupervisorDies
<1>17. CASE Crash
  <2>1. faultsLeft' \in 0..MaxFaults
    BY <1>17 DEF Crash, Fault
  <2>. QED
    BY <1>15, <1>17, <2>1 DEF Crash
<1>18. ASSUME NEW r \in Router, HandleWanPolicyChanged(r) PROVE TypeOK'
  BY <1>18 DEF HandleWanPolicyChanged, TaskState
<1>19. ASSUME NEW r \in Router, ChangeRouter(r) PROVE TypeOK'
  BY <1>19 DEF ChangeRouter
<1>20. ASSUME NEW r \in Router, ChangePolicy(r) PROVE TypeOK'
  BY <1>20 DEF ChangePolicy, Fault
<1>21. CASE UNCHANGED vars
  BY <1>21 DEF vars
<1>. QED
  BY <1>1, <1>2, <1>3, <1>4, <1>5, <1>6, <1>7, <1>8, <1>9, <1>10, <1>12, <1>13,
     <1>14, <1>16, <1>17, <1>18, <1>19, <1>20, <1>21
     DEF Next, PromptStep, SupervisorStep, WakeOnTrigger, WakeOnInterval

\* Type correctness, for every value of the constants.
THEOREM TypeCorrect == Spec => []TypeOK
BY InitTypeOK, NextTypeOK, PTL DEF Spec
-----------------------------------------------------------------------------
(* The inductive invariant.  EveryTaskOwned alone is not inductive: the    *)
(* dict must not name a task that does not exist, or Create could hand the *)
(* same task to two routers.  AsleepMeansSettled is what is left of a loop *)
(* invariant when todo is empty.                                           *)

\* The other direction of EveryTaskOwned.
WorkersExist ==
  \A r \in Router : HasWorker(r) => Task(r).phase # "none" /\ Task(r).router = r

\* The supervisor sleeps when it is through, and awaits a task only while it is in
\* the dict.
SupervisorOK ==
  /\ supervisor.phase = "sleeping" => supervisor.todo = {}
  /\ supervisor.phase = "awaiting" => HasWorker(supervisor.router)

SettledRouter(r) ==
  IF WantsWorker(r) THEN HasWorker(r) /\ Task(r).config = supervisor.listed[r]
                    ELSE ~HasWorker(r)

\* The loop invariant of the supervisor.
ComparedAreSettled == \A r \in Router \ supervisor.todo : SettledRouter(r)

IInv == TypeOK /\ EveryTaskOwned /\ WorkersExist /\ SupervisorOK /\ ComparedAreSettled

LEMMA InitIInv == Init => IInv
<1> SUFFICES ASSUME Init PROVE IInv
  OBVIOUS
<1>1. TypeOK
  BY InitTypeOK
<1>. QED
  BY <1>1 DEF Init, IInv, Asleep, NoTask, EveryTaskOwned, WorkersExist, SupervisorOK,
              ComparedAreSettled, SettledRouter, WantsWorker, HasWorker

\* Steps that touch neither the dict nor the supervisor and only move tasks from
\* one phase of their life to another.
TasksAdvance ==
  /\ UNCHANGED <<workers, supervisor>>
  /\ \A t \in TaskId : /\ tasks'[t].phase = "none" <=> tasks[t].phase = "none"
                       /\ tasks'[t].router = tasks[t].router
                       /\ tasks'[t].config = tasks[t].config

LEMMA AdvanceIInv == IInv /\ TypeOK' /\ TasksAdvance => IInv'
<1> SUFFICES ASSUME IInv, TypeOK', TasksAdvance PROVE IInv'
  OBVIOUS
<1> USE DEF IInv, TasksAdvance
<1>1. EveryTaskOwned'
  BY DEF EveryTaskOwned
<1>2. \A r \in Router : HasWorker(r) => workers[r] \in TaskId
  BY DEF TypeOK, HasWorker
<1>3. WorkersExist'
  BY <1>2 DEF WorkersExist, HasWorker, Task
<1>4. SupervisorOK'
  BY DEF SupervisorOK, HasWorker
<1>5. ComparedAreSettled'
  BY <1>2 DEF ComparedAreSettled, SettledRouter, WantsWorker, HasWorker, Task
<1>. QED
  BY <1>1, <1>3, <1>4, <1>5

\* Steps of the workers, the consumer and the other services are of that kind.
LEMMA WorkerAdvances ==
  ASSUME TypeOK, NEW t \in TaskId,
         PromptStep(t) \/ WakeOnInterval(t) \/ SyncFails(t) \/ ReportFails(t)
  PROVE  TasksAdvance
<1> USE DEF TypeOK, TaskState, TasksAdvance
<1>1. ASSUME NEW b \in BOOLEAN, Wake(t, b)
      PROVE  TasksAdvance
  <2>1. PICK q : tasks' = [tasks EXCEPT ![t] =
                   [tasks[t] EXCEPT !.phase = "fetching", !.triggered = b, !.queued = q]]
    BY <1>1, Zenon DEF Wake
  <2>2. UNCHANGED <<workers, supervisor>> /\ tasks[t].phase = "waiting"
    BY <1>1 DEF Wake
  <2>. QED
    BY <2>1, <2>2
<1>2. CASE ReadPolicy(t) \/ CompleteSync(t)
  BY <1>2 DEF ReadPolicy, CompleteSync
<1>3. CASE SyncFails(t)
  BY <1>3 DEF SyncFails
<1>4. CASE ReportFailure(t) \/ ReportFails(t) \/ StopWorker(t)
  BY <1>4 DEF ReportFailure, ReportFails, StopWorker
<1>. QED
  BY <1>1, <1>2, <1>3, <1>4 DEF PromptStep, WakeOnTrigger, WakeOnInterval

LEMMA EnvironmentAdvances ==
  ASSUME TypeOK, NEW r \in Router,
         HandleWanPolicyChanged(r) \/ ChangeRouter(r) \/ ChangePolicy(r)
  PROVE  TasksAdvance
BY DEF TypeOK, TaskState, TasksAdvance, HandleWanPolicyChanged, ChangeRouter, ChangePolicy

\* Handing r's entry to a task that did not exist keeps dict and tasks in step.
LEMMA CreateOwned ==
  ASSUME IInv, NEW r \in Router, WantsWorker(r), Create(r)
  PROVE  /\ EveryTaskOwned' /\ WorkersExist'
         /\ HasWorker(r)' /\ Task(r)'.config = supervisor.listed[r]
         /\ \A s \in Router \ {r} : /\ workers'[s] = workers[s]
                                    /\ HasWorker(s) => Task(s)' = Task(s)
<1> USE SentinelAssumption DEF IInv, TypeOK
<1>1. PICK t \in TaskId :
        /\ tasks[t].phase = "none"
        /\ tasks' = [u \in TaskId |->
             IF u = t THEN NewTask(r, supervisor.listed[r])
             ELSE IF u = workers[r] THEN NoTask ELSE tasks[u]]
        /\ workers' = [workers EXCEPT ![r] = t]
  BY DEF Create
<1>2. /\ workers'[r] = t /\ tasks'[t] = NewTask(r, supervisor.listed[r])
      /\ \A s \in Router \ {r} : workers'[s] = workers[s]
  BY <1>1
<1>3. HasWorker(r)' /\ Task(r)' = NewTask(r, supervisor.listed[r])
  BY <1>2 DEF HasWorker, Task
<1>4. ASSUME NEW s \in Router \ {r}, HasWorker(s)
      PROVE  Task(s)' = Task(s)
  <2>1. workers[s] \in TaskId /\ workers[s] # t
    BY <1>1, <1>4 DEF HasWorker, WorkersExist, Task
  <2>2. workers[s] # workers[r]
    BY <1>4 DEF HasWorker, WorkersExist, Task
  <2>. QED
    BY <1>1, <1>2, <2>1, <2>2 DEF Task
<1>5. WorkersExist'
  <2> SUFFICES ASSUME NEW s \in Router, HasWorker(s)'
               PROVE  Task(s)'.phase # "none" /\ Task(s)'.router = s
    BY DEF WorkersExist
  <2>1. CASE s = r
    BY <1>3, <2>1 DEF NewTask
  <2>2. CASE s # r
    BY <1>2, <1>4, <2>2 DEF HasWorker, WorkersExist
  <2>. QED
    BY <2>1, <2>2
<1>6. EveryTaskOwned'
  <2> SUFFICES ASSUME NEW u \in TaskId, tasks'[u].phase # "none"
               PROVE  tasks'[u].router \in Router /\ workers'[tasks'[u].router] = u
    BY DEF EveryTaskOwned
  <2>1. CASE u = t
    BY <1>2, <2>1 DEF NewTask
  <2>2. CASE u # t
    <3>1. u # workers[r] /\ tasks'[u] = tasks[u]
      BY <1>1, <2>2 DEF NoTask
    <3>. QED
      BY <1>2, <3>1 DEF EveryTaskOwned
  <2>. QED
    BY <2>1, <2>2
<1>. QED
  BY <1>2, <1>3, <1>4, <1>5, <1>6 DEF NewTask

\* So does taking r's entry and its task away.
LEMMA DropOwned ==
  ASSUME IInv, NEW r \in Router, HasWorker(r), Drop(r)
  PROVE  /\ EveryTaskOwned' /\ WorkersExist' /\ ~HasWorker(r)'
         /\ \A s \in Router \ {r} : /\ workers'[s] = workers[s]
                                    /\ HasWorker(s) => Task(s)' = Task(s)
<1> USE SentinelAssumption DEF IInv, TypeOK
<1>1. /\ ~HasWorker(r)'
      /\ \A s \in Router \ {r} : workers'[s] = workers[s]
  BY DEF Drop, HasWorker
<1>2. ASSUME NEW s \in Router \ {r}, HasWorker(s)
      PROVE  Task(s)' = Task(s)
  <2>1. workers[s] \in TaskId /\ workers[s] # workers[r]
    BY <1>2 DEF HasWorker, WorkersExist, Task
  <2>. QED
    BY <1>1, <2>1 DEF Task, Drop
<1>3. WorkersExist'
  BY <1>1, <1>2 DEF WorkersExist, HasWorker
<1>4. EveryTaskOwned'
  <2> SUFFICES ASSUME NEW u \in TaskId, tasks'[u].phase # "none"
               PROVE  tasks'[u].router \in Router /\ workers'[tasks'[u].router] = u
    BY DEF EveryTaskOwned
  <2>1. workers[r] \in TaskId
    BY DEF HasWorker
  <2>2. u # workers[r] /\ tasks'[u] = tasks[u]
    BY <2>1 DEF NoTask, Drop
  <2>. QED
    BY <1>1, <2>2 DEF EveryTaskOwned
<1>. QED
  BY <1>1, <1>2, <1>3, <1>4

\* A step that settles r and leaves the entries of the other routers alone keeps the
\* loop invariant when it takes r, and no more, off the list.
LEMMA SettleOne ==
  ASSUME IInv, NEW r \in Router,
         supervisor'.todo = supervisor.todo \ {r},
         supervisor'.listed = supervisor.listed,
         IF WantsWorker(r) THEN HasWorker(r)' /\ Task(r)'.config = supervisor.listed[r]
                           ELSE ~HasWorker(r)',
         \A s \in Router \ {r} : /\ workers'[s] = workers[s]
                                 /\ HasWorker(s) => Task(s)' = Task(s)
  PROVE  ComparedAreSettled'
<1> SUFFICES ASSUME NEW s \in Router, s \notin supervisor'.todo
             PROVE  SettledRouter(s)'
  BY DEF ComparedAreSettled
<1>1. CASE s = r
  BY <1>1 DEF SettledRouter, WantsWorker
<1>2. CASE s # r
  <2>1. SettledRouter(s)
    BY <1>2 DEF IInv, ComparedAreSettled
  <2>. QED
    BY <1>2, <2>1 DEF SettledRouter, WantsWorker, HasWorker
<1>. QED
  BY <1>1, <1>2

LEMMA NextIInv == IInv /\ [Next]_vars => IInv'
<1> SUFFICES ASSUME IInv, [Next]_vars PROVE IInv'
  OBVIOUS
<1>0. TypeOK /\ TypeOK'
  BY NextTypeOK DEF IInv
<1>1. ASSUME NEW t \in TaskId,
             PromptStep(t) \/ WakeOnInterval(t) \/ SyncFails(t) \/ ReportFails(t)
      PROVE  IInv'
  BY <1>0, <1>1, WorkerAdvances, AdvanceIInv
<1>2. ASSUME NEW r \in Router,
             HandleWanPolicyChanged(r) \/ ChangeRouter(r) \/ ChangePolicy(r)
      PROVE  IInv'
  BY <1>0, <1>2, EnvironmentAdvances, AdvanceIInv
<1>3. CASE LoadRouters
  <2>1. SupervisorOK' /\ EveryTaskOwned' /\ WorkersExist'
    BY <1>3 DEF IInv, LoadRouters, SupervisorOK, EveryTaskOwned, WorkersExist, HasWorker,
                Task
  <2>2. supervisor'.todo = {r \in Router : supervisor'.listed[r] # None \/ HasWorker(r)}
    BY <1>3 DEF LoadRouters
  <2>3. ComparedAreSettled'
    BY <1>3, <2>2 DEF ComparedAreSettled, SettledRouter, WantsWorker, HasWorker, LoadRouters
  <2>. QED
    BY <1>0, <2>1, <2>3 DEF IInv
<1>4. CASE Sleep
  BY <1>0, <1>4 DEF IInv, Sleep, TypeOK, SupervisorState, SupervisorOK, EveryTaskOwned,
     WorkersExist, ComparedAreSettled, SettledRouter, WantsWorker, HasWorker, Task
<1>5. ASSUME NEW r \in Router, KeepWorker(r) PROVE IInv'
  <2>1. SupervisorOK' /\ EveryTaskOwned' /\ WorkersExist'
    BY <1>0, <1>5 DEF IInv, KeepWorker, IsNext, TypeOK, SupervisorState, SupervisorOK,
       EveryTaskOwned, WorkersExist, HasWorker, Task
  <2>2. /\ supervisor'.todo = supervisor.todo \ {r}
        /\ supervisor'.listed = supervisor.listed
        /\ UNCHANGED <<workers, tasks>>
    BY <1>0, <1>5 DEF KeepWorker, TypeOK, SupervisorState
  <2>3. IF WantsWorker(r) THEN HasWorker(r) /\ Task(r).config = supervisor.listed[r]
                          ELSE ~HasWorker(r)
    BY <1>5 DEF KeepWorker, MustStop
  <2>4. ComparedAreSettled'
    BY <2>2, <2>3, SettleOne DEF HasWorker, Task
  <2>. QED
    BY <1>0, <2>1, <2>4 DEF IInv
<1>6. ASSUME NEW r \in Router, StartWorker(r) PROVE IInv'
  <2>1. SupervisorOK' /\ supervisor'.todo = supervisor.todo \ {r}
        /\ supervisor'.listed = supervisor.listed
    BY <1>0, <1>6 DEF StartWorker, IsNext, TypeOK, SupervisorState, SupervisorOK
  <2>2. WantsWorker(r) /\ Create(r)
    BY <1>6 DEF StartWorker
  <2>. QED
    BY <1>0, <2>1, <2>2, CreateOwned, SettleOne DEF IInv
<1>7. ASSUME NEW r \in Router, CancelWorker(r) PROVE IInv'
  <2>1. HasWorker(r) /\ workers[r] \in TaskId
    BY <1>0, <1>7 DEF CancelWorker, MustStop, HasWorker, TypeOK
  <2>2. \A t \in TaskId : /\ tasks'[t].phase = "none" <=> tasks[t].phase = "none"
                          /\ tasks'[t].router = tasks[t].router
                          /\ tasks'[t].config = tasks[t].config
    BY <1>0, <1>7, <2>1 DEF CancelWorker, Live, LivePhase, TypeOK, TaskState
  <2>3. /\ supervisor'.phase = "awaiting" /\ supervisor'.router = r
        /\ supervisor'.todo = supervisor.todo /\ supervisor'.listed = supervisor.listed
        /\ workers' = workers
    BY <1>0, <1>7 DEF CancelWorker, TypeOK, SupervisorState
  <2>4. EveryTaskOwned'
    BY <2>2, <2>3 DEF IInv, EveryTaskOwned
  <2>5. \A s \in Router : HasWorker(s) => workers[s] \in TaskId
    BY <1>0 DEF TypeOK, HasWorker
  <2>6. WorkersExist'
    BY <2>2, <2>3, <2>5 DEF IInv, WorkersExist, HasWorker, Task
  <2>7. SupervisorOK'
    BY <2>1, <2>3 DEF SupervisorOK, HasWorker
  <2>8. ComparedAreSettled'
    BY <2>2, <2>3, <2>5 DEF IInv, ComparedAreSettled, SettledRouter, WantsWorker,
       HasWorker, Task
  <2>. QED
    BY <1>0, <2>4, <2>6, <2>7, <2>8 DEF IInv
<1>8. ASSUME NEW r \in Router, ReplaceWorker(r) PROVE IInv'
  <2>1. /\ supervisor'.todo = supervisor.todo \ {r}
        /\ supervisor'.listed = supervisor.listed
        /\ SupervisorOK'
    BY <1>0, <1>8 DEF ReplaceWorker, TypeOK, SupervisorState, SupervisorOK
  <2>2. HasWorker(r)
    BY <1>8 DEF ReplaceWorker, IInv, SupervisorOK
  <2>3. CASE WantsWorker(r)
    <3>1. Create(r)
      BY <1>8, <2>3 DEF ReplaceWorker
    <3>. QED
      BY <1>0, <2>1, <2>3, <3>1, CreateOwned, SettleOne DEF IInv
  <2>4. CASE ~WantsWorker(r)
    <3>1. Drop(r)
      BY <1>8, <2>4 DEF ReplaceWorker
    <3>. QED
      BY <1>0, <2>1, <2>2, <2>4, <3>1, DropOwned, SettleOne DEF IInv
  <2>. QED
    BY <2>3, <2>4
<1>9. CASE Restart
  <2>1. EveryTaskOwned' /\ WorkersExist'
    BY <1>9 DEF Restart, EveryTaskOwned, WorkersExist, HasWorker, NoTask
  <2>2. SupervisorOK' /\ ComparedAreSettled'
    BY <1>9 DEF Restart, Asleep, SupervisorOK, ComparedAreSettled, SettledRouter,
       WantsWorker, HasWorker
  <2>. QED
    BY <1>0, <2>1, <2>2 DEF IInv
<1>10. CASE UNCHANGED vars
  BY <1>0, <1>10 DEF vars, IInv, EveryTaskOwned, WorkersExist, SupervisorOK,
     ComparedAreSettled, SettledRouter, WantsWorker, HasWorker, Task
<1>. QED
  BY <1>1, <1>2, <1>3, <1>4, <1>5, <1>6, <1>7, <1>8, <1>9, <1>10
     DEF Next, SupervisorStep, SupervisorDies, Crash

LEMMA Invariance == Spec => []IInv
BY InitIInv, NextIInv, PTL DEF Spec

\* No worker task is ever out of the supervisor's reach, for any number of routers
\* and any interleaving of cancellations, failures and restarts.
THEOREM TasksOwned == Spec => []EveryTaskOwned
BY Invariance, PTL DEF IInv

\* Therefore two synchronisations started by workers never overlap on one router.
THEOREM NoTwoWorkers == Spec => []OneWorkerPerRouter
<1>1. IInv => OneWorkerPerRouter
  BY DEF IInv, EveryTaskOwned, OneWorkerPerRouter
<1>. QED
  BY <1>1, Invariance, PTL

\* Whenever the supervisor sleeps, its dict is what the list it loaded asks for.
THEOREM SleepsSettled == Spec => []AsleepMeansSettled
<1>1. IInv => AsleepMeansSettled
  BY DEF IInv, SupervisorOK, ComparedAreSettled, SettledRouter, AsleepMeansSettled
<1>. QED
  BY <1>1, Invariance, PTL
=============================================================================
