--------------------------- MODULE SyncSupervisor ---------------------------
(***************************************************************************)
(* The worker lifecycle of policy-sync-service (main.py): the supervisor   *)
(* that compares inventory's active routers with its dict of workers, the  *)
(* asyncio task of every worker, the consumer that puts WanPolicyChanged   *)
(* events into the queue of a worker, and the process around them.         *)
(*                                                                         *)
(* All of it is one event loop, so code between two awaits is one step.    *)
(* cancel_worker awaits the cancelled task: while it does, the worker is   *)
(* still in the dict, takes triggers into a queue nobody reads, and every  *)
(* other task runs.  What one synchronisation does to a router is the      *)
(* subject of WanPolicy and AddressListSync.                               *)
(***************************************************************************)
EXTENDS Naturals

CONSTANTS
  Router,      \* MikroTik routers
  Version,     \* values of the connection settings of a router
  TaskId,      \* asyncio tasks; one id is used again after its task was dropped
  QueueSize,   \* settings.router_event_queue_max_size
  MaxChanges,  \* bound: changes of a router in inventory-service
  MaxEvents,   \* bound: changes of the WAN policy
  MaxFaults,   \* bound: failed calls, lost events and crashes
  None

ASSUME QueueAssumption == QueueSize \in Nat \ {0}

ASSUME BoundAssumption ==
  MaxChanges \in Nat /\ MaxEvents \in Nat /\ MaxFaults \in Nat

\* A router inventory-service lists as active, as far as the supervisor looks.
Config == [version: Version, sync_enabled: BOOLEAN]

ASSUME SentinelAssumption == None \notin TaskId \cup Router \cup Config

VARIABLES
  inventory,    \* the active routers of inventory-service, None for the others
  policy,       \* is the router's WAN policy changed, read, or applied?
  bus,          \* how many WanPolicyChanged events the broker holds per router
  workers,      \* the dict of main(): the task of each router's worker
  tasks,        \* the tasks
  supervisor,   \* the supervisor's loop
  changesLeft, eventsLeft, faultsLeft

vars == <<inventory, policy, bus, workers, tasks, supervisor,
          changesLeft, eventsLeft, faultsLeft>>

\* phase      waiting (for a trigger or the interval), fetching (the desired
\*            blocklist), applying, reporting (a failure), cancelled (CancelledError
\*            is on its way through finally), done, failed (ended with an exception)
\* config     the RouterConnection the worker was created with
\* queued     how many triggers its queue holds
\* triggered  is this attempt due to a trigger?
LivePhase == {"waiting", "fetching", "applying", "reporting", "cancelled"}

NoTask ==
  [phase |-> "none", router |-> None, config |-> None, queued |-> 0, triggered |-> FALSE]

NewTask(r, config) ==
  [phase |-> "waiting", router |-> r, config |-> config, queued |-> 0, triggered |-> FALSE]

TaskState ==
  [phase: LivePhase \cup {"none", "done", "failed"}, router: Router \cup {None},
   config: Config \cup {None}, queued: 0..QueueSize, triggered: BOOLEAN]

\* phase   sleeping, working, or awaiting the task of `router' that it cancelled
\* listed  the answer of get_active_routers it works on
\* todo    the routers it has not compared yet
SupervisorState ==
  [phase: {"sleeping", "working", "awaiting"}, listed: [Router -> Config \cup {None}],
   todo: SUBSET Router, router: Router \cup {None}]

Asleep ==
  [phase |-> "sleeping", listed |-> [r \in Router |-> None], todo |-> {}, router |-> None]

Live(t) == tasks[t].phase \in LivePhase

HasWorker(r) == workers[r] # None

Task(r) == tasks[workers[r]]

WantsWorker(r) ==
  supervisor.listed[r] # None /\ supervisor.listed[r].sync_enabled

Fault == faultsLeft > 0 /\ faultsLeft' = faultsLeft - 1

-----------------------------------------------------------------------------
(* A worker (sync_router_worker).                                          *)

Wake(t, triggered) ==
  /\ tasks[t].phase = "waiting"
  /\ tasks' = [tasks EXCEPT ![t].phase = "fetching", ![t].triggered = triggered,
                            ![t].queued = IF triggered THEN 0 ELSE @]
  /\ UNCHANGED <<inventory, policy, bus, workers, supervisor, changesLeft,
                 eventsLeft, faultsLeft>>

\* Mutant: a single trigger waits for the next one.
WakeOnSecondTrigger(t) == tasks[t].queued > 1 /\ Wake(t, TRUE)

\* One trigger is taken and the queue is drained.
WakeOnTrigger(t) == tasks[t].queued > 0 /\ Wake(t, TRUE)

\* Mutant: nothing is reconciled without a trigger.
WakeIfQueued(t) == tasks[t].queued > 0 /\ Wake(t, FALSE)

\* The interval may pass at the moment a trigger is put; it then stays queued.
WakeOnInterval(t) == Wake(t, FALSE)

ReadPolicy(t) ==
  LET r == tasks[t].router
  IN  /\ tasks[t].phase = "fetching"
      /\ tasks' = [tasks EXCEPT ![t].phase = "applying"]
      /\ policy' = [policy EXCEPT ![r] = IF @ = "changed" THEN "read" ELSE @]
      /\ UNCHANGED <<inventory, bus, workers, supervisor, changesLeft, eventsLeft,
                     faultsLeft>>

CompleteSync(t) ==
  LET r == tasks[t].router
  IN  /\ tasks[t].phase = "applying"
      /\ tasks' = [tasks EXCEPT ![t].phase = "waiting"]
      /\ policy' = [policy EXCEPT ![r] = IF @ = "read" THEN "applied" ELSE @]
      /\ UNCHANGED <<inventory, bus, workers, supervisor, changesLeft, eventsLeft,
                     faultsLeft>>

\* The attempt raises.  Only a triggered one is reported.
SyncFails(t) ==
  /\ tasks[t].phase \in {"fetching", "applying"}
  /\ Fault
  /\ tasks' = [tasks EXCEPT ![t].phase =
                 IF tasks[t].triggered THEN "reporting" ELSE "waiting"]
  /\ UNCHANGED <<inventory, policy, bus, workers, supervisor, changesLeft, eventsLeft>>

ReportFailure(t) ==
  /\ tasks[t].phase = "reporting"
  /\ tasks' = [tasks EXCEPT ![t].phase = "waiting"]
  /\ UNCHANGED <<inventory, policy, bus, workers, supervisor, changesLeft,
                 eventsLeft, faultsLeft>>

\* publish_sync_failed raises inside the except branch: the task ends with it.
ReportFails(t) ==
  /\ tasks[t].phase = "reporting"
  /\ Fault
  /\ tasks' = [tasks EXCEPT ![t].phase = "failed"]
  /\ UNCHANGED <<inventory, policy, bus, workers, supervisor, changesLeft, eventsLeft>>

\* finally: the status is reported and the CancelledError leaves the task.
StopWorker(t) ==
  /\ tasks[t].phase = "cancelled"
  /\ tasks' = [tasks EXCEPT ![t].phase = "done"]
  /\ UNCHANGED <<inventory, policy, bus, workers, supervisor, changesLeft,
                 eventsLeft, faultsLeft>>

-----------------------------------------------------------------------------
(* The supervisor.                                                         *)

\* When the call fails the supervisor goes on with an empty list.
LoadRouters ==
  /\ supervisor.phase = "sleeping"
  /\ \E listed \in {inventory, Asleep.listed} :
       /\ \/ listed = inventory /\ UNCHANGED faultsLeft
          \/ listed = Asleep.listed /\ Fault
       /\ supervisor' = [phase |-> "working", listed |-> listed,
                         todo |-> {r \in Router : listed[r] # None \/ HasWorker(r)},
                         router |-> None]
  /\ UNCHANGED <<inventory, policy, bus, workers, tasks, changesLeft, eventsLeft>>

\* Routers that are not listed are swept after the listed ones.
IsNext(r) ==
  /\ supervisor.phase = "working"
  /\ r \in supervisor.todo
  /\ supervisor.listed[r] = None => \A s \in supervisor.todo : supervisor.listed[s] = None

\* Mutant: a change of the connection settings is not noticed.
MustStopUnwanted(r) == HasWorker(r) /\ ~WantsWorker(r)

MustStop(r) ==
  HasWorker(r) /\ (WantsWorker(r) => Task(r).config # supervisor.listed[r])

\* Mutant: a worker whose task ended is kept.
KeepEndedWorker(r) ==
  /\ IsNext(r)
  /\ IF WantsWorker(r) THEN HasWorker(r) /\ ~MustStop(r) ELSE ~HasWorker(r)
  /\ supervisor' = [supervisor EXCEPT !.todo = @ \ {r}]
  /\ UNCHANGED <<inventory, policy, bus, workers, tasks, changesLeft, eventsLeft,
                 faultsLeft>>

\* A worker that runs as it should, or that is missing as it should be.
KeepWorker(r) ==
  /\ IsNext(r)
  /\ IF WantsWorker(r) THEN HasWorker(r) /\ ~MustStop(r) /\ Live(workers[r])
                       ELSE ~HasWorker(r)
  /\ supervisor' = [supervisor EXCEPT !.todo = @ \ {r}]
  /\ UNCHANGED <<inventory, policy, bus, workers, tasks, changesLeft, eventsLeft,
                 faultsLeft>>

\* A new task takes over r's entry; the task that had it is dropped.
Create(r) ==
  \E t \in TaskId :
    /\ tasks[t].phase = "none"
    /\ tasks' = [u \in TaskId |->
         IF u = t THEN NewTask(r, supervisor.listed[r])
         ELSE IF u = workers[r] THEN NoTask ELSE tasks[u]]
    /\ workers' = [workers EXCEPT ![r] = t]

\* A missing worker is created; one whose task ended is replaced at once.
StartWorker(r) ==
  /\ IsNext(r)
  /\ WantsWorker(r)
  /\ HasWorker(r) => ~MustStop(r) /\ ~Live(workers[r])
  /\ Create(r)
  /\ supervisor' = [supervisor EXCEPT !.todo = @ \ {r}]
  /\ UNCHANGED <<inventory, policy, bus, changesLeft, eventsLeft, faultsLeft>>

\* task.cancel() does nothing to a task that has ended; both are awaited.
CancelWorker(r) ==
  /\ IsNext(r)
  /\ MustStop(r)
  /\ tasks' = [tasks EXCEPT ![workers[r]].phase =
                 IF Live(workers[r]) THEN "cancelled" ELSE @]
  /\ supervisor' = [supervisor EXCEPT !.phase = "awaiting", !.router = r]
  /\ UNCHANGED <<inventory, policy, bus, workers, changesLeft, eventsLeft, faultsLeft>>

Drop(r) ==
  /\ tasks' = [tasks EXCEPT ![workers[r]] = NoTask]
  /\ workers' = [workers EXCEPT ![r] = None]

\* Mutant: the cancelled task is not awaited.
ReplaceWithoutWaiting(r) ==
  /\ supervisor.phase = "awaiting"
  /\ supervisor.router = r
  /\ IF WantsWorker(r)
     THEN \E t \in TaskId :
            /\ tasks[t].phase = "none"
            /\ tasks' = [tasks EXCEPT ![t] = NewTask(r, supervisor.listed[r])]
            /\ workers' = [workers EXCEPT ![r] = t]
     ELSE workers' = [workers EXCEPT ![r] = None] /\ UNCHANGED tasks
  /\ supervisor' = [supervisor EXCEPT !.phase = "working", !.router = None,
                                      !.todo = @ \ {r}]
  /\ UNCHANGED <<inventory, policy, bus, changesLeft, eventsLeft, faultsLeft>>

\* The task ended with CancelledError: the worker leaves the dict, and a router that
\* still wants one gets a new worker before anything else runs.
ReplaceWorker(r) ==
  /\ supervisor.phase = "awaiting"
  /\ supervisor.router = r
  /\ Task(r).phase = "done"
  /\ IF WantsWorker(r) THEN Create(r) ELSE Drop(r)
  /\ supervisor' = [supervisor EXCEPT !.phase = "working", !.router = None,
                                      !.todo = @ \ {r}]
  /\ UNCHANGED <<inventory, policy, bus, changesLeft, eventsLeft, faultsLeft>>

Sleep ==
  /\ supervisor.phase = "working"
  /\ supervisor.todo = {}
  /\ supervisor' = [supervisor EXCEPT !.phase = "sleeping"]
  /\ UNCHANGED <<inventory, policy, bus, workers, tasks, changesLeft, eventsLeft,
                 faultsLeft>>

\* The process ends and is started again: no dict, no task, no queue is left.
Restart ==
  /\ workers' = [r \in Router |-> None]
  /\ tasks' = [t \in TaskId |-> NoTask]
  /\ supervisor' = Asleep
  /\ UNCHANGED <<inventory, policy, bus, changesLeft, eventsLeft>>

\* The awaited task had ended with an exception of its own, which suppress does not
\* cover: it leaves the supervisor and ends main().
SupervisorDies(r) ==
  /\ supervisor.phase = "awaiting"
  /\ supervisor.router = r
  /\ Task(r).phase = "failed"
  /\ Restart
  /\ UNCHANGED faultsLeft

Crash == Fault /\ Restart

-----------------------------------------------------------------------------
(* The consumer (handle_wan_policy_changed).                               *)

\* Mutant: the queue has no limit.
PutWithoutLimit(r) ==
  /\ bus[r] > 0
  /\ bus' = [bus EXCEPT ![r] = @ - 1]
  /\ tasks' = [t \in TaskId |->
       IF t = workers[r] THEN [tasks[t] EXCEPT !.queued = @ + 1] ELSE tasks[t]]
  /\ UNCHANGED <<inventory, policy, workers, supervisor, changesLeft, eventsLeft,
                 faultsLeft>>

\* A full queue loses its oldest trigger, an absent worker loses the trigger.
HandleWanPolicyChanged(r) ==
  /\ bus[r] > 0
  /\ bus' = [bus EXCEPT ![r] = @ - 1]
  /\ tasks' = [t \in TaskId |->
       IF t = workers[r] /\ tasks[t].queued < QueueSize
       THEN [tasks[t] EXCEPT !.queued = @ + 1] ELSE tasks[t]]
  /\ UNCHANGED <<inventory, policy, workers, supervisor, changesLeft, eventsLeft,
                 faultsLeft>>

-----------------------------------------------------------------------------
(* The other services.                                                     *)

\* Administrators add, remove, disable or reconfigure a router.
ChangeRouter(r) ==
  /\ changesLeft > 0
  /\ changesLeft' = changesLeft - 1
  /\ \E config \in (Config \cup {None}) \ {inventory[r]} :
       inventory' = [inventory EXCEPT ![r] = config]
  /\ UNCHANGED <<policy, bus, workers, tasks, supervisor, eventsLeft, faultsLeft>>

\* A device of the router is blocked or allowed; the event may be lost on its way.
ChangePolicy(r) ==
  /\ eventsLeft > 0
  /\ eventsLeft' = eventsLeft - 1
  /\ policy' = [policy EXCEPT ![r] = "changed"]
  /\ \/ bus' = [bus EXCEPT ![r] = @ + 1] /\ UNCHANGED faultsLeft
     \/ Fault /\ UNCHANGED bus
  /\ UNCHANGED <<inventory, workers, tasks, supervisor, changesLeft>>

-----------------------------------------------------------------------------

Init ==
  /\ inventory \in [Router -> Config \cup {None}]
  /\ policy = [r \in Router |-> "applied"]
  /\ bus = [r \in Router |-> 0]
  /\ workers = [r \in Router |-> None]
  /\ tasks = [t \in TaskId |-> NoTask]
  /\ supervisor = Asleep
  /\ changesLeft = MaxChanges
  /\ eventsLeft = MaxEvents
  /\ faultsLeft = MaxFaults

PromptStep(t) ==
  \/ WakeOnTrigger(t) \/ ReadPolicy(t) \/ CompleteSync(t)
  \/ ReportFailure(t) \/ StopWorker(t)

SupervisorStep ==
  \/ LoadRouters \/ Sleep
  \/ \E r \in Router : \/ KeepWorker(r) \/ StartWorker(r) \/ CancelWorker(r)
                       \/ ReplaceWorker(r) \/ SupervisorDies(r)

Next ==
  \/ \E t \in TaskId :
       PromptStep(t) \/ WakeOnInterval(t) \/ SyncFails(t) \/ ReportFails(t)
  \/ SupervisorStep
  \/ \E r \in Router : HandleWanPolicyChanged(r) \/ ChangeRouter(r) \/ ChangePolicy(r)
  \/ Crash

Spec == Init /\ [][Next]_vars

\* The event loop runs every task that can run, the supervisor included; the
\* supervisor's own interval passes again and again, the reconcile interval of the
\* workers need not.
PromptFairness ==
  /\ WF_vars(SupervisorStep)
  /\ \A t \in TaskId : WF_vars(PromptStep(t))

FairSpec == Spec /\ PromptFairness

\* The reconcile interval of every worker passes again and again.
IntervalFairness == \A t \in TaskId : WF_vars(PromptStep(t) \/ WakeOnInterval(t))

-----------------------------------------------------------------------------

TypeOK ==
  /\ inventory \in [Router -> Config \cup {None}]
  /\ policy \in [Router -> {"changed", "read", "applied"}]
  /\ bus \in [Router -> Nat]
  /\ workers \in [Router -> TaskId \cup {None}]
  /\ tasks \in [TaskId -> TaskState]
  /\ supervisor \in SupervisorState
  /\ changesLeft \in 0..MaxChanges
  /\ eventsLeft \in 0..MaxEvents
  /\ faultsLeft \in 0..MaxFaults

\* No two worker tasks of one router exist at the same time, not even while one is
\* being cancelled: restarting a worker never makes two synchronisations of the
\* same router overlap.
OneWorkerPerRouter ==
  \A t, u \in TaskId :
    tasks[t].phase # "none" /\ tasks[u].phase # "none" /\ tasks[t].router = tasks[u].router
      => t = u

\* No task is forgotten: every task that exists is the one its router's entry in the
\* dict names, so that the supervisor can stop it.
EveryTaskOwned ==
  \A t \in TaskId :
    tasks[t].phase # "none" =>
      tasks[t].router \in Router /\ workers[tasks[t].router] = t

\* Whenever the supervisor goes to sleep the dict is what the list it loaded asks
\* for: a worker with the listed settings for every router to synchronise, none for
\* any other, whatever ended, was cancelled or changed while it worked.
AsleepMeansSettled ==
  supervisor.phase = "sleeping" =>
    \A r \in Router :
      IF WantsWorker(r) THEN HasWorker(r) /\ Task(r).config = supervisor.listed[r]
                        ELSE ~HasWorker(r)

\* After the last change and the last fault the workers alive are exactly those of
\* the routers to synchronise, with their current settings.
WorkersFollowInventory ==
  <>[](\A r \in Router :
         IF inventory[r] # None /\ inventory[r].sync_enabled
         THEN HasWorker(r) /\ Live(workers[r]) /\ Task(r).config = inventory[r]
         ELSE ~HasWorker(r))

Disabled(r) == inventory[r] = None \/ ~inventory[r].sync_enabled

\* A changed policy is applied although its event was lost, was dropped for want of a
\* worker, went into the queue of a worker being cancelled, or met a failure: as long as
\* intervals pass, they bring every worker back (the log line of
\* handle_wan_policy_changed).
PolicyIsApplied ==
  IntervalFairness =>
    \A r \in Router : policy[r] = "changed" ~> policy[r] = "applied" \/ Disabled(r)

\* A trigger that reached a running worker needs no interval to pass: the worker
\* reads the policy afterwards, unless it is cancelled or fails.
TriggerIsServed ==
  \A t \in TaskId :
    tasks[t].queued > 0 /\ tasks[t].phase \in LivePhase \ {"cancelled"}
      ~> tasks[t].phase \notin LivePhase \ {"cancelled", "fetching"}
=============================================================================
