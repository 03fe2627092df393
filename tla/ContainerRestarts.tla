--------------------------- MODULE ContainerRestarts ---------------------------
(***************************************************************************)
(* maintenance-service: restarts of containers, which go on after their    *)
(* request was answered, beside a request for the status of all of them.   *)
(* Everything the service knows of restarts is in its memory.              *)
(***************************************************************************)
EXTENDS Naturals

CONSTANTS
  Container,
  Restarter,       \* requests to restart, each with the task that it leaves behind
  MaxRestarts,     \* restarts requested
  MaxServiceStops  \* restarts of the service itself

ASSUME RestartsAssumption == MaxRestarts \in Nat /\ MaxServiceStops \in Nat

VARIABLES
  engine,              \* the containers in Docker
  pending_restarts, restart_errors, restart_generations,
  restarter,           \* where each request or task stands
  statusRequest,       \* a request for the status, or NotAsking
  restartsLeft, serviceStopsLeft,
  restartedMeanwhile   \* history: restarts pending at some moment of statusRequest

restartVars ==
  <<engine, pending_restarts, restart_errors, restart_generations, restarter,
    statusRequest, restartsLeft, serviceStopsLeft, restartedMeanwhile>>

\* "running" with the health check passed or without one; "starting" with it
\* pending; "restarting" between two attempts of Docker's own restart policy.
EngineState == {"running", "starting", "restarting", "paused", "exited", "removed"}

Restartable == {"running", "paused", "exited"}

\* The task: "waiting" for its second, then "unpausing", "stopping", "starting".
TaskSteps == {"waiting", "unpausing", "stopping", "starting"}

NoRestart == [step |-> "idle"]
NotAsking == [step |-> "idle"]

RestarterState == {NoRestart} \cup [step: {"found"} \cup TaskSteps, container: Container]

StatusState ==
  {NotAsking} \cup
  [step: {"asking"}, pending: SUBSET Container, generations: [Container -> Nat]] \cup
  [step: {"listed"}, pending: SUBSET Container, generations: [Container -> Nat],
   states: [Container -> EngineState]]

Tasks == {r \in Restarter : restarter[r].step \in TaskSteps}

InitRestarts ==
  /\ engine = [c \in Container |-> "running"]
  /\ pending_restarts = {}
  /\ restart_errors = {}
  /\ restart_generations = [c \in Container |-> 0]
  /\ restarter = [r \in Restarter |-> NoRestart]
  /\ statusRequest = NotAsking
  /\ restartsLeft = MaxRestarts
  /\ serviceStopsLeft = MaxServiceStops
  /\ restartedMeanwhile = {}

-----------------------------------------------------------------------------
(* A request to restart.                                                   *)

\* Docker's answer is what it knew then; a refused request changes nothing.
GetRestartTarget(r, c) ==
  /\ restarter[r] = NoRestart
  /\ restartsLeft > 0
  /\ engine[c] \in Restartable
  /\ restarter' = [restarter EXCEPT ![r] = [step |-> "found", container |-> c]]
  /\ restartsLeft' = restartsLeft - 1
  /\ UNCHANGED <<engine, pending_restarts, restart_errors, restart_generations,
                 statusRequest, serviceStopsLeft, restartedMeanwhile>>

RefusePending(r) ==
  /\ restarter[r].step = "found"
  /\ restarter[r].container \in pending_restarts
  /\ restarter' = [restarter EXCEPT ![r] = NoRestart]
  /\ UNCHANGED <<engine, pending_restarts, restart_errors, restart_generations, statusRequest,
                 restartsLeft, serviceStopsLeft, restartedMeanwhile>>

\* Mutant: what was pending is looked at before Docker is asked.
RestartUnchecked(r) ==
  LET c == restarter[r].container
  IN  /\ restarter[r].step = "found"
      /\ pending_restarts' = pending_restarts \cup {c}
      /\ restart_generations' = [restart_generations EXCEPT ![c] = @ + 1]
      /\ restart_errors' = restart_errors \ {c}
      /\ restarter' = [restarter EXCEPT ![r].step = "waiting"]
      /\ restartedMeanwhile' = restartedMeanwhile \cup {c}
      /\ UNCHANGED <<engine, statusRequest, restartsLeft, serviceStopsLeft>>

\* Nothing is awaited from the check to the end of the request.
RestartContainer(r) ==
  LET c == restarter[r].container
  IN  /\ restarter[r].step = "found"
      /\ c \notin pending_restarts
      /\ pending_restarts' = pending_restarts \cup {c}
      /\ restart_generations' = [restart_generations EXCEPT ![c] = @ + 1]
      /\ restart_errors' = restart_errors \ {c}
      /\ restarter' = [restarter EXCEPT ![r].step = "waiting"]
      /\ restartedMeanwhile' = restartedMeanwhile \cup {c}
      /\ UNCHANGED <<engine, statusRequest, restartsLeft, serviceStopsLeft>>

-----------------------------------------------------------------------------
(* Its background task.                                                    *)

TaskGoesOn(r, step) == restarter' = [restarter EXCEPT ![r].step = step]

UnchangedByTask ==
  UNCHANGED <<restart_generations, statusRequest, restartsLeft, serviceStopsLeft,
              restartedMeanwhile>>

\* The end of the task, whatever came of it.
Finish(r, failed) ==
  LET c == restarter[r].container
  IN  /\ restart_errors' = IF failed THEN restart_errors \cup {c} ELSE restart_errors \ {c}
      /\ pending_restarts' = pending_restarts \ {c}
      /\ restarter' = [restarter EXCEPT ![r] = NoRestart]

\* After the second the state is looked at again.
Recheck(r) ==
  LET c == restarter[r].container
  IN  /\ restarter[r].step = "waiting"
      /\ engine[c] \in Restartable
      /\ TaskGoesOn(r, IF engine[c] = "paused" THEN "unpausing" ELSE "stopping")
      /\ UnchangedByTask
      /\ UNCHANGED <<engine, pending_restarts, restart_errors>>

Unpause(r) ==
  LET c == restarter[r].container
  IN  /\ restarter[r].step = "unpausing"
      /\ engine[c] = "paused"
      /\ engine' = [engine EXCEPT ![c] = "running"]
      /\ TaskGoesOn(r, "stopping")
      /\ UnchangedByTask
      /\ UNCHANGED <<pending_restarts, restart_errors>>

StopToRestart(r) ==
  LET c == restarter[r].container
  IN  /\ restarter[r].step = "stopping"
      /\ engine[c] # "removed"
      /\ engine' = [engine EXCEPT ![c] = "exited"]
      /\ TaskGoesOn(r, "starting")
      /\ UnchangedByTask
      /\ UNCHANGED <<pending_restarts, restart_errors>>

StartAgain(r) ==
  LET c == restarter[r].container
  IN  /\ restarter[r].step = "starting"
      /\ engine[c] # "removed"
      /\ engine' = [engine EXCEPT ![c] = "starting"]
      /\ Finish(r, FALSE)
      /\ UnchangedByTask

\* Docker refuses, or its answer is lost: what it was asked for may have happened.
TaskFails(r) ==
  LET c == restarter[r].container
  IN  /\ restarter[r].step \in TaskSteps
      /\ engine' \in {engine} \cup
           (CASE restarter[r].step = "unpausing" /\ engine[c] = "paused" ->
                   {[engine EXCEPT ![c] = "running"]}
              [] restarter[r].step = "starting" /\ engine[c] # "removed" ->
                   {[engine EXCEPT ![c] = "starting"]}
              [] OTHER -> {})
      /\ Finish(r, TRUE)
      /\ UnchangedByTask

-----------------------------------------------------------------------------
(* The status of all containers.                                           *)

UnchangedByStatus ==
  UNCHANGED <<engine, pending_restarts, restart_errors, restart_generations, restarter,
              restartsLeft, serviceStopsLeft>>

AskStatus ==
  /\ statusRequest = NotAsking
  /\ statusRequest' = [step |-> "asking", pending |-> pending_restarts,
                       generations |-> restart_generations]
  /\ restartedMeanwhile' = pending_restarts
  /\ UnchangedByStatus

\* Docker lists the containers; the statistics of each, up to seconds, follow.
ListContainers ==
  /\ statusRequest.step = "asking"
  /\ statusRequest' = [step |-> "listed", pending |-> statusRequest.pending,
                       generations |-> statusRequest.generations, states |-> engine]
  /\ UnchangedByStatus /\ UNCHANGED restartedMeanwhile

\* Mutant: only what is pending before and after the wait counts.
PendingWithoutGenerations == statusRequest.pending \cup pending_restarts

PendingIds ==
  statusRequest.pending \cup pending_restarts \cup
  {c \in Container : restart_generations[c] # statusRequest.generations[c]}

StatusAnswer ==
  [c \in {d \in Container : statusRequest.states[d] # "removed"} |->
     [state |-> IF c \in PendingIds THEN "restarting" ELSE statusRequest.states[c],
      restart_error |-> c \in restart_errors]]

\* The answer is StatusAnswer.
GetContainersStatus ==
  /\ statusRequest.step = "listed"
  /\ statusRequest' = NotAsking
  /\ restartedMeanwhile' = {}
  /\ UnchangedByStatus

StatusFails ==
  /\ statusRequest # NotAsking
  /\ statusRequest' = NotAsking
  /\ restartedMeanwhile' = {}
  /\ UnchangedByStatus

-----------------------------------------------------------------------------
(* The world around.                                                       *)

\* A health check passes, a container ends and is restarted by Docker, or is paused,
\* removed or started by hand.
EngineChanges(c) ==
  /\ \E s \in EngineState \ {engine[c]} : engine' = [engine EXCEPT ![c] = s]
  /\ engine[c] # "removed"
  /\ UNCHANGED <<pending_restarts, restart_errors, restart_generations, restarter, statusRequest,
                 restartsLeft, serviceStopsLeft, restartedMeanwhile>>

\* The service is restarted itself, on its own request or not: its tasks are lost.
ServiceStops ==
  /\ serviceStopsLeft > 0
  /\ serviceStopsLeft' = serviceStopsLeft - 1
  /\ pending_restarts' = {} /\ restart_errors' = {}
  /\ restart_generations' = [c \in Container |-> 0]
  /\ restarter' = [r \in Restarter |-> NoRestart]
  /\ statusRequest' = NotAsking
  /\ restartedMeanwhile' = {}
  /\ UNCHANGED <<engine, restartsLeft>>

Restarting(r) ==
  \/ \E c \in Container : GetRestartTarget(r, c)
  \/ RefusePending(r) \/ RestartContainer(r)
  \/ Recheck(r) \/ Unpause(r) \/ StopToRestart(r) \/ StartAgain(r) \/ TaskFails(r)

NextRestarts ==
  \/ \E r \in Restarter : Restarting(r)
  \/ AskStatus \/ ListContainers \/ GetContainersStatus \/ StatusFails
  \/ \E c \in Container : EngineChanges(c)
  \/ ServiceStops

RestartsSpec == InitRestarts /\ [][NextRestarts]_restartVars

-----------------------------------------------------------------------------
(* Properties.                                                             *)

RestartsTypeOK ==
  /\ engine \in [Container -> EngineState]
  /\ pending_restarts \subseteq Container
  /\ restart_errors \subseteq Container
  /\ restart_generations \in [Container -> Nat]
  /\ restarter \in [Restarter -> RestarterState]
  /\ statusRequest \in StatusState
  /\ restartsLeft \in 0..MaxRestarts /\ serviceStopsLeft \in 0..MaxServiceStops
  /\ restartedMeanwhile \subseteq Container

\* A container is restarted by one task at a time, and it is pending for
\* exactly as long as that task exists: the check and the mark have no await
\* between them although Docker is asked before.
OneRestartAtATime ==
  /\ \A r, s \in Tasks : restarter[r].container = restarter[s].container => r = s
  /\ pending_restarts = {restarter[r].container : r \in Tasks}

\* An answer that Docker began to compute before or during a restart never
\* shows the state of that moment: a container of which a restart was pending
\* at some moment of the request, however short, is shown restarting, and any
\* other one in the state that Docker listed, its own restarts included.
StatusShowsRestarts ==
  [][GetContainersStatus =>
       \A c \in DOMAIN StatusAnswer :
         StatusAnswer[c].state = IF c \in restartedMeanwhile THEN "restarting"
                                 ELSE statusRequest.states[c]]_restartVars
=============================================================================
