----------------------------- MODULE RouterStatus -----------------------------
(***************************************************************************)
(* The status of one router in inventory-service, which the worker of      *)
(* mikrotik-poller-service, its supervisor and polls by hand all write.    *)
(* Writers never learn that a write failed; a write that its client no     *)
(* longer waits for may still be carried out.                              *)
(***************************************************************************)
EXTENDS Naturals

CONSTANTS
  MaxRouterChanges,  \* of the router, its settings and the poller process
  MaxExtras,         \* polls by hand, writes lost or given up, lists not loaded
  NoRow, NoRouter, NoWorker

VARIABLES
  router,      \* its settings
  answers,     \* whether it answers
  row,         \* its row of router_service_status, or NoRow
  writes,      \* writes on their way or being carried out
  supervisor, worker, manual,
  routerChangesLeft, statusExtrasLeft

statusVars == <<router, answers, row, writes, supervisor, worker, manual,
                routerChangesLeft, statusExtrasLeft>>

Settings == [is_enabled: BOOLEAN, poll_enabled: BOOLEAN, version: 0..MaxRouterChanges]

Status == {"starting", "ok", "warning", "error", "disabled"}

\* The heartbeat is recent, or older than the threshold.
Row == [status: Status, recent: BOOLEAN]

ASSUME StatusAssumption ==
  MaxRouterChanges \in Nat /\ MaxExtras \in Nat /\ NoRow \notin Row

Writer == {"supervisor", "worker", "manual"}

\* "sent", then "loaded" with the row that inventory read.
Write ==
  [by: Writer, status: Status, awaited: BOOLEAN, step: {"sent"}, loaded: {NoRow}] \cup
  [by: Writer, status: Status, awaited: BOOLEAN, step: {"loaded"}, loaded: Row \cup {NoRow}]

Awaits(writer) == \E w \in writes : w.by = writer /\ w.awaited

Sent(writer, status) ==
  [by |-> writer, status |-> status, awaited |-> TRUE, step |-> "sent", loaded |-> NoRow]

GivenUp(writer) ==
  {IF w.by = writer THEN [w EXCEPT !.awaited = FALSE] ELSE w : w \in writes}

InitStatus ==
  /\ router \in [is_enabled: BOOLEAN, poll_enabled: BOOLEAN, version: {0}]
  /\ answers = TRUE
  /\ row = NoRow
  /\ writes = {}
  /\ supervisor = [step |-> "loading", router |-> NoRouter]
  /\ worker = NoWorker
  /\ manual = "idle"
  /\ routerChangesLeft = MaxRouterChanges
  /\ statusExtrasLeft = MaxExtras

Limits == <<routerChangesLeft, statusExtrasLeft>>

Extra == statusExtrasLeft > 0 /\ statusExtrasLeft' = statusExtrasLeft - 1

-----------------------------------------------------------------------------
(* inventory-service.                                                      *)

UnchangedByWrite == UNCHANGED <<router, answers, supervisor, worker, manual, routerChangesLeft>>

LoadStatusRow(w) ==
  /\ w \in writes /\ w.step = "sent"
  /\ writes' = (writes \ {w}) \cup {[w EXCEPT !.step = "loaded", !.loaded = row]}
  /\ UnchangedByWrite /\ UNCHANGED <<row, statusExtrasLeft>>

\* Columns that are as loaded are not written; a second first row is refused.
UpsertRouterServiceStatus(w) ==
  /\ w \in writes /\ w.step = "loaded"
  /\ writes' = writes \ {w}
  /\ row' = IF w.loaded = NoRow
            THEN IF row = NoRow THEN [status |-> w.status, recent |-> TRUE] ELSE row
            ELSE [status |-> IF w.status = w.loaded.status THEN row.status ELSE w.status,
                  recent |-> TRUE]
  /\ UnchangedByWrite /\ UNCHANGED statusExtrasLeft

\* The write is lost, or its client stops waiting for it.
WriteFault(w) ==
  /\ Extra
  /\ w \in writes
  /\ writes' \in {writes \ {w}, GivenUp(w.by)}
  /\ UnchangedByWrite /\ UNCHANGED row

\* The heartbeat grows old when nobody is left to renew it: the threshold is
\* several intervals of the worker.
Age ==
  /\ row # NoRow /\ row.recent
  /\ worker = NoWorker /\ writes = {}
  /\ row' = [row EXCEPT !.recent = FALSE]
  /\ UNCHANGED <<router, answers, writes, supervisor, worker, manual, Limits>>

ShouldSkipStaleCheck == row.status = "disabled" \/ ~router.is_enabled \/ ~router.poll_enabled

\* What people see.
SerializedStatus ==
  IF row = NoRow THEN "none"
  ELSE IF ShouldSkipStaleCheck \/ row.recent THEN row.status ELSE "stale"

-----------------------------------------------------------------------------
(* The worker.                                                             *)

UnchangedByWorker == UNCHANGED <<router, answers, row, supervisor, manual, Limits>>

WorkerWrites(step, failures, status) ==
  /\ worker' = [worker EXCEPT !.step = step, !.failures = failures]
  /\ writes' = writes \cup {Sent("worker", status)}

StartWorker ==
  /\ worker # NoWorker /\ worker.step = "new"
  /\ WorkerWrites("starting", 0, "starting")
  /\ UnchangedByWorker

BeginRound ==
  /\ worker # NoWorker /\ worker.step \in {"starting", "sleeping"} /\ ~Awaits("worker")
  /\ WorkerWrites("polling", worker.failures, IF worker.failures = 0 THEN "ok" ELSE "warning")
  /\ UnchangedByWorker

\* From the third failure on it is an error.
PollOnce ==
  /\ worker # NoWorker /\ worker.step = "polling" /\ ~Awaits("worker")
  /\ IF answers THEN WorkerWrites("sleeping", 0, "ok")
     ELSE LET failures == IF worker.failures = 3 THEN 3 ELSE worker.failures + 1
          IN  WorkerWrites("sleeping", failures, IF failures < 3 THEN "warning" ELSE "error")
  /\ UnchangedByWorker

WorkerEnds ==
  /\ worker # NoWorker /\ worker.step = "stopping" /\ ~Awaits("worker")
  /\ worker' = NoWorker
  /\ UnchangedByWorker /\ UNCHANGED writes

\* The write that is awaited is given up.  Before the loop nothing is reported.
Cancelled ==
  IF worker.step \in {"new", "starting"}
  THEN worker' = NoWorker /\ writes' = GivenUp("worker")
  ELSE /\ worker' = [worker EXCEPT !.step = "stopping"]
       /\ writes' = GivenUp("worker") \cup {Sent("worker", "disabled")}

-----------------------------------------------------------------------------
(* The supervisor.                                                         *)

UnchangedBySupervisor == UNCHANGED <<router, answers, row, manual, routerChangesLeft>>

GetActiveRouters ==
  /\ supervisor.step = "loading"
  /\ supervisor' = [step |-> "deciding", router |-> IF router.is_enabled THEN router ELSE NoRouter]
  /\ UnchangedBySupervisor /\ UNCHANGED <<writes, worker, statusExtrasLeft>>

GetActiveRoutersFails ==
  /\ supervisor.step = "loading"
  /\ Extra
  /\ supervisor' = [step |-> "deciding", router |-> NoRouter]
  /\ UnchangedBySupervisor /\ UNCHANGED <<writes, worker>>

ToPoll == supervisor.router # NoRouter /\ supervisor.router.poll_enabled
Outdated == worker # NoWorker /\ ~(ToPoll /\ worker.router = supervisor.router)

\* The supervisor waits until the worker has ended, and goes on.
StopWorker ==
  /\ supervisor.step = "deciding"
  /\ Outdated /\ worker.step # "stopping"
  /\ Cancelled
  /\ UnchangedBySupervisor /\ UNCHANGED <<supervisor, statusExtrasLeft>>

StartPolling ==
  /\ supervisor.step = "deciding"
  /\ ToPoll /\ worker = NoWorker
  /\ worker' = [step |-> "new", router |-> supervisor.router, failures |-> 0]
  /\ supervisor' = [supervisor EXCEPT !.step = "sleeping"]
  /\ UnchangedBySupervisor /\ UNCHANGED <<writes, statusExtrasLeft>>

KeepPolling ==
  /\ supervisor.step = "deciding"
  /\ IF worker = NoWorker THEN supervisor.router = NoRouter ELSE ~Outdated
  /\ supervisor' = [supervisor EXCEPT !.step = "sleeping"]
  /\ UnchangedBySupervisor /\ UNCHANGED <<writes, worker, statusExtrasLeft>>

\* Mutant: "disabled" is written when the supervisor has not written it yet.
ReportDisabledOnce ==
  /\ supervisor.step = "deciding"
  /\ worker = NoWorker /\ supervisor.router # NoRouter /\ ~supervisor.router.poll_enabled
  /\ supervisor' = [supervisor EXCEPT !.step = "sleeping"]
  /\ writes' = IF row = NoRow THEN writes \cup {Sent("supervisor", "disabled")} ELSE writes
  /\ UnchangedBySupervisor /\ UNCHANGED <<worker, statusExtrasLeft>>

\* Written anew in every round.
ReportDisabled ==
  /\ supervisor.step = "deciding"
  /\ worker = NoWorker /\ supervisor.router # NoRouter /\ ~supervisor.router.poll_enabled
  /\ supervisor' = [supervisor EXCEPT !.step = "sleeping"]
  /\ writes' = writes \cup {Sent("supervisor", "disabled")}
  /\ UnchangedBySupervisor /\ UNCHANGED <<worker, statusExtrasLeft>>

NextRound ==
  /\ supervisor.step = "sleeping" /\ ~Awaits("supervisor")
  /\ supervisor' = [step |-> "loading", router |-> NoRouter]
  /\ UnchangedBySupervisor /\ UNCHANGED <<writes, worker, statusExtrasLeft>>

-----------------------------------------------------------------------------
(* A poll by hand.                                                         *)

UnchangedByPoll == UNCHANGED <<router, answers, row, supervisor, worker, routerChangesLeft>>

PollRouterNow ==
  /\ Extra
  /\ supervisor.step # "down"
  /\ manual = "idle" /\ router.is_enabled
  /\ manual' = "polling"
  /\ writes' = writes \cup {Sent("manual", "starting")}
  /\ UnchangedByPoll

\* Nothing that the poller does waits for the last write.
FinishPollNow ==
  /\ manual = "polling" /\ ~Awaits("manual")
  /\ manual' = "idle"
  /\ writes' = writes \cup {[Sent("manual", IF answers THEN "ok" ELSE "error") EXCEPT !.awaited = FALSE]}
  /\ UnchangedByPoll /\ UNCHANGED statusExtrasLeft

-----------------------------------------------------------------------------
(* The world around.                                                       *)

Changes == routerChangesLeft > 0 /\ routerChangesLeft' = routerChangesLeft - 1

SettingsChange ==
  /\ Changes
  /\ \E s \in Settings :
       /\ router' = [s EXCEPT !.version = router.version + 1]
       /\ s.version = 0
  /\ UNCHANGED <<answers, row, writes, supervisor, worker, manual, statusExtrasLeft>>

RouterChanges ==
  /\ Changes
  /\ answers' = ~answers
  /\ UNCHANGED <<router, row, writes, supervisor, worker, manual, statusExtrasLeft>>

\* The process dies: its writes are as good as given up.
PollerDies ==
  /\ Changes
  /\ supervisor.step # "down"
  /\ supervisor' = [step |-> "down", router |-> NoRouter]
  /\ worker' = NoWorker
  /\ manual' = "idle"
  /\ writes' = {[w EXCEPT !.awaited = FALSE] : w \in writes}
  /\ UNCHANGED <<router, answers, row, statusExtrasLeft>>

PollerStarts ==
  /\ supervisor.step = "down"
  /\ supervisor' = [step |-> "loading", router |-> NoRouter]
  /\ UNCHANGED <<router, answers, row, writes, worker, manual, Limits>>

WorkerStep == StartWorker \/ BeginRound \/ PollOnce \/ WorkerEnds
SupervisorStep ==
  \/ GetActiveRouters \/ StopWorker \/ StartPolling \/ KeepPolling \/ ReportDisabled \/ NextRound
InventoryStep == \E w \in writes : LoadStatusRow(w) \/ UpsertRouterServiceStatus(w)

NextStatus ==
  \/ WorkerStep \/ SupervisorStep \/ FinishPollNow \/ InventoryStep
  \/ Age \/ GetActiveRoutersFails \/ PollRouterNow
  \/ \E w \in writes : WriteFault(w)
  \/ SettingsChange \/ RouterChanges \/ PollerDies \/ PollerStarts

StatusSpec == InitStatus /\ [][NextStatus]_statusVars

StatusFairness ==
  /\ WF_statusVars(WorkerStep) /\ WF_statusVars(SupervisorStep)
  /\ WF_statusVars(FinishPollNow) /\ WF_statusVars(InventoryStep) /\ WF_statusVars(Age)

StatusFairSpec == StatusSpec /\ StatusFairness

-----------------------------------------------------------------------------
(* Properties.                                                             *)

StatusTypeOK ==
  /\ router \in Settings /\ answers \in BOOLEAN
  /\ row \in Row \cup {NoRow}
  /\ writes \subseteq Write
  /\ supervisor \in [step: {"loading", "deciding", "sleeping", "down"}, router: Settings \cup {NoRouter}]
  /\ worker \in {NoWorker} \cup
       [step: {"new", "starting", "polling", "sleeping", "stopping"}, router: Settings, failures: 0..3]
  /\ manual \in {"idle", "polling"}
  /\ routerChangesLeft \in 0..MaxRouterChanges /\ statusExtrasLeft \in 0..MaxExtras

Polled == router.is_enabled /\ router.poll_enabled

\* Lost, late and mixed writes, replaced workers and polls by hand leave no
\* lasting trace: what people see becomes, and stays, "ok" while the router is
\* polled and answers, "disabled" while polling is off, "stale" (or "disabled")
\* when the poller is gone.
StatusSettles ==
  /\ <>[](Polled /\ answers /\ supervisor.step # "down") => <>[](SerializedStatus = "ok")
  /\ <>[](Polled /\ ~answers /\ supervisor.step # "down") => <>[](SerializedStatus \in {"warning", "error"})
  /\ <>[](router.is_enabled /\ ~router.poll_enabled /\ supervisor.step # "down")
       => <>[](SerializedStatus = "disabled")
  /\ <>[](Polled /\ supervisor.step = "down") => <>[](SerializedStatus \in {"none", "stale", "disabled"})
=============================================================================
