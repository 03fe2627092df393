-------------------------- MODULE ClassroomDevices --------------------------
(***************************************************************************)
(* The WAN-policy half of classroom-service: the devices table, the HTTP   *)
(* handlers that change it (api.py) and the two consumers of policy-sync   *)
(* results (policy_sync_handlers.py).                                      *)
(*                                                                         *)
(* A handler is not one step.  It loads rows into its own SQLAlchemy       *)
(* session, decides, commits, re-reads the row and publishes an event, and *)
(* every one of those is an await at which other handlers run.  No row is  *)
(* locked between load and commit and the session writes back only the     *)
(* columns whose value differs from the one it loaded, so a request in     *)
(* flight is represented by that difference.                               *)
(***************************************************************************)
EXTENDS Naturals

CONSTANTS
  Device,         \* primary keys of the devices table
  Classroom,      \* primary keys of the classrooms table
  Router,         \* MikroTik routers known to inventory-service
  Address,        \* static IPv4 addresses
  Request,        \* HTTP handlers that may be in flight at the same time
  CreatePayload,  \* bodies of POST /internal/devices
  PinPayload,     \* bodies of POST /internal/devices/{id}/pin
  MaxRequests,    \* bound: number of administrative requests of a behaviour
  MaxFaults,      \* bound: number of crashes, lost calls and lost messages
  None,           \* SQL NULL, an absent row, an absent event
  Keep            \* "this column is not part of the UPDATE"

SyncStatus == {"pending", "applied", "failed"}

Payload ==
  [classroom_id: Classroom, static_ip: Address \cup {None},
   is_pinned: BOOLEAN, wan_allowed: BOOLEAN, wan_protected: BOOLEAN]

DeviceRow ==
  [classroom_id: Classroom, static_ip: Address \cup {None},
   is_pinned: BOOLEAN, wan_allowed: BOOLEAN, wan_protected: BOOLEAN,
   policy_generation: Nat, sync_status: SyncStatus]

WanEvent == [router_id: Router, policy_generation: Nat]

ASSUME PayloadAssumption ==
  /\ CreatePayload \subseteq Payload
  /\ PinPayload \subseteq [classroom_id: Classroom, static_ip: Address \cup {None}]

ASSUME BoundAssumption == MaxRequests \in Nat /\ MaxFaults \in Nat

ASSUME SentinelAssumption ==
  /\ None \notin Device \cup Router \cup Address
  /\ Keep \notin Classroom \cup Address \cup BOOLEAN \cup Nat \cup SyncStatus \cup {None}
  /\ None \notin DeviceRow \cup WanEvent

VARIABLES
  devices,          \* the devices table
  classroomRouter,  \* classrooms.router_id
  requests,         \* the handlers in flight
  requestsLeft,     \* how many more requests the administrators will send
  wanEvents,        \* WanPolicyChanged events the broker holds
  syncEvents,       \* PolicySyncCompleted / PolicySyncFailed events it holds
  faultsLeft        \* how many more faults this behaviour may suffer

classroomVars ==
  <<devices, classroomRouter, requests, requestsLeft, wanEvents, syncEvents, faultsLeft>>

-----------------------------------------------------------------------------
(* Rows and differences of rows.                                           *)

RowChange ==
  [classroom_id: Classroom \cup {Keep}, static_ip: Address \cup {None, Keep},
   is_pinned: BOOLEAN \cup {Keep}, wan_allowed: BOOLEAN \cup {Keep},
   wan_protected: BOOLEAN \cup {Keep}, policy_generation: Nat \cup {Keep},
   sync_status: SyncStatus \cup {Keep}]

NoChange ==
  [classroom_id |-> Keep, static_ip |-> Keep, is_pinned |-> Keep,
   wan_allowed |-> Keep, wan_protected |-> Keep,
   policy_generation |-> Keep, sync_status |-> Keep]

Changed(old, new) == IF old = new THEN Keep ELSE new

Overwritten(old, change) == IF change = Keep THEN old ELSE change

\* The columns an UPDATE carries for a row loaded as `row' and left as `target'.
Diff(row, target) ==
  [classroom_id |-> Changed(row.classroom_id, target.classroom_id),
   static_ip |-> Changed(row.static_ip, target.static_ip),
   is_pinned |-> Changed(row.is_pinned, target.is_pinned),
   wan_allowed |-> Changed(row.wan_allowed, target.wan_allowed),
   wan_protected |-> Changed(row.wan_protected, target.wan_protected),
   policy_generation |-> Changed(row.policy_generation, target.policy_generation),
   sync_status |-> Changed(row.sync_status, target.sync_status)]

\* The row that such an UPDATE leaves in the table.
Written(row, change) ==
  IF row = None THEN None ELSE
  [classroom_id |-> Overwritten(row.classroom_id, change.classroom_id),
   static_ip |-> Overwritten(row.static_ip, change.static_ip),
   is_pinned |-> Overwritten(row.is_pinned, change.is_pinned),
   wan_allowed |-> Overwritten(row.wan_allowed, change.wan_allowed),
   wan_protected |-> Overwritten(row.wan_protected, change.wan_protected),
   policy_generation |-> Overwritten(row.policy_generation, change.policy_generation),
   sync_status |-> Overwritten(row.sync_status, change.sync_status)]

Exists(d) == devices[d] # None

SyncEvent ==
  [type: {"completed", "failed"}, router_id: Router, policy_generation: Nat]

\* Mutant: any generation of the scope instead of max().
IsAny(g, S) == g \in S

IsLargest(g, S) == g \in S /\ \A h \in S : h <= g

-----------------------------------------------------------------------------
(* Handlers in flight.                                                     *)

Idle ==
  [phase |-> "idle", read |-> [d \in Device |-> None],
   changes |-> [d \in Device |-> NoChange], device |-> None, router |-> None, event |-> None]

\* phase    idle, loaded (rows read, nothing written), committed (the row is to
\*          be re-read before its event is built), publishing
\* read     the table when it loaded its rows, None where there was no row
\* changes  what the pending UPDATEs carry
\* device   the row the handler re-reads after its commit, None when it does not
\* router   the router of the event, None when it is looked up after the commit
\* event    the event to publish, None when there is none or it is not built yet
RequestState ==
  [phase: {"idle", "loaded", "committed", "publishing"},
   read: [Device -> DeviceRow \cup {None}],
   changes: [Device -> RowChange], device: Device \cup {None},
   router: Router \cup {None}, event: WanEvent \cup {None}]

Only(d, change) == [x \in Device |-> IF x = d THEN change ELSE NoChange]

\* A handler has read its rows and decided what to write and what to publish.
Load(q, changes, device, router, event) ==
  /\ requests[q].phase = "idle"
  /\ requestsLeft > 0
  /\ requestsLeft' = requestsLeft - 1
  /\ requests' = [requests EXCEPT ![q] =
       [phase |-> "loaded", read |-> devices, changes |-> changes,
        device |-> device, router |-> router, event |-> event]]
  /\ UNCHANGED <<devices, classroomRouter, wanEvents, syncEvents, faultsLeft>>

\* Mutant: the generation is left alone.
WithWanStateOnly(row, allowed) ==
  [row EXCEPT !.wan_allowed = allowed, !.sync_status = "pending"]

\* What block and allow make of a row, alone and in bulk.
WithWanState(row, allowed) ==
  [row EXCEPT !.wan_allowed = allowed,
              !.policy_generation = IF row.wan_allowed = allowed THEN @ ELSE @ + 1,
              !.sync_status = "pending"]

\* Mutant: protection is not looked at.
MayBlockProtected(row) == row.is_pinned /\ row.static_ip # None

MayBlock(row) == ~row.wan_protected /\ row.is_pinned /\ row.static_ip # None

SetDeviceWanState(q, d, allowed) ==
  /\ Exists(d)
  /\ allowed \/ MayBlock(devices[d])
  /\ Load(q, Only(d, Diff(devices[d], WithWanState(devices[d], allowed))),
          d, classroomRouter[devices[d].classroom_id], None)

\* The rows a bulk request selects, and those of them it marks pending.
BulkMembers(c) ==
  {d \in Device : /\ Exists(d)
                  /\ devices[d].classroom_id = c
                  /\ devices[d].is_pinned
                  /\ ~devices[d].wan_protected}

BulkQueued(c, allowed) ==
  {d \in BulkMembers(c) : \/ devices[d].wan_allowed # allowed
                          \/ devices[d].sync_status # "applied"}

\* With nothing to queue the handler writes nothing and publishes nothing.
SetClassroomWanState(q, c, allowed) ==
  LET target(d) == IF d \in BulkQueued(c, allowed)
                   THEN WithWanState(devices[d], allowed) ELSE devices[d]
      changes == [d \in Device |-> IF d \in BulkQueued(c, allowed)
                                   THEN Diff(devices[d], target(d)) ELSE NoChange]
  IN  /\ BulkQueued(c, allowed) # {}
      /\ \E g \in {target(d).policy_generation : d \in BulkMembers(c)} :
           /\ IsLargest(g, {target(d).policy_generation : d \in BulkMembers(c)})
           /\ Load(q, changes, None, None,
                   [router_id |-> classroomRouter[c], policy_generation |-> g])

NewRow(payload) ==
  [classroom_id |-> payload.classroom_id, static_ip |-> payload.static_ip,
   is_pinned |-> payload.is_pinned,
   wan_allowed |-> payload.wan_protected \/ payload.wan_allowed,
   wan_protected |-> payload.wan_protected,
   policy_generation |-> 0, sync_status |-> "applied"]

\* A MAC nobody has: the row is inserted.  A concurrent insert of the same MAC
\* fails on the unique constraint, so load and commit need not be told apart.
InsertDevice(d, payload) ==
  /\ ~Exists(d)
  /\ requestsLeft > 0
  /\ requestsLeft' = requestsLeft - 1
  /\ devices' = [devices EXCEPT ![d] = NewRow(payload)]
  /\ UNCHANGED <<classroomRouter, requests, wanEvents, syncEvents, faultsLeft>>

\* A MAC that an unpinned row has: the row is pinned again, and counts as applied.
RepinDevice(q, d, payload) ==
  /\ Exists(d)
  /\ ~devices[d].is_pinned
  /\ payload.is_pinned
  /\ LET target == [devices[d] EXCEPT
           !.classroom_id = payload.classroom_id, !.static_ip = payload.static_ip,
           !.is_pinned = TRUE, !.wan_protected = payload.wan_protected,
           !.wan_allowed = payload.wan_protected \/ payload.wan_allowed,
           !.sync_status = "applied"]
     IN  Load(q, Only(d, Diff(devices[d], target)), None, None, None)

\* PATCH: of what the gateway lets through only wan_protected matters here.
\* Protecting a blocked device allows it again, and that is published.
UpdateDevice(q, d, protected) ==
  LET allows == protected /\ ~devices[d].wan_allowed
      row == IF allows THEN WithWanState(devices[d], TRUE) ELSE devices[d]
  IN  /\ Exists(d)
      /\ Load(q, Only(d, Diff(devices[d], [row EXCEPT !.wan_protected = protected])),
              IF allows THEN d ELSE None, None, None)

PinDevice(q, d, payload) ==
  /\ Exists(d)
  /\ LET target == [devices[d] EXCEPT !.classroom_id = payload.classroom_id,
                                      !.static_ip = payload.static_ip,
                                      !.is_pinned = TRUE]
     IN  Load(q, Only(d, Diff(devices[d], target)), None, None, None)

Unpinned(row) ==
  [row EXCEPT !.is_pinned = FALSE, !.static_ip = None,
              !.wan_protected = FALSE, !.sync_status = "applied"]

\* Mutant: a blocked device is unpinned as well.
UnpinBlockedDevice(q, d) ==
  /\ Exists(d)
  /\ Load(q, Only(d, Diff(devices[d], Unpinned(devices[d]))), None, None, None)

UnpinDevice(q, d) ==
  /\ Exists(d)
  /\ devices[d].wan_allowed
  /\ Load(q, Only(d, Diff(devices[d], Unpinned(devices[d]))), None, None, None)

\* Moving a classroom to another router is one blind UPDATE; nothing is published.
UpdateClassroom(c, r) ==
  /\ classroomRouter[c] # r
  /\ requestsLeft > 0
  /\ requestsLeft' = requestsLeft - 1
  /\ classroomRouter' = [classroomRouter EXCEPT ![c] = r]
  /\ UNCHANGED <<devices, requests, wanEvents, syncEvents, faultsLeft>>

\* The handler still has an event to publish, a row to re-read first, or neither.
AfterCommit(r) ==
  IF r.event # None THEN [Idle EXCEPT !.phase = "publishing", !.event = r.event]
  ELSE IF r.device # None
       THEN [Idle EXCEPT !.phase = "committed", !.device = r.device, !.router = r.router]
       ELSE Idle

\* What a handler decided on and another one has changed since.
StaleState(q, d) == requests[q].read[d].wan_allowed # devices[d].wan_allowed
StaleProtection(q, d) == requests[q].read[d].wan_protected # devices[d].wan_protected
StalePin(q, d) == requests[q].read[d].is_pinned # devices[d].is_pinned
StaleGeneration(q, d) ==
  requests[q].read[d].policy_generation # devices[d].policy_generation

Commit(q) ==
  /\ requests[q].phase = "loaded"
  /\ devices' = [d \in Device |-> Written(devices[d], requests[q].changes[d])]
  /\ requests' = [requests EXCEPT ![q] = AfterCommit(requests[q])]
  /\ UNCHANGED <<classroomRouter, requestsLeft, wanEvents, syncEvents, faultsLeft>>

\* The commit is refused (a grid position or a MAC is taken: 409), or the process
\* dies before it: the session is rolled back.
Rollback(q) ==
  /\ requests[q].phase = "loaded"
  /\ requests' = [requests EXCEPT ![q] = Idle]
  /\ UNCHANGED <<devices, classroomRouter, requestsLeft, wanEvents, syncEvents, faultsLeft>>

\* Mutant: the router is the one looked up before the commit, if any was.
RouterBefore(q) == requests[q].router

\* block and allow looked the router up before the commit, update does so afterwards.
EventRouter(q) ==
  IF requests[q].router # None THEN requests[q].router
  ELSE classroomRouter[devices[requests[q].device].classroom_id]

\* session.refresh: the event carries the row as it is now, not as it was written.
Refresh(q) ==
  /\ requests[q].phase = "committed"
  /\ requests' = [requests EXCEPT ![q] =
       [Idle EXCEPT !.phase = "publishing",
                    !.event = [router_id |-> EventRouter(q), policy_generation |->
                               devices[requests[q].device].policy_generation]]]
  /\ UNCHANGED <<devices, classroomRouter, requestsLeft, wanEvents, syncEvents, faultsLeft>>

Publish(q) ==
  /\ requests[q].phase = "publishing"
  /\ wanEvents' = wanEvents \cup {requests[q].event}
  /\ requests' = [requests EXCEPT ![q] = Idle]
  /\ UNCHANGED <<devices, classroomRouter, requestsLeft, syncEvents, faultsLeft>>

\* The process dies after the commit, or the broker refuses the event: the row
\* keeps its new state and nobody is told.
LosePublish(q) ==
  /\ requests[q].phase \in {"committed", "publishing"}
  /\ faultsLeft > 0
  /\ faultsLeft' = faultsLeft - 1
  /\ requests' = [requests EXCEPT ![q] = Idle]
  /\ UNCHANGED <<devices, classroomRouter, requestsLeft, wanEvents, syncEvents>>

-----------------------------------------------------------------------------
(* Results of policy-sync.                                                 *)


\* The WHERE clause of both handlers.  It names no router.
Covered(d, e) ==
  /\ Exists(d)
  /\ devices[d].sync_status = "pending"
  /\ devices[d].policy_generation <= e.policy_generation

Settled(e, status) ==
  [d \in Device |-> IF Covered(d, e) THEN [devices[d] EXCEPT !.sync_status = status]
                    ELSE devices[d]]

HandlePolicySyncCompleted(e) ==
  /\ e.type = "completed"
  /\ devices' = Settled(e, "applied")
  /\ syncEvents' = syncEvents \ {e}
  /\ UNCHANGED <<classroomRouter, requests, requestsLeft, wanEvents, faultsLeft>>

HandlePolicySyncFailed(e) ==
  /\ e.type = "failed"
  /\ devices' = Settled(e, "failed")
  /\ syncEvents' = syncEvents \ {e}
  /\ UNCHANGED <<classroomRouter, requests, requestsLeft, wanEvents, faultsLeft>>

\* The process dies after the commit and before the acknowledgement: the broker
\* keeps the event and delivers it again.
HandleWithoutAck(e) ==
  /\ faultsLeft > 0
  /\ faultsLeft' = faultsLeft - 1
  /\ devices' = Settled(e, IF e.type = "completed" THEN "applied" ELSE "failed")
  /\ UNCHANGED <<classroomRouter, requests, requestsLeft, wanEvents, syncEvents>>

\* The handler raises: process(requeue=False) rejects the event and it is gone.
RejectSyncEvent(e) ==
  /\ faultsLeft > 0
  /\ faultsLeft' = faultsLeft - 1
  /\ syncEvents' = syncEvents \ {e}
  /\ UNCHANGED <<devices, classroomRouter, requests, requestsLeft, wanEvents>>

-----------------------------------------------------------------------------
(* What policy-sync reads (get_desired_blocklist, two SELECTs).            *)

InScope(d, r) ==
  /\ Exists(d)
  /\ classroomRouter[devices[d].classroom_id] = r
  /\ devices[d].is_pinned
  /\ devices[d].static_ip # None

ScopeGenerations(r) ==
  {0} \cup {devices[d].policy_generation : d \in {x \in Device : InScope(x, r)}}

DesiredAddresses(r) ==
  {devices[d].static_ip : d \in {x \in Device : InScope(x, r) /\ ~devices[x].wan_allowed}}

-----------------------------------------------------------------------------

ClassroomInit ==
  /\ devices = [d \in Device |-> None]
  /\ classroomRouter \in [Classroom -> Router]
  /\ requests = [q \in Request |-> Idle]
  /\ requestsLeft = MaxRequests
  /\ wanEvents = {}
  /\ syncEvents = {}
  /\ faultsLeft = MaxFaults

AcceptRequest(q) ==
  \/ \E d \in Device, allowed \in BOOLEAN : SetDeviceWanState(q, d, allowed)
  \/ \E c \in Classroom, allowed \in BOOLEAN : SetClassroomWanState(q, c, allowed)
  \/ \E d \in Device, payload \in CreatePayload : RepinDevice(q, d, payload)
  \/ \E d \in Device, protected \in BOOLEAN : UpdateDevice(q, d, protected)
  \/ \E d \in Device, payload \in PinPayload : PinDevice(q, d, payload)
  \/ \E d \in Device : UnpinDevice(q, d)

FinishRequest(q) ==
  Commit(q) \/ Rollback(q) \/ Refresh(q) \/ Publish(q) \/ LosePublish(q)

HandleSyncEvent(e) ==
  \/ HandlePolicySyncCompleted(e) \/ HandlePolicySyncFailed(e)
  \/ HandleWithoutAck(e) \/ RejectSyncEvent(e)

ClassroomNext ==
  \/ \E d \in Device, payload \in CreatePayload : InsertDevice(d, payload)
  \/ \E c \in Classroom, r \in Router : UpdateClassroom(c, r)
  \/ \E q \in Request : AcceptRequest(q) \/ FinishRequest(q)
  \/ \E e \in syncEvents : HandleSyncEvent(e)

ClassroomTypeOK ==
  /\ devices \in [Device -> DeviceRow \cup {None}]
  /\ classroomRouter \in [Classroom -> Router]
  /\ requests \in [Request -> RequestState]
  /\ requestsLeft \in 0..MaxRequests
  /\ wanEvents \subseteq WanEvent
  /\ syncEvents \subseteq SyncEvent
  /\ faultsLeft \in 0..MaxFaults
=============================================================================
