------------------------------- MODULE LeaseFlow -------------------------------
(***************************************************************************)
(* DHCP leases of one router on their way to the people who look at them:  *)
(* mikrotik-poller-service reads them and publishes snapshots,             *)
(* inventory-service keeps the devices observed, classroom-service the     *)
(* statistics of the devices pinned, and the gateway pins and deletes by   *)
(* what inventory shows.  Device Tracked is followed through all of them.  *)
(***************************************************************************)
EXTENDS ObservedDevices, DeviceStatistics

CONSTANTS
  Tables,       \* lease tables the router may have
  FirstTables,  \* and those it may have at first
  MaxChanges,   \* changes of the leases and of the device
  MaxInFlight,  \* copies of snapshots not yet handled when a poll begins
  MaxExtras     \* requests to the gateway, overlapping handlers and faults, together

ASSUME LeaseFlowAssumption ==
  /\ Tables \subseteq Seq(RawLease) /\ FirstTables \subseteq Tables
  /\ Tracked \in Mac
  /\ None \notin StateRow \cup WanState \cup BOOLEAN
  /\ {"allowed", "blocked", "protected"} = WanState
  /\ MaxChanges \in Nat /\ MaxExtras \in Nat
  /\ MaxInFlight \in Nat \ {0}

VARIABLES
  table,       \* the leases of the router
  poll,        \* the answer on its way to the poller, or None
  request,     \* the gateway's request, or None
  extrasLeft

flowVars == <<table, poll, request, extrasLeft>>
vars == <<inventoryVars, statisticsVars, flowVars>>

\* "layout": the pinned devices were read; then the observed ones too.
GatewayRequest ==
  [op: {"delete", "cleanup", "pin"}, step: {"layout"}, pinned: BOOLEAN] \cup
  [op: {"delete", "cleanup"}, step: {"observed"}, ids: SUBSET Nat] \cup
  [op: {"pin"}, step: {"observed"}]

Init ==
  /\ InitInventory /\ InitStatistics
  /\ table \in FirstTables
  /\ poll = None
  /\ request = None
  /\ extrasLeft = MaxExtras

-----------------------------------------------------------------------------
(* The poller.                                                             *)

Extra == extrasLeft > 0 /\ extrasLeft' = extrasLeft - 1

InFlight ==
  Len(inventoryQueue) + Len(dhcpQueue)
    + Cardinality({h \in Handler : handling[h] # None /\ IsSnapshot(handling[h].message)})
    + (IF applying = None THEN 0 ELSE 1)

\* The router answers with the leases of this moment.  (The bound makes the
\* worker's interval longer than what the consumers need.)
RouterAnswers ==
  /\ poll = None
  /\ InFlight < MaxInFlight
  /\ poll' = [table |-> table]
  /\ UNCHANGED <<inventoryVars, statisticsVars, table, request, extrasLeft>>

\* The event takes the time at which the answer has arrived.
LeasesObserved == [at |-> now, leases |-> GetDhcpLeases(poll.table)]

\* Mutant: empty snapshots are skipped.
PublishUnlessEmpty ==
  /\ poll # None
  /\ poll' = None
  /\ IF poll.table = <<>> THEN UNCHANGED <<inventoryQueue, dhcpQueue>>
     ELSE /\ inventoryQueue' = Append(inventoryQueue, LeasesObserved)
          /\ dhcpQueue' = Append(dhcpQueue, LeasesObserved)
  /\ UNCHANGED <<observed, nextId, applying, now, device, tables, wanQueue, handling,
                 overlapped, table, request, extrasLeft>>

\* Empty snapshots are published as well; both services get every one.
Publish ==
  /\ poll # None
  /\ poll' = None
  /\ inventoryQueue' = Append(inventoryQueue, LeasesObserved)
  /\ dhcpQueue' = Append(dhcpQueue, LeasesObserved)
  /\ UNCHANGED <<observed, nextId, applying, now, device, tables, wanQueue, handling,
                 overlapped, table, request, extrasLeft>>

\* The router or the broker refuses, or the worker is cancelled.
PollFails ==
  /\ poll # None
  /\ Extra
  /\ poll' = None
  /\ UNCHANGED <<inventoryVars, statisticsVars, table, request>>

-----------------------------------------------------------------------------
(* Changes from outside: the leases, the device's WAN state and pinning.   *)

Change == now < MaxChanges /\ now' = now + 1

LeasesChange ==
  /\ Change
  /\ table' \in Tables \ {table}
  /\ UNCHANGED <<inventoryVars, device, tables, dhcpQueue, wanQueue, handling,
                 overlapped, poll, request, extrasLeft>>

\* Protecting or unprotecting an allowed device publishes nothing; any other
\* change does, unless the service dies between commit and publish.
WanStateChanges(wan) ==
  /\ Change
  /\ device.pinned
  /\ wan # device.wan
  /\ ~(device.wan = "protected" /\ wan = "blocked")
  /\ device' = [device EXCEPT !.wan = wan]
  /\ IF "blocked" \in {device.wan, wan}
     THEN \/ /\ wanQueue' = Append(wanQueue, [at |-> now + 1])
             /\ UNCHANGED extrasLeft
          \/ Extra /\ UNCHANGED wanQueue
     ELSE UNCHANGED <<wanQueue, extrasLeft>>
  /\ UNCHANGED <<inventoryVars, tables, dhcpQueue, handling, overlapped, table, poll,
                 request>>

\* A blocked device stays pinned; an unpinned one is no longer protected.
Unpin ==
  /\ Change
  /\ device.pinned /\ device.wan # "blocked"
  /\ device' = [pinned |-> FALSE, wan |-> "allowed"]
  /\ UNCHANGED <<inventoryVars, tables, dhcpQueue, wanQueue, handling, overlapped,
                 flowVars>>

-----------------------------------------------------------------------------
(* The gateway.  It reads the layout of the classroom, then the observed   *)
(* devices, decides, and sends one call.                                   *)

ReadLayout(op) ==
  /\ request = None
  /\ Extra
  /\ request' = [op |-> op, step |-> "layout", pinned |-> device.pinned]
  /\ UNCHANGED <<inventoryVars, statisticsVars, table, poll>>

\* (Every address is taken to be one of the classroom's subnet.)
Deletable(m) ==
  /\ observed[m] # None /\ observed[m].active_ip # None
  /\ m = Tracked => ~request.pinned

IdsOf(macs) == {observed[m].id : m \in macs}

\* One inactive row, or all rows (with an address in the classroom) that no
\* pinned device has.  cleanup-stale deletes some of the latter.
IdsToDelete(op) ==
  IF op = "delete"
  THEN {IdsOf({m}) : m \in {n \in Mac : Deletable(n) /\ ~observed[n].active}}
  ELSE {IdsOf({m \in Mac : Deletable(m)})}

\* A device is pinned by its static lease.
HasStaticLease ==
  /\ observed[Tracked] # None
  /\ observed[Tracked].dynamic = FALSE
  /\ observed[Tracked].active_ip # None

Decided(op) ==
  IF op = "pin"
  THEN {r \in {[op |-> op, step |-> "observed"]} : HasStaticLease}
  ELSE {[op |-> op, step |-> "observed", ids |-> ids] : ids \in IdsToDelete(op)}

\* With nothing to do the request is refused, or answered at once.
ReadObserved ==
  /\ request # None /\ request.step = "layout"
  /\ IF Decided(request.op) = {} THEN request' = None
     ELSE request' \in Decided(request.op)
  /\ UNCHANGED <<inventoryVars, statisticsVars, table, poll, extrasLeft>>

DeleteObserved ==
  /\ request # None /\ request.step = "observed" /\ request.op # "pin"
  /\ DeleteObservedDevices(request.ids)
  /\ request' = None
  /\ UNCHANGED <<statisticsVars, table, poll, extrasLeft>>

\* pin-observed creates or pins the row, allowed, protected by default; a
\* device that is pinned already is a conflict.
PinObserved(wan) ==
  /\ request # None /\ request.step = "observed" /\ request.op = "pin"
  /\ request' = None
  /\ IF device.pinned THEN UNCHANGED <<device, now>>
     ELSE device' = [pinned |-> TRUE, wan |-> wan] /\ UNCHANGED now
  /\ UNCHANGED <<inventoryVars, tables, dhcpQueue, wanQueue, handling, overlapped,
                 table, poll, extrasLeft>>

-----------------------------------------------------------------------------
(* The dashboard takes the states from inventory and from the device, and  *)
(* the durations from the statistics, if those tell the same state.        *)

Dashboard ==
  LET online == observed[Tracked] # None /\ observed[Tracked].active
      Duration(field, state) ==
        IF current # None /\ current[field] = state THEN Since(history, field) ELSE None
  IN  [online             |-> online,
       online_state_since |-> Duration("online", online),
       wan_state_since    |-> Duration("wan", device.wan)]

-----------------------------------------------------------------------------
ApplySnapshot ==
  /\ HandleDhcpLeasesObserved \/ SaveLeases
  /\ UNCHANGED <<statisticsVars, flowVars>>

\* Taking a message while another one is handled is an extra, too.
AloneOrExtra ==
  /\ IF \A h \in Handler : handling[h] = None THEN UNCHANGED extrasLeft ELSE Extra
  /\ UNCHANGED <<inventoryVars, table, poll, request>>

ServeDhcp == \E h \in Handler : HandleDhcpStatistics(h) /\ AloneOrExtra
ServeWan == \E h \in Handler : HandleWanStatistics(h) /\ AloneOrExtra

FinishStatistics(h) == HandlerStep(h) /\ UNCHANGED <<inventoryVars, flowVars>>

Fault ==
  /\ Extra
  /\ \/ (CrashInventory \/ RejectSnapshot) /\ UNCHANGED statisticsVars
     \/ \E h \in Handler :
          (CrashStatistics(h) \/ RejectMessage(h)) /\ UNCHANGED inventoryVars
  /\ UNCHANGED <<table, poll, request>>

Gateway ==
  \/ \E op \in {"delete", "cleanup", "pin"} : ReadLayout(op)
  \/ ReadObserved \/ DeleteObserved
  \/ \E wan \in {"allowed", "protected"} : PinObserved(wan)

Next ==
  \/ RouterAnswers \/ Publish \/ PollFails
  \/ LeasesChange
  \/ \E wan \in WanState : WanStateChanges(wan)
  \/ Unpin
  \/ Gateway
  \/ ApplySnapshot
  \/ ServeDhcp \/ ServeWan
  \/ \E h \in Handler : FinishStatistics(h)
  \/ Fault

Spec == Init /\ [][Next]_vars

\* The worker polls again and again, polls end, and consumers go on: every
\* handler ends, and each of the two queues is served.
Fairness ==
  /\ WF_vars(RouterAnswers \/ Publish)
  /\ WF_vars(ApplySnapshot)
  /\ \A h \in Handler : WF_vars(FinishStatistics(h))
  /\ SF_vars(ServeDhcp)
  /\ SF_vars(ServeWan)

FairSpec == Spec /\ Fairness

-----------------------------------------------------------------------------
(* Properties.                                                             *)

\* Every variable keeps its type.
TypeOK ==
  /\ observed \in [Mac -> ObservedRow \cup {None}]
  /\ nextId \in Nat
  /\ inventoryQueue \in Seq(Snapshot)
  /\ applying \in Applying \cup {None}
  /\ now \in 0..MaxChanges
  /\ device \in [pinned: BOOLEAN, wan: WanState]
  /\ current \in StateRow \cup {None}
  /\ history \in Seq(Event)
  /\ dhcpQueue \in Seq(Snapshot) /\ wanQueue \in Seq(WanMessage)
  /\ handling \in [Handler -> Handling \cup {None}]
  /\ overlapped \in BOOLEAN
  /\ table \in Tables
  /\ poll \in [table: Tables] \cup {None}
  /\ request \in GatewayRequest \cup {None}
  /\ extrasLeft \in 0..MaxExtras

\* A report shows every instant in the state that the last event up to it
\* tells, nothing before the first event, and no two segments where one
\* would do; whatever the order in which the events were stored.
Shown(segments, t) ==
  {segments[i].state : i \in {j \in DOMAIN segments :
                              segments[j].start <= t /\ t < segments[j].end}}

StateAt(events, t, field) ==
  LET known == {i \in DOMAIN events : events[i].at <= t}
  IN  {events[i][field] :
         i \in {j \in known : \A k \in known \ {j} : Precedes(events, k, j)}}

SegmentsAreRight(events, start, end, field) ==
  LET segments == Segments(events, start, end, field) IN
  /\ \A t \in start..(end - 1) : Shown(segments, t) = StateAt(events, t, field)
  /\ \A i \in DOMAIN segments :
       /\ start <= segments[i].start
       /\ segments[i].start < segments[i].end
       /\ segments[i].end <= end
       /\ i > 1 => \/ segments[i - 1].end < segments[i].start
                   \/ /\ segments[i - 1].end = segments[i].start
                      /\ segments[i - 1].state # segments[i].state

\* (Checked whenever the history or the time changes.)
SegmentsMatchHistory ==
  [][\A field \in {"online", "wan"}, start \in 0..now' :
       SegmentsAreRight(history', start, now', field)]_<<history, now>>

\* As long as handlers did not overlap, the last event tells what the row
\* tells: a report ends with the state of the row.
LastEvent == history[Latest(history, DOMAIN history)]

HistoryEndsWithRow ==
  ~overlapped =>
    /\ current = None <=> history = <<>>
    /\ current # None => LastEvent.online = current.online /\ LastEvent.wan = current.wan

\* "A WAN change must not reset online duration, and an online change must
\* not reset WAN duration" (device_state_timing.py:15-16), as long as handlers
\* did not overlap.
DurationsKept ==
  [][\A field \in {"online", "wan"} :
       (/\ current # None /\ current' # None
        /\ current'[field] = current[field] /\ ~overlapped')
       => Since(history', field) = Since(history, field)]_<<current, history>>

\* Once nothing changes any more inventory shows what the router leases,
\* unless that is nothing at all: an empty snapshot is not believed.
Leased(m) == m \in SeenMacs(GetDhcpLeases(table))
ShownAsLeased(m) ==
  IF Leased(m)
  THEN LET lease == LastLease(GetDhcpLeases(table), m) IN
       /\ observed[m] # None
       /\ observed[m].active = lease.active
       /\ observed[m].active_ip = lease.active_ip
       /\ observed[m].dynamic = lease.dynamic
  ELSE observed[m] # None => ~observed[m].active

InventoryFollowsRouter ==
  <>[](table # <<>> => \A m \in Mac : ShownAsLeased(m))

\* The statistics of a pinned device follow the router and the device,
\* whatever overlapped, was lost or came twice, and the dashboard then has
\* durations to show.
StatisticsFollowDevice ==
  <>[](device.pinned =>
         /\ current # None
         /\ current.online = Online(GetDhcpLeases(table))
         /\ current.wan = device.wan
         /\ Dashboard.wan_state_since # None
         /\ table # <<>> => Dashboard.online_state_since # None)
=============================================================================
