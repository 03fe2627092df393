-------------------------- MODULE WanPolicy_proofs --------------------------
(***************************************************************************)
(* Proofs about WanPolicy, for any number of devices, classrooms, routers, *)
(* addresses, requests in flight and faults: the types, and that the rules *)
(* of the devices table are broken by nothing but a lost update.           *)
(***************************************************************************)
EXTENDS WanPolicy, TLAPS

-----------------------------------------------------------------------------
(* Rows and their differences.                                             *)

LEMMA ChangedType ==
  ASSUME NEW S, NEW old \in S, NEW new \in S
  PROVE  Changed(old, new) \in S \cup {Keep}
BY DEF Changed

LEMMA OverwrittenType ==
  ASSUME NEW S, NEW old \in S, NEW change \in S \cup {Keep}
  PROVE  Overwritten(old, change) \in S
BY DEF Overwritten

LEMMA DiffType ==
  ASSUME NEW row \in DeviceRow, NEW target \in DeviceRow
  PROVE  Diff(row, target) \in RowChange
<1>1. /\ Changed(row.classroom_id, target.classroom_id) \in Classroom \cup {Keep}
      /\ Changed(row.static_ip, target.static_ip) \in (Address \cup {None}) \cup {Keep}
      /\ Changed(row.is_pinned, target.is_pinned) \in BOOLEAN \cup {Keep}
      /\ Changed(row.wan_allowed, target.wan_allowed) \in BOOLEAN \cup {Keep}
      /\ Changed(row.wan_protected, target.wan_protected) \in BOOLEAN \cup {Keep}
      /\ Changed(row.policy_generation, target.policy_generation) \in Nat \cup {Keep}
      /\ Changed(row.sync_status, target.sync_status) \in SyncStatus \cup {Keep}
  BY ChangedType, Zenon DEF DeviceRow
<1>. QED
  BY <1>1 DEF Diff, RowChange

\* A row that exists is a row after it was written, and an absent one stays absent.
LEMMA WrittenType ==
  ASSUME NEW row \in DeviceRow \cup {None}, NEW change \in RowChange
  PROVE  /\ row \in DeviceRow => Written(row, change) \in DeviceRow
         /\ row = None => Written(row, change) = None
<1>1. CASE row = None
  BY <1>1, SentinelAssumption DEF Written
<1>2. CASE row \in DeviceRow
  <2>0. row # None
    BY <1>2, SentinelAssumption
  <2>1. /\ Overwritten(row.classroom_id, change.classroom_id) \in Classroom
        /\ Overwritten(row.static_ip, change.static_ip) \in Address \cup {None}
        /\ Overwritten(row.is_pinned, change.is_pinned) \in BOOLEAN
        /\ Overwritten(row.wan_allowed, change.wan_allowed) \in BOOLEAN
        /\ Overwritten(row.wan_protected, change.wan_protected) \in BOOLEAN
        /\ Overwritten(row.policy_generation, change.policy_generation) \in Nat
        /\ Overwritten(row.sync_status, change.sync_status) \in SyncStatus
    BY <1>2, OverwrittenType DEF DeviceRow, RowChange
  <2>. QED
    BY <1>2, <2>0, <2>1 DEF Written, DeviceRow
<1>. QED
  BY <1>1, <1>2

-----------------------------------------------------------------------------
(* Types.                                                                  *)

\* What TypeOK does not say and its proof needs: a handler that is to re-read a row
\* has a row to re-read, and one that is to publish has an event.
RequestsOK ==
  \A q \in Request :
    /\ requests[q].phase \in {"loaded", "committed"} /\ requests[q].device # None
         => Exists(requests[q].device)
    /\ requests[q].phase = "committed" => requests[q].device # None
    /\ requests[q].phase = "publishing" => requests[q].event # None

LEMMA IdleType == Idle \in RequestState /\ Idle.phase = "idle"
BY DEF Idle, RequestState, NoChange, RowChange

LEMMA OnlyType ==
  ASSUME NEW d \in Device, NEW change \in RowChange
  PROVE  Only(d, change) \in [Device -> RowChange]
BY DEF Only, NoChange, RowChange

LEMMA WanStateType ==
  ASSUME NEW row \in DeviceRow, NEW allowed \in BOOLEAN
  PROVE  WithWanState(row, allowed) \in DeviceRow
<1> DEFINE g == IF row.wan_allowed = allowed THEN row.policy_generation
                                            ELSE row.policy_generation + 1
<1>1. row.policy_generation \in Nat
  BY DEF DeviceRow
<1>2. g \in Nat
  BY <1>1
<1>3. WithWanState(row, allowed) =
        [row EXCEPT !.wan_allowed = allowed, !.policy_generation = g,
                    !.sync_status = "pending"]
  BY DEF WithWanState
<1>. HIDE DEF g
<1>4. CASE allowed = TRUE
  BY <1>2, <1>3, <1>4 DEF DeviceRow, SyncStatus
<1>5. CASE allowed = FALSE
  BY <1>2, <1>3, <1>5 DEF DeviceRow, SyncStatus
<1>. QED
  BY <1>4, <1>5

LEMMA LoadType ==
  ASSUME ClassroomTypeOK, RequestsOK, NEW q \in Request,
         NEW changes \in [Device -> RowChange], NEW device \in Device \cup {None},
         NEW router \in Router \cup {None}, NEW event \in WanEvent \cup {None},
         device # None => Exists(device),
         Load(q, changes, device, router, event)
  PROVE  ClassroomTypeOK' /\ RequestsOK'
<1> DEFINE r == [phase |-> "loaded", read |-> devices, changes |-> changes,
                 device |-> device, router |-> router, event |-> event]
<1>1. r \in RequestState
  BY DEF RequestState, ClassroomTypeOK
<1>2. requests' = [requests EXCEPT ![q] = r]
  BY DEF Load
<1>3. ClassroomTypeOK'
  BY <1>1, <1>2, BoundAssumption DEF Load, ClassroomTypeOK
<1>4. RequestsOK'
  <2> SUFFICES ASSUME NEW p \in Request
               PROVE  /\ /\ requests'[p].phase \in {"loaded", "committed"}
                         /\ requests'[p].device # None
                         => Exists(requests'[p].device)
                      /\ requests'[p].phase = "committed" => requests'[p].device # None
                      /\ requests'[p].phase = "publishing" => requests'[p].event # None
    BY DEF RequestsOK, Load, Exists
  <2>1. CASE p = q
    BY <1>2, <2>1 DEF ClassroomTypeOK
  <2>2. CASE p # q
    BY <1>2, <2>2 DEF ClassroomTypeOK, RequestsOK
  <2>. QED
    BY <2>1, <2>2
<1>. QED
  BY <1>3, <1>4

-----------------------------------------------------------------------------
(* What a handler that decided to write will do to each row.               *)

\* The rules of the devices table, of one row.
ProtectedIsAllowed(row) == row.wan_protected => row.wan_allowed
BlockedIsPinned(row) == ~row.wan_allowed => row.is_pinned

\* The handler that pins a known device again writes the state of its body under the
\* old generation; it finds the row unpinned.
Grows(row, target) ==
  row.is_pinned /\ ~(target.wan_allowed <=> row.wan_allowed)
    => row.policy_generation < target.policy_generation

\* A change of a row that breaks no rule.
Permitted(row, target) ==
  /\ ProtectedIsAllowed(row) => ProtectedIsAllowed(target)
  /\ BlockedIsPinned(row) => BlockedIsPinned(target)
  /\ Grows(row, target)

LEMMA SameStateGrows ==
  ASSUME NEW row, NEW target, target.wan_allowed = row.wan_allowed
  PROVE  Grows(row, target)
BY Zenon DEF Grows

LEMMA WanStateGrows ==
  ASSUME NEW row \in DeviceRow, NEW allowed \in BOOLEAN
  PROVE  Grows(row, WithWanState(row, allowed))
<1>0. row.policy_generation \in Nat /\ row.wan_allowed \in BOOLEAN
  BY DEF DeviceRow
<1>1. CASE row.wan_allowed = allowed
  <2>1. WithWanState(row, allowed).wan_allowed = row.wan_allowed
    BY <1>1 DEF WithWanState, DeviceRow
  <2>. QED
    BY <2>1, SameStateGrows
<1>2. CASE row.wan_allowed # allowed
  <2>1. WithWanState(row, allowed).policy_generation = row.policy_generation + 1
    BY <1>2 DEF WithWanState, DeviceRow
  <2>2. row.policy_generation < WithWanState(row, allowed).policy_generation
    BY <1>0, <2>1
  <2>. QED
    BY <2>2, Zenon DEF Grows
<1>. QED
  BY <1>1, <1>2

LEMMA BlockPermitted ==
  ASSUME NEW row \in DeviceRow, NEW allowed \in BOOLEAN,
         allowed \/ (~row.wan_protected /\ row.is_pinned)
  PROVE  Permitted(row, WithWanState(row, allowed))
<1>1. /\ WithWanState(row, allowed).wan_allowed = allowed
      /\ WithWanState(row, allowed).wan_protected = row.wan_protected
      /\ WithWanState(row, allowed).is_pinned = row.is_pinned
  BY DEF WithWanState, DeviceRow
<1>2. Grows(row, WithWanState(row, allowed))
  BY WanStateGrows
<1>. QED
  BY <1>1, <1>2, Zenon
     DEF Permitted, ProtectedIsAllowed, BlockedIsPinned

LEMMA ProtectPermitted ==
  ASSUME NEW row \in DeviceRow, NEW protected \in BOOLEAN,
         NEW row2, row2 = IF protected /\ ~row.wan_allowed
                          THEN WithWanState(row, TRUE) ELSE row
  PROVE  /\ row2 \in DeviceRow
         /\ [row2 EXCEPT !.wan_protected = protected] \in DeviceRow
         /\ Permitted(row, [row2 EXCEPT !.wan_protected = protected])
<1>1. row2 \in DeviceRow
  BY WanStateType
<1>2. [row2 EXCEPT !.wan_protected = protected] \in DeviceRow
  <2>1. CASE protected = TRUE
    BY <1>1, <2>1 DEF DeviceRow
  <2>2. CASE protected = FALSE
    BY <1>1, <2>2 DEF DeviceRow
  <2>. QED
    BY <2>1, <2>2
<1>3. /\ [row2 EXCEPT !.wan_protected = protected].wan_protected = protected
      /\ [row2 EXCEPT !.wan_protected = protected].wan_allowed = row2.wan_allowed
      /\ [row2 EXCEPT !.wan_protected = protected].is_pinned = row2.is_pinned
      /\ [row2 EXCEPT !.wan_protected = protected].policy_generation = row2.policy_generation
  BY <1>1 DEF DeviceRow
<1>4. /\ row2.is_pinned = row.is_pinned
      /\ row.wan_allowed => row2.wan_allowed
      /\ protected => row2.wan_allowed
  BY DEF WithWanState, DeviceRow
<1>5. Grows(row, row2)
  BY WanStateGrows, SameStateGrows
<1>6. Grows(row, [row2 EXCEPT !.wan_protected = protected])
  BY <1>3, <1>5, Zenon DEF Grows
<1>. QED
  BY <1>1, <1>2, <1>3, <1>4, <1>6, Zenon
     DEF Permitted, ProtectedIsAllowed, BlockedIsPinned

LEMMA PinPermitted ==
  ASSUME NEW row \in DeviceRow, NEW c \in Classroom, NEW a \in Address \cup {None}
  PROVE  LET target == [row EXCEPT !.classroom_id = c, !.static_ip = a, !.is_pinned = TRUE]
         IN  target \in DeviceRow /\ Permitted(row, target)
<1> DEFINE target == [row EXCEPT !.classroom_id = c, !.static_ip = a, !.is_pinned = TRUE]
<1>1. /\ target \in DeviceRow /\ target.is_pinned = TRUE
      /\ target.wan_allowed = row.wan_allowed /\ target.wan_protected = row.wan_protected
  BY DEF DeviceRow
<1>. HIDE DEF target
<1>2. Grows(row, target)
  BY <1>1, SameStateGrows
<1>3. Permitted(row, target)
  BY <1>1, <1>2, Zenon
     DEF Permitted, ProtectedIsAllowed, BlockedIsPinned
<1>. QED
  BY <1>1, <1>3 DEF target

LEMMA UnpinPermitted ==
  ASSUME NEW row \in DeviceRow, row.wan_allowed
  PROVE  Unpinned(row) \in DeviceRow /\ Permitted(row, Unpinned(row))
<1>1. /\ Unpinned(row) \in DeviceRow /\ Unpinned(row).wan_allowed = row.wan_allowed
      /\ ~Unpinned(row).wan_protected
  BY DEF Unpinned, DeviceRow, SyncStatus
<1>2. Grows(row, Unpinned(row))
  BY <1>1, SameStateGrows
<1>. QED
  BY <1>1, <1>2, Zenon
     DEF Permitted, ProtectedIsAllowed, BlockedIsPinned

LEMMA RepinPermitted ==
  ASSUME NEW row \in DeviceRow, ~row.is_pinned, NEW payload \in CreatePayload
  PROVE  LET target == [row EXCEPT
               !.classroom_id = payload.classroom_id, !.static_ip = payload.static_ip,
               !.is_pinned = TRUE, !.wan_protected = payload.wan_protected,
               !.wan_allowed = payload.wan_protected \/ payload.wan_allowed,
               !.sync_status = "applied"]
         IN  target \in DeviceRow /\ Permitted(row, target)
<1> DEFINE allowed == payload.wan_protected \/ payload.wan_allowed
           x == [row EXCEPT !.classroom_id = payload.classroom_id,
                            !.static_ip = payload.static_ip, !.is_pinned = TRUE,
                            !.sync_status = "applied"]
           target == [row EXCEPT
               !.classroom_id = payload.classroom_id, !.static_ip = payload.static_ip,
               !.is_pinned = TRUE, !.wan_protected = payload.wan_protected,
               !.wan_allowed = allowed, !.sync_status = "applied"]
<1>0. payload \in Payload
  BY PayloadAssumption
<1>1. x \in DeviceRow
  BY <1>0 DEF DeviceRow, Payload, SyncStatus
<1>2. payload.wan_protected \in BOOLEAN /\ allowed \in BOOLEAN
  BY <1>0 DEF Payload
<1>3. ASSUME NEW p \in BOOLEAN, NEW b \in BOOLEAN
      PROVE  [x EXCEPT !.wan_protected = p, !.wan_allowed = b] \in DeviceRow
  <2>1. CASE p = TRUE /\ b = TRUE
    BY <1>1, <2>1 DEF DeviceRow
  <2>2. CASE p = TRUE /\ b = FALSE
    BY <1>1, <2>2 DEF DeviceRow
  <2>3. CASE p = FALSE /\ b = TRUE
    BY <1>1, <2>3 DEF DeviceRow
  <2>4. CASE p = FALSE /\ b = FALSE
    BY <1>1, <2>4 DEF DeviceRow
  <2>. QED
    BY <2>1, <2>2, <2>3, <2>4
<1>4. target = [x EXCEPT !.wan_protected = payload.wan_protected, !.wan_allowed = allowed]
  BY DEF DeviceRow
<1>5. target \in DeviceRow
  BY <1>2, <1>3, <1>4
<1>6. /\ target.is_pinned = TRUE /\ target.wan_protected = payload.wan_protected
      /\ target.wan_allowed = allowed
  BY DEF DeviceRow
<1>. HIDE DEF target
<1>7. Grows(row, target)
  BY Zenon DEF Grows
<1>8. payload.wan_protected => target.wan_allowed
  BY <1>6, Zenon
<1>9. Permitted(row, target)
  BY <1>6, <1>7, <1>8, Zenon DEF Permitted, ProtectedIsAllowed, BlockedIsPinned
<1>. QED
  BY <1>5, <1>9 DEF target

-----------------------------------------------------------------------------
(* What the handlers decide on, and that it breaks no rule.                *)

\* An UPDATE of a row leaves it alone, or takes it from what it is to a permitted target.
Sound(row, change) ==
  \/ change = NoChange
  \/ /\ row \in DeviceRow
     /\ \E target \in DeviceRow : change = Diff(row, target) /\ Permitted(row, target)

LEMMA ExistsRow ==
  ASSUME ClassroomTypeOK, NEW d \in Device, Exists(d)
  PROVE  devices[d] \in DeviceRow
BY DEF ClassroomTypeOK, Exists

LEMMA SoundType ==
  ASSUME NEW row, NEW change, Sound(row, change)
  PROVE  change \in RowChange
<1>1. CASE change = NoChange
  BY <1>1 DEF NoChange, RowChange
<1>2. CASE change # NoChange
  BY <1>2, DiffType DEF Sound
<1>. QED
  BY <1>1, <1>2

LEMMA OnlySound ==
  ASSUME ClassroomTypeOK, NEW d \in Device, Exists(d), NEW target \in DeviceRow,
         Permitted(devices[d], target)
  PROVE  LET changes == Only(d, Diff(devices[d], target))
         IN  /\ changes \in [Device -> RowChange]
             /\ \A x \in Device : Sound(devices[x], changes[x])
<1> DEFINE change == Diff(devices[d], target)
<1>1. Sound(devices[d], change)
  BY ExistsRow DEF Sound
<1>2. change \in RowChange
  BY <1>1, SoundType
<1>. HIDE DEF change
<1>3. Only(d, change) \in [Device -> RowChange]
  BY <1>2, OnlyType
<1>4. \A x \in Device : Sound(devices[x], Only(d, change)[x])
  <2>1. ASSUME NEW x \in Device PROVE Sound(devices[x], Only(d, change)[x])
    <3>1. CASE x = d
      BY <1>1, <3>1 DEF Only
    <3>2. CASE x # d
      BY <3>2 DEF Only, Sound
    <3>. QED
      BY <3>1, <3>2
  <2>. QED
    BY <2>1
<1>. QED
  BY <1>3, <1>4 DEF change

\* What a request in flight is to write and to publish, as it was loaded.
LoadsSoundly(q) ==
  \E changes \in [Device -> RowChange], device \in Device \cup {None},
     router \in Router \cup {None}, event \in WanEvent \cup {None} :
    /\ Load(q, changes, device, router, event)
    /\ device # None => Exists(device)
    /\ \A d \in Device : Sound(devices[d], changes[d])

LEMMA BulkSound ==
  ASSUME ClassroomTypeOK, NEW q \in Request, NEW c \in Classroom, NEW allowed \in BOOLEAN,
         SetClassroomWanState(q, c, allowed)
  PROVE  LoadsSoundly(q)
<1> DEFINE target(d) == IF d \in BulkQueued(c, allowed)
                        THEN WithWanState(devices[d], allowed) ELSE devices[d]
           changes == [d \in Device |-> IF d \in BulkQueued(c, allowed)
                                        THEN Diff(devices[d], target(d)) ELSE NoChange]
<1>1. \A d \in BulkMembers(c) : /\ d \in Device /\ Exists(d) /\ devices[d] \in DeviceRow
                                /\ devices[d].is_pinned /\ ~devices[d].wan_protected
  BY ExistsRow DEF BulkMembers
<1>2. \A d \in BulkMembers(c) : /\ WithWanState(devices[d], allowed) \in DeviceRow
                                /\ Permitted(devices[d], WithWanState(devices[d], allowed))
  BY <1>1, WanStateType, BlockPermitted
<1>3. \A d \in BulkMembers(c) : target(d) \in DeviceRow
  BY <1>1, <1>2
<1>4. ASSUME NEW d \in Device PROVE Sound(devices[d], changes[d])
  <2>1. CASE d \in BulkQueued(c, allowed)
    <3>1. d \in BulkMembers(c)
      BY <2>1 DEF BulkQueued
    <3>2. changes[d] = Diff(devices[d], WithWanState(devices[d], allowed))
      BY <2>1
    <3>. QED
      BY <1>1, <1>2, <3>1, <3>2 DEF Sound
  <2>2. CASE d \notin BulkQueued(c, allowed)
    BY <2>2 DEF Sound
  <2>. QED
    BY <2>1, <2>2
<1>5. changes \in [Device -> RowChange]
  <2>1. \A d \in Device : changes[d] \in RowChange
    BY <1>4, SoundType
  <2>. QED
    BY <2>1
<1>6. PICK g \in {target(d).policy_generation : d \in BulkMembers(c)} :
        Load(q, changes, None, None,
             [router_id |-> classroomRouter[c], policy_generation |-> g])
  BY DEF SetClassroomWanState
<1>7. g \in Nat
  BY <1>3, <1>6 DEF DeviceRow
<1>8. [router_id |-> classroomRouter[c], policy_generation |-> g] \in WanEvent
  BY <1>7 DEF WanEvent, ClassroomTypeOK
<1>. HIDE DEF changes
<1>. QED
  BY <1>4, <1>5, <1>6, <1>8 DEF LoadsSoundly

LEMMA AcceptSound ==
  ASSUME ClassroomTypeOK, NEW q \in Request, AcceptRequest(q)
  PROVE  LoadsSoundly(q)
<1>0. ASSUME NEW d \in Device, Exists(d), NEW target \in DeviceRow,
             Permitted(devices[d], target), NEW device \in {None, d},
             NEW router \in Router \cup {None},
             Load(q, Only(d, Diff(devices[d], target)), device, router, None)
      PROVE  LoadsSoundly(q)
  BY <1>0, OnlySound DEF LoadsSoundly
<1>1. ASSUME NEW d \in Device, NEW allowed \in BOOLEAN, SetDeviceWanState(q, d, allowed)
      PROVE  LoadsSoundly(q)
  <2>1. Exists(d) /\ devices[d] \in DeviceRow
    BY <1>1, ExistsRow DEF SetDeviceWanState
  <2>2. allowed \/ (~devices[d].wan_protected /\ devices[d].is_pinned)
    BY <1>1 DEF SetDeviceWanState, MayBlock
  <2>3. /\ WithWanState(devices[d], allowed) \in DeviceRow
        /\ Permitted(devices[d], WithWanState(devices[d], allowed))
    BY <2>1, <2>2, WanStateType, BlockPermitted
  <2>4. classroomRouter[devices[d].classroom_id] \in Router
    BY <2>1 DEF ClassroomTypeOK, DeviceRow
  <2>. QED
    BY <1>0, <1>1, <2>1, <2>3, <2>4 DEF SetDeviceWanState
<1>2. ASSUME NEW c \in Classroom, NEW allowed \in BOOLEAN, SetClassroomWanState(q, c, allowed)
      PROVE  LoadsSoundly(q)
  BY <1>2, BulkSound
<1>3. ASSUME NEW d \in Device, NEW payload \in CreatePayload, RepinDevice(q, d, payload)
      PROVE  LoadsSoundly(q)
  <2>1. Exists(d) /\ devices[d] \in DeviceRow /\ ~devices[d].is_pinned
    BY <1>3, ExistsRow DEF RepinDevice
  <2>. QED
    BY <1>0, <1>3, <2>1, RepinPermitted DEF RepinDevice
<1>4. ASSUME NEW d \in Device, NEW protected \in BOOLEAN, UpdateDevice(q, d, protected)
      PROVE  LoadsSoundly(q)
  <2> DEFINE row == IF protected /\ ~devices[d].wan_allowed
                    THEN WithWanState(devices[d], TRUE) ELSE devices[d]
             device == IF protected /\ ~devices[d].wan_allowed THEN d ELSE None
  <2>1. Exists(d) /\ devices[d] \in DeviceRow
    BY <1>4, ExistsRow DEF UpdateDevice
  <2>2. /\ [row EXCEPT !.wan_protected = protected] \in DeviceRow
        /\ Permitted(devices[d], [row EXCEPT !.wan_protected = protected])
    BY <2>1, ProtectPermitted
  <2>3. Load(q, Only(d, Diff(devices[d], [row EXCEPT !.wan_protected = protected])),
             device, None, None)
    BY <1>4 DEF UpdateDevice
  <2>4. device \in {None, d}
    OBVIOUS
  <2>. HIDE DEF row, device
  <2>. QED
    BY <1>0, <2>1, <2>2, <2>3, <2>4
<1>5. ASSUME NEW d \in Device, NEW payload \in PinPayload, PinDevice(q, d, payload)
      PROVE  LoadsSoundly(q)
  <2>1. Exists(d) /\ devices[d] \in DeviceRow
    BY <1>5, ExistsRow DEF PinDevice
  <2>2. payload.classroom_id \in Classroom /\ payload.static_ip \in Address \cup {None}
    BY PayloadAssumption
  <2>. QED
    BY <1>0, <1>5, <2>1, <2>2, PinPermitted DEF PinDevice
<1>6. ASSUME NEW d \in Device, UnpinDevice(q, d)
      PROVE  LoadsSoundly(q)
  <2>1. Exists(d) /\ devices[d] \in DeviceRow /\ devices[d].wan_allowed
    BY <1>6, ExistsRow DEF UnpinDevice
  <2>. QED
    BY <1>0, <1>6, <2>1, UnpinPermitted DEF UnpinDevice
<1>. QED
  BY <1>1, <1>2, <1>3, <1>4, <1>5, <1>6 DEF AcceptRequest

-----------------------------------------------------------------------------
(* The steps of the classroom service preserve the types.                  *)

LEMMA NewRowType ==
  ASSUME NEW payload \in Payload
  PROVE  /\ NewRow(payload) \in DeviceRow
         /\ ProtectedIsAllowed(NewRow(payload))
<1> DEFINE allowed == payload.wan_protected \/ payload.wan_allowed
<1>1. /\ payload.classroom_id \in Classroom /\ payload.static_ip \in Address \cup {None}
      /\ payload.is_pinned \in BOOLEAN /\ allowed \in BOOLEAN
      /\ payload.wan_protected \in BOOLEAN
  BY DEF Payload
<1>2. NewRow(payload) =
        [classroom_id |-> payload.classroom_id, static_ip |-> payload.static_ip,
         is_pinned |-> payload.is_pinned, wan_allowed |-> allowed,
         wan_protected |-> payload.wan_protected,
         policy_generation |-> 0, sync_status |-> "applied"]
  BY Zenon DEF NewRow
<1>3. payload.wan_protected => allowed
  OBVIOUS
<1>. HIDE DEF allowed
<1>4. NewRow(payload) \in DeviceRow
  BY <1>1, <1>2 DEF DeviceRow, SyncStatus
<1>5. /\ NewRow(payload).wan_allowed = allowed
      /\ NewRow(payload).wan_protected = payload.wan_protected
  BY <1>2
<1>. QED
  BY <1>3, <1>4, <1>5, Zenon DEF ProtectedIsAllowed

LEMMA InsertType ==
  ASSUME ClassroomTypeOK, RequestsOK, NEW d \in Device, NEW payload \in CreatePayload,
         InsertDevice(d, payload)
  PROVE  ClassroomTypeOK' /\ RequestsOK'
<1>1. NewRow(payload) \in DeviceRow
  BY PayloadAssumption, NewRowType
<1>2. devices' = [devices EXCEPT ![d] = NewRow(payload)]
  BY DEF InsertDevice
<1>3. ClassroomTypeOK'
  BY <1>1, <1>2, BoundAssumption DEF InsertDevice, ClassroomTypeOK
<1>4. \A x \in Device : Exists(x) => Exists(x)'
  BY <1>1, <1>2, SentinelAssumption DEF Exists, ClassroomTypeOK
<1>5. \A q \in Request : requests[q].device \in Device \cup {None}
  BY DEF ClassroomTypeOK, RequestState
<1>. QED
  BY <1>3, <1>4, <1>5 DEF RequestsOK, InsertDevice

\* A step that ends or advances request q and keeps every row.
LEMMA AdvanceType ==
  ASSUME ClassroomTypeOK, RequestsOK, NEW q \in Request, NEW r \in RequestState,
         requests' = [requests EXCEPT ![q] = r],
         \A x \in Device : Exists(x) => devices'[x] # None,
         r.phase # "loaded",
         r.phase = "committed" => r.device # None /\ devices'[r.device] # None,
         r.phase = "publishing" => r.event # None
  PROVE  requests' \in [Request -> RequestState] /\ RequestsOK'
<1>1. requests' \in [Request -> RequestState]
  BY DEF ClassroomTypeOK
<1>2. ASSUME NEW p \in Request
      PROVE  /\ /\ requests'[p].phase \in {"loaded", "committed"}
                /\ requests'[p].device # None
                => devices'[requests'[p].device] # None
             /\ requests'[p].phase = "committed" => requests'[p].device # None
             /\ requests'[p].phase = "publishing" => requests'[p].event # None
  <2>1. CASE p = q
    BY <2>1 DEF ClassroomTypeOK
  <2>2. CASE p # q
    <3>1. requests'[p] = requests[p] /\ requests[p].device \in Device \cup {None}
      BY <2>2 DEF ClassroomTypeOK, RequestState
    <3>. QED
      BY <3>1 DEF RequestsOK
  <2>. QED
    BY <2>1, <2>2
<1>. QED
  BY <1>1, <1>2 DEF RequestsOK, Exists

LEMMA CommitType ==
  ASSUME ClassroomTypeOK, RequestsOK, NEW q \in Request, Commit(q)
  PROVE  ClassroomTypeOK' /\ RequestsOK'
<1> DEFINE r == requests[q]
           next == AfterCommit(r)
<1>1. r \in RequestState
  BY DEF ClassroomTypeOK
<1>2. \A d \in Device : /\ Exists(d) => Written(devices[d], r.changes[d]) \in DeviceRow
                        /\ ~Exists(d) => Written(devices[d], r.changes[d]) = None
  BY <1>1, WrittenType DEF RequestState, Exists, ClassroomTypeOK
<1>3. devices' = [d \in Device |-> Written(devices[d], r.changes[d])]
  BY DEF Commit
<1>4. devices' \in [Device -> DeviceRow \cup {None}]
  BY <1>2, <1>3
<1>5. \A d \in Device : Exists(d) => devices'[d] # None
  BY <1>2, <1>3, SentinelAssumption DEF Exists
<1>6. /\ next \in RequestState
      /\ next.phase # "loaded"
      /\ next.phase = "committed" => next.device # None /\ next.device = r.device
      /\ next.phase = "publishing" => next.event # None
  <2>1. CASE r.event # None
    <3>1. next = [Idle EXCEPT !.phase = "publishing", !.event = r.event]
      BY <2>1 DEF AfterCommit
    <3>2. r.event \in WanEvent
      BY <1>1, <2>1 DEF RequestState
    <3>. HIDE DEF r, next
    <3>. QED
      BY <2>1, <3>1, <3>2, IdleType DEF RequestState, Idle
  <2>2. CASE r.event = None /\ r.device # None
    <3>1. next = [Idle EXCEPT !.phase = "committed",
                              !.device = r.device, !.router = r.router]
      BY <2>2 DEF AfterCommit
    <3>2. r.device \in Device /\ r.router \in Router \cup {None}
      BY <1>1, <2>2 DEF RequestState
    <3>. HIDE DEF r, next
    <3>. QED
      BY <2>2, <3>1, <3>2, IdleType DEF RequestState, Idle
  <2>3. CASE r.event = None /\ r.device = None
    BY <2>3, IdleType DEF AfterCommit
  <2>. QED
    BY <2>1, <2>2, <2>3
<1>7. requests' = [requests EXCEPT ![q] = next] /\ r.phase = "loaded"
  BY DEF Commit
<1>8. next.phase = "committed" => devices'[next.device] # None
  BY <1>1, <1>5, <1>6, <1>7 DEF RequestsOK, RequestState
<1>. HIDE DEF next
<1>9. requests' \in [Request -> RequestState] /\ RequestsOK'
  BY <1>5, <1>6, <1>7, <1>8, AdvanceType
<1>. QED
  BY <1>4, <1>9 DEF Commit, ClassroomTypeOK

LEMMA FinishType ==
  ASSUME ClassroomTypeOK, RequestsOK, NEW q \in Request, FinishRequest(q)
  PROVE  ClassroomTypeOK' /\ RequestsOK'
<1>0. ASSUME UNCHANGED devices, requests' = [requests EXCEPT ![q] = Idle]
      PROVE  requests' \in [Request -> RequestState] /\ RequestsOK'
  <2>1. \A x \in Device : Exists(x) => devices'[x] # None
    BY <1>0 DEF Exists
  <2>. QED
    BY <1>0, <2>1, AdvanceType, IdleType
<1>1. CASE Commit(q)
  BY <1>1, CommitType
<1>2. CASE Rollback(q)
  BY <1>0, <1>2 DEF Rollback, ClassroomTypeOK
<1>3. CASE Refresh(q)
  <2> DEFINE event == [router_id |-> EventRouter(q), policy_generation |->
                        devices[requests[q].device].policy_generation]
             next == [Idle EXCEPT !.phase = "publishing", !.event = event]
  <2>1. /\ requests[q] \in RequestState /\ requests[q].device \in Device
        /\ Exists(requests[q].device)
    BY <1>3 DEF Refresh, RequestsOK, ClassroomTypeOK, RequestState
  <2>2. devices[requests[q].device] \in DeviceRow
    BY <2>1, ExistsRow
  <2>3. EventRouter(q) \in Router
    BY <2>1, <2>2 DEF EventRouter, ClassroomTypeOK, DeviceRow, RequestState
  <2>4. event \in WanEvent /\ event # None
    BY <2>2, <2>3, SentinelAssumption DEF WanEvent, DeviceRow
  <2>5. requests' = [requests EXCEPT ![q] = next]
    BY <1>3 DEF Refresh
  <2>. HIDE DEF event
  <2>6. /\ next \in RequestState /\ next.phase = "publishing" /\ next.event # None
    BY <2>4, IdleType DEF RequestState, Idle
  <2>7. \A x \in Device : Exists(x) => devices'[x] # None
    BY <1>3 DEF Exists, Refresh
  <2>. HIDE DEF next
  <2>8. requests' \in [Request -> RequestState] /\ RequestsOK'
    BY <2>5, <2>6, <2>7, AdvanceType
  <2>. QED
    BY <1>3, <2>8 DEF Refresh, ClassroomTypeOK
<1>4. CASE Publish(q)
  <2>1. requests[q].event \in WanEvent
    BY <1>4 DEF Publish, RequestsOK, ClassroomTypeOK, RequestState
  <2>2. requests' \in [Request -> RequestState] /\ RequestsOK'
    BY <1>0, <1>4 DEF Publish
  <2>. QED
    BY <1>4, <2>1, <2>2 DEF Publish, ClassroomTypeOK
<1>5. CASE LosePublish(q)
  <2>1. requests' \in [Request -> RequestState] /\ RequestsOK'
    BY <1>0, <1>5 DEF LosePublish
  <2>. QED
    BY <1>5, <2>1, BoundAssumption DEF LosePublish, ClassroomTypeOK
<1>. QED
  BY <1>1, <1>2, <1>3, <1>4, <1>5 DEF FinishRequest

LEMMA SettledType ==
  ASSUME ClassroomTypeOK, NEW e, NEW status \in SyncStatus
  PROVE  /\ Settled(e, status) \in [Device -> DeviceRow \cup {None}]
         /\ \A d \in Device : Exists(d) => Settled(e, status)[d] # None
<1>1. ASSUME NEW d \in Device, Exists(d)
      PROVE  [devices[d] EXCEPT !.sync_status = status] \in DeviceRow
  BY <1>1, ExistsRow DEF DeviceRow
<1>2. ASSUME NEW d \in Device, Covered(d, e)
      PROVE  Exists(d)
  BY <1>2 DEF Covered
<1>. QED
  BY <1>1, <1>2, SentinelAssumption DEF Settled, ClassroomTypeOK, Exists

LEMMA SyncEventType ==
  ASSUME ClassroomTypeOK, RequestsOK, NEW e \in syncEvents, HandleSyncEvent(e)
  PROVE  ClassroomTypeOK' /\ RequestsOK'
<1>1. \/ \E status \in SyncStatus : devices' = Settled(e, status)
      \/ UNCHANGED devices
  BY Zenon DEF HandleSyncEvent, HandlePolicySyncCompleted, HandlePolicySyncFailed,
               HandleWithoutAck, RejectSyncEvent, SyncStatus
<1>2. /\ devices' \in [Device -> DeviceRow \cup {None}]
      /\ \A d \in Device : Exists(d) => devices'[d] # None
  BY <1>1, SettledType DEF ClassroomTypeOK, Exists
<1>3. /\ UNCHANGED <<classroomRouter, requests, requestsLeft, wanEvents>>
      /\ syncEvents' \subseteq syncEvents
      /\ faultsLeft' \in 0..MaxFaults
  BY BoundAssumption DEF HandleSyncEvent, HandlePolicySyncCompleted, HandlePolicySyncFailed,
               HandleWithoutAck, RejectSyncEvent, ClassroomTypeOK
<1>4. ClassroomTypeOK'
  BY <1>2, <1>3 DEF ClassroomTypeOK
<1>5. \A q \in Request : requests[q].device \in Device \cup {None}
  BY DEF ClassroomTypeOK, RequestState
<1>6. RequestsOK'
  BY <1>2, <1>3, <1>5 DEF RequestsOK, Exists
<1>. QED
  BY <1>4, <1>6

LEMMA ClassroomType ==
  ASSUME ClassroomTypeOK, RequestsOK, ClassroomNext
  PROVE  ClassroomTypeOK' /\ RequestsOK'
<1>1. ASSUME NEW d \in Device, NEW payload \in CreatePayload, InsertDevice(d, payload)
      PROVE  ClassroomTypeOK' /\ RequestsOK'
  BY <1>1, InsertType
<1>2. ASSUME NEW c \in Classroom, NEW r \in Router, UpdateClassroom(c, r)
      PROVE  ClassroomTypeOK' /\ RequestsOK'
  <2>1. ClassroomTypeOK'
    BY <1>2, BoundAssumption DEF UpdateClassroom, ClassroomTypeOK
  <2>2. RequestsOK'
    BY <1>2 DEF UpdateClassroom, RequestsOK, Exists
  <2>. QED
    BY <2>1, <2>2
<1>3. ASSUME NEW q \in Request, AcceptRequest(q)
      PROVE  ClassroomTypeOK' /\ RequestsOK'
  <2>1. LoadsSoundly(q)
    BY <1>3, AcceptSound
  <2>. QED
    BY <2>1, LoadType DEF LoadsSoundly
<1>4. ASSUME NEW q \in Request, FinishRequest(q)
      PROVE  ClassroomTypeOK' /\ RequestsOK'
  BY <1>4, FinishType
<1>5. ASSUME NEW e \in syncEvents, HandleSyncEvent(e)
      PROVE  ClassroomTypeOK' /\ RequestsOK'
  BY <1>5, SyncEventType
<1>. QED
  BY <1>1, <1>2, <1>3, <1>4, <1>5 DEF ClassroomNext

-----------------------------------------------------------------------------
(* So do the steps of a synchronisation.                                   *)

SyncTypeOK ==
  /\ sync \in [Router -> [Syncer -> SyncState]]
  /\ blocklist \in [Router -> SUBSET Address]

LEMMA SyncIdleType == SyncIdle \in SyncState
BY DEF SyncIdle, SyncState

LEMMA SyncUpdateType ==
  ASSUME SyncTypeOK, NEW r \in Router, NEW s \in Syncer, NEW x \in SyncState,
         sync' = [sync EXCEPT ![r][s] = x]
  PROVE  sync' \in [Router -> [Syncer -> SyncState]]
BY DEF SyncTypeOK

LEMMA DesiredType ==
  ASSUME ClassroomTypeOK, NEW r \in Router
  PROVE  /\ ScopeGenerations(r) \subseteq Nat
         /\ DesiredAddresses(r) \subseteq Address
<1>1. ASSUME NEW d \in Device, InScope(d, r)
      PROVE  devices[d].policy_generation \in Nat /\ devices[d].static_ip \in Address
  <2>1. devices[d] \in DeviceRow /\ devices[d].static_ip # None
    BY <1>1, ExistsRow DEF InScope
  <2>. QED
    BY <2>1 DEF DeviceRow
<1>. QED
  BY <1>1 DEF ScopeGenerations, DesiredAddresses

LEMMA WritesType ==
  ASSUME SyncTypeOK, NEW r \in Router, NEW s \in Syncer,
         NEW added \in SUBSET ToAdd(r, s), NEW removed,
         blocklist' = [blocklist EXCEPT ![r] = (@ \cup added) \ removed]
  PROVE  blocklist' \in [Router -> SUBSET Address]
<1>1. sync[r][s].blocked \subseteq Address
  BY DEF SyncTypeOK, SyncState
<1>2. added \subseteq Address
  BY <1>1 DEF ToAdd
<1>. QED
  BY <1>2 DEF SyncTypeOK

LEMMA SyncStepType ==
  ASSUME ClassroomTypeOK, RequestsOK, SyncTypeOK, NEW r \in Router, NEW s \in Syncer,
         SyncStep(r, s)
  PROVE  ClassroomTypeOK' /\ RequestsOK' /\ SyncTypeOK'
<1>0. sync[r][s] \in SyncState
  BY DEF SyncTypeOK
<1>1. CASE StartSync(r, s)
  <2>1. PICK g \in ScopeGenerations(r),
             trigger \in {NoTrigger} \cup {e.policy_generation : e \in wanEvents} :
          /\ Woken(r, s, trigger)
          /\ sync' = [sync EXCEPT ![r][s] =
               [SyncIdle EXCEPT !.phase = "counted", !.trigger = trigger, !.generation = g]]
    BY <1>1 DEF StartSync
  <2>2. trigger \in Nat \cup {NoTrigger} /\ g \in Nat
    BY <2>1, DesiredType DEF ClassroomTypeOK, WanEvent
  <2>3. [SyncIdle EXCEPT !.phase = "counted", !.trigger = trigger, !.generation = g]
          \in SyncState
    BY <2>2 DEF SyncIdle, SyncState
  <2>5. sync' \in [Router -> [Syncer -> SyncState]]
    BY <2>1, <2>3, SyncUpdateType
  <2>6. wanEvents' \subseteq wanEvents
    BY <2>1 DEF Woken, TakeTrigger
  <2>. QED
    BY <1>1, <2>5, <2>6 DEF StartSync, ClassroomTypeOK, RequestsOK, Exists, SyncTypeOK
<1>2. CASE ReadBlocked(r, s)
  <2>1. sync' = [sync EXCEPT ![r][s] =
                   [sync[r][s] EXCEPT !.phase = "desired", !.blocked = DesiredAddresses(r)]]
    BY <1>2 DEF ReadBlocked, SyncTypeOK
  <2>2. [sync[r][s] EXCEPT !.phase = "desired", !.blocked = DesiredAddresses(r)] \in SyncState
    BY <1>0, DesiredType DEF SyncState
  <2>3. sync' \in [Router -> [Syncer -> SyncState]]
    BY <2>1, <2>2, SyncUpdateType
  <2>. QED
    BY <1>2, <2>3 DEF ReadBlocked, classroomVars, ClassroomTypeOK, RequestsOK, Exists, SyncTypeOK
<1>3. CASE ReadCurrent(r, s)
  <2>1. sync' = [sync EXCEPT ![r][s] =
                   [sync[r][s] EXCEPT !.phase = "fetched", !.current = blocklist[r]]]
    BY <1>3 DEF ReadCurrent, SyncTypeOK
  <2>2. [sync[r][s] EXCEPT !.phase = "fetched", !.current = blocklist[r]] \in SyncState
    BY <1>0 DEF SyncState, SyncTypeOK
  <2>3. sync' \in [Router -> [Syncer -> SyncState]]
    BY <2>1, <2>2, SyncUpdateType
  <2>. QED
    BY <1>3, <2>3 DEF ReadCurrent, classroomVars, ClassroomTypeOK, RequestsOK, Exists, SyncTypeOK
<1>4. CASE Apply(r, s)
  <2>1. sync' = [sync EXCEPT ![r][s] = [sync[r][s] EXCEPT !.phase = "applied"]]
    BY <1>4 DEF Apply, SyncTypeOK
  <2>2. [sync[r][s] EXCEPT !.phase = "applied"] \in SyncState
    BY <1>0 DEF SyncState
  <2>3. sync' \in [Router -> [Syncer -> SyncState]]
    BY <2>1, <2>2, SyncUpdateType
  <2>4. blocklist' \in [Router -> SUBSET Address]
    BY <1>4, WritesType DEF Apply
  <2>. QED
    BY <1>4, <2>3, <2>4 DEF Apply, classroomVars, ClassroomTypeOK, RequestsOK, Exists, SyncTypeOK
<1>5. CASE PublishCompleted(r, s)
  <2>1. sync' \in [Router -> [Syncer -> SyncState]]
    BY <1>5, SyncUpdateType, SyncIdleType DEF PublishCompleted
  <2>2. [type |-> "completed", router_id |-> r,
         policy_generation |-> sync[r][s].generation] \in SyncEvent
    BY <1>0 DEF SyncState, SyncEvent
  <2>. QED
    BY <1>5, <2>1, <2>2 DEF PublishCompleted, ClassroomTypeOK, RequestsOK, Exists, SyncTypeOK
<1>. QED
  BY <1>1, <1>2, <1>3, <1>4, <1>5 DEF SyncStep

LEMMA SyncFaultType ==
  ASSUME ClassroomTypeOK, RequestsOK, SyncTypeOK, NEW r \in Router, NEW s \in Syncer,
         SyncFault(r, s)
  PROVE  ClassroomTypeOK' /\ RequestsOK' /\ SyncTypeOK'
<1>0. sync[r][s] \in SyncState
  BY DEF SyncTypeOK
<1>1. TriggerFailure(r, s) \subseteq SyncEvent
  BY <1>0 DEF TriggerFailure, SyncState, SyncEvent
<1>2. {[type |-> "failed", router_id |-> r, policy_generation |-> sync[r][s].generation]}
        \subseteq SyncEvent
  BY <1>0 DEF SyncState, SyncEvent
<1>3. PICK published \in SUBSET SyncEvent : EndByFault(r, s, published)
  <2>1. CASE FailApply(r, s)
    BY <1>1, <1>2, <2>1, Zenon DEF FailApply
  <2>2. CASE FailSync(r, s)
    BY <1>1, <2>2 DEF FailSync
  <2>3. CASE CrashSync(r, s)
    BY <2>3 DEF CrashSync
  <2>. QED
    BY <2>1, <2>2, <2>3 DEF SyncFault
<1>4. blocklist' \in [Router -> SUBSET Address]
  <2>1. PartialWrites(r, s) \/ UNCHANGED blocklist
    BY Zenon DEF SyncFault, FailApply, FailSync, CrashSync, MaybePartialWrites
  <2>2. CASE PartialWrites(r, s)
    BY <2>2, WritesType DEF PartialWrites
  <2>3. CASE UNCHANGED blocklist
    BY <2>3 DEF SyncTypeOK
  <2>. QED
    BY <2>1, <2>2, <2>3
<1>5. sync' \in [Router -> [Syncer -> SyncState]]
  BY <1>3, SyncUpdateType, SyncIdleType DEF EndByFault
<1>. QED
  BY <1>3, <1>4, <1>5, BoundAssumption
     DEF EndByFault, ClassroomTypeOK, RequestsOK, Exists, SyncTypeOK

-----------------------------------------------------------------------------

LEMMA InitType == Init => TypeOK /\ RequestsOK
<1>. SUFFICES ASSUME Init PROVE TypeOK /\ RequestsOK
  OBVIOUS
<1>1. ClassroomTypeOK
  BY IdleType, BoundAssumption DEF Init, ClassroomInit, ClassroomTypeOK
<1>2. RequestsOK
  BY IdleType DEF Init, ClassroomInit, RequestsOK
<1>3. SyncTypeOK
  BY SyncIdleType DEF Init, SyncTypeOK
<1>. QED
  BY <1>1, <1>2, <1>3 DEF TypeOK, SyncTypeOK

LEMMA NextType == TypeOK /\ RequestsOK /\ [Next]_vars => TypeOK' /\ RequestsOK'
<1>. SUFFICES ASSUME TypeOK, RequestsOK, [Next]_vars
              PROVE  ClassroomTypeOK' /\ RequestsOK' /\ SyncTypeOK'
  BY DEF TypeOK, SyncTypeOK
<1>0. ClassroomTypeOK /\ SyncTypeOK
  BY DEF TypeOK, SyncTypeOK
<1>1. CASE ClassroomNext /\ UNCHANGED <<sync, blocklist>>
  BY <1>0, <1>1, ClassroomType DEF SyncTypeOK
<1>2. ASSUME NEW r \in Router, NEW s \in Syncer, SyncStep(r, s) \/ SyncFault(r, s)
      PROVE  ClassroomTypeOK' /\ RequestsOK' /\ SyncTypeOK'
  BY <1>0, <1>2, SyncStepType, SyncFaultType
<1>3. ASSUME NEW e \in wanEvents, DropTrigger(e)
      PROVE  ClassroomTypeOK' /\ RequestsOK' /\ SyncTypeOK'
  BY <1>0, <1>3 DEF DropTrigger, ClassroomTypeOK, RequestsOK, Exists, SyncTypeOK
<1>4. CASE UNCHANGED vars
  BY <1>0, <1>4 DEF vars, classroomVars, ClassroomTypeOK, RequestsOK, Exists, SyncTypeOK
<1>. QED
  BY <1>1, <1>2, <1>3, <1>4 DEF Next

\* Rows, handlers in flight, events and synchronisations always have their types, for
\* any number of devices, routers, requests and faults.
THEOREM TypeCorrect == Spec => []TypeOK
<1>. QED
  BY InitType, NextType, PTL DEF Spec

-----------------------------------------------------------------------------
(* What a handler in flight is to write is what it decided on its own      *)
(* reading of the row, whatever the others do meanwhile.                   *)

LoadedSoundly ==
  \A q \in Request : requests[q].phase = "loaded" =>
    \A d \in Device : Sound(requests[q].read[d], requests[q].changes[d])

\* In one step a request is left alone, loads, or is no longer loaded.
RequestStep(q) ==
  \/ requests'[q] = requests[q]
  \/ requests'[q].phase # "loaded"
  \/ LoadsSoundly(q)

LEMMA AfterCommitPhase ==
  ASSUME NEW r
  PROVE  AfterCommit(r).phase # "loaded"
BY DEF AfterCommit, Idle

LEMMA FinishStep ==
  ASSUME ClassroomTypeOK, NEW p \in Request, FinishRequest(p), NEW q \in Request
  PROVE  RequestStep(q)
<1>1. PICK r : requests' = [requests EXCEPT ![p] = r] /\ r.phase # "loaded"
  <2>1. CASE Commit(p)
    BY <2>1, AfterCommitPhase DEF Commit
  <2>2. CASE Refresh(p)
    <3> DEFINE event == [router_id |-> EventRouter(p), policy_generation |->
                          devices[requests[p].device].policy_generation]
               r == [Idle EXCEPT !.phase = "publishing", !.event = event]
    <3>1. requests' = [requests EXCEPT ![p] = r]
      BY <2>2 DEF Refresh
    <3> HIDE DEF event
    <3>2. r.phase # "loaded"
      BY DEF Idle
    <3>. QED
      BY <3>1, <3>2
  <2>3. CASE Rollback(p) \/ Publish(p) \/ LosePublish(p)
    BY <2>3, IdleType DEF Rollback, Publish, LosePublish
  <2>. QED
    BY <2>1, <2>2, <2>3 DEF FinishRequest
<1>. QED
  BY <1>1 DEF RequestStep, ClassroomTypeOK

LEMMA AcceptStep ==
  ASSUME ClassroomTypeOK, NEW p \in Request, AcceptRequest(p), NEW q \in Request
  PROVE  RequestStep(q)
<1>1. LoadsSoundly(p)
  BY AcceptSound
<1>2. CASE p = q
  BY <1>1, <1>2 DEF RequestStep
<1>3. CASE p # q
  BY <1>1, <1>3 DEF LoadsSoundly, Load, RequestStep, ClassroomTypeOK
<1>. QED
  BY <1>2, <1>3

LEMMA SyncKeepsRows ==
  ASSUME NEW r \in Router, NEW s \in Syncer, SyncStep(r, s) \/ SyncFault(r, s)
  PROVE  UNCHANGED <<devices, requests>>
<1>1. CASE SyncStep(r, s)
  BY <1>1 DEF SyncStep, StartSync, ReadBlocked, ReadCurrent, Apply, PublishCompleted,
              classroomVars
<1>2. CASE SyncFault(r, s)
  <2>1. \E published : EndByFault(r, s, published)
    BY <1>2, Zenon DEF SyncFault, FailApply, FailSync, CrashSync
  <2>. QED
    BY <2>1 DEF EndByFault
<1>. QED
  BY <1>1, <1>2

LEMMA EveryRequestStep ==
  ASSUME TypeOK, [Next]_vars, NEW q \in Request
  PROVE  RequestStep(q)
<1>0. ClassroomTypeOK
  BY DEF TypeOK
<1>1. CASE ClassroomNext
  <2>1. ASSUME NEW d \in Device, NEW payload \in CreatePayload, InsertDevice(d, payload)
        PROVE  RequestStep(q)
    BY <2>1 DEF InsertDevice, RequestStep
  <2>2. ASSUME NEW c \in Classroom, NEW r \in Router, UpdateClassroom(c, r)
        PROVE  RequestStep(q)
    BY <2>2 DEF UpdateClassroom, RequestStep
  <2>3. ASSUME NEW p \in Request, AcceptRequest(p) \/ FinishRequest(p)
        PROVE  RequestStep(q)
    BY <1>0, <2>3, AcceptStep, FinishStep
  <2>4. ASSUME NEW e \in syncEvents, HandleSyncEvent(e)
        PROVE  RequestStep(q)
    BY <2>4 DEF HandleSyncEvent, HandlePolicySyncCompleted, HandlePolicySyncFailed,
                HandleWithoutAck, RejectSyncEvent, RequestStep
  <2>. QED
    BY <1>1, <2>1, <2>2, <2>3, <2>4 DEF ClassroomNext
<1>2. ASSUME NEW r \in Router, NEW s \in Syncer, SyncStep(r, s) \/ SyncFault(r, s)
      PROVE  RequestStep(q)
  BY <1>2, SyncKeepsRows DEF RequestStep
<1>3. ASSUME NEW e \in wanEvents, DropTrigger(e)
      PROVE  RequestStep(q)
  BY <1>3 DEF DropTrigger, RequestStep
<1>4. CASE UNCHANGED vars
  BY <1>4 DEF vars, classroomVars, RequestStep
<1>. QED
  BY <1>1, <1>2, <1>3, <1>4 DEF Next

LEMMA LoadedNext ==
  ASSUME TypeOK, LoadedSoundly, [Next]_vars
  PROVE  LoadedSoundly'
<1>. SUFFICES ASSUME NEW q \in Request, requests'[q].phase = "loaded", NEW d \in Device
              PROVE  Sound(requests'[q].read[d], requests'[q].changes[d])
  BY DEF LoadedSoundly
<1>1. CASE requests'[q] = requests[q]
  BY <1>1 DEF LoadedSoundly
<1>2. CASE LoadsSoundly(q)
  <2>1. PICK changes : /\ requests'[q].read = devices /\ requests'[q].changes = changes
                       /\ \A x \in Device : Sound(devices[x], changes[x])
    BY <1>2 DEF LoadsSoundly, Load, TypeOK, ClassroomTypeOK
  <2>. QED
    BY <2>1
<1>. QED
  BY <1>1, <1>2, EveryRequestStep DEF RequestStep

LEMMA InitLoaded == Init => LoadedSoundly
BY IdleType DEF Init, ClassroomInit, LoadedSoundly

LEMMA LoadedInvariant == Spec => [](TypeOK /\ LoadedSoundly)
<1>. QED
  BY InitType, NextType, InitLoaded, LoadedNext, PTL DEF Spec

-----------------------------------------------------------------------------
(* What a step does to a row.                                              *)

\* The columns that the rules are about.
SameColumns(old, new) ==
  /\ new.wan_allowed = old.wan_allowed /\ new.wan_protected = old.wan_protected
  /\ new.is_pinned = old.is_pinned /\ new.policy_generation = old.policy_generation

\* The state of row d is left alone, or the row is inserted, or a handler commits.
RowStep(d) ==
  \/ ~Exists(d) /\ ~Exists(d)'
  \/ Exists(d) /\ SameColumns(devices[d], devices'[d])
  \/ ~Exists(d) /\ \E payload \in Payload : devices'[d] = NewRow(payload)
  \/ \E q \in Request : Commit(q)

LEMMA UnchangedRow ==
  ASSUME NEW d, devices'[d] = devices[d]
  PROVE  RowStep(d)
BY DEF RowStep, SameColumns, Exists

LEMMA SettledRow ==
  ASSUME ClassroomTypeOK, NEW d \in Device, NEW e, NEW status,
         devices' = Settled(e, status)
  PROVE  RowStep(d)
<1>1. CASE Covered(d, e)
  <2>1. Exists(d) /\ devices[d] \in DeviceRow
    BY <1>1, ExistsRow DEF Covered
  <2>2. devices'[d] = [devices[d] EXCEPT !.sync_status = status]
    BY <1>1 DEF Settled
  <2>3. SameColumns(devices[d], devices'[d])
    BY <2>1, <2>2 DEF SameColumns, DeviceRow
  <2>. QED
    BY <2>1, <2>3 DEF RowStep
<1>2. CASE ~Covered(d, e)
  BY <1>2, UnchangedRow DEF Settled
<1>. QED
  BY <1>1, <1>2

LEMMA EveryRowStep ==
  ASSUME TypeOK, [Next]_vars, NEW d \in Device
  PROVE  RowStep(d)
<1>0. ClassroomTypeOK
  BY DEF TypeOK
<1>1. CASE ClassroomNext
  <2>1. ASSUME NEW x \in Device, NEW payload \in CreatePayload, InsertDevice(x, payload)
        PROVE  RowStep(d)
    <3>1. CASE x = d
      BY <1>0, <2>1, <3>1, PayloadAssumption DEF InsertDevice, RowStep, ClassroomTypeOK
    <3>2. CASE x # d
      BY <1>0, <2>1, <3>2, UnchangedRow DEF InsertDevice, ClassroomTypeOK
    <3>. QED
      BY <3>1, <3>2
  <2>2. ASSUME NEW c \in Classroom, NEW r \in Router, UpdateClassroom(c, r)
        PROVE  RowStep(d)
    BY <2>2, UnchangedRow DEF UpdateClassroom
  <2>3. ASSUME NEW q \in Request, AcceptRequest(q)
        PROVE  RowStep(d)
    <3>1. LoadsSoundly(q)
      BY <1>0, <2>3, AcceptSound
    <3>. QED
      BY <3>1, UnchangedRow DEF LoadsSoundly, Load
  <2>4. ASSUME NEW q \in Request, FinishRequest(q)
        PROVE  RowStep(d)
    <3>1. CASE Commit(q)
      BY <3>1 DEF RowStep
    <3>2. CASE Rollback(q) \/ Refresh(q) \/ Publish(q) \/ LosePublish(q)
      BY <3>2, UnchangedRow DEF Rollback, Refresh, Publish, LosePublish
    <3>. QED
      BY <2>4, <3>1, <3>2 DEF FinishRequest
  <2>5. ASSUME NEW e \in syncEvents, HandleSyncEvent(e)
        PROVE  RowStep(d)
    <3>1. \/ \E status : devices' = Settled(e, status)
          \/ UNCHANGED devices
      BY <2>5, Zenon DEF HandleSyncEvent, HandlePolicySyncCompleted, HandlePolicySyncFailed,
                         HandleWithoutAck, RejectSyncEvent
    <3>. QED
      BY <1>0, <3>1, SettledRow, UnchangedRow
  <2>. QED
    BY <1>1, <2>1, <2>2, <2>3, <2>4, <2>5 DEF ClassroomNext
<1>2. ASSUME NEW r \in Router, NEW s \in Syncer, SyncStep(r, s) \/ SyncFault(r, s)
      PROVE  RowStep(d)
  BY <1>2, SyncKeepsRows, UnchangedRow
<1>3. ASSUME NEW e \in wanEvents, DropTrigger(e)
      PROVE  RowStep(d)
  BY <1>3, UnchangedRow DEF DropTrigger
<1>4. CASE UNCHANGED vars
  BY <1>4, UnchangedRow DEF vars, classroomVars
<1>. QED
  BY <1>1, <1>2, <1>3, <1>4 DEF Next

-----------------------------------------------------------------------------
(* A commit writes what its handler decided, column by column: a column    *)
(* nobody changed meanwhile becomes that of the handler's target.          *)

\* The column was not changed since it was read, and becomes the target's.
Lands(read, old, new, target) == read = old => new = target

\* The row is left alone, or taken to a target that its handler's reading permits.
Decided(read, old, new) ==
  \/ SameColumns(old, new)
  \/ \E target \in DeviceRow :
       /\ read \in DeviceRow /\ Permitted(read, target)
       /\ Lands(read.wan_allowed, old.wan_allowed, new.wan_allowed, target.wan_allowed)
       /\ Lands(read.wan_protected, old.wan_protected, new.wan_protected,
                target.wan_protected)
       /\ Lands(read.is_pinned, old.is_pinned, new.is_pinned, target.is_pinned)
       /\ Lands(read.policy_generation, old.policy_generation, new.policy_generation,
                target.policy_generation)
       /\ new.wan_allowed # old.wan_allowed => target.wan_allowed # read.wan_allowed

LEMMA OverwrittenByChange ==
  ASSUME NEW old, NEW read, NEW target, target # Keep
  PROVE  /\ Lands(read, old, Overwritten(old, Changed(read, target)), target)
         /\ Overwritten(old, Changed(read, target)) # old => target # read
BY DEF Lands, Overwritten, Changed

LEMMA CommitDecided ==
  ASSUME TypeOK, LoadedSoundly, NEW q \in Request, Commit(q), NEW d \in Device, Exists(d)
  PROVE  Decided(requests[q].read[d], devices[d], devices'[d])
<1> DEFINE read == requests[q].read[d]
           change == requests[q].changes[d]
           old == devices[d]
<1>1. Sound(read, change)
  BY DEF Commit, LoadedSoundly
<1>2. devices'[d] = Written(old, change)
  BY DEF Commit
<1>3. old # None
  BY DEF Exists
<1> HIDE DEF read, change, old
<1>4. /\ Written(old, change).wan_allowed = Overwritten(old.wan_allowed, change.wan_allowed)
      /\ Written(old, change).wan_protected
           = Overwritten(old.wan_protected, change.wan_protected)
      /\ Written(old, change).is_pinned = Overwritten(old.is_pinned, change.is_pinned)
      /\ Written(old, change).policy_generation
           = Overwritten(old.policy_generation, change.policy_generation)
  BY <1>3 DEF Written
<1>5. CASE change = NoChange
  <2>1. SameColumns(old, Written(old, change))
    BY <1>4, <1>5 DEF SameColumns, Overwritten, NoChange
  <2>. QED
    BY <1>2, <2>1 DEF Decided, read, old
<1>6. ASSUME read \in DeviceRow, NEW target \in DeviceRow,
             change = Diff(read, target), Permitted(read, target)
      PROVE  Decided(read, old, Written(old, change))
  <2>1. /\ target.wan_allowed # Keep /\ target.wan_protected # Keep
        /\ target.is_pinned # Keep /\ target.policy_generation # Keep
    BY SentinelAssumption DEF DeviceRow
  <2>2. /\ change.wan_allowed = Changed(read.wan_allowed, target.wan_allowed)
        /\ change.wan_protected = Changed(read.wan_protected, target.wan_protected)
        /\ change.is_pinned = Changed(read.is_pinned, target.is_pinned)
        /\ change.policy_generation
             = Changed(read.policy_generation, target.policy_generation)
    BY <1>6 DEF Diff
  <2> DEFINE new == Written(old, change)
  <2>3. /\ Lands(read.wan_allowed, old.wan_allowed, new.wan_allowed, target.wan_allowed)
        /\ new.wan_allowed # old.wan_allowed => target.wan_allowed # read.wan_allowed
    BY <1>4, <2>1, <2>2, OverwrittenByChange
  <2>4. Lands(read.wan_protected, old.wan_protected, new.wan_protected, target.wan_protected)
    BY <1>4, <2>1, <2>2, OverwrittenByChange
  <2>5. Lands(read.is_pinned, old.is_pinned, new.is_pinned, target.is_pinned)
    BY <1>4, <2>1, <2>2, OverwrittenByChange
  <2>6. Lands(read.policy_generation, old.policy_generation, new.policy_generation,
              target.policy_generation)
    BY <1>4, <2>1, <2>2, OverwrittenByChange
  <2> HIDE DEF new
  <2>7. Decided(read, old, new)
    BY <1>6, <2>3, <2>4, <2>5, <2>6 DEF Decided
  <2>. QED
    BY <2>7 DEF new
<1>. QED
  BY <1>1, <1>2, <1>5, <1>6 DEF Sound, read, old

LEMMA CommitKeepsAbsent ==
  ASSUME NEW q \in Request, Commit(q), NEW d \in Device, ~Exists(d)
  PROVE  ~Exists(d)'
BY DEF Commit, Exists, Written

-----------------------------------------------------------------------------
(* The rules of the devices table.                                         *)

LEMMA ProtectedRow ==
  ASSUME NEW read, NEW old, NEW new, Decided(read, old, new),
         read.wan_allowed = old.wan_allowed, read.wan_protected = old.wan_protected,
         ProtectedIsAllowed(old)
  PROVE  ProtectedIsAllowed(new)
<1>1. CASE SameColumns(old, new)
  BY <1>1, Zenon DEF SameColumns, ProtectedIsAllowed
<1>2. CASE ~SameColumns(old, new)
  <2>1. PICK target \in DeviceRow :
          /\ Permitted(read, target)
          /\ new.wan_allowed = target.wan_allowed /\ new.wan_protected = target.wan_protected
    BY <1>2, Zenon DEF Decided, Lands
  <2>2. ProtectedIsAllowed(read)
    BY Zenon DEF ProtectedIsAllowed
  <2>. QED
    BY <2>1, <2>2, Zenon DEF Permitted, ProtectedIsAllowed
<1>. QED
  BY <1>1, <1>2

\* With any number of requests in flight, lost and repeated results and crashes, a
\* protected device becomes a blocked one only by the commit of a handler whose row
\* was changed, in state or protection, after it read it.
THEOREM ProtectionHolds == Spec => ProtectedUnlessStale
<1> DEFINE Step(d) ==
      ~ProtectedBlocked(d) /\ ProtectedBlocked(d)'
      => \E q \in Request : Commit(q) /\ (StaleState(q, d) \/ StaleProtection(q, d))
<1>1. ASSUME TypeOK, LoadedSoundly, [Next]_vars, NEW d \in Device
      PROVE  Step(d)
  <2> SUFFICES ASSUME ~ProtectedBlocked(d), ProtectedBlocked(d)'
               PROVE  \E q \in Request :
                        Commit(q) /\ (StaleState(q, d) \/ StaleProtection(q, d))
    OBVIOUS
  <2>1. /\ Exists(d)' /\ ~ProtectedIsAllowed(devices'[d])
        /\ Exists(d) => ProtectedIsAllowed(devices[d])
    BY Zenon DEF ProtectedBlocked, ProtectedIsAllowed
  <2>2. RowStep(d)
    BY <1>1, EveryRowStep
  <2>3. ~(Exists(d) /\ SameColumns(devices[d], devices'[d]))
    BY <2>1, Zenon DEF SameColumns, ProtectedIsAllowed
  <2>4. ASSUME NEW payload \in Payload PROVE devices'[d] # NewRow(payload)
    BY <2>1, NewRowType
  <2>5. PICK q \in Request : Commit(q)
    BY <2>1, <2>2, <2>3, <2>4 DEF RowStep
  <2>6. Exists(d)
    BY <2>1, <2>5, CommitKeepsAbsent
  <2>7. Decided(requests[q].read[d], devices[d], devices'[d])
    BY <1>1, <2>5, <2>6, CommitDecided
  <2>8. StaleState(q, d) \/ StaleProtection(q, d)
    BY <2>1, <2>6, <2>7, ProtectedRow DEF StaleState, StaleProtection
  <2>. QED
    BY <2>5, <2>8
<1>2. TypeOK /\ LoadedSoundly /\ [Next]_vars => \A d \in Device : Step(d)
  BY <1>1
<1>3. TypeOK /\ LoadedSoundly /\ [Next]_vars => [\A d \in Device : Step(d)]_vars
  BY <1>2
<1>. QED
  BY <1>3, LoadedInvariant, PTL DEF Spec, ProtectedUnlessStale

LEMMA PinnedRow ==
  ASSUME NEW read, NEW old, NEW new, Decided(read, old, new),
         read.wan_allowed = old.wan_allowed, read.is_pinned = old.is_pinned,
         BlockedIsPinned(old)
  PROVE  BlockedIsPinned(new)
<1>1. CASE SameColumns(old, new)
  BY <1>1, Zenon DEF SameColumns, BlockedIsPinned
<1>2. CASE ~SameColumns(old, new)
  <2>1. PICK target \in DeviceRow :
          /\ Permitted(read, target)
          /\ new.wan_allowed = target.wan_allowed /\ new.is_pinned = target.is_pinned
    BY <1>2, Zenon DEF Decided, Lands
  <2>2. BlockedIsPinned(read)
    BY Zenon DEF BlockedIsPinned
  <2>. QED
    BY <2>1, <2>2, Zenon DEF Permitted, BlockedIsPinned
<1>. QED
  BY <1>1, <1>2

\* With the same in flight, a device of the table becomes blocked without being pinned
\* only by the commit of a handler whose row was changed, in state or pin, after it
\* read it.
THEOREM PinHolds == Spec => PinnedUnlessStale
<1> DEFINE Step(d) ==
      Exists(d) /\ ~BlockedUnpinned(d) /\ BlockedUnpinned(d)'
      => \E q \in Request : Commit(q) /\ (StaleState(q, d) \/ StalePin(q, d))
<1>1. ASSUME TypeOK, LoadedSoundly, [Next]_vars, NEW d \in Device
      PROVE  Step(d)
  <2> SUFFICES ASSUME Exists(d), ~BlockedUnpinned(d), BlockedUnpinned(d)'
               PROVE  \E q \in Request : Commit(q) /\ (StaleState(q, d) \/ StalePin(q, d))
    OBVIOUS
  <2>1. ~BlockedIsPinned(devices'[d]) /\ BlockedIsPinned(devices[d])
    BY Zenon DEF BlockedUnpinned, BlockedIsPinned
  <2>2. RowStep(d)
    BY <1>1, EveryRowStep
  <2>3. ~SameColumns(devices[d], devices'[d])
    BY <2>1, Zenon DEF SameColumns, BlockedIsPinned
  <2>4. PICK q \in Request : Commit(q)
    BY <2>2, <2>3 DEF RowStep
  <2>5. Decided(requests[q].read[d], devices[d], devices'[d])
    BY <1>1, <2>4, CommitDecided
  <2>6. StaleState(q, d) \/ StalePin(q, d)
    BY <2>1, <2>5, PinnedRow DEF StaleState, StalePin
  <2>. QED
    BY <2>4, <2>6
<1>2. TypeOK /\ LoadedSoundly /\ [Next]_vars => \A d \in Device : Step(d)
  BY <1>1
<1>3. TypeOK /\ LoadedSoundly /\ [Next]_vars => [\A d \in Device : Step(d)]_vars
  BY <1>2
<1>. QED
  BY <1>3, LoadedInvariant, PTL DEF Spec, PinnedUnlessStale

LEMMA GrownRow ==
  ASSUME NEW read, NEW old, NEW new, Decided(read, old, new),
         read.policy_generation = old.policy_generation, read.is_pinned = old.is_pinned,
         old.is_pinned, new.wan_allowed # old.wan_allowed
  PROVE  old.policy_generation < new.policy_generation
<1>1. ~SameColumns(old, new)
  BY Zenon DEF SameColumns
<1>2. PICK target \in DeviceRow :
        /\ read \in DeviceRow /\ Permitted(read, target)
        /\ new.policy_generation = target.policy_generation
        /\ target.wan_allowed # read.wan_allowed
  BY <1>1, Zenon DEF Decided, Lands
<1>3. target.wan_allowed \in BOOLEAN /\ read.wan_allowed \in BOOLEAN
  BY <1>2 DEF DeviceRow
<1>4. ~(target.wan_allowed <=> read.wan_allowed)
  BY <1>2, <1>3, Zenon
<1>5. read.is_pinned
  BY Zenon
<1>6. read.policy_generation < target.policy_generation
  BY <1>2, <1>4, <1>5, Zenon DEF Permitted, Grows
<1>. QED
  BY <1>2, <1>6

\* With the same in flight, a change of the WAN state of a pinned device raises its
\* generation, unless the commit that makes it read another generation or pin.
THEOREM GenerationHolds == Spec => GrowsUnlessStale
<1> DEFINE Step(d) ==
      /\ Exists(d)
      /\ devices[d].is_pinned /\ devices'[d].is_pinned
      /\ devices'[d].wan_allowed # devices[d].wan_allowed
      /\ devices'[d].policy_generation <= devices[d].policy_generation
      => \E q \in Request : Commit(q) /\ (StaleGeneration(q, d) \/ StalePin(q, d))
<1>1. ASSUME TypeOK, TypeOK', LoadedSoundly, [Next]_vars, NEW d \in Device
      PROVE  Step(d)
  <2> SUFFICES ASSUME Exists(d), devices[d].is_pinned,
                      devices'[d].wan_allowed # devices[d].wan_allowed,
                      devices'[d].policy_generation <= devices[d].policy_generation
               PROVE  \E q \in Request :
                        Commit(q) /\ (StaleGeneration(q, d) \/ StalePin(q, d))
    OBVIOUS
  <2>1. PICK q \in Request : Commit(q)
    BY <1>1, EveryRowStep DEF RowStep, SameColumns
  <2>2. Decided(requests[q].read[d], devices[d], devices'[d])
    BY <1>1, <2>1, CommitDecided
  <2>3. devices[d] \in DeviceRow
    BY <1>1, ExistsRow DEF TypeOK
  <2>4. devices'[d] \in DeviceRow
    <3>1. requests[q].changes[d] \in RowChange
      BY <1>1 DEF TypeOK, ClassroomTypeOK, RequestState
    <3>. QED
      BY <2>1, <2>3, <3>1, WrittenType DEF Commit
  <2>5. devices[d].policy_generation \in Nat /\ devices'[d].policy_generation \in Nat
    BY <2>3, <2>4 DEF DeviceRow
  <2>6. ~(devices[d].policy_generation < devices'[d].policy_generation)
    BY <2>5
  <2>7. SUFFICES ASSUME ~StaleGeneration(q, d), ~StalePin(q, d)
                 PROVE  FALSE
    BY <2>1
  <2>. QED
    BY <2>2, <2>6, <2>7, GrownRow DEF StaleGeneration, StalePin
<1>2. TypeOK /\ TypeOK' /\ LoadedSoundly /\ [Next]_vars => \A d \in Device : Step(d)
  BY <1>1
<1>3. TypeOK /\ TypeOK' /\ LoadedSoundly /\ [Next]_vars => [\A d \in Device : Step(d)]_vars
  BY <1>2
<1>. QED
  BY <1>3, LoadedInvariant, PTL DEF Spec, GrowsUnlessStale
=============================================================================
