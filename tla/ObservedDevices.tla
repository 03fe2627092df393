---------------------------- MODULE ObservedDevices ----------------------------
(***************************************************************************)
(* inventory-service's table of the devices observed on one router: the    *)
(* consumer of lease snapshots, which takes one message at a time          *)
(* (prefetch 1), and the deletion of rows by their ids.                    *)
(***************************************************************************)
EXTENDS Leases

VARIABLES
  observed,        \* the rows by MAC (unique per router)
  nextId,          \* the sequence of their ids
  inventoryQueue,  \* snapshots not yet delivered
  applying         \* the snapshot in the handler, and the rows it found

inventoryVars == <<observed, nextId, inventoryQueue, applying>>

ObservedRow ==
  [id: Nat, active_ip: Address \cup {None}, dynamic: BOOLEAN \cup {None},
   active: BOOLEAN, last_seen_at: Nat]
Applying == [snapshot: Snapshot, found: SUBSET (Mac \X ObservedRow)]

InitInventory ==
  /\ observed = [m \in Mac |-> None]
  /\ nextId = 1
  /\ inventoryQueue = <<>>
  /\ applying = None

-----------------------------------------------------------------------------
(* Applying a snapshot.                                                    *)

Present(rows) == {m \in Mac : rows[m] # None}

\* Mutant: missing rows stay as they are.
MissingNever(leases) == {}

\* Rows that a snapshot without them marks: an empty one marks nothing.
Missing(leases) ==
  IF leases = <<>> THEN {}
  ELSE {m \in Present(observed) \ SeenMacs(leases) : observed[m].active}

\* The SELECTs of the handler; its writes follow at the commit.
HandleDhcpLeasesObserved ==
  /\ applying = None /\ inventoryQueue # <<>>
  /\ LET snapshot == Head(inventoryQueue)
         touched == (SeenMacs(snapshot.leases) \cap Present(observed))
                      \cup Missing(snapshot.leases)
     IN  applying' = [snapshot |-> snapshot,
                      found |-> {<<m, observed[m]>> : m \in touched}]
  /\ inventoryQueue' = Tail(inventoryQueue)
  /\ UNCHANGED <<observed, nextId>>

Gone(f) == ~(observed[f[1]] # None /\ observed[f[1]].id = f[2].id)

IsFound(found, m) == \E f \in found : f[1] = m

\* last_seen_at is set by an insert, and by an update from an active lease.
AsSeen(snapshot, m, row) ==
  LET lease == LastLease(snapshot.leases, m)
      isActive == \E i \in DOMAIN snapshot.leases :
                    snapshot.leases[i].mac = m /\ snapshot.leases[i].active
  IN  IF m \in SeenMacs(snapshot.leases)
      THEN [id |-> row.id, active_ip |-> lease.active_ip, dynamic |-> lease.dynamic,
            active |-> lease.active,
            last_seen_at |-> IF isActive THEN snapshot.at ELSE row.last_seen_at]
      ELSE [row EXCEPT !.active = FALSE]

Inserted(snapshot, m) ==
  LET lease == LastLease(snapshot.leases, m)
  IN  [id |-> nextId, active_ip |-> lease.active_ip, dynamic |-> lease.dynamic,
       active |-> lease.active, last_seen_at |-> snapshot.at]

Saved(snapshot, found, m) ==
  IF IsFound(found, m)
  THEN IF observed[m] = None THEN None ELSE AsSeen(snapshot, m, observed[m])
  ELSE IF m \in SeenMacs(snapshot.leases) THEN Inserted(snapshot, m) ELSE observed[m]

\* An UPDATE of a row that is gone fails, and everything with it; a row of which
\* no column differs has none.  Names and raw answers, which are left out, may differ.
\* Ids are handed out in any order; rows of one snapshot may share the next one
\* here, since an id is only ever compared for one MAC.
Save ==
  LET snapshot == applying.snapshot
      found == applying.found
  IN  \/ /\ \E f \in found : Gone(f)
         /\ UNCHANGED <<observed, nextId>>
      \/ /\ \A f \in found : Gone(f) => AsSeen(snapshot, f[1], f[2]) = f[2]
         /\ observed' = [m \in Mac |-> Saved(snapshot, found, m)]
         /\ nextId' = IF \E m \in SeenMacs(snapshot.leases) : ~IsFound(found, m)
                      THEN nextId + 1 ELSE nextId

SaveLeases ==
  /\ applying # None
  /\ Save
  /\ applying' = None
  /\ UNCHANGED inventoryQueue

\* The process dies before the commit, or before the acknowledgement: the
\* snapshot is the first one delivered again.
CrashInventory ==
  /\ applying # None
  /\ Save \/ UNCHANGED <<observed, nextId>>
  /\ inventoryQueue' = <<applying.snapshot>> \o inventoryQueue
  /\ applying' = None

\* The handler raises: requeue=False.
RejectSnapshot ==
  /\ applying # None
  /\ applying' = None
  /\ UNCHANGED <<observed, nextId, inventoryQueue>>

-----------------------------------------------------------------------------
(* Deletion, by ids that the gateway read before.                          *)

DeleteObservedDevices(ids) ==
  /\ observed' = [m \in Mac |->
                    IF observed[m] # None /\ observed[m].id \in ids
                    THEN None ELSE observed[m]]
  /\ UNCHANGED <<nextId, inventoryQueue, applying>>
=============================================================================
