--------------------------- MODULE LeaseFlow_proofs ---------------------------
(***************************************************************************)
(* Proofs about LeaseFlow, for any leases, handlers and bounds: the types, *)
(* the history that ends with the row, durations that a change of the      *)
(* other state leaves alone, and reports that tell what the history tells. *)
(***************************************************************************)
EXTENDS LeaseFlow, WellFoundedInduction, FiniteSetTheorems, SequenceTheorems, TLAPS

-----------------------------------------------------------------------------
(* Least and greatest numbers.                                             *)

LEMMA LeastNumber ==
  ASSUME NEW T \in SUBSET Nat, T # {}
  PROVE  \E n \in T : \A m \in T : n <= m
<1> DEFINE R == OpToRel(<, Nat)
<1>1. IsWellFoundedOn(R, Nat)
  BY NatLessThanWellFounded
<1>2. \A x, y \in Nat : y < x => <<y, x>> \in R
  BY DEF OpToRel
<1> HIDE DEF R
<1>3. PICK x \in T : \A y \in T : ~ (<<y, x>> \in R)
  BY <1>1, WFMin
<1>4. \A y \in T : y \in Nat /\ x \in Nat /\ ~(y < x)
  BY <1>2, <1>3
<1>. QED
  BY <1>3, <1>4

LEMMA GreatestNumber ==
  ASSUME NEW n \in Nat, NEW T \in SUBSET (1..n), T # {}
  PROVE  \E i \in T : \A j \in T : j <= i
<1> DEFINE D == {k \in Nat : n - k \in T}
<1>1. D \in SUBSET Nat /\ D # {}
  <2>1. PICK i \in T : TRUE
    OBVIOUS
  <2>2. n - i \in Nat /\ n - (n - i) = i
    OBVIOUS
  <2>. QED
    BY <2>1, <2>2
<1>2. PICK k \in D : \A m \in D : k <= m
  BY <1>1, LeastNumber
<1>3. \A j \in T : n - j \in D
  OBVIOUS
<1>. QED
  BY <1>2, <1>3

-----------------------------------------------------------------------------
(* What the poller publishes.                                              *)

\* What the loop over the table does with lease n.
Published(t, n, before) ==
  IF NormalizeDhcpLease(t[n]).mac = None THEN before
  ELSE Append(before, NormalizeDhcpLease(t[n]))

\* The lists that the loop has after each of the first n leases.
IsLoop(f, t, n) ==
  /\ f \in [0..n -> Seq(Lease)]
  /\ f[0] = <<>>
  /\ \A i \in 1..n : f[i] = Published(t, i, f[i - 1])

LEMMA NormalizedType ==
  ASSUME NEW raw \in RawLease, NormalizeDhcpLease(raw).mac # None
  PROVE  NormalizeDhcpLease(raw) \in Lease
<1>1. /\ NormalizeDhcpLease(raw).mac \in Mac
      /\ NormalizeDhcpLease(raw).active_ip \in Address \cup {None}
  BY DEF NormalizeDhcpLease, GetFirstPresent, RawLease
<1>2. NormalizeDhcpLease(raw).dynamic \in BOOLEAN \cup {None}
  BY DEF NormalizeDhcpLease, ParseRouterosBool, RawLease, Flag
<1>3. NormalizeDhcpLease(raw).active \in BOOLEAN
  BY Zenon DEF NormalizeDhcpLease
<1>4. PICK a, b, c, d :
        NormalizeDhcpLease(raw) = [mac |-> a, active_ip |-> b, dynamic |-> c, active |-> d]
  BY DEF NormalizeDhcpLease
<1>5. /\ NormalizeDhcpLease(raw).mac = a /\ NormalizeDhcpLease(raw).active_ip = b
      /\ NormalizeDhcpLease(raw).dynamic = c /\ NormalizeDhcpLease(raw).active = d
  BY <1>4
<1>. QED
  BY <1>1, <1>2, <1>3, <1>4, <1>5 DEF Lease

LEMMA PublishedType ==
  ASSUME NEW t \in Seq(RawLease), NEW n \in 1..Len(t), NEW before \in Seq(Lease)
  PROVE  Published(t, n, before) \in Seq(Lease)
<1>1. t[n] \in RawLease
  OBVIOUS
<1>2. NormalizeDhcpLease(t[n]).mac # None => NormalizeDhcpLease(t[n]) \in Lease
  BY <1>1, NormalizedType
<1>. QED
  BY <1>2 DEF Published

LEMMA LoopGoesOn ==
  ASSUME NEW t \in Seq(RawLease), NEW n \in 1..Len(t), NEW g, IsLoop(g, t, n - 1)
  PROVE  \E f : IsLoop(f, t, n)
<1> DEFINE last == Published(t, n, g[n - 1])
           f == [i \in 0..n |-> IF i = n THEN last ELSE g[i]]
<1>1. g \in [0..(n - 1) -> Seq(Lease)]
  BY DEF IsLoop
<1>2. last \in Seq(Lease)
  <2>1. g[n - 1] \in Seq(Lease)
    BY <1>1
  <2>. QED
    BY <2>1, PublishedType
<1> HIDE DEF last
<1>3. f \in [0..n -> Seq(Lease)] /\ f[0] = <<>>
  BY <1>1, <1>2 DEF IsLoop
<1>4. \A i \in 1..n : f[i] = Published(t, i, f[i - 1])
  <2> TAKE i \in 1..n
  <2>1. CASE i = n
    <3>1. f[i] = last /\ f[i - 1] = g[n - 1]
      BY <2>1
    <3>. QED
      BY <2>1, <3>1 DEF last
  <2>2. CASE i # n
    <3>1. f[i] = g[i] /\ f[i - 1] = g[i - 1] /\ i \in 1..(n - 1)
      BY <2>2
    <3>. QED
      BY <3>1 DEF IsLoop
  <2>. QED
    BY <2>1, <2>2
<1> HIDE DEF f
<1>. QED
  BY <1>3, <1>4 DEF IsLoop

LEMMA LoopExists ==
  ASSUME NEW t \in Seq(RawLease)
  PROVE  \A n \in 0..Len(t) : \E f : IsLoop(f, t, n)
<1> DEFINE T == {n \in 0..Len(t) : ~\E f : IsLoop(f, t, n)}
<1>1. T \in SUBSET Nat
  OBVIOUS
<1>2. \A n \in 0..Len(t) : n \in T <=> ~\E f : IsLoop(f, t, n)
  OBVIOUS
<1>3. \A n \in T : n \in 0..Len(t)
  OBVIOUS
<1> HIDE DEF T
<1>4. ASSUME T # {} PROVE FALSE
  <2>1. PICK n \in T : \A m \in T : n <= m
    BY <1>1, <1>4, LeastNumber
  <2>2. n \in 0..Len(t) /\ ~\E f : IsLoop(f, t, n)
    BY <1>2, <1>3, <2>1
  <2>3. n # 0
    <3>1. IsLoop([i \in 0..0 |-> <<>>], t, 0)
      BY DEF IsLoop
    <3>. QED
      BY <2>2, <3>1
  <2>4. n \in 1..Len(t) /\ n - 1 \in 0..Len(t) /\ n - 1 \notin T
    BY <2>1, <2>2, <2>3
  <2>5. \E f : IsLoop(f, t, n - 1)
    BY <1>2, <2>4
  <2>. QED
    BY <2>2, <2>4, <2>5, LoopGoesOn
<1>. QED
  BY <1>2, <1>4

LEMMA PublishedLeases ==
  ASSUME NEW t \in Seq(RawLease)
  PROVE  GetDhcpLeases(t) \in Seq(Lease)
<1> DEFINE Normalized(n) == NormalizeDhcpLease(t[n])
           Loop(f) == [n \in 0..Len(t) |->
             IF n = 0 THEN <<>>
             ELSE IF Normalized(n).mac = None THEN f[n - 1]
             ELSE Append(f[n - 1], Normalized(n))]
           leases == CHOOSE f : f = Loop(f)
<1>1. GetDhcpLeases(t) = leases[Len(t)]
  BY DEF GetDhcpLeases
<1>2. \E f : f = Loop(f)
  <2>1. PICK f : IsLoop(f, t, Len(t))
    BY LoopExists
  <2>2. ASSUME NEW n \in 0..Len(t) PROVE f[n] = Loop(f)[n]
    <3>1. CASE n = 0
      BY <2>1, <3>1 DEF IsLoop
    <3>2. CASE n # 0
      <4>1. n \in 1..Len(t)
        BY <3>2
      <4>2. f[n] = Published(t, n, f[n - 1])
        BY <2>1, <4>1 DEF IsLoop
      <4>. QED
        BY <3>2, <4>2 DEF Published
    <3>. QED
      BY <3>1, <3>2
  <2>3. f = [n \in 0..Len(t) |-> f[n]]
    BY <2>1 DEF IsLoop
  <2>4. f = Loop(f)
    BY <2>2, <2>3
  <2>. QED
    BY <2>4
<1>3. leases = Loop(leases)
  BY <1>2, Zenon
<1>4. /\ leases[0] = <<>>
      /\ \A n \in 1..Len(t) : leases[n] = Published(t, n, leases[n - 1])
  <2>1. \A n \in 0..Len(t) : leases[n] = Loop(leases)[n]
    BY <1>3, Zenon
  <2> HIDE DEF leases
  <2>. QED
    BY <2>1 DEF Published
<1> HIDE DEF leases
<1> DEFINE T == {n \in 0..Len(t) : leases[n] \notin Seq(Lease)}
<1>5. T \in SUBSET Nat
  OBVIOUS
<1>6. \A n \in 0..Len(t) : n \in T <=> leases[n] \notin Seq(Lease)
  OBVIOUS
<1>7. \A n \in T : n \in 0..Len(t)
  OBVIOUS
<1> HIDE DEF T, Loop, Normalized
<1>8. ASSUME T # {} PROVE FALSE
  <2>1. PICK n \in T : \A m \in T : n <= m
    BY <1>5, <1>8, LeastNumber
  <2>2. n \in 0..Len(t) /\ leases[n] \notin Seq(Lease)
    BY <1>6, <1>7, <2>1
  <2>3. n # 0
    <3>1. <<>> \in Seq(Lease)
      OBVIOUS
    <3>. QED
      BY <1>4, <2>2, <3>1
  <2>4. n \in 1..Len(t) /\ n - 1 \in 0..Len(t) /\ n - 1 \notin T
    BY <2>1, <2>2, <2>3
  <2>5. leases[n - 1] \in Seq(Lease)
    BY <1>6, <2>4
  <2>. QED
    BY <1>4, <2>2, <2>4, <2>5, PublishedType
<1>. QED
  BY <1>1, <1>6, <1>8

LEMMA LastLeaseType ==
  ASSUME NEW leases \in Seq(Lease), NEW m \in SeenMacs(leases)
  PROVE  LastLease(leases, m) \in Lease
<1> DEFINE T == {i \in DOMAIN leases : leases[i].mac = m}
<1>1. T \in SUBSET (1..Len(leases)) /\ T # {}
  BY DEF SeenMacs
<1>2. PICK i \in T : \A j \in T : j <= i
  <2>1. Len(leases) \in Nat
    OBVIOUS
  <2> HIDE DEF T
  <2>. QED
    BY <1>1, <2>1, GreatestNumber
<1>3. \E k \in DOMAIN leases :
        /\ leases[k].mac = m
        /\ \A j \in DOMAIN leases : leases[j].mac = m => j <= k
  BY <1>2
<1> DEFINE last == CHOOSE k \in DOMAIN leases :
                     /\ leases[k].mac = m
                     /\ \A j \in DOMAIN leases : leases[j].mac = m => j <= k
<1>4. last \in DOMAIN leases
  BY <1>3
<1>5. LastLease(leases, m) = leases[last]
  BY DEF LastLease
<1> HIDE DEF last
<1>. QED
  BY <1>4, <1>5

-----------------------------------------------------------------------------
(* Types: inventory-service.                                               *)

InventoryTypeOK ==
  /\ observed \in [Mac -> ObservedRow \cup {None}]
  /\ nextId \in Nat
  /\ inventoryQueue \in Seq(Snapshot)
  /\ applying \in Applying \cup {None}

LEMMA LeaseFields ==
  ASSUME NEW snapshot \in Snapshot, NEW m \in SeenMacs(snapshot.leases)
  PROVE  /\ LastLease(snapshot.leases, m).active_ip \in Address \cup {None}
         /\ LastLease(snapshot.leases, m).dynamic \in BOOLEAN \cup {None}
         /\ LastLease(snapshot.leases, m).active \in BOOLEAN
         /\ snapshot.at \in Nat
<1>1. snapshot.leases \in Seq(Lease) /\ snapshot.at \in Nat
  BY DEF Snapshot
<1>2. LastLease(snapshot.leases, m) \in Lease
  BY <1>1, LastLeaseType
<1>. QED
  BY <1>1, <1>2 DEF Lease

LEMMA AsSeenType ==
  ASSUME NEW snapshot \in Snapshot, NEW m \in Mac, NEW row \in ObservedRow
  PROVE  AsSeen(snapshot, m, row) \in ObservedRow
<1>1. CASE m \in SeenMacs(snapshot.leases)
  <2> DEFINE lease == LastLease(snapshot.leases, m)
             isActive == \E i \in DOMAIN snapshot.leases :
                           snapshot.leases[i].mac = m /\ snapshot.leases[i].active
             seen == IF isActive THEN snapshot.at ELSE row.last_seen_at
  <2>1. AsSeen(snapshot, m, row) =
          [id |-> row.id, active_ip |-> lease.active_ip, dynamic |-> lease.dynamic,
           active |-> lease.active, last_seen_at |-> seen]
    BY <1>1 DEF AsSeen
  <2>2. /\ lease.active_ip \in Address \cup {None} /\ lease.dynamic \in BOOLEAN \cup {None}
        /\ lease.active \in BOOLEAN /\ snapshot.at \in Nat
    BY <1>1, LeaseFields
  <2> HIDE DEF lease, isActive
  <2>3. row.id \in Nat /\ seen \in Nat
    BY <2>2 DEF ObservedRow
  <2> HIDE DEF seen
  <2>. QED
    BY <2>1, <2>2, <2>3 DEF ObservedRow
<1>2. CASE m \notin SeenMacs(snapshot.leases)
  BY <1>2 DEF AsSeen, ObservedRow
<1>. QED
  BY <1>1, <1>2

LEMMA InsertedType ==
  ASSUME InventoryTypeOK, NEW snapshot \in Snapshot, NEW m \in SeenMacs(snapshot.leases)
  PROVE  Inserted(snapshot, m) \in ObservedRow
<1> DEFINE lease == LastLease(snapshot.leases, m)
<1>1. Inserted(snapshot, m) =
        [id |-> nextId, active_ip |-> lease.active_ip, dynamic |-> lease.dynamic,
         active |-> lease.active, last_seen_at |-> snapshot.at]
  BY DEF Inserted
<1>2. /\ lease.active_ip \in Address \cup {None} /\ lease.dynamic \in BOOLEAN \cup {None}
      /\ lease.active \in BOOLEAN /\ snapshot.at \in Nat
  BY LeaseFields
<1> HIDE DEF lease
<1>. QED
  BY <1>1, <1>2 DEF InventoryTypeOK, ObservedRow

LEMMA SavedType ==
  ASSUME InventoryTypeOK, NEW snapshot \in Snapshot, NEW found, NEW m \in Mac
  PROVE  Saved(snapshot, found, m) \in ObservedRow \cup {None}
<1>1. observed[m] \in ObservedRow \cup {None}
  BY DEF InventoryTypeOK
<1>2. CASE IsFound(found, m)
  BY <1>1, <1>2, AsSeenType DEF Saved
<1>3. CASE ~IsFound(found, m)
  BY <1>1, <1>3, InsertedType DEF Saved
<1>. QED
  BY <1>2, <1>3

LEMMA SaveType ==
  ASSUME InventoryTypeOK, applying # None, Save
  PROVE  observed' \in [Mac -> ObservedRow \cup {None}] /\ nextId' \in Nat
<1>1. applying.snapshot \in Snapshot
  BY DEF InventoryTypeOK, Applying
<1>2. CASE UNCHANGED <<observed, nextId>>
  BY <1>2 DEF InventoryTypeOK
<1>3. CASE /\ observed' = [m \in Mac |-> Saved(applying.snapshot, applying.found, m)]
           /\ nextId' \in {nextId, nextId + 1}
  <2>1. \A m \in Mac : Saved(applying.snapshot, applying.found, m) \in ObservedRow \cup {None}
    BY <1>1, SavedType
  <2>. QED
    BY <1>3, <2>1 DEF InventoryTypeOK
<1>. QED
  BY <1>2, <1>3 DEF Save

LEMMA TakeSnapshotType ==
  ASSUME InventoryTypeOK, HandleDhcpLeasesObserved
  PROVE  InventoryTypeOK'
<1> DEFINE snapshot == Head(inventoryQueue)
           touched == (SeenMacs(snapshot.leases) \cap Present(observed))
                        \cup Missing(snapshot.leases)
           found == {<<m, observed[m]>> : m \in touched}
<1>1. snapshot \in Snapshot /\ Tail(inventoryQueue) \in Seq(Snapshot)
  BY DEF InventoryTypeOK, HandleDhcpLeasesObserved
<1>2. touched \subseteq Present(observed)
  BY DEF Missing
<1>3. \A m \in Present(observed) : m \in Mac /\ observed[m] \in ObservedRow
  BY DEF InventoryTypeOK, Present
<1> HIDE DEF touched
<1>4. found \in SUBSET (Mac \X ObservedRow)
  BY <1>2, <1>3
<1>5. applying' = [snapshot |-> snapshot, found |-> found]
  BY DEF HandleDhcpLeasesObserved, touched
<1> HIDE DEF snapshot, found
<1>6. applying' \in Applying
  BY <1>1, <1>4, <1>5 DEF Applying
<1>. QED
  BY <1>1, <1>6 DEF HandleDhcpLeasesObserved, InventoryTypeOK, snapshot

LEMMA InventoryStepType ==
  ASSUME InventoryTypeOK, SaveLeases \/ CrashInventory \/ RejectSnapshot
  PROVE  InventoryTypeOK'
<1>1. CASE SaveLeases
  BY <1>1, SaveType DEF SaveLeases, InventoryTypeOK
<1>2. CASE CrashInventory
  <2>1. applying.snapshot \in Snapshot
    BY <1>2 DEF CrashInventory, InventoryTypeOK, Applying
  <2>2. <<applying.snapshot>> \o inventoryQueue \in Seq(Snapshot)
    BY <2>1 DEF InventoryTypeOK
  <2>3. observed' \in [Mac -> ObservedRow \cup {None}] /\ nextId' \in Nat
    BY <1>2, SaveType DEF CrashInventory, InventoryTypeOK
  <2>. QED
    BY <1>2, <2>2, <2>3 DEF CrashInventory, InventoryTypeOK
<1>3. CASE RejectSnapshot
  BY <1>3 DEF RejectSnapshot, InventoryTypeOK
<1>. QED
  BY <1>1, <1>2, <1>3

LEMMA DeleteType ==
  ASSUME InventoryTypeOK, NEW ids, DeleteObservedDevices(ids)
  PROVE  InventoryTypeOK'
BY DEF DeleteObservedDevices, InventoryTypeOK

-----------------------------------------------------------------------------
(* Types: the statistics.  A row that was read is never gone.              *)

StatisticsTypeOK ==
  /\ now \in 0..MaxChanges
  /\ device \in [pinned: BOOLEAN, wan: WanState]
  /\ current \in StateRow \cup {None}
  /\ history \in Seq(Event)
  /\ dhcpQueue \in Seq(Snapshot) /\ wanQueue \in Seq(WanMessage)
  /\ handling \in [Handler -> Handling \cup {None}]
  /\ overlapped \in BOOLEAN
  /\ \A h \in Handler :
       handling[h] # None /\ handling[h].step = "state" /\ handling[h].read # None
         => current # None

LEMMA MessageType ==
  ASSUME NEW m \in Message
  PROVE  /\ m.at \in Nat
         /\ IsSnapshot(m) => m \in Snapshot
         /\ ~IsSnapshot(m) => m \in WanMessage
BY DEF Message, Snapshot, WanMessage, IsSnapshot

LEMMA HandlingType ==
  ASSUME StatisticsTypeOK, NEW h \in Handler, handling[h] # None
  PROVE  /\ handling[h].message \in Message
         /\ handling[h].step = "device" => handling[h].wan \in WanState
         /\ handling[h].step = "state" =>
              handling[h].read \in StateRow \cup {None} /\ handling[h].next \in StateRow
BY DEF StatisticsTypeOK, Handling

LEMMA TakeType ==
  ASSUME StatisticsTypeOK, NEW h \in Handler, NEW m \in Message, Take(h, m)
  PROVE  /\ handling' \in [Handler -> Handling \cup {None}]
         /\ overlapped' \in BOOLEAN
<1>1. overlapped' \in BOOLEAN
  BY Zenon DEF Take
<1>2. [step |-> "device", message |-> m, wan |-> device.wan] \in Handling
  BY DEF Handling, StatisticsTypeOK
<1>. QED
  BY <1>1, <1>2 DEF Take, StatisticsTypeOK

LEMMA ServeType ==
  ASSUME StatisticsTypeOK, NEW h \in Handler,
         HandleDhcpStatistics(h) \/ HandleWanStatistics(h)
  PROVE  StatisticsTypeOK'
<1>1. CASE HandleDhcpStatistics(h)
  <2>1. Head(dhcpQueue) \in Message /\ Tail(dhcpQueue) \in Seq(Snapshot)
    BY <1>1 DEF HandleDhcpStatistics, StatisticsTypeOK, Message
  <2>. QED
    BY <1>1, <2>1, TakeType DEF HandleDhcpStatistics, StatisticsTypeOK, Take, tables
<1>2. CASE HandleWanStatistics(h)
  <2>1. Head(wanQueue) \in Message /\ Tail(wanQueue) \in Seq(WanMessage)
    BY <1>2 DEF HandleWanStatistics, StatisticsTypeOK, Message
  <2>. QED
    BY <1>2, <2>1, TakeType DEF HandleWanStatistics, StatisticsTypeOK, Take, tables
<1>. QED
  BY <1>1, <1>2

LEMMA NextStateType ==
  ASSUME StatisticsTypeOK, NEW m \in Message, NEW wan \in WanState
  PROVE  NextState(m, wan) \in StateRow
<1> DEFINE on == IF IsSnapshot(m) THEN Online(m.leases) ELSE current # None /\ current.online
<1>1. on \in BOOLEAN
  BY Zenon DEF Online
<1>2. m.at \in Nat
  BY MessageType
<1>3. NextState(m, wan) = [online |-> on, wan |-> wan, at |-> m.at]
  BY DEF NextState
<1> HIDE DEF on
<1>. QED
  BY <1>1, <1>2, <1>3 DEF StateRow

LEMMA ReadStateType ==
  ASSUME StatisticsTypeOK, NEW h \in Handler, ReadState(h)
  PROVE  StatisticsTypeOK'
<1> DEFINE m == handling[h].message
           next == NextState(m, handling[h].wan)
<1>1. m \in Message /\ handling[h].wan \in WanState
  BY HandlingType DEF ReadState
<1>2. next \in StateRow
  BY <1>1, NextStateType
<1> HIDE DEF next
<1>3. [step |-> "state", message |-> m, read |-> current, next |-> next] \in Handling
  BY <1>1, <1>2 DEF Handling, StatisticsTypeOK
<1>4. handling' \in {[handling EXCEPT ![h] = None],
        [handling EXCEPT ![h] = [step |-> "state", message |-> m, read |-> current, next |-> next]]}
  BY DEF ReadState, next
<1> HIDE DEF m
<1>5. handling' \in [Handler -> Handling \cup {None}]
  BY <1>3, <1>4 DEF StatisticsTypeOK
<1>. QED
  BY <1>5 DEF ReadState, StatisticsTypeOK, tables

\* What an UPDATE leaves is a row, and the new one where nobody else wrote.
LEMMA UpdatedRow ==
  ASSUME NEW row \in StateRow, NEW read \in StateRow, NEW next \in StateRow
  PROVE  Updated(row, read, next) \in StateRow /\ (row = read => Updated(row, read, next) = next)
<1> DEFINE u == Updated(row, read, next)
<1>1. DOMAIN row = {"online", "wan", "at"}
  BY DEF StateRow
<1>2. u = [column \in {"online", "wan", "at"} |->
             IF next[column] # read[column] THEN next[column] ELSE row[column]]
  BY <1>1 DEF Updated
<1>3. /\ u["online"] \in BOOLEAN /\ u["wan"] \in WanState /\ u["at"] \in Nat
      /\ row = read => u["online"] = next["online"] /\ u["wan"] = next["wan"] /\ u["at"] = next["at"]
  BY <1>2 DEF StateRow
<1>4. u = [online |-> u["online"], wan |-> u["wan"], at |-> u["at"]]
  BY <1>2
<1>5. next = [online |-> next["online"], wan |-> next["wan"], at |-> next["at"]]
  BY DEF StateRow
<1> HIDE DEF u
<1>6. u \in StateRow
  BY <1>3, <1>4 DEF StateRow
<1>7. row = read => u = next
  BY <1>3, <1>4, <1>5
<1>. QED
  BY <1>6, <1>7 DEF u

LEMMA StoreType ==
  ASSUME StatisticsTypeOK, NEW read \in StateRow \cup {None}, NEW next \in StateRow,
         read # None => current # None, Store(read, next)
  PROVE  /\ current' \in StateRow /\ history' \in Seq(Event)
<1>0. None \notin StateRow
  BY LeaseFlowAssumption
<1>1. CASE read = None /\ current # None
  BY <1>1 DEF Store, tables, StatisticsTypeOK
<1>2. CASE ~(read = None /\ current # None)
  <2>1. current' \in StateRow
    <3>1. CASE read = None
      BY <1>2, <3>1 DEF Store
    <3>2. CASE read # None
      BY <1>2, <3>2, UpdatedRow DEF Store, StatisticsTypeOK
    <3>. QED
      BY <3>1, <3>2
  <2>2. [at |-> next.at, online |-> next.online, wan |-> next.wan] \in Event
    BY DEF StateRow, Event
  <2> DEFINE e == [at |-> next.at, online |-> next.online, wan |-> next.wan]
  <2>3. history' = IF IsChange(read, next) THEN Append(history, e) ELSE history
    BY <1>2 DEF Store
  <2> HIDE DEF e
  <2>. QED
    BY <2>1, <2>2, <2>3 DEF StatisticsTypeOK, e
<1>. QED
  BY <1>1, <1>2

LEMMA HandlerFinishes ==
  ASSUME StatisticsTypeOK, NEW h \in Handler, handling' = [handling EXCEPT ![h] = None],
         \/ UNCHANGED tables
         \/ /\ handling[h] # None /\ handling[h].step = "state"
            /\ Store(handling[h].read, handling[h].next)
  PROVE  /\ current' \in StateRow \cup {None} /\ history' \in Seq(Event)
         /\ handling' \in [Handler -> Handling \cup {None}]
         /\ \A g \in Handler :
              handling'[g] # None /\ handling'[g].step = "state" /\ handling'[g].read # None
                => current' # None
<1>1. /\ current' \in StateRow \cup {None} /\ history' \in Seq(Event)
      /\ current # None => current' # None
  <2>1. CASE UNCHANGED tables
    BY <2>1 DEF tables, StatisticsTypeOK
  <2>2. CASE /\ handling[h] # None /\ handling[h].step = "state"
             /\ Store(handling[h].read, handling[h].next)
    <3>1. /\ handling[h].read \in StateRow \cup {None} /\ handling[h].next \in StateRow
          /\ handling[h].read # None => current # None
      BY <2>2, HandlingType DEF StatisticsTypeOK
    <3>. QED
      BY <2>2, <3>1, StoreType, LeaseFlowAssumption
  <2>. QED
    BY <2>1, <2>2
<1>2. \A g \in Handler : handling'[g] = IF g = h THEN None ELSE handling[g]
  BY DEF StatisticsTypeOK
<1>. QED
  BY <1>1, <1>2 DEF StatisticsTypeOK

LEMMA HandlerEndsType ==
  ASSUME StatisticsTypeOK, NEW h \in Handler,
         Commit(h) \/ CrashStatistics(h) \/ RejectMessage(h)
  PROVE  StatisticsTypeOK'
<1>1. handling[h] # None /\ handling' = [handling EXCEPT ![h] = None]
  BY DEF Commit, CrashStatistics, RejectMessage
<1>2. \/ UNCHANGED tables
      \/ /\ handling[h] # None /\ handling[h].step = "state"
         /\ Store(handling[h].read, handling[h].next)
  BY <1>1 DEF Commit, CrashStatistics, RejectMessage
<1>3. dhcpQueue' \in Seq(Snapshot) /\ wanQueue' \in Seq(WanMessage)
  <2>1. CASE UNCHANGED <<dhcpQueue, wanQueue>>
    BY <2>1 DEF StatisticsTypeOK
  <2>2. CASE CrashStatistics(h)
    <3> DEFINE m == handling[h].message
    <3>1. m \in Message /\ (IsSnapshot(m) => m \in Snapshot) /\ (~IsSnapshot(m) => m \in WanMessage)
      BY <1>1, HandlingType, MessageType
    <3>2. \/ m \in Snapshot /\ dhcpQueue' = <<m>> \o dhcpQueue /\ wanQueue' = wanQueue
          \/ m \in WanMessage /\ wanQueue' = <<m>> \o wanQueue /\ dhcpQueue' = dhcpQueue
      BY <2>2, <3>1 DEF CrashStatistics, Redeliver
    <3>3. dhcpQueue \in Seq(Snapshot) /\ wanQueue \in Seq(WanMessage)
      BY DEF StatisticsTypeOK
    <3> HIDE DEF m
    <3>4. CASE m \in Snapshot /\ dhcpQueue' = <<m>> \o dhcpQueue /\ wanQueue' = wanQueue
      <4>1. <<m>> \in Seq(Snapshot)
        BY <3>4
      <4>. QED
        BY <3>3, <3>4, <4>1
    <3>5. CASE m \in WanMessage /\ wanQueue' = <<m>> \o wanQueue /\ dhcpQueue' = dhcpQueue
      <4>1. <<m>> \in Seq(WanMessage)
        BY <3>5
      <4>. QED
        BY <3>3, <3>5, <4>1
    <3>. QED
      BY <3>2, <3>4, <3>5
  <2>. QED
    BY <2>1, <2>2 DEF Commit, RejectMessage
<1>4. now' = now /\ device' = device /\ overlapped' = overlapped
  BY DEF Commit, CrashStatistics, RejectMessage
<1>. QED
  BY <1>1, <1>2, <1>3, <1>4, HandlerFinishes DEF StatisticsTypeOK

-----------------------------------------------------------------------------
(* Types: the rest.                                                        *)

FlowTypeOK ==
  /\ table \in Tables
  /\ poll \in [table: Tables] \cup {None}
  /\ request \in GatewayRequest \cup {None}
  /\ extrasLeft \in 0..MaxExtras

Types == InventoryTypeOK /\ StatisticsTypeOK /\ FlowTypeOK

LEMMA SameInventory ==
  ASSUME InventoryTypeOK, UNCHANGED inventoryVars
  PROVE  InventoryTypeOK'
BY DEF InventoryTypeOK, inventoryVars

LEMMA SameStatistics ==
  ASSUME StatisticsTypeOK, UNCHANGED statisticsVars
  PROVE  StatisticsTypeOK'
BY DEF StatisticsTypeOK, statisticsVars, tables

LEMMA ExtraType ==
  ASSUME FlowTypeOK, Extra \/ UNCHANGED extrasLeft
  PROVE  extrasLeft' \in 0..MaxExtras
BY LeaseFlowAssumption DEF FlowTypeOK, Extra

LEMMA PollerType ==
  ASSUME Types, RouterAnswers \/ Publish \/ PollFails
  PROVE  Types'
<1>1. CASE RouterAnswers
  <2>1. FlowTypeOK'
    BY <1>1 DEF RouterAnswers, Types, FlowTypeOK
  <2>. QED
    BY <1>1, <2>1, SameInventory, SameStatistics DEF RouterAnswers, Types
<1>2. CASE Publish
  <2>1. poll.table \in Seq(RawLease)
    BY <1>2, LeaseFlowAssumption DEF Publish, Types, FlowTypeOK
  <2>2. GetDhcpLeases(poll.table) \in Seq(Lease)
    BY <2>1, PublishedLeases
  <2>3. LeasesObserved \in Snapshot
    BY <2>2 DEF LeasesObserved, Snapshot, Types, StatisticsTypeOK
  <2>4. InventoryTypeOK'
    BY <1>2, <2>3 DEF Publish, Types, InventoryTypeOK
  <2>5. StatisticsTypeOK'
    BY <1>2, <2>3 DEF Publish, Types, StatisticsTypeOK, tables
  <2>6. FlowTypeOK'
    BY <1>2 DEF Publish, Types, FlowTypeOK
  <2>. QED
    BY <2>4, <2>5, <2>6 DEF Types
<1>3. CASE PollFails
  <2>1. FlowTypeOK'
    BY <1>3, ExtraType DEF PollFails, Types, FlowTypeOK
  <2>. QED
    BY <1>3, <2>1, SameInventory, SameStatistics DEF PollFails, Types
<1>. QED
  BY <1>1, <1>2, <1>3

LEMMA ChangeType ==
  ASSUME Types, LeasesChange \/ (\E wan \in WanState : WanStateChanges(wan)) \/ Unpin
  PROVE  Types'
<1>0. Change => now' \in 0..MaxChanges /\ now + 1 \in Nat
  BY LeaseFlowAssumption DEF Types, StatisticsTypeOK, Change
<1>1. CASE LeasesChange
  <2>1. StatisticsTypeOK'
    BY <1>0, <1>1 DEF LeasesChange, Types, StatisticsTypeOK, tables
  <2>2. FlowTypeOK'
    BY <1>1 DEF LeasesChange, Types, FlowTypeOK
  <2>. QED
    BY <1>1, <2>1, <2>2, SameInventory DEF LeasesChange, Types
<1>2. ASSUME NEW wan \in WanState, WanStateChanges(wan) PROVE Types'
  <2>1. [at |-> now + 1] \in WanMessage
    BY <1>0, <1>2 DEF WanStateChanges, WanMessage
  <2> DEFINE message == [at |-> now + 1]
  <2>2. wanQueue' = wanQueue \/ wanQueue' = Append(wanQueue, message)
    BY <1>2 DEF WanStateChanges
  <2>3. wanQueue' \in Seq(WanMessage)
    <3>1. message \in WanMessage /\ wanQueue \in Seq(WanMessage)
      BY <2>1 DEF Types, StatisticsTypeOK
    <3> HIDE DEF message
    <3>. QED
      BY <2>2, <3>1
  <2>4. device' \in [pinned: BOOLEAN, wan: WanState]
    BY <1>2 DEF WanStateChanges, Types, StatisticsTypeOK
  <2>5. StatisticsTypeOK'
    BY <1>0, <1>2, <2>3, <2>4 DEF WanStateChanges, Types, StatisticsTypeOK, tables
  <2>6. Extra \/ UNCHANGED extrasLeft
    BY <1>2 DEF WanStateChanges
  <2>7. FlowTypeOK'
    BY <1>2, <2>6, ExtraType DEF WanStateChanges, Types, FlowTypeOK
  <2>. QED
    BY <1>2, <2>5, <2>7, SameInventory DEF WanStateChanges, Types
<1>3. CASE Unpin
  <2>1. device' \in [pinned: BOOLEAN, wan: WanState]
    BY <1>3, LeaseFlowAssumption DEF Unpin
  <2>2. StatisticsTypeOK'
    BY <1>0, <1>3, <2>1 DEF Unpin, Types, StatisticsTypeOK, tables
  <2>3. FlowTypeOK'
    BY <1>3 DEF Unpin, Types, FlowTypeOK, flowVars
  <2>. QED
    BY <1>3, <2>2, <2>3, SameInventory DEF Unpin, Types
<1>. QED
  BY <1>1, <1>2, <1>3

LEMMA DecidedType ==
  ASSUME InventoryTypeOK, NEW op \in {"delete", "cleanup", "pin"}
  PROVE  Decided(op) \subseteq GatewayRequest
<1>1. CASE op = "pin"
  BY <1>1 DEF Decided, GatewayRequest
<1>2. CASE op \in {"delete", "cleanup"}
  <2>1. ASSUME NEW ids \in IdsToDelete(op) PROVE ids \in SUBSET Nat
    <3>1. PICK macs \in SUBSET Mac : ids = IdsOf(macs) /\ \A m \in macs : Deletable(m)
      <4>1. CASE op = "delete"
        <5>1. PICK m \in Mac : Deletable(m) /\ ids = IdsOf({m})
          BY <2>1, <4>1 DEF IdsToDelete
        <5>. QED
          BY <5>1
      <4>2. CASE op # "delete"
        <5>1. ids = IdsOf({m \in Mac : Deletable(m)})
          BY <2>1, <4>2 DEF IdsToDelete
        <5>. QED
          BY <5>1
      <4>. QED
        BY <4>1, <4>2
    <3>2. \A m \in macs : observed[m].id \in Nat
      BY <3>1 DEF Deletable, InventoryTypeOK, ObservedRow
    <3>. QED
      BY <3>1, <3>2 DEF IdsOf
  <2>2. \A r \in Decided(op) : \E ids \in IdsToDelete(op) :
          r = [op |-> op, step |-> "observed", ids |-> ids]
    BY <1>2 DEF Decided
  <2>. QED
    BY <1>2, <2>1, <2>2 DEF GatewayRequest
<1>. QED
  BY <1>1, <1>2

LEMMA GatewayType ==
  ASSUME Types, Gateway
  PROVE  Types'
<1>1. ASSUME NEW op \in {"delete", "cleanup", "pin"}, ReadLayout(op) PROVE Types'
  <2>1. request' \in GatewayRequest
    BY <1>1 DEF ReadLayout, GatewayRequest, Types, StatisticsTypeOK
  <2>2. FlowTypeOK'
    BY <1>1, <2>1, ExtraType DEF ReadLayout, Types, FlowTypeOK
  <2>. QED
    BY <1>1, <2>2, SameInventory, SameStatistics DEF ReadLayout, Types
<1>2. CASE ReadObserved
  <2>1. request.op \in {"delete", "cleanup", "pin"}
    BY <1>2 DEF ReadObserved, Types, FlowTypeOK, GatewayRequest
  <2>2. request' \in GatewayRequest \cup {None}
    BY <1>2, <2>1, DecidedType DEF ReadObserved, Types
  <2>3. FlowTypeOK'
    BY <1>2, <2>2 DEF ReadObserved, Types, FlowTypeOK
  <2>. QED
    BY <1>2, <2>3, SameInventory, SameStatistics DEF ReadObserved, Types
<1>3. CASE DeleteObserved
  <2>1. FlowTypeOK'
    BY <1>3 DEF DeleteObserved, Types, FlowTypeOK
  <2>. QED
    BY <1>3, <2>1, DeleteType, SameStatistics DEF DeleteObserved, Types
<1>4. ASSUME NEW wan \in {"allowed", "protected"}, PinObserved(wan) PROVE Types'
  <2>1. device' \in [pinned: BOOLEAN, wan: WanState]
    <3>1. device \in [pinned: BOOLEAN, wan: WanState] /\ wan \in WanState
      BY LeaseFlowAssumption DEF Types, StatisticsTypeOK
    <3>2. CASE device.pinned
      BY <1>4, <3>1, <3>2 DEF PinObserved
    <3>3. CASE ~device.pinned
      <4>1. [pinned |-> TRUE, wan |-> wan] \in [pinned: BOOLEAN, wan: WanState]
        BY <3>1, Zenon
      <4>. QED
        BY <1>4, <3>3, <4>1 DEF PinObserved
    <3>. QED
      BY <3>2, <3>3
  <2>2. now' = now
    BY <1>4 DEF PinObserved
  <2>3. StatisticsTypeOK'
    BY <1>4, <2>1, <2>2 DEF PinObserved, Types, StatisticsTypeOK, tables
  <2>4. FlowTypeOK'
    BY <1>4 DEF PinObserved, Types, FlowTypeOK
  <2>. QED
    BY <1>4, <2>3, <2>4, SameInventory DEF PinObserved, Types
<1>. QED
  BY <1>1, <1>2, <1>3, <1>4 DEF Gateway

LEMMA ConsumersType ==
  ASSUME Types,
         ApplySnapshot \/ ServeDhcp \/ ServeWan \/ Fault \/ \E h \in Handler : FinishStatistics(h)
  PROVE  Types'
<1>1. CASE ApplySnapshot
  <2>1. InventoryTypeOK'
    BY <1>1, TakeSnapshotType, InventoryStepType DEF ApplySnapshot, Types
  <2>2. FlowTypeOK'
    BY <1>1 DEF ApplySnapshot, Types, FlowTypeOK, flowVars
  <2>. QED
    BY <1>1, <2>1, <2>2, SameStatistics DEF ApplySnapshot, Types
<1>2. CASE ServeDhcp \/ ServeWan
  <2>1. PICK h \in Handler : (HandleDhcpStatistics(h) \/ HandleWanStatistics(h)) /\ AloneOrExtra
    BY <1>2 DEF ServeDhcp, ServeWan
  <2>2. FlowTypeOK'
    BY <2>1, ExtraType DEF AloneOrExtra, Types, FlowTypeOK
  <2>. QED
    BY <2>1, <2>2, ServeType, SameInventory DEF AloneOrExtra, Types
<1>3. ASSUME NEW h \in Handler, FinishStatistics(h) PROVE Types'
  <2>1. StatisticsTypeOK'
    BY <1>3, ReadStateType, HandlerEndsType DEF FinishStatistics, HandlerStep, Types
  <2>2. FlowTypeOK'
    BY <1>3 DEF FinishStatistics, Types, FlowTypeOK, flowVars
  <2>. QED
    BY <1>3, <2>1, <2>2, SameInventory DEF FinishStatistics, Types
<1>4. CASE Fault
  <2>1. FlowTypeOK'
    BY <1>4, ExtraType DEF Fault, Types, FlowTypeOK
  <2>2. InventoryTypeOK' /\ StatisticsTypeOK'
    <3>1. CASE (CrashInventory \/ RejectSnapshot) /\ UNCHANGED statisticsVars
      BY <3>1, InventoryStepType, SameStatistics DEF Types
    <3>2. ASSUME NEW h \in Handler, CrashStatistics(h) \/ RejectMessage(h),
                 UNCHANGED inventoryVars
          PROVE  InventoryTypeOK' /\ StatisticsTypeOK'
      BY <3>2, HandlerEndsType, SameInventory DEF Types
    <3>. QED
      BY <1>4, <3>1, <3>2 DEF Fault
  <2>. QED
    BY <2>1, <2>2 DEF Types
<1>. QED
  BY <1>1, <1>2, <1>3, <1>4

LEMMA InitTypes == Init => Types
<1> SUFFICES ASSUME Init PROVE Types
  OBVIOUS
<1>1. InventoryTypeOK
  BY DEF Init, InitInventory, InventoryTypeOK
<1>2. StatisticsTypeOK
  <2>1. \A h \in Handler : handling[h] = None
    BY DEF Init, InitStatistics
  <2>2. device \in [pinned: BOOLEAN, wan: WanState]
    BY LeaseFlowAssumption DEF Init, InitStatistics
  <2>3. now \in 0..MaxChanges
    BY LeaseFlowAssumption DEF Init, InitStatistics
  <2>4. /\ current = None /\ history = <<>> /\ dhcpQueue = <<>> /\ wanQueue = <<>>
        /\ handling \in [Handler -> Handling \cup {None}] /\ overlapped = FALSE
    BY DEF Init, InitStatistics
  <2>5. <<>> \in Seq(Event) /\ <<>> \in Seq(Snapshot) /\ <<>> \in Seq(WanMessage)
    OBVIOUS
  <2>. QED
    BY <2>1, <2>2, <2>3, <2>4, <2>5, Zenon DEF StatisticsTypeOK
<1>3. FlowTypeOK
  BY LeaseFlowAssumption DEF Init, FlowTypeOK
<1>. QED
  BY <1>1, <1>2, <1>3 DEF Types

LEMMA NextTypes == Types /\ [Next]_vars => Types'
<1> SUFFICES ASSUME Types, [Next]_vars PROVE Types'
  OBVIOUS
<1>1. CASE UNCHANGED vars
  <2>1. FlowTypeOK'
    BY <1>1 DEF vars, flowVars, Types, FlowTypeOK
  <2>. QED
    BY <1>1, <2>1, SameInventory, SameStatistics DEF vars, Types
<1>. QED
  BY <1>1, PollerType, ChangeType, GatewayType, ConsumersType DEF Next

LEMMA TypesInvariant == Spec => []Types
BY InitTypes, NextTypes, PTL DEF Spec

\* Every variable keeps its type, for any leases: snapshots, rows, messages and requests
\* are complete in whatever order they are written, handled, lost and delivered again.
THEOREM TypeCorrect == Spec => []TypeOK
<1>1. Types => TypeOK
  BY DEF Types, InventoryTypeOK, StatisticsTypeOK, FlowTypeOK, TypeOK
<1>. QED
  BY <1>1, TypesInvariant, PTL

-----------------------------------------------------------------------------
(* The history that ends with the row.  As long as handlers did not        *)
(* overlap, what a handler read is what the row tells, and no event is     *)
(* later than the row.                                                     *)

OneAtWork == \A g, h \in Handler : handling[g] # None /\ handling[h] # None => g = h

ReadIsCurrent ==
  \A h \in Handler :
    handling[h] # None /\ handling[h].step = "state" =>
      /\ handling[h].read = current
      /\ current # None => handling[h].next.at >= current.at

RowIsLatest == current # None => \A i \in DOMAIN history : history[i].at <= current.at

EndsWithRow ==
  /\ current = None <=> history = <<>>
  /\ current # None => LastEvent.online = current.online /\ LastEvent.wan = current.wan

InStep == ~overlapped => OneAtWork /\ ReadIsCurrent /\ RowIsLatest /\ EndsWithRow

\* An event that no other is later than goes to the end of the order.
LEMMA AppendIsLatest ==
  ASSUME NEW events \in Seq(Event), NEW e \in Event,
         \A i \in DOMAIN events : events[i].at <= e.at
  PROVE  LET appended == Append(events, e) IN
         /\ \A i \in DOMAIN events : Precedes(appended, i, Len(events) + 1)
         /\ Latest(appended, DOMAIN appended) = Len(events) + 1
<1> DEFINE appended == Append(events, e)
           n == Len(events) + 1
           IsLatest(i) == \A j \in DOMAIN appended \ {i} : Precedes(appended, j, i)
<1>1. /\ DOMAIN appended = 1..n /\ DOMAIN events = 1..(n - 1) /\ n \in Nat \ {0}
      /\ appended[n] = e
      /\ \A i \in 1..(n - 1) : appended[i] = events[i]
  OBVIOUS
<1>2. \A i \in DOMAIN events : events[i] \in Event
  OBVIOUS
<1>3. \A event \in Event : event.at \in Nat
  BY DEF Event
<1> HIDE DEF appended, n
<1>4. ASSUME NEW i \in 1..(n - 1)
      PROVE  Precedes(appended, i, n) /\ ~Precedes(appended, n, i)
  <2>1. appended[i].at \in Nat /\ e.at \in Nat /\ appended[i].at <= e.at
    BY <1>1, <1>2, <1>3
  <2>. QED
    BY <1>1, <2>1 DEF Precedes
<1>5. n \in DOMAIN appended /\ IsLatest(n)
  BY <1>1, <1>4
<1>6. \A i \in DOMAIN appended : IsLatest(i) => i = n
  BY <1>1, <1>4
<1>7. Latest(appended, DOMAIN appended) = n
  BY <1>5, <1>6 DEF Latest
<1>. QED
  BY <1>1, <1>4, <1>7 DEF appended, n

\* The event with the states of the row, where there is any.
LEMMA LatestStates ==
  ASSUME NEW events \in Seq(Event), NEW e \in Event,
         \A i \in DOMAIN events : events[i].at <= e.at
  PROVE  /\ Append(events, e) # <<>>
         /\ Append(events, e)[Latest(Append(events, e), DOMAIN Append(events, e))] = e
BY AppendIsLatest

LEMMA StoreInStep ==
  ASSUME StatisticsTypeOK, RowIsLatest, EndsWithRow,
         NEW next \in StateRow, current # None => next.at >= current.at,
         Store(current, next)
  PROVE  RowIsLatest' /\ EndsWithRow'
<1> DEFINE e == [at |-> next.at, online |-> next.online, wan |-> next.wan]
<1>1. e \in Event /\ e.at = next.at /\ e.online = next.online /\ e.wan = next.wan
  BY DEF StateRow, Event
<1>2. history \in Seq(Event) /\ current \in StateRow \cup {None} /\ None \notin StateRow
  BY LeaseFlowAssumption DEF StatisticsTypeOK
<1>3. current' = next
  BY <1>2, UpdatedRow DEF Store
<1>4. history' = IF IsChange(current, next) THEN Append(history, e) ELSE history
  BY DEF Store
<1> HIDE DEF e
<1>5. \A i \in DOMAIN history : history[i].at <= next.at
  <2>1. CASE current = None
    BY <2>1 DEF EndsWithRow
  <2>2. CASE current # None
    <3>1. current.at \in Nat /\ next.at \in Nat
      BY <1>2, <2>2 DEF StateRow
    <3>2. \A i \in DOMAIN history : history[i] \in Event
      BY <1>2
    <3>3. \A i \in DOMAIN history : history[i].at \in Nat
      BY <3>2 DEF Event
    <3>. QED
      BY <2>2, <3>1, <3>3 DEF RowIsLatest
  <2>. QED
    BY <2>1, <2>2
<1>6. next.at \in Nat /\ next # None
  BY <1>2 DEF StateRow
<1>7. CASE IsChange(current, next)
  <2>1. \A i \in DOMAIN history' : history'[i].at <= next.at
    BY <1>1, <1>2, <1>4, <1>5, <1>6, <1>7
  <2>2. history' # <<>> /\ history'[Latest(history', DOMAIN history')] = e
    BY <1>1, <1>2, <1>4, <1>5, <1>7, LatestStates
  <2>. QED
    BY <1>1, <1>3, <1>6, <2>1, <2>2 DEF RowIsLatest, EndsWithRow, LastEvent
<1>8. CASE ~IsChange(current, next)
  <2>1. /\ current # None /\ history' = history
        /\ next.online = current.online /\ next.wan = current.wan
    BY <1>4, <1>8 DEF IsChange
  <2>. QED
    BY <1>3, <1>5, <1>6, <2>1 DEF RowIsLatest, EndsWithRow, LastEvent
<1>. QED
  BY <1>7, <1>8

LEMMA SameTablesInStep ==
  ASSUME RowIsLatest, EndsWithRow, UNCHANGED tables
  PROVE  RowIsLatest' /\ EndsWithRow'
BY DEF RowIsLatest, EndsWithRow, LastEvent, tables

LEMMA TakeInStep ==
  ASSUME StatisticsTypeOK, InStep, NEW h \in Handler, NEW m, Take(h, m)
  PROVE  InStep'
<1> SUFFICES ASSUME ~overlapped' PROVE (OneAtWork /\ ReadIsCurrent /\ RowIsLatest /\ EndsWithRow)'
  BY DEF InStep
<1>1. ~overlapped /\ IdleHandlers = Handler
  BY DEF Take, StatisticsTypeOK
<1>2. RowIsLatest' /\ EndsWithRow'
  BY <1>1, SameTablesInStep DEF InStep, Take
<1>3. \A g \in Handler : g # h => handling'[g] = None
  BY <1>1 DEF Take, IdleHandlers, StatisticsTypeOK
<1>4. handling'[h] # None => handling'[h].step = "device"
  BY DEF Take, StatisticsTypeOK
<1>5. OneAtWork'
  BY <1>3 DEF OneAtWork
<1>6. ReadIsCurrent'
  BY <1>3, <1>4 DEF ReadIsCurrent
<1>. QED
  BY <1>2, <1>5, <1>6

LEMMA ReadInStep ==
  ASSUME StatisticsTypeOK, InStep, NEW h \in Handler, ReadState(h)
  PROVE  InStep'
<1> SUFFICES ASSUME ~overlapped' PROVE (OneAtWork /\ ReadIsCurrent /\ RowIsLatest /\ EndsWithRow)'
  BY DEF InStep
<1>1. ~overlapped /\ UNCHANGED tables /\ handling[h] # None
  BY DEF ReadState
<1>2. RowIsLatest' /\ EndsWithRow'
  BY <1>1, SameTablesInStep DEF InStep
<1>3. \A g \in Handler : g # h => handling[g] = None
  BY <1>1 DEF InStep, OneAtWork
<1>4. \A g \in Handler : g # h => handling'[g] = None
  BY <1>3 DEF ReadState, StatisticsTypeOK
<1> DEFINE m == handling[h].message
           next == NextState(m, handling[h].wan)
<1>5. handling'[h] # None =>
        ~IsStale(m) /\ handling'[h].read = current /\ handling'[h].next = next
  BY DEF ReadState, StatisticsTypeOK
<1>6. m.at \in Nat /\ next.at = m.at
  BY <1>1, HandlingType, MessageType DEF NextState
<1>7. current # None => current.at \in Nat
  BY DEF StatisticsTypeOK, StateRow
<1>8. handling'[h] # None /\ current # None => handling'[h].next.at >= current.at
  BY <1>5, <1>6, <1>7 DEF IsStale
<1>9. current' = current
  BY <1>1 DEF tables
<1>10. OneAtWork'
  BY <1>4 DEF OneAtWork
<1>11. ReadIsCurrent'
  BY <1>4, <1>5, <1>8, <1>9 DEF ReadIsCurrent
<1>. QED
  BY <1>2, <1>10, <1>11

LEMMA HandlerEndsInStep ==
  ASSUME StatisticsTypeOK, InStep, NEW h \in Handler,
         Commit(h) \/ CrashStatistics(h) \/ RejectMessage(h)
  PROVE  InStep'
<1> SUFFICES ASSUME ~overlapped' PROVE (OneAtWork /\ ReadIsCurrent /\ RowIsLatest /\ EndsWithRow)'
  BY DEF InStep
<1>1. /\ handling[h] # None /\ handling' = [handling EXCEPT ![h] = None]
      /\ ~overlapped
  BY DEF Commit, CrashStatistics, RejectMessage
<1>2. \/ UNCHANGED tables
      \/ handling[h].step = "state" /\ Store(handling[h].read, handling[h].next)
  BY DEF Commit, CrashStatistics, RejectMessage
<1>3. \A g \in Handler : handling'[g] = None
  BY <1>1 DEF InStep, OneAtWork, StatisticsTypeOK
<1>4. RowIsLatest' /\ EndsWithRow'
  <2>1. CASE UNCHANGED tables
    BY <1>1, <2>1, SameTablesInStep DEF InStep
  <2>2. CASE handling[h].step = "state" /\ Store(handling[h].read, handling[h].next)
    <3>1. /\ handling[h].read = current /\ handling[h].next \in StateRow
          /\ current # None => handling[h].next.at >= current.at
      BY <1>1, <2>2, HandlingType DEF InStep, ReadIsCurrent
    <3>. QED
      BY <1>1, <2>2, <3>1, StoreInStep DEF InStep
  <2>. QED
    BY <1>2, <2>1, <2>2
<1>5. OneAtWork' /\ ReadIsCurrent'
  BY <1>3 DEF OneAtWork, ReadIsCurrent
<1>. QED
  BY <1>4, <1>5

\* The other steps leave rows, events and handlers alone.
LEMMA OthersInStep ==
  ASSUME InStep, UNCHANGED <<tables, handling, overlapped>>
  PROVE  InStep'
BY DEF InStep, OneAtWork, ReadIsCurrent, RowIsLatest, EndsWithRow, LastEvent, tables

LEMMA NextInStep == Types /\ InStep /\ [Next]_vars => InStep'
<1> SUFFICES ASSUME Types, InStep, [Next]_vars PROVE InStep'
  OBVIOUS
<1>1. StatisticsTypeOK
  BY DEF Types
<1>2. CASE ServeDhcp \/ ServeWan
  BY <1>1, <1>2, TakeInStep
     DEF ServeDhcp, ServeWan, HandleDhcpStatistics, HandleWanStatistics
<1>3. ASSUME NEW h \in Handler, FinishStatistics(h) PROVE InStep'
  BY <1>1, <1>3, ReadInStep, HandlerEndsInStep DEF FinishStatistics, HandlerStep
<1>4. CASE Fault
  <2>1. CASE UNCHANGED statisticsVars
    BY <2>1, OthersInStep DEF statisticsVars, tables
  <2>2. ASSUME NEW h \in Handler, CrashStatistics(h) \/ RejectMessage(h) PROVE InStep'
    BY <1>1, <2>2, HandlerEndsInStep
  <2>. QED
    BY <1>4, <2>1, <2>2 DEF Fault
<1>5. CASE RouterAnswers \/ PollFails \/ ApplySnapshot \/ UNCHANGED vars
  BY <1>5, OthersInStep DEF RouterAnswers, PollFails, ApplySnapshot, vars, statisticsVars, tables
<1>6. CASE Publish \/ LeasesChange \/ Unpin
  BY <1>6, OthersInStep DEF Publish, LeasesChange, Unpin
<1>7. ASSUME NEW wan \in WanState, WanStateChanges(wan) PROVE InStep'
  BY <1>7, OthersInStep DEF WanStateChanges
<1>8. CASE Gateway
  BY <1>8, OthersInStep
     DEF Gateway, ReadLayout, ReadObserved, DeleteObserved, PinObserved, statisticsVars,
         tables
<1>. QED
  BY <1>2, <1>3, <1>4, <1>5, <1>6, <1>7, <1>8 DEF Next

LEMMA InitInStep == Init => InStep
BY DEF Init, InitStatistics, InStep, OneAtWork, ReadIsCurrent, RowIsLatest, EndsWithRow

LEMMA InStepInvariant == Spec => []InStep
<1>1. Init => InStep
  BY InitInStep
<1>2. Types /\ InStep /\ [Next]_vars => InStep'
  BY NextInStep
<1>. QED
  BY <1>1, <1>2, TypesInvariant, PTL DEF Spec

\* As long as no two handlers were at work at once, the last event of the history tells
\* what the row of the device tells, whatever was redelivered, lost or late.
THEOREM HistoryFollowsRow == Spec => []HistoryEndsWithRow
<1>1. InStep => HistoryEndsWithRow
  BY DEF InStep, HistoryEndsWithRow, EndsWithRow
<1>. QED
  BY <1>1, InStepInvariant, PTL

-----------------------------------------------------------------------------
(* Durations.  Of two histories that order some events alike, the latest   *)
(* of those is the same.                                                   *)

LEMMA SameLatest ==
  ASSUME NEW A, NEW B, NEW P, \A i, j \in P : Precedes(A, i, j) <=> Precedes(B, i, j)
  PROVE  Latest(A, P) = Latest(B, P)
<1>1. \A i \in P : (\A j \in P \ {i} : Precedes(A, j, i)) <=> (\A j \in P \ {i} : Precedes(B, j, i))
  OBVIOUS
<1>. QED
  BY <1>1 DEF Latest

LEMMA UptoNext ==
  ASSUME NEW k \in Nat, 1 <= k
  PROVE  1..k = (1..(k - 1)) \cup {k}
<1>1. \A i \in Int : i \in 1..k <=> i \in 1..(k - 1) \/ i = k
  OBVIOUS
<1>. QED
  BY <1>1

\* There is a latest one of any events, but for none.
LEMMA LatestExists ==
  ASSUME NEW events \in Seq(Event), NEW P \in SUBSET (DOMAIN events), P # {}
  PROVE  \E i \in P : \A j \in P \ {i} : Precedes(events, j, i)
<1> DEFINE n == Len(events)
           Upto(k) == P \cap (1..k)
           HasLatest(k) == \E i \in Upto(k) : \A j \in Upto(k) \ {i} : Precedes(events, j, i)
           T == {k \in 0..n : Upto(k) # {} /\ ~HasLatest(k)}
<1>1. n \in Nat /\ P \subseteq 1..n
  OBVIOUS
<1>2. \A i \in 1..n : events[i] \in Event
  OBVIOUS
<1>3. \A i \in 1..n : events[i].at \in Nat
  BY <1>2 DEF Event
<1> HIDE DEF n
<1>4. T = {}
  <2> SUFFICES ASSUME T # {} PROVE FALSE
    OBVIOUS
  <2>1. PICK k \in T : \A m \in T : k <= m
    <3>1. T \in SUBSET Nat
      BY <1>1
    <3> HIDE DEF T
    <3>. QED
      BY <3>1, LeastNumber
  <2>2. k \in 1..n /\ k - 1 \in 0..n /\ k - 1 \notin T
    <3>1. k \in 0..n /\ Upto(k) # {}
      BY <2>1
    <3>2. Upto(0) = {}
      OBVIOUS
    <3>3. k # 0
      BY <3>1, <3>2
    <3> HIDE DEF T, Upto
    <3>4. k \in 1..n /\ k - 1 \in 0..n /\ k - 1 < k /\ k - 1 \in Nat /\ k \in Nat
      BY <1>1, <3>1, <3>3
    <3>. QED
      BY <2>1, <3>4
  <2>3. Upto(k) # {} /\ ~HasLatest(k) /\ (Upto(k - 1) = {} \/ HasLatest(k - 1))
    BY <2>1, <2>2
  <2>4. /\ k \in P => Upto(k) = Upto(k - 1) \cup {k}
        /\ k \notin P => Upto(k) = Upto(k - 1)
        /\ \A i \in Upto(k - 1) : i \in 1..n /\ i < k
    <3>1. k \in Nat /\ 1 <= k /\ k <= n
      BY <1>1, <2>2
    <3>2. 1..k = (1..(k - 1)) \cup {k}
      BY <3>1, UptoNext
    <3>3. \A i \in 1..(k - 1) : i \in 1..n /\ i < k
      BY <1>1, <3>1
    <3>4. k \in 1..k
      BY <3>1
    <3>. QED
      BY <3>2, <3>3, <3>4
  <2> HIDE DEF T, Upto
  <2>5. k \in P
    BY <2>3, <2>4
  <2>6. CASE Upto(k - 1) = {}
    BY <2>3, <2>4, <2>5, <2>6
  <2>7. CASE HasLatest(k - 1)
    <3>1. PICK i \in Upto(k - 1) : \A j \in Upto(k - 1) \ {i} : Precedes(events, j, i)
      BY <2>7
    <3>2. /\ i \in Nat /\ k \in Nat /\ i < k
          /\ events[i].at \in Nat /\ events[k].at \in Nat
      BY <1>1, <1>3, <2>2, <2>4
    <3>3. CASE events[k].at < events[i].at
      <4>1. Precedes(events, k, i)
        BY <3>3 DEF Precedes
      <4>. QED
        BY <2>3, <2>4, <2>5, <3>1, <4>1
    <3>4. CASE ~(events[k].at < events[i].at)
      <4>1. Precedes(events, i, k)
        BY <3>2, <3>4 DEF Precedes
      <4>2. ASSUME NEW j \in Upto(k - 1) \ {i} PROVE Precedes(events, j, k)
        <5>1. Precedes(events, j, i) /\ j \in Nat /\ j < k /\ events[j].at \in Nat
          BY <1>1, <1>3, <2>4, <3>1
        <5>. QED
          BY <3>2, <3>4, <5>1 DEF Precedes
      <4>. QED
        BY <2>3, <2>4, <2>5, <4>1, <4>2
    <3>. QED
      BY <3>3, <3>4
  <2>. QED
    BY <2>3, <2>6, <2>7
<1>5. Upto(n) = P
  BY <1>1
<1>6. HasLatest(n)
  <2> HIDE DEF Upto, HasLatest
  <2>1. n \in 0..n
    BY <1>1
  <2>. QED
    BY <1>4, <1>5, <2>1
<1>. QED
  BY <1>5, <1>6

\* The order of the events up to one that none is later than.
LEMMA AppendOrder ==
  ASSUME NEW events \in Seq(Event), NEW e \in Event,
         \A i \in DOMAIN events : events[i].at <= e.at
  PROVE  LET A == Append(events, e) IN
         /\ \A i, j \in DOMAIN events : Precedes(A, i, j) <=> Precedes(events, i, j)
         /\ \A i \in DOMAIN events : Lag(A, i) = Lag(events, i)
         /\ Lag(A, Len(events) + 1) = DOMAIN events
<1> DEFINE A == Append(events, e)
           n == Len(events) + 1
<1>1. /\ DOMAIN A = DOMAIN events \cup {n} /\ DOMAIN events = 1..(n - 1)
      /\ n \in Nat \ {0} /\ n \notin DOMAIN events
      /\ A[n] = e /\ e.at \in Nat
      /\ \A i \in DOMAIN events : A[i] = events[i]
  BY DEF Event
<1>2. \A i \in DOMAIN events : events[i] \in Event
  OBVIOUS
<1>3. \A i \in DOMAIN events : events[i].at \in Nat
  BY <1>2 DEF Event
<1> HIDE DEF A, n
<1>4. \A i, j \in DOMAIN events : Precedes(A, i, j) <=> Precedes(events, i, j)
  BY <1>1 DEF Precedes
<1>5. ~Precedes(A, n, n) /\ \A i \in DOMAIN events : Precedes(A, i, n) /\ ~Precedes(A, n, i)
  <2>1. ~Precedes(A, n, n)
    BY <1>1 DEF Precedes
  <2>2. ASSUME NEW i \in DOMAIN events PROVE Precedes(A, i, n) /\ ~Precedes(A, n, i)
    <3>1. i \in Nat /\ i < n /\ A[i].at \in Nat /\ A[i].at <= e.at
      BY <1>1, <1>3
    <3>. QED
      BY <1>1, <3>1 DEF Precedes
  <2>. QED
    BY <2>1, <2>2
<1>6. \A i \in DOMAIN events : Lag(A, i) = Lag(events, i)
  BY <1>1, <1>4, <1>5 DEF Lag
<1>7. Lag(A, n) = DOMAIN events
  BY <1>1, <1>5 DEF Lag
<1>. QED
  BY <1>4, <1>6, <1>7 DEF A, n

Greatest(times) == CHOOSE t \in times : \A u \in times : u <= t

LEMMA SinceIsGreatest ==
  ASSUME NEW events, NEW field
  PROVE  Since(events, field) = Greatest({events[i].at : i \in Transitions(events, field)})
BY DEF Since, Greatest

\* An event that repeats the state of the last one is no transition of that state, and
\* no other event becomes one or ceases to be one.
LEMMA RepeatedState ==
  ASSUME NEW events \in Seq(Event), NEW e \in Event, NEW field,
         \A i \in DOMAIN events : events[i].at <= e.at,
         events # <<>>,
         events[Latest(events, DOMAIN events)][field] = e[field]
  PROVE  Since(Append(events, e), field) = Since(events, field)
<1> DEFINE A == Append(events, e)
           n == Len(events) + 1
<1>1. /\ DOMAIN A = DOMAIN events \cup {n} /\ n \notin DOMAIN events /\ A[n] = e
      /\ \A i \in DOMAIN events : A[i] = events[i]
  OBVIOUS
<1>2. /\ \A i, j \in DOMAIN events : Precedes(A, i, j) <=> Precedes(events, i, j)
      /\ \A i \in DOMAIN events : Lag(A, i) = Lag(events, i)
      /\ Lag(A, n) = DOMAIN events
  BY AppendOrder
<1>3. DOMAIN events # {} /\ Latest(events, DOMAIN events) \in DOMAIN events
  <2>1. DOMAIN events # {}
    OBVIOUS
  <2>2. \E i \in DOMAIN events : \A j \in DOMAIN events \ {i} : Precedes(events, j, i)
    BY LatestExists, <2>1
  <2>. QED
    BY <2>1, <2>2 DEF Latest
<1> HIDE DEF A, n
<1>4. n \notin Transitions(A, field)
  <2>1. Latest(A, Lag(A, n)) = Latest(events, DOMAIN events)
    BY <1>2, SameLatest
  <2>. QED
    BY <1>1, <1>2, <1>3, <2>1 DEF Transitions
<1>5. ASSUME NEW i \in DOMAIN events
      PROVE  i \in Transitions(A, field) <=> i \in Transitions(events, field)
  <2>1. Lag(A, i) = Lag(events, i) /\ Lag(events, i) \subseteq DOMAIN events
    BY <1>2 DEF Lag
  <2>2. Latest(A, Lag(A, i)) = Latest(events, Lag(events, i))
    BY <1>2, <2>1, SameLatest
  <2>3. CASE Lag(events, i) = {}
    BY <1>1, <2>1, <2>3 DEF Transitions
  <2>4. CASE Lag(events, i) # {}
    <3>1. Latest(events, Lag(events, i)) \in DOMAIN events
      <4>1. \E k \in Lag(events, i) : \A j \in Lag(events, i) \ {k} : Precedes(events, j, k)
        BY LatestExists, <2>1, <2>4
      <4>. QED
        BY <2>1, <4>1 DEF Latest
    <3>. QED
      BY <1>1, <2>1, <2>2, <2>4, <3>1 DEF Transitions
  <2>. QED
    BY <2>3, <2>4
<1>6. Transitions(A, field) = Transitions(events, field)
  BY <1>1, <1>4, <1>5 DEF Transitions
<1>7. Transitions(events, field) \subseteq DOMAIN events
  BY DEF Transitions
<1>8. {A[i].at : i \in Transitions(A, field)} = {events[i].at : i \in Transitions(events, field)}
  BY <1>1, <1>6, <1>7
<1>9. Since(A, field) = Since(events, field)
  BY <1>8, SinceIsGreatest
<1>. QED
  BY <1>9 DEF A

LEMMA StoreKeepsDurations ==
  ASSUME StatisticsTypeOK, RowIsLatest, EndsWithRow,
         NEW next \in StateRow, current # None, next.at >= current.at,
         Store(current, next),
         NEW field \in {"online", "wan"}, current'[field] = current[field]
  PROVE  Since(history', field) = Since(history, field)
<1> DEFINE e == [at |-> next.at, online |-> next.online, wan |-> next.wan]
<1>1. e \in Event /\ e.at = next.at /\ e[field] = next[field]
  BY DEF StateRow, Event
<1>2. history \in Seq(Event) /\ current \in StateRow
  BY DEF StatisticsTypeOK
<1>3. current' = next
  BY <1>2, UpdatedRow DEF Store
<1>4. history' = IF IsChange(current, next) THEN Append(history, e) ELSE history
  BY DEF Store
<1> HIDE DEF e
<1>5. \A i \in DOMAIN history : history[i].at <= e.at
  <2>1. current.at \in Nat /\ next.at \in Nat
    BY <1>2 DEF StateRow
  <2>2. \A i \in DOMAIN history : history[i] \in Event
    BY <1>2
  <2>3. \A i \in DOMAIN history : history[i].at \in Nat
    BY <2>2 DEF Event
  <2>. QED
    BY <1>1, <2>1, <2>3 DEF RowIsLatest
<1>6. history # <<>> /\ history[Latest(history, DOMAIN history)][field] = e[field]
  <2>1. LastEvent[field] = current[field]
    BY DEF EndsWithRow
  <2>. QED
    BY <1>1, <1>3, <2>1 DEF EndsWithRow, LastEvent
<1>7. Since(Append(history, e), field) = Since(history, field)
  BY <1>1, <1>2, <1>5, <1>6, RepeatedState
<1>. QED
  BY <1>4, <1>7

KeepsDurations ==
  \A field \in {"online", "wan"} :
    (/\ current # None /\ current' # None
     /\ current'[field] = current[field] /\ ~overlapped')
    => Since(history', field) = Since(history, field)

LEMMA HandlerKeepsDurations ==
  ASSUME StatisticsTypeOK, InStep, NEW h \in Handler,
         Commit(h) \/ CrashStatistics(h) \/ RejectMessage(h)
  PROVE  KeepsDurations
<1> SUFFICES ASSUME NEW field \in {"online", "wan"}, current # None, ~overlapped',
                    current'[field] = current[field]
             PROVE  Since(history', field) = Since(history, field)
  BY DEF KeepsDurations
<1>1. handling[h] # None /\ ~overlapped
  BY DEF Commit, CrashStatistics, RejectMessage
<1>2. \/ UNCHANGED tables
      \/ handling[h].step = "state" /\ Store(handling[h].read, handling[h].next)
  BY DEF Commit, CrashStatistics, RejectMessage
<1>3. CASE UNCHANGED tables
  BY <1>3 DEF tables
<1>4. CASE handling[h].step = "state" /\ Store(handling[h].read, handling[h].next)
  <2>1. /\ handling[h].read = current /\ handling[h].next \in StateRow
        /\ handling[h].next.at >= current.at
    BY <1>1, <1>4, HandlingType DEF InStep, ReadIsCurrent
  <2>. QED
    BY <1>1, <1>4, <2>1, StoreKeepsDurations DEF InStep
<1>. QED
  BY <1>2, <1>3, <1>4

LEMMA NextKeepsDurations == Types /\ InStep /\ [Next]_vars => KeepsDurations
<1> SUFFICES ASSUME Types, InStep, [Next]_vars PROVE KeepsDurations
  OBVIOUS
<1>1. StatisticsTypeOK
  BY DEF Types
<1>2. CASE UNCHANGED tables
  BY <1>2 DEF KeepsDurations, tables
<1>3. CASE \E h \in Handler : Commit(h) \/ CrashStatistics(h) \/ RejectMessage(h)
  BY <1>1, <1>3, HandlerKeepsDurations
<1>4. UNCHANGED tables \/ \E h \in Handler : Commit(h) \/ CrashStatistics(h) \/ RejectMessage(h)
  <2>1. CASE ServeDhcp \/ ServeWan
    BY <2>1 DEF ServeDhcp, ServeWan, HandleDhcpStatistics, HandleWanStatistics, Take
  <2>2. CASE \E h \in Handler : FinishStatistics(h)
    BY <2>2 DEF FinishStatistics, HandlerStep, ReadState
  <2>3. CASE Fault
    BY <2>3 DEF Fault, statisticsVars, tables
  <2>4. CASE RouterAnswers \/ PollFails \/ ApplySnapshot \/ UNCHANGED vars
    BY <2>4 DEF RouterAnswers, PollFails, ApplySnapshot, vars, statisticsVars, tables
  <2>5. CASE Publish \/ LeasesChange \/ Unpin
    BY <2>5 DEF Publish, LeasesChange, Unpin, tables
  <2>6. CASE \E wan \in WanState : WanStateChanges(wan)
    BY <2>6 DEF WanStateChanges
  <2>7. CASE Gateway
    BY <2>7
       DEF Gateway, ReadLayout, ReadObserved, DeleteObserved, PinObserved, statisticsVars,
           tables
  <2>. QED
    BY <2>1, <2>2, <2>3, <2>4, <2>5, <2>6, <2>7 DEF Next
<1>. QED
  BY <1>2, <1>3, <1>4

\* A change of the device's WAN state does not reset the duration of its online state, nor
\* the other way round, as long as no two handlers were at work at once: the event that
\* tells the change repeats the other state, in the order of the query.
THEOREM DurationsAreKept == Spec => DurationsKept
<1>1. Types /\ InStep /\ [Next]_vars => [KeepsDurations]_<<current, history>>
  BY NextKeepsDurations
<1>2. Spec => [][KeepsDurations]_<<current, history>>
  BY <1>1, TypesInvariant, InStepInvariant, PTL DEF Spec
<1>. QED
  BY <1>2 DEF DurationsKept, KeepsDurations

-----------------------------------------------------------------------------
(* Reports.  The order of the queries is a total one.                      *)

LEMMA EventTimes ==
  ASSUME NEW events \in Seq(Event)
  PROVE  \A i \in DOMAIN events : i \in Nat /\ events[i] \in Event /\ events[i].at \in Nat
<1>1. \A i \in DOMAIN events : i \in Nat /\ events[i] \in Event
  OBVIOUS
<1>. QED
  BY <1>1 DEF Event

LEMMA PrecedesOrders ==
  ASSUME NEW events \in Seq(Event), NEW i \in DOMAIN events, NEW j \in DOMAIN events
  PROVE  /\ ~Precedes(events, i, i)
         /\ i # j => Precedes(events, i, j) \/ Precedes(events, j, i)
         /\ ~(Precedes(events, i, j) /\ Precedes(events, j, i))
         /\ \A k \in DOMAIN events :
              Precedes(events, i, j) /\ Precedes(events, j, k) => Precedes(events, i, k)
BY EventTimes DEF Precedes

\* Events of P that come before i.
Earlier(events, P, i) == {j \in P : Precedes(events, j, i)}

LEMMA EarlierGrows ==
  ASSUME NEW events \in Seq(Event), NEW P \in SUBSET (DOMAIN events), IsFiniteSet(P),
         NEW i \in P, NEW j \in P, Precedes(events, i, j)
  PROVE  /\ Cardinality(Earlier(events, P, i)) \in Nat
         /\ Cardinality(Earlier(events, P, j)) \in Nat
         /\ Cardinality(Earlier(events, P, i)) < Cardinality(Earlier(events, P, j))
<1> DEFINE I == Earlier(events, P, i)
           J == Earlier(events, P, j)
<1>1. I \in SUBSET P /\ J \in SUBSET P
  BY DEF Earlier
<1>2. I \in SUBSET J /\ i \in J /\ i \notin I
  BY PrecedesOrders DEF Earlier
<1> HIDE DEF I, J
<1>3. IsFiniteSet(I) /\ IsFiniteSet(J)
  BY <1>1, FS_Subset
<1>4. Cardinality(I) \in Nat /\ Cardinality(J) \in Nat
  BY <1>3, FS_CardinalityType
<1>5. Cardinality(I) <= Cardinality(J) /\ (Cardinality(J) = Cardinality(I) => J = I)
  BY <1>2, <1>3, FS_Subset
<1>6. Cardinality(I) < Cardinality(J)
  BY <1>2, <1>4, <1>5
<1>. QED
  BY <1>4, <1>6 DEF I, J

\* Nth enumerates some events in their order.
LEMMA NthInOrder ==
  ASSUME NEW events \in Seq(Event), NEW P \in SUBSET (DOMAIN events)
  PROVE  /\ Cardinality(P) \in Nat
         /\ \A n \in 1..Cardinality(P) : Nth(events, P, n) \in P
         /\ \A i \in P : \E n \in 1..Cardinality(P) : Nth(events, P, n) = i
         /\ \A m, n \in 1..Cardinality(P) :
              m < n => Precedes(events, Nth(events, P, m), Nth(events, P, n))
<1> DEFINE c == Cardinality(P)
           rank(i) == Cardinality(Earlier(events, P, i))
           place == [i \in P |-> rank(i) + 1]
           q(n) == Nth(events, P, n)
<1>1. IsFiniteSet(P) /\ c \in Nat
  <2>1. IsFiniteSet(1..Len(events)) /\ DOMAIN events = 1..Len(events)
    BY FS_Interval
  <2>. QED
    BY <2>1, FS_Subset, FS_CardinalityType
<1>2. ASSUME NEW i \in P PROVE rank(i) \in Nat /\ rank(i) + 1 \in 1..c
  <2> DEFINE I == Earlier(events, P, i)
  <2>1. I \in SUBSET P /\ i \notin I
    BY PrecedesOrders DEF Earlier
  <2> HIDE DEF I
  <2>2. IsFiniteSet(I) /\ Cardinality(I) <= c /\ (c = Cardinality(I) => P = I)
    BY <1>1, <2>1, FS_Subset
  <2>3. Cardinality(I) \in Nat
    BY <2>2, FS_CardinalityType
  <2>4. Cardinality(I) # c
    BY <2>1, <2>2
  <2>5. Cardinality(I) + 1 \in 1..c
    BY <1>1, <2>2, <2>3, <2>4
  <2>. QED
    BY <2>3, <2>5 DEF I
<1>3. ASSUME NEW i \in P, NEW j \in P, Precedes(events, i, j) PROVE rank(i) < rank(j)
  BY <1>1, <1>3, EarlierGrows
<1>4. ASSUME NEW i \in P, NEW j \in P, rank(i) = rank(j) PROVE i = j
  <2>1. ~Precedes(events, i, j) /\ ~Precedes(events, j, i)
    BY <1>2, <1>3, <1>4
  <2>. QED
    BY <2>1, PrecedesOrders
<1>5. \A n : q(n) = CHOOSE i \in P : rank(i) = n - 1
  BY DEF Nth, Earlier
<1> HIDE DEF c, rank, q
<1>6. ASSUME NEW n \in 1..c PROVE \E i \in P : rank(i) = n - 1
  <2>1. place \in Injection(P, 1..c)
    BY <1>2, <1>4 DEF Injection, IsInjective
  <2>2. IsFiniteSet(1..c) /\ Cardinality(1..c) = c
    BY <1>1, FS_Interval
  <2>3. place \in Surjection(P, 1..c)
    BY <2>1, <2>2, FS_Injection DEF c
  <2>4. PICK i \in P : place[i] = n
    BY <2>3 DEF Surjection
  <2>5. rank(i) + 1 = n /\ rank(i) \in Nat
    BY <1>2, <2>4
  <2>. QED
    BY <2>5
<1>7. \A n \in 1..c : q(n) \in P /\ rank(q(n)) = n - 1
  BY <1>5, <1>6
<1>8. ASSUME NEW i \in P PROVE \E n \in 1..c : q(n) = i
  <2>1. rank(i) + 1 \in 1..c /\ rank(i) \in Nat
    BY <1>2
  <2>2. rank(q(rank(i) + 1)) = rank(i) /\ q(rank(i) + 1) \in P
    BY <1>7, <2>1
  <2>. QED
    BY <1>4, <2>1, <2>2
<1>9. ASSUME NEW m \in 1..c, NEW n \in 1..c, m < n PROVE Precedes(events, q(m), q(n))
  <2>1. q(m) \in P /\ q(n) \in P /\ rank(q(m)) = m - 1 /\ rank(q(n)) = n - 1
    BY <1>7
  <2>2. q(m) # q(n)
    BY <1>9, <2>1
  <2>3. ~Precedes(events, q(n), q(m))
    BY <1>3, <1>9, <2>1
  <2>. QED
    BY <2>1, <2>2, <2>3, PrecedesOrders
<1>. QED
  BY <1>1, <1>7, <1>8, <1>9 DEF c, q

-----------------------------------------------------------------------------
(* Segments.                                                               *)

StateValue == BOOLEAN \cup WanState

Segment == [start: Nat, end: Nat, state: StateValue]

\* Segments from start on, each beginning where the one before ends, up to cursor.
Chain(segments, start, cursor) ==
  /\ segments \in Seq(Segment)
  /\ \A i \in DOMAIN segments :
       /\ start <= segments[i].start
       /\ segments[i].start < segments[i].end
       /\ segments[i].end <= cursor
       /\ i > 1 => /\ segments[i - 1].end = segments[i].start
                   /\ segments[i - 1].state # segments[i].state
  /\ segments # <<>> => Last(segments).end = cursor

LEMMA AppendSegmentChain ==
  ASSUME NEW start \in Nat, NEW cursor \in Nat, NEW at \in Nat, start <= cursor, cursor < at,
         NEW segments, Chain(segments, start, cursor), NEW state \in StateValue,
         NEW new, new = AppendSegment(segments, cursor, at, state)
  PROVE  /\ Chain(new, start, at)
         /\ \A t \in start..(cursor - 1) : Shown(new, t) = Shown(segments, t)
         /\ \A t \in cursor..(at - 1) : Shown(new, t) = {state}
<1> DEFINE n == Len(segments)
<1>1. /\ segments \in Seq(Segment) /\ n \in Nat /\ DOMAIN segments = 1..n
      /\ segments # <<>> => n >= 1 /\ Last(segments) = segments[n] /\ segments[n].end = cursor
  BY DEF Chain, Last
<1>2. \A i \in 1..n : /\ segments[i] \in Segment
                      /\ segments[i].start \in Nat /\ segments[i].end \in Nat
                      /\ start <= segments[i].start /\ segments[i].start < segments[i].end
                      /\ segments[i].end <= cursor
                      /\ i > 1 => /\ segments[i - 1].end = segments[i].start
                                  /\ segments[i - 1].state # segments[i].state
  <2>1. ASSUME NEW i \in 1..n
        PROVE  segments[i] \in Segment /\ segments[i].start \in Nat /\ segments[i].end \in Nat
    <3>1. segments[i] \in Segment
      BY <1>1
    <3>. QED
      BY <3>1 DEF Segment
  <2> HIDE DEF n
  <2>. QED
    BY <1>1, <2>1 DEF Chain
<1> HIDE DEF n
<1>3. ASSUME NEW last \in Segment, NEW m \in 1..(n + 1),
             last.start < last.end, last.end = at, last.state = state,
             new \in Seq(Segment), Len(new) = m, DOMAIN new = 1..m, new[m] = last,
             \A i \in 1..(m - 1) : i \in 1..n /\ new[i] = segments[i],
             \/ m = n + 1 /\ last.start = cursor /\ (n > 0 => segments[n].state # state)
             \/ m = n /\ last.start = segments[n].start /\ segments[n].state = state
      PROVE  /\ Chain(new, start, at)
             /\ \A t \in start..(cursor - 1) : Shown(new, t) = Shown(segments, t)
             /\ \A t \in cursor..(at - 1) : Shown(new, t) = {state}
  <2> DEFINE Covers(s, t) == {j \in DOMAIN s : s[j].start <= t /\ t < s[j].end}
  <2>1. last.start \in Nat /\ start <= last.start /\ last.start <= cursor /\ m \in Nat
    <3>1. last.start \in Nat /\ m \in Nat
      BY <1>1, <1>3 DEF Segment
    <3>2. CASE m = n + 1 /\ last.start = cursor
      BY <3>1, <3>2
    <3>3. CASE m = n /\ last.start = segments[n].start
      <4>1. n \in 1..n
        BY <1>1, <1>3, <3>3
      <4>. QED
        BY <1>2, <3>1, <3>3, <4>1
    <3>. QED
      BY <1>3, <3>1, <3>2, <3>3
  <2>2. ASSUME NEW i \in 1..m
        PROVE  /\ start <= new[i].start /\ new[i].start < new[i].end /\ new[i].end <= at
               /\ i > 1 => new[i - 1].end = new[i].start /\ new[i - 1].state # new[i].state
    <3>1. CASE i < m
      <4>1. i \in 1..(m - 1) /\ (i > 1 => i - 1 \in 1..(m - 1))
        BY <2>1, <3>1
      <4>2. i \in 1..n /\ new[i] = segments[i] /\ (i > 1 => new[i - 1] = segments[i - 1])
        BY <1>3, <4>1
      <4>. QED
        BY <1>2, <4>2
    <3>2. CASE i = m
      <4>1. start <= new[i].start /\ new[i].start < new[i].end /\ new[i].end <= at
        BY <1>3, <2>1, <3>2
      <4>2. ASSUME i > 1 PROVE new[i - 1].end = new[i].start /\ new[i - 1].state # new[i].state
        <5>1. i - 1 \in 1..(m - 1)
          BY <2>1, <3>2, <4>2
        <5>2. new[i - 1] = segments[i - 1] /\ i - 1 \in 1..n
          BY <1>3, <5>1
        <5>3. CASE m = n + 1 /\ last.start = cursor
          <6>1. i - 1 = n /\ n > 0 /\ segments # <<>>
            BY <1>1, <3>2, <4>2, <5>2, <5>3
          <6>. QED
            BY <1>1, <1>3, <3>2, <5>2, <5>3, <6>1
        <5>4. CASE m = n /\ last.start = segments[n].start
          <6>1. i = n /\ n \in 1..n /\ n > 1
            BY <1>1, <3>2, <4>2, <5>4
          <6>2. segments[n - 1].end = segments[n].start /\ segments[n - 1].state # segments[n].state
            BY <1>2, <6>1
          <6>. QED
            BY <1>1, <1>3, <3>2, <5>2, <5>4, <6>1, <6>2
        <5>. QED
          BY <1>3, <5>3, <5>4
      <4>. QED
        BY <4>1, <4>2
    <3>. QED
      BY <2>1, <3>1, <3>2
  <2>3. Chain(new, start, at)
    <3>1. Last(new) = last
      BY <1>3 DEF Last
    <3>. QED
      BY <1>3, <2>2, <3>1 DEF Chain
  <2>4. ASSUME NEW t \in start..(cursor - 1) PROVE Shown(new, t) = Shown(segments, t)
    <3>1. t \in Nat /\ t < cursor /\ t < at
      OBVIOUS
    <3>2. ASSUME NEW j \in 1..(m - 1)
          PROVE  new[j] = segments[j] /\ j \in DOMAIN segments /\ j \in DOMAIN new
      BY <1>1, <1>3, <2>1
    <3>3. CASE m = n + 1 /\ last.start = cursor
      <4>1. Covers(new, t) = Covers(segments, t)
        <5>1. m \notin Covers(new, t)
          BY <1>3, <3>1, <3>3
        <5>2. DOMAIN new = DOMAIN segments \cup {m} /\ \A j \in DOMAIN segments : j \in 1..(m - 1)
          BY <1>1, <1>3, <3>3
        <5>. QED
          BY <3>2, <5>1, <5>2
      <4>2. \A j \in Covers(segments, t) : new[j].state = segments[j].state
        BY <1>1, <3>2, <3>3
      <4>. QED
        BY <4>1, <4>2 DEF Shown
    <3>4. CASE m = n /\ last.start = segments[n].start
      <4>1. /\ DOMAIN new = DOMAIN segments /\ n \in 1..n /\ segments # <<>>
            /\ \A j \in DOMAIN segments : j = n \/ j \in 1..(m - 1)
        BY <1>1, <1>3, <3>4
      <4>2. n \in Covers(new, t) <=> n \in Covers(segments, t)
        BY <1>1, <1>3, <3>1, <3>4, <4>1
      <4>3. Covers(new, t) = Covers(segments, t)
        BY <3>2, <4>1, <4>2
      <4>4. segments[n].state = state /\ new[n].state = state
        BY <1>1, <1>3, <3>4
      <4>5. \A j \in Covers(segments, t) : new[j].state = segments[j].state
        BY <3>2, <4>1, <4>4
      <4>. QED
        BY <4>3, <4>5 DEF Shown
    <3>. QED
      BY <1>3, <3>3, <3>4
  <2>5. ASSUME NEW t \in cursor..(at - 1) PROVE Shown(new, t) = {state}
    <3>1. t \in Nat /\ cursor <= t /\ t < at
      OBVIOUS
    <3>2. m \in Covers(new, t)
      BY <1>3, <2>1, <3>1
    <3>3. ASSUME NEW j \in DOMAIN new, j # m PROVE j \notin Covers(new, t)
      <4>1. j \in 1..(m - 1)
        BY <1>3, <2>1, <3>3
      <4>2. new[j].end <= cursor /\ new[j].end \in Nat
        BY <1>2, <1>3, <4>1
      <4>. QED
        BY <3>1, <4>2
    <3>4. Covers(new, t) = {m}
      BY <3>2, <3>3
    <3>. QED
      BY <1>3, <3>4 DEF Shown
  <2>. QED
    BY <2>3, <2>4, <2>5
<1>4. CASE segments # <<>> /\ Last(segments).state = state /\ Last(segments).end = cursor
  <2> DEFINE last == [segments[n] EXCEPT !.end = at]
  <2>1. new = [segments EXCEPT ![n] = last]
    BY <1>4 DEF AppendSegment, n
  <2>2. n \in 1..n /\ segments[n] \in Segment /\ segments[n].state = state
    BY <1>1, <1>2, <1>4
  <2>3. /\ last \in Segment /\ last.start = segments[n].start /\ last.end = at
        /\ last.state = state
    BY <2>2 DEF Segment
  <2> HIDE DEF last
  <2>4. last.start < last.end
    <3>1. segments[n].start \in Nat /\ segments[n].start < segments[n].end /\ segments[n].end = cursor
      BY <1>1, <1>2, <1>4, <2>2
    <3>. QED
      BY <2>3, <3>1
  <2>5. /\ new \in Seq(Segment) /\ Len(new) = n /\ DOMAIN new = 1..n /\ new[n] = last
        /\ \A i \in 1..(n - 1) : i \in 1..n /\ new[i] = segments[i]
    BY <1>1, <2>1, <2>2, <2>3
  <2>6. n \in 1..(n + 1)
    BY <1>1, <2>2
  <2>. QED
    BY <1>3, <2>2, <2>3, <2>4, <2>5, <2>6
<1>5. CASE ~(segments # <<>> /\ Last(segments).state = state /\ Last(segments).end = cursor)
  <2> DEFINE last == [start |-> cursor, end |-> at, state |-> state]
  <2>1. new = Append(segments, last)
    BY <1>5 DEF AppendSegment
  <2>2. last \in Segment /\ last.start = cursor /\ last.end = at /\ last.state = state
    BY DEF Segment
  <2> HIDE DEF last
  <2>3. /\ new \in Seq(Segment) /\ Len(new) = n + 1 /\ DOMAIN new = 1..(n + 1) /\ new[n + 1] = last
        /\ \A i \in 1..((n + 1) - 1) : i \in 1..n /\ new[i] = segments[i]
    BY <1>1, <2>1, <2>2 DEF n
  <2>4. n > 0 => segments[n].state # state
    <3>1. n > 0 => segments # <<>>
      BY DEF n
    <3>. QED
      BY <1>1, <1>5, <3>1
  <2>5. n + 1 \in 1..(n + 1) /\ last.start < last.end
    BY <1>1, <2>2
  <2>. QED
    BY <1>3, <2>2, <2>3, <2>4, <2>5
<1>. QED
  BY <1>4, <1>5

-----------------------------------------------------------------------------
(* The loop of a report.                                                   *)

Mark == [at: Nat, state: StateValue]

Ordered(known, start, end) ==
  /\ known \in Seq(Mark)
  /\ \A i \in DOMAIN known : start <= known[i].at /\ known[i].at <= end
  /\ \A i, j \in DOMAIN known : i < j => known[i].at <= known[j].at

\* What the last mark up to t tells.
ToldAt(known, t) ==
  {known[i].state : i \in {j \in DOMAIN known :
     known[j].at <= t /\ \A m \in DOMAIN known : j < m => t < known[m].at}}

LEMMA MarkTypes ==
  ASSUME NEW known \in Seq(Mark)
  PROVE  \A i \in DOMAIN known : i \in Nat /\ known[i].at \in Nat /\ known[i].state \in StateValue
<1>1. \A i \in DOMAIN known : i \in Nat /\ known[i] \in Mark
  OBVIOUS
<1>. QED
  BY <1>1 DEF Mark

LEMMA ToldBetween ==
  ASSUME NEW start, NEW end, NEW known, Ordered(known, start, end), NEW n \in DOMAIN known,
         NEW t \in Nat, known[n].at <= t, n < Len(known) => t < known[n + 1].at
  PROVE  ToldAt(known, t) = {known[n].state}
<1> DEFINE Telling == {j \in DOMAIN known :
             known[j].at <= t /\ \A m \in DOMAIN known : j < m => t < known[m].at}
<1>1. known \in Seq(Mark) /\ DOMAIN known = 1..Len(known) /\ Len(known) \in Nat /\ n \in Nat
  BY DEF Ordered
<1>2. ASSUME NEW m \in DOMAIN known, n < m PROVE t < known[m].at
  <2>1. n + 1 \in DOMAIN known /\ n < Len(known) /\ (n + 1 = m \/ n + 1 < m)
    BY <1>1, <1>2
  <2>2. known[n + 1].at <= known[m].at
    <3>1. known[n + 1].at \in Nat /\ known[m].at \in Nat
      BY <1>1, <2>1, MarkTypes
    <3>. QED
      BY <2>1, <3>1 DEF Ordered
  <2>. QED
    BY <1>1, <2>1, <2>2, MarkTypes
<1>3. n \in Telling
  BY <1>2
<1>4. ASSUME NEW j \in Telling PROVE j = n
  <2>1. j \in Nat /\ known[n].at \in Nat /\ ~(t < known[n].at) /\ j \in DOMAIN known
    BY <1>1, MarkTypes
  <2>2. ~(j < n)
    BY <2>1
  <2>3. ~(n < j)
    BY <1>1, <1>2, <2>1, MarkTypes
  <2>. QED
    BY <1>1, <2>1, <2>2, <2>3
<1>5. Telling = {n}
  BY <1>3, <1>4
<1>. QED
  BY <1>5 DEF ToldAt

LEMMA ToldBefore ==
  ASSUME NEW start, NEW end, NEW known, Ordered(known, start, end), NEW t \in Nat,
         known # <<>> => t < known[1].at
  PROVE  ToldAt(known, t) = {}
<1>1. known \in Seq(Mark) /\ DOMAIN known = 1..Len(known) /\ Len(known) \in Nat
  BY DEF Ordered
<1>2. ASSUME NEW j \in DOMAIN known PROVE ~(known[j].at <= t)
  <2>1. known # <<>> /\ 1 \in DOMAIN known /\ j \in Nat /\ (j = 1 \/ 1 < j)
    BY <1>1
  <2>2. known[1].at <= known[j].at
    BY <1>1, <2>1, MarkTypes DEF Ordered
  <2>. QED
    BY <1>1, <2>1, <2>2, MarkTypes
<1>. QED
  BY <1>2 DEF ToldAt

ScanRight(s, known, start, n) ==
  /\ s.state = known[n].state
  /\ s.cursor = known[n].at
  /\ Chain(s.segments, start, s.cursor)
  /\ \A t \in start..(s.cursor - 1) : Shown(s.segments, t) = ToldAt(known, t)

LEMMA CloseRight ==
  ASSUME NEW start \in Nat, NEW end, NEW known, Ordered(known, start, end),
         NEW n \in DOMAIN known, NEW s, ScanRight(s, known, start, n),
         NEW at \in Nat, s.cursor <= at, n < Len(known) => at <= known[n + 1].at
  PROVE  /\ Chain(Close(s, at), start, at)
         /\ \A t \in start..(at - 1) : Shown(Close(s, at), t) = ToldAt(known, t)
<1>1. /\ known \in Seq(Mark) /\ s.cursor \in Nat /\ s.state \in StateValue /\ start <= s.cursor
      /\ known[n].at = s.cursor /\ known[n].state = s.state
  <2>1. known \in Seq(Mark)
    BY DEF Ordered
  <2>. QED
    BY <2>1, MarkTypes DEF ScanRight, Ordered
<1>2. CASE s.cursor = at
  <2>1. Close(s, at) = s.segments
    BY <1>1, <1>2 DEF Close
  <2>. QED
    BY <1>2, <2>1 DEF ScanRight
<1>3. CASE s.cursor < at
  <2> DEFINE new == Close(s, at)
  <2>1. new = AppendSegment(s.segments, s.cursor, at, s.state)
    BY <1>3 DEF Close
  <2> HIDE DEF new
  <2>2. /\ Chain(new, start, at)
        /\ \A t \in start..(s.cursor - 1) : Shown(new, t) = Shown(s.segments, t)
        /\ \A t \in (s.cursor)..(at - 1) : Shown(new, t) = {s.state}
    BY <1>1, <1>3, <2>1, AppendSegmentChain DEF ScanRight
  <2>3. ASSUME NEW t \in start..(at - 1) PROVE Shown(new, t) = ToldAt(known, t)
    <3>1. t \in Nat /\ start <= t /\ t < at
      OBVIOUS
    <3>2. CASE t < s.cursor
      <4>1. t \in start..(s.cursor - 1)
        BY <1>1, <3>1, <3>2
      <4>. QED
        BY <2>2, <4>1 DEF ScanRight
    <3>3. CASE ~(t < s.cursor)
      <4>1. t \in (s.cursor)..(at - 1) /\ known[n].at <= t
        BY <1>1, <3>1, <3>3
      <4>2. n < Len(known) => t < known[n + 1].at
        <5>1. n < Len(known) => n + 1 \in DOMAIN known
          BY <1>1
        <5>2. n < Len(known) => known[n + 1].at \in Nat
          BY <1>1, <5>1, MarkTypes
        <5>. QED
          BY <3>1, <5>2
      <4>3. ToldAt(known, t) = {known[n].state}
        BY <3>1, <4>1, <4>2, ToldBetween
      <4>. QED
        BY <1>1, <2>2, <4>1, <4>3
    <3>. QED
      BY <3>2, <3>3
  <2>. QED
    BY <2>2, <2>3 DEF new
<1>. QED
  BY <1>1, <1>2, <1>3

LEMMA ScanGoesOn ==
  ASSUME NEW start \in Nat, NEW end, NEW known, Ordered(known, start, end),
         NEW n \in DOMAIN known, n + 1 \in DOMAIN known, NEW s, ScanRight(s, known, start, n)
  PROVE  ScanRight(Scan(s, known[n + 1]), known, start, n + 1)
<1> DEFINE at == known[n + 1].at
           next == Scan(s, known[n + 1])
<1>1. known \in Seq(Mark) /\ n \in Nat
  BY DEF Ordered
<1>2. at \in Nat /\ s.cursor <= at /\ (n < Len(known) => at <= known[n + 1].at)
  BY <1>1, MarkTypes DEF Ordered, ScanRight
<1> HIDE DEF at
<1>3. /\ Chain(Close(s, at), start, at)
      /\ \A t \in start..(at - 1) : Shown(Close(s, at), t) = ToldAt(known, t)
  BY <1>2, CloseRight
<1>4. next.segments = Close(s, at) /\ next.state = known[n + 1].state /\ next.cursor = at
  BY DEF Scan, at
<1> HIDE DEF next
<1>5. ScanRight(next, known, start, n + 1)
  BY <1>3, <1>4 DEF ScanRight, at
<1>. QED
  BY <1>5 DEF next

FirstScan(known) == [segments |-> <<>>, state |-> known[1].state, cursor |-> known[1].at]

LEMMA FirstScanRight ==
  ASSUME NEW start \in Nat, NEW end, NEW known, Ordered(known, start, end), known # <<>>
  PROVE  1 \in DOMAIN known /\ ScanRight(FirstScan(known), known, start, 1)
<1> DEFINE s == FirstScan(known)
<1>1. known \in Seq(Mark) /\ 1 \in DOMAIN known
  BY DEF Ordered
<1>2. s.segments = <<>> /\ s.state = known[1].state /\ s.cursor = known[1].at /\ s.cursor \in Nat
  BY <1>1, MarkTypes DEF FirstScan
<1> HIDE DEF s
<1>3. Chain(<<>>, start, s.cursor)
  BY DEF Chain
<1>4. ASSUME NEW t \in start..(s.cursor - 1) PROVE Shown(<<>>, t) = ToldAt(known, t)
  <2>1. t \in Nat /\ t < known[1].at
    BY <1>2
  <2>2. ToldAt(known, t) = {}
    BY <2>1, ToldBefore
  <2>3. Shown(<<>>, t) = {}
    BY DEF Shown
  <2>. QED
    BY <2>2, <2>3
<1>5. ScanRight(s, known, start, 1)
  BY <1>2, <1>3, <1>4 DEF ScanRight
<1>. QED
  BY <1>1, <1>5 DEF s

\* The scans after each of the first n marks.
IsScan(f, known, n) ==
  /\ f = [i \in 1..n |-> f[i]]
  /\ f[1] = FirstScan(known)
  /\ \A i \in 2..n : f[i] = Scan(f[i - 1], known[i])

LEMMA ScansGoOn ==
  ASSUME NEW known, NEW n \in Nat, n >= 2, NEW g, IsScan(g, known, n - 1)
  PROVE  \E f : IsScan(f, known, n)
<1> DEFINE last == Scan(g[n - 1], known[n])
           f == [i \in 1..n |-> IF i = n THEN last ELSE g[i]]
<1> HIDE DEF last
<1>1. f = [i \in 1..n |-> f[i]] /\ f[1] = FirstScan(known)
  BY DEF IsScan
<1>2. \A i \in 2..n : f[i] = Scan(f[i - 1], known[i])
  <2> TAKE i \in 2..n
  <2>1. CASE i = n
    <3>1. f[i] = last /\ f[i - 1] = g[n - 1]
      BY <2>1
    <3>. QED
      BY <2>1, <3>1 DEF last
  <2>2. CASE i # n
    <3>1. f[i] = g[i] /\ f[i - 1] = g[i - 1] /\ i \in 2..(n - 1)
      BY <2>2
    <3>. QED
      BY <3>1 DEF IsScan
  <2>. QED
    BY <2>1, <2>2
<1> HIDE DEF f
<1>. QED
  BY <1>1, <1>2 DEF IsScan

LEMMA ScansExist ==
  ASSUME NEW known, NEW N \in Nat
  PROVE  \A n \in 1..N : \E f : IsScan(f, known, n)
<1> DEFINE T == {n \in 1..N : ~\E f : IsScan(f, known, n)}
<1>1. T \in SUBSET Nat
  OBVIOUS
<1>2. \A n \in 1..N : n \in T <=> ~\E f : IsScan(f, known, n)
  OBVIOUS
<1>3. \A n \in T : n \in 1..N
  OBVIOUS
<1> HIDE DEF T
<1>4. ASSUME T # {} PROVE FALSE
  <2>1. PICK n \in T : \A m \in T : n <= m
    BY <1>1, <1>4, LeastNumber
  <2>2. n \in 1..N /\ ~\E f : IsScan(f, known, n)
    BY <1>2, <1>3, <2>1
  <2>3. n # 1
    <3>1. IsScan([i \in 1..1 |-> FirstScan(known)], known, 1)
      BY DEF IsScan
    <3>. QED
      BY <2>2, <3>1
  <2>4. n \in Nat /\ n >= 2 /\ n - 1 \in 1..N /\ n - 1 \notin T
    BY <2>1, <2>2, <2>3
  <2>5. \E f : IsScan(f, known, n - 1)
    BY <1>2, <2>4
  <2>. QED
    BY <2>2, <2>4, <2>5, ScansGoOn
<1>. QED
  BY <1>2, <1>4

\* A report of marks that lie in the interval, in order.
LEMMA BuildRight ==
  ASSUME NEW start \in Nat, NEW end \in Nat, start <= end, NEW baseline, NEW events,
         Ordered(Known(start, baseline, events), start, end)
  PROVE  LET segments == BuildSegments(start, end, baseline, events)
             known == Known(start, baseline, events)
         IN  /\ Chain(segments, start, end)
             /\ \A t \in start..(end - 1) : Shown(segments, t) = ToldAt(known, t)
<1> DEFINE known == Known(start, baseline, events)
           Loop(f) == [n \in 1..Len(known) |->
             IF n = 1 THEN FirstScan(known) ELSE Scan(f[n - 1], known[n])]
           scan == CHOOSE f : f = Loop(f)
           segments == BuildSegments(start, end, baseline, events)
<1>1. segments = IF known = <<>> THEN <<>> ELSE Close(scan[Len(known)], end)
  BY DEF BuildSegments, FirstScan
<1>2. known \in Seq(Mark) /\ Ordered(known, start, end)
  BY DEF Ordered
<1> HIDE DEF known, segments
<1>3. CASE known = <<>>
  <2>1. segments = <<>>
    BY <1>1, <1>3
  <2>2. Chain(<<>>, start, end)
    BY DEF Chain
  <2>3. ASSUME NEW t \in start..(end - 1) PROVE Shown(<<>>, t) = ToldAt(known, t)
    <3>1. ToldAt(known, t) = {}
      BY <1>2, <1>3, ToldBefore
    <3>2. Shown(<<>>, t) = {}
      BY DEF Shown
    <3>. QED
      BY <3>1, <3>2
  <2>. QED
    BY <2>1, <2>2, <2>3 DEF known, segments
<1>4. CASE known # <<>>
  <2> DEFINE N == Len(known)
  <2>1. N \in Nat /\ N >= 1 /\ DOMAIN known = 1..N
    BY <1>2, <1>4
  <2> HIDE DEF N
  <2>2. \E f : f = Loop(f)
    <3>1. PICK f : IsScan(f, known, N)
      <4>1. N \in 1..N
        BY <2>1
      <4>. QED
        BY <2>1, <4>1, ScansExist
    <3>2. ASSUME NEW n \in 1..N PROVE f[n] = Loop(f)[n]
      <4>1. CASE n = 1
        BY <3>1, <4>1 DEF IsScan, N
      <4>2. CASE n # 1
        <5>1. n \in 2..N
          BY <4>2
        <5>. QED
          BY <3>1, <4>2, <5>1 DEF IsScan, N
      <4>. QED
        BY <4>1, <4>2
    <3>3. f = [n \in 1..N |-> f[n]]
      BY <3>1 DEF IsScan
    <3>4. Loop(f) = [n \in 1..N |-> Loop(f)[n]]
      BY DEF N
    <3>5. f = Loop(f)
      BY <3>2, <3>3, <3>4
    <3>. QED
      BY <3>5
  <2>3. scan = Loop(scan)
    BY <2>2, Zenon
  <2>4. \A n \in 1..N : scan[n] = Loop(scan)[n]
    BY <2>3, Zenon
  <2> HIDE DEF scan
  <2>5. /\ scan[1] = FirstScan(known)
        /\ \A n \in 2..N : scan[n] = Scan(scan[n - 1], known[n])
    BY <2>1, <2>4 DEF N
  <2> HIDE DEF Loop
  <2> DEFINE T == {n \in 1..N : ~ScanRight(scan[n], known, start, n)}
  <2>6. T \in SUBSET Nat
    OBVIOUS
  <2>7. \A n \in 1..N : n \in T <=> ~ScanRight(scan[n], known, start, n)
    OBVIOUS
  <2>8. \A n \in T : n \in 1..N
    OBVIOUS
  <2> HIDE DEF T
  <2>9. ASSUME T # {} PROVE FALSE
    <3>1. PICK n \in T : \A m \in T : n <= m
      BY <2>6, <2>9, LeastNumber
    <3>2. n \in 1..N /\ ~ScanRight(scan[n], known, start, n)
      BY <2>7, <2>8, <3>1
    <3>3. n # 1
      BY <1>2, <1>4, <2>5, <3>2, FirstScanRight
    <3>4. PICK k \in 1..N : k + 1 = n /\ k = n - 1 /\ k < n
      BY <2>1, <3>2, <3>3
    <3>5. k \notin T /\ n \in 2..N
      BY <2>1, <3>1, <3>2, <3>3, <3>4
    <3>6. ScanRight(scan[k], known, start, k)
      BY <2>7, <3>4, <3>5
    <3>7. ScanRight(Scan(scan[k], known[k + 1]), known, start, k + 1)
      BY <1>2, <2>1, <3>2, <3>4, <3>6, ScanGoesOn
    <3>. QED
      BY <2>5, <3>2, <3>4, <3>5, <3>7
  <2>10. ScanRight(scan[N], known, start, N) /\ N \in DOMAIN known
    BY <2>1, <2>7, <2>9
  <2>11. scan[N].cursor <= end
    BY <1>2, <2>10 DEF ScanRight, Ordered
  <2>12. segments = Close(scan[N], end)
    BY <1>1, <1>4 DEF N
  <2>13. ~(N < Len(known))
    BY <2>1 DEF N
  <2>. QED
    BY <1>2, <2>10, <2>11, <2>12, <2>13, CloseRight DEF known, segments
<1>. QED
  BY <1>3, <1>4

-----------------------------------------------------------------------------
(* From a history to the marks of a report.                                *)

LEMMA EventStates ==
  ASSUME NEW events \in Seq(Event), NEW i \in DOMAIN events, NEW field \in {"online", "wan"}
  PROVE  events[i][field] \in StateValue
<1>1. events[i] \in Event
  OBVIOUS
<1>2. events[i].online \in BOOLEAN /\ events[i].wan \in WanState
  BY <1>1 DEF Event
<1>3. CASE field = "online"
  <2>1. events[i].online \in BOOLEAN \cup WanState
    BY <1>2, Zenon
  <2>. QED
    BY <1>3, <2>1, Zenon DEF StateValue
<1>4. CASE field = "wan"
  BY <1>2, <1>4, Zenon DEF StateValue
<1>. QED
  BY <1>3, <1>4

LEMMA TrackMarks ==
  ASSUME NEW events \in Seq(Event), NEW P \in SUBSET (DOMAIN events), NEW field \in {"online", "wan"}
  PROVE  LET track == Track(events, P, field) IN
         /\ track \in Seq(Mark) /\ Len(track) = Cardinality(P) /\ DOMAIN track = 1..Cardinality(P)
         /\ \A n \in 1..Cardinality(P) :
              /\ track[n].at = events[Nth(events, P, n)].at
              /\ track[n].state = events[Nth(events, P, n)][field]
<1> DEFINE c == Cardinality(P)
           track == Track(events, P, field)
           event(n) == events[Nth(events, P, n)]
           mark(n) == [at |-> event(n).at, state |-> event(n)[field]]
<1>1. c \in Nat /\ \A n \in 1..c : Nth(events, P, n) \in DOMAIN events
  BY NthInOrder
<1>2. \A n \in 1..c : event(n).at \in Nat /\ event(n)[field] \in StateValue
  BY <1>1, EventTimes, EventStates
<1>3. track = [n \in 1..c |-> mark(n)]
  BY DEF Track
<1>4. \A n \in 1..c : mark(n) \in Mark
  BY <1>2 DEF Mark
<1>5. \A n \in 1..c : mark(n).at = event(n).at /\ mark(n).state = event(n)[field]
  OBVIOUS
<1> HIDE DEF c, track, event, mark
<1>6. track \in [1..c -> Mark] /\ DOMAIN track = 1..c /\ \A n \in 1..c : track[n] = mark(n)
  BY <1>3, <1>4
<1>7. track \in Seq(Mark) /\ Len(track) = c
  BY <1>1, <1>6
<1>8. \A n \in 1..c : track[n].at = event(n).at /\ track[n].state = event(n)[field]
  BY <1>5, <1>6
<1>. QED
  BY <1>6, <1>7, <1>8 DEF c, track, event

LEMMA LatestIs ==
  ASSUME NEW events \in Seq(Event), NEW P \in SUBSET (DOMAIN events), P # {}
  PROVE  /\ Latest(events, P) \in P
         /\ \A j \in P \ {Latest(events, P)} : Precedes(events, j, Latest(events, P))
BY LatestExists DEF Latest

LEMMA StateOfLatest ==
  ASSUME NEW events \in Seq(Event), NEW t \in Nat, NEW field, NEW last \in DOMAIN events,
         events[last].at <= t,
         \A j \in DOMAIN events : events[j].at <= t /\ j # last => Precedes(events, j, last)
  PROVE  StateAt(events, t, field) = {events[last][field]}
<1> DEFINE Upto == {i \in DOMAIN events : events[i].at <= t}
           Lasts == {j \in Upto : \A k \in Upto \ {j} : Precedes(events, k, j)}
<1>1. last \in Upto /\ Upto \subseteq DOMAIN events
  OBVIOUS
<1>2. last \in Lasts
  BY <1>1
<1>3. ASSUME NEW j \in Lasts PROVE j = last
  <2>1. j \in DOMAIN events
    BY <1>1
  <2>2. j # last => Precedes(events, last, j) /\ Precedes(events, j, last)
    BY <1>1
  <2>. QED
    BY <2>1, <2>2, PrecedesOrders
<1>4. Lasts = {last}
  BY <1>2, <1>3
<1>5. StateAt(events, t, field) = {events[i][field] : i \in Lasts}
  BY DEF StateAt
<1> HIDE DEF Lasts
<1>. QED
  BY <1>4, <1>5

\* The marks of a report: the baseline at its start, then the events within it.
Marks(events, start, end, field) ==
  Known(start, Track(events, Baseline(events, start), field),
        Track(events, Within(events, start, end), field))

\* Marks of the events at the places B, put at start, and of those at the places W.
MarksOf(marks, events, start, field, B, W) ==
  LET b == Cardinality(B)
      w == Cardinality(W)
  IN  /\ b \in Nat /\ w \in Nat
      /\ marks \in Seq(Mark) /\ Len(marks) = b + w /\ DOMAIN marks = 1..(b + w)
      /\ \A i \in 1..b : marks[i].at = start /\ marks[i].state = events[Nth(events, B, i)][field]
      /\ \A n \in 1..w : /\ marks[b + n].at = events[Nth(events, W, n)].at
                         /\ marks[b + n].state = events[Nth(events, W, n)][field]

LEMMA MarksAre ==
  ASSUME NEW events \in Seq(Event), NEW start \in Nat, NEW end \in Nat,
         NEW field \in {"online", "wan"}
  PROVE  MarksOf(Marks(events, start, end, field), events, start, field,
                 Baseline(events, start), Within(events, start, end))
<1> DEFINE marks == Marks(events, start, end, field)
           B == Baseline(events, start)
           W == Within(events, start, end)
           b == Cardinality(B)
           w == Cardinality(W)
           first == Track(events, B, field)
           front == [i \in DOMAIN first |-> [at |-> start, state |-> first[i].state]]
           back == Track(events, W, field)
<1>1. B \in SUBSET (DOMAIN events) /\ W \in SUBSET (DOMAIN events)
  <2>1. Before(events, start) \in SUBSET (DOMAIN events)
    BY DEF Before
  <2>2. Before(events, start) # {} => Latest(events, Before(events, start)) \in DOMAIN events
    BY <2>1, LatestIs
  <2>. QED
    BY <2>2 DEF Baseline, Within
<1>2. marks = front \o back
  BY DEF Marks, Known
<1> HIDE DEF B, W, marks
<1>3. b \in Nat /\ w \in Nat
  BY <1>1, NthInOrder
<1>4. /\ first \in Seq(Mark) /\ Len(first) = b /\ DOMAIN first = 1..b
      /\ \A i \in 1..b : first[i].state = events[Nth(events, B, i)][field]
  BY <1>1, TrackMarks
<1>5. /\ back \in Seq(Mark) /\ Len(back) = w /\ DOMAIN back = 1..w
      /\ \A n \in 1..w : /\ back[n].at = events[Nth(events, W, n)].at
                         /\ back[n].state = events[Nth(events, W, n)][field]
  BY <1>1, TrackMarks
<1> HIDE DEF first, back, b, w
<1>6. /\ front \in Seq(Mark) /\ Len(front) = b
      /\ \A i \in 1..b : front[i].at = start /\ front[i].state = first[i].state
  <2>1. \A i \in 1..b : first[i].state \in StateValue
    BY <1>4, MarkTypes
  <2>2. \A i \in 1..b : [at |-> start, state |-> first[i].state] \in Mark
    BY <2>1 DEF Mark
  <2>3. front \in [1..b -> Mark]
    BY <1>4, <2>2
  <2>4. front \in Seq(Mark) /\ Len(front) = b
    BY <1>3, <2>3
  <2>5. \A i \in 1..b : front[i] = [at |-> start, state |-> first[i].state]
    BY <1>4
  <2>. QED
    BY <2>4, <2>5
<1> HIDE DEF front
<1>7. /\ marks \in Seq(Mark) /\ Len(marks) = b + w
      /\ \A i \in 1..(b + w) : marks[i] = IF i <= b THEN front[i] ELSE back[i - b]
  <2>1. /\ front \o back \in Seq(Mark)
        /\ Len(front \o back) = Len(front) + Len(back)
        /\ \A i \in 1..(Len(front) + Len(back)) :
             (front \o back)[i] = IF i <= Len(front) THEN front[i] ELSE back[i - Len(front)]
    BY <1>5, <1>6, ConcatProperties
  <2>. QED
    BY <1>2, <1>5, <1>6, <2>1
<1>8. DOMAIN marks = 1..(b + w)
  BY <1>7
<1>9. ASSUME NEW i \in 1..b
      PROVE  marks[i].at = start /\ marks[i].state = events[Nth(events, B, i)][field]
  <2>1. i \in 1..(b + w) /\ i <= b
    BY <1>3
  <2>. QED
    BY <1>4, <1>6, <1>7, <2>1
<1>10. ASSUME NEW n \in 1..w
       PROVE  /\ marks[b + n].at = events[Nth(events, W, n)].at
              /\ marks[b + n].state = events[Nth(events, W, n)][field]
  <2>1. b + n \in 1..(b + w) /\ ~(b + n <= b) /\ (b + n) - b = n
    BY <1>3
  <2>2. marks[b + n] = back[n]
    BY <1>7, <2>1
  <2>. QED
    BY <1>5, <2>2
<1>. QED
  BY <1>3, <1>7, <1>8, <1>9, <1>10 DEF MarksOf, B, W, marks, b, w

\* The baseline is at most one event, and its place is the first.
LEMMA BaselineIs ==
  ASSUME NEW events \in Seq(Event), NEW start \in Nat
  PROVE  LET before == Before(events, start)
             B == Baseline(events, start)
         IN  /\ before \in SUBSET (DOMAIN events) /\ B \in SUBSET before
             /\ before = {} => Cardinality(B) = 0
             /\ before # {} => /\ Cardinality(B) = 1
                               /\ Nth(events, B, 1) = Latest(events, before)
<1> DEFINE before == Before(events, start)
           B == Baseline(events, start)
<1>1. before \in SUBSET (DOMAIN events)
  BY DEF Before
<1>2. B = IF before = {} THEN {} ELSE {Latest(events, before)}
  BY DEF Baseline
<1>3. before # {} => Latest(events, before) \in before
  BY <1>1, LatestIs
<1> HIDE DEF before, B
<1>4. B \in SUBSET before
  BY <1>2, <1>3
<1>5. before = {} => Cardinality(B) = 0
  BY <1>2, FS_EmptySet
<1>6. before # {} => Cardinality(B) = 1
  BY <1>2, FS_Singleton
<1>7. ASSUME before # {} PROVE Nth(events, B, 1) = Latest(events, before)
  <2>1. B \in SUBSET (DOMAIN events)
    BY <1>1, <1>4
  <2>2. 1 \in 1..Cardinality(B)
    BY <1>6, <1>7
  <2>3. Nth(events, B, 1) \in B
    BY <2>1, <2>2, NthInOrder
  <2>. QED
    BY <1>2, <1>7, <2>3
<1>. QED
  BY <1>1, <1>4, <1>5, <1>6, <1>7 DEF before, B

\* The places of the marks: the baseline, then the events within the interval.
LEMMA MarkPlaces ==
  ASSUME NEW b \in Nat, NEW w \in Nat, NEW i \in 1..(b + w)
  PROVE  i \in 1..b \/ \E n \in 1..w : i = b + n
<1>1. ~(i <= b) => i - b \in 1..w /\ i = b + (i - b)
  OBVIOUS
<1>. QED
  BY <1>1

LEMMA MarksOrdered ==
  ASSUME NEW events \in Seq(Event), NEW start \in Nat, NEW end \in Nat, start <= end,
         NEW field \in {"online", "wan"}
  PROVE  Ordered(Marks(events, start, end, field), start, end)
<1> DEFINE marks == Marks(events, start, end, field)
           B == Baseline(events, start)
           W == Within(events, start, end)
           b == Cardinality(B)
           w == Cardinality(W)
<1>1. /\ b \in Nat /\ w \in Nat
      /\ marks \in Seq(Mark) /\ Len(marks) = b + w /\ DOMAIN marks = 1..(b + w)
      /\ \A i \in 1..b : marks[i].at = start /\ marks[i].state = events[Nth(events, B, i)][field]
      /\ \A n \in 1..w : /\ marks[b + n].at = events[Nth(events, W, n)].at
                         /\ marks[b + n].state = events[Nth(events, W, n)][field]
  <2>1. MarksOf(marks, events, start, field, B, W)
    BY MarksAre
  <2> HIDE DEF marks, B, W
  <2>. QED
    BY <2>1 DEF MarksOf
<1>2. W \in SUBSET (DOMAIN events)
  BY DEF Within
<1>3. /\ \A n \in 1..w : Nth(events, W, n) \in W
      /\ \A m, n \in 1..w :
           m < n => Precedes(events, Nth(events, W, m), Nth(events, W, n))
  BY <1>2, NthInOrder
<1>4. \A n \in 1..w : /\ events[Nth(events, W, n)].at \in Nat
                      /\ start <= events[Nth(events, W, n)].at /\ events[Nth(events, W, n)].at <= end
  BY <1>2, <1>3, EventTimes DEF Within
<1>5. \A m, n \in 1..w : m < n => events[Nth(events, W, m)].at <= events[Nth(events, W, n)].at
  BY <1>3, <1>4 DEF Precedes
<1> HIDE DEF marks, B, W, b, w
<1>6. ASSUME NEW i \in DOMAIN marks PROVE start <= marks[i].at /\ marks[i].at <= end
  <2>1. i \in 1..b \/ \E n \in 1..w : i = b + n
    <3>1. i \in 1..(b + w)
      BY <1>1
    <3>. QED
      BY <1>1, <3>1, MarkPlaces
  <2>. QED
    BY <1>1, <1>4, <2>1
<1>7. ASSUME NEW i \in DOMAIN marks, NEW j \in DOMAIN marks, i < j
      PROVE  marks[i].at <= marks[j].at
  <2>1. i \in 1..b \/ \E n \in 1..w : i = b + n
    <3>1. i \in 1..(b + w)
      BY <1>1
    <3>. QED
      BY <1>1, <3>1, MarkPlaces
  <2>2. j \in 1..b \/ \E n \in 1..w : j = b + n
    <3>1. j \in 1..(b + w)
      BY <1>1
    <3>. QED
      BY <1>1, <3>1, MarkPlaces
  <2>3. CASE i \in 1..b
    BY <1>1, <1>6, <2>3
  <2>4. CASE \E n \in 1..w : i = b + n
    <3>1. PICK m \in 1..w : i = b + m
      BY <2>4
    <3>2. PICK n \in 1..w : j = b + n
      BY <1>1, <1>7, <2>2, <3>1
    <3>3. m < n
      BY <1>1, <1>7, <3>1, <3>2
    <3>. QED
      BY <1>1, <1>5, <3>1, <3>2, <3>3
  <2>. QED
    BY <2>1, <2>3, <2>4
<1>. QED
  BY <1>1, <1>6, <1>7 DEF Ordered, marks

\* What the marks tell of an instant is what the history tells.
LEMMA MarksTell ==
  ASSUME NEW events \in Seq(Event), NEW start \in Nat, NEW end \in Nat, start <= end,
         NEW field \in {"online", "wan"}, NEW t \in start..(end - 1)
  PROVE  StateAt(events, t, field) = ToldAt(Marks(events, start, end, field), t)
<1> DEFINE marks == Marks(events, start, end, field)
           before == Before(events, start)
           B == Baseline(events, start)
           W == Within(events, start, end)
           b == Cardinality(B)
           w == Cardinality(W)
           Upto == {i \in W : events[i].at <= t}
<1>1. /\ b \in Nat /\ w \in Nat
      /\ marks \in Seq(Mark) /\ Len(marks) = b + w /\ DOMAIN marks = 1..(b + w)
      /\ \A i \in 1..b : marks[i].at = start /\ marks[i].state = events[Nth(events, B, i)][field]
      /\ \A n \in 1..w : /\ marks[b + n].at = events[Nth(events, W, n)].at
                         /\ marks[b + n].state = events[Nth(events, W, n)][field]
  <2>1. MarksOf(marks, events, start, field, B, W)
    BY MarksAre
  <2> HIDE DEF marks, B, W
  <2>. QED
    BY <2>1 DEF MarksOf
<1>2. W \in SUBSET (DOMAIN events) /\ Upto \in SUBSET (DOMAIN events)
  BY DEF Within
<1>3. /\ \A n \in 1..w : Nth(events, W, n) \in W
      /\ \A i \in W : \E n \in 1..w : Nth(events, W, n) = i
      /\ \A m, n \in 1..w :
           m < n => Precedes(events, Nth(events, W, m), Nth(events, W, n))
  BY <1>2, NthInOrder
<1>4. t \in Nat /\ start <= t /\ t < end
  OBVIOUS
<1>5. \A i \in DOMAIN events : events[i].at \in Nat
  BY EventTimes
<1>6. \A i \in DOMAIN events : events[i].at <= t => i \in before \/ i \in Upto
  BY <1>4, <1>5 DEF Before, Within
<1>7. /\ \A i \in W : events[i].at >= start
      /\ \A i \in before : i \in DOMAIN events /\ events[i].at < start
      /\ \A i \in Upto : i \in W /\ events[i].at <= t
  BY DEF Within, Before
<1>8. /\ before \in SUBSET (DOMAIN events)
      /\ before = {} => b = 0
      /\ before # {} => b = 1 /\ Nth(events, B, 1) = Latest(events, before)
  BY BaselineIs
<1>9. Ordered(marks, start, end)
  BY MarksOrdered
<1>10. \A i \in W : ~(events[i].at <= t) => i \notin Upto /\ t < events[i].at
  BY <1>2, <1>4, <1>5
<1>11. \A i \in W : events[i].at <= t => i \in Upto
  OBVIOUS
<1> HIDE DEF marks, before, B, W, b, w, Upto
<1>12. CASE Upto # {}
  <2> DEFINE l == Latest(events, Upto)
  <2>1. l \in Upto /\ \A j \in Upto \ {l} : Precedes(events, j, l)
    BY <1>2, <1>12, LatestIs
  <2> HIDE DEF l
  <2>2. l \in DOMAIN events /\ l \in W /\ events[l].at <= t /\ events[l].at >= start
    BY <1>2, <1>7, <2>1
  <2>3. ASSUME NEW j \in DOMAIN events, events[j].at <= t, j # l PROVE Precedes(events, j, l)
    <3>1. CASE j \in Upto
      BY <2>1, <2>3, <3>1
    <3>2. CASE j \in before
      BY <1>5, <1>7, <2>2, <3>2 DEF Precedes
    <3>. QED
      BY <1>6, <2>3, <3>1, <3>2
  <2>4. StateAt(events, t, field) = {events[l][field]}
    BY <1>4, <2>2, <2>3, StateOfLatest
  <2>5. PICK n \in 1..w : Nth(events, W, n) = l
    BY <1>3, <2>2
  <2>6. b + n \in DOMAIN marks /\ marks[b + n].at <= t /\ marks[b + n].state = events[l][field]
    BY <1>1, <2>2, <2>5
  <2>7. ASSUME b + n < Len(marks) PROVE t < marks[b + n + 1].at
    <3>1. n + 1 \in 1..w /\ n < n + 1 /\ b + (n + 1) = b + n + 1
      BY <1>1, <2>7
    <3>2. Precedes(events, l, Nth(events, W, n + 1)) /\ Nth(events, W, n + 1) \in W
      BY <1>3, <2>5, <3>1
    <3>3. Nth(events, W, n + 1) \in DOMAIN events /\ ~Precedes(events, Nth(events, W, n + 1), l) /\ Nth(events, W, n + 1) # l
      BY <1>2, <2>2, <3>2, PrecedesOrders
    <3>4. Nth(events, W, n + 1) \notin Upto
      BY <2>1, <3>3
    <3>5. t < events[Nth(events, W, n + 1)].at
      BY <1>10, <1>11, <3>2, <3>4
    <3>. QED
      BY <1>1, <3>1, <3>5
  <2>8. ToldAt(marks, t) = {marks[b + n].state}
    BY <1>4, <1>9, <2>6, <2>7, ToldBetween
  <2>. QED
    BY <2>4, <2>6, <2>8 DEF marks
<1>13. ASSUME Upto = {}, NEW n \in 1..w PROVE t < marks[b + n].at
  <2>1. Nth(events, W, n) \in W /\ marks[b + n].at = events[Nth(events, W, n)].at
    BY <1>1, <1>3
  <2>. QED
    BY <1>10, <1>11, <1>13, <2>1
<1>14. CASE Upto = {} /\ before # {}
  <2> DEFINE l == Latest(events, before)
  <2>1. l \in before /\ \A j \in before \ {l} : Precedes(events, j, l)
    BY <1>8, <1>14, LatestIs
  <2> HIDE DEF l
  <2>2. l \in DOMAIN events /\ events[l].at <= t
    BY <1>4, <1>5, <1>7, <2>1
  <2>3. \A j \in DOMAIN events : events[j].at <= t /\ j # l => Precedes(events, j, l)
    BY <1>6, <1>14, <2>1
  <2>4. StateAt(events, t, field) = {events[l][field]}
    BY <1>4, <2>2, <2>3, StateOfLatest
  <2>5. b = 1 /\ Nth(events, B, 1) = l /\ 1 \in 1..b /\ 1 \in DOMAIN marks
    BY <1>1, <1>8, <1>14 DEF l
  <2>6. marks[1].at <= t /\ marks[1].state = events[l][field]
    BY <1>1, <1>4, <2>5
  <2>7. ASSUME 1 < Len(marks) PROVE t < marks[1 + 1].at
    <3>1. 1 \in 1..w
      BY <1>1, <2>5, <2>7
    <3>. QED
      BY <1>13, <1>14, <2>5, <3>1
  <2>8. ToldAt(marks, t) = {marks[1].state}
    BY <1>4, <1>9, <2>5, <2>6, <2>7, ToldBetween
  <2>. QED
    BY <2>4, <2>6, <2>8 DEF marks
<1>15. CASE Upto = {} /\ before = {}
  <2>1. StateAt(events, t, field) = {}
    <3>1. \A i \in DOMAIN events : ~(events[i].at <= t)
      BY <1>6, <1>15
    <3>. QED
      BY <3>1 DEF StateAt
  <2>2. ASSUME marks # <<>> PROVE t < marks[1].at
    <3>1. b = 0 /\ 1 \in 1..w /\ b + 1 = 1
      <4>1. b = 0 /\ marks \in Seq(Mark)
        BY <1>8, <1>9, <1>15 DEF Ordered
      <4>2. Len(marks) # 0
        BY <2>2, <4>1
      <4>. QED
        BY <1>1, <4>1, <4>2
    <3>. QED
      BY <1>13, <1>15, <3>1
  <2>3. ToldAt(marks, t) = {}
    BY <1>4, <1>9, <2>2, ToldBefore
  <2>. QED
    BY <2>1, <2>3 DEF marks
<1>. QED
  BY <1>12, <1>14, <1>15

LEMMA ReportIsRight ==
  ASSUME NEW events \in Seq(Event), NEW start \in Nat, NEW end \in Nat, start <= end,
         NEW field \in {"online", "wan"}
  PROVE  SegmentsAreRight(events, start, end, field)
<1> DEFINE baseline == Track(events, Baseline(events, start), field)
           within == Track(events, Within(events, start, end), field)
           marks == Known(start, baseline, within)
           segments == BuildSegments(start, end, baseline, within)
<1>1. Segments(events, start, end, field) = segments
  BY DEF Segments
<1>2. marks = Marks(events, start, end, field)
  BY DEF Marks
<1>3. Ordered(marks, start, end)
  BY <1>2, MarksOrdered
<1> HIDE DEF baseline, within
<1>4. /\ Chain(segments, start, end)
      /\ \A t \in start..(end - 1) : Shown(segments, t) = ToldAt(marks, t)
  BY <1>3, BuildRight
<1> HIDE DEF segments, marks
<1>5. \A t \in start..(end - 1) : Shown(segments, t) = StateAt(events, t, field)
  BY <1>2, <1>4, MarksTell
<1>. QED
  BY <1>1, <1>4, <1>5 DEF SegmentsAreRight, Chain

ReportsRight ==
  \A field \in {"online", "wan"}, start \in 0..now : SegmentsAreRight(history, start, now, field)

LEMMA ReportsRightNow == StatisticsTypeOK => ReportsRight
<1> SUFFICES ASSUME StatisticsTypeOK, NEW field \in {"online", "wan"}, NEW start \in 0..now
             PROVE  SegmentsAreRight(history, start, now, field)
  BY DEF ReportsRight
<1>1. history \in Seq(Event) /\ now \in Nat /\ start \in Nat /\ start <= now
  BY LeaseFlowAssumption DEF StatisticsTypeOK
<1>. QED
  BY <1>1, ReportIsRight

ReportsRightAfter ==
  \A field \in {"online", "wan"}, start \in 0..now' :
    SegmentsAreRight(history', start, now', field)

\* Every report, from any start until now, shows every instant in the state that the last
\* event up to it tells, nothing before the first event, in segments that lie in the
\* interval, follow each other without overlap and never repeat the state of the one before;
\* in whatever order the events were stored.
THEOREM ReportsAreRight == Spec => SegmentsMatchHistory
<1>1. Types => ReportsRight
  BY ReportsRightNow DEF Types
<1>2. Spec => []ReportsRight
  BY <1>1, TypesInvariant, PTL
<1>3. ReportsRight' => ReportsRightAfter
  BY DEF ReportsRight, ReportsRightAfter
<1>4. Spec => [][ReportsRightAfter]_<<history, now>>
  BY <1>2, <1>3, PTL
<1>. QED
  BY <1>4 DEF SegmentsMatchHistory, ReportsRightAfter
=============================================================================
