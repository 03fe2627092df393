------------------------------ MODULE WanPolicy ------------------------------
(***************************************************************************)
(* Classroom-service, the broker, policy-sync-service and the managed      *)
(* address list of every MikroTik router, composed.                        *)
(*                                                                         *)
(* ClassroomDevices gives the devices table and its handlers.  Here a      *)
(* synchronisation of one router is added: the two SELECTs of              *)
(* get_desired_blocklist, the read of the router's list, the writes to the *)
(* router, the published result.  Each router has the loop of its worker   *)
(* and, when Syncer holds "manual", the sync-now handler beside it.  The   *)
(* order of the single writes, retries and entry ids are the subject of    *)
(* AddressListSync; here the writes of one synchronisation are one step    *)
(* that may stop at any point.                                             *)
(***************************************************************************)
EXTENDS ClassroomDevices

CONSTANTS
  Syncer,        \* {"worker"}, or {"worker", "manual"}
  NoTrigger      \* the worker woke up because the reconcile interval passed

ASSUME SyncerAssumption == "worker" \in Syncer /\ Syncer \subseteq {"worker", "manual"}

ASSUME TriggerAssumption == NoTrigger \notin Nat

VARIABLES
  sync,          \* the synchronisation each syncer of each router is running
  blocklist      \* addresses of the managed entries each router holds

vars == <<classroomVars, sync, blocklist>>

SyncIdle ==
  [phase |-> "idle", trigger |-> NoTrigger, generation |-> 0,
   blocked |-> {}, current |-> {}]

\* phase       idle, counted (first SELECT done), desired (second one done),
\*             fetched (the router's list read), applied (every write succeeded)
\* trigger     generation of the event that woke the worker
\* generation  policy_generation of the desired blocklist
\* blocked     its addresses
\* current     the addresses found on the router
SyncState ==
  [phase: {"idle", "counted", "desired", "fetched", "applied"},
   trigger: Nat \cup {NoTrigger}, generation: Nat,
   blocked: SUBSET Address, current: SUBSET Address]

-----------------------------------------------------------------------------
(* One synchronisation (sync_router_policy).                               *)

\* The worker drains its queue and keeps one event of it.
TakeTrigger(r, s, trigger) ==
  \E e \in wanEvents : /\ s = "worker"
                       /\ e.router_id = r
                       /\ trigger = e.policy_generation
                       /\ wanEvents' = {x \in wanEvents : x.router_id # r}

\* Otherwise the interval passed, or sync-now was called.
Woken(r, s, trigger) ==
  \/ TakeTrigger(r, s, trigger)
  \/ trigger = NoTrigger /\ UNCHANGED wanEvents

\* It starts with the SELECT of the largest generation.
StartSync(r, s) ==
  /\ sync[r][s].phase = "idle"
  /\ \E g \in ScopeGenerations(r),
        trigger \in {NoTrigger} \cup {e.policy_generation : e \in wanEvents} :
       /\ IsLargest(g, ScopeGenerations(r))
       /\ Woken(r, s, trigger)
       /\ sync' = [sync EXCEPT ![r][s] =
            [SyncIdle EXCEPT !.phase = "counted", !.trigger = trigger, !.generation = g]]
  /\ UNCHANGED <<devices, classroomRouter, requests, requestsLeft, syncEvents,
                 faultsLeft, blocklist>>

\* Mutant: only what changed since the last result is asked for.
ReadPending(r, s) ==
  /\ sync[r][s].phase = "counted"
  /\ sync' = [sync EXCEPT ![r][s].phase = "desired", ![r][s].blocked =
       {devices[d].static_ip : d \in {x \in Device :
          InScope(x, r) /\ ~devices[x].wan_allowed /\ devices[x].sync_status = "pending"}}]
  /\ UNCHANGED <<classroomVars, blocklist>>

\* The second SELECT runs in its own snapshot (read committed).
ReadBlocked(r, s) ==
  /\ sync[r][s].phase = "counted"
  /\ sync' = [sync EXCEPT ![r][s].phase = "desired",
                          ![r][s].blocked = DesiredAddresses(r)]
  /\ UNCHANGED <<classroomVars, blocklist>>

ReadCurrent(r, s) ==
  /\ sync[r][s].phase = "desired"
  /\ sync' = [sync EXCEPT ![r][s].phase = "fetched",
                          ![r][s].current = blocklist[r]]
  /\ UNCHANGED <<classroomVars, blocklist>>

ToAdd(r, s) == sync[r][s].blocked \ sync[r][s].current
ToRemove(r, s) == sync[r][s].current \ sync[r][s].blocked

Apply(r, s) ==
  /\ sync[r][s].phase = "fetched"
  /\ blocklist' = [blocklist EXCEPT ![r] = (@ \cup ToAdd(r, s)) \ ToRemove(r, s)]
  /\ sync' = [sync EXCEPT ![r][s].phase = "applied"]
  /\ UNCHANGED classroomVars

PublishCompleted(r, s) ==
  /\ sync[r][s].phase = "applied"
  /\ syncEvents' = syncEvents \cup
       {[type |-> "completed", router_id |-> r,
         policy_generation |-> sync[r][s].generation]}
  /\ sync' = [sync EXCEPT ![r][s] = SyncIdle]
  /\ UNCHANGED <<devices, classroomRouter, requests, requestsLeft, wanEvents,
                 faultsLeft, blocklist>>

\* The worker's except branch: a triggered attempt that failed is reported with
\* the generation of the trigger.  sync-now reports nothing there.
TriggerFailure(r, s) ==
  IF sync[r][s].trigger = NoTrigger THEN {}
  ELSE {[type |-> "failed", router_id |-> r,
         policy_generation |-> sync[r][s].trigger]}

\* Writes go out one by one, so an interrupted synchronisation has done some.
PartialWrites(r, s) ==
  \E added \in SUBSET ToAdd(r, s), removed \in SUBSET ToRemove(r, s) :
    blocklist' = [blocklist EXCEPT ![r] = (@ \cup added) \ removed]

MaybePartialWrites(r, s) ==
  IF sync[r][s].phase = "fetched" THEN PartialWrites(r, s) ELSE UNCHANGED blocklist

EndByFault(r, s, published) ==
  /\ faultsLeft > 0
  /\ faultsLeft' = faultsLeft - 1
  /\ syncEvents' = syncEvents \cup published
  /\ sync' = [sync EXCEPT ![r][s] = SyncIdle]
  /\ UNCHANGED <<devices, classroomRouter, requests, requestsLeft, wanEvents>>

\* Some writes failed: the failure is published with the generation of the desired
\* list, then again by the worker's except branch.
FailApply(r, s) ==
  /\ sync[r][s].phase = "fetched"
  /\ PartialWrites(r, s)
  /\ EndByFault(r, s, TriggerFailure(r, s) \cup
       {[type |-> "failed", router_id |-> r,
         policy_generation |-> sync[r][s].generation]})

\* A call to classroom-service, to the router or to the broker raises.
FailSync(r, s) ==
  /\ sync[r][s].phase # "idle"
  /\ MaybePartialWrites(r, s)
  /\ EndByFault(r, s, TriggerFailure(r, s))

\* policy-sync dies or its worker is cancelled: nothing is published.
CrashSync(r, s) ==
  /\ sync[r][s].phase # "idle"
  /\ MaybePartialWrites(r, s)
  /\ EndByFault(r, s, {})

\* A trigger for a router without a worker is dropped; so are the triggers in the
\* queue of a worker that is replaced.
DropTrigger(e) ==
  /\ wanEvents' = wanEvents \ {e}
  /\ UNCHANGED <<devices, classroomRouter, requests, requestsLeft, syncEvents,
                 faultsLeft, sync, blocklist>>

-----------------------------------------------------------------------------

Init ==
  /\ ClassroomInit
  /\ sync = [r \in Router |-> [s \in Syncer |-> SyncIdle]]
  /\ blocklist = [r \in Router |-> {}]

SyncStep(r, s) ==
  \/ StartSync(r, s) \/ ReadBlocked(r, s) \/ ReadCurrent(r, s)
  \/ Apply(r, s) \/ PublishCompleted(r, s)

SyncFault(r, s) == FailApply(r, s) \/ FailSync(r, s) \/ CrashSync(r, s)

Next ==
  \/ ClassroomNext /\ UNCHANGED <<sync, blocklist>>
  \/ \E r \in Router, s \in Syncer : SyncStep(r, s) \/ SyncFault(r, s)
  \/ \E e \in wanEvents : DropTrigger(e)

Spec == Init /\ [][Next]_vars

\* The worker's loop always runs again after the reconcile interval, and the
\* broker's queues are first in, first out: no router's results wait for ever behind
\* another's.  Nothing is assumed of the administrators, of handlers in flight or of
\* sync-now.
DeliverResult(r) ==
  /\ \E e \in syncEvents :
       /\ e.router_id = r
       /\ HandlePolicySyncCompleted(e) \/ HandlePolicySyncFailed(e)
  /\ UNCHANGED <<sync, blocklist>>

Fairness ==
  \A r \in Router : WF_vars(SyncStep(r, "worker")) /\ WF_vars(DeliverResult(r))

FairSpec == Spec /\ Fairness

-----------------------------------------------------------------------------

TypeOK ==
  /\ ClassroomTypeOK
  /\ sync \in [Router -> [Syncer -> SyncState]]
  /\ blocklist \in [Router -> SUBSET Address]

\* A device that an administrator protected is never left blocked: block refuses a
\* protected device, bulk block skips it, protecting a blocked device allows it and
\* re-pinning a protected one creates it allowed (api.py).  Two requests that load
\* the row before either commits can break it.
ProtectedNeverBlocked ==
  \A d \in Device : Exists(d) /\ devices[d].wan_protected => devices[d].wan_allowed

ProtectedBlocked(d) == Exists(d) /\ devices[d].wan_protected /\ ~devices[d].wan_allowed

BlockedUnpinned(d) == Exists(d) /\ ~devices[d].is_pinned /\ ~devices[d].wan_allowed

\* Only the lost update makes a protected device a blocked one: with any number of
\* requests in flight, the step that does is the commit of a handler whose row was
\* changed under it, in the state or in the protection it decided on (api.py checks
\* both before its commit and locks nothing).
ProtectedUnlessStale ==
  [][\A d \in Device :
       ~ProtectedBlocked(d) /\ ProtectedBlocked(d)'
       => \E q \in Request : Commit(q) /\ (StaleState(q, d) \/ StaleProtection(q, d))]_vars

\* A device that was inserted well does not become one that is blocked without being
\* pinned, a block nobody enforces, except by such a commit: block refuses an unpinned
\* device and unpin a blocked one, each by the row as it read it.
PinnedUnlessStale ==
  [][\A d \in Device :
       Exists(d) /\ ~BlockedUnpinned(d) /\ BlockedUnpinned(d)'
       => \E q \in Request : Commit(q) /\ (StaleState(q, d) \/ StalePin(q, d))]_vars

\* A change of the WAN state of a pinned device raises its policy_generation, so that
\* a result for an older state cannot be taken for the new one.  The exception is a
\* commit that writes a generation computed from an older one (two increments become
\* one), or that pins a row pinned meanwhile and so increments nothing.
GrowsUnlessStale ==
  [][\A d \in Device :
       /\ Exists(d)
       /\ devices[d].is_pinned /\ devices'[d].is_pinned
       /\ devices'[d].wan_allowed # devices[d].wan_allowed
       /\ devices'[d].policy_generation <= devices[d].policy_generation
       => \E q \in Request : Commit(q) /\ (StaleGeneration(q, d) \/ StalePin(q, d))]_vars

\* When a completed synchronisation turns a pending device into an applied one, the
\* router holds the device's address exactly if the device is blocked.
AppliedMeansEnforced ==
  [][\A e \in syncEvents, d \in Device, r \in Router :
       HandlePolicySyncCompleted(e) /\ Covered(d, e) /\ InScope(d, r)
       => (devices[d].static_ip \in blocklist[r] <=> ~devices[d].wan_allowed)]_vars

\* Level-triggered convergence: whatever events were lost, dropped, reordered or
\* delivered twice, once requests and faults stop every router ends up with exactly
\* the blocklist the devices table asks for.
Converges ==
  <>[](\A r \in Router : blocklist[r] = DesiredAddresses(r))

AwaitsSync(d) ==
  /\ \E r \in Router : InScope(d, r)
  /\ devices[d].sync_status = "pending"

\* A pinned device with an address does not stay pending: some synchronisation of
\* its router covers its generation, although its own event may have been lost.
PendingSettles ==
  \A d \in Device : AwaitsSync(d) ~> ~AwaitsSync(d)
=============================================================================
