--------------------------- MODULE AddressListSync ---------------------------
(***************************************************************************)
(* One router's firewall address-list and the synchronisations that write  *)
(* it: MikroTikClient.apply_desired_blocklist of policy-sync-service, call *)
(* by call.  The worker of the router and the sync-now handler run it      *)
(* concurrently, both from a list read earlier; every REST call may fail   *)
(* before or after it took effect; the router's administrators keep        *)
(* entries of their own in the same list.                                  *)
(*                                                                         *)
(* The order in which the sorted addresses of one kind are handled is left *)
(* open; additions still come before comment updates and those before      *)
(* removals.                                                               *)
(***************************************************************************)
EXTENDS Naturals

CONSTANTS
  Address,     \* IPv4 addresses that may be in the list
  Applier,     \* concurrent callers of apply_desired_blocklist for this router
  Worker,      \* the applier that is the router's worker
  MaxChanges,  \* bound: changes of the desired blocklist
  MaxFaults,   \* bound: failed calls and crashes
  MaxAdmin,    \* bound: entries the administrators add or remove
  None,        \* not wanted; no address in hand
  Foreign      \* the comment of an entry the system does not manage

ASSUME WorkerAssumption == Worker \in Applier

ASSUME BoundAssumption ==
  MaxChanges \in Nat /\ MaxFaults \in Nat /\ MaxAdmin \in Nat

ASSUME SentinelAssumption ==
  /\ None \notin Nat \cup Address
  /\ \A S \in SUBSET Address : S # None
  /\ Foreign \notin Nat

\* A managed entry's comment carries the device's generation; every other comment,
\* or none, is the administrators' and stands as Foreign.
Comment == Nat \cup {Foreign}

Entry == [id: Nat, address: Address, comment: Comment]

VARIABLES
  wanted,       \* desired comment of each address, None when it is not blocked
  changesLeft,
  entries,      \* the router's list
  nextId,       \* RouterOS never gives an id twice
  connected,    \* addresses with established connections through the firewall
  run,          \* what each applier is doing
  faultsLeft,
  adminLeft

vars == <<wanted, changesLeft, entries, nextId, connected, run, faultsLeft, adminLeft>>

Managed(e) == e.comment # Foreign

\* Mutant: the comment prefix is not looked at.
AllEntries == entries

ManagedEntries == {e \in entries : Managed(e)}

ManagedAddresses == {e.address : e \in ManagedEntries}

Listed(a) == \E e \in entries : e.address = a

RunIdle ==
  [phase |-> "idle", want |-> [a \in Address |-> None], found |-> {},
   handled |-> {}, inHand |-> None, killed |-> {}, failed |-> FALSE]

\* phase    idle, desired (blocklist received), applying, verifying (an add
\*          failed; is the entry there?), killing (connections of inHand), done
\* want     the blocklist this run applies
\* found    managed_by_ip: one managed entry per address, as read at the start
\* handled  addresses this run is through with
\* killed   addresses whose connections this run removed
\* failed   result.errors is not empty
RunState ==
  [phase: {"idle", "desired", "applying", "verifying", "killing", "done"},
   want: [Address -> Nat \cup {None}], found: SUBSET Entry,
   handled: SUBSET Address, inHand: Address \cup {None},
   killed: SUBSET Address, failed: BOOLEAN]

-----------------------------------------------------------------------------
(* What a run has to do, in its order.                                     *)

Wanted(p) == {a \in Address : run[p].want[a] # None}

Found(p) == {e.address : e \in run[p].found}

\* Mutant: what the router already has is added again.
ToAddAgain(p) == Wanted(p) \ run[p].handled

ToAdd(p) == (Wanted(p) \ Found(p)) \ run[p].handled

ToUpdate(p) ==
  {e \in run[p].found : /\ e.address \in Wanted(p) \ run[p].handled
                        /\ e.comment # run[p].want[e.address]}

\* Mutant: an empty blocklist is taken for no answer.
ToRemoveUnlessEmpty(p) ==
  {e \in run[p].found : Wanted(p) # {} /\ e.address \notin Wanted(p) \cup run[p].handled}

ToRemove(p) ==
  {e \in run[p].found : e.address \notin Wanted(p) \cup run[p].handled}

MayUpdate(p) == run[p].phase = "applying" /\ ToAdd(p) = {}

MayRemove(p) == MayUpdate(p) /\ ToUpdate(p) = {}

Fault == faultsLeft > 0 /\ faultsLeft' = faultsLeft - 1

-----------------------------------------------------------------------------

\* get_desired_blocklist answered.
ReceiveDesired(p) ==
  /\ run[p].phase = "idle"
  /\ run' = [run EXCEPT ![p] = [RunIdle EXCEPT !.phase = "desired", !.want = wanted]]
  /\ UNCHANGED <<wanted, changesLeft, entries, nextId, connected, faultsLeft, adminLeft>>

\* The list is read; of several managed entries with one address a dict keeps one.
ReadEntries(p) ==
  /\ run[p].phase = "desired"
  /\ \E found \in SUBSET ManagedEntries :
       /\ {e.address : e \in found} = ManagedAddresses
       /\ \A e, f \in found : e.address = f.address => e = f
       /\ run' = [run EXCEPT ![p].phase = "applying", ![p].found = found]
  /\ UNCHANGED <<wanted, changesLeft, entries, nextId, connected, faultsLeft, adminLeft>>

\* Mutant: the comment is built from the policy of now, not of the run.
NewEntryOfNow(p, a) == [id |-> nextId, address |-> a, comment |-> wanted[a]]

NewEntry(p, a) == [id |-> nextId, address |-> a, comment |-> run[p].want[a]]

Insert(p, a) ==
  /\ entries' = entries \cup {NewEntry(p, a)}
  /\ nextId' = nextId + 1

\* PUT succeeded.
AddEntry(p, a) ==
  /\ run[p].phase = "applying"
  /\ a \in ToAdd(p)
  /\ Insert(p, a)
  /\ run' = [run EXCEPT ![p].phase = "killing", ![p].inHand = a]
  /\ UNCHANGED <<wanted, changesLeft, connected, faultsLeft, adminLeft>>

\* Mutant: a failed PUT counts as done without a look at the list.
AddUnverified(p, a) ==
  /\ run[p].phase = "applying"
  /\ a \in ToAdd(p)
  /\ run' = [run EXCEPT ![p].phase = "killing", ![p].inHand = a]
  /\ Fault
  /\ UNCHANGED <<wanted, changesLeft, entries, nextId, connected, adminLeft>>

\* PUT failed: refused because the address is listed already, or by a fault that
\* struck before or after the entry was created.
AddFails(p, a) ==
  /\ run[p].phase = "applying"
  /\ a \in ToAdd(p)
  /\ run' = [run EXCEPT ![p].phase = "verifying", ![p].inHand = a]
  /\ \/ Listed(a) /\ UNCHANGED <<entries, nextId, faultsLeft>>
     \/ Fault /\ UNCHANGED <<entries, nextId>>
     \/ Fault /\ Insert(p, a)
  /\ UNCHANGED <<wanted, changesLeft, connected, adminLeft>>

\* Mutant: an add that failed for good is not counted as an error.
VerifyQuietly(p) ==
  /\ run[p].phase = "verifying"
  /\ run' = [run EXCEPT ![p].phase = IF Listed(run[p].inHand) THEN "killing" ELSE "applying",
                        ![p].handled = @ \cup {run[p].inHand}]
  /\ UNCHANGED <<wanted, changesLeft, entries, nextId, connected, faultsLeft, adminLeft>>

\* address_list_entry_exists: any entry with the address counts, whoever made it.
VerifyAdd(p) ==
  /\ run[p].phase = "verifying"
  /\ \/ /\ Listed(run[p].inHand)
        /\ run' = [run EXCEPT ![p].phase = "killing"]
     \/ /\ ~Listed(run[p].inHand)
        /\ run' = [run EXCEPT ![p].phase = "applying", ![p].inHand = None,
                              ![p].handled = @ \cup {run[p].inHand},
                              ![p].failed = TRUE]
  /\ UNCHANGED <<wanted, changesLeft, entries, nextId, connected, faultsLeft, adminLeft>>

KillConnections(p) ==
  /\ run[p].phase = "killing"
  /\ connected' = connected \ {run[p].inHand}
  /\ run' = [run EXCEPT ![p].phase = "applying", ![p].inHand = None,
                        ![p].handled = @ \cup {run[p].inHand},
                        ![p].killed = @ \cup {run[p].inHand}]
  /\ UNCHANGED <<wanted, changesLeft, entries, nextId, faultsLeft, adminLeft>>

\* A failure to remove connections is logged and forgotten.
KillFails(p) ==
  /\ run[p].phase = "killing"
  /\ Fault
  /\ run' = [run EXCEPT ![p].phase = "applying", ![p].inHand = None,
                        ![p].handled = @ \cup {run[p].inHand}]
  /\ UNCHANGED <<wanted, changesLeft, entries, nextId, connected, adminLeft>>

Renamed(x, comment) == [x EXCEPT !.comment = comment]

Rename(p, e) ==
  entries' = {IF x.id = e.id THEN Renamed(x, run[p].want[e.address]) ELSE x : x \in entries}

Delete(e) == entries' = {x \in entries : x.id # e.id}

Handle(p, a, failed) ==
  run' = [run EXCEPT ![p].handled = @ \cup {a}, ![p].failed = @ \/ failed]

\* PATCH by id; the router answers 404 when the entry is gone.
UpdateComment(p, e) ==
  /\ MayUpdate(p)
  /\ e \in ToUpdate(p)
  /\ Rename(p, e)
  /\ Handle(p, e.address, \A x \in entries : x.id # e.id)
  /\ UNCHANGED <<wanted, changesLeft, nextId, connected, faultsLeft, adminLeft>>

UpdateFails(p, e) ==
  /\ MayUpdate(p)
  /\ e \in ToUpdate(p)
  /\ Fault
  /\ Rename(p, e) \/ UNCHANGED entries
  /\ Handle(p, e.address, TRUE)
  /\ UNCHANGED <<wanted, changesLeft, nextId, connected, adminLeft>>

\* DELETE by id; 404 when the entry is gone.
RemoveEntry(p, e) ==
  /\ MayRemove(p)
  /\ e \in ToRemove(p)
  /\ Delete(e)
  /\ Handle(p, e.address, \A x \in entries : x.id # e.id)
  /\ UNCHANGED <<wanted, changesLeft, nextId, connected, faultsLeft, adminLeft>>

RemoveFails(p, e) ==
  /\ MayRemove(p)
  /\ e \in ToRemove(p)
  /\ Fault
  /\ Delete(e) \/ UNCHANGED entries
  /\ Handle(p, e.address, TRUE)
  /\ UNCHANGED <<wanted, changesLeft, nextId, connected, adminLeft>>

\* Nothing is left to do: the result is returned (completed, or failed with errors).
Finish(p) ==
  /\ MayRemove(p)
  /\ ToRemove(p) = {}
  /\ run' = [run EXCEPT ![p].phase = "done"]
  /\ UNCHANGED <<wanted, changesLeft, entries, nextId, connected, faultsLeft, adminLeft>>

Report(p) ==
  /\ run[p].phase = "done"
  /\ run' = [run EXCEPT ![p] = RunIdle]
  /\ UNCHANGED <<wanted, changesLeft, entries, nextId, connected, faultsLeft, adminLeft>>

\* The read of the list or the check after a failed add raises, the worker is
\* cancelled, or the process dies: the rest of the run does not happen.
Abandon(p) ==
  /\ run[p].phase # "idle"
  /\ Fault
  /\ run' = [run EXCEPT ![p] = RunIdle]
  /\ UNCHANGED <<wanted, changesLeft, entries, nextId, connected, adminLeft>>

-----------------------------------------------------------------------------
(* The environment.                                                        *)

\* A block or an allow was committed in classroom-service.
ChangePolicy(a) ==
  /\ changesLeft > 0
  /\ changesLeft' = changesLeft - 1
  /\ wanted' = [wanted EXCEPT ![a] = IF @ = None THEN MaxChanges - changesLeft ELSE None]
  /\ UNCHANGED <<entries, nextId, connected, run, faultsLeft, adminLeft>>

AdminAdds(a) ==
  /\ adminLeft > 0
  /\ adminLeft' = adminLeft - 1
  /\ entries' = entries \cup {[id |-> nextId, address |-> a, comment |-> Foreign]}
  /\ nextId' = nextId + 1
  /\ UNCHANGED <<wanted, changesLeft, connected, run, faultsLeft>>

AdminRemoves(e) ==
  /\ ~Managed(e)
  /\ adminLeft > 0
  /\ adminLeft' = adminLeft - 1
  /\ entries' = entries \ {e}
  /\ UNCHANGED <<wanted, changesLeft, nextId, connected, run, faultsLeft>>

\* The firewall lets only addresses that are not listed open a connection.
Connect(a) ==
  /\ ~Listed(a)
  /\ a \notin connected
  /\ connected' = connected \cup {a}
  /\ UNCHANGED <<wanted, changesLeft, entries, nextId, run, faultsLeft, adminLeft>>

-----------------------------------------------------------------------------

Init ==
  /\ wanted = [a \in Address |-> None]
  /\ changesLeft = MaxChanges
  /\ entries = {}
  /\ nextId = 0
  /\ connected = {}
  /\ run = [p \in Applier |-> RunIdle]
  /\ faultsLeft = MaxFaults
  /\ adminLeft = MaxAdmin

RunStep(p) ==
  \/ ReceiveDesired(p) \/ ReadEntries(p)
  \/ \E a \in Address : AddEntry(p, a) \/ AddFails(p, a)
  \/ VerifyAdd(p) \/ KillConnections(p) \/ KillFails(p)
  \/ \E e \in run[p].found : \/ UpdateComment(p, e) \/ UpdateFails(p, e)
                             \/ RemoveEntry(p, e) \/ RemoveFails(p, e)
  \/ Finish(p) \/ Report(p) \/ Abandon(p)

AdminStep ==
  \/ \E a \in Address : AdminAdds(a)
  \/ \E e \in entries : AdminRemoves(e)

Next ==
  \/ \E p \in Applier : RunStep(p)
  \/ \E a \in Address : ChangePolicy(a) \/ Connect(a)
  \/ AdminStep

Spec == Init /\ [][Next]_vars

\* The worker's loop never stops for good: supervisor and reconcile interval.
FairSpec == Spec /\ WF_vars(RunStep(Worker))

-----------------------------------------------------------------------------

TypeOK ==
  /\ wanted \in [Address -> Nat \cup {None}]
  /\ changesLeft \in 0..MaxChanges
  /\ entries \subseteq Entry
  /\ nextId \in Nat
  /\ connected \subseteq Address
  /\ run \in [Applier -> RunState]
  /\ faultsLeft \in 0..MaxFaults
  /\ adminLeft \in 0..MaxAdmin

ForeignEntries == {e \in entries : ~Managed(e)}

\* Whatever fails, is retried or runs beside it, a synchronisation neither removes
\* nor rewrites nor creates an entry of the administrators: only entries with the
\* managed comment prefix are its own (managed_entries).
ForeignUntouched == [][adminLeft' = adminLeft => ForeignEntries' = ForeignEntries]_vars

\* A run that reports no error has done it all: every address of its blocklist is
\* listed and no other address is managed, although adds whose reply was lost count
\* as done and earlier runs may have died half way.  (One applier; the
\* administrators remove nothing.)
CleanRunIsExact ==
  \A p \in Applier :
    run[p].phase = "done" /\ ~run[p].failed =>
      /\ \A a \in Wanted(p) : Listed(a)
      /\ ManagedAddresses \subseteq Wanted(p)

\* An add that was retried after a lost reply leaves no second managed entry, which
\* managed_by_ip would hide and one removal would not remove.  (One applier.)
OneEntryPerAddress ==
  \A e, f \in ManagedEntries : e.address = f.address => e = f

\* An address whose connections this run removed has none while the run lasts: they
\* are removed after the entry exists, never before.  (One applier.)
KilledStayDown == \A p \in Applier : run[p].killed \cap connected = {}

\* The run of apply_desired_blocklist, seen from outside, is a Replicator.
Desired == {a \in Address : wanted[a] # None}
Covered == {e.address : e \in ForeignEntries}
Snapshot == [p \in Applier |-> IF run[p].phase = "idle" THEN None ELSE Wanted(p)]

Replica ==
  INSTANCE Replicator WITH
    desired <- Desired, actual <- ManagedAddresses, covered <- Covered,
    snapshot <- Snapshot, NoSnapshot <- None

\* Refinement: every write of every applier moves one address to where its own
\* blocklist wants it, and the list settles on the wanted one, for all stale runs,
\* duplicate entries, failed calls and crashes.
ReplicaSpec == Replica!Spec
=============================================================================
