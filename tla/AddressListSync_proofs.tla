----------------------- MODULE AddressListSync_proofs -----------------------
(***************************************************************************)
(* Proofs about AddressListSync, for any number of addresses, concurrent   *)
(* synchronisations, failed calls and administrators' entries.             *)
(***************************************************************************)
EXTENDS AddressListSync, TLAPS

Phase == {"idle", "desired", "applying", "verifying", "killing", "done"}

\* The records that the actions put into run.
LEMMA IdleType == RunIdle \in RunState
BY DEF RunIdle, RunState

LEMMA PhaseType ==
  ASSUME NEW x \in RunState, NEW ph \in Phase, NEW i \in Address \cup {None}
  PROVE  [x EXCEPT !.phase = ph, !.inHand = i] \in RunState
BY DEF RunState, Phase

LEMMA HandledType ==
  ASSUME NEW x \in RunState, NEW h \in SUBSET Address, NEW k \in SUBSET Address
  PROVE  [x EXCEPT !.handled = h, !.killed = k] \in RunState
BY DEF RunState

LEMMA FailedType ==
  ASSUME NEW x \in RunState, NEW b \in BOOLEAN
  PROVE  [x EXCEPT !.failed = b] \in RunState
<1>1. CASE b = TRUE
  BY <1>1 DEF RunState
<1>2. CASE b = FALSE
  BY <1>2 DEF RunState
<1>. QED
  BY <1>1, <1>2

\* Replacing one run by a run keeps the type of run.
LEMMA RunType ==
  ASSUME run \in [Applier -> RunState], NEW p \in Applier, NEW x \in RunState,
         run' = [run EXCEPT ![p] = x]
  PROVE  run' \in [Applier -> RunState]
OBVIOUS

LEMMA HandleType ==
  ASSUME run \in [Applier -> RunState], NEW p \in Applier, NEW a \in Address,
         NEW b \in BOOLEAN, Handle(p, a, b)
  PROVE  run' \in [Applier -> RunState]
<1> DEFINE h == run[p].handled \cup {a}
           f == run[p].failed \/ b
           x == [run[p] EXCEPT !.handled = h]
<1>1. run[p] \in RunState
  OBVIOUS
<1>2. x \in RunState
  BY <1>1 DEF RunState
<1>3. f \in BOOLEAN
  OBVIOUS
<1>4. [x EXCEPT !.failed = f] \in RunState
  BY <1>2, <1>3, FailedType
<1>5. [x EXCEPT !.failed = f] = [run[p] EXCEPT !.handled = h, !.failed = f]
  BY <1>1 DEF RunState
<1>6. run' = [run EXCEPT ![p] = [run[p] EXCEPT !.handled = h, !.failed = f]]
  BY Zenon DEF Handle
<1>. QED
  BY <1>4, <1>5, <1>6

\* What NewEntry and Renamed make are entries.
LEMMA EntryTypes ==
  ASSUME TypeOK, NEW p \in Applier, NEW a \in Wanted(p)
  PROVE  /\ a \in Address /\ run[p].want[a] \in Nat
         /\ NewEntry(p, a) \in Entry
         /\ \A x \in Entry : Renamed(x, run[p].want[a]) \in Entry
<1>1. a \in Address /\ run[p].want[a] \in Nat
  <2>1. run[p] \in RunState
    BY DEF TypeOK
  <2>. QED
    BY <2>1 DEF RunState, Wanted
<1>. QED
  BY <1>1 DEF TypeOK, NewEntry, Renamed, Entry, Comment

\* TypeOK alone is not inductive: VerifyAdd and KillConnections put the address in
\* hand among the handled ones, so there must be one.
HandOK ==
  \A p \in Applier :
    run[p].phase \in {"verifying", "killing"} => run[p].inHand \in Address

LEMMA InitTypeOK == Init => TypeOK /\ HandOK
<1> SUFFICES ASSUME Init PROVE TypeOK /\ HandOK
  OBVIOUS
<1>1. run \in [Applier -> RunState]
  BY IdleType DEF Init
<1>2. HandOK
  BY DEF Init, HandOK, RunIdle
<1>. QED
  BY <1>1, <1>2, BoundAssumption DEF Init, TypeOK

LEMMA RunStepTypeOK ==
  ASSUME TypeOK, HandOK, NEW p \in Applier, RunStep(p)
  PROVE  TypeOK'
<1> USE BoundAssumption DEF TypeOK
<1>0. run[p] \in RunState /\ run \in [Applier -> RunState]
  OBVIOUS
<1>a. /\ run[p].handled \in SUBSET Address /\ run[p].killed \in SUBSET Address
      /\ run[p].inHand \in Address \cup {None}
      /\ run[p].found \in SUBSET Entry
  BY <1>0 DEF RunState
<1>b. \A e \in run[p].found : e \in Entry /\ e.address \in Address
  BY <1>a DEF Entry
<1>1. CASE ReceiveDesired(p)
  <2>1. [RunIdle EXCEPT !.phase = "desired", !.want = wanted] \in RunState
    BY IdleType DEF RunState
  <2>. QED
    BY <1>1, <2>1, RunType DEF ReceiveDesired
<1>2. CASE ReadEntries(p)
  <2>1. PICK found \in SUBSET ManagedEntries :
          run' = [run EXCEPT ![p].phase = "applying", ![p].found = found]
    BY <1>2 DEF ReadEntries
  <2>2. found \in SUBSET Entry
    BY DEF ManagedEntries
  <2>3. [run[p] EXCEPT !.phase = "applying", !.found = found] \in RunState
    BY <1>0, <2>2 DEF RunState
  <2>4. run' \in [Applier -> RunState]
    BY <2>1, <2>3, RunType
  <2>. QED
    BY <1>2, <2>4 DEF ReadEntries
<1>3. ASSUME NEW a \in Address, AddEntry(p, a) PROVE TypeOK'
  <2>1. NewEntry(p, a) \in Entry
    BY <1>3, EntryTypes DEF AddEntry, ToAdd
  <2>2. run' \in [Applier -> RunState]
    BY <1>0, <1>3, PhaseType, RunType DEF AddEntry, Phase
  <2>. QED
    BY <1>3, <2>1, <2>2 DEF AddEntry, Insert
<1>4. ASSUME NEW a \in Address, AddFails(p, a) PROVE TypeOK'
  <2>1. NewEntry(p, a) \in Entry
    BY <1>4, EntryTypes DEF AddFails, ToAdd
  <2>2. run' \in [Applier -> RunState]
    BY <1>0, <1>4, PhaseType, RunType DEF AddFails, Phase
  <2>. QED
    BY <1>4, <2>1, <2>2 DEF AddFails, Insert, Fault
<1>5. CASE VerifyAdd(p)
  <2>. DEFINE h == run[p].handled \cup {run[p].inHand}
              y == [run[p] EXCEPT !.phase = "applying", !.handled = h, !.inHand = None]
  <2>1. [run[p] EXCEPT !.phase = "killing"] \in RunState
    BY <1>0 DEF RunState
  <2>2. CASE Listed(run[p].inHand)
    <3>1. run' = [run EXCEPT ![p] = [run[p] EXCEPT !.phase = "killing"]]
      BY <1>5, <2>2 DEF VerifyAdd
    <3>. QED
      BY <1>5, <2>1, <3>1, RunType DEF VerifyAdd
  <2>3. CASE ~Listed(run[p].inHand)
    <3>1. h \in SUBSET Address
      BY <1>a, <1>5 DEF VerifyAdd, HandOK
    <3>2. y \in RunState
      BY <1>0, <3>1 DEF RunState
    <3>3. [y EXCEPT !.failed = TRUE] \in RunState
      BY <3>2, FailedType
    <3>4. run' = [run EXCEPT ![p] = [run[p] EXCEPT
                     !.phase = "applying", !.handled = h, !.inHand = None, !.failed = TRUE]]
      BY <1>5, <2>3 DEF VerifyAdd
    <3>5. [run[p] EXCEPT !.phase = "applying", !.handled = h, !.inHand = None, !.failed = TRUE]
            = [y EXCEPT !.failed = TRUE]
      BY <1>0 DEF RunState
    <3>. QED
      BY <1>5, <3>3, <3>4, <3>5, RunType DEF VerifyAdd
  <2>. QED
    BY <2>2, <2>3
<1>6. CASE KillConnections(p) \/ KillFails(p)
  <2>. DEFINE h == run[p].handled \cup {run[p].inHand}
              k == run[p].killed \cup {run[p].inHand}
  <2>1. h \in SUBSET Address /\ k \in SUBSET Address
    BY <1>a, <1>6 DEF KillConnections, KillFails, HandOK
  <2>2. [run[p] EXCEPT !.phase = "applying", !.inHand = None, !.handled = h, !.killed = k]
          \in RunState
    BY <1>0, <2>1 DEF RunState
  <2>3. [run[p] EXCEPT !.phase = "applying", !.inHand = None, !.handled = h] \in RunState
    BY <1>0, <2>1 DEF RunState
  <2>4. run' \in [Applier -> RunState]
    BY <1>6, <2>2, <2>3, RunType DEF KillConnections, KillFails
  <2>. QED
    BY <1>6, <2>4 DEF KillConnections, KillFails, Fault
<1>8. ASSUME NEW e \in run[p].found,
             \/ UpdateComment(p, e) \/ UpdateFails(p, e)
      PROVE  TypeOK'
  <2> DEFINE gone == \A x \in entries : x.id # e.id
  <2>1. Handle(p, e.address, gone) \/ Handle(p, e.address, TRUE)
    BY <1>8 DEF UpdateComment, UpdateFails
  <2>2. gone \in BOOLEAN
    OBVIOUS
  <2>. HIDE DEF gone
  <2>3. run' \in [Applier -> RunState]
    BY <1>0, <1>b, <2>1, <2>2, HandleType
  <2>4. e.address \in Wanted(p)
    BY <1>8 DEF UpdateComment, UpdateFails, ToUpdate
  <2>5. \A x \in entries : Renamed(x, run[p].want[e.address]) \in Entry
    BY <2>4, EntryTypes
  <2>6. entries' \subseteq Entry
    <3>1. CASE Rename(p, e)
      BY <2>5, <3>1 DEF Rename
    <3>2. CASE UNCHANGED entries
      BY <3>2
    <3>. QED
      BY <1>8, <3>1, <3>2, Zenon DEF UpdateComment, UpdateFails
  <2>7. /\ UNCHANGED <<wanted, changesLeft, nextId, connected, adminLeft>>
        /\ Fault \/ UNCHANGED faultsLeft
    BY <1>8, Zenon DEF UpdateComment, UpdateFails
  <2>. QED
    BY <2>3, <2>6, <2>7 DEF Fault
<1>10. ASSUME NEW e \in run[p].found,
              \/ RemoveEntry(p, e) \/ RemoveFails(p, e)
       PROVE  TypeOK'
  <2> DEFINE gone == \A x \in entries : x.id # e.id
  <2>1. Handle(p, e.address, gone) \/ Handle(p, e.address, TRUE)
    BY <1>10 DEF RemoveEntry, RemoveFails
  <2>2. gone \in BOOLEAN
    OBVIOUS
  <2>. HIDE DEF gone
  <2>3. run' \in [Applier -> RunState]
    BY <1>0, <1>b, <2>1, <2>2, HandleType
  <2>4. entries' \subseteq Entry
    BY <1>10 DEF RemoveEntry, RemoveFails, Delete
  <2>5. /\ UNCHANGED <<wanted, changesLeft, nextId, connected, adminLeft>>
        /\ Fault \/ UNCHANGED faultsLeft
    BY <1>10, Zenon DEF RemoveEntry, RemoveFails
  <2>. QED
    BY <2>3, <2>4, <2>5 DEF Fault
<1>12. CASE Finish(p) \/ Report(p) \/ Abandon(p)
  <2>1. run' \in [Applier -> RunState]
    <3>1. [run[p] EXCEPT !.phase = "done"] \in RunState
      BY <1>0 DEF RunState
    <3>. QED
      BY <1>0, <1>12, <3>1, IdleType, RunType DEF Finish, Report, Abandon
  <2>. QED
    BY <1>12, <2>1 DEF Finish, Report, Abandon, Fault
<1>. QED
  BY <1>1, <1>2, <1>3, <1>4, <1>5, <1>6, <1>8, <1>10, <1>12 DEF RunStep

LEMMA NextTypeOK == TypeOK /\ HandOK /\ [Next]_vars => TypeOK'
<1> SUFFICES ASSUME TypeOK, HandOK, [Next]_vars PROVE TypeOK'
  OBVIOUS
<1> USE BoundAssumption DEF TypeOK
<1>1. ASSUME NEW p \in Applier, RunStep(p) PROVE TypeOK'
  BY <1>1, RunStepTypeOK
<1>2. ASSUME NEW a \in Address, ChangePolicy(a) PROVE TypeOK'
  BY <1>2 DEF ChangePolicy
<1>3. ASSUME NEW a \in Address, Connect(a) PROVE TypeOK'
  BY <1>3 DEF Connect
<1>4. ASSUME NEW a \in Address, AdminAdds(a) PROVE TypeOK'
  BY <1>4 DEF AdminAdds, Entry, Comment
<1>5. ASSUME NEW e \in entries, AdminRemoves(e) PROVE TypeOK'
  BY <1>5 DEF AdminRemoves
<1>6. CASE UNCHANGED vars
  BY <1>6 DEF vars
<1>. QED
  BY <1>1, <1>2, <1>3, <1>4, <1>5, <1>6 DEF Next, AdminStep

LEMMA NextHandOK == TypeOK /\ HandOK /\ [Next]_vars => HandOK'
<1> SUFFICES ASSUME TypeOK, HandOK, [Next]_vars PROVE HandOK'
  OBVIOUS
<1>0. ASSUME NEW p \in Applier
      PROVE  run[p] \in RunState
  BY DEF TypeOK
<1>1. ASSUME NEW p \in Applier, RunStep(p), NEW q \in Applier,
             run'[q].phase \in {"verifying", "killing"}
      PROVE  run'[q].inHand \in Address
  <2>1. CASE q # p
    <3>1. run'[q] = run[q]
      BY <1>1, <2>1 DEF TypeOK, RunStep, ReceiveDesired, ReadEntries, AddEntry, AddFails,
         VerifyAdd, KillConnections, KillFails, UpdateComment, UpdateFails, RemoveEntry,
         RemoveFails, Handle, Finish, Report, Abandon
    <3>. QED
      BY <1>1, <3>1 DEF HandOK
  <2>2. CASE q = p /\ \E a \in Address : AddEntry(p, a) \/ AddFails(p, a)
    BY <1>0, <2>2 DEF TypeOK, RunState, AddEntry, AddFails
  <2>3. CASE q = p /\ VerifyAdd(p)
    BY <1>0, <1>1, <2>3 DEF TypeOK, RunState, HandOK, VerifyAdd
  <2>4. CASE q = p /\ \E e \in run[p].found :
                       \/ UpdateComment(p, e) \/ UpdateFails(p, e)
                       \/ RemoveEntry(p, e) \/ RemoveFails(p, e)
    <3>1. PICK a, b : Handle(p, a, b)
      BY <2>4, Zenon DEF UpdateComment, UpdateFails, RemoveEntry, RemoveFails
    <3>2. run'[p].phase = run[p].phase /\ run'[p].inHand = run[p].inHand
      BY <1>0, <3>1 DEF TypeOK, RunState, Handle
    <3>. QED
      BY <1>1, <2>4, <3>2 DEF HandOK
  <2>5. CASE q = p /\ (ReceiveDesired(p) \/ ReadEntries(p) \/ Finish(p) \/ Report(p)
                       \/ Abandon(p))
    <3>1. run'[p].phase \in {"desired", "applying", "done", "idle"}
      <4>1. CASE ReceiveDesired(p)
        BY <4>1 DEF TypeOK, RunIdle, ReceiveDesired
      <4>2. CASE ReadEntries(p) \/ Finish(p)
        BY <1>0, <4>2 DEF TypeOK, RunState, ReadEntries, Finish
      <4>3. CASE Report(p) \/ Abandon(p)
        BY <4>3 DEF TypeOK, RunIdle, Report, Abandon
      <4>. QED
        BY <2>5, <4>1, <4>2, <4>3
    <3>. QED
      BY <1>1, <2>5, <3>1
  <2>6. CASE q = p /\ (KillConnections(p) \/ KillFails(p))
    BY <1>0, <1>1, <2>6 DEF TypeOK, RunState, KillConnections, KillFails
  <2>. QED
    BY <1>1, <2>1, <2>2, <2>3, <2>4, <2>5, <2>6 DEF RunStep
<1>2. CASE UNCHANGED run
  BY <1>2 DEF HandOK
<1>. QED
  BY <1>1, <1>2 DEF Next, AdminStep, vars, HandOK, ChangePolicy, Connect, AdminAdds,
     AdminRemoves

\* Type correctness, for every value of the constants.
THEOREM TypeCorrect == Spec => []TypeOK
<1>1. Spec => [](TypeOK /\ HandOK)
  BY InitTypeOK, NextTypeOK, NextHandOK, PTL DEF Spec
<1>. QED
  BY <1>1, PTL
-----------------------------------------------------------------------------
(* The administrators' entries.  A run writes by id, from a list it read   *)
(* long ago; that this never hits an entry of the administrators rests on  *)
(* ids being used once.                                                    *)

\* Ids name entries, and the next one is new.
IdsOK ==
  /\ \A e \in entries : e.id < nextId
  /\ \A e, f \in entries : e.id = f.id => e = f

\* What a run found is still managed, and has the address it was found with, or is
\* gone for good.
FoundOK ==
  \A p \in Applier : \A e \in run[p].found :
    /\ e.id < nextId
    /\ \A f \in entries : f.id = e.id => Managed(f) /\ f.address = e.address

IInv == TypeOK /\ HandOK /\ IdsOK /\ FoundOK

LEMMA InitIInv == Init => IInv
BY InitTypeOK DEF Init, IInv, IdsOK, FoundOK, RunIdle

\* The four ways a step treats the list ...
Inserts(e) == entries' = entries \cup {e} /\ nextId' = nextId + 1 /\ e.id = nextId

Renames(id, comment) ==
  /\ entries' = {IF x.id = id THEN Renamed(x, comment) ELSE x : x \in entries}
  /\ UNCHANGED nextId

Deletes(id) == entries' = {x \in entries : x.id # id} /\ UNCHANGED nextId

Leaves == UNCHANGED <<entries, nextId>>

\* ... and the two ways it treats what was found: runs keep or forget it, or read it
\* from the list as it is.
FoundShrinks == \A p \in Applier : run'[p].found \subseteq run[p].found

FoundIsRead ==
  \A p \in Applier : run'[p].found \subseteq run[p].found \cup ManagedEntries

LEMMA InsertKeeps ==
  ASSUME TypeOK, IdsOK, FoundOK, NEW e \in Entry, Inserts(e), FoundShrinks
  PROVE  IdsOK' /\ FoundOK'
<1>0. /\ nextId \in Nat /\ \A x \in entries : x.id \in Nat
      /\ e.id \in Nat /\ nextId < nextId + 1
  BY DEF TypeOK, Entry
<1>1. IdsOK'
  BY <1>0 DEF IdsOK, Inserts
<1>2. \A p \in Applier : \A x \in run[p].found : x.id \in Nat
  BY DEF TypeOK, RunState, Entry
<1>3. FoundOK'
  BY <1>0, <1>2 DEF FoundOK, FoundShrinks, Inserts, Managed
<1>. QED
  BY <1>1, <1>3

LEMMA RenameKeeps ==
  ASSUME TypeOK, IdsOK, FoundOK, NEW n \in Nat, NEW c \in Nat, Renames(n, c), FoundShrinks
  PROVE  IdsOK' /\ FoundOK'
<1>1. ASSUME NEW y \in entries'
      PROVE  \E x \in entries : /\ y.id = x.id /\ y.address = x.address
                                /\ y = IF x.id = n THEN Renamed(x, c) ELSE x
  <2>1. PICK x \in entries : y = IF x.id = n THEN Renamed(x, c) ELSE x
    BY DEF Renames
  <2>2. x \in Entry
    BY DEF TypeOK
  <2>. QED
    BY <2>1, <2>2 DEF Renamed, Entry
<1>2. IdsOK'
  BY <1>1 DEF IdsOK, Renames
<1>3. \A x \in Entry : Managed(Renamed(x, c))
  BY SentinelAssumption DEF Managed, Renamed, Entry
<1>4. \A x \in entries : x \in Entry
  BY DEF TypeOK
<1>5. FoundOK'
  <2> SUFFICES ASSUME NEW p \in Applier, NEW e \in run'[p].found, NEW f \in entries',
                      f.id = e.id
               PROVE  Managed(f) /\ f.address = e.address
    BY DEF FoundOK, FoundShrinks, Renames
  <2>1. PICK x \in entries : /\ f.id = x.id /\ f.address = x.address
                             /\ f = IF x.id = n THEN Renamed(x, c) ELSE x
    BY <1>1
  <2>2. Managed(x) /\ x.address = e.address
    BY <2>1 DEF FoundOK, FoundShrinks
  <2>. QED
    BY <2>1, <2>2, <1>3, <1>4
<1>. QED
  BY <1>2, <1>5

LEMMA DeleteKeeps ==
  ASSUME IdsOK, FoundOK, NEW n, Deletes(n), FoundShrinks
  PROVE  IdsOK' /\ FoundOK'
BY DEF IdsOK, FoundOK, Deletes, FoundShrinks, Managed

LEMMA LeaveKeeps ==
  ASSUME IdsOK, FoundOK, Leaves, FoundIsRead
  PROVE  IdsOK' /\ FoundOK'
<1>1. IdsOK'
  BY DEF IdsOK, Leaves
<1>2. FoundOK'
  <2> SUFFICES ASSUME NEW p \in Applier, NEW e \in run'[p].found
               PROVE  /\ e.id < nextId
                      /\ \A f \in entries : f.id = e.id => Managed(f) /\ f.address = e.address
    BY DEF FoundOK, Leaves, Managed
  <2>1. CASE e \in run[p].found
    BY <2>1 DEF FoundOK
  <2>2. CASE e \in ManagedEntries
    BY <2>2 DEF ManagedEntries, IdsOK
  <2>. QED
    BY <2>1, <2>2 DEF FoundIsRead
<1>. QED
  BY <1>1, <1>2

\* Every step of a run has one of these shapes: it leaves the list alone, adds a
\* managed entry it wants, renames an entry it found and wants, or deletes one it
\* found and does not want.
Shape(p) ==
  \/ Leaves /\ FoundIsRead
  \/ \E a \in Wanted(p) : Inserts(NewEntry(p, a)) /\ FoundShrinks
  \/ \E e \in run[p].found : /\ e.address \in Wanted(p)
                             /\ Renames(e.id, run[p].want[e.address]) /\ FoundShrinks
  \/ \E e \in run[p].found : /\ e.address \notin Wanted(p)
                             /\ Deletes(e.id) /\ FoundShrinks

LEMMA HandleShrinks ==
  ASSUME TypeOK, NEW p \in Applier, NEW a, NEW b, Handle(p, a, b)
  PROVE  FoundShrinks
<1>1. run[p] \in RunState
  BY DEF TypeOK
<1>2. ASSUME NEW q \in Applier PROVE run'[q].found = run[q].found
  <2>1. CASE q = p
    BY <1>1, <2>1 DEF Handle, TypeOK, RunState
  <2>2. CASE q # p
    BY <2>2 DEF Handle, TypeOK
  <2>. QED
    BY <2>1, <2>2
<1>. QED
  BY <1>2 DEF FoundShrinks

LEMMA RunStepShape ==
  ASSUME TypeOK, NEW p \in Applier, RunStep(p)
  PROVE  Shape(p)
<1>0. run[p] \in RunState /\ run \in [Applier -> RunState]
  BY DEF TypeOK
<1>1. CASE ReceiveDesired(p)
  BY <1>0, <1>1 DEF ReceiveDesired, RunIdle, Shape, Leaves, FoundIsRead
<1>2. CASE ReadEntries(p)
  <2>1. PICK found \in SUBSET ManagedEntries :
          run' = [run EXCEPT ![p].phase = "applying", ![p].found = found]
    BY <1>2 DEF ReadEntries
  <2>2. FoundIsRead
    BY <1>0, <2>1 DEF FoundIsRead, RunState
  <2>. QED
    BY <1>2, <2>2 DEF ReadEntries, Shape, Leaves
<1>3. ASSUME NEW a \in Address, AddEntry(p, a) \/ AddFails(p, a) PROVE Shape(p)
  <2>1. FoundShrinks /\ FoundIsRead
    <3>1. PICK ph : run' = [run EXCEPT ![p].phase = ph, ![p].inHand = a]
      BY <1>3 DEF AddEntry, AddFails
    <3>. QED
      BY <1>0, <3>1 DEF RunState, FoundShrinks, FoundIsRead
  <2>2. a \in Wanted(p)
    BY <1>3 DEF AddEntry, AddFails, ToAdd
  <2>3. Insert(p, a) \/ Leaves
    BY <1>3 DEF AddEntry, AddFails, Leaves
  <2>4. Insert(p, a) => Inserts(NewEntry(p, a))
    BY DEF Insert, Inserts, NewEntry
  <2>. QED
    BY <2>1, <2>2, <2>3, <2>4 DEF Shape
<1>4. CASE VerifyAdd(p) \/ KillConnections(p) \/ KillFails(p) \/ Finish(p)
  <2>1. FoundIsRead
    BY <1>0, <1>4 DEF VerifyAdd, KillConnections, KillFails, Finish, RunState, FoundIsRead
  <2>2. Leaves
    BY <1>4 DEF VerifyAdd, KillConnections, KillFails, Finish, Leaves
  <2>. QED
    BY <2>1, <2>2 DEF Shape
<1>5. CASE Report(p) \/ Abandon(p)
  BY <1>0, <1>5 DEF Report, Abandon, RunIdle, Shape, Leaves, FoundIsRead
<1>6. ASSUME NEW e \in run[p].found, UpdateComment(p, e) \/ UpdateFails(p, e)
      PROVE  Shape(p)
  <2>1. PICK b : Handle(p, e.address, b)
    BY <1>6, Zenon DEF UpdateComment, UpdateFails
  <2>2. FoundShrinks
    BY <2>1, HandleShrinks
  <2>3. FoundIsRead
    BY <2>2 DEF FoundShrinks, FoundIsRead
  <2>4. e \in ToUpdate(p) /\ UNCHANGED nextId /\ (Rename(p, e) \/ UNCHANGED entries)
    BY <1>6, Zenon DEF UpdateComment, UpdateFails
  <2>5. e.address \in Wanted(p)
    BY <2>4 DEF ToUpdate
  <2>6. Rename(p, e) => Renames(e.id, run[p].want[e.address])
    BY <2>4 DEF Rename, Renames
  <2>. QED
    BY <2>2, <2>3, <2>4, <2>5, <2>6 DEF Shape, Leaves
<1>7. ASSUME NEW e \in run[p].found, RemoveEntry(p, e) \/ RemoveFails(p, e)
      PROVE  Shape(p)
  <2>1. PICK b : Handle(p, e.address, b)
    BY <1>7, Zenon DEF RemoveEntry, RemoveFails
  <2>2. FoundShrinks
    BY <2>1, HandleShrinks
  <2>3. FoundIsRead
    BY <2>2 DEF FoundShrinks, FoundIsRead
  <2>4. e \in ToRemove(p) /\ UNCHANGED nextId /\ (Delete(e) \/ UNCHANGED entries)
    BY <1>7, Zenon DEF RemoveEntry, RemoveFails
  <2>5. e.address \notin Wanted(p)
    BY <2>4 DEF ToRemove
  <2>6. Delete(e) => Deletes(e.id)
    BY <2>4 DEF Delete, Deletes
  <2>. QED
    BY <2>2, <2>3, <2>4, <2>5, <2>6 DEF Shape, Leaves
<1>. QED
  BY <1>1, <1>2, <1>3, <1>4, <1>5, <1>6, <1>7 DEF RunStep

LEMMA ShapeKeeps ==
  ASSUME TypeOK, IdsOK, FoundOK, NEW p \in Applier, Shape(p)
  PROVE  IdsOK' /\ FoundOK'
<1>1. CASE Leaves /\ FoundIsRead
  BY <1>1, LeaveKeeps
<1>2. ASSUME NEW a \in Wanted(p), Inserts(NewEntry(p, a)), FoundShrinks
      PROVE  IdsOK' /\ FoundOK'
  BY <1>2, EntryTypes, InsertKeeps
<1>3. ASSUME NEW e \in run[p].found, e.address \in Wanted(p),
             Renames(e.id, run[p].want[e.address]), FoundShrinks
      PROVE  IdsOK' /\ FoundOK'
  <2>1. e.id \in Nat
    BY DEF TypeOK, RunState, Entry
  <2>. QED
    BY <1>3, <2>1, EntryTypes, RenameKeeps
<1>4. ASSUME NEW e \in run[p].found, Deletes(e.id), FoundShrinks
      PROVE  IdsOK' /\ FoundOK'
  BY <1>4, DeleteKeeps
<1>. QED
  BY <1>1, <1>2, <1>3, <1>4 DEF Shape

LEMMA NextIInv == IInv /\ [Next]_vars => IInv'
<1> SUFFICES ASSUME IInv, [Next]_vars PROVE IInv'
  OBVIOUS
<1>0. TypeOK /\ TypeOK' /\ HandOK' /\ IdsOK /\ FoundOK
  BY NextTypeOK, NextHandOK DEF IInv
<1>1. ASSUME NEW p \in Applier, RunStep(p) PROVE IInv'
  BY <1>0, <1>1, RunStepShape, ShapeKeeps DEF IInv
<1>2. CASE Leaves /\ UNCHANGED run
  BY <1>0, <1>2, LeaveKeeps DEF IInv, FoundIsRead
<1>3. ASSUME NEW a \in Address, AdminAdds(a) PROVE IInv'
  <2>1. Inserts([id |-> nextId, address |-> a, comment |-> Foreign])
    BY <1>3 DEF AdminAdds, Inserts
  <2>2. [id |-> nextId, address |-> a, comment |-> Foreign] \in Entry
    BY <1>0 DEF TypeOK, Entry, Comment
  <2>. QED
    BY <1>0, <1>3, <2>1, <2>2, InsertKeeps DEF IInv, AdminAdds, FoundShrinks
<1>4. ASSUME NEW e \in entries, AdminRemoves(e) PROVE IInv'
  <2>1. Deletes(e.id)
    BY <1>0, <1>4 DEF AdminRemoves, Deletes, IdsOK
  <2>. QED
    BY <1>0, <1>4, <2>1, DeleteKeeps DEF IInv, AdminRemoves, FoundShrinks
<1>. QED
  BY <1>1, <1>2, <1>3, <1>4
     DEF Next, AdminStep, ChangePolicy, Connect, Leaves, vars

LEMMA Invariance == Spec => []IInv
BY InitIInv, NextIInv, PTL DEF Spec

LEMMA ShapeIsHarmless ==
  ASSUME IInv, NEW p \in Applier, Shape(p)
  PROVE  ForeignEntries' = ForeignEntries
<1> USE SentinelAssumption DEF IInv
<1>1. CASE Leaves
  BY <1>1 DEF Leaves, ForeignEntries, Managed
<1>2. ASSUME NEW a \in Wanted(p), Inserts(NewEntry(p, a))
      PROVE  ForeignEntries' = ForeignEntries
  <2>1. Managed(NewEntry(p, a))
    BY EntryTypes DEF Managed, NewEntry
  <2>. QED
    BY <1>2, <2>1 DEF Inserts, ForeignEntries, Managed
<1>3. ASSUME NEW e \in run[p].found, e.address \in Wanted(p),
             Renames(e.id, run[p].want[e.address])
      PROVE  ForeignEntries' = ForeignEntries
  <2>1. run[p].want[e.address] \in Nat
    BY <1>3, EntryTypes
  <2>2. \A x \in entries : x.id = e.id =>
          Managed(x) /\ Managed(Renamed(x, run[p].want[e.address]))
    BY <2>1 DEF FoundOK, Managed, Renamed, TypeOK, Entry
  <2>. QED
    BY <1>3, <2>2 DEF Renames, ForeignEntries, Managed
<1>4. ASSUME NEW e \in run[p].found, Deletes(e.id)
      PROVE  ForeignEntries' = ForeignEntries
  BY <1>4 DEF Deletes, ForeignEntries, Managed, FoundOK
<1>. QED
  BY <1>1, <1>2, <1>3, <1>4 DEF Shape

\* No synchronisation, whatever fails in it and whatever runs beside it, touches an
\* entry of the administrators.
THEOREM ForeignSafe == Spec => ForeignUntouched
<1>1. ASSUME IInv, [Next]_vars
      PROVE  [adminLeft' = adminLeft => ForeignEntries' = ForeignEntries]_vars
  <2>1. ASSUME NEW p \in Applier, RunStep(p) PROVE ForeignEntries' = ForeignEntries
    BY <1>1, <2>1, RunStepShape, ShapeIsHarmless DEF IInv
  <2>2. CASE UNCHANGED entries
    BY <2>2 DEF ForeignEntries, Managed
  <2>3. CASE AdminStep
    BY <1>1, <2>3, BoundAssumption DEF AdminStep, AdminAdds, AdminRemoves, IInv, TypeOK
  <2>. QED
    BY <1>1, <2>1, <2>2, <2>3 DEF Next, ChangePolicy, Connect, vars
<1>. QED
  BY <1>1, Invariance, PTL DEF Spec, ForeignUntouched
-----------------------------------------------------------------------------
(* The refinement: every step of apply_desired_blocklist, seen from        *)
(* outside, is a step of Replicator or a stutter.                          *)

\* The addresses the system manages change by at most one, in the direction the run
\* wants it.
LEMMA ShapeMoves ==
  ASSUME IInv, NEW p \in Applier, Shape(p)
  PROVE  \/ UNCHANGED ManagedAddresses
         \/ \E a \in Wanted(p) : ManagedAddresses' = ManagedAddresses \cup {a}
         \/ \E a \in Address \ Wanted(p) : ManagedAddresses' = ManagedAddresses \ {a}
<1> USE SentinelAssumption DEF IInv
<1>1. CASE Leaves
  BY <1>1 DEF Leaves, ManagedAddresses, ManagedEntries, Managed
<1>2. ASSUME NEW a \in Wanted(p), Inserts(NewEntry(p, a))
      PROVE  ManagedAddresses' = ManagedAddresses \cup {a}
  <2>1. Managed(NewEntry(p, a)) /\ NewEntry(p, a).address = a
    BY EntryTypes DEF Managed, NewEntry
  <2>2. ManagedEntries' = ManagedEntries \cup {NewEntry(p, a)}
    BY <1>2, <2>1 DEF Inserts, ManagedEntries, Managed
  <2>. QED
    BY <2>1, <2>2 DEF ManagedAddresses
<1>3. ASSUME NEW e \in run[p].found, e.address \in Wanted(p),
             Renames(e.id, run[p].want[e.address])
      PROVE  UNCHANGED ManagedAddresses
  <2> DEFINE c == run[p].want[e.address]
             image == [x \in entries |-> IF x.id = e.id THEN Renamed(x, c) ELSE x]
  <2>1. c \in Nat
    BY <1>3, EntryTypes
  <2>2. \A x \in entries : /\ image[x].address = x.address
                           /\ Managed(image[x]) <=> Managed(x)
    BY <2>1 DEF FoundOK, Managed, Renamed, TypeOK, Entry
  <2>3. entries' = {image[x] : x \in entries}
    BY <1>3 DEF Renames
  <2>. HIDE DEF image
  <2>4. ManagedAddresses = {x.address : x \in {y \in entries : Managed(y)}}
        /\ ManagedAddresses' = {x.address : x \in {y \in entries' : Managed(y)}}
    BY DEF ManagedAddresses, ManagedEntries, Managed
  <2>5. ASSUME NEW b PROVE b \in ManagedAddresses <=> b \in ManagedAddresses'
    <3>1. b \in ManagedAddresses <=> \E x \in entries : Managed(x) /\ x.address = b
      BY <2>4
    <3>2. b \in ManagedAddresses' <=> \E x \in entries' : Managed(x) /\ x.address = b
      BY <2>4
    <3>. QED
      BY <2>2, <2>3, <3>1, <3>2
  <2>. QED
    BY <2>5
<1>4. ASSUME NEW e \in run[p].found, e.address \notin Wanted(p), Deletes(e.id)
      PROVE  \/ UNCHANGED ManagedAddresses
             \/ \E a \in Address \ Wanted(p) : ManagedAddresses' = ManagedAddresses \ {a}
  <2>1. e.address \in Address \ Wanted(p)
    BY <1>4 DEF TypeOK, RunState, Entry
  <2>2. \A x \in entries : x.id = e.id => x.address = e.address
    BY DEF FoundOK
  <2>3. ManagedEntries' = {x \in ManagedEntries : x.id # e.id}
    BY <1>4 DEF Deletes, ManagedEntries, Managed
  <2>4. CASE \E x \in ManagedEntries : x.id # e.id /\ x.address = e.address
    <3>1. UNCHANGED ManagedAddresses
      BY <2>2, <2>3, <2>4 DEF ManagedAddresses, ManagedEntries
    <3>. QED
      BY <3>1
  <2>5. CASE \A x \in ManagedEntries : x.id # e.id => x.address # e.address
    <3>1. ManagedAddresses' = ManagedAddresses \ {e.address}
      BY <2>2, <2>3, <2>5 DEF ManagedAddresses, ManagedEntries
    <3>. QED
      BY <2>1, <3>1
  <2>. QED
    BY <2>4, <2>5
<1>. QED
  BY <1>1, <1>2, <1>3, <1>4 DEF Shape

\* A run takes its snapshot when it receives the blocklist, keeps it, and drops it.
LEMMA RunSnapshot ==
  ASSUME TypeOK, NEW p \in Applier, RunStep(p)
  PROVE  \/ /\ run[p].phase # "idle" /\ UNCHANGED Snapshot
         \/ /\ UNCHANGED entries
            /\ Snapshot[p] = None /\ Snapshot' = [Snapshot EXCEPT ![p] = Desired]
         \/ /\ UNCHANGED entries
            /\ Snapshot' = [Snapshot EXCEPT ![p] = None]
<1>0. run[p] \in RunState /\ run \in [Applier -> RunState]
  BY DEF TypeOK
<1>1. CASE ReceiveDesired(p)
  <2>1. /\ run[p].phase = "idle" /\ UNCHANGED entries
        /\ run'[p].phase = "desired" /\ run'[p].want = wanted
        /\ \A q \in Applier \ {p} : run'[q] = run[q]
    BY <1>0, <1>1 DEF ReceiveDesired, RunIdle
  <2>2. Wanted(p)' = Desired
    BY <2>1 DEF Wanted, Desired
  <2>3. \A q \in Applier \ {p} : Snapshot'[q] = Snapshot[q]
    BY <2>1 DEF Snapshot, Wanted
  <2>4. Snapshot[p] = None /\ Snapshot'[p] = Desired
    BY <2>1, <2>2 DEF Snapshot
  <2>5. Snapshot' = [Snapshot EXCEPT ![p] = Desired]
    BY <2>3, <2>4 DEF Snapshot
  <2>. QED
    BY <2>1, <2>4, <2>5
<1>2. CASE Report(p) \/ Abandon(p)
  <2>1. /\ UNCHANGED entries /\ run'[p].phase = "idle"
        /\ \A q \in Applier \ {p} : run'[q] = run[q]
    BY <1>0, <1>2 DEF Report, Abandon, RunIdle
  <2>2. \A q \in Applier \ {p} : Snapshot'[q] = Snapshot[q]
    BY <2>1 DEF Snapshot, Wanted
  <2>3. Snapshot'[p] = None
    BY <2>1 DEF Snapshot
  <2>4. Snapshot' = [Snapshot EXCEPT ![p] = None]
    BY <2>2, <2>3 DEF Snapshot
  <2>. QED
    BY <2>1, <2>4
<1>3. ASSUME run[p].phase # "idle", run'[p].phase # "idle", run'[p].want = run[p].want,
             \A q \in Applier \ {p} : run'[q] = run[q]
      PROVE  UNCHANGED Snapshot
  <2>1. \A q \in Applier : Snapshot'[q] = Snapshot[q]
    BY <1>3 DEF Snapshot, Wanted
  <2>. QED
    BY <2>1 DEF Snapshot
<1>4. CASE ReadEntries(p) \/ VerifyAdd(p) \/ KillConnections(p) \/ KillFails(p)
           \/ Finish(p)
  <2>1. /\ run[p].phase # "idle" /\ run'[p].phase # "idle" /\ run'[p].want = run[p].want
        /\ \A q \in Applier \ {p} : run'[q] = run[q]
    BY <1>0, <1>4 DEF ReadEntries, VerifyAdd, KillConnections, KillFails, Finish, RunState,
       MayRemove, MayUpdate
  <2>. QED
    BY <1>3, <2>1
<1>5. ASSUME NEW a \in Address, AddEntry(p, a) \/ AddFails(p, a)
      PROVE  run[p].phase # "idle" /\ UNCHANGED Snapshot
  <2>1. PICK ph \in {"killing", "verifying"} :
          run' = [run EXCEPT ![p].phase = ph, ![p].inHand = a]
    BY <1>5 DEF AddEntry, AddFails
  <2>2. /\ run[p].phase # "idle" /\ run'[p].phase # "idle" /\ run'[p].want = run[p].want
        /\ \A q \in Applier \ {p} : run'[q] = run[q]
    BY <1>0, <1>5, <2>1 DEF AddEntry, AddFails, RunState
  <2>. QED
    BY <1>3, <2>2
<1>6. ASSUME NEW e \in run[p].found,
             \/ UpdateComment(p, e) \/ UpdateFails(p, e)
             \/ RemoveEntry(p, e) \/ RemoveFails(p, e)
      PROVE  run[p].phase # "idle" /\ UNCHANGED Snapshot
  <2>1. PICK b : Handle(p, e.address, b)
    BY <1>6, Zenon DEF UpdateComment, UpdateFails, RemoveEntry, RemoveFails
  <2>2. MayUpdate(p)
    BY <1>6, Zenon DEF UpdateComment, UpdateFails, RemoveEntry, RemoveFails, MayRemove
  <2>3. /\ run[p].phase # "idle" /\ run'[p].phase # "idle" /\ run'[p].want = run[p].want
        /\ \A q \in Applier \ {p} : run'[q] = run[q]
    BY <1>0, <2>1, <2>2 DEF Handle, MayUpdate, RunState
  <2>. QED
    BY <1>3, <2>3
<1>. QED
  BY <1>1, <1>2, <1>4, <1>5, <1>6 DEF RunStep

LEMMA InitReplica == Init => Replica!Init
<1> SUFFICES ASSUME Init PROVE Replica!Init
  OBVIOUS
<1>1. \A p \in Applier : run[p].phase = "idle"
  BY DEF Init, RunIdle
<1>. QED
  BY <1>1 DEF Init, Replica!Init, ManagedAddresses, ManagedEntries, ForeignEntries,
     Desired, Covered, Snapshot

LEMMA NextReplica == IInv /\ [Next]_vars => [Replica!Next]_Replica!vars
<1> SUFFICES ASSUME IInv, [Next]_vars PROVE [Replica!Next]_Replica!vars
  OBVIOUS
<1>0. TypeOK
  BY DEF IInv
<1>1. ASSUME NEW p \in Applier, RunStep(p) PROVE [Replica!Next]_Replica!vars
  <2>1. UNCHANGED Desired
    BY <1>1 DEF Desired, RunStep, ReceiveDesired, ReadEntries, AddEntry, AddFails, VerifyAdd,
       KillConnections, KillFails, UpdateComment, UpdateFails, RemoveEntry, RemoveFails,
       Finish, Report, Abandon
  <2>2. Shape(p)
    BY <1>0, <1>1, RunStepShape
  <2>3. UNCHANGED Covered
    BY <2>2, ShapeIsHarmless DEF Covered
  <2>4. UNCHANGED entries => UNCHANGED ManagedAddresses
    BY DEF ManagedAddresses, ManagedEntries, Managed
  <2>5. CASE /\ UNCHANGED entries
             /\ Snapshot[p] = None /\ Snapshot' = [Snapshot EXCEPT ![p] = Desired]
    BY <2>1, <2>3, <2>4, <2>5 DEF Replica!Next, Replica!TakeSnapshot
  <2>6. CASE UNCHANGED entries /\ Snapshot' = [Snapshot EXCEPT ![p] = None]
    BY <2>1, <2>3, <2>4, <2>6 DEF Replica!Next, Replica!DropSnapshot
  <2>7. CASE run[p].phase # "idle" /\ UNCHANGED Snapshot
    <3>1. Snapshot[p] = Wanted(p) /\ Snapshot[p] # None
      BY <2>7, SentinelAssumption DEF Snapshot, Wanted
    <3>2. CASE UNCHANGED ManagedAddresses
      BY <2>1, <2>3, <2>7, <3>2 DEF Replica!vars
    <3>3. CASE ~UNCHANGED ManagedAddresses
      <4>1. Replica!Move(p)
        BY <2>1, <2>2, <2>3, <2>7, <3>1, <3>3, ShapeMoves DEF Replica!Move
      <4>. QED
        BY <4>1 DEF Replica!Next
    <3>. QED
      BY <3>2, <3>3
  <2>. QED
    BY <1>0, <1>1, <2>5, <2>6, <2>7, RunSnapshot
<1>2. CASE UNCHANGED <<entries, run>>
  <2>1. UNCHANGED <<ManagedAddresses, Covered, Snapshot>>
    BY <1>2 DEF ManagedAddresses, ManagedEntries, Covered, ForeignEntries, Managed,
       Snapshot, Wanted
  <2>2. Desired' \in SUBSET Address
    BY DEF Desired
  <2>. QED
    BY <2>1, <2>2 DEF Replica!Next, Replica!ChangeDesired
<1>3. CASE AdminStep
  <2>1. UNCHANGED ManagedEntries /\ UNCHANGED <<wanted, run>>
    BY <1>3 DEF AdminStep, AdminAdds, AdminRemoves, ManagedEntries, Managed
  <2>2. UNCHANGED <<ManagedAddresses, Desired, Snapshot>>
    BY <2>1 DEF ManagedAddresses, Desired, Snapshot, Wanted
  <2>3. Covered' \in SUBSET Address
    <3>1. entries' \subseteq Entry
      BY NextTypeOK DEF IInv, TypeOK
    <3>. QED
      BY <3>1 DEF Covered, ForeignEntries, Entry
  <2>. QED
    BY <2>2, <2>3 DEF Replica!Next, Replica!ChangeCovered
<1>. QED
  BY <1>1, <1>2, <1>3 DEF Next, ChangePolicy, Connect, vars

\* The detailed synchronisation implements the abstract one: TLC checks ReplicaSpec,
\* with liveness, on small instances; its safety part holds for every instance.
THEOREM ImplementsReplicator == Spec => Replica!Safety
BY InitReplica, NextReplica, Invariance, PTL DEF Spec, Replica!Safety
-----------------------------------------------------------------------------
(* What a synchronisation leaves behind when no other runs beside it; two  *)
(* that overlap do leave a second entry.                                   *)

Begun(p) == run[p].phase \in {"applying", "verifying", "killing", "done"}

\* The next state of a run, field by field: it keeps what it wants and found, and an
\* error once counted stays counted.
Becomes(p, phase, handled, inHand, killed) ==
  /\ run'[p].phase = phase /\ run'[p].handled = handled
  /\ run'[p].inHand = inHand /\ run'[p].killed = killed
  /\ run'[p].want = run[p].want /\ run'[p].found = run[p].found
  /\ run[p].failed => run'[p].failed

\* The steps of a run, as what they do to the run, the list and the connections.
Restarts(p) ==
  /\ run'[p].phase \in {"idle", "desired"} /\ run'[p].inHand = None
  /\ run'[p].handled = {} /\ run'[p].killed = {} /\ run'[p].found = {}
  /\ ~run'[p].failed
  /\ Leaves /\ UNCHANGED connected

Reads(p) ==
  /\ run[p].phase = "desired"
  /\ run'[p].phase = "applying" /\ run'[p].inHand = run[p].inHand
  /\ run'[p].handled = run[p].handled /\ run'[p].killed = run[p].killed
  /\ run'[p].want = run[p].want
  /\ run'[p].found \subseteq ManagedEntries
  /\ \A e \in ManagedEntries : \E f \in run'[p].found : f.address = e.address
  /\ \A e, f \in run'[p].found : e.address = f.address => e = f
  /\ Leaves /\ UNCHANGED connected

Adds(p, a) ==
  /\ run[p].phase = "applying" /\ a \in ToAdd(p)
  /\ \E phase \in {"killing", "verifying"} :
       /\ Becomes(p, phase, run[p].handled, a, run[p].killed)
       /\ Inserts(NewEntry(p, a)) \/ (phase = "verifying" /\ Leaves)
  /\ UNCHANGED connected

Verifies(p) ==
  /\ run[p].phase = "verifying"
  /\ \/ /\ Listed(run[p].inHand)
        /\ Becomes(p, "killing", run[p].handled, run[p].inHand, run[p].killed)
     \/ /\ Becomes(p, "applying", run[p].handled \cup {run[p].inHand}, None, run[p].killed)
        /\ run'[p].failed
  /\ Leaves /\ UNCHANGED connected

Kills(p) ==
  /\ run[p].phase = "killing"
  /\ \E k \in SUBSET {run[p].inHand} :
       /\ Becomes(p, "applying", run[p].handled \cup {run[p].inHand}, None, run[p].killed \cup k)
       /\ connected' = connected \ k
  /\ Leaves

Updates(p, e) ==
  /\ run[p].phase = "applying" /\ e \in ToUpdate(p)
  /\ Becomes(p, "applying", run[p].handled \cup {e.address}, run[p].inHand, run[p].killed)
  /\ Renames(e.id, run[p].want[e.address]) \/ Leaves
  /\ UNCHANGED connected

Removes(p, e) ==
  /\ run[p].phase = "applying" /\ e \in ToRemove(p)
  /\ Becomes(p, "applying", run[p].handled \cup {e.address}, run[p].inHand, run[p].killed)
  /\ \/ Deletes(e.id) /\ (run'[p].failed \/ \E x \in entries : x.id = e.id)
     \/ Leaves /\ run'[p].failed
  /\ UNCHANGED connected

Finishes(p) ==
  /\ run[p].phase = "applying" /\ ToAdd(p) = {} /\ ToRemove(p) = {}
  /\ Becomes(p, "done", run[p].handled, run[p].inHand, run[p].killed)
  /\ Leaves /\ UNCHANGED connected

Effect(p) ==
  \/ Restarts(p) \/ Reads(p)
  \/ \E a \in Address : Adds(p, a)
  \/ Verifies(p) \/ Kills(p)
  \/ \E e \in run[p].found : Updates(p, e) \/ Removes(p, e)
  \/ Finishes(p)

LEMMA HandleBecomes ==
  ASSUME TypeOK, NEW p \in Applier, NEW a \in Address, NEW b \in BOOLEAN, Handle(p, a, b)
  PROVE  /\ Becomes(p, run[p].phase, run[p].handled \cup {a}, run[p].inHand, run[p].killed)
         /\ b => run'[p].failed
<1>0. run[p] \in RunState /\ run \in [Applier -> RunState]
  BY DEF TypeOK
<1> DEFINE h == run[p].handled \cup {a}
           f == run[p].failed \/ b
<1>1. run'[p] = [run[p] EXCEPT !.handled = h, !.failed = f]
  BY <1>0 DEF Handle
<1>2. run'[p].failed = f
  BY <1>0, <1>1 DEF RunState
<1>3. (run[p].failed => f) /\ (b => f)
  OBVIOUS
<1>. HIDE DEF f
<1>4. /\ run'[p].phase = run[p].phase /\ run'[p].handled = h
      /\ run'[p].inHand = run[p].inHand /\ run'[p].killed = run[p].killed
      /\ run'[p].want = run[p].want /\ run'[p].found = run[p].found
  BY <1>0, <1>1 DEF RunState
<1>. QED
  BY <1>2, <1>3, <1>4, Zenon DEF Becomes

LEMMA RunStepEffect ==
  ASSUME TypeOK, NEW p \in Applier, RunStep(p)
  PROVE  Effect(p)
<1>0. run[p] \in RunState /\ run \in [Applier -> RunState]
  BY DEF TypeOK
<1>1. CASE ReceiveDesired(p) \/ Report(p) \/ Abandon(p)
  <2>1. ASSUME NEW x, x = RunIdle \/ x = [RunIdle EXCEPT !.phase = "desired", !.want = wanted],
               run' = [run EXCEPT ![p] = x]
        PROVE  /\ run'[p].phase \in {"idle", "desired"} /\ run'[p].inHand = None
               /\ run'[p].handled = {} /\ run'[p].killed = {} /\ run'[p].found = {}
               /\ ~run'[p].failed
    <3>1. run'[p] = x
      BY <1>0, <2>1
    <3>2. /\ RunIdle.phase = "idle" /\ RunIdle.inHand = None /\ RunIdle.handled = {}
          /\ RunIdle.killed = {} /\ RunIdle.found = {} /\ ~RunIdle.failed
      BY DEF RunIdle
    <3>. QED
      BY <2>1, <3>1, <3>2, IdleType DEF RunState
  <2>2. Restarts(p)
    BY <1>1, <2>1 DEF ReceiveDesired, Report, Abandon, Restarts, Leaves
  <2>. QED
    BY <2>2 DEF Effect
<1>2. CASE ReadEntries(p)
  <2>1. PICK found \in SUBSET ManagedEntries :
          /\ {e.address : e \in found} = ManagedAddresses
          /\ \A e, f \in found : e.address = f.address => e = f
          /\ run' = [run EXCEPT ![p].phase = "applying", ![p].found = found]
    BY <1>2 DEF ReadEntries
  <2>2. \A e \in ManagedEntries : \E f \in found : f.address = e.address
    BY <2>1 DEF ManagedAddresses
  <2>3. /\ run'[p].phase = "applying" /\ run'[p].found = found
        /\ run'[p].inHand = run[p].inHand /\ run'[p].want = run[p].want
        /\ run'[p].handled = run[p].handled /\ run'[p].killed = run[p].killed
    BY <1>0, <2>1 DEF RunState
  <2>4. Reads(p)
    BY <1>2, <2>1, <2>2, <2>3 DEF Reads, ReadEntries, Leaves
  <2>. QED
    BY <2>4 DEF Effect
<1>3. ASSUME NEW a \in Address, AddEntry(p, a) \/ AddFails(p, a) PROVE Effect(p)
  <2>1. PICK phase \in {"killing", "verifying"} :
          /\ run' = [run EXCEPT ![p].phase = phase, ![p].inHand = a]
          /\ Insert(p, a) \/ (phase = "verifying" /\ Leaves)
    BY <1>3 DEF AddEntry, AddFails, Leaves
  <2>2. Becomes(p, phase, run[p].handled, a, run[p].killed)
    BY <1>0, <2>1 DEF RunState, Becomes
  <2>3. Insert(p, a) => Inserts(NewEntry(p, a))
    BY DEF Insert, Inserts, NewEntry
  <2>4. Adds(p, a)
    BY <1>3, <2>1, <2>2, <2>3 DEF Adds, AddEntry, AddFails
  <2>. QED
    BY <2>4 DEF Effect
<1>4. CASE VerifyAdd(p)
  <2>. DEFINE x == [run[p] EXCEPT !.phase = "applying", !.inHand = None,
                                  !.handled = @ \cup {run[p].inHand}, !.failed = TRUE]
  <2>1. Verifies(p)
    <3>1. CASE Listed(run[p].inHand) /\ run' = [run EXCEPT ![p].phase = "killing"]
      <4>1. Becomes(p, "killing", run[p].handled, run[p].inHand, run[p].killed)
        BY <1>0, <3>1 DEF RunState, Becomes
      <4>. QED
        BY <1>4, <3>1, <4>1 DEF VerifyAdd, Verifies, Leaves
    <3>2. CASE run' = [run EXCEPT ![p] = x]
      <4>1. /\ run'[p].failed
            /\ Becomes(p, "applying", run[p].handled \cup {run[p].inHand}, None, run[p].killed)
        BY <1>0, <3>2 DEF RunState, Becomes
      <4>. QED
        BY <1>4, <3>2, <4>1 DEF VerifyAdd, Verifies, Leaves
    <3>. QED
      BY <1>4, <3>1, <3>2 DEF VerifyAdd
  <2>. QED
    BY <2>1 DEF Effect
<1>5. CASE KillConnections(p)
  <2>1. Becomes(p, "applying", run[p].handled \cup {run[p].inHand}, None,
                run[p].killed \cup {run[p].inHand})
    BY <1>0, <1>5 DEF KillConnections, RunState, Becomes
  <2>2. Kills(p)
    BY <1>5, <2>1 DEF KillConnections, Kills, Leaves
  <2>. QED
    BY <2>2 DEF Effect
<1>6. CASE KillFails(p)
  <2>1. Becomes(p, "applying", run[p].handled \cup {run[p].inHand}, None, run[p].killed \cup {})
    BY <1>0, <1>6 DEF KillFails, RunState, Becomes
  <2>2. connected' = connected \ {} /\ {} \in SUBSET {run[p].inHand}
    BY <1>6 DEF KillFails
  <2>3. Kills(p)
    BY <1>6, <2>1, <2>2 DEF KillFails, Kills, Leaves
  <2>. QED
    BY <2>3 DEF Effect
<1>7. ASSUME NEW e \in run[p].found, UpdateComment(p, e) \/ UpdateFails(p, e)
      PROVE  Effect(p)
  <2>1. PICK b \in BOOLEAN : Handle(p, e.address, b)
    BY <1>7, Zenon DEF UpdateComment, UpdateFails
  <2>2. e.address \in Address
    BY <1>0 DEF RunState, Entry
  <2>3. Becomes(p, run[p].phase, run[p].handled \cup {e.address}, run[p].inHand, run[p].killed)
    BY <2>1, <2>2, HandleBecomes
  <2>4. /\ MayUpdate(p) /\ e \in ToUpdate(p) /\ UNCHANGED <<nextId, connected>>
        /\ Rename(p, e) \/ UNCHANGED entries
    BY <1>7, Zenon DEF UpdateComment, UpdateFails
  <2>5. Renames(e.id, run[p].want[e.address]) \/ Leaves
    BY <2>4 DEF Rename, Renames, Leaves
  <2>6. Updates(p, e)
    BY <2>3, <2>4, <2>5 DEF Updates, MayUpdate
  <2>. QED
    BY <2>6 DEF Effect
<1>8. ASSUME NEW e \in run[p].found, RemoveEntry(p, e) \/ RemoveFails(p, e)
      PROVE  Effect(p)
  <2> DEFINE gone == \A x \in entries : x.id # e.id
  <2>1. PICK b \in BOOLEAN : /\ Handle(p, e.address, b)
                             /\ \/ Delete(e) /\ b = gone
                                \/ (Delete(e) \/ UNCHANGED entries) /\ b
    BY <1>8, Zenon DEF RemoveEntry, RemoveFails
  <2>2. e.address \in Address
    BY <1>0 DEF RunState, Entry
  <2>3. /\ Becomes(p, run[p].phase, run[p].handled \cup {e.address}, run[p].inHand,
                   run[p].killed)
        /\ b => run'[p].failed
    BY <2>1, <2>2, HandleBecomes
  <2>4. MayRemove(p) /\ e \in ToRemove(p) /\ UNCHANGED <<nextId, connected>>
    BY <1>8, Zenon DEF RemoveEntry, RemoveFails
  <2>5. \/ Deletes(e.id) /\ (run'[p].failed \/ \E x \in entries : x.id = e.id)
        \/ Leaves /\ run'[p].failed
    BY <2>1, <2>3, <2>4 DEF Delete, Deletes, Leaves
  <2>6. Removes(p, e)
    BY <2>3, <2>4, <2>5 DEF Removes, MayRemove, MayUpdate
  <2>. QED
    BY <2>6 DEF Effect
<1>9. CASE Finish(p)
  <2>1. Becomes(p, "done", run[p].handled, run[p].inHand, run[p].killed)
    BY <1>0, <1>9 DEF Finish, RunState, Becomes
  <2>2. Finishes(p)
    BY <1>9, <2>1 DEF Finish, Finishes, MayRemove, MayUpdate, Leaves
  <2>. QED
    BY <2>2 DEF Effect
<1>. QED
  BY <1>1, <1>2, <1>3, <1>4, <1>5, <1>6, <1>7, <1>8, <1>9 DEF RunStep

\* Renaming by id keeps id, address and owner of every entry.
LEMMA RenameMatches ==
  ASSUME IInv, NEW p \in Applier, NEW e \in run[p].found, e.address \in Wanted(p),
         Renames(e.id, run[p].want[e.address])
  PROVE  /\ \A y \in entries' : \E x \in entries :
              y.id = x.id /\ y.address = x.address /\ (Managed(y) <=> Managed(x))
         /\ \A x \in entries : \E y \in entries' :
              y.id = x.id /\ y.address = x.address /\ (Managed(y) <=> Managed(x))
<1> DEFINE c == run[p].want[e.address]
           image == [x \in entries |-> IF x.id = e.id THEN Renamed(x, c) ELSE x]
<1>1. c \in Nat
  BY EntryTypes DEF IInv
<1>2. \A x \in entries : /\ image[x].id = x.id /\ image[x].address = x.address
                         /\ Managed(image[x]) <=> Managed(x)
  BY <1>1, SentinelAssumption DEF IInv, FoundOK, Managed, Renamed, TypeOK, Entry
<1>3. entries' = {image[x] : x \in entries}
  BY DEF Renames
<1>. HIDE DEF image
<1>. QED
  BY <1>2, <1>3

LEMMA BecomesKeeps ==
  ASSUME NEW p \in Applier, NEW ph, NEW h, NEW i, NEW k, Becomes(p, ph, h, i, k)
  PROVE  /\ Wanted(p)' = Wanted(p) /\ Found(p)' = Found(p)
         /\ run'[p].phase = ph /\ run'[p].handled = h
         /\ run'[p].inHand = i /\ run'[p].killed = k /\ run'[p].found = run[p].found
         /\ run[p].failed => run'[p].failed
BY DEF Becomes, Wanted, Found

\* A run starts from nothing; the address in hand is one still to add; what was found
\* has one entry per address; and a managed entry is either one that was found or an
\* addition of this run.
FreshOK(p) ==
  ~Begun(p) => /\ run[p].handled = {} /\ run[p].killed = {} /\ run[p].found = {}
               /\ ~run[p].failed

InHandOK(p) ==
  IF run[p].phase \in {"verifying", "killing"}
  THEN run[p].inHand \in ToAdd(p)
  ELSE run[p].inHand = None

FoundOnce(p) == \A e, f \in run[p].found : e.address = f.address => e = f

Added(p) == (Wanted(p) \ Found(p)) \cap (run[p].handled \cup {run[p].inHand})

Accounted(p) ==
  Begun(p) => \A e \in ManagedEntries :
                (\E f \in run[p].found : f.id = e.id) \/ e.address \in Added(p)

OneInv(p) == FreshOK(p) /\ InHandOK(p) /\ FoundOnce(p) /\ Accounted(p)

LEMMA OneStep ==
  ASSUME IInv, IInv', NEW p \in Applier, OneInv(p), OneEntryPerAddress, Effect(p)
  PROVE  OneInv(p)' /\ OneEntryPerAddress'
<1> USE DEF OneInv
<1>0. None \notin Address
  BY SentinelAssumption
<1>1. CASE Restarts(p)
  <2>1. OneEntryPerAddress'
    BY <1>1 DEF Restarts, Leaves, OneEntryPerAddress, ManagedEntries, Managed
  <2>2. OneInv(p)'
    BY <1>1 DEF Restarts, FreshOK, InHandOK, FoundOnce, Accounted, Begun
  <2>. QED
    BY <2>1, <2>2
<1>2. CASE Reads(p)
  <2>1. OneEntryPerAddress' /\ ManagedEntries' = ManagedEntries
    BY <1>2 DEF Reads, Leaves, OneEntryPerAddress, ManagedEntries, Managed
  <2>2. ManagedEntries \subseteq run'[p].found
    BY <1>2 DEF Reads, OneEntryPerAddress
  <2>3. Accounted(p)'
    BY <2>1, <2>2 DEF Accounted
  <2>4. FreshOK(p)' /\ InHandOK(p)' /\ FoundOnce(p)'
    BY <1>2 DEF Reads, FreshOK, InHandOK, FoundOnce, Begun
  <2>. QED
    BY <2>1, <2>3, <2>4
<1>3. ASSUME NEW a \in Address, Adds(p, a)
      PROVE  OneInv(p)' /\ OneEntryPerAddress'
  <2>1. PICK phase \in {"killing", "verifying"} :
          /\ Becomes(p, phase, run[p].handled, a, run[p].killed)
          /\ Inserts(NewEntry(p, a)) \/ Leaves
    BY <1>3 DEF Adds
  <2>2. /\ Wanted(p)' = Wanted(p) /\ Found(p)' = Found(p)
        /\ run'[p].phase = phase /\ run'[p].handled = run[p].handled
        /\ run'[p].inHand = a /\ run'[p].found = run[p].found
    BY <2>1, BecomesKeeps
  <2>3. a \in (Wanted(p) \ Found(p)) \ run[p].handled /\ run[p].phase = "applying"
    BY <1>3 DEF Adds, ToAdd
  <2>4. \A e \in ManagedEntries : e.address # a
    <3>1. run[p].inHand = None
      BY <2>3 DEF InHandOK
    <3>2. ASSUME NEW e \in ManagedEntries, e.address = a PROVE FALSE
      <4>1. PICK f \in run[p].found : f.id = e.id
        BY <1>0, <2>3, <3>1, <3>2 DEF Accounted, Begun, Added
      <4>2. f.address = a
        BY <3>2, <4>1 DEF IInv, FoundOK, ManagedEntries
      <4>. QED
        BY <2>3, <4>2 DEF Found
    <3>. QED
      BY <3>2
  <2>5. \A e \in ManagedEntries' :
          e \in ManagedEntries \/ (e = NewEntry(p, a) /\ e.address = a)
    BY <2>1 DEF Inserts, Leaves, ManagedEntries, Managed, NewEntry
  <2>6. OneEntryPerAddress'
    BY <2>4, <2>5 DEF OneEntryPerAddress
  <2>7. Added(p) \subseteq Added(p)' /\ a \in Added(p)'
    <3>1. run[p].inHand = None
      BY <2>3 DEF InHandOK
    <3>2. Wanted(p) \subseteq Address
      BY DEF Wanted
    <3>. QED
      BY <1>0, <2>2, <2>3, <3>1, <3>2 DEF Added
  <2>8. Accounted(p)'
    BY <2>2, <2>3, <2>5, <2>7 DEF Accounted, Begun
  <2>9. FreshOK(p)' /\ InHandOK(p)' /\ FoundOnce(p)'
    BY <2>2, <2>3 DEF FreshOK, InHandOK, FoundOnce, Begun, ToAdd
  <2>. QED
    BY <2>6, <2>8, <2>9
\* The steps that leave the list alone and handle the address in hand, or nothing.
<1>4. ASSUME NEW ph \in Phase, NEW h, NEW i, NEW k, Becomes(p, ph, h, i, k), Begun(p), Leaves,
             run[p].handled \subseteq h, ph \in {"applying", "killing", "done"},
             Added(p) \subseteq h \cup {i},
             IF ph = "killing" THEN i \in ToAdd(p) /\ h = run[p].handled ELSE i = None
      PROVE  OneInv(p)' /\ OneEntryPerAddress'
  <2>1. /\ Wanted(p)' = Wanted(p) /\ Found(p)' = Found(p)
        /\ run'[p].phase = ph /\ run'[p].handled = h
        /\ run'[p].inHand = i /\ run'[p].found = run[p].found
    BY <1>4, BecomesKeeps
  <2>2. OneEntryPerAddress' /\ ManagedEntries' = ManagedEntries
    BY <1>4 DEF Leaves, OneEntryPerAddress, ManagedEntries, Managed
  <2>3. Added(p) \subseteq Added(p)'
    BY <1>4, <2>1 DEF Added
  <2>4. Accounted(p)'
    BY <1>4, <2>1, <2>2, <2>3 DEF Accounted
  <2>5. FreshOK(p)' /\ InHandOK(p)' /\ FoundOnce(p)'
    BY <1>4, <2>1 DEF FreshOK, InHandOK, FoundOnce, Begun, ToAdd
  <2>. QED
    BY <2>2, <2>4, <2>5
<1>5. CASE Verifies(p)
  <2>1. run[p].inHand \in ToAdd(p) /\ Begun(p) /\ Leaves
    BY <1>5 DEF Verifies, InHandOK, Begun
  <2>2. Added(p) \subseteq run[p].handled \cup {run[p].inHand}
    BY DEF Added
  <2>3. CASE Becomes(p, "killing", run[p].handled, run[p].inHand, run[p].killed)
    BY <1>4, <2>1, <2>2, <2>3 DEF Phase
  <2>4. CASE Becomes(p, "applying", run[p].handled \cup {run[p].inHand}, None, run[p].killed)
    BY <1>4, <2>1, <2>2, <2>4 DEF Phase
  <2>. QED
    BY <1>5, <2>3, <2>4 DEF Verifies
<1>6. CASE Kills(p)
  <2>1. Begun(p) /\ Leaves
    BY <1>6 DEF Kills, Begun
  <2>2. Added(p) \subseteq run[p].handled \cup {run[p].inHand}
    BY DEF Added
  <2>3. PICK k : Becomes(p, "applying", run[p].handled \cup {run[p].inHand}, None,
                         run[p].killed \cup k)
    BY <1>6 DEF Kills
  <2>. QED
    BY <1>4, <2>1, <2>2, <2>3 DEF Phase
<1>7. CASE Finishes(p)
  <2>1. Begun(p) /\ Leaves /\ run[p].inHand = None
    BY <1>7 DEF Finishes, Begun, InHandOK
  <2>2. Added(p) \subseteq run[p].handled \cup {run[p].inHand}
    BY DEF Added
  <2>3. Becomes(p, "done", run[p].handled, None, run[p].killed)
    BY <1>7, <2>1 DEF Finishes
  <2>. QED
    BY <1>4, <2>1, <2>2, <2>3 DEF Phase
\* Renaming and deleting add no managed entry.
<1>8. ASSUME NEW e \in run[p].found, Updates(p, e) \/ Removes(p, e)
      PROVE  OneInv(p)' /\ OneEntryPerAddress'
  <2>1. /\ Becomes(p, "applying", run[p].handled \cup {e.address}, run[p].inHand, run[p].killed)
        /\ run[p].phase = "applying"
    BY <1>8 DEF Updates, Removes
  <2>2. /\ Wanted(p)' = Wanted(p) /\ Found(p)' = Found(p)
        /\ run'[p].phase = "applying" /\ run'[p].handled = run[p].handled \cup {e.address}
        /\ run'[p].inHand = run[p].inHand /\ run'[p].found = run[p].found
    BY <2>1, BecomesKeeps
  <2>3. \A y \in ManagedEntries' : \E x \in ManagedEntries :
          y.id = x.id /\ y.address = x.address
    <3>1. CASE Leaves \/ Deletes(e.id)
      BY <3>1 DEF Leaves, Deletes, ManagedEntries, Managed
    <3>2. CASE e.address \in Wanted(p) /\ Renames(e.id, run[p].want[e.address])
      BY <3>2, RenameMatches DEF ManagedEntries, Managed
    <3>. QED
      BY <1>8, <3>1, <3>2 DEF Updates, Removes, ToUpdate
  <2>4. OneEntryPerAddress'
    <3>1. \A x, y \in entries' : x.id = y.id => x = y
      BY DEF IInv, IdsOK
    <3>2. ManagedEntries' \subseteq entries'
      BY DEF ManagedEntries, Managed
    <3>. QED
      BY <2>3, <3>1, <3>2 DEF OneEntryPerAddress
  <2>5. Added(p) \subseteq Added(p)'
    BY <2>2 DEF Added
  <2>6. Accounted(p)'
    BY <2>1, <2>2, <2>3, <2>5 DEF Accounted, Begun
  <2>7. FreshOK(p)' /\ InHandOK(p)' /\ FoundOnce(p)'
    BY <2>1, <2>2 DEF FreshOK, InHandOK, FoundOnce, Begun
  <2>. QED
    BY <2>4, <2>6, <2>7
<1>. QED
  BY <1>1, <1>2, <1>3, <1>5, <1>6, <1>7, <1>8 DEF Effect

\* The environment adds and removes entries that are not managed, and runs nothing.
LEMMA OneUndisturbed ==
  ASSUME NEW p \in Applier, OneInv(p), OneEntryPerAddress,
         run' = run, ManagedEntries' = ManagedEntries
  PROVE  OneInv(p)' /\ OneEntryPerAddress'
BY DEF OneInv, OneEntryPerAddress, FreshOK, InHandOK, FoundOnce, Accounted, Added, Begun,
   ToAdd, Wanted, Found

LEMMA EnvironmentStep ==
  ASSUME IInv, [Next]_vars, ~\E p \in Applier : RunStep(p)
  PROVE  run' = run /\ ManagedEntries' = ManagedEntries
<1>1. CASE UNCHANGED vars \/ \E a \in Address : ChangePolicy(a) \/ Connect(a)
  BY <1>1 DEF vars, ChangePolicy, Connect, ManagedEntries, Managed
<1>2. CASE AdminStep
  BY <1>2 DEF AdminStep, AdminAdds, AdminRemoves, ManagedEntries, Managed
<1>. QED
  BY <1>1, <1>2 DEF Next

\* Synchronisations of the router do not overlap: what the worker alone guarantees, and
\* what a sync-now request beside it breaks.
OneAtATime ==
  \A p, q \in Applier : run[p].phase # "idle" /\ run[q].phase # "idle" => p = q

LEMMA RunStepAlone ==
  ASSUME TypeOK, OneAtATime, OneAtATime', NEW p \in Applier, RunStep(p),
         NEW q \in Applier, q # p
  PROVE  run'[q] = run[q] /\ run[q].phase = "idle"
<1>1. run'[q] = run[q]
  BY DEF TypeOK, RunStep, ReceiveDesired, ReadEntries, AddEntry, AddFails,
     VerifyAdd, KillConnections, KillFails, UpdateComment, UpdateFails, RemoveEntry,
     RemoveFails, Handle, Finish, Report, Abandon
<1>2. CASE ReceiveDesired(p)
  <2>1. run'[p] = [RunIdle EXCEPT !.phase = "desired", !.want = wanted]
    BY <1>2 DEF ReceiveDesired, TypeOK
  <2>2. run'[p].phase = "desired"
    BY <2>1, IdleType DEF RunState
  <2>. QED
    BY <1>1, <2>2 DEF OneAtATime
<1>3. CASE ~ReceiveDesired(p)
  <2>1. run[p].phase # "idle"
    BY <1>3, Zenon DEF RunStep, ReadEntries, AddEntry, AddFails, VerifyAdd, KillConnections,
       KillFails, UpdateComment, UpdateFails, RemoveEntry, RemoveFails, MayUpdate, MayRemove,
       Finish, Report, Abandon
  <2>. QED
    BY <1>1, <2>1 DEF OneAtATime
<1>. QED
  BY <1>2, <1>3

LEMMA OneIdle ==
  ASSUME NEW q \in Applier, run'[q] = run[q], run[q].phase = "idle", OneInv(q)
  PROVE  OneInv(q)'
BY DEF OneInv, FreshOK, InHandOK, FoundOnce, Accounted, Begun

Alone == IInv /\ OneEntryPerAddress /\ \A p \in Applier : OneInv(p)

LEMMA InitAlone == Init => Alone
<1> SUFFICES ASSUME Init PROVE Alone
  OBVIOUS
<1>1. ASSUME NEW p \in Applier PROVE OneInv(p)
  <2>1. run[p] = RunIdle
    BY DEF Init
  <2>. QED
    BY <2>1 DEF OneInv, FreshOK, InHandOK, FoundOnce, Accounted, Begun, RunIdle
<1>2. OneEntryPerAddress
  BY DEF Init, OneEntryPerAddress, ManagedEntries
<1>. QED
  BY <1>1, <1>2, InitIInv DEF Alone

LEMMA NextAlone == Alone /\ OneAtATime /\ OneAtATime' /\ [Next]_vars => Alone'
<1> SUFFICES ASSUME Alone, OneAtATime, OneAtATime', [Next]_vars PROVE Alone'
  OBVIOUS
<1> USE DEF Alone
<1>1. IInv' /\ TypeOK
  BY NextIInv DEF IInv
<1>2. ASSUME NEW p \in Applier, RunStep(p) PROVE Alone'
  <2>1. OneInv(p)' /\ OneEntryPerAddress'
    BY <1>1, <1>2, RunStepEffect, OneStep
  <2>2. \A q \in Applier : q # p => OneInv(q)'
    BY <1>1, <1>2, RunStepAlone, OneIdle
  <2>. QED
    BY <1>1, <2>1, <2>2
<1>3. CASE ~\E p \in Applier : RunStep(p)
  <2>1. run' = run /\ ManagedEntries' = ManagedEntries
    BY <1>3, EnvironmentStep
  <2>2. OneEntryPerAddress'
    BY <2>1 DEF OneEntryPerAddress
  <2>. QED
    BY <1>1, <2>1, <2>2, OneUndisturbed
<1>. QED
  BY <1>2, <1>3

LEMMA AloneInvariance == Spec /\ []OneAtATime => []Alone
BY InitAlone, NextAlone, PTL DEF Spec

\* While synchronisations do not overlap, an addition retried after a lost reply leaves no
\* second managed entry: a run adds only addresses it found no entry of, and every managed
\* entry that appeared since it read the list is its own.
THEOREM OneEntry == Spec /\ []OneAtATime => []OneEntryPerAddress
<1>1. Alone => OneEntryPerAddress
  BY DEF Alone
<1>. QED
  BY <1>1, AloneInvariance, PTL

\* Once an address a run wants is listed, no step of the run takes it off the list.
LEMMA ShapeKeepsListed ==
  ASSUME IInv, NEW p \in Applier, Shape(p), NEW a \in Wanted(p), Listed(a)
  PROVE  Listed(a)'
<1>1. CASE Leaves \/ \E b \in Wanted(p) : Inserts(NewEntry(p, b))
  BY <1>1 DEF Leaves, Inserts, Listed
<1>2. ASSUME NEW e \in run[p].found, e.address \in Wanted(p),
             Renames(e.id, run[p].want[e.address])
      PROVE  Listed(a)'
  BY <1>2, RenameMatches DEF Listed
<1>3. ASSUME NEW e \in run[p].found, e.address \notin Wanted(p), Deletes(e.id)
      PROVE  Listed(a)'
  <2>1. \A x \in entries : x.id = e.id => x.address = e.address
    BY DEF IInv, FoundOK
  <2>. QED
    BY <1>3, <2>1 DEF Listed, Deletes
<1>. QED
  BY <1>1, <1>2, <1>3 DEF Shape

\* What a run found and wants stays where it was; what it added is listed; what it does
\* not want and has not handled is all that is left to remove; what it takes the
\* connections of is listed first.
WantedKept(p) ==
  \A f \in run[p].found : f.address \in Wanted(p) => \E e \in entries : e.id = f.id

AddsListed(p) ==
  ~run[p].failed => \A a \in (Wanted(p) \ Found(p)) \cap run[p].handled : Listed(a)

RestFound(p) ==
  Begun(p) /\ ~run[p].failed =>
    \A e \in ManagedEntries : e.address \in Wanted(p) \cup (Found(p) \ run[p].handled)

KillListed(p) == run[p].phase = "killing" => Listed(run[p].inHand)

DoneAll(p) == run[p].phase = "done" => ToAdd(p) = {} /\ ToRemove(p) = {}

KilledListed(p) ==
  \A a \in run[p].killed : a \in Wanted(p) /\ Listed(a) /\ a \notin connected

ExactInv(p) ==
  /\ WantedKept(p) /\ AddsListed(p) /\ RestFound(p)
  /\ KillListed(p) /\ DoneAll(p) /\ KilledListed(p)

\* A step that handles one more address and keeps the wanted entries, adds to the
\* managed ones only what the run wants, and takes down no connections.
Handles(p, H, K) ==
  /\ \E ph, i : Becomes(p, ph, run[p].handled \cup H, i, run[p].killed \cup K)
  /\ Begun(p) /\ K \subseteq Wanted(p) /\ connected' = connected \ K
  /\ \A f \in run[p].found :
       f.address \in Wanted(p) /\ (\E e \in entries : e.id = f.id) =>
         \E e \in entries' : e.id = f.id
  /\ \A a \in K : Listed(a)
  /\ ~run'[p].failed =>
       /\ \A a \in H \ Found(p) : Listed(a)
       /\ \A e \in ManagedEntries' :
            e.address \in Wanted(p) \cup (ManagedAddresses \ H)

LEMMA ExactHandles ==
  ASSUME NEW p \in Applier, ExactInv(p), NEW H, NEW K, Handles(p, H, K),
         \A a \in Wanted(p) : Listed(a) => Listed(a)'
  PROVE  WantedKept(p)' /\ AddsListed(p)' /\ RestFound(p)' /\ KilledListed(p)'
<1>0. PICK ph, i : Becomes(p, ph, run[p].handled \cup H, i, run[p].killed \cup K)
  BY DEF Handles
<1>1. /\ Wanted(p)' = Wanted(p) /\ Found(p)' = Found(p)
      /\ run'[p].phase = ph /\ run'[p].handled = run[p].handled \cup H
      /\ run'[p].inHand = i /\ run'[p].killed = run[p].killed \cup K
      /\ run'[p].found = run[p].found
      /\ run[p].failed => run'[p].failed
  BY <1>0, BecomesKeeps
<1>2. WantedKept(p)'
  BY <1>1 DEF Handles, ExactInv, WantedKept
<1>3. AddsListed(p)'
  BY <1>1 DEF Handles, ExactInv, AddsListed
<1>4. RestFound(p)'
  <2> SUFFICES ASSUME ~run'[p].failed, NEW e \in ManagedEntries', e.address \notin Wanted(p)
               PROVE  e.address \in Found(p) \ (run[p].handled \cup H)
    BY <1>1 DEF RestFound
  <2>1. PICK x \in ManagedEntries : x.address = e.address
    BY <1>1 DEF Handles, ManagedAddresses
  <2>2. e.address \in Found(p) \ run[p].handled
    BY <1>1, <2>1 DEF Handles, ExactInv, RestFound
  <2>. QED
    BY <2>2 DEF Handles
<1>5. KilledListed(p)'
  BY <1>1 DEF Handles, ExactInv, KilledListed
<1>. QED
  BY <1>2, <1>3, <1>4, <1>5

LEMMA ExactStep ==
  ASSUME IInv, IInv', NEW p \in Applier, OneInv(p), OneEntryPerAddress, ExactInv(p),
         Effect(p), Shape(p)
  PROVE  ExactInv(p)'
<1>0. /\ \A a \in Wanted(p) : Listed(a) => Listed(a)'
      /\ \A e \in ManagedEntries : e.address \in ManagedAddresses
  BY ShapeKeepsListed DEF ManagedAddresses
<1>1. CASE Restarts(p)
  BY <1>1 DEF Restarts, ExactInv, WantedKept, AddsListed, RestFound, KillListed, DoneAll,
     KilledListed, Begun
<1>2. CASE Reads(p)
  <2>1. /\ run[p].handled = {} /\ run[p].killed = {} /\ run[p].found = {}
    BY <1>2 DEF Reads, OneInv, FreshOK, Begun
  <2>2. ManagedEntries' = ManagedEntries /\ ManagedEntries \subseteq entries
    BY <1>2 DEF Reads, Leaves, ManagedEntries, Managed
  <2>3. \A e \in ManagedEntries : e.address \in Found(p)'
    BY <1>2 DEF Reads, Found
  <2>. QED
    BY <1>2, <2>1, <2>2, <2>3 DEF Reads, Leaves, ExactInv, WantedKept, AddsListed, RestFound,
       KillListed, DoneAll, KilledListed
<1>3. ASSUME NEW a \in Address, Adds(p, a) PROVE ExactInv(p)'
  <2>1. PICK phase \in {"killing", "verifying"} :
          /\ Becomes(p, phase, run[p].handled, a, run[p].killed)
          /\ Inserts(NewEntry(p, a)) \/ (phase = "verifying" /\ Leaves)
    BY <1>3 DEF Adds
  <2>2. run'[p].phase = phase /\ run'[p].inHand = a
    BY <2>1, BecomesKeeps
  <2>3. /\ run[p].phase = "applying" /\ a \in Wanted(p)
        /\ connected' = connected \ {}
    BY <1>3 DEF Adds, ToAdd
  <2>4. \A e \in ManagedEntries' : e.address \in Wanted(p) \/ e.address \in ManagedAddresses
    BY <1>0, <2>1, <2>3 DEF Inserts, Leaves, ManagedEntries, Managed, NewEntry
  <2>5. entries \subseteq entries'
    BY <2>1 DEF Inserts, Leaves
  <2>6. Becomes(p, phase, run[p].handled \cup {}, a, run[p].killed \cup {}) /\ Begun(p)
    BY <2>1, <2>3 DEF Begun
  <2>7. WantedKept(p)' /\ AddsListed(p)' /\ RestFound(p)' /\ KilledListed(p)'
    <3>1. Handles(p, {}, {})
      BY <2>3, <2>4, <2>5, <2>6 DEF Handles
    <3>. QED
      BY <1>0, <3>1, ExactHandles
  <2>8. KillListed(p)'
    <3>1. phase = "killing" => NewEntry(p, a) \in entries' /\ NewEntry(p, a).address = a
      BY <2>1 DEF Inserts, NewEntry
    <3>. QED
      BY <2>2, <3>1 DEF KillListed, Listed
  <2>9. DoneAll(p)'
    BY <2>2 DEF DoneAll
  <2>. QED
    BY <2>7, <2>8, <2>9 DEF ExactInv
<1>4. CASE Verifies(p)
  <2>1. /\ Begun(p) /\ connected' = connected \ {} /\ entries' = entries
        /\ ManagedEntries' = ManagedEntries /\ run[p].phase = "verifying"
    BY <1>4 DEF Verifies, Begun, Leaves, ManagedEntries, Managed
  <2>2. run[p].inHand \in Wanted(p)
    BY <2>1 DEF OneInv, InHandOK, ToAdd
  <2>3. CASE /\ Listed(run[p].inHand)
             /\ Becomes(p, "killing", run[p].handled, run[p].inHand, run[p].killed)
    <3>1. run'[p].phase = "killing" /\ run'[p].inHand = run[p].inHand
      BY <2>3, BecomesKeeps
    <3>2. Becomes(p, "killing", run[p].handled \cup {}, run[p].inHand, run[p].killed \cup {})
      BY <2>3
    <3>3. Handles(p, {}, {})
      BY <1>0, <2>1, <3>2 DEF Handles
    <3>4. WantedKept(p)' /\ AddsListed(p)' /\ RestFound(p)' /\ KilledListed(p)'
      BY <1>0, <3>3, ExactHandles
    <3>. QED
      BY <2>1, <2>3, <3>1, <3>4 DEF ExactInv, KillListed, DoneAll, Listed
  <2>4. CASE /\ Becomes(p, "applying", run[p].handled \cup {run[p].inHand}, None,
                        run[p].killed)
             /\ run'[p].failed
    <3>1. run'[p].phase = "applying"
      BY <2>4, BecomesKeeps
    <3>2. Becomes(p, "applying", run[p].handled \cup {run[p].inHand}, None,
                  run[p].killed \cup {})
      BY <2>4
    <3>3. Handles(p, {run[p].inHand}, {})
      BY <1>0, <2>1, <2>4, <3>2 DEF Handles
    <3>4. WantedKept(p)' /\ AddsListed(p)' /\ RestFound(p)' /\ KilledListed(p)'
      BY <1>0, <3>3, ExactHandles
    <3>. QED
      BY <3>1, <3>4 DEF ExactInv, KillListed, DoneAll
  <2>. QED
    BY <1>4, <2>3, <2>4 DEF Verifies
<1>5. CASE Kills(p)
  <2>1. PICK k \in SUBSET {run[p].inHand} :
          /\ Becomes(p, "applying", run[p].handled \cup {run[p].inHand}, None,
                     run[p].killed \cup k)
          /\ connected' = connected \ k
    BY <1>5 DEF Kills
  <2>2. /\ Begun(p) /\ entries' = entries /\ ManagedEntries' = ManagedEntries
        /\ run[p].phase = "killing"
    BY <1>5 DEF Kills, Begun, Leaves, ManagedEntries, Managed
  <2>3. run[p].inHand \in Wanted(p) /\ Listed(run[p].inHand)
    BY <2>2 DEF OneInv, InHandOK, ToAdd, ExactInv, KillListed
  <2>4. run'[p].phase = "applying"
    BY <2>1, BecomesKeeps
  <2>5. Handles(p, {run[p].inHand}, k)
    BY <1>0, <2>1, <2>2, <2>3 DEF Handles
  <2>6. WantedKept(p)' /\ AddsListed(p)' /\ RestFound(p)' /\ KilledListed(p)'
    BY <1>0, <2>5, ExactHandles
  <2>. QED
    BY <2>4, <2>6 DEF ExactInv, KillListed, DoneAll
<1>6. ASSUME NEW e \in run[p].found, Updates(p, e) PROVE ExactInv(p)'
  <2>1. /\ Becomes(p, "applying", run[p].handled \cup {e.address}, run[p].inHand,
                   run[p].killed \cup {})
        /\ Begun(p) /\ connected' = connected \ {} /\ e.address \in Wanted(p)
        /\ e.address \in Found(p)
    BY <1>6 DEF Updates, Begun, ToUpdate, Found
  <2>2. run'[p].phase = "applying"
    BY <2>1, BecomesKeeps
  <2>3. /\ \A y \in ManagedEntries' : y.address \in ManagedAddresses
        /\ \A x \in entries : \E y \in entries' : y.id = x.id
    <3>1. CASE Leaves
      BY <3>1 DEF Leaves, ManagedEntries, ManagedAddresses, Managed
    <3>2. CASE Renames(e.id, run[p].want[e.address])
      BY <2>1, <3>2, RenameMatches DEF ManagedEntries, Managed, ManagedAddresses
    <3>. QED
      BY <1>6, <3>1, <3>2 DEF Updates
  <2>4. Handles(p, {e.address}, {})
    <3>1. \A f \in run[p].found :
            (\E x \in entries : x.id = f.id) => \E y \in entries' : y.id = f.id
      BY <2>3
    <3>. QED
      BY <2>1, <2>3, <3>1 DEF Handles
  <2>5. WantedKept(p)' /\ AddsListed(p)' /\ RestFound(p)' /\ KilledListed(p)'
    BY <1>0, <2>4, ExactHandles
  <2>. QED
    BY <2>2, <2>5 DEF ExactInv, KillListed, DoneAll
<1>7. ASSUME NEW e \in run[p].found, Removes(p, e) PROVE ExactInv(p)'
  <2>1. /\ Becomes(p, "applying", run[p].handled \cup {e.address}, run[p].inHand,
                   run[p].killed \cup {})
        /\ Begun(p) /\ connected' = connected \ {} /\ e.address \notin Wanted(p)
        /\ e.address \in Found(p)
    BY <1>7 DEF Removes, Begun, ToRemove, Found
  <2>2. run'[p].phase = "applying"
    BY <2>1, BecomesKeeps
  <2>3. \A x \in entries : x.id = e.id => Managed(x) /\ x.address = e.address
    BY DEF IInv, FoundOK
  <2>4. ManagedEntries' \subseteq ManagedEntries /\ entries' \subseteq entries
    BY <1>7 DEF Removes, Deletes, Leaves, ManagedEntries, Managed
  <2>5. \A f \in run[p].found : f.address \in Wanted(p) =>
          ((\E x \in entries : x.id = f.id) => \E x \in entries' : x.id = f.id)
    <3> SUFFICES ASSUME NEW f \in run[p].found, f.address \in Wanted(p),
                        NEW x \in entries, x.id = f.id
                 PROVE  x \in entries'
      OBVIOUS
    <3>1. x.address = f.address
      BY DEF IInv, FoundOK
    <3>. QED
      BY <1>7, <2>1, <2>3, <3>1 DEF Removes, Deletes, Leaves
  <2>6. ~run'[p].failed => \A y \in ManagedEntries' : y.address # e.address
    <3> SUFFICES ASSUME ~run'[p].failed, NEW y \in ManagedEntries', y.address = e.address
                 PROVE  FALSE
      OBVIOUS
    <3>1. PICK x \in entries : x.id = e.id
      BY <1>7 DEF Removes
    <3>2. x \in ManagedEntries /\ x.address = e.address
      BY <2>3, <3>1 DEF ManagedEntries
    <3>3. y = x
      BY <2>4, <3>2 DEF OneEntryPerAddress
    <3>. QED
      BY <1>7, <3>1, <3>3 DEF Removes, Deletes, ManagedEntries, Managed
  <2>7. Handles(p, {e.address}, {})
    BY <1>0, <2>1, <2>4, <2>5, <2>6 DEF Handles
  <2>8. WantedKept(p)' /\ AddsListed(p)' /\ RestFound(p)' /\ KilledListed(p)'
    BY <1>0, <2>7, ExactHandles
  <2>. QED
    BY <2>2, <2>8 DEF ExactInv, KillListed, DoneAll
<1>8. CASE Finishes(p)
  <2>1. /\ Becomes(p, "done", run[p].handled \cup {}, run[p].inHand, run[p].killed \cup {})
        /\ Begun(p) /\ connected' = connected \ {} /\ entries' = entries
        /\ ManagedEntries' = ManagedEntries
        /\ ToAdd(p) = {} /\ ToRemove(p) = {}
    BY <1>8 DEF Finishes, Begun, Leaves, ManagedEntries, Managed
  <2>2. /\ run'[p].phase = "done" /\ Wanted(p)' = Wanted(p) /\ Found(p)' = Found(p)
        /\ run'[p].handled = run[p].handled /\ run'[p].found = run[p].found
    BY <2>1, BecomesKeeps
  <2>3. DoneAll(p)'
    BY <2>1, <2>2 DEF DoneAll, ToAdd, ToRemove
  <2>4. Handles(p, {}, {})
    BY <1>0, <2>1 DEF Handles
  <2>5. WantedKept(p)' /\ AddsListed(p)' /\ RestFound(p)' /\ KilledListed(p)'
    BY <1>0, <2>4, ExactHandles
  <2>. QED
    BY <2>2, <2>3, <2>5 DEF ExactInv, KillListed
<1>. QED
  BY <1>1, <1>2, <1>3, <1>4, <1>5, <1>6, <1>7, <1>8 DEF Effect

\* While administrators only add, an address once listed stays so beside a run, and the
\* firewall opens no connection to it.
LEMMA ExactUndisturbed ==
  ASSUME NEW p \in Applier, ExactInv(p), run' = run, ManagedEntries' = ManagedEntries,
         ForeignEntries \subseteq ForeignEntries',
         \A a \in connected' : a \in connected \/ ~Listed(a)
  PROVE  ExactInv(p)'
<1>1. entries \subseteq entries'
  BY DEF ManagedEntries, ForeignEntries, Managed
<1>2. \A a : Listed(a) => Listed(a)'
  BY <1>1 DEF Listed
<1>3. Wanted(p)' = Wanted(p) /\ Found(p)' = Found(p) /\ Begun(p)' = Begun(p)
  BY DEF Wanted, Found, Begun
<1>4. ToAdd(p)' = ToAdd(p) /\ ToRemove(p)' = ToRemove(p)
  BY <1>3 DEF ToAdd, ToRemove
<1>5. WantedKept(p)' /\ AddsListed(p)' /\ RestFound(p)'
  BY <1>1, <1>2, <1>3 DEF ExactInv, WantedKept, AddsListed, RestFound
<1>6. KillListed(p)' /\ DoneAll(p)' /\ KilledListed(p)'
  BY <1>2, <1>3, <1>4 DEF ExactInv, KillListed, DoneAll, KilledListed
<1>. QED
  BY <1>5, <1>6 DEF ExactInv

LEMMA ExactIdle ==
  ASSUME NEW q \in Applier, run'[q] = run[q], run[q].phase = "idle", OneInv(q)
  PROVE  ExactInv(q)'
BY DEF OneInv, FreshOK, Begun, ExactInv, WantedKept, AddsListed, RestFound, KillListed,
   DoneAll, KilledListed

LEMMA EnvironmentConnects ==
  ASSUME [Next]_vars, ~\E p \in Applier : RunStep(p), NEW a \in connected'
  PROVE  a \in connected \/ ~Listed(a)
BY DEF Next, AdminStep, AdminAdds, AdminRemoves, ChangePolicy, Connect, vars

\* Nobody takes an administrators' entry off the list.
AdminsOnlyAdd == ForeignEntries \subseteq ForeignEntries'

Exact == \A p \in Applier : ExactInv(p)

LEMMA InitExact == Init => Exact
<1> SUFFICES ASSUME Init, NEW p \in Applier PROVE ExactInv(p)
  BY DEF Exact
<1>1. run[p] = RunIdle /\ entries = {}
  BY DEF Init
<1>. QED
  BY <1>1 DEF ExactInv, WantedKept, AddsListed, RestFound, KillListed, DoneAll,
     KilledListed, Begun, RunIdle

LEMMA NextExact ==
  Exact /\ Alone /\ OneAtATime /\ OneAtATime' /\ [Next]_vars /\ [AdminsOnlyAdd]_vars
    => Exact'
<1> SUFFICES ASSUME Exact, Alone, OneAtATime, OneAtATime', [Next]_vars, [AdminsOnlyAdd]_vars
             PROVE  Exact'
  OBVIOUS
<1> USE DEF Exact, Alone
<1>1. IInv /\ IInv' /\ TypeOK
  BY NextIInv DEF IInv
<1>2. ASSUME NEW p \in Applier, RunStep(p) PROVE Exact'
  <2>1. ExactInv(p)'
    BY <1>1, <1>2, RunStepEffect, RunStepShape, ExactStep
  <2>2. \A q \in Applier : q # p => ExactInv(q)'
    BY <1>1, <1>2, RunStepAlone, ExactIdle
  <2>. QED
    BY <2>1, <2>2
<1>3. CASE ~\E p \in Applier : RunStep(p)
  <2>1. run' = run /\ ManagedEntries' = ManagedEntries
    BY <1>1, <1>3, EnvironmentStep
  <2>2. ForeignEntries \subseteq ForeignEntries'
    BY DEF AdminsOnlyAdd, vars, ForeignEntries, Managed
  <2>3. \A a \in connected' : a \in connected \/ ~Listed(a)
    BY <1>3, EnvironmentConnects
  <2>. QED
    BY <2>1, <2>2, <2>3, ExactUndisturbed
<1>. QED
  BY <1>2, <1>3

LEMMA ExactInvariance ==
  Spec /\ []OneAtATime /\ [][AdminsOnlyAdd]_vars => [](Alone /\ Exact)
BY InitAlone, NextAlone, InitExact, NextExact, PTL DEF Spec

\* A run that reports no error has done it all, whatever replies were lost on the way and
\* however earlier runs ended: every wanted address is listed and nothing else is managed.
\* Runs that overlap and administrators who remove a covering entry are excluded.
THEOREM CleanRunExact ==
  Spec /\ []OneAtATime /\ [][AdminsOnlyAdd]_vars => []CleanRunIsExact
<1>1. Alone /\ Exact => CleanRunIsExact
  <2> SUFFICES ASSUME Alone, Exact, NEW p \in Applier,
                      run[p].phase = "done", ~run[p].failed
               PROVE  /\ \A a \in Wanted(p) : Listed(a)
                      /\ ManagedAddresses \subseteq Wanted(p)
    BY DEF CleanRunIsExact
  <2>1. ToAdd(p) = {} /\ ToRemove(p) = {} /\ ExactInv(p) /\ Begun(p) /\ FoundOK
    BY DEF Exact, ExactInv, DoneAll, Begun, Alone, IInv
  <2>2. ASSUME NEW a \in Wanted(p) PROVE Listed(a)
    <3>1. CASE a \in Found(p)
      <4>1. PICK f \in run[p].found : f.address = a
        BY <3>1 DEF Found
      <4>2. PICK e \in entries : e.id = f.id
        BY <2>1, <4>1 DEF ExactInv, WantedKept
      <4>3. e.address = a
        BY <2>1, <4>1, <4>2 DEF FoundOK
      <4>. QED
        BY <4>3 DEF Listed
    <3>2. CASE a \notin Found(p)
      BY <2>1, <3>2 DEF ToAdd, ExactInv, AddsListed
    <3>. QED
      BY <3>1, <3>2
  <2>3. ASSUME NEW e \in ManagedEntries PROVE e.address \in Wanted(p)
    <3> SUFFICES ASSUME e.address \notin Wanted(p) PROVE FALSE
      OBVIOUS
    <3>1. e.address \in Found(p) \ run[p].handled
      BY <2>1 DEF ExactInv, RestFound
    <3>2. PICK f \in run[p].found : f.address = e.address
      BY <3>1 DEF Found
    <3>3. f \in ToRemove(p)
      BY <3>1, <3>2 DEF ToRemove
    <3>. QED
      BY <2>1, <3>3
  <2>. QED
    BY <2>2, <2>3 DEF ManagedAddresses
<1>. QED
  BY <1>1, ExactInvariance, PTL

\* The addresses whose connections a run removed stay without: each is listed by then and
\* stays listed while the run lasts.
THEOREM KilledConnectionsStayDown ==
  Spec /\ []OneAtATime /\ [][AdminsOnlyAdd]_vars => []KilledStayDown
<1>1. Exact => KilledStayDown
  BY DEF Exact, ExactInv, KilledListed, KilledStayDown
<1>. QED
  BY <1>1, ExactInvariance, PTL
=============================================================================
