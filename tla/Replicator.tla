----------------------------- MODULE Replicator -----------------------------
(***************************************************************************)
(* What policy-sync promises of one router, without ids, comments, HTTP    *)
(* calls or errors: a replica that moves towards snapshots of what is      *)
(* wanted.  A replicator works from a snapshot that may be stale; each     *)
(* move changes one address, and only to what the snapshot of the mover    *)
(* says about it.  When the wanted set changes finitely often the replica  *)
(* ends up agreeing with it, and stays so.                                 *)
(***************************************************************************)
CONSTANTS
  Address,     \* what may be wanted
  Applier,     \* who moves the replica
  NoSnapshot   \* an applier that is at rest

VARIABLES
  desired,   \* addresses that are to be blocked
  actual,    \* addresses the router blocks on behalf of the system
  covered,   \* addresses the router blocks on behalf of somebody else
  snapshot   \* the value of desired each applier works from

vars == <<desired, actual, covered, snapshot>>

Init ==
  /\ desired = {}
  /\ actual = {}
  /\ covered = {}
  /\ snapshot = [p \in Applier |-> NoSnapshot]

ChangeDesired ==
  /\ desired' \in SUBSET Address
  /\ UNCHANGED <<actual, covered, snapshot>>

ChangeCovered ==
  /\ covered' \in SUBSET Address
  /\ UNCHANGED <<desired, actual, snapshot>>

TakeSnapshot(p) ==
  /\ snapshot[p] = NoSnapshot
  /\ snapshot' = [snapshot EXCEPT ![p] = desired]
  /\ UNCHANGED <<desired, actual, covered>>

DropSnapshot(p) ==
  /\ snapshot' = [snapshot EXCEPT ![p] = NoSnapshot]
  /\ UNCHANGED <<desired, actual, covered>>

\* One address moves to where the snapshot wants it.
Move(p) ==
  /\ snapshot[p] # NoSnapshot
  /\ \/ \E a \in snapshot[p] : actual' = actual \cup {a}
     \/ \E a \in Address \ snapshot[p] : actual' = actual \ {a}
  /\ UNCHANGED <<desired, covered, snapshot>>

Next ==
  \/ ChangeDesired
  \/ ChangeCovered
  \/ \E p \in Applier : TakeSnapshot(p) \/ DropSnapshot(p) \/ Move(p)

\* What holds of every behaviour, whatever is assumed of its fairness.
Safety == Init /\ [][Next]_vars

\* Nothing else is blocked, and what is wanted is blocked by one or the other: an
\* address somebody else blocks already need not be blocked twice.
Settles == <>[](actual \subseteq desired /\ desired \subseteq actual \cup covered)

\* The promise holds of behaviours whose wanted set stops changing.
Spec == Safety /\ Settles
=============================================================================
