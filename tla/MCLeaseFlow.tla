------------------------------ MODULE MCLeaseFlow ------------------------------
(***************************************************************************)
(* Small instances of LeaseFlow: the lease tables of a router.             *)
(***************************************************************************)
EXTENDS LeaseFlow, TLC

CONSTANTS m1, m2, a1

Bound(m, dynamic) ==
  [active_mac_address |-> m, mac_address |-> m, active_address |-> a1, address |-> a1,
   dynamic |-> dynamic, disabled |-> "false", blocked |-> None]
Waiting(m) ==
  [active_mac_address |-> None, mac_address |-> m, active_address |-> None,
   address |-> a1, dynamic |-> "no", disabled |-> None, blocked |-> None]

Nameless == [Bound(None, None) EXCEPT !.disabled = "yes"]

\* The tracked device on line with a static lease; waiting, beside another
\* device and a lease of no MAC; nothing.
LeaseTables ==
  {<<Bound(m1, "false")>>, <<Waiting(m1), Nameless, Bound(m2, "true")>>, <<>>}

OnLine == {<<Bound(m1, "false")>>}

WanStates == {"allowed", "blocked", "protected"}
=============================================================================
