-------------------------------- MODULE Leases --------------------------------
(***************************************************************************)
(* DHCP leases as RouterOS answers them and as the poller publishes them.  *)
(* A snapshot is a time and a sequence of leases, in which a MAC may occur *)
(* more than once.                                                         *)
(***************************************************************************)
EXTENDS Integers, SequencesExt

CONSTANTS Mac, Address, None

\* RouterOS flags are strings, and may be absent.
Flag == {"true", "yes", "1", "false", "no", "0", None}

RawLease ==
  [active_mac_address: Mac \cup {None}, mac_address: Mac \cup {None},
   active_address: Address \cup {None}, address: Address \cup {None},
   dynamic: Flag, disabled: Flag, blocked: Flag]

Lease == [mac: Mac, active_ip: Address \cup {None},
          dynamic: BOOLEAN \cup {None}, active: BOOLEAN]
Snapshot == [at: Nat, leases: Seq(Lease)]

ParseRouterosBool(flag) ==
  IF flag \in {"true", "yes", "1"} THEN TRUE
  ELSE IF flag \in {"false", "no", "0"} THEN FALSE ELSE None

GetFirstPresent(a, b) == IF a # None THEN a ELSE b

\* A lease is active when it has an active address and is neither disabled
\* nor blocked.
NormalizeDhcpLease(raw) ==
  [mac       |-> GetFirstPresent(raw.active_mac_address, raw.mac_address),
   active_ip |-> GetFirstPresent(raw.active_address, raw.address),
   dynamic   |-> ParseRouterosBool(raw.dynamic),
   active    |-> /\ raw.active_address # None
                 /\ ParseRouterosBool(raw.disabled) # TRUE
                 /\ ParseRouterosBool(raw.blocked) # TRUE]

\* Mutant: a lease without a MAC is published as well.
GetAllDhcpLeases(table) ==
  [i \in DOMAIN table |-> NormalizeDhcpLease(table[i])]

\* The loop over the table: leases without any MAC are left out.
GetDhcpLeases(table) ==
  LET Normalized(n) == NormalizeDhcpLease(table[n])
      leases[n \in 0..Len(table)] ==
        IF n = 0 THEN <<>>
        ELSE IF Normalized(n).mac = None THEN leases[n - 1]
        ELSE Append(leases[n - 1], Normalized(n))
  IN  leases[Len(table)]

SeenMacs(leases) == {leases[i].mac : i \in DOMAIN leases}

\* Both consumers let the last lease of a MAC win.
LastLease(leases, m) ==
  leases[CHOOSE i \in DOMAIN leases :
           /\ leases[i].mac = m
           /\ \A j \in DOMAIN leases : leases[j].mac = m => j <= i]
=============================================================================
