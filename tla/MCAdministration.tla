---------------------------- MODULE MCAdministration ----------------------------
(***************************************************************************)
(* Small instances of the parts of Administration.                         *)
(***************************************************************************)
EXTENDS Administration, TLC

\* Two databases; an archive of both, one that lacks the second, one whose
\* manifest names a file that is missing, one in which that file is empty.
TwoDatabases == <<"auth", "classroom">>
Kept ==
  {[manifest |-> {"auth", "classroom"}, files |-> [d \in {"auth", "classroom"} |-> "old"]],
   [manifest |-> NoManifest, files |-> [d \in {"auth"} |-> "old"]],
   [manifest |-> {"auth", "classroom"}, files |-> [d \in {"classroom"} |-> "old"]],
   [manifest |-> {"auth", "classroom"}, files |-> "auth" :> "old" @@ "classroom" :> "empty"]}

CONSTANTS root, ann, tom, pc, k1, k2

\* A superadmin, an admin and a workstation, and a user who does not exist yet.
Accounts1 ==
  root :> [role |-> "superadmin", is_active |-> TRUE] @@
  ann :> [role |-> "admin", is_active |-> TRUE] @@
  pc :> [role |-> "workstation", is_active |-> TRUE] @@
  tom :> NoValue
Access1 == [account: {ann, pc}, classroom: {k1}, by: {NoValue}]
Bodies ==
  {[op |-> "update", role |-> "teacher", is_active |-> NoValue],
   [op |-> "update", role |-> "superadmin", is_active |-> NoValue],
   [op |-> "update", role |-> NoValue, is_active |-> FALSE],
   [op |-> "access", classrooms |-> {}],
   [op |-> "access", classrooms |-> {k2}],
   [op |-> "create", role |-> "teacher", is_active |-> TRUE, classrooms |-> {k1}],
   [op |-> "create", role |-> "teacher", is_active |-> FALSE, classrooms |-> {}]}

\* "a" and "A" are one MAC, "x" is none.
InUpperCase == [m \in {"a", "A", "b", "c", "x"} |-> IF m = "a" THEN "A" ELSE m]
Classrooms == {{"a", "A", "b", "c", "x"}, {"a"}, {}}
AddressOf(interface, network) ==
  [interface |-> interface, network |-> network, disabled |-> FALSE, invalid |-> FALSE]
RouterAddresses ==
  {{AddressOf("vlan1", 1..2), AddressOf("bridge", 1..3)},
   {AddressOf("vlan1", 1..2), AddressOf("vlan2", 1..2)},
   {[AddressOf("vlan1", 1..2) EXCEPT !.disabled = TRUE]}}
Hosts == 1..2
=============================================================================
