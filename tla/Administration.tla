---------------------------- MODULE Administration ----------------------------
(***************************************************************************)
(* Five parts of the system that administrators use.  They share no state  *)
(* and no message, and every property is about one of them: behaviours in  *)
(* which one part acts and the others wait show all there is to see.       *)
(***************************************************************************)
EXTENDS ContainerRestarts, BackupRestore, UserAdministration, WakeOnLan, RouterStatus

VARIABLE part  \* the part that acts

vars == <<part, restartVars, backupVars, administrationVars, wakeVars, statusVars>>

Part == {"restarts", "backup", "accounts", "wake", "status"}

Init ==
  /\ part \in Part
  /\ InitRestarts /\ InitBackup /\ InitAdministration /\ InitWake /\ InitStatus
  /\ part # "status" => router.is_enabled /\ router.poll_enabled

Restarts ==
  /\ part = "restarts" /\ NextRestarts
  /\ UNCHANGED <<part, backupVars, administrationVars, wakeVars, statusVars>>

Backups ==
  /\ part = "backup" /\ NextBackup
  /\ UNCHANGED <<part, restartVars, administrationVars, wakeVars, statusVars>>

Accounts ==
  /\ part = "accounts" /\ NextAdministration
  /\ UNCHANGED <<part, restartVars, backupVars, wakeVars, statusVars>>

Wakes ==
  /\ part = "wake" /\ NextWake
  /\ UNCHANGED <<part, restartVars, backupVars, administrationVars, statusVars>>

Statuses ==
  /\ part = "status" /\ NextStatus
  /\ UNCHANGED <<part, restartVars, backupVars, administrationVars, wakeVars>>

Next == Restarts \/ Backups \/ Accounts \/ Wakes \/ Statuses

\* Only the statuses promise something for later.
Spec == Init /\ [][Next]_vars /\ (part = "status" => StatusFairness)

TypeOK ==
  /\ part \in Part
  /\ RestartsTypeOK /\ BackupTypeOK /\ AdministrationTypeOK /\ WakeTypeOK /\ StatusTypeOK

\* Where the statuses act, what people see of a router settles: RouterStatus.
StatusesSettle == part = "status" => StatusSettles
=============================================================================
