----------------------------- MODULE BackupRestore -----------------------------
(***************************************************************************)
(* maintenance-service: the backup of all databases and its way back.      *)
(* Databases are dumped and restored one after the other by commands in    *)
(* the container of PostgreSQL, which outlive the request that waits for   *)
(* them; every request uses the same file for a database.                  *)
(***************************************************************************)
EXTENDS Naturals, Sequences, Functions

CONSTANTS
  Databases,   \* the configured names, in their order
  Content,     \* whole contents of a database
  FirstContent,
  Uploads,     \* archives that people keep
  NoManifest,
  Restorer,    \* requests to restore
  MaxFailures  \* commands that fail or take too long, and stops of the service

Database == Range(Databases)

\* "partial": under restoration, or as a failed command left it; "mixed": two
\* commands restored it at once.
AnyContent == Content \cup {"partial", "mixed"}

\* Names that are not configured are left out.
Archive ==
  [manifest: {NoManifest} \cup SUBSET Database,
   files: UNION {[S -> AnyContent \cup {"empty"}] : S \in SUBSET Database}]

ASSUME BackupAssumption ==
  /\ Databases \in Seq(Database) /\ Databases # <<>> /\ IsInjective(Databases)
  /\ Uploads \subseteq Archive
  /\ {"partial", "mixed", "empty"} \cap Content = {} /\ FirstContent \in Content
  /\ MaxFailures \in Nat

VARIABLES
  database,     \* what each database holds
  file,         \* the restore file of each: <<>> or <<content>>
  commands,     \* the pg_restore commands that run
  restore,      \* where each request stands
  dumped,       \* contents dumped for the backup being made
  backups,      \* the backup, when it was downloaded
  failuresLeft,
  disturbed     \* history: requests that another one, or its command, overlapped

backupVars ==
  <<database, file, commands, restore, dumped, backups, failuresLeft, disturbed>>

NotRestoring == [step |-> "idle"]

\* "restored" and "failed" are answers.
Answers == {"restored", "failed"}

RestoreState ==
  {NotRestoring} \cup
  [step: {"putting", "executing", "running", "removing"} \cup Answers,
   archive: Archive, done: 0..Len(Databases), exit_ok: BOOLEAN]

InProgress(r) == restore[r].step \notin Answers \cup {"idle"}
Current(r) == Databases[restore[r].done + 1]

InitBackup ==
  /\ database = [d \in Database |-> FirstContent]
  /\ file = [d \in Database |-> <<>>]
  /\ commands = {}
  /\ restore = [r \in Restorer |-> NotRestoring]
  /\ dumped = <<>> /\ backups = {}
  /\ failuresLeft = MaxFailures
  /\ disturbed = {}

Fails == failuresLeft > 0 /\ failuresLeft' = failuresLeft - 1

-----------------------------------------------------------------------------
(* The backup: one is enough.                                              *)

UnchangedByBackup == UNCHANGED <<database, file, commands, restore, disturbed>>

ExportDatabase ==
  /\ backups = {} /\ Len(dumped) < Len(Databases)
  /\ dumped' = Append(dumped, database[Databases[Len(dumped) + 1]])
  /\ UnchangedByBackup /\ UNCHANGED <<backups, failuresLeft>>

ExportFails ==
  /\ backups = {} /\ Len(dumped) < Len(Databases)
  /\ Fails
  /\ dumped' = <<>>
  /\ UnchangedByBackup /\ UNCHANGED backups

BackupArchive ==
  [manifest |-> Database,
   files |-> [d \in Database |-> dumped[CHOOSE i \in DOMAIN Databases : Databases[i] = d]]]

DownloadDatabaseBackup ==
  /\ Len(dumped) = Len(Databases)
  /\ backups' = {BackupArchive}
  /\ dumped' = <<>>
  /\ UnchangedByBackup /\ UNCHANGED failuresLeft

-----------------------------------------------------------------------------
(* A restore.                                                              *)

\* Every configured file that a manifest names must be there, if only empty.
Readable(a) == a.manifest # NoManifest => a.manifest \subseteq DOMAIN a.files

\* An empty file is as good as none.
ExtractDatabaseBackups(a) ==
  LET named == IF a.manifest = NoManifest THEN Database ELSE a.manifest
  IN  Restrict(a.files, {d \in named \cap DOMAIN a.files : a.files[d] # "empty"})

\* What comes when n databases are done: a database that the archive lacks
\* is noticed when its turn comes.
StepAfter(a, n) ==
  CASE n = Len(Databases) -> "restored"
    [] n < Len(Databases) /\ Databases[n + 1] \in DOMAIN ExtractDatabaseBackups(a) -> "putting"
    [] OTHER -> "failed"

UploadDatabaseBackup(r, a) ==
  /\ restore[r] = NotRestoring
  /\ restore' = [restore EXCEPT ![r] =
       [step |-> IF Readable(a) THEN StepAfter(a, 0) ELSE "failed",
        archive |-> a, done |-> 0, exit_ok |-> FALSE]]
  /\ LET others == {s \in Restorer : InProgress(s)}
     IN  disturbed' = disturbed \cup others \cup
           (IF others = {} /\ commands = {} THEN {} ELSE {r})
  /\ UNCHANGED <<database, file, commands, dumped, backups, failuresLeft>>

UnchangedByRestore == UNCHANGED <<dumped, backups, disturbed>>

Goes(r, step) == restore' = [restore EXCEPT ![r].step = step]

PutArchive(r) ==
  /\ restore[r].step = "putting"
  /\ file' = [file EXCEPT ![Current(r)] =
                <<ExtractDatabaseBackups(restore[r].archive)[Current(r)]>>]
  /\ \/ Goes(r, "executing") /\ UNCHANGED failuresLeft
     \/ Goes(r, "failed") /\ Fails        \* the reply was lost
  /\ UnchangedByRestore /\ UNCHANGED <<database, commands>>

\* The command opens its file at once, and goes on with what it opened.
BeginCommand(r) ==
  /\ restore[r].step = "executing"
  /\ file[Current(r)] # <<>>
  /\ commands' = commands \cup {[by |-> r, database |-> Current(r), content |-> file[Current(r)][1]]}
  /\ database' = [database EXCEPT ![Current(r)] =
       IF \E c \in commands : c.database = Current(r) THEN "mixed" ELSE "partial"]
  /\ Goes(r, "running")
  /\ UnchangedByRestore /\ UNCHANGED <<file, failuresLeft>>

\* Without a file the command ends at once; or Docker refuses to begin it.
CommandFails(r) ==
  /\ restore[r].step = "executing"
  /\ IF file[Current(r)] = <<>> THEN UNCHANGED failuresLeft ELSE Fails
  /\ restore' = [restore EXCEPT ![r].step = "removing", ![r].exit_ok = FALSE]
  /\ UnchangedByRestore /\ UNCHANGED <<database, file, commands>>

\* The command c ends with exit code 0, or with errors; its request, if that
\* still waits, gets the exit code.
EndCommand(c) ==
  \E exit_ok \in BOOLEAN :
    /\ c \in commands
    /\ commands' = commands \ {c}
    /\ IF exit_ok THEN UNCHANGED failuresLeft ELSE Fails
    /\ database' = [database EXCEPT ![c.database] =
                      IF exit_ok /\ @ = "partial" THEN c.content ELSE @]
    /\ restore' = [restore EXCEPT ![c.by] =
         IF @.step = "running" THEN [@ EXCEPT !.step = "removing", !.exit_ok = exit_ok] ELSE @]
    /\ UnchangedByRestore /\ UNCHANGED file

\* After 300 seconds the request gives up; the command does not.
TimeOut(r) ==
  /\ restore[r].step = "running"
  /\ Fails
  /\ restore' = [restore EXCEPT ![r].step = "removing", ![r].exit_ok = FALSE]
  /\ UnchangedByRestore /\ UNCHANGED <<database, file, commands>>

Removed(r) ==
  \/ file' = [file EXCEPT ![Current(r)] = <<>>] /\ UNCHANGED failuresLeft
  \/ UNCHANGED file /\ Fails              \* a refusal is ignored

\* Mutant: the exit code is not looked at.
NextDatabaseAnyway(r) ==
  LET q == restore[r]
  IN  /\ q.step = "removing"
      /\ Removed(r)
      /\ restore' = [restore EXCEPT ![r].step = StepAfter(q.archive, q.done + 1),
                                    ![r].done = @ + 1]
      /\ UnchangedByRestore /\ UNCHANGED <<database, commands>>

NextDatabase(r) ==
  LET q == restore[r]
  IN  /\ q.step = "removing"
      /\ Removed(r)
      /\ restore' = IF q.exit_ok
                    THEN [restore EXCEPT ![r].step = StepAfter(q.archive, q.done + 1),
                                         ![r].done = @ + 1]
                    ELSE [restore EXCEPT ![r].step = "failed"]
      /\ UnchangedByRestore /\ UNCHANGED <<database, commands>>

\* An error of the removal itself ends the request, restored or not.
RemovalFails(r) ==
  /\ restore[r].step = "removing"
  /\ Fails
  /\ file' \in {file, [file EXCEPT ![Current(r)] = <<>>]}
  /\ Goes(r, "failed")
  /\ UnchangedByRestore /\ UNCHANGED <<database, commands>>

\* Requests end without an answer; commands and files stay.
MaintenanceStops ==
  /\ Fails
  /\ restore' = [r \in Restorer |->
                   IF InProgress(r) THEN [restore[r] EXCEPT !.step = "failed"] ELSE restore[r]]
  /\ dumped' = <<>>
  /\ UNCHANGED <<database, file, commands, backups, disturbed>>

Restoring(r) ==
  \/ \E a \in Uploads \cup backups : UploadDatabaseBackup(r, a)
  \/ PutArchive(r) \/ BeginCommand(r) \/ CommandFails(r) \/ TimeOut(r)
  \/ NextDatabase(r) \/ RemovalFails(r)

NextBackup ==
  \/ ExportDatabase \/ ExportFails \/ DownloadDatabaseBackup
  \/ \E r \in Restorer : Restoring(r)
  \/ \E c \in commands : EndCommand(c)
  \/ MaintenanceStops

BackupSpec == InitBackup /\ [][NextBackup]_backupVars

-----------------------------------------------------------------------------
(* Properties.                                                             *)

BackupTypeOK ==
  /\ database \in [Database -> AnyContent]
  /\ file \in [Database -> {<<>>} \cup {<<c>> : c \in AnyContent}]
  /\ commands \subseteq [by: Restorer, database: Database, content: AnyContent]
  /\ restore \in [Restorer -> RestoreState]
  /\ dumped \in Seq(AnyContent) /\ Len(dumped) <= Len(Databases)
  /\ backups \subseteq Archive
  /\ failuresLeft \in 0..MaxFailures
  /\ disturbed \subseteq Restorer

\* A restore that is answered as successful has brought back every configured
\* database as the archive has it, whatever failed, timed out or was left
\* behind by requests before it, unless another request, or the command that
\* one left running, overlapped it.
RestoredIsWhole ==
  [][\A r \in Restorer :
       (restore[r].step # "restored" /\ restore'[r].step = "restored" /\ r \notin disturbed')
       => LET files == restore'[r].archive.files
          IN  \A d \in Database : d \in DOMAIN files /\ database'[d] = files[d]]_backupVars
=============================================================================
