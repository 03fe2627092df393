-------------------------- MODULE BackupRestore_proofs --------------------------
(***************************************************************************)
(* Proofs about BackupRestore, for any databases, archives, requests and   *)
(* failures: the types, and that a restore which nothing overlapped and    *)
(* which is answered as successful brought everything back.                *)
(***************************************************************************)
EXTENDS BackupRestore, TLAPS

Steps == {"putting", "executing", "running", "removing"}

\* The contents that request r restores next.
Wanted(r) == restore[r].archive.files[Current(r)]

\* A request in progress has its next database in its archive.
Position(r) ==
  InProgress(r) =>
    /\ restore[r].done < Len(Databases)
    /\ Readable(restore[r].archive)
    /\ Current(r) \in DOMAIN ExtractDatabaseBackups(restore[r].archive)

Alone(r) == \A s \in Restorer : InProgress(s) => s = r

\* The commands that run are the one that the request waits for.
CommandOf(r) ==
  /\ restore[r].step \in {"putting", "executing"} => commands = {}
  /\ restore[r].step = "executing" => file[Current(r)] = <<Wanted(r)>>
  /\ restore[r].step = "running" =>
       /\ commands = {[by |-> r, database |-> Current(r), content |-> Wanted(r)]}
       /\ database[Current(r)] = "partial"
  /\ restore[r].step = "removing" /\ restore[r].exit_ok =>
       commands = {} /\ database[Current(r)] = Wanted(r)
  /\ \A c \in commands : c.by = r /\ c.database = Current(r)

\* The databases that are done are as the archive has them.
DoneSoFar(r) ==
  LET files == restore[r].archive.files
  IN  \A i \in 1..restore[r].done :
        Databases[i] \in DOMAIN files /\ database[Databases[i]] = files[Databases[i]]

Undisturbed(r) == InProgress(r) /\ r \notin disturbed

Sound(r) ==
  /\ Position(r)
  /\ Undisturbed(r) => Alone(r) /\ CommandOf(r) /\ DoneSoFar(r)

BackupInv == BackupTypeOK /\ \A r \in Restorer : Sound(r)

-----------------------------------------------------------------------------
(* Lemmas.                                                                 *)

\* Every position of the list is a database, and every database has one.
LEMMA DatabaseAt ==
  /\ Len(Databases) \in Nat /\ Len(Databases) > 0 /\ DOMAIN Databases = 1..Len(Databases)
  /\ \A i \in 1..Len(Databases) : Databases[i] \in Database
  /\ \A d \in Database : \E i \in 1..Len(Databases) : Databases[i] = d
  /\ \A i, j \in 1..Len(Databases) : Databases[i] = Databases[j] => i = j
<1>1. /\ Len(Databases) \in Nat /\ DOMAIN Databases = 1..Len(Databases)
  BY BackupAssumption
<1>2. Len(Databases) > 0
  BY BackupAssumption
<1>. QED
  BY <1>1, <1>2, BackupAssumption DEF Database, Range, IsInjective

LEMMA ArchiveFields ==
  ASSUME NEW a \in Archive
  PROVE  /\ DOMAIN a.files \subseteq Database
         /\ \A d \in DOMAIN a.files : a.files[d] \in AnyContent \cup {"empty"}
         /\ a.manifest = NoManifest \/ a.manifest \subseteq Database
BY DEF Archive

\* What is extracted is what the archive has.
LEMMA Extracted ==
  ASSUME NEW a \in Archive
  PROVE  /\ DOMAIN ExtractDatabaseBackups(a) \subseteq DOMAIN a.files
         /\ \A d \in DOMAIN ExtractDatabaseBackups(a) :
              ExtractDatabaseBackups(a)[d] = a.files[d] /\ a.files[d] \in AnyContent
BY ArchiveFields DEF ExtractDatabaseBackups, Restrict

LEMMA AfterStep ==
  ASSUME NEW a, NEW n \in 0..Len(Databases)
  PROVE  /\ StepAfter(a, n) \in {"putting"} \cup Answers
         /\ StepAfter(a, n) = "putting" =>
              n < Len(Databases) /\ Databases[n + 1] \in DOMAIN ExtractDatabaseBackups(a)
         /\ StepAfter(a, n) = "restored" => n = Len(Databases)
BY DatabaseAt DEF StepAfter, Answers

\* What a request that was made is.
LEMMA RestoreFields ==
  ASSUME BackupTypeOK, NEW r \in Restorer, restore[r].step # "idle"
  PROVE  restore[r] \in [step: Steps \cup Answers, archive: Archive, done: 0..Len(Databases),
                         exit_ok: BOOLEAN]
BY DEF BackupTypeOK, RestoreState, NotRestoring, Steps

LEMMA ProgressSteps ==
  ASSUME BackupTypeOK, NEW r \in Restorer
  PROVE  InProgress(r) <=> restore[r].step \in Steps
BY DEF BackupTypeOK, RestoreState, NotRestoring, Steps, InProgress, Answers

\* The database whose turn it is.
LEMMA Turn ==
  ASSUME BackupTypeOK, NEW r \in Restorer, Position(r), restore[r].step \in Steps
  PROVE  /\ restore[r].archive \in Archive /\ restore[r].done \in Nat
         /\ restore[r].done + 1 \in 1..Len(Databases)
         /\ Current(r) \in Database /\ Current(r) \in DOMAIN restore[r].archive.files
         /\ Wanted(r) \in AnyContent
         /\ ExtractDatabaseBackups(restore[r].archive)[Current(r)] = Wanted(r)
<1>1. restore[r] \in [step: Steps \cup Answers, archive: Archive, done: 0..Len(Databases),
                      exit_ok: BOOLEAN]
  BY RestoreFields DEF Steps
<1>2. InProgress(r)
  BY ProgressSteps
<1>3. /\ restore[r].archive \in Archive /\ restore[r].done \in Nat
      /\ restore[r].done + 1 \in 1..Len(Databases)
  BY <1>1, <1>2, DatabaseAt DEF Position
<1>4. Current(r) \in Database
  BY <1>3, DatabaseAt DEF Current
<1>5. /\ Current(r) \in DOMAIN restore[r].archive.files
      /\ ExtractDatabaseBackups(restore[r].archive)[Current(r)] = Wanted(r)
      /\ Wanted(r) \in AnyContent
  BY <1>2, <1>3, Extracted DEF Position, Wanted
<1>. QED
  BY <1>3, <1>4, <1>5

\* While a request is in progress the others are disturbed; they stay as they are.
LEMMA OthersStay ==
  ASSUME BackupInv, NEW r \in Restorer, restore[r].step \in Steps,
         NEW s \in Restorer, s # r, restore'[s] = restore[s], disturbed' = disturbed
  PROVE  Sound(s)'
<1>1. InProgress(r)
  BY ProgressSteps DEF BackupInv
<1>2. ~Undisturbed(s)
  BY <1>1 DEF BackupInv, Sound, Alone
<1>3. ~Undisturbed(s)'
  BY <1>2 DEF Undisturbed, InProgress
<1>4. Position(s)'
  BY DEF BackupInv, Sound, Position, InProgress, Current
<1>. QED
  BY <1>3, <1>4 DEF Sound

\* An answered request promises nothing more.
LEMMA AnsweredIsSound ==
  ASSUME NEW r, restore'[r].step \in Answers \cup {"idle"}
  PROVE  Sound(r)'
BY DEF Sound, Position, Undisturbed, InProgress

\* Nothing that a request in progress depends on changes.
LEMMA UnchangedIsSound ==
  ASSUME BackupInv, NEW r \in Restorer, UNCHANGED <<restore, commands, file, database, disturbed>>
  PROVE  Sound(r)'
BY DEF BackupInv, Sound, Position, Undisturbed, InProgress, Alone, CommandOf, DoneSoFar, Wanted, Current

-----------------------------------------------------------------------------
(* The invariant.                                                          *)

LEMMA BackupInitInv == InitBackup => BackupInv
<1> SUFFICES ASSUME InitBackup PROVE BackupInv
  OBVIOUS
<1>1. BackupTypeOK
  BY BackupAssumption, DatabaseAt DEF InitBackup, BackupTypeOK, AnyContent, RestoreState
<1>2. \A r \in Restorer : restore[r].step = "idle"
  BY DEF InitBackup, NotRestoring
<1>3. \A r \in Restorer : Sound(r)
  BY <1>2 DEF Sound, Position, Undisturbed, InProgress
<1>. QED
  BY <1>1, <1>3 DEF BackupInv

LEMMA FailsType ==
  ASSUME BackupTypeOK, Fails \/ UNCHANGED failuresLeft
  PROVE  failuresLeft' \in 0..MaxFailures
BY BackupAssumption DEF BackupTypeOK, Fails

\* A backup touches nothing of a restore.
LEMMA BackupStep ==
  ASSUME BackupInv, ExportDatabase \/ ExportFails \/ DownloadDatabaseBackup
  PROVE  BackupInv'
<1>1. BackupTypeOK /\ UNCHANGED <<restore, commands, file, database, disturbed>>
  BY DEF BackupInv, ExportDatabase, ExportFails, DownloadDatabaseBackup, UnchangedByBackup
<1>2. failuresLeft' \in 0..MaxFailures
  BY <1>1, FailsType DEF ExportDatabase, ExportFails, DownloadDatabaseBackup
<1>3. dumped' \in Seq(AnyContent) /\ Len(dumped') <= Len(Databases)
  <2>1. CASE ExportDatabase
    <3>1. Len(dumped) \in Nat /\ Len(dumped) + 1 \in 1..Len(Databases)
      BY <1>1, <2>1, DatabaseAt DEF ExportDatabase, BackupTypeOK
    <3>2. database[Databases[Len(dumped) + 1]] \in AnyContent
      BY <1>1, <3>1, DatabaseAt DEF BackupTypeOK
    <3>. QED
      BY <1>1, <2>1, <3>1, <3>2, DatabaseAt DEF ExportDatabase, BackupTypeOK
  <2>2. CASE ExportFails \/ DownloadDatabaseBackup
    <3>1. dumped' = <<>>
      BY <2>2 DEF ExportFails, DownloadDatabaseBackup
    <3>. QED
      BY <3>1, DatabaseAt
  <2>. QED
    BY <2>1, <2>2
<1>4. backups' \subseteq Archive
  <2>1. CASE ExportDatabase \/ ExportFails
    BY <1>1, <2>1 DEF ExportDatabase, ExportFails, BackupTypeOK
  <2>2. CASE DownloadDatabaseBackup
    <3>1. ASSUME NEW d \in Database
          PROVE  dumped[CHOOSE i \in DOMAIN Databases : Databases[i] = d] \in AnyContent
      <4>1. (CHOOSE i \in DOMAIN Databases : Databases[i] = d) \in 1..Len(Databases)
        BY DatabaseAt
      <4>. QED
        BY <1>1, <2>2, <4>1 DEF DownloadDatabaseBackup, BackupTypeOK
    <3>2. [d \in Database |-> dumped[CHOOSE i \in DOMAIN Databases : Databases[i] = d]]
            \in [Database -> AnyContent]
      BY <3>1
    <3>3. BackupArchive \in Archive
      BY <3>2 DEF BackupArchive, Archive
    <3>. QED
      BY <2>2, <3>3 DEF DownloadDatabaseBackup
  <2>. QED
    BY <2>1, <2>2
<1>5. BackupTypeOK'
  BY <1>1, <1>2, <1>3, <1>4 DEF BackupTypeOK
<1>. QED
  BY <1>1, <1>5, UnchangedIsSound DEF BackupInv

LEMMA UploadStep ==
  ASSUME BackupInv, NEW r \in Restorer, NEW a \in Uploads \cup backups, UploadDatabaseBackup(r, a)
  PROVE  BackupInv'
<1> DEFINE step == IF Readable(a) THEN StepAfter(a, 0) ELSE "failed"
           new == [step |-> step, archive |-> a, done |-> 0, exit_ok |-> FALSE]
           others == {s \in Restorer : InProgress(s)}
<1>1. BackupTypeOK /\ restore[r].step = "idle" /\ a \in Archive
  BY BackupAssumption DEF BackupInv, UploadDatabaseBackup, BackupTypeOK, NotRestoring
<1>2. /\ step \in {"putting", "failed"}
      /\ step = "putting" => Readable(a) /\ Databases[1] \in DOMAIN ExtractDatabaseBackups(a)
  <2>1. 0 \in 0..Len(Databases) /\ Len(Databases) # 0
    BY DatabaseAt
  <2>2. StepAfter(a, 0) \in {"putting", "failed"} /\
          (StepAfter(a, 0) = "putting" => Databases[1] \in DOMAIN ExtractDatabaseBackups(a))
    BY <2>1, AfterStep DEF Answers
  <2>. QED
    BY <2>2
<1>3. new \in RestoreState
  <2> HIDE DEF step
  <2>. QED
    BY <1>1, <1>2, DatabaseAt DEF RestoreState, Answers
<1>4. restore' = [restore EXCEPT ![r] = new] /\ restore'[r] = new
  BY <1>1 DEF UploadDatabaseBackup, BackupTypeOK
<1>5. /\ disturbed' = disturbed \cup others \cup (IF others = {} /\ commands = {} THEN {} ELSE {r})
      /\ UNCHANGED <<database, file, commands, dumped, backups, failuresLeft>>
  BY DEF UploadDatabaseBackup
<1>6. BackupTypeOK'
  <2> HIDE DEF new
  <2>. QED
    BY <1>1, <1>3, <1>4, <1>5 DEF BackupTypeOK
<1>7. ASSUME NEW s \in Restorer, s # r PROVE Sound(s)'
  <2>1. restore'[s] = restore[s]
    BY <1>1, <1>4, <1>7 DEF BackupTypeOK
  <2>2. InProgress(s)' => s \in disturbed'
    BY <1>5, <2>1 DEF InProgress
  <2>3. Position(s)'
    BY <2>1 DEF BackupInv, Sound, Position, InProgress, Current
  <2>. QED
    BY <2>2, <2>3 DEF Sound, Undisturbed
<1>8. Sound(r)'
  <2>1. CASE step = "failed"
    BY <1>4, <2>1, AnsweredIsSound DEF Answers
  <2>2. CASE step = "putting"
    <3>1. Position(r)'
      BY <1>2, <1>4, <2>2, DatabaseAt DEF Position, Current
    <3>2. ASSUME Undisturbed(r)' PROVE Alone(r)' /\ CommandOf(r)' /\ DoneSoFar(r)'
      <4>1. others = {} /\ commands' = {}
        BY <1>5, <3>2 DEF Undisturbed
      <4>2. Alone(r)'
        <5>1. \A s \in Restorer : s # r => restore'[s] = restore[s]
          BY <1>1, <1>4 DEF BackupTypeOK
        <5>. QED
          BY <4>1, <5>1 DEF Alone, InProgress
      <4>3. CommandOf(r)'
        BY <1>4, <2>2, <4>1 DEF CommandOf
      <4>4. DoneSoFar(r)'
        BY <1>4 DEF DoneSoFar
      <4>. QED
        BY <4>2, <4>3, <4>4
    <3>. QED
      BY <3>1, <3>2 DEF Sound
  <2>. QED
    BY <1>2, <2>1, <2>2
<1>. QED
  BY <1>6, <1>7, <1>8 DEF BackupInv

\* A step of request r that is in progress, when it leaves r sound.
LEMMA StepOf ==
  ASSUME BackupInv, NEW r \in Restorer, restore[r].step \in Steps,
         NEW new \in RestoreState, restore' = [restore EXCEPT ![r] = new], Sound(r)',
         database' \in [Database -> AnyContent],
         file' \in [Database -> {<<>>} \cup {<<c>> : c \in AnyContent}],
         commands' \subseteq [by: Restorer, database: Database, content: AnyContent],
         UnchangedByRestore, Fails \/ UNCHANGED failuresLeft
  PROVE  BackupInv'
<1>1. BackupTypeOK'
  BY FailsType DEF BackupInv, BackupTypeOK, UnchangedByRestore
<1>2. ASSUME NEW s \in Restorer, s # r PROVE Sound(s)'
  <2>1. restore'[s] = restore[s] /\ disturbed' = disturbed
    BY <1>2 DEF BackupInv, BackupTypeOK, UnchangedByRestore
  <2>. QED
    BY <1>2, <2>1, OthersStay
<1>. QED
  BY <1>1, <1>2 DEF BackupInv

\* A new step of a request keeps its archive and its place among the databases.
LEMMA Moved ==
  ASSUME BackupTypeOK, NEW r \in Restorer, restore[r].step \in Steps,
         NEW step \in Steps \cup Answers, NEW exit_ok \in BOOLEAN
  PROVE  LET new == [restore[r] EXCEPT !.step = step, !.exit_ok = exit_ok]
         IN  /\ new \in RestoreState /\ new.step = step /\ new.exit_ok = exit_ok
             /\ new.archive = restore[r].archive /\ new.done = restore[r].done
<1>1. restore[r] \in [step: Steps \cup Answers, archive: Archive, done: 0..Len(Databases),
                      exit_ok: BOOLEAN]
  BY RestoreFields DEF Steps
<1>. QED
  BY <1>1 DEF RestoreState, Steps

LEMMA MovedOn ==
  ASSUME BackupTypeOK, NEW r \in Restorer, restore[r].step \in Steps,
         NEW step \in Steps \cup Answers
  PROVE  LET new == [restore[r] EXCEPT !.step = step]
         IN  /\ new \in RestoreState /\ new.step = step
             /\ new.archive = restore[r].archive /\ new.done = restore[r].done
<1>1. restore[r] \in [step: Steps \cup Answers, archive: Archive, done: 0..Len(Databases),
                      exit_ok: BOOLEAN]
  BY RestoreFields DEF Steps
<1>. QED
  BY <1>1 DEF RestoreState, Steps

\* It keeps its position and is as alone as before; what it had done stays so
\* while no other database than its present one changes.
LEMMA Kept ==
  ASSUME BackupInv, NEW r \in Restorer, restore[r].step \in Steps, NEW new,
         restore' = [restore EXCEPT ![r] = new], restore'[r] = new, disturbed' = disturbed,
         new.archive = restore[r].archive, new.done = restore[r].done,
         \A d \in Database \ {Current(r)} : database'[d] = database[d]
  PROVE  /\ Position(r)' /\ Current(r)' = Current(r) /\ Wanted(r)' = Wanted(r)
         /\ Undisturbed(r)' => Undisturbed(r) /\ Alone(r)' /\ DoneSoFar(r)'
<1>1. InProgress(r) /\ BackupTypeOK
  BY ProgressSteps DEF BackupInv
<1>2. Position(r)' /\ Current(r)' = Current(r) /\ Wanted(r)' = Wanted(r)
  BY <1>1 DEF BackupInv, Sound, Position, Current, Wanted
<1>3. ASSUME Undisturbed(r)' PROVE Undisturbed(r) /\ Alone(r)' /\ DoneSoFar(r)'
  <2>1. Undisturbed(r)
    BY <1>1, <1>3 DEF Undisturbed
  <2>2. Alone(r) /\ DoneSoFar(r)
    BY <2>1 DEF BackupInv, Sound
  <2>3. Alone(r)'
    <3>1. \A s \in Restorer : s # r => restore'[s] = restore[s]
      BY <1>1 DEF BackupTypeOK
    <3>. QED
      BY <2>2, <3>1 DEF Alone, InProgress
  <2>4. DoneSoFar(r)'
    <3>1. /\ restore[r].done \in Nat /\ restore[r].done < Len(Databases)
          /\ Current(r) = Databases[restore[r].done + 1]
      BY <1>1, Turn DEF BackupInv, Sound, Position, Current
    <3>2. \A i \in 1..restore[r].done : Databases[i] \in Database \ {Current(r)}
      BY <3>1, DatabaseAt
    <3>. QED
      BY <2>2, <3>2 DEF DoneSoFar
  <2>. QED
    BY <2>1, <2>3, <2>4
<1>. QED
  BY <1>2, <1>3

\* A request that fails is answered.
LEMMA FailedStep ==
  ASSUME BackupInv, NEW r \in Restorer, restore[r].step \in Steps,
         restore' = [restore EXCEPT ![r] = [restore[r] EXCEPT !.step = "failed"]],
         database' = database, commands' = commands,
         file' \in [Database -> {<<>>} \cup {<<c>> : c \in AnyContent}],
         UnchangedByRestore, Fails \/ UNCHANGED failuresLeft
  PROVE  BackupInv'
<1> DEFINE new == [restore[r] EXCEPT !.step = "failed"]
<1>1. BackupTypeOK
  BY DEF BackupInv
<1>2. new \in RestoreState /\ new.step = "failed"
  BY <1>1, MovedOn DEF Answers
<1>3. restore'[r].step = "failed"
  BY <1>1, <1>2 DEF BackupTypeOK
<1>4. Sound(r)'
  BY <1>3, AnsweredIsSound DEF Answers
<1> HIDE DEF new
<1>5. restore' = [restore EXCEPT ![r] = new]
  BY DEF new
<1>. QED
  BY <1>1, <1>2, <1>4, <1>5, StepOf DEF BackupTypeOK

\* A request whose command was refused, or that gave up on it, goes on to fail.
LEMMA GivenUpStep ==
  ASSUME BackupInv, NEW r \in Restorer, restore[r].step \in Steps,
         restore' = [restore EXCEPT ![r] = [restore[r] EXCEPT !.step = "removing", !.exit_ok = FALSE]],
         UnchangedByRestore, UNCHANGED <<database, file, commands>>, Fails \/ UNCHANGED failuresLeft
  PROVE  BackupInv'
<1> DEFINE new == [restore[r] EXCEPT !.step = "removing", !.exit_ok = FALSE]
<1>1. BackupTypeOK
  BY DEF BackupInv
<1>2. /\ new \in RestoreState /\ new.step = "removing" /\ ~new.exit_ok
      /\ new.archive = restore[r].archive /\ new.done = restore[r].done
  BY <1>1, Moved DEF Steps
<1> HIDE DEF new
<1>3. /\ restore' = [restore EXCEPT ![r] = new] /\ restore'[r] = new
      /\ disturbed' = disturbed
  BY <1>1 DEF new, UnchangedByRestore, BackupTypeOK
<1>4. /\ Position(r)' /\ Current(r)' = Current(r)
      /\ Undisturbed(r)' => Undisturbed(r) /\ Alone(r)' /\ DoneSoFar(r)'
  BY <1>2, <1>3, Kept
<1>5. Undisturbed(r)' => CommandOf(r)'
  BY <1>2, <1>3, <1>4 DEF BackupInv, Sound, CommandOf
<1>6. Sound(r)'
  BY <1>4, <1>5 DEF Sound
<1>. QED
  BY <1>1, <1>2, <1>3, <1>6, StepOf DEF BackupTypeOK

LEMMA PutStep ==
  ASSUME BackupInv, NEW r \in Restorer, PutArchive(r)
  PROVE  BackupInv'
<1> DEFINE new == [restore[r] EXCEPT !.step = "executing"]
<1>1. /\ BackupTypeOK /\ restore[r].step = "putting" /\ restore[r].step \in Steps
      /\ UnchangedByRestore /\ disturbed' = disturbed /\ UNCHANGED <<database, commands>>
  BY DEF BackupInv, PutArchive, Steps, UnchangedByRestore
<1>2. /\ Current(r) \in Database /\ Wanted(r) \in AnyContent
      /\ ExtractDatabaseBackups(restore[r].archive)[Current(r)] = Wanted(r)
  BY <1>1, Turn DEF BackupInv, Sound
<1>3. file' = [file EXCEPT ![Current(r)] = <<Wanted(r)>>]
  BY <1>2 DEF PutArchive
<1>4. /\ file' \in [Database -> {<<>>} \cup {<<c>> : c \in AnyContent}]
      /\ file'[Current(r)] = <<Wanted(r)>>
  BY <1>1, <1>2, <1>3 DEF BackupTypeOK
<1>5. CASE Goes(r, "failed") /\ Fails
  BY <1>1, <1>4, <1>5, FailedStep DEF Goes
<1>6. CASE Goes(r, "executing") /\ UNCHANGED failuresLeft
  <2>1. /\ new \in RestoreState /\ new.step = "executing"
        /\ new.archive = restore[r].archive /\ new.done = restore[r].done
    BY <1>1, MovedOn DEF Steps
  <2>2. restore' = [restore EXCEPT ![r] = new]
    BY <1>6 DEF Goes
  <2> HIDE DEF new
  <2>3. restore'[r] = new
    BY <1>1, <2>2 DEF BackupTypeOK
  <2>4. /\ Position(r)' /\ Current(r)' = Current(r) /\ Wanted(r)' = Wanted(r)
        /\ Undisturbed(r)' => Undisturbed(r) /\ Alone(r)' /\ DoneSoFar(r)'
    BY <1>1, <2>1, <2>2, <2>3, Kept
  <2>5. Undisturbed(r)' => CommandOf(r)'
    BY <1>1, <1>4, <2>1, <2>3, <2>4 DEF BackupInv, Sound, CommandOf
  <2>6. Sound(r)'
    BY <2>4, <2>5 DEF Sound
  <2>. QED
    BY <1>1, <1>4, <1>6, <2>1, <2>2, <2>6, StepOf DEF BackupTypeOK
<1>. QED
  BY <1>5, <1>6 DEF PutArchive

LEMMA BeginStep ==
  ASSUME BackupInv, NEW r \in Restorer, BeginCommand(r)
  PROVE  BackupInv'
<1> DEFINE new == [restore[r] EXCEPT !.step = "running"]
           begun == [by |-> r, database |-> Current(r), content |-> file[Current(r)][1]]
           content == IF \E c \in commands : c.database = Current(r) THEN "mixed" ELSE "partial"
<1>1. /\ BackupTypeOK /\ restore[r].step = "executing" /\ restore[r].step \in Steps
      /\ UnchangedByRestore /\ disturbed' = disturbed /\ UNCHANGED <<file, failuresLeft>>
      /\ file[Current(r)] # <<>>
      /\ commands' = commands \cup {begun}
      /\ database' = [database EXCEPT ![Current(r)] = content]
      /\ restore' = [restore EXCEPT ![r] = new]
  BY DEF BackupInv, BeginCommand, Steps, UnchangedByRestore, Goes
<1>2. Current(r) \in Database /\ Wanted(r) \in AnyContent
  BY <1>1, Turn DEF BackupInv, Sound
<1>3. file[Current(r)][1] \in AnyContent
  BY <1>1, <1>2 DEF BackupTypeOK
<1>4. content \in AnyContent
  BY DEF AnyContent
<1>5. /\ database' \in [Database -> AnyContent]
      /\ \A d \in Database \ {Current(r)} : database'[d] = database[d]
      /\ database'[Current(r)] = content
  <2> HIDE DEF content
  <2>. QED
    BY <1>1, <1>2, <1>4 DEF BackupTypeOK
<1>6. commands' \subseteq [by: Restorer, database: Database, content: AnyContent]
  BY <1>1, <1>2, <1>3 DEF BackupTypeOK
<1>7. /\ new \in RestoreState /\ new.step = "running"
      /\ new.archive = restore[r].archive /\ new.done = restore[r].done
  BY <1>1, MovedOn DEF Steps
<1> HIDE DEF new
<1>8. restore'[r] = new
  BY <1>1 DEF BackupTypeOK
<1>9. /\ Position(r)' /\ Current(r)' = Current(r) /\ Wanted(r)' = Wanted(r)
      /\ Undisturbed(r)' => Undisturbed(r) /\ Alone(r)' /\ DoneSoFar(r)'
  BY <1>1, <1>5, <1>7, <1>8, Kept
<1>10. ASSUME Undisturbed(r)' PROVE CommandOf(r)'
  <2>1. commands = {} /\ file[Current(r)] = <<Wanted(r)>>
    BY <1>1, <1>9, <1>10 DEF BackupInv, Sound, CommandOf
  <2>2. begun = [by |-> r, database |-> Current(r), content |-> Wanted(r)] /\ content = "partial"
    BY <2>1
  <2>3. commands' = {[by |-> r, database |-> Current(r)', content |-> Wanted(r)']}
    BY <1>1, <1>9, <2>1, <2>2
  <2>4. database'[Current(r)'] = "partial"
    BY <1>5, <1>9, <2>2
  <2>. QED
    BY <1>7, <1>8, <2>3, <2>4 DEF CommandOf
<1>11. Sound(r)'
  BY <1>9, <1>10 DEF Sound
<1>. QED
  BY <1>1, <1>5, <1>6, <1>7, <1>11, StepOf DEF BackupTypeOK

LEMMA CommandFailsStep ==
  ASSUME BackupInv, NEW r \in Restorer, CommandFails(r)
  PROVE  BackupInv'
BY GivenUpStep DEF CommandFails, Steps

LEMMA TimeOutStep ==
  ASSUME BackupInv, NEW r \in Restorer, TimeOut(r)
  PROVE  BackupInv'
BY GivenUpStep DEF TimeOut, Steps

LEMMA RemovalFailsStep ==
  ASSUME BackupInv, NEW r \in Restorer, RemovalFails(r)
  PROVE  BackupInv'
<1>1. file' \in [Database -> {<<>>} \cup {<<c>> : c \in AnyContent}]
  BY DEF RemovalFails, BackupInv, BackupTypeOK
<1>. QED
  BY <1>1, FailedStep DEF RemovalFails, Goes, Steps

LEMMA NextDatabaseStep ==
  ASSUME BackupInv, NEW r \in Restorer, NextDatabase(r)
  PROVE  BackupInv'
<1> DEFINE q == restore[r]
           step == StepAfter(q.archive, q.done + 1)
           new == [q EXCEPT !.step = step, !.done = @ + 1]
<1>1. /\ BackupTypeOK /\ q.step = "removing" /\ q.step \in Steps
      /\ UnchangedByRestore /\ disturbed' = disturbed /\ UNCHANGED <<database, commands>>
      /\ Fails \/ UNCHANGED failuresLeft
      /\ file' \in [Database -> {<<>>} \cup {<<c>> : c \in AnyContent}]
  BY DEF BackupInv, BackupTypeOK, NextDatabase, Removed, Steps, UnchangedByRestore
<1>2. CASE ~q.exit_ok
  <2>1. restore' = [restore EXCEPT ![r] = [restore[r] EXCEPT !.step = "failed"]]
    BY <1>2 DEF NextDatabase
  <2>. QED
    BY <1>1, <2>1, FailedStep
<1>3. CASE q.exit_ok
  <2>1. /\ q.archive \in Archive /\ q.done \in Nat /\ q.done + 1 \in 1..Len(Databases)
        /\ Current(r) = Databases[q.done + 1] /\ Current(r) \in DOMAIN q.archive.files
    BY <1>1, Turn DEF BackupInv, Sound, Current
  <2>2. /\ step \in {"putting"} \cup Answers
        /\ step = "putting" => /\ q.done + 1 < Len(Databases)
                               /\ Databases[q.done + 1 + 1] \in DOMAIN ExtractDatabaseBackups(q.archive)
    <3>1. q.done + 1 \in 0..Len(Databases)
      BY <2>1, DatabaseAt
    <3>. QED
      BY <3>1, AfterStep
  <2>3. restore' = [restore EXCEPT ![r] = new]
    BY <1>3 DEF NextDatabase
  <2> HIDE DEF step
  <2>4. /\ new \in RestoreState /\ restore'[r] = new /\ new.step = step
        /\ new.archive = q.archive /\ new.done = q.done + 1
    <3>1. q \in [step: Steps \cup Answers, archive: Archive, done: 0..Len(Databases), exit_ok: BOOLEAN]
      BY <1>1, RestoreFields DEF Steps
    <3>2. q.done + 1 \in 0..Len(Databases)
      BY <2>1, DatabaseAt
    <3>3. /\ new.step = step /\ new.archive = q.archive /\ new.done = q.done + 1
      BY <3>1
    <3>4. new \in RestoreState
      BY <2>2, <3>1, <3>2 DEF RestoreState
    <3> HIDE DEF new
    <3>. QED
      BY <1>1, <2>3, <3>3, <3>4 DEF BackupTypeOK
  <2> HIDE DEF new
  <2>5. Sound(r)'
    <3>1. CASE step \in Answers
      BY <2>4, <3>1, AnsweredIsSound
    <3>2. CASE step = "putting"
      <4>1. InProgress(r) /\ Readable(q.archive)
        BY <1>1, ProgressSteps DEF BackupInv, Sound, Position
      <4>2. Position(r)'
        BY <2>2, <2>4, <3>2, <4>1 DEF Position, Current
      <4>3. ASSUME Undisturbed(r)' PROVE Alone(r)' /\ CommandOf(r)' /\ DoneSoFar(r)'
        <5>1. Undisturbed(r)
          BY <1>1, <4>1, <4>3 DEF Undisturbed
        <5>2. Alone(r) /\ CommandOf(r) /\ DoneSoFar(r)
          BY <5>1 DEF BackupInv, Sound
        <5>3. Alone(r)'
          <6>1. \A s \in Restorer : s # r => restore'[s] = restore[s]
            BY <1>1, <2>3 DEF BackupTypeOK
          <6>. QED
            BY <5>2, <6>1 DEF Alone, InProgress
        <5>4. commands = {} /\ database[Current(r)] = Wanted(r)
          BY <1>1, <1>3, <5>2 DEF CommandOf
        <5>5. CommandOf(r)'
          BY <1>1, <2>4, <3>2, <5>4 DEF CommandOf
        <5>6. DoneSoFar(r)'
          <6>1. \A i \in 1..(q.done + 1) : i \in 1..q.done \/ i = q.done + 1
            BY <2>1
          <6>. QED
            BY <1>1, <2>1, <2>4, <5>2, <5>4, <6>1 DEF DoneSoFar, Wanted
        <5>. QED
          BY <5>3, <5>5, <5>6
      <4>. QED
        BY <4>2, <4>3 DEF Sound
    <3>. QED
      BY <2>2, <3>1, <3>2
  <2>. QED
    BY <1>1, <2>3, <2>4, <2>5, StepOf DEF BackupTypeOK
<1>. QED
  BY <1>2, <1>3

LEMMA EndStep ==
  ASSUME BackupInv, NEW c \in commands, EndCommand(c)
  PROVE  BackupInv'
<1>1. PICK exit_ok \in BOOLEAN :
        /\ commands' = commands \ {c}
        /\ IF exit_ok THEN UNCHANGED failuresLeft ELSE Fails
        /\ database' = [database EXCEPT ![c.database] =
                          IF exit_ok /\ @ = "partial" THEN c.content ELSE @]
        /\ restore' = [restore EXCEPT ![c.by] =
             IF @.step = "running" THEN [@ EXCEPT !.step = "removing", !.exit_ok = exit_ok] ELSE @]
        /\ UnchangedByRestore /\ UNCHANGED file
  BY DEF EndCommand
<1> DEFINE r == c.by
           new == [restore[r] EXCEPT !.step = "removing", !.exit_ok = exit_ok]
<1>2. BackupTypeOK /\ r \in Restorer /\ c.database \in Database /\ c.content \in AnyContent
  BY DEF BackupInv, BackupTypeOK
<1>3. /\ database' \in [Database -> AnyContent]
      /\ \A d \in Database \ {c.database} : database'[d] = database[d]
      /\ database'[c.database] =
           IF exit_ok /\ database[c.database] = "partial" THEN c.content ELSE database[c.database]
  BY <1>1, <1>2 DEF BackupTypeOK
<1>4. commands' \subseteq [by: Restorer, database: Database, content: AnyContent]
  BY <1>1, <1>2 DEF BackupTypeOK
<1>5. CASE restore[r].step = "running"
  <2>1. restore[r].step \in Steps
    BY <1>5 DEF Steps
  <2>2. /\ new \in RestoreState /\ new.step = "removing" /\ new.exit_ok = exit_ok
        /\ new.archive = restore[r].archive /\ new.done = restore[r].done
    <3>1. restore[r] \in [step: Steps \cup Answers, archive: Archive, done: 0..Len(Databases),
                          exit_ok: BOOLEAN]
      BY <1>2, <2>1, RestoreFields DEF Steps
    <3>. QED
      BY <3>1 DEF RestoreState, Steps
  <2>3. /\ restore' = [restore EXCEPT ![r] = new] /\ restore'[r] = new
        /\ disturbed' = disturbed
    BY <1>1, <1>2, <1>5 DEF UnchangedByRestore, BackupTypeOK
  <2> HIDE DEF new
  <2>4. Sound(r)'
    <3>1. CASE Undisturbed(r)
      <4>1. /\ commands = {[by |-> r, database |-> Current(r), content |-> Wanted(r)]}
            /\ database[Current(r)] = "partial"
        BY <1>2, <1>5, <3>1 DEF BackupInv, Sound, CommandOf
      <4>2. c = [by |-> r, database |-> Current(r), content |-> Wanted(r)] /\ commands' = {}
        BY <1>1, <4>1
      <4>3. c.database = Current(r) /\ c.content = Wanted(r)
        BY <4>2
      <4>4. exit_ok => database'[Current(r)] = Wanted(r)
        BY <1>3, <4>1, <4>3
      <4>5. /\ Position(r)' /\ Current(r)' = Current(r) /\ Wanted(r)' = Wanted(r)
            /\ Undisturbed(r)' => Undisturbed(r) /\ Alone(r)' /\ DoneSoFar(r)'
        BY <1>2, <1>3, <2>1, <2>2, <2>3, <4>3, Kept
      <4>6. CommandOf(r)'
        BY <2>2, <2>3, <4>2, <4>4, <4>5 DEF CommandOf
      <4>. QED
        BY <4>5, <4>6 DEF Sound
    <3>2. CASE ~Undisturbed(r)
      <4>1. InProgress(r)
        BY <1>2, <2>1, ProgressSteps
      <4>2. ~Undisturbed(r)'
        BY <2>3, <3>2, <4>1 DEF Undisturbed
      <4>3. Position(r)'
        BY <1>2, <2>2, <2>3, <4>1 DEF BackupInv, Sound, Position, Current
      <4>. QED
        BY <4>2, <4>3 DEF Sound
    <3>. QED
      BY <3>1, <3>2
  <2>. QED
    BY <1>1, <1>2, <1>3, <1>4, <2>1, <2>2, <2>3, <2>4, StepOf DEF BackupTypeOK
<1>6. CASE restore[r].step # "running"
  <2>1. restore' = restore /\ disturbed' = disturbed
    BY <1>1, <1>2, <1>6 DEF BackupTypeOK, UnchangedByRestore
  <2>2. BackupTypeOK'
    BY <1>1, <1>2, <1>3, <1>4, <2>1, FailsType DEF BackupTypeOK, UnchangedByRestore
  <2>3. ASSUME NEW s \in Restorer PROVE Sound(s)'
    <3>1. Position(s)'
      BY <2>1 DEF BackupInv, Sound, Position, InProgress, Current
    <3>2. ASSUME Undisturbed(s)' PROVE Alone(s)' /\ CommandOf(s)' /\ DoneSoFar(s)'
      <4>1. Undisturbed(s)
        BY <2>1, <3>2 DEF Undisturbed, InProgress
      <4>2. Alone(s) /\ CommandOf(s) /\ DoneSoFar(s)
        BY <4>1 DEF BackupInv, Sound
      <4>3. r = s /\ commands # {}
        BY <4>2 DEF CommandOf
      <4>4. restore[s].step \in Steps /\ restore[s].step = "removing" /\ ~restore[s].exit_ok
        BY <1>2, <1>6, <4>1, <4>2, <4>3, ProgressSteps DEF Undisturbed, CommandOf, Steps
      <4>5. Alone(s)' /\ CommandOf(s)'
        BY <1>1, <2>1, <4>2, <4>4 DEF Alone, CommandOf, InProgress, Current
      <4>6. DoneSoFar(s)'
        <5>1. c.database = Current(s)
          BY <4>2 DEF CommandOf
        <5>2. /\ restore[s].done \in Nat /\ restore[s].done < Len(Databases)
              /\ Current(s) = Databases[restore[s].done + 1]
          BY <1>2, <4>1, <4>4, Turn DEF BackupInv, Sound, Position, Current, Undisturbed
        <5>3. \A i \in 1..restore[s].done : Databases[i] \in Database \ {c.database}
          BY <5>1, <5>2, DatabaseAt
        <5>. QED
          BY <1>3, <2>1, <4>2, <5>3 DEF DoneSoFar
      <4>. QED
        BY <4>5, <4>6
    <3>. QED
      BY <3>1, <3>2 DEF Sound
  <2>. QED
    BY <2>2, <2>3 DEF BackupInv
<1>. QED
  BY <1>5, <1>6

\* Every request is answered, and commands and files stay.
LEMMA StopStep ==
  ASSUME BackupInv, MaintenanceStops
  PROVE  BackupInv'
<1>1. /\ BackupTypeOK /\ dumped' = <<>> /\ UNCHANGED <<database, file, commands, backups, disturbed>>
      /\ Fails
  BY DEF BackupInv, MaintenanceStops
<1>2. ASSUME NEW r \in Restorer
      PROVE  restore'[r] \in RestoreState /\ restore'[r].step \in Answers \cup {"idle"}
  <2>1. CASE InProgress(r)
    <3>1. restore[r].step \in Steps
      BY <1>1, <2>1, ProgressSteps
    <3>2. restore'[r] = [restore[r] EXCEPT !.step = "failed"]
      BY <2>1 DEF MaintenanceStops
    <3>. QED
      BY <1>1, <3>1, <3>2, MovedOn DEF Answers
  <2>2. CASE ~InProgress(r)
    <3>1. restore'[r] = restore[r]
      BY <2>2 DEF MaintenanceStops
    <3>. QED
      BY <1>1, <2>2, <3>1 DEF InProgress, BackupTypeOK
  <2>. QED
    BY <2>1, <2>2
<1>3. restore' \in [Restorer -> RestoreState]
  BY <1>2 DEF MaintenanceStops
<1>4. BackupTypeOK'
  BY <1>1, <1>3, FailsType, DatabaseAt DEF BackupTypeOK
<1>. QED
  BY <1>2, <1>4, AnsweredIsSound DEF BackupInv

LEMMA BackupNextInv == BackupInv /\ [NextBackup]_backupVars => BackupInv'
<1> SUFFICES ASSUME BackupInv, [NextBackup]_backupVars PROVE BackupInv'
  OBVIOUS
<1>1. ASSUME NEW r \in Restorer, Restoring(r) PROVE BackupInv'
  BY <1>1, UploadStep, PutStep, BeginStep, CommandFailsStep, TimeOutStep, NextDatabaseStep,
     RemovalFailsStep DEF Restoring
<1>2. CASE UNCHANGED backupVars
  <2>1. BackupTypeOK'
    BY <1>2 DEF BackupInv, backupVars, BackupTypeOK
  <2>. QED
    BY <1>2, <2>1, UnchangedIsSound DEF BackupInv, backupVars
<1>. QED
  BY <1>1, <1>2, BackupStep, EndStep, StopStep DEF NextBackup

LEMMA BackupInvariant == BackupSpec => []BackupInv
BY BackupInitInv, BackupNextInv, PTL DEF BackupSpec

-----------------------------------------------------------------------------
(* The theorems.                                                           *)

\* Every variable has its type in every behaviour.
THEOREM BackupTypeCorrect == BackupSpec => []BackupTypeOK
<1>1. BackupInv => BackupTypeOK
  BY DEF BackupInv
<1>. QED
  BY <1>1, BackupInvariant, PTL

\* A restore that is answered as successful, and that no other request or
\* command overlapped, has brought back every database as the archive has it.
THEOREM SuccessfulRestoreIsWhole == BackupSpec => RestoredIsWhole
<1> DEFINE Whole ==
      \A r \in Restorer :
        (restore[r].step # "restored" /\ restore'[r].step = "restored" /\ r \notin disturbed')
        => LET files == restore'[r].archive.files
           IN  \A d \in Database : d \in DOMAIN files /\ database'[d] = files[d]
<1>1. BackupInv /\ [NextBackup]_backupVars => Whole
  <2> SUFFICES ASSUME BackupInv, [NextBackup]_backupVars, NEW r \in Restorer,
                      restore[r].step # "restored", restore'[r].step = "restored",
                      r \notin disturbed'
               PROVE  LET files == restore'[r].archive.files
                      IN  \A d \in Database : d \in DOMAIN files /\ database'[d] = files[d]
    OBVIOUS
  <2>1. BackupTypeOK /\ restore' # restore
    BY DEF BackupInv
  <2>2. NextDatabase(r)
    <3>1. ASSUME NEW s \in Restorer, Restoring(s) PROVE NextDatabase(r)
      <4>1. CASE s = r
        <5>1. ~\E a \in Uploads \cup backups : UploadDatabaseBackup(r, a)
          <6> SUFFICES ASSUME NEW a \in Uploads \cup backups, UploadDatabaseBackup(r, a) PROVE FALSE
            OBVIOUS
          <6>1. 0 \in 0..Len(Databases) /\ Len(Databases) # 0
            BY DatabaseAt
          <6>2. StepAfter(a, 0) # "restored"
            BY <6>1, AfterStep
          <6>. QED
            BY <2>1, <6>2 DEF UploadDatabaseBackup, BackupTypeOK
        <5>2. /\ [restore[r] EXCEPT !.step = "failed"].step \in {"failed", restore[r].step}
              /\ [restore[r] EXCEPT !.step = "executing"].step \in {"executing", restore[r].step}
              /\ [restore[r] EXCEPT !.step = "running"].step \in {"running", restore[r].step}
          OBVIOUS
        <5>3. ~PutArchive(r) /\ ~BeginCommand(r) /\ ~RemovalFails(r)
          BY <2>1, <5>2 DEF PutArchive, BeginCommand, RemovalFails, Goes, BackupTypeOK
        <5>4. [restore[r] EXCEPT !.step = "removing", !.exit_ok = FALSE].step
                \in {"removing", restore[r].step}
          OBVIOUS
        <5>5. ~CommandFails(r) /\ ~TimeOut(r)
          BY <2>1, <5>4 DEF CommandFails, TimeOut, BackupTypeOK
        <5>. QED
          BY <3>1, <4>1, <5>1, <5>3, <5>5 DEF Restoring
      <4>2. CASE s # r
        <5>1. restore'[r] = restore[r]
          BY <2>1, <3>1, <4>2 DEF Restoring, UploadDatabaseBackup, PutArchive, BeginCommand,
             CommandFails, TimeOut, NextDatabase, RemovalFails, Goes, BackupTypeOK
        <5>. QED
          BY <5>1
      <4>. QED
        BY <4>1, <4>2
    <3>2. ASSUME NEW c \in commands, EndCommand(c) PROVE FALSE
      <4>1. \A exit_ok : [restore[r] EXCEPT !.step = "removing", !.exit_ok = exit_ok].step
                          \in {"removing", restore[r].step}
        OBVIOUS
      <4>2. c.by \in Restorer
        BY <2>1 DEF BackupTypeOK
      <4>. QED
        BY <2>1, <3>2, <4>1, <4>2 DEF EndCommand, BackupTypeOK
    <3>3. ~MaintenanceStops
      <4>1. restore'[r] = [restore[r] EXCEPT !.step = "failed"] \/ restore'[r] = restore[r]
            \/ ~MaintenanceStops
        BY DEF MaintenanceStops
      <4>2. [restore[r] EXCEPT !.step = "failed"].step \in {"failed", restore[r].step}
        OBVIOUS
      <4>. QED
        BY <4>1, <4>2
    <3>4. ~(ExportDatabase \/ ExportFails \/ DownloadDatabaseBackup)
      BY <2>1 DEF ExportDatabase, ExportFails, DownloadDatabaseBackup, UnchangedByBackup
    <3>. QED
      BY <2>1, <3>1, <3>2, <3>3, <3>4 DEF NextBackup, backupVars
  <2> DEFINE q == restore[r]
             files == q.archive.files
  <2>3. /\ q.step = "removing" /\ q.step \in Steps /\ UNCHANGED <<database, disturbed>>
        /\ q.exit_ok /\ restore'[r] = [q EXCEPT !.step = StepAfter(q.archive, q.done + 1), !.done = @ + 1]
    <3>1. [q EXCEPT !.step = "failed"].step \in {"failed", q.step}
      OBVIOUS
    <3>. QED
      BY <2>1, <2>2, <3>1 DEF NextDatabase, BackupTypeOK, Steps, UnchangedByRestore
  <2>4. Undisturbed(r)
    BY <2>1, <2>3, ProgressSteps DEF Undisturbed
  <2>5. CommandOf(r) /\ DoneSoFar(r) /\ Position(r)
    BY <2>4 DEF BackupInv, Sound
  <2>6. /\ q.archive \in Archive /\ q.done \in Nat /\ q.done + 1 \in 1..Len(Databases)
        /\ Current(r) = Databases[q.done + 1] /\ Current(r) \in DOMAIN files
    BY <2>1, <2>3, <2>5, Turn DEF Current
  <2>7. restore'[r].archive = q.archive /\ StepAfter(q.archive, q.done + 1) = "restored"
    <3>1. q \in [step: Steps \cup Answers, archive: Archive, done: 0..Len(Databases), exit_ok: BOOLEAN]
      BY <2>1, <2>3, RestoreFields DEF Steps
    <3>. QED
      BY <2>3, <3>1
  <2>8. q.done + 1 = Len(Databases)
    <3>1. q.done + 1 \in 0..Len(Databases)
      BY <2>6, DatabaseAt
    <3>. QED
      BY <2>7, <3>1, AfterStep
  <2>9. database[Current(r)] = files[Current(r)]
    BY <2>3, <2>5 DEF CommandOf, Wanted
  <2>10. \A i \in 1..Len(Databases) :
           Databases[i] \in DOMAIN files /\ database[Databases[i]] = files[Databases[i]]
    <3>1. \A i \in 1..Len(Databases) : i \in 1..q.done \/ i = q.done + 1
      BY <2>6, <2>8
    <3>. QED
      BY <2>5, <2>6, <2>9, <3>1 DEF DoneSoFar
  <2>. QED
    BY <2>3, <2>7, <2>10, DatabaseAt
<1>. QED
  BY <1>1, BackupInvariant, PTL DEF BackupSpec, RestoredIsWhole
=============================================================================
