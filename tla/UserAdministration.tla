-------------------------- MODULE UserAdministration --------------------------
(***************************************************************************)
(* Accounts and their classrooms: the gateway resolves who asks, reads     *)
(* whom the request is about and decides; auth-service then writes.  Every *)
(* step is a statement, or a transaction of PostgreSQL, of its own.        *)
(***************************************************************************)

CONSTANTS
  User, Workstation,  \* accounts that exist or may be created
  Classroom,
  FirstAccounts,      \* the accounts at first
  FirstAccess,        \* their classrooms
  Request,            \* requests, each made once
  Payload,            \* bodies of requests
  NoValue             \* a column that a body or a table does not have

Account == User \cup Workstation

UserRole == {"superadmin", "admin", "moderator", "teacher"}
Role == UserRole \cup {"workstation"}

AccountRow == [role: Role, is_active: BOOLEAN]

\* A row of classroom_access; "by" tells rows apart as their id does.
AccessRow == [account: Account, classroom: Classroom, by: Request \cup {NoValue}]

AnyPayload ==
  [op: {"update"}, role: Role \cup {NoValue}, is_active: BOOLEAN \cup {NoValue}] \cup
  [op: {"access"}, classrooms: SUBSET Classroom] \cup
  [op: {"create"}, role: Role, is_active: BOOLEAN, classrooms: SUBSET Classroom]

ASSUME AdministrationAssumption ==
  /\ User \cap Workstation = {}
  /\ NoValue \notin Role /\ NoValue \notin BOOLEAN /\ NoValue \notin AccountRow
  /\ FirstAccounts \in [Account -> AccountRow \cup {NoValue}]
  /\ \A a \in Account : FirstAccounts[a] # NoValue
                        => ((FirstAccounts[a].role = "workstation") <=> (a \in Workstation))
  /\ FirstAccess \subseteq [account: Account, classroom: Classroom, by: {NoValue}]
  /\ Payload \subseteq AnyPayload

VARIABLES
  account,           \* the rows of users and workstations
  classroom_access,  \* committed rows
  request,           \* where each request stands
  seen               \* history: see Observed

administrationVars == <<account, classroom_access, request, seen>>

NotAsked == [step |-> "idle"]

Exists(a) == account[a] # NoValue
RoleOf(acc, a) == IF acc[a] = NoValue THEN {} ELSE {acc[a].role}
ActiveRoleOf(acc, a) ==
  IF acc[a] = NoValue \/ ~acc[a].is_active THEN {} ELSE {acc[a].role}

\* "done" and "refused" are answers; the other steps wait for their next statement.
Unanswered(q) == request[q].step \notin {"idle", "done", "refused"}

InitAdministration ==
  /\ account = FirstAccounts
  /\ classroom_access = FirstAccess
  /\ request = [q \in Request |-> NotAsked]
  /\ seen = [q \in Request |-> [actor |-> {}, target |-> {}, granted |-> {}]]

\* What a request could have seen: the roles that its actor, while active, and
\* its target have had since it began.
Observed(acc) ==
  [q \in Request |->
     IF Unanswered(q)
     THEN [seen[q] EXCEPT !.actor = @ \cup ActiveRoleOf(acc, request[q].actor),
                          !.target = @ \cup RoleOf(acc, request[q].target)]
     ELSE seen[q]]

\* And the classrooms that others gave its target since its DELETE began.
Granted(t, classrooms) ==
  [q \in Request |->
     IF request[q].step \in {"deleting", "deleted"} /\ request[q].target = t
     THEN [seen[q] EXCEPT !.granted = @ \cup classrooms]
     ELSE seen[q]]

-----------------------------------------------------------------------------
(* The gateway.                                                            *)

MayManageUser(role, managed) ==
  \/ role = "superadmin" /\ managed \in UserRole
  \/ role = "admin" /\ managed \in {"moderator", "teacher"}

MayManageWorkstations(role) == role \in {"superadmin", "admin"}

\* The role is that of the row at this moment, whatever the token says.
ResolvePrincipal(q, actor, target, payload) ==
  /\ request[q] = NotAsked
  /\ Exists(actor) /\ account[actor].is_active
  /\ request' = [request EXCEPT ![q] =
       [step |-> "resolved", actor |-> actor, role |-> account[actor].role,
        target |-> target, payload |-> payload]]
  /\ seen' = [seen EXCEPT ![q] =
       [actor |-> {account[actor].role}, target |-> RoleOf(account, target), granted |-> {}]]
  /\ UNCHANGED <<account, classroom_access>>

\* Mutant: the new role is not looked at.
PermittedWithoutNewRole(q) ==
  LET r == request[q]
  IN  IF r.target \in Workstation
      THEN MayManageWorkstations(r.role)
      ELSE \/ r.payload.op = "create"
           \/ Exists(r.target) /\ MayManageUser(r.role, account[r.target].role)

\* An account of a user must exist, except to be created; its present role
\* and its new one must be the caller's to manage.
Permitted(q) ==
  LET r == request[q]
      newRole == IF r.payload.op = "access" THEN NoValue ELSE r.payload.role
  IN  IF r.target \in Workstation
      THEN MayManageWorkstations(r.role) /\ newRole \in {NoValue, "workstation"}
      ELSE /\ r.payload.op # "create" => Exists(r.target) /\ MayManageUser(r.role, account[r.target].role)
           /\ newRole # NoValue => MayManageUser(r.role, newRole)

MovesTo(q, step) == request' = [request EXCEPT ![q].step = step]

\* The target is read, and the decision taken.
Decide(q) ==
  /\ request[q].step = "resolved"
  /\ MovesTo(q, IF Permitted(q) THEN "permitted" ELSE "refused")
  /\ UNCHANGED <<account, classroom_access, seen>>

-----------------------------------------------------------------------------
(* auth-service.                                                           *)

CreateAccount(q) ==
  LET r == request[q]
      t == r.target
  IN  /\ r.step = "permitted" /\ r.payload.op = "create"
      /\ IF Exists(t)
         THEN MovesTo(q, "refused") /\ UNCHANGED <<account, classroom_access, seen>>
         ELSE /\ account' = [account EXCEPT ![t] =
                   [role |-> r.payload.role, is_active |-> r.payload.is_active]]
              /\ classroom_access' = classroom_access \cup
                   {[account |-> t, classroom |-> c, by |-> q] : c \in r.payload.classrooms}
              /\ MovesTo(q, "done")
              /\ seen' = Observed(account')

LoadAccount(q) ==
  LET r == request[q]
  IN  /\ r.step = "permitted" /\ r.payload.op # "create"
      /\ request' = [request EXCEPT ![q] =
           IF Exists(r.target)
           THEN [step |-> "loaded", actor |-> r.actor, role |-> r.role, target |-> r.target,
                 payload |-> r.payload, row |-> account[r.target], deletes |-> {}]
           ELSE [r EXCEPT !.step = "refused"]]
      /\ UNCHANGED <<account, classroom_access, seen>>

\* Only columns that differ from the loaded row are written.
Column(payload, loaded, committed) ==
  IF payload \in {NoValue, loaded} THEN committed ELSE payload

UpdateAccount(q) ==
  LET r == request[q]
      committed == account[r.target]
  IN  /\ r.step = "loaded" /\ r.payload.op = "update"
      /\ account' = [account EXCEPT ![r.target] =
           [role |-> Column(r.payload.role, r.row.role, committed.role),
            is_active |-> Column(r.payload.is_active, r.row.is_active, committed.is_active)]]
      /\ MovesTo(q, "done")
      /\ seen' = Observed(account')
      /\ UNCHANGED classroom_access

RowsOf(a) == {row \in classroom_access : row.account = a}

\* Mutant: the rows that are there stay.
DeleteNothing(q) ==
  LET r == request[q]
  IN  /\ r.step = "loaded" /\ r.payload.op = "access"
      /\ request' = [request EXCEPT ![q].step = "deleting"]
      /\ UNCHANGED <<account, classroom_access, seen>>

\* The DELETE takes its rows from a snapshot ...
DeleteAccess(q) ==
  LET r == request[q]
  IN  /\ r.step = "loaded" /\ r.payload.op = "access"
      /\ request' = [request EXCEPT ![q].step = "deleting", ![q].deletes = RowsOf(r.target)]
      /\ UNCHANGED <<account, classroom_access, seen>>

\* ... waits for those that another transaction has deleted, and deletes what
\* is left of them.
LockRows(q) ==
  /\ request[q].step = "deleting"
  /\ \A s \in Request : request[s].step = "deleted" => request[s].deletes \cap request[q].deletes = {}
  /\ request' = [request EXCEPT ![q].step = "deleted", ![q].deletes = @ \cap classroom_access]
  /\ UNCHANGED <<account, classroom_access, seen>>

\* The new rows are inserted at the commit; a row of the same account and
\* classroom refuses them and rolls everything back.
ReplaceAccess(q) ==
  LET r == request[q]
      kept == classroom_access \ r.deletes
  IN  /\ r.step = "deleted"
      /\ IF \E row \in kept : row.account = r.target /\ row.classroom \in r.payload.classrooms
         THEN MovesTo(q, "refused") /\ UNCHANGED <<classroom_access, seen>>
         ELSE /\ classroom_access' = kept \cup
                   {[account |-> r.target, classroom |-> c, by |-> q] : c \in r.payload.classrooms}
              /\ MovesTo(q, "done")
              /\ seen' = Granted(r.target, r.payload.classrooms)
      /\ UNCHANGED account

Administering(q) ==
  \/ \E actor, target \in Account, payload \in Payload : ResolvePrincipal(q, actor, target, payload)
  \/ Decide(q) \/ CreateAccount(q) \/ LoadAccount(q) \/ UpdateAccount(q)
  \/ DeleteAccess(q) \/ LockRows(q) \/ ReplaceAccess(q)

NextAdministration == \E q \in Request : Administering(q)

AdministrationSpec == InitAdministration /\ [][NextAdministration]_administrationVars

-----------------------------------------------------------------------------
(* Properties.                                                             *)

RequestType ==
  {NotAsked} \cup
  [step: {"resolved", "permitted", "refused", "done"}, actor: Account, role: Role,
   target: Account, payload: Payload] \cup
  [step: {"loaded", "deleting", "deleted", "refused", "done"}, actor: Account, role: Role,
   target: Account, payload: Payload, row: AccountRow, deletes: SUBSET AccessRow]

AdministrationTypeOK ==
  /\ account \in [Account -> AccountRow \cup {NoValue}]
  /\ \A a \in Account : Exists(a) => ((account[a].role = "workstation") <=> (a \in Workstation))
  /\ classroom_access \subseteq AccessRow
  /\ request \in [Request -> RequestType]
  /\ seen \in [Request -> [actor: SUBSET Role, target: SUBSET Role, granted: SUBSET Classroom]]

Succeeds(q) == request[q].step # "done" /\ request'[q].step = "done"

\* What a request changed it was allowed to change: a role that its caller had,
\* while active, at some moment of the request manages a role that the account
\* had since then, and the role it gave.  Decisions taken before await of what
\* was read before may be late, never without a ground.
EffectsWereAuthorised ==
  [][\A q \in Request : Succeeds(q) =>
       LET r == request[q]
           saw == seen[q]
       IN  \E role \in saw.actor :
             IF r.target \in Workstation
             THEN MayManageWorkstations(role)
             ELSE /\ r.payload.op = "create" \/ \E held \in saw.target : MayManageUser(role, held)
                  /\ r.payload.op # "access" /\ r.payload.role # NoValue
                       => MayManageUser(role, r.payload.role)]_administrationVars

\* A replacement of classrooms that is answered as successful leaves the
\* account with those it lists and no other, except ones that an overlapping
\* replacement gave: nothing that was there before survives it.
RevokedStaysRevoked ==
  [][\A q \in Request : (Succeeds(q) /\ request[q].payload.op = "access") =>
       LET left == {row.classroom : row \in {a \in classroom_access' : a.account = request[q].target}}
       IN  /\ request[q].payload.classrooms \subseteq left
           /\ left \subseteq request[q].payload.classrooms \cup seen[q].granted]_administrationVars
=============================================================================
