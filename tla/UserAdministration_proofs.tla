----------------------- MODULE UserAdministration_proofs -----------------------
(***************************************************************************)
(* Proofs about UserAdministration, for any accounts, classrooms and       *)
(* requests: the types, the ground of every change and what a replacement  *)
(* of classrooms leaves.                                                   *)
(***************************************************************************)
EXTENDS UserAdministration, TLAPS

Decided == {"permitted", "loaded", "deleting", "deleted"}
Loaded == {"loaded", "deleting", "deleted"}
Replacing == {"deleting", "deleted"}

\* The ground of a change, in what the request could have seen.
Ground(q) ==
  LET r == request[q]
      saw == seen[q]
  IN  \E role \in saw.actor :
        IF r.target \in Workstation
        THEN MayManageWorkstations(role)
        ELSE /\ r.payload.op = "create" \/ \E held \in saw.target : MayManageUser(role, held)
             /\ r.payload.op # "access" /\ r.payload.role # NoValue
                  => MayManageUser(role, r.payload.role)

\* A workstation stays one and a user does not become one.
RoleFits(q) ==
  LET r == request[q]
  IN  r.payload.op # "access" =>
        IF r.target \in Workstation
        THEN r.payload.role \in {NoValue, "workstation"}
        ELSE r.payload.role \in UserRole \cup {NoValue}

\* What the request resolved and what its target is are among what it saw.
Known(q) ==
  Unanswered(q) => /\ request[q].role \in seen[q].actor
                   /\ RoleOf(account, request[q].target) \subseteq seen[q].target

Grounded(q) ==
  /\ request[q].step \in Decided => Ground(q) /\ RoleFits(q)
  /\ request[q].step \in Loaded => Exists(request[q].target)

\* The classrooms that a DELETE does not take were given since it began.
Left(q) ==
  request[q].step \in Replacing =>
    /\ request[q].payload.op = "access"
    /\ \A row \in classroom_access \ request[q].deletes :
         row.account = request[q].target => row.classroom \in seen[q].granted

Consistent(q) == Known(q) /\ Grounded(q) /\ Left(q)

AdministrationInv == AdministrationTypeOK /\ \A q \in Request : Consistent(q)

-----------------------------------------------------------------------------
(* Lemmas.                                                                 *)

\* What the columns of a body can be.
LEMMA PayloadType ==
  ASSUME NEW p \in Payload
  PROVE  /\ p.op = "create" => /\ p.role \in Role /\ p.is_active \in BOOLEAN
                               /\ p.classrooms \subseteq Classroom
         /\ p.op = "access" => p.classrooms \subseteq Classroom
         /\ p.op = "update" => /\ p.role \in Role \cup {NoValue}
                               /\ p.is_active \in BOOLEAN \cup {NoValue}
<1>1. p \in AnyPayload
  BY AdministrationAssumption
<1>. QED
  BY <1>1 DEF AnyPayload

LEMMA ColumnType ==
  ASSUME NEW S, NEW value \in S \cup {NoValue}, NEW loaded, NEW committed \in S
  PROVE  Column(value, loaded, committed) \in S
BY DEF Column

\* What a request is at each of its steps.
LEMMA RequestFields ==
  ASSUME AdministrationTypeOK, NEW q \in Request, request[q].step # "idle"
  PROVE  /\ request[q].actor \in Account /\ request[q].target \in Account
         /\ request[q].role \in Role /\ request[q].payload \in Payload
         /\ request[q].step \in Loaded =>
              request[q].row \in AccountRow /\ request[q].deletes \subseteq AccessRow
BY DEF AdministrationTypeOK, RequestType, NotAsked, Loaded

\* A step of it keeps the other fields.
LEMMA MoveType ==
  ASSUME AdministrationTypeOK, NEW q \in Request, NEW step,
         \/ request[q].step \in {"resolved", "permitted"} /\ step \in {"permitted", "refused", "done"}
         \/ request[q].step \in Loaded /\ step \in {"refused", "done"}
  PROVE  [request[q] EXCEPT !.step = step] \in RequestType
BY DEF AdministrationTypeOK, RequestType, NotAsked, Loaded

\* A request that does not move stays consistent while nothing that it saw is
\* forgotten, no account goes, and new roles and classrooms are noted.
LEMMA StaysConsistent ==
  ASSUME NEW q, Consistent(q), request'[q] = request[q],
         Unanswered(q) => /\ seen[q].actor \subseteq seen'[q].actor
                          /\ seen[q].target \subseteq seen'[q].target
                          /\ seen[q].granted \subseteq seen'[q].granted
                          /\ RoleOf(account', request[q].target) \subseteq seen'[q].target
         , Exists(request[q].target) => Exists(request[q].target)',
         request[q].step \in Replacing =>
           \A row \in classroom_access' \ classroom_access :
             row.account = request[q].target => row.classroom \in seen'[q].granted
  PROVE  Consistent(q)'
<1>1. Known(q)'
  BY DEF Consistent, Known, Unanswered
<1>2. request[q].step \in Decided => Unanswered(q)
  BY DEF Decided, Unanswered
<1>3. Grounded(q)'
  <2>1. request[q].step \in Decided => Ground(q)'
    BY <1>2 DEF Consistent, Grounded, Ground
  <2>. QED
    BY <2>1 DEF Consistent, Grounded, RoleFits
<1>4. Left(q)'
  BY <1>2 DEF Consistent, Left, Replacing, Decided
<1>. QED
  BY <1>1, <1>3, <1>4 DEF Consistent

\* What a change of accounts adds to what requests saw.
LEMMA ObservedType ==
  ASSUME AdministrationTypeOK, NEW acc \in [Account -> AccountRow \cup {NoValue}]
  PROVE  /\ Observed(acc) \in [Request -> [actor: SUBSET Role, target: SUBSET Role,
                                           granted: SUBSET Classroom]]
         /\ \A q \in Request :
              /\ seen[q].actor \subseteq Observed(acc)[q].actor
              /\ seen[q].target \subseteq Observed(acc)[q].target
              /\ seen[q].granted = Observed(acc)[q].granted
              /\ Unanswered(q) => RoleOf(acc, request[q].target) \subseteq Observed(acc)[q].target
<1>1. \A a \in Account : RoleOf(acc, a) \subseteq Role /\ ActiveRoleOf(acc, a) \subseteq Role
  BY DEF RoleOf, ActiveRoleOf, AccountRow
<1>2. \A q \in Request : Unanswered(q) => request[q].target \in Account /\ request[q].actor \in Account
  BY RequestFields DEF Unanswered
<1>. QED
  BY <1>1, <1>2 DEF Observed, AdministrationTypeOK

LEMMA GrantedType ==
  ASSUME AdministrationTypeOK, NEW t, NEW classrooms \in SUBSET Classroom
  PROVE  /\ Granted(t, classrooms) \in [Request -> [actor: SUBSET Role, target: SUBSET Role,
                                                    granted: SUBSET Classroom]]
         /\ \A q \in Request :
              /\ seen[q].actor = Granted(t, classrooms)[q].actor
              /\ seen[q].target = Granted(t, classrooms)[q].target
              /\ seen[q].granted \subseteq Granted(t, classrooms)[q].granted
              /\ request[q].step \in Replacing /\ request[q].target = t
                   => classrooms \subseteq Granted(t, classrooms)[q].granted
BY DEF Granted, AdministrationTypeOK, Replacing

-----------------------------------------------------------------------------
(* The invariant.                                                          *)

LEMMA AdministrationInitInv == InitAdministration => AdministrationInv
<1> SUFFICES ASSUME InitAdministration PROVE AdministrationInv
  OBVIOUS
<1>1. AdministrationTypeOK
  BY AdministrationAssumption
     DEF InitAdministration, AdministrationTypeOK, RequestType, Exists, AccessRow
<1>2. \A q \in Request : request[q].step = "idle"
  BY DEF InitAdministration, NotAsked
<1>3. \A q \in Request : Consistent(q)
  BY <1>2 DEF Consistent, Known, Grounded, Left, Unanswered, Decided, Loaded, Replacing
<1>. QED
  BY <1>1, <1>3 DEF AdministrationInv

\* Only the request itself moves and the tables do not change.
LEMMA OnlyMoves ==
  ASSUME AdministrationInv, NEW q \in Request, NEW r \in RequestType,
         request' = [request EXCEPT ![q] = r],
         UNCHANGED <<account, classroom_access, seen>>, Consistent(q)'
  PROVE  AdministrationInv'
<1>1. AdministrationTypeOK'
  BY DEF AdministrationInv, AdministrationTypeOK, Exists
<1>2. ASSUME NEW s \in Request, s # q PROVE Consistent(s)'
  <2>1. request'[s] = request[s]
    BY <1>2 DEF AdministrationInv, AdministrationTypeOK
  <2>. QED
    BY <2>1, StaysConsistent DEF AdministrationInv, Consistent, Known, Exists
<1>. QED
  BY <1>1, <1>2 DEF AdministrationInv

\* An answered request promises nothing more.
LEMMA Answered ==
  ASSUME NEW q, request'[q].step \in {"refused", "done"}
  PROVE  Consistent(q)'
BY DEF Consistent, Known, Grounded, Left, Unanswered, Decided, Loaded, Replacing

\* A refused request changes nothing else.
LEMMA Refused ==
  ASSUME AdministrationInv, NEW q \in Request,
         request[q].step \in {"resolved", "permitted"} \cup Loaded,
         request' = [request EXCEPT ![q] = [request[q] EXCEPT !.step = "refused"]],
         UNCHANGED <<account, classroom_access, seen>>
  PROVE  AdministrationInv'
<1> DEFINE r == [request[q] EXCEPT !.step = "refused"]
<1>1. r \in RequestType
  BY MoveType DEF AdministrationInv
<1>2. request'[q].step = "refused"
  BY DEF AdministrationInv, AdministrationTypeOK, RequestType, NotAsked, Loaded
<1>3. Consistent(q)'
  BY <1>2, Answered
<1> HIDE DEF r
<1>4. request' = [request EXCEPT ![q] = r]
  BY DEF r
<1>. QED
  BY <1>1, <1>3, <1>4, OnlyMoves

\* The steps of a request, one by one.
LEMMA ResolveInv ==
  ASSUME AdministrationInv, NEW q \in Request, NEW actor \in Account, NEW target \in Account,
         NEW payload \in Payload, ResolvePrincipal(q, actor, target, payload)
  PROVE  AdministrationInv'
<1> DEFINE r == [step |-> "resolved", actor |-> actor, role |-> account[actor].role,
                 target |-> target, payload |-> payload]
<1>1. account[actor].role \in Role /\ RoleOf(account, target) \subseteq Role
  BY DEF ResolvePrincipal, AdministrationInv, AdministrationTypeOK, Exists, RoleOf, AccountRow
<1>2. r \in RequestType
  BY <1>1 DEF RequestType
<1>3. AdministrationTypeOK'
  BY <1>1, <1>2 DEF ResolvePrincipal, AdministrationInv, AdministrationTypeOK, Exists
<1>4. request'[q] = r /\ seen'[q] = [actor |-> {account[actor].role},
                                     target |-> RoleOf(account, target), granted |-> {}]
  BY DEF ResolvePrincipal, AdministrationInv, AdministrationTypeOK
<1>5. Consistent(q)'
  BY <1>4 DEF ResolvePrincipal, Consistent, Known, Grounded, Left, Unanswered, Decided, Loaded,
              Replacing
<1>6. ASSUME NEW s \in Request, s # q PROVE Consistent(s)'
  <2>1. request'[s] = request[s] /\ seen'[s] = seen[s]
    BY <1>6 DEF ResolvePrincipal, AdministrationInv, AdministrationTypeOK
  <2>2. account' = account /\ classroom_access' = classroom_access
    BY DEF ResolvePrincipal
  <2>. QED
    BY <2>1, <2>2, StaysConsistent DEF AdministrationInv, Consistent, Known, Exists
<1>. QED
  BY <1>3, <1>5, <1>6 DEF AdministrationInv

LEMMA DecideInv ==
  ASSUME AdministrationInv, NEW q \in Request, Decide(q)
  PROVE  AdministrationInv'
<1> DEFINE step == IF Permitted(q) THEN "permitted" ELSE "refused"
           r == [request[q] EXCEPT !.step = step]
<1>1. request[q].step = "resolved" /\ r \in RequestType
  BY MoveType DEF Decide, AdministrationInv
<1>2. request' = [request EXCEPT ![q] = r] /\ UNCHANGED <<account, classroom_access, seen>>
  BY DEF Decide, MovesTo
<1>3. request'[q] = r
  BY <1>2 DEF AdministrationInv, AdministrationTypeOK
<1>4. /\ r.target = request[q].target /\ r.payload = request[q].payload
      /\ r.role = request[q].role /\ r.step = step
  BY <1>1 DEF AdministrationInv, AdministrationTypeOK, RequestType, NotAsked
<1>5. CASE ~Permitted(q)
  BY <1>1, <1>2, <1>5, Refused
<1>6. CASE Permitted(q)
  <2>1. /\ request[q].role \in seen[q].actor
        /\ RoleOf(account, request[q].target) \subseteq seen[q].target
    BY <1>1 DEF AdministrationInv, Consistent, Known, Unanswered
  <2>2. request[q].target \in Account /\ request[q].payload \in Payload
    BY <1>1, RequestFields DEF AdministrationInv
  <2>3. Known(q)'
    BY <1>2, <1>3, <1>4, <2>1 DEF Known
  <2>4. Ground(q)'
    <3>1. CASE request[q].target \in Workstation
      BY <1>2, <1>3, <1>4, <1>6, <2>1, <3>1 DEF Ground, Permitted
    <3>2. CASE request[q].target \notin Workstation
      <4>1. request[q].payload.op = "create" \/
              \E held \in seen[q].target : MayManageUser(request[q].role, held)
        BY <1>6, <2>1, <3>2 DEF Permitted, Exists, RoleOf
      <4>2. request[q].payload.op # "access" /\ request[q].payload.role # NoValue
              => MayManageUser(request[q].role, request[q].payload.role)
        BY <1>6, <3>2 DEF Permitted
      <4>. QED
        BY <1>2, <1>3, <1>4, <2>1, <3>2, <4>1, <4>2 DEF Ground
    <3>. QED
      BY <3>1, <3>2
  <2>5. RoleFits(q)'
    BY <1>2, <1>3, <1>4, <1>6 DEF RoleFits, Permitted, MayManageUser, UserRole
  <2>6. Consistent(q)'
    BY <1>3, <1>4, <1>6, <2>3, <2>4, <2>5 DEF Consistent, Grounded, Left, Loaded, Replacing
  <2>. QED
    BY <1>1, <1>2, <2>6, OnlyMoves
<1>. QED
  BY <1>5, <1>6

\* An account that a body creates has a role that fits it.
LEMMA CreateInv ==
  ASSUME AdministrationInv, NEW q \in Request, CreateAccount(q)
  PROVE  AdministrationInv'
<1> DEFINE t == request[q].target
           p == request[q].payload
<1>1. request[q].step = "permitted" /\ p.op = "create" /\ AdministrationTypeOK
  BY DEF CreateAccount, AdministrationInv
<1>2. /\ t \in Account /\ p \in Payload /\ p.role \in Role /\ p.is_active \in BOOLEAN
      /\ p.classrooms \subseteq Classroom
  BY <1>1, RequestFields, PayloadType
<1>3. /\ [request[q] EXCEPT !.step = "done"] \in RequestType
      /\ [request[q] EXCEPT !.step = "refused"] \in RequestType
  BY <1>1, MoveType
<1>4. CASE Exists(t)
  <2>1. /\ request' = [request EXCEPT ![q] = [request[q] EXCEPT !.step = "refused"]]
        /\ UNCHANGED <<account, classroom_access, seen>>
    BY <1>4 DEF CreateAccount, MovesTo
  <2>. QED
    BY <1>1, <2>1, Refused
<1>5. CASE ~Exists(t)
  <2>1. /\ account' = [account EXCEPT ![t] = [role |-> p.role, is_active |-> p.is_active]]
        /\ classroom_access' = classroom_access \cup
             {[account |-> t, classroom |-> c, by |-> q] : c \in p.classrooms}
        /\ request' = [request EXCEPT ![q] = [request[q] EXCEPT !.step = "done"]]
        /\ seen' = Observed(account')
    BY <1>5 DEF CreateAccount, MovesTo
  <2>2. RoleFits(q)
    BY <1>1 DEF AdministrationInv, Consistent, Grounded, Decided
  <2>3. (p.role = "workstation") <=> (t \in Workstation)
    BY <1>1, <1>2, <2>2, AdministrationAssumption DEF RoleFits, UserRole
  <2>4. /\ account' \in [Account -> AccountRow \cup {NoValue}]
        /\ account'[t] = [role |-> p.role, is_active |-> p.is_active]
        /\ \A a \in Account \ {t} : account'[a] = account[a]
    <3> DEFINE new == [role |-> p.role, is_active |-> p.is_active]
    <3>1. new \in AccountRow
      BY <1>2 DEF AccountRow
    <3>2. account' = [account EXCEPT ![t] = new]
      BY <2>1
    <3> HIDE DEF new
    <3>3. /\ account' \in [Account -> AccountRow \cup {NoValue}] /\ account'[t] = new
          /\ \A a \in Account \ {t} : account'[a] = account[a]
      BY <1>1, <1>2, <3>1, <3>2 DEF AdministrationTypeOK
    <3>. QED
      BY <3>3 DEF new
  <2>5. \A a \in Account : Exists(a)' => ((account'[a].role = "workstation") <=> (a \in Workstation))
    BY <1>1, <2>3, <2>4 DEF AdministrationTypeOK, Exists
  <2>6. AdministrationTypeOK'
    <3>1. seen' \in [Request -> [actor: SUBSET Role, target: SUBSET Role, granted: SUBSET Classroom]]
      BY <1>1, <2>1, <2>4, ObservedType
    <3>2. classroom_access' \subseteq AccessRow
      BY <1>1, <1>2, <2>1 DEF AdministrationTypeOK, AccessRow
    <3>3. request' \in [Request -> RequestType]
      BY <1>1, <1>3, <2>1 DEF AdministrationTypeOK
    <3>. QED
      BY <2>4, <2>5, <3>1, <3>2, <3>3 DEF AdministrationTypeOK
  <2>7. request'[q].step = "done"
    BY <1>1, <1>3, <2>1 DEF AdministrationTypeOK, RequestType, NotAsked
  <2>8. ASSUME NEW s \in Request, s # q PROVE Consistent(s)'
    <3>1. request'[s] = request[s]
      BY <1>1, <2>1, <2>8 DEF AdministrationTypeOK
    <3>2. /\ seen[s].actor \subseteq seen'[s].actor /\ seen[s].target \subseteq seen'[s].target
          /\ seen[s].granted \subseteq seen'[s].granted
          /\ Unanswered(s) => RoleOf(account', request[s].target) \subseteq seen'[s].target
      BY <1>1, <2>1, <2>4, ObservedType
    <3>3. NoValue \notin AccountRow
      BY AdministrationAssumption
    <3>4. Exists(request[s].target) => Exists(request[s].target)'
      <4>1. CASE request[s].target = t
        BY <1>5, <4>1
      <4>2. CASE request[s].target # t
        BY <2>1, <4>2, <1>1 DEF Exists, AdministrationTypeOK
      <4>. QED
        BY <4>1, <4>2
    <3>5. request[s].step \in Replacing =>
            \A row \in classroom_access' \ classroom_access : row.account # request[s].target
      <4>1. request[s].step \in Replacing => request[s].target # t
        BY <1>5 DEF AdministrationInv, Consistent, Grounded, Loaded, Replacing
      <4>2. \A row \in classroom_access' \ classroom_access : row.account = t
        BY <2>1
      <4>. QED
        BY <4>1, <4>2
    <3>. QED
      BY <3>1, <3>2, <3>4, <3>5, StaysConsistent DEF AdministrationInv
  <2>. QED
    BY <2>6, <2>7, <2>8, Answered DEF AdministrationInv
<1>. QED
  BY <1>4, <1>5

LEMMA LoadInv ==
  ASSUME AdministrationInv, NEW q \in Request, LoadAccount(q)
  PROVE  AdministrationInv'
<1> DEFINE r == request[q]
           loaded == [step |-> "loaded", actor |-> r.actor, role |-> r.role, target |-> r.target,
                      payload |-> r.payload, row |-> account[r.target], deletes |-> {}]
<1>1. r.step = "permitted" /\ AdministrationTypeOK
  BY DEF LoadAccount, AdministrationInv
<1>2. CASE Exists(r.target)
  <2>1. /\ r.actor \in Account /\ r.target \in Account /\ r.role \in Role /\ r.payload \in Payload
        /\ account[r.target] \in AccountRow
    BY <1>1, <1>2, RequestFields DEF AdministrationTypeOK, Exists
  <2>2. loaded \in RequestType
    BY <2>1 DEF RequestType
  <2>3. request' = [request EXCEPT ![q] = loaded] /\ UNCHANGED <<account, classroom_access, seen>>
    BY <1>2 DEF LoadAccount
  <2>4. request'[q] = loaded
    BY <1>1, <2>3 DEF AdministrationTypeOK
  <2>5. Known(q)'
    BY <1>1, <2>3, <2>4 DEF AdministrationInv, Consistent, Known, Unanswered
  <2>6. Ground(q)' /\ RoleFits(q)'
    BY <1>1, <2>3, <2>4 DEF AdministrationInv, Consistent, Grounded, Decided, Ground, RoleFits
  <2>7. Consistent(q)'
    BY <1>2, <2>3, <2>4, <2>5, <2>6 DEF Consistent, Grounded, Left, Replacing, Exists
  <2>. QED
    BY <2>2, <2>3, <2>7, OnlyMoves
<1>3. CASE ~Exists(r.target)
  <2>1. /\ request' = [request EXCEPT ![q] = [r EXCEPT !.step = "refused"]]
        /\ UNCHANGED <<account, classroom_access, seen>>
    BY <1>3 DEF LoadAccount
  <2>. QED
    BY <1>1, <2>1, Refused
<1>. QED
  BY <1>2, <1>3

\* An update keeps a role that fits.
LEMMA UpdateInv ==
  ASSUME AdministrationInv, NEW q \in Request, UpdateAccount(q)
  PROVE  AdministrationInv'
<1> DEFINE t == request[q].target
           p == request[q].payload
           role == Column(p.role, request[q].row.role, account[t].role)
           is_active == Column(p.is_active, request[q].row.is_active, account[t].is_active)
<1>1. request[q].step = "loaded" /\ p.op = "update" /\ AdministrationTypeOK
  BY DEF UpdateAccount, AdministrationInv
<1>2. t \in Account /\ p \in Payload
  BY <1>1, RequestFields
<1>3. Exists(t) /\ RoleFits(q)
  BY <1>1 DEF AdministrationInv, Consistent, Grounded, Loaded, Decided
<1>4. account[t] \in AccountRow /\ account[t].role \in Role /\ account[t].is_active \in BOOLEAN
  BY <1>1, <1>2, <1>3 DEF AdministrationTypeOK, Exists, AccountRow
<1>5. role \in Role
  BY <1>1, <1>2, <1>4, PayloadType, ColumnType
<1>6. is_active \in BOOLEAN
  <2>1. p.is_active \in BOOLEAN \cup {NoValue}
    BY <1>1, <1>2, PayloadType
  <2>. QED
    BY <1>4, <2>1, Zenon DEF Column
<1>7. (role = "workstation") <=> (t \in Workstation)
  <2>1. (account[t].role = "workstation") <=> (t \in Workstation)
    BY <1>1, <1>2, <1>3 DEF AdministrationTypeOK
  <2>2. p.role # NoValue => ((p.role = "workstation") <=> (t \in Workstation))
    BY <1>1, <1>3 DEF RoleFits, UserRole
  <2>. QED
    BY <2>1, <2>2 DEF Column
<1>8. /\ account' = [account EXCEPT ![t] = [role |-> role, is_active |-> is_active]]
      /\ request' = [request EXCEPT ![q] = [request[q] EXCEPT !.step = "done"]]
      /\ seen' = Observed(account') /\ classroom_access' = classroom_access
  BY DEF UpdateAccount, MovesTo
<1>9. [role |-> role, is_active |-> is_active] \in AccountRow
  <2> HIDE DEF role, is_active
  <2>. QED
    BY <1>5, <1>6 DEF AccountRow
<1>10. /\ account' \in [Account -> AccountRow \cup {NoValue}]
       /\ account'[t].role = role /\ account'[t] \in AccountRow
       /\ \A a \in Account \ {t} : account'[a] = account[a]
  <2> HIDE DEF role, is_active
  <2>. QED
    BY <1>1, <1>2, <1>8, <1>9 DEF AdministrationTypeOK
<1>11. [request[q] EXCEPT !.step = "done"] \in RequestType
  BY <1>1, MoveType DEF Loaded
<1>12. AdministrationTypeOK'
  <2>1. seen' \in [Request -> [actor: SUBSET Role, target: SUBSET Role, granted: SUBSET Classroom]]
    BY <1>1, <1>8, <1>10, ObservedType
  <2>2. request' \in [Request -> RequestType]
    BY <1>1, <1>8, <1>11 DEF AdministrationTypeOK
  <2>3. \A a \in Account : Exists(a)' => ((account'[a].role = "workstation") <=> (a \in Workstation))
    <3> HIDE DEF role
    <3>. QED
      BY <1>1, <1>7, <1>10 DEF AdministrationTypeOK, Exists
  <2>. QED
    BY <1>1, <1>8, <1>10, <2>1, <2>2, <2>3 DEF AdministrationTypeOK
<1>13. request'[q].step = "done"
  BY <1>1, <1>8, <1>11 DEF AdministrationTypeOK, RequestType, NotAsked
<1>14. ASSUME NEW s \in Request, s # q PROVE Consistent(s)'
  <2>1. request'[s] = request[s]
    BY <1>1, <1>8, <1>14 DEF AdministrationTypeOK
  <2>2. /\ seen[s].actor \subseteq seen'[s].actor /\ seen[s].target \subseteq seen'[s].target
        /\ seen[s].granted \subseteq seen'[s].granted
        /\ Unanswered(s) => RoleOf(account', request[s].target) \subseteq seen'[s].target
    BY <1>1, <1>8, <1>10, ObservedType
  <2>3. Exists(request[s].target) => Exists(request[s].target)'
    <3>1. CASE request[s].target = t
      BY <1>10, <2>1, <3>1, AdministrationAssumption DEF Exists
    <3>2. CASE request[s].target # t
      BY <1>1, <1>8, <2>1, <3>2 DEF Exists, AdministrationTypeOK
    <3>. QED
      BY <3>1, <3>2
  <2>. QED
    BY <1>8, <2>1, <2>2, <2>3, StaysConsistent DEF AdministrationInv
<1>. QED
  BY <1>12, <1>13, <1>14, Answered DEF AdministrationInv

\* The statement of the DELETE and its locks.
LEMMA DeleteInv ==
  ASSUME AdministrationInv, NEW q \in Request, DeleteAccess(q) \/ LockRows(q)
  PROVE  AdministrationInv'
<1>1. PICK step \in Replacing, deletes \in SUBSET AccessRow :
        /\ request' = [request EXCEPT ![q] = [request[q] EXCEPT !.step = step, !.deletes = deletes]]
        /\ \A row \in classroom_access \ deletes :
             row.account = request[q].target => row.classroom \in seen[q].granted
  <2>1. CASE DeleteAccess(q)
    <3>1. RowsOf(request[q].target) \in SUBSET AccessRow
      BY DEF RowsOf, AdministrationInv, AdministrationTypeOK
    <3>. QED
      BY <2>1, <3>1 DEF DeleteAccess, RowsOf, Replacing
  <2>2. CASE LockRows(q)
    <3>1. request[q].deletes \cap classroom_access \in SUBSET AccessRow
      BY DEF AdministrationInv, AdministrationTypeOK
    <3>2. \A row \in classroom_access \ (request[q].deletes \cap classroom_access) :
            row.account = request[q].target => row.classroom \in seen[q].granted
      BY <2>2 DEF LockRows, AdministrationInv, Consistent, Left, Replacing
    <3>3. request' = [request EXCEPT ![q] = [request[q] EXCEPT !.step = "deleted",
                          !.deletes = request[q].deletes \cap classroom_access]]
      BY <2>2 DEF LockRows
    <3>. QED
      BY <3>1, <3>2, <3>3 DEF Replacing
  <2>. QED
    BY <2>1, <2>2
<1> DEFINE r == [request[q] EXCEPT !.step = step, !.deletes = deletes]
<1>2. /\ request[q].step \in Loaded /\ request[q].payload.op = "access"
      /\ UNCHANGED <<account, classroom_access, seen>> /\ AdministrationTypeOK
  BY DEF DeleteAccess, LockRows, Loaded, Replacing, AdministrationInv, Consistent, Left
<1>3. request[q] \in [step: Loaded \cup {"refused", "done"}, actor: Account, role: Role, target: Account,
                      payload: Payload, row: AccountRow, deletes: SUBSET AccessRow]
  BY <1>2 DEF AdministrationTypeOK, RequestType, NotAsked, Loaded
<1>4. /\ r \in RequestType /\ r.step = step /\ r.deletes = deletes
      /\ r.target = request[q].target /\ r.payload = request[q].payload /\ r.role = request[q].role
  BY <1>3 DEF RequestType, Replacing
<1>5. request'[q] = r
  BY <1>1, <1>2 DEF AdministrationTypeOK
<1> HIDE DEF r
<1>6. Known(q)'
  BY <1>2, <1>4, <1>5 DEF AdministrationInv, Consistent, Known, Unanswered, Loaded
<1>7. Ground(q)' /\ RoleFits(q)' /\ Exists(request[q].target)
  BY <1>2, <1>4, <1>5 DEF AdministrationInv, Consistent, Grounded, Decided, Loaded, Ground, RoleFits
<1>8. Left(q)'
  BY <1>1, <1>2, <1>4, <1>5 DEF Left
<1>9. Consistent(q)'
  BY <1>2, <1>4, <1>5, <1>6, <1>7, <1>8 DEF Consistent, Grounded, Exists
<1>. QED
  BY <1>1, <1>2, <1>4, <1>9, OnlyMoves DEF r

LEMMA ReplaceInv ==
  ASSUME AdministrationInv, NEW q \in Request, ReplaceAccess(q)
  PROVE  AdministrationInv'
<1> DEFINE t == request[q].target
           p == request[q].payload
<1>1. /\ request[q].step = "deleted" /\ p.op = "access" /\ AdministrationTypeOK
      /\ account' = account
  BY DEF ReplaceAccess, AdministrationInv, Consistent, Left, Replacing
<1>2. t \in Account /\ p.classrooms \in SUBSET Classroom
  BY <1>1, RequestFields, PayloadType
<1>3. /\ [request[q] EXCEPT !.step = "done"] \in RequestType
      /\ [request[q] EXCEPT !.step = "refused"] \in RequestType
  BY <1>1, MoveType DEF Loaded
<1>4. CASE request' = [request EXCEPT ![q] = [request[q] EXCEPT !.step = "refused"]]
           /\ UNCHANGED <<classroom_access, seen>>
  BY <1>1, <1>4, Refused DEF Loaded
<1>5. CASE /\ request' = [request EXCEPT ![q] = [request[q] EXCEPT !.step = "done"]]
           /\ classroom_access' = (classroom_access \ request[q].deletes) \cup
                {[account |-> t, classroom |-> c, by |-> q] : c \in p.classrooms}
           /\ seen' = Granted(t, p.classrooms)
  <2>1. AdministrationTypeOK'
    <3>1. seen' \in [Request -> [actor: SUBSET Role, target: SUBSET Role, granted: SUBSET Classroom]]
      BY <1>1, <1>2, <1>5, GrantedType
    <3>2. classroom_access' \subseteq AccessRow
      BY <1>1, <1>2, <1>5 DEF AdministrationTypeOK, AccessRow
    <3>3. request' \in [Request -> RequestType]
      BY <1>1, <1>3, <1>5 DEF AdministrationTypeOK
    <3>. QED
      BY <1>1, <3>1, <3>2, <3>3 DEF AdministrationTypeOK, Exists
  <2>2. request'[q].step = "done"
    BY <1>1, <1>3, <1>5 DEF AdministrationTypeOK, RequestType, NotAsked
  <2>3. ASSUME NEW s \in Request, s # q PROVE Consistent(s)'
    <3>1. request'[s] = request[s]
      BY <1>1, <1>5, <2>3 DEF AdministrationTypeOK
    <3>2. /\ seen[s].actor \subseteq seen'[s].actor /\ seen[s].target \subseteq seen'[s].target
          /\ seen[s].granted \subseteq seen'[s].granted
          /\ request[s].step \in Replacing /\ request[s].target = t
               => p.classrooms \subseteq seen'[s].granted
      BY <1>1, <1>2, <1>5, GrantedType
    <3>3. Unanswered(s) => RoleOf(account', request[s].target) \subseteq seen'[s].target
      BY <1>1, <3>2 DEF AdministrationInv, Consistent, Known
    <3>4. Exists(request[s].target) => Exists(request[s].target)'
      BY <1>1, <3>1 DEF Exists
    <3>5. request[s].step \in Replacing =>
            \A row \in classroom_access' \ classroom_access :
              row.account = request[s].target => row.classroom \in seen'[s].granted
      BY <1>5, <3>2
    <3>. QED
      BY <3>1, <3>2, <3>3, <3>4, <3>5, StaysConsistent DEF AdministrationInv
  <2>. QED
    BY <2>1, <2>2, <2>3, Answered DEF AdministrationInv
<1>. QED
  BY <1>4, <1>5 DEF ReplaceAccess, MovesTo

LEMMA AdministrationNextInv == AdministrationInv /\ [NextAdministration]_administrationVars => AdministrationInv'
<1> SUFFICES ASSUME AdministrationInv, [NextAdministration]_administrationVars
             PROVE  AdministrationInv'
  OBVIOUS
<1>1. ASSUME NEW q \in Request, Administering(q) PROVE AdministrationInv'
  BY <1>1, ResolveInv, DecideInv, CreateInv, LoadInv, UpdateInv, DeleteInv, ReplaceInv
     DEF Administering
<1>2. CASE UNCHANGED administrationVars
  <2>1. AdministrationTypeOK'
    BY <1>2 DEF administrationVars, AdministrationInv, AdministrationTypeOK, Exists
  <2>2. \A q \in Request : Consistent(q)'
    BY <1>2 DEF administrationVars, AdministrationInv, Consistent, Known, Grounded, Left,
                Unanswered, Exists, Ground, RoleFits
  <2>. QED
    BY <2>1, <2>2 DEF AdministrationInv
<1>. QED
  BY <1>1, <1>2 DEF NextAdministration

LEMMA AdministrationInvariant == AdministrationSpec => []AdministrationInv
BY AdministrationInitInv, AdministrationNextInv, PTL DEF AdministrationSpec

-----------------------------------------------------------------------------
(* The theorems.                                                           *)

\* Every variable has its type: in particular a workstation never gets the
\* role of a user nor a user that of a workstation.
THEOREM AdministrationTypeCorrect == AdministrationSpec => []AdministrationTypeOK
<1>1. AdministrationInv => AdministrationTypeOK
  BY DEF AdministrationInv
<1>. QED
  BY <1>1, AdministrationInvariant, PTL

\* Only the steps that write the tables answer with success.
LEMMA Success ==
  ASSUME AdministrationInv, [NextAdministration]_administrationVars, NEW q \in Request, Succeeds(q)
  PROVE  CreateAccount(q) \/ UpdateAccount(q) \/ ReplaceAccess(q)
<1>1. request' # request
  BY DEF Succeeds
<1>2. PICK s \in Request : Administering(s)
  BY <1>1 DEF NextAdministration, administrationVars
<1>3. \A x \in Request : x # s => request'[x] = request[x]
  BY <1>2 DEF Administering, ResolvePrincipal, Decide, CreateAccount, LoadAccount, UpdateAccount,
              DeleteAccess, LockRows, ReplaceAccess, MovesTo, AdministrationInv, AdministrationTypeOK
<1>4. s = q
  BY <1>3 DEF Succeeds
<1>5. q \in DOMAIN request /\ request[q].step # "done" /\ request'[q].step = "done"
  BY DEF Succeeds, AdministrationInv, AdministrationTypeOK
<1>6. ~(\E actor, target \in Account, payload \in Payload : ResolvePrincipal(q, actor, target, payload))
  BY <1>5 DEF ResolvePrincipal
<1>7. ~Decide(q)
  <2>1. \A step : [request[q] EXCEPT !.step = step].step \in {step, request[q].step}
    OBVIOUS
  <2>. QED
    BY <1>5, <2>1 DEF Decide, MovesTo
<1>8. ~LoadAccount(q)
  <2>1. [request[q] EXCEPT !.step = "refused"].step \in {"refused", request[q].step}
    OBVIOUS
  <2>2. LoadAccount(q) => \/ request'[q].step = "loaded"
                          \/ request'[q] = [request[q] EXCEPT !.step = "refused"]
    BY <1>5 DEF LoadAccount
  <2>. QED
    BY <1>5, <2>1, <2>2
<1>9. ~DeleteAccess(q) /\ ~LockRows(q)
  <2>1. \A d : /\ [request[q] EXCEPT !.step = "deleting", !.deletes = d].step \in {"deleting", request[q].step}
               /\ [request[q] EXCEPT !.step = "deleted", !.deletes = d].step \in {"deleted", request[q].step}
    OBVIOUS
  <2>. QED
    BY <1>5, <2>1 DEF DeleteAccess, LockRows
<1>. QED
  BY <1>2, <1>4, <1>6, <1>7, <1>8, <1>9 DEF Administering

\* What a request changed it was allowed to change, by a role that its caller
\* had during the request over a role that the account had since then.
THEOREM ChangesWereAuthorised == AdministrationSpec => EffectsWereAuthorised
<1> DEFINE Authorised == \A q \in Request : Succeeds(q) => Ground(q)
<1>1. AdministrationInv /\ [NextAdministration]_administrationVars => Authorised
  <2> SUFFICES ASSUME AdministrationInv, [NextAdministration]_administrationVars,
                      NEW q \in Request, Succeeds(q)
               PROVE  Ground(q)
    OBVIOUS
  <2>1. request[q].step \in Decided
    BY Success DEF CreateAccount, UpdateAccount, ReplaceAccess, Decided
  <2>. QED
    BY <2>1 DEF AdministrationInv, Consistent, Grounded
<1>. QED
  BY <1>1, AdministrationInvariant, PTL DEF AdministrationSpec, EffectsWereAuthorised, Ground

\* A replacement of classrooms leaves those it lists and none that was there
\* when it began.
THEOREM RevocationHolds == AdministrationSpec => RevokedStaysRevoked
<1> DEFINE Holds ==
      \A q \in Request : (Succeeds(q) /\ request[q].payload.op = "access") =>
        LET left == {row.classroom : row \in {a \in classroom_access' : a.account = request[q].target}}
        IN  /\ request[q].payload.classrooms \subseteq left
            /\ left \subseteq request[q].payload.classrooms \cup seen[q].granted
<1>1. AdministrationInv /\ [NextAdministration]_administrationVars => Holds
  <2> SUFFICES ASSUME AdministrationInv, [NextAdministration]_administrationVars,
                      NEW q \in Request, Succeeds(q), request[q].payload.op = "access"
               PROVE  LET left == {row.classroom : row \in {a \in classroom_access' :
                                                              a.account = request[q].target}}
                      IN  /\ request[q].payload.classrooms \subseteq left
                          /\ left \subseteq request[q].payload.classrooms \cup seen[q].granted
    OBVIOUS
  <2>1. ReplaceAccess(q)
    BY Success DEF CreateAccount, UpdateAccount
  <2>2. request[q].step \in Replacing
    BY <2>1 DEF ReplaceAccess, Replacing
  <2>3. ~\E row \in classroom_access \ request[q].deletes :
           row.account = request[q].target /\ row.classroom \in request[q].payload.classrooms
    <3>1. [request[q] EXCEPT !.step = "refused"].step \in {"refused", request[q].step}
      OBVIOUS
    <3>. QED
      BY <2>1, <3>1 DEF ReplaceAccess, MovesTo, Succeeds, AdministrationInv, AdministrationTypeOK
  <2>4. classroom_access' = (classroom_access \ request[q].deletes) \cup
          {[account |-> request[q].target, classroom |-> c, by |-> q] :
             c \in request[q].payload.classrooms}
    BY <2>1, <2>3 DEF ReplaceAccess
  <2>5. \A row \in classroom_access \ request[q].deletes :
          row.account = request[q].target => row.classroom \in seen[q].granted
    BY <2>2 DEF AdministrationInv, Consistent, Left
  <2> DEFINE r == request[q]
             new == {[account |-> r.target, classroom |-> c, by |-> q] : c \in r.payload.classrooms}
             left == {row.classroom : row \in {a \in classroom_access' : a.account = r.target}}
  <2>6. \A row \in classroom_access' : row \in classroom_access \ r.deletes \/ row \in new
    BY <2>4
  <2>7. \A row \in new : row.classroom \in r.payload.classrooms
    OBVIOUS
  <2>8. left \subseteq r.payload.classrooms \cup seen[q].granted
    BY <2>5, <2>6, <2>7
  <2>9. ASSUME NEW c \in r.payload.classrooms PROVE c \in left
    <3> DEFINE row == [account |-> r.target, classroom |-> c, by |-> q]
    <3>1. row \in new /\ row.account = r.target /\ row.classroom = c
      OBVIOUS
    <3>2. row \in classroom_access'
      BY <2>4, <3>1
    <3>. QED
      BY <3>1, <3>2
  <2>. QED
    BY <2>8, <2>9
<1>. QED
  BY <1>1, AdministrationInvariant, PTL DEF AdministrationSpec, RevokedStaysRevoked
=============================================================================
