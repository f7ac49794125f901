----------------------------- MODULE RolesProofs -----------------------------
(***************************************************************************)
(* Theorems about Roles for every value of its constants.                  *)
(***************************************************************************)
EXTENDS Roles, TLAPS

-----------------------------------------------------------------------------
(* Type correctness *)

\* What each stage of a request has looked up.
StageTyped(r) ==
    /\ r.at = "insert" => r.name \in Names
    /\ r.at = "remove" => r.perm \in Permissions
    /\ r.at \in {"permission", "diff", "write"} => r.role \in RoleNames
    /\ r.at = "permission" => r.perm \in Permissions

RolesInv == RolesTypeOK /\ \A h \in Handlers : StageTyped(req[h])

LEMMA BlankTyped == Blank \in Request /\ StageTyped(Blank)
BY DEF Blank, Request, StageTyped

LEMMA RolesInit == Init => RolesInv
BY BlankTyped, RolesAssumption DEF Init, RolesInv, RolesTypeOK

\* A well-formed request in a slot keeps the requests well formed, and so does
\* forgetting that some of them have read the latest.
LEMMA EnterTyped ==
    ASSUME RolesInv, NEW h \in Handlers, NEW r \in Request, StageTyped(r)
    PROVE  LET q == [req EXCEPT ![h] = r] IN
           q \in [Handlers -> Request] /\ \A g \in Handlers : StageTyped(q[g])
BY DEF RolesInv, RolesTypeOK

LEMMA OutdatedTyped ==
    ASSUME NEW q \in [Handlers -> Request], \A g \in Handlers : StageTyped(q[g]), NEW rs
    PROVE  /\ Outdated(rs, q) \in [Handlers -> Request]
           /\ \A g \in Handlers : StageTyped(Outdated(rs, q)[g])
<1>1. ASSUME NEW g \in Handlers
      PROVE  Outdated(rs, q)[g] \in Request /\ StageTyped(Outdated(rs, q)[g])
  <2>1. [q[g] EXCEPT !.fresh = FALSE] \in Request
    BY DEF Request
  <2>2. /\ [q[g] EXCEPT !.fresh = FALSE].at = q[g].at
        /\ [q[g] EXCEPT !.fresh = FALSE].role = q[g].role
        /\ [q[g] EXCEPT !.fresh = FALSE].perm = q[g].perm
        /\ [q[g] EXCEPT !.fresh = FALSE].name = q[g].name
    BY DEF Request
  <2>3. Outdated(rs, q)[g] \in {q[g], [q[g] EXCEPT !.fresh = FALSE]}
    BY DEF Outdated
  <2>4. QED
    BY <2>1, <2>2, <2>3 DEF StageTyped
<1>2. QED
  BY <1>1 DEF Outdated

LEMMA RolesStep == RolesInv /\ [Next]_vars => RolesInv'
<1> SUFFICES ASSUME RolesInv, [Next]_vars PROVE RolesInv'
  OBVIOUS
<1> DEFINE Requests == req' \in [Handlers -> Request] /\ \A g \in Handlers : StageTyped(req'[g])
<1>0. ASSUME Requests, UNCHANGED <<permissions, spent, granted, overlapped>> PROVE RolesInv'
  BY <1>0 DEF RolesInv, RolesTypeOK, Exists
<1>1. ASSUME NEW h \in Handlers, CreatePermission(h) PROVE RolesInv'
  <2>1. PICK n \in Names : Enter(h, [Blank EXCEPT !.at = "insert", !.name = n])
    BY <1>1 DEF CreatePermission
  <2>2. [Blank EXCEPT !.at = "insert", !.name = n] \in Request
        /\ StageTyped([Blank EXCEPT !.at = "insert", !.name = n])
    BY DEF Blank, Request, StageTyped
  <2>3. QED
    BY <1>0, <1>1, <2>1, <2>2, EnterTyped DEF CreatePermission, Enter
<1>2. ASSUME NEW h \in Handlers, InsertPermission(h) PROVE RolesInv'
  <2>1. Requests
    BY <1>2, BlankTyped, EnterTyped DEF InsertPermission, Enter
  <2>2. req[h].name \in Names /\ req[h].name # None
    BY <1>2, RolesAssumption DEF InsertPermission, RolesInv, StageTyped
  <2>3. granted' = granted /\ overlapped' = overlapped
    BY <1>2 DEF InsertPermission
  <2>4. CASE UNCHANGED <<permissions, spent>>
    BY <1>0, <2>1, <2>3, <2>4
  <2>5. CASE \E p \in Permissions \ spent :
                /\ permissions' = [permissions EXCEPT ![p] = req[h].name]
                /\ spent' = spent \cup {p}
    <3>1. permissions' \in [Permissions -> Names \cup {None}] /\ spent' \subseteq Permissions
      BY <2>2, <2>5 DEF RolesInv, RolesTypeOK
    <3>2. \A p \in Permissions : Exists(p) => Exists(p)'
      BY <2>2, <2>5 DEF RolesInv, RolesTypeOK, Exists
    <3>3. QED
      BY <2>1, <2>3, <3>1, <3>2 DEF RolesInv, RolesTypeOK
  <2>6. QED
    BY <1>2, <2>4, <2>5 DEF InsertPermission
<1>3. ASSUME NEW h \in Handlers, DeletePermission(h) PROVE RolesInv'
  <2>1. PICK p \in Permissions : Enter(h, [Blank EXCEPT !.at = "remove", !.perm = p])
    BY <1>3 DEF DeletePermission
  <2>2. [Blank EXCEPT !.at = "remove", !.perm = p] \in Request
        /\ StageTyped([Blank EXCEPT !.at = "remove", !.perm = p])
    BY DEF Blank, Request, StageTyped
  <2>3. QED
    BY <1>0, <1>3, <2>1, <2>2, EnterTyped DEF DeletePermission, Enter
<1>4. ASSUME NEW h \in Handlers, RemovePermission(h) PROVE RolesInv'
  <2> DEFINE p == req[h].perm
  <2>1. Requests
    BY <1>4, BlankTyped, EnterTyped, OutdatedTyped DEF RemovePermission
  <2>2. permissions' = [permissions EXCEPT ![p] = None] /\ granted' = Ungranted(p)
        /\ spent' = spent /\ overlapped' = overlapped
    BY <1>4 DEF RemovePermission
  <2>3. permissions' \in [Permissions -> Names \cup {None}]
    BY <2>2 DEF RolesInv, RolesTypeOK
  <2>4. granted' \in [RoleNames -> SUBSET Permissions]
    BY <2>2 DEF RolesInv, RolesTypeOK, Ungranted
  <2>5. \A r \in RoleNames : \A q \in granted'[r] : Exists(q)'
    BY <2>2 DEF RolesInv, RolesTypeOK, Ungranted, Exists
  <2>6. QED
    BY <2>1, <2>2, <2>3, <2>4, <2>5 DEF RolesInv, RolesTypeOK
<1>5. ASSUME NEW h \in Handlers, UpdateRole(h) PROVE RolesInv'
  <2>1. PICK r \in RoleNames :
            Enter(h, [Blank EXCEPT !.at = "diff", !.role = r, !.list = granted[r]])
    BY <1>5 DEF UpdateRole
  <2> DEFINE q == [Blank EXCEPT !.at = "diff", !.role = r, !.list = granted[r]]
  <2>2. q \in Request /\ StageTyped(q)
    BY DEF Blank, Request, StageTyped, RolesInv, RolesTypeOK
  <2>3. QED
    BY <1>0, <1>5, <2>1, <2>2, EnterTyped DEF UpdateRole, Enter
<1>6. ASSUME NEW h \in Handlers, AddPermissionToRole(h) PROVE RolesInv'
  <2>1. PICK r \in RoleNames, p \in Permissions :
            Enter(h, [Blank EXCEPT !.at = "permission", !.role = r, !.perm = p,
                                   !.list = granted[r]])
    BY <1>6 DEF AddPermissionToRole
  <2> DEFINE q == [Blank EXCEPT !.at = "permission", !.role = r, !.perm = p,
                                !.list = granted[r]]
  <2>2. q \in Request /\ StageTyped(q)
    BY DEF Blank, Request, StageTyped, RolesInv, RolesTypeOK
  <2>3. QED
    BY <1>0, <1>6, <2>1, <2>2, EnterTyped DEF AddPermissionToRole, Enter
<1>7. ASSUME NEW h \in Handlers, FindPermission(h) PROVE RolesInv'
  <2> DEFINE r == req[h]
             q == [r EXCEPT !.at = "diff", !.list = Pushed(r)]
  <2>1. r \in Request /\ r.role \in RoleNames /\ r.perm \in Permissions
    BY <1>7 DEF FindPermission, RolesInv, RolesTypeOK, StageTyped
  <2>2. q \in Request /\ StageTyped(q)
    BY <2>1 DEF Request, StageTyped, Pushed
  <2>3. Requests
    BY <1>7, <2>2, BlankTyped, EnterTyped DEF FindPermission, Enter
  <2>4. QED
    BY <1>0, <1>7, <2>3 DEF FindPermission
<1>8. ASSUME NEW h \in Handlers, SaveDiff(h) PROVE RolesInv'
  <2> DEFINE r == req[h]
             q == [r EXCEPT !.at = "write", !.list = {}, !.add = r.list \ granted[r.role],
                            !.del = granted[r.role] \ r.list]
  <2>1. r \in Request /\ r.role \in RoleNames /\ granted[r.role] \subseteq Permissions
    BY <1>8 DEF SaveDiff, RolesInv, RolesTypeOK, StageTyped
  <2>2. q \in Request /\ StageTyped(q)
    BY <2>1 DEF Request, StageTyped
  <2>3. Requests
    BY <1>8, <2>2, EnterTyped DEF SaveDiff, Enter
  <2>4. QED
    BY <1>0, <1>8, <2>3 DEF SaveDiff
<1>9. ASSUME NEW h \in Handlers, SaveWrite(h) PROVE RolesInv'
  <2> DEFINE r == req[h]
             list == IF Writable(r) THEN (granted[r.role] \cup r.add) \ r.del
                     ELSE granted[r.role]
  <2>1. r \in Request /\ r.role \in RoleNames
    BY <1>9 DEF SaveWrite, RolesInv, RolesTypeOK, StageTyped
  <2>2. r.add \subseteq Permissions /\ granted[r.role] \subseteq Permissions
    BY <2>1 DEF Request, RolesInv, RolesTypeOK
  <2>3. list \subseteq Permissions /\ \A p \in list : Exists(p)
    BY <2>1, <2>2 DEF Writable, RolesInv, RolesTypeOK
  <2>4. granted' = [granted EXCEPT ![r.role] = list]
        /\ permissions' = permissions /\ spent' = spent
    BY <1>9 DEF SaveWrite
  <2>5. granted' \in [RoleNames -> SUBSET Permissions]
        /\ \A s \in RoleNames : \A p \in granted'[s] : Exists(p)
    BY <2>1, <2>3, <2>4 DEF RolesInv, RolesTypeOK
  <2>6. overlapped' \subseteq RoleNames
    BY <1>9, <2>1 DEF SaveWrite, RolesInv, RolesTypeOK
  <2>7. Requests
    BY <1>9, BlankTyped, EnterTyped, OutdatedTyped DEF SaveWrite
  <2>8. QED
    BY <2>4, <2>5, <2>6, <2>7 DEF RolesInv, RolesTypeOK, Exists
<1>10. CASE UNCHANGED vars
  BY <1>0, <1>10 DEF vars, RolesInv, RolesTypeOK
<1>11. QED
  BY <1>1, <1>2, <1>3, <1>4, <1>5, <1>6, <1>7, <1>8, <1>9, <1>10 DEF Next, Arrive

\* Rows and requests are well formed, and whatever is in flight a role is
\* granted existing permissions only.
THEOREM RolesTypeCorrect == Spec => []RolesTypeOK
<1>1. RolesInv => RolesTypeOK
  BY DEF RolesInv
<1>2. QED
  BY <1>1, RolesInit, RolesStep, PTL DEF Spec

-----------------------------------------------------------------------------
(* Names *)

LEMMA NamesStep ==
    RolesInv /\ PermissionNamesUnique /\ [Next]_vars => PermissionNamesUnique'
<1> SUFFICES ASSUME RolesInv, PermissionNamesUnique, [Next]_vars
             PROVE  PermissionNamesUnique'
  OBVIOUS
<1>0. ASSUME permissions' = permissions PROVE PermissionNamesUnique'
  BY <1>0 DEF PermissionNamesUnique, Exists
\* The unique index settles what the look-up before it cannot.
<1>1. ASSUME NEW h \in Handlers, InsertPermission(h) PROVE PermissionNamesUnique'
  <2>1. CASE Insertable(req[h].name)
    <3>1. \A p \in Permissions : permissions[p] # req[h].name
      BY <2>1 DEF Insertable, Taken
    <3>2. PICK q \in Permissions : permissions' = [permissions EXCEPT ![q] = req[h].name]
      BY <1>1, <2>1 DEF InsertPermission
    <3>3. QED
      BY <3>1, <3>2 DEF PermissionNamesUnique, Exists, RolesInv, RolesTypeOK
  <2>2. QED
    BY <1>0, <1>1, <2>1 DEF InsertPermission
<1>2. ASSUME NEW h \in Handlers, RemovePermission(h) PROVE PermissionNamesUnique'
  <2>1. permissions' = [permissions EXCEPT ![req[h].perm] = None]
    BY <1>2 DEF RemovePermission
  <2>2. QED
    BY <2>1 DEF PermissionNamesUnique, Exists, RolesInv, RolesTypeOK
<1>3. QED
  BY <1>0, <1>1, <1>2 DEF Next, Arrive, CreatePermission, DeletePermission, UpdateRole,
     AddPermissionToRole, FindPermission, SaveDiff, SaveWrite, vars

\* However requests to create permissions overlap, no two share a name.
THEOREM NamesStayUnique == Spec => []PermissionNamesUnique
<1>1. Init => PermissionNamesUnique
  BY DEF Init, PermissionNamesUnique, Exists
<1>2. QED
  BY <1>1, NamesStep, RolesInit, RolesStep, PTL DEF Spec

-----------------------------------------------------------------------------
(* Grants *)

\* A request that has read the latest knows the grants of its role but for the
\* permission it is to add: its save will delete nothing and insert at most that.
FreshGrants(r, grants) ==
    r.fresh =>
        /\ r.at = "permission" => r.list = grants
        /\ r.at = "diff" => grants \subseteq r.list /\ r.list \subseteq grants \cup {r.perm}
        /\ r.at = "write" => r.del = {} /\ r.add \subseteq {r.perm}

GrantInv == \A h \in Handlers : req[h].role \in RoleNames => FreshGrants(req[h], granted[req[h].role])

\* A request may be entered that is fresh or makes no claim to be.
LEMMA EnterFresh ==
    ASSUME RolesInv, GrantInv, NEW h \in Handlers, NEW r \in Request, Enter(h, r),
           granted' = granted, r.role \in RoleNames => FreshGrants(r, granted[r.role])
    PROVE  GrantInv'
BY DEF RolesInv, RolesTypeOK, GrantInv, Enter

\* When the grants of some roles change, the requests of these are outdated.
LEMMA OutdatedFresh ==
    ASSUME RolesInv, GrantInv, NEW h \in Handlers, NEW rs,
           req' = Outdated(rs, [req EXCEPT ![h] = Blank]),
           \A r \in RoleNames \ rs : granted'[r] = granted[r]
    PROVE  GrantInv'
<1> SUFFICES ASSUME NEW g \in Handlers, req'[g].role \in RoleNames, req'[g].fresh
             PROVE  FreshGrants(req'[g], granted'[req'[g].role])
  BY DEF GrantInv, FreshGrants
<1> DEFINE q == [req EXCEPT ![h] = Blank]
<1>1. q[g] \in Request /\ q[g] \in {req[g], Blank}
  BY BlankTyped DEF RolesInv, RolesTypeOK
<1>2. q[g].role \notin rs /\ req'[g] = q[g]
  BY <1>1 DEF Outdated, Request
<1>3. CASE q[g] = Blank
  BY <1>2, <1>3 DEF FreshGrants, Blank
<1>4. CASE q[g] = req[g]
  BY <1>2, <1>4 DEF GrantInv
<1>5. QED
  BY <1>1, <1>3, <1>4

LEMMA GrantStep == RolesInv /\ GrantInv /\ [Next]_vars => GrantInv'
<1> SUFFICES ASSUME RolesInv, GrantInv, [Next]_vars PROVE GrantInv'
  OBVIOUS
<1> USE DEF FreshGrants
<1>1. ASSUME NEW h \in Handlers, CreatePermission(h) PROVE GrantInv'
  <2>1. PICK n \in Names : Enter(h, [Blank EXCEPT !.at = "insert", !.name = n])
    BY <1>1 DEF CreatePermission
  <2>2. QED
    BY <1>1, <2>1, EnterFresh DEF CreatePermission, Blank, Request
<1>2. ASSUME NEW h \in Handlers, InsertPermission(h) PROVE GrantInv'
  BY <1>2, BlankTyped, EnterFresh DEF InsertPermission, Blank
<1>3. ASSUME NEW h \in Handlers, DeletePermission(h) PROVE GrantInv'
  <2>1. PICK p \in Permissions : Enter(h, [Blank EXCEPT !.at = "remove", !.perm = p])
    BY <1>3 DEF DeletePermission
  <2>2. QED
    BY <1>3, <2>1, EnterFresh DEF DeletePermission, Blank, Request
<1>4. ASSUME NEW h \in Handlers, RemovePermission(h) PROVE GrantInv'
  <2> DEFINE p == req[h].perm
             rs == {r \in RoleNames : p \in granted[r]}
  <2>1. req' = Outdated(rs, [req EXCEPT ![h] = Blank]) /\ granted' = Ungranted(p)
    BY <1>4 DEF RemovePermission
  <2>2. \A r \in RoleNames \ rs : granted'[r] = granted[r]
    BY <2>1 DEF Ungranted
  <2>3. QED
    BY <2>1, <2>2, OutdatedFresh
<1>5. ASSUME NEW h \in Handlers, UpdateRole(h) PROVE GrantInv'
  <2>1. PICK r \in RoleNames :
            Enter(h, [Blank EXCEPT !.at = "diff", !.role = r, !.list = granted[r]])
    BY <1>5 DEF UpdateRole
  <2> DEFINE q == [Blank EXCEPT !.at = "diff", !.role = r, !.list = granted[r]]
  <2>2. q \in Request /\ q.at = "diff" /\ q.role = r /\ q.list = granted[r]
    BY DEF Blank, Request, RolesInv, RolesTypeOK
  <2>3. QED
    BY <1>5, <2>1, <2>2, EnterFresh DEF UpdateRole
<1>6. ASSUME NEW h \in Handlers, AddPermissionToRole(h) PROVE GrantInv'
  <2>1. PICK r \in RoleNames, p \in Permissions :
            Enter(h, [Blank EXCEPT !.at = "permission", !.role = r, !.perm = p,
                                   !.list = granted[r]])
    BY <1>6 DEF AddPermissionToRole
  <2> DEFINE q == [Blank EXCEPT !.at = "permission", !.role = r, !.perm = p,
                                !.list = granted[r]]
  <2>2. q \in Request /\ q.at = "permission" /\ q.role = r /\ q.list = granted[r]
    BY DEF Blank, Request, RolesInv, RolesTypeOK
  <2>3. QED
    BY <1>6, <2>1, <2>2, EnterFresh DEF AddPermissionToRole
<1>7. ASSUME NEW h \in Handlers, FindPermission(h) PROVE GrantInv'
  <2> DEFINE r == req[h]
             q == [r EXCEPT !.at = "diff", !.list = Pushed(r)]
  <2>1. r \in Request /\ r.role \in RoleNames /\ r.perm \in Permissions /\ r.at = "permission"
    BY <1>7 DEF FindPermission, RolesInv, RolesTypeOK, StageTyped
  <2>2. /\ q \in Request /\ q.at = "diff" /\ q.list = r.list \cup {r.perm}
        /\ q.role = r.role /\ q.perm = r.perm /\ q.fresh = r.fresh
    BY <2>1 DEF Request, Pushed
  <2>3. FreshGrants(q, granted[q.role])
    BY <2>1, <2>2 DEF GrantInv
  <2>4. granted' = granted /\ (Enter(h, q) \/ Enter(h, Blank))
    BY <1>7 DEF FindPermission
  <2>5. Enter(h, q) => GrantInv'
    BY <2>2, <2>3, <2>4, EnterFresh
  <2>6. Enter(h, Blank) => GrantInv'
    BY <2>4, BlankTyped, EnterFresh DEF Blank
  <2>7. QED
    BY <2>4, <2>5, <2>6
<1>8. ASSUME NEW h \in Handlers, SaveDiff(h) PROVE GrantInv'
  <2> DEFINE r == req[h]
             q == [r EXCEPT !.at = "write", !.list = {}, !.add = r.list \ granted[r.role],
                            !.del = granted[r.role] \ r.list]
  <2>1. r \in Request /\ r.role \in RoleNames /\ granted[r.role] \subseteq Permissions
        /\ r.at = "diff"
    BY <1>8 DEF SaveDiff, RolesInv, RolesTypeOK, StageTyped
  <2>2. /\ q \in Request /\ q.at = "write" /\ q.add = r.list \ granted[r.role]
        /\ q.del = granted[r.role] \ r.list
        /\ q.role = r.role /\ q.perm = r.perm /\ q.fresh = r.fresh
    BY <2>1 DEF Request
  <2>3. FreshGrants(q, granted[q.role])
    BY <2>1, <2>2 DEF GrantInv
  <2>4. QED
    BY <1>8, <2>2, <2>3, EnterFresh DEF SaveDiff
<1>9. ASSUME NEW h \in Handlers, SaveWrite(h) PROVE GrantInv'
  <2> DEFINE r == req[h]
             list == IF Writable(r) THEN (granted[r.role] \cup r.add) \ r.del
                     ELSE granted[r.role]
             rs == IF list # granted[r.role] THEN {r.role} ELSE {}
  <2>1. req' = Outdated(rs, [req EXCEPT ![h] = Blank])
        /\ granted' = [granted EXCEPT ![r.role] = list]
    BY <1>9 DEF SaveWrite
  <2>2. \A s \in RoleNames \ rs : granted'[s] = granted[s]
    BY <2>1 DEF RolesInv, RolesTypeOK
  <2>3. QED
    BY <2>1, <2>2, OutdatedFresh
<1>10. CASE UNCHANGED vars
  BY <1>10 DEF vars, GrantInv
<1>11. QED
  BY <1>1, <1>2, <1>3, <1>4, <1>5, <1>6, <1>7, <1>8, <1>9, <1>10 DEF Next, Arrive

\* What one step does to the grants of a role.
GrantsKept ==
    \A r \in RoleNames \ overlapped' :
        /\ \A p \in granted[r] \ granted'[r] : permissions'[p] = None
        /\ \A p \in granted'[r] \ granted[r] : \E h \in Handlers :
            req[h].at = "write" /\ req[h].role = r /\ req[h].perm = p

LEMMA GrantsChange == RolesInv /\ GrantInv /\ [Next]_vars => GrantsKept
<1> SUFFICES ASSUME RolesInv, GrantInv, [Next]_vars PROVE GrantsKept
  OBVIOUS
<1>0. ASSUME granted' = granted PROVE GrantsKept
  BY <1>0 DEF GrantsKept
<1>1. ASSUME NEW h \in Handlers, RemovePermission(h) PROVE GrantsKept
  BY <1>1 DEF RemovePermission, Ungranted, GrantsKept, RolesInv, RolesTypeOK
<1>2. ASSUME NEW h \in Handlers, SaveWrite(h) PROVE GrantsKept
  <2> DEFINE r == req[h]
             list == IF Writable(r) THEN (granted[r.role] \cup r.add) \ r.del
                     ELSE granted[r.role]
  <2>1. r \in Request /\ r.role \in RoleNames /\ r.at = "write"
    BY <1>2 DEF SaveWrite, RolesInv, RolesTypeOK, StageTyped
  <2>2. granted' = [granted EXCEPT ![r.role] = list]
    BY <1>2 DEF SaveWrite
  <2>3. \A s \in RoleNames : s # r.role => granted'[s] = granted[s]
    BY <2>2 DEF RolesInv, RolesTypeOK
  <2>4. ASSUME r.role \notin overlapped' PROVE r.fresh \/ granted'[r.role] = granted[r.role]
    BY <1>2, <2>1, <2>2, <2>4 DEF SaveWrite, RolesInv, RolesTypeOK
  <2>5. ASSUME r.fresh PROVE granted[r.role] \subseteq granted'[r.role]
                             /\ granted'[r.role] \subseteq granted[r.role] \cup {r.perm}
    <3>1. r.del = {} /\ r.add \subseteq {r.perm}
      BY <2>1, <2>5 DEF GrantInv, FreshGrants
    <3>2. granted'[r.role] = list
      BY <2>1, <2>2 DEF RolesInv, RolesTypeOK
    <3>3. QED
      BY <3>1, <3>2
  <2>6. QED
    BY <2>1, <2>3, <2>4, <2>5 DEF GrantsKept
<1>3. QED
  BY <1>0, <1>1, <1>2 DEF Next, Arrive, CreatePermission, InsertPermission, DeletePermission,
     UpdateRole, AddPermissionToRole, FindPermission, SaveDiff, vars

\* Unless saves of a role overlap, it loses a permission only with the deletion
\* of the permission and gains only what a request asks for.
THEOREM GrantsOnlyAsAsked == Spec => GrantsAsAsked
<1>1. Init => GrantInv
  BY RolesAssumption DEF Init, GrantInv, FreshGrants, Blank
<1>2. RolesInv /\ GrantInv /\ [Next]_vars => [GrantsKept]_vars
  BY GrantsChange
<1>3. QED
  BY <1>1, <1>2, GrantStep, RolesInit, RolesStep, PTL
     DEF Spec, GrantsAsAsked, GrantsKept

=============================================================================
