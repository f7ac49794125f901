-------------------------------- MODULE Roles --------------------------------
(***************************************************************************)
(* RolesService: permissions and what roles are granted of them.           *)
(*                                                                         *)
(* The roles are those onModuleInit seeds before the first request.  They  *)
(* are the only names createRole and deleteRole know: the one refuses      *)
(* because they exist, the other because they are default roles, so        *)
(* neither changes anything.                                               *)
(*                                                                         *)
(* addPermissionToRole and updateRole read a role with its permissions and *)
(* save it: save SELECTs the permissions again and, in a transaction,      *)
(* inserts the pairs it misses and deletes those the entity lacks.         *)
(***************************************************************************)
CONSTANTS
    RoleNames,
    Permissions, \* ids
    Names,       \* of permissions
    Handlers,    \* slots of requests in flight
    None

ASSUME RolesAssumption == None \notin RoleNames \cup Permissions \cup Names

VARIABLES
    permissions, \* the name of each row of the table permissions
    spent,       \* ids that were given out
    granted,     \* role_permissions: the permissions of each role
    req,         \* the request in each slot
    overlapped   \* history: roles saved by a request that had not read the latest

vars == <<permissions, spent, granted, req, overlapped>>

Exists(p) == permissions[p] # None
Taken(n) == \E p \in Permissions : permissions[p] = n

\* list: role.permissions of the entity.  add, del: what save will write.
Request == [at: {"idle", "insert", "remove", "permission", "diff", "write"},
            role: RoleNames \cup {None}, perm: Permissions \cup {None},
            name: Names \cup {None}, list: SUBSET Permissions,
            add: SUBSET Permissions, del: SUBSET Permissions, fresh: BOOLEAN]

Blank == [at |-> "idle", role |-> None, perm |-> None, name |-> None,
          list |-> {}, add |-> {}, del |-> {}, fresh |-> TRUE]

\* Rows and requests are well formed, and roles are granted existing permissions
\* only.
RolesTypeOK ==
    /\ permissions \in [Permissions -> Names \cup {None}]
    /\ spent \subseteq Permissions
    /\ granted \in [RoleNames -> SUBSET Permissions]
    /\ \A r \in RoleNames : \A p \in granted[r] : Exists(p)
    /\ req \in [Handlers -> Request]
    /\ overlapped \subseteq RoleNames

Enter(h, r) == req' = [req EXCEPT ![h] = r]

\* The requests after the permissions of the roles in rs have changed.
Outdated(rs, others) ==
    [g \in Handlers |-> IF others[g].role \in rs THEN [others[g] EXCEPT !.fresh = FALSE]
                        ELSE others[g]]

-----------------------------------------------------------------------------
(* Permissions *)

\* The name is looked up first; a permission of that name is refused.
CreatePermission(h) ==
    /\ req[h].at = "idle"
    /\ \E n \in Names : ~ Taken(n) /\ Enter(h, [Blank EXCEPT !.at = "insert", !.name = n])
    /\ UNCHANGED <<permissions, spent, granted, overlapped>>

\* Mutation: no unique index.
AnyName(n) == TRUE

\* the unique index on name
Insertable(n) == ~ Taken(n)

InsertPermission(h) ==
    /\ req[h].at = "insert"
    /\ IF Insertable(req[h].name)
       THEN \E p \in Permissions \ spent :
            /\ permissions' = [permissions EXCEPT ![p] = req[h].name]
            /\ spent' = spent \cup {p}
       ELSE UNCHANGED <<permissions, spent>>
    /\ Enter(h, Blank)
    /\ UNCHANGED <<granted, overlapped>>

DeletePermission(h) ==
    /\ req[h].at = "idle"
    /\ \E p \in Permissions : Exists(p) /\ Enter(h, [Blank EXCEPT !.at = "remove", !.perm = p])
    /\ UNCHANGED <<permissions, spent, granted, overlapped>>

\* Mutation: the pairs stay.
PairsKept(p) == granted

\* its pairs go with a permission
Ungranted(p) == [r \in RoleNames |-> granted[r] \ {p}]

\* repo.remove, which does nothing when the row is gone already
RemovePermission(h) ==
    LET p == req[h].perm IN
    /\ req[h].at = "remove"
    /\ permissions' = [permissions EXCEPT ![p] = None]
    /\ granted' = Ungranted(p)
    /\ req' = Outdated({r \in RoleNames : p \in granted[r]}, [req EXCEPT ![h] = Blank])
    /\ UNCHANGED <<spent, overlapped>>

-----------------------------------------------------------------------------
(* Roles *)

\* updateRole changes the description, but saves the eager permissions too.
UpdateRole(h) ==
    /\ req[h].at = "idle"
    /\ \E r \in RoleNames :
        Enter(h, [Blank EXCEPT !.at = "diff", !.role = r, !.list = granted[r]])
    /\ UNCHANGED <<permissions, spent, granted, overlapped>>

\* addPermissionToRole reads the role, then the permission.
AddPermissionToRole(h) ==
    /\ req[h].at = "idle"
    /\ \E r \in RoleNames, p \in Permissions :
        Enter(h, [Blank EXCEPT !.at = "permission", !.role = r, !.perm = p, !.list = granted[r]])
    /\ UNCHANGED <<permissions, spent, granted, overlapped>>

\* Mutation: the list is replaced.
Replaced(r) == {r.perm}

\* role.permissions.push(perm)
Pushed(r) == r.list \cup {r.perm}

\* A permission that is not there, or one the role has, is refused.
FindPermission(h) ==
    LET r == req[h] IN
    /\ r.at = "permission"
    /\ Enter(h, IF Exists(r.perm) /\ r.perm \notin r.list
                THEN [r EXCEPT !.at = "diff", !.list = Pushed(r)] ELSE Blank)
    /\ UNCHANGED <<permissions, spent, granted, overlapped>>

SaveDiff(h) ==
    LET r == req[h] IN
    /\ r.at = "diff"
    /\ Enter(h, [r EXCEPT !.at = "write", !.list = {}, !.add = r.list \ granted[r.role],
                          !.del = granted[r.role] \ r.list])
    /\ UNCHANGED <<permissions, spent, granted, overlapped>>

\* The foreign key refuses a permission that is gone, the primary key a pair
\* that is there: then the transaction rolls back and the request fails.
Writable(r) == \A p \in r.add : Exists(p) /\ p \notin granted[r.role]

SaveWrite(h) ==
    LET r == req[h]
        list == IF Writable(r) THEN (granted[r.role] \cup r.add) \ r.del ELSE granted[r.role]
        changed == list # granted[r.role] IN
    /\ r.at = "write"
    /\ granted' = [granted EXCEPT ![r.role] = list]
    /\ req' = Outdated(IF changed THEN {r.role} ELSE {}, [req EXCEPT ![h] = Blank])
    /\ overlapped' = IF changed /\ ~ r.fresh THEN overlapped \cup {r.role} ELSE overlapped
    /\ UNCHANGED <<permissions, spent>>

-----------------------------------------------------------------------------
Init ==
    /\ permissions = [p \in Permissions |-> None]
    /\ spent = {}
    /\ granted = [r \in RoleNames |-> {}]
    /\ req = [h \in Handlers |-> Blank]
    /\ overlapped = {}

\* The routes of RolesController that change something; none has a guard.
Arrive(h) ==
    CreatePermission(h) \/ DeletePermission(h) \/ UpdateRole(h) \/ AddPermissionToRole(h)

Next ==
    \E h \in Handlers :
        \/ Arrive(h)
        \/ InsertPermission(h) \/ RemovePermission(h) \/ FindPermission(h)
        \/ SaveDiff(h) \/ SaveWrite(h)

Spec == Init /\ [][Next]_vars

-----------------------------------------------------------------------------
(* Properties *)

\* createPermission refuses a name that exists: however requests overlap, no two
\* permissions share a name.
PermissionNamesUnique ==
    \A p, q \in Permissions : Exists(p) /\ permissions[p] = permissions[q] => p = q

\* addPermissionToRole "adds the specified permission" and updateRole has no
\* permissions to set.  Whatever is in flight, unless saves of the role overlap,
\* a role loses a permission only when the permission is deleted, and gains only
\* the one a request asks for.
GrantsAsAsked ==
    [][\A r \in RoleNames \ overlapped' :
        /\ \A p \in granted[r] \ granted'[r] : permissions'[p] = None
        /\ \A p \in granted'[r] \ granted[r] : \E h \in Handlers :
            req[h].at = "write" /\ req[h].role = r /\ req[h].perm = p]_vars
=============================================================================
