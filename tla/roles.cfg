\* Two roles, two permissions, three requests in flight.
SPECIFICATION Spec
CONSTANTS
    None = None
    RoleNames = {admin, user}
    Permissions = {p1, p2}
    Names = {n1, n2}
    Handlers = {h1, h2, h3}
\* ids run out while a permission is being created
CHECK_DEADLOCK FALSE
SYMMETRY Interchangeable
INVARIANTS
    RolesTypeOK
    PermissionNamesUnique
PROPERTIES
    GrantsAsAsked
