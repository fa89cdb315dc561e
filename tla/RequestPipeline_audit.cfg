SPECIFICATION Spec

CONSTANTS
    adm = adm
    wkr = wkr
    Slots = {s1, s2}
    Users = {adm, wkr}
    RoleOf <- Roles
    Nobody = nobody
    BadToken = badtoken
    NoRequest = norequest
    Asked = {"login", "assign", "updateProfile", "listUsers"}
    MaxRequests = 3

SYMMETRY Symmetry

INVARIANTS
    TypeOK
    AuditSound
    AuditComplete
