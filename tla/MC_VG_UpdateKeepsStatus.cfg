\* Violation: UpdateKeepsStatus against the code.
CONSTANTS
    t1 = t1
    t2 = t2
    a = a
    b = b
    Tenants = {t1, t2}
    Clients = {a, b}
    Ctx <- MCCtx
    GroupIds = {"g1"}
    Statuses = {"available", "error"}
    NoRecord = NoRecord
    KVCanFail = TRUE
SPECIFICATION Spec
PROPERTY UpdateKeepsStatus
