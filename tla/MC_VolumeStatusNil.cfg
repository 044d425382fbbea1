\* UpdateVolumeStatus (db.go) on a volume GetVolume cannot return.

CONSTANTS
    t1 = t1
    t2 = t2
    admin = admin
    user = user
    Tenants = {t1, t2}
    VolIds = {v1}
    Clients = {admin, user}
    Ctx <- MCCtx
    Statuses = {"available", "error"}
    Groups = {"g1"}
    NoRecord = NoRecord
    KVCanFail = FALSE
    UpdateUpserts = TRUE
SPECIFICATION Spec



INVARIANT NoNilDereference
