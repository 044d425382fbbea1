\* UpdateVolume racing DeleteVolume against an etcd-like store (Update is a Put).

CONSTANTS
    t1 = t1
    t2 = t2
    admin = admin
    user = user
    Tenants = {t1, t2}
    VolIds = {v1}
    Clients = {admin, user}
    Ctx <- MCCtx
    Statuses = {"available", "error"}
    Groups = {"g1"}
    NoRecord = NoRecord
    KVCanFail = TRUE
    UpdateUpserts = TRUE
SPECIFICATION Spec



PROPERTY VolumeLifecycleSpec
