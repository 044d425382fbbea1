\* The volume family against an etcd-like store (Update is a Put) that may
\* fail any call: one admin and one tenant caller, two tenants, one volume.
CONSTANTS
    t1 = t1
    t2 = t2
    admin = admin
    user = user
    Tenants = {t1, t2}
    VolIds = {v1}
    Clients = {admin, user}
    Ctx <- MCCtx
    Statuses = {"available", "error"}
    Groups = {"g1"}
    NoRecord = NoRecord
    KVCanFail = TRUE
    UpdateUpserts = TRUE
SPECIFICATION FairSpec
INVARIANT TypeOK
INVARIANT VolumeKeyedByOwner
INVARIANT ListTenantIsolation
PROPERTY CallsReturn
