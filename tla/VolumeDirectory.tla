-------------------------- MODULE VolumeDirectory --------------------------
(***************************************************************************)
(* The volume family of the etcd directory client                          *)
(* (src/pkg/db/drivers/etcd/etcd.go: GetVolume, getVolume, ListVolumes,    *)
(* UpdateVolume, DeleteVolume, UpdateStatus, VolumesToUpdate,              *)
(* ListVolumesByGroupId) and the helper UpdateVolumeStatus of              *)
(* src/pkg/db/db.go, run by several callers at once against one store.     *)
(*                                                                         *)
(* Every call to the store (Get, List, Update, Delete) is one atomic step; *)
(* a directory operation is the sequence of its store calls, so the steps *)
(* of different callers interleave, as they do in the server, which runs  *)
(* each API request on its own goroutine without any lock (spec.md 5).    *)
(* Document fields other than id, TenantId, Status and GroupId, and the   *)
(* UpdatedAt stamp, are abstracted away: no property reads them.          *)
(***************************************************************************)
EXTENDS Naturals, Sequences, FiniteSets

CONSTANTS
    Tenants,       \* tenant (project) ids
    VolIds,        \* volume ids
    Clients,       \* concurrent callers of the directory
    Ctx,           \* Ctx[c]: [tenant |-> .., admin |-> ..], the caller's context
    Statuses,      \* the non-empty status strings callers write
    Groups,        \* non-empty volume group ids
    NoRecord,      \* nothing stored under a key / a nil result
    KVCanFail,     \* whether a store call may fail (store unreachable)
    UpdateUpserts  \* whether the store's Update writes a key that is absent

ASSUME Ctx \in [Clients -> [tenant: Tenants, admin: BOOLEAN]]
ASSUME KVCanFail \in BOOLEAN /\ UpdateUpserts \in BOOLEAN

Empty == ""   \* Go's zero string: "no change" in an update request

\* A volume document as stored by json.Marshal of model.VolumeSpec.
Doc == [id: VolIds, tenantId: Tenants,
        status: Statuses \cup {Empty}, groupId: Groups \cup {Empty}]

\* The etcd key /volumes/<tenant>/<id> (urls.GenerateVolumeURL, not under
\* src/, modelled from spec.md 4.1 and 6) as the pair <<tenant, id>>.
Key == Tenants \X VolIds

\* A *model.VolumeSpec passed to UpdateVolume: the fields it sets.
UpdateReq == [id: VolIds, status: Statuses \cup {Empty}, groupId: Groups \cup {Empty}]

Labels == {"Idle", "GV_scoped", "GV_scan", "UV_write", "DV_delete", "US_dispatch"}
Ops == {"Idle", "UpdateVolume", "VolumesToUpdate", "DeleteVolume", "UpdateVolumeStatus"}

VARIABLES
    store,     \* the etcd key space of volumes: Key -> Doc or NoRecord
    op,        \* op[c]: the directory operation c is running
    pc,        \* pc[c]: its next step
    args,      \* args[c]: the volumes still to work on (head = current); an
               \* id-only request for DeleteVolume, the status for UpdateVolumeStatus
    cur,       \* cur[c]: what GetVolume returned, NoRecord for (nil, err)
    cont,      \* cont[c]: the step GetVolume returns to
    seen,      \* seen[c]: the owners (TenantId) of the documents the last
               \* list call returned
    panicked   \* panicked[c]: c dereferenced a nil *VolumeSpec

vars == <<store, op, pc, args, cur, cont, seen, panicked>>
local == <<op, pc, args, cur, cont>>

TypeOK ==
    /\ store \in [Key -> Doc \cup {NoRecord}]
    /\ op \in [Clients -> Ops]
    /\ pc \in [Clients -> Labels]
    /\ args \in [Clients -> Seq(UpdateReq)]
    /\ cur \in [Clients -> Doc \cup {NoRecord}]
    /\ cont \in [Clients -> Labels]
    /\ seen \in [Clients -> SUBSET Tenants]
    /\ panicked \in [Clients -> BOOLEAN]
    /\ \A c \in Clients : pc[c] # "Idle" => args[c] # <<>>

(***************************************************************************)
(* Initial store: volumes created earlier by code outside src/ (the        *)
(* controller's CreateVolume), each stored under its owner's key with     *)
(* TenantId = that owner, as a create with ctx.TenantId writes it.        *)
(***************************************************************************)
Init ==
    /\ \E owner \in [VolIds -> Tenants \cup {NoRecord}],
          st \in [VolIds -> Statuses], gid \in [VolIds -> Groups \cup {Empty}] :
         store = [k \in Key |->
                    IF owner[k[2]] = k[1]
                    THEN [id |-> k[2], tenantId |-> k[1],
                          status |-> st[k[2]], groupId |-> gid[k[2]]]
                    ELSE NoRecord]
    /\ op = [c \in Clients |-> "Idle"]
    /\ pc = [c \in Clients |-> "Idle"]
    /\ args = [c \in Clients |-> <<>>]
    /\ cur = [c \in Clients |-> NoRecord]
    /\ cont = [c \in Clients |-> "Idle"]
    /\ seen = [c \in Clients |-> {}]
    /\ panicked = [c \in Clients |-> FALSE]

-----------------------------------------------------------------------------
(* Helpers translated from the code.                                        *)

\* IsAdminContext / AuthorizeProjectContext.
IsAdminContext(c) == Ctx[c].admin
AuthorizeProjectContext(c, tenantId) == Ctx[c].tenant = tenantId

\* The keys a ListVolumes request's prefix covers (mutant: admin prefix for all).
VisibleKeysAll(c) == Key

\* ListVolumes: /volumes/<ctx.TenantId>, or /volumes/ for an admin.
VisibleKeys(c) ==
    IF IsAdminContext(c) THEN Key ELSE {k \in Key : k[1] = Ctx[c].tenant}

ListVolumes(c) == {store[k] : k \in {k \in VisibleKeys(c) : store[k] # NoRecord}}

\* The documents of c's listing whose Id is the wanted one.
ScanById(c, id) == {d \in ListVolumes(c) : d.id = id}

\* GetVolume's fallback loop returns the first document with that Id; the
\* list order is etcd's key order, which CHOOSE stands for.
FirstMatch(c, id) ==
    IF ScanById(c, id) = {} THEN NoRecord ELSE CHOOSE d \in ScanById(c, id) : TRUE

\* UpdateVolume's merge: a non-empty field of the request overwrites.
MergeVolume(result, vol) ==
    [result EXCEPT !.status  = IF vol.status # Empty THEN vol.status ELSE @,
                   !.groupId = IF vol.groupId # Empty THEN vol.groupId ELSE @]

\* (mutant: the key built from the caller's tenant, as UpdateVolumeGroup does)
WriteKeyCtx(c, result, vol) == <<Ctx[c].tenant, vol.id>>

\* UpdateVolume writes /volumes/<result.TenantId>/<vol.Id>.
WriteKey(c, result, vol) == <<result.tenantId, vol.id>>

\* The volume the caller's current request is about.
Target(c) == Head(args[c]).id

\* The arguments of DeleteVolume(id) and UpdateVolumeStatus(id, s).
IdOnly(id) == [id |-> id, status |-> Empty, groupId |-> Empty]
WithStatus(id, s) == [id |-> id, status |-> s, groupId |-> Empty]

\* The TenantIds of a set of documents.
Owners(D) == {d.tenantId : d \in D}

\* The caller c returns from its directory operation.
Return(c) ==
    /\ op' = [op EXCEPT ![c] = "Idle"]
    /\ pc' = [pc EXCEPT ![c] = "Idle"]
    /\ args' = [args EXCEPT ![c] = <<>>]
    /\ cur' = [cur EXCEPT ![c] = NoRecord]
    /\ cont' = [cont EXCEPT ![c] = "Idle"]

\* Enter GetVolume(ctx, Target(c)); it resumes at step k.
CallGetVolume(c, k) ==
    /\ pc' = [pc EXCEPT ![c] = "GV_scoped"]
    /\ cont' = [cont EXCEPT ![c] = k]

-----------------------------------------------------------------------------
(* Starting an operation: the caller's arguments.                           *)

StartUpdateVolume(c, vol) ==
    /\ op[c] = "Idle"
    /\ op' = [op EXCEPT ![c] = "UpdateVolume"]
    /\ args' = [args EXCEPT ![c] = <<vol>>]
    /\ CallGetVolume(c, "UV_write")
    /\ UNCHANGED <<store, cur, seen, panicked>>

\* VolumesToUpdate: UpdateVolume on each element, stopping at the first error.
\* Its caller, UpdateStatus with a []*VolumeSpec, hands it volumes whose
\* status was set; the model passes two volumes and one new status.
StartVolumesToUpdate(c, vols) ==
    /\ op[c] = "Idle"
    /\ op' = [op EXCEPT ![c] = "VolumesToUpdate"]
    /\ args' = [args EXCEPT ![c] = vols]
    /\ CallGetVolume(c, "UV_write")
    /\ UNCHANGED <<store, cur, seen, panicked>>

\* DeleteVolume: an admin first resolves the owner with GetVolume.
StartDeleteVolume(c, id) ==
    /\ op[c] = "Idle"
    /\ op' = [op EXCEPT ![c] = "DeleteVolume"]
    /\ args' = [args EXCEPT ![c] = <<IdOnly(id)>>]
    /\ IF IsAdminContext(c)
       THEN CallGetVolume(c, "DV_delete")
       ELSE pc' = [pc EXCEPT ![c] = "DV_delete"] /\ UNCHANGED cont
    /\ UNCHANGED <<store, cur, seen, panicked>>

\* db.UpdateVolumeStatus: vol, _ := GetVolume(..); UpdateStatus(ctx, vol, s).
StartUpdateVolumeStatus(c, id, s) ==
    /\ op[c] = "Idle"
    /\ op' = [op EXCEPT ![c] = "UpdateVolumeStatus"]
    /\ args' = [args EXCEPT ![c] = <<WithStatus(id, s)>>]
    /\ CallGetVolume(c, "US_dispatch")
    /\ UNCHANGED <<store, cur, seen, panicked>>

-----------------------------------------------------------------------------
(* The steps.                                                               *)

\* getVolume: Get /volumes/<ctx.TenantId>/<id>.
GetScopedFound(c) ==
    LET k == <<Ctx[c].tenant, Target(c)>> IN
    /\ pc[c] = "GV_scoped"
    /\ store[k] # NoRecord
    /\ cur' = [cur EXCEPT ![c] = store[k]]
    /\ pc' = [pc EXCEPT ![c] = cont[c]]
    /\ UNCHANGED <<store, op, args, cont, seen, panicked>>

\* The Get fails (no such key, or the store reports an error): a non-admin
\* caller gets (nil, err) ...
GetScopedMissUser(c) ==
    LET k == <<Ctx[c].tenant, Target(c)>> IN
    /\ pc[c] = "GV_scoped"
    /\ store[k] = NoRecord \/ KVCanFail
    /\ ~IsAdminContext(c)
    /\ cur' = [cur EXCEPT ![c] = NoRecord]
    /\ pc' = [pc EXCEPT ![c] = cont[c]]
    /\ UNCHANGED <<store, op, args, cont, seen, panicked>>

\* ... and an admin falls back to listing every tenant's volumes.
GetScopedMissAdmin(c) ==
    LET k == <<Ctx[c].tenant, Target(c)>> IN
    /\ pc[c] = "GV_scoped"
    /\ store[k] = NoRecord \/ KVCanFail
    /\ IsAdminContext(c)
    /\ pc' = [pc EXCEPT ![c] = "GV_scan"]
    /\ UNCHANGED <<store, op, args, cur, cont, seen, panicked>>

\* GetVolume's fallback: ListVolumes, then the first document with that Id
\* (NoRecord when there is none or the List fails).
GetScan(c) ==
    /\ pc[c] = "GV_scan"
    /\ \/ cur' = [cur EXCEPT ![c] = FirstMatch(c, Target(c))]
       \/ KVCanFail /\ cur' = [cur EXCEPT ![c] = NoRecord]
    /\ pc' = [pc EXCEPT ![c] = cont[c]]
    /\ UNCHANGED <<store, op, args, cont, seen, panicked>>

\* (mutant: VolumesToUpdate's loop runs one element past the end)
UpdateWritePastEnd(c) ==
    LET vol == Head(args[c])
        result == MergeVolume(cur[c], vol)
        k == WriteKey(c, result, vol)
    IN
    /\ pc[c] = "UV_write"
    /\ cur[c] # NoRecord
    /\ IsAdminContext(c) \/ AuthorizeProjectContext(c, result.tenantId)
    /\ store[k] # NoRecord \/ UpdateUpserts
    /\ store' = [store EXCEPT ![k] = result]
    /\ IF op[c] = "VolumesToUpdate"
       THEN /\ args' = [args EXCEPT ![c] = Tail(@)]
            /\ CallGetVolume(c, "UV_write")
            /\ UNCHANGED <<op, cur>>
       ELSE Return(c)
    /\ UNCHANGED <<seen, panicked>>

\* (mutant: VolumesToUpdate goes on without moving to the next element)
UpdateWriteNoAdvance(c) ==
    LET vol == Head(args[c])
        result == MergeVolume(cur[c], vol)
        k == WriteKey(c, result, vol)
    IN
    /\ pc[c] = "UV_write"
    /\ cur[c] # NoRecord
    /\ IsAdminContext(c) \/ AuthorizeProjectContext(c, result.tenantId)
    /\ store[k] # NoRecord \/ UpdateUpserts
    /\ store' = [store EXCEPT ![k] = result]
    /\ IF Len(args[c]) > 1
       THEN /\ CallGetVolume(c, "UV_write")
            /\ UNCHANGED <<op, cur, args>>
       ELSE Return(c)
    /\ UNCHANGED <<seen, panicked>>

\* UpdateVolume after its GetVolume, successful write: merge, permission
\* check, Update of the key.  VolumesToUpdate goes on with the next element.
UpdateWrite(c) ==
    LET vol == Head(args[c])
        result == MergeVolume(cur[c], vol)
        k == WriteKey(c, result, vol)
    IN
    /\ pc[c] = "UV_write"
    /\ cur[c] # NoRecord
    /\ IsAdminContext(c) \/ AuthorizeProjectContext(c, result.tenantId)
    /\ store[k] # NoRecord \/ UpdateUpserts
    /\ store' = [store EXCEPT ![k] = result]
    /\ IF Len(args[c]) > 1
       THEN /\ args' = [args EXCEPT ![c] = Tail(@)]
            /\ CallGetVolume(c, "UV_write")
            /\ UNCHANGED <<op, cur>>
       ELSE Return(c)
    /\ UNCHANGED <<seen, panicked>>

\* UpdateVolume returns an error: GetVolume failed, the caller does not own
\* the volume, or the store's Update failed.  VolumesToUpdate stops.
UpdateFail(c) ==
    LET vol == Head(args[c])
        result == MergeVolume(cur[c], vol)
        k == WriteKey(c, result, vol)
    IN
    /\ pc[c] = "UV_write"
    /\ \/ cur[c] = NoRecord
       \/ /\ cur[c] # NoRecord
          /\ \/ ~IsAdminContext(c) /\ ~AuthorizeProjectContext(c, result.tenantId)
             \/ KVCanFail
             \/ store[k] = NoRecord /\ ~UpdateUpserts
    /\ Return(c)
    /\ UNCHANGED <<store, seen, panicked>>

\* DeleteVolume's Delete of /volumes/<tenantId>/<id>; tenantId is the
\* caller's, or for an admin the owner GetVolume found (an admin whose
\* GetVolume failed returns that error).  Deleting an absent key succeeds.
DeleteStep(c) ==
    LET resolved == ~(IsAdminContext(c) /\ cur[c] = NoRecord)
        tenantId == IF IsAdminContext(c) THEN cur[c].tenantId ELSE Ctx[c].tenant
    IN
    /\ pc[c] = "DV_delete"
    /\ \/ ~resolved /\ UNCHANGED store
       \/ resolved /\ KVCanFail /\ UNCHANGED store
       \/ resolved /\ store' = [store EXCEPT ![<<tenantId, Target(c)>>] = NoRecord]
    /\ Return(c)
    /\ UNCHANGED <<seen, panicked>>

\* UpdateStatus(ctx, vol, status) with vol of type *VolumeSpec: sets
\* vol.Status and calls UpdateVolume(ctx, vol) with the whole document it
\* read.  A nil vol (GetVolume failed) is still a *VolumeSpec, so the type
\* switch takes this case and the assignment dereferences nil; the caller's
\* request fails there (recovered by the server) and the others go on.
StatusDispatch(c) ==
    /\ pc[c] = "US_dispatch"
    /\ \/ /\ cur[c] = NoRecord
          /\ panicked' = [panicked EXCEPT ![c] = TRUE]
          /\ Return(c)
       \/ /\ cur[c] # NoRecord
          /\ args' = [args EXCEPT ![c] =
                        <<[id |-> cur[c].id, status |-> Head(args[c]).status,
                           groupId |-> cur[c].groupId]>>]
          /\ CallGetVolume(c, "UV_write")
          /\ UNCHANGED <<op, cur, panicked>>
    /\ UNCHANGED <<store, seen>>

\* ListVolumes and ListVolumesByGroupId (all volumes, then those of group
\* g): one List of the caller's prefix; a failed List returns nothing.
ListStep(c) ==
    /\ op[c] = "Idle"
    /\ \/ seen' = [seen EXCEPT ![c] = Owners(ListVolumes(c))]
       \/ \E g \in Groups :
            seen' = [seen EXCEPT ![c] = Owners({d \in ListVolumes(c) : d.groupId = g})]
       \/ KVCanFail /\ seen' = [seen EXCEPT ![c] = {}]
    /\ UNCHANGED <<store, local, panicked>>

-----------------------------------------------------------------------------
Next ==
    \E c \in Clients :
        \/ \E vol \in UpdateReq : StartUpdateVolume(c, vol)
        \/ \E i1, i2 \in VolIds, s \in Statuses :
              StartVolumesToUpdate(c, <<WithStatus(i1, s), WithStatus(i2, s)>>)
        \/ \E id \in VolIds : StartDeleteVolume(c, id)
        \/ \E id \in VolIds, s \in Statuses : StartUpdateVolumeStatus(c, id, s)
        \/ GetScopedFound(c) \/ GetScopedMissUser(c) \/ GetScopedMissAdmin(c)
        \/ GetScan(c)
        \/ UpdateWrite(c) \/ UpdateFail(c)
        \/ DeleteStep(c)
        \/ StatusDispatch(c)
        \/ ListStep(c)

Spec == Init /\ [][Next]_vars

\* The steps of a call in progress.  Once a request is being served, its
\* goroutine keeps running (no lock, no wait on another caller), and each
\* store call returns a result or an error (spec.md 5: any timeout is the
\* store adapter's).  Starting a call is the caller's choice: not fair.
CallStep(c) ==
    \/ GetScopedFound(c) \/ GetScopedMissUser(c) \/ GetScopedMissAdmin(c)
    \/ GetScan(c)
    \/ UpdateWrite(c) \/ UpdateFail(c)
    \/ DeleteStep(c)
    \/ StatusDispatch(c)

FairSpec == Spec /\ \A c \in Clients : WF_vars(CallStep(c))

-----------------------------------------------------------------------------
(* Properties.                                                              *)

\* Tenant isolation of reads (spec.md 8): a list call of a non-admin caller
\* (ListVolumes, ListVolumesByGroupId) never returns a volume whose TenantId
\* is another tenant's.  It rests on every writer keeping a document under
\* its owner's key, so it can break through UpdateVolume's or DeleteVolume's
\* choice of key as well as through ListVolumes's prefix.
ListTenantIsolation ==
    \A c \in Clients :
        ~IsAdminContext(c) => seen[c] \subseteq {Ctx[c].tenant}

\* Key discipline of the volume writers: a document is stored only under
\* /volumes/<its TenantId>/<its Id>, so an id has at most one document.
\* UpdateVolume (key from the document it read, line 636) and DeleteVolume
\* (owner resolved by an admin's GetVolume, lines 651-661) keep it even when
\* an admin reaches another tenant's volume through GetVolume's fallback.
VolumeKeyedByOwner ==
    /\ \A k \in Key : store[k] # NoRecord =>
                        store[k].tenantId = k[1] /\ store[k].id = k[2]
    /\ \A id \in VolIds, t, u \in Tenants :
          store[<<t, id>>] # NoRecord /\ store[<<u, id>>] # NoRecord => t = u

\* Every directory call returns: the GetVolume fallback scan, the
\* UpdateStatus -> UpdateVolume dispatch and VolumesToUpdate's loop over
\* its list (one GetVolume and one Update per element) all come to an end,
\* whatever the other callers do to the store meanwhile.
CallsReturn == \A c \in Clients : op[c] # "Idle" ~> op[c] = "Idle"

\* UpdateVolumeStatus (db.go) never dereferences the nil volume that
\* GetVolume returns when the volume is missing or the store fails.
NoNilDereference == \A c \in Clients : ~panicked[c]

\* The directory as the abstract lifecycle sees it: the document stored
\* for an id under whichever tenant holds it.
VolumesView ==
    [id \in VolIds |->
        IF \E t \in Tenants : store[<<t, id>>] # NoRecord
        THEN store[<<CHOOSE t \in Tenants : store[<<t, id>>] # NoRecord, id>>]
        ELSE NoRecord]

Abs == INSTANCE VolumeLifecycle WITH vols <- VolumesView

\* Refinement: under every interleaving of admin and tenant callers'
\* UpdateVolume, VolumesToUpdate, UpdateVolumeStatus and DeleteVolume, the
\* store behaves as the lifecycle of VolumeLifecycle: an id is held under
\* one owner, the owner never changes, a deleted volume never comes back.
VolumeLifecycleSpec == Abs!Spec
=============================================================================
