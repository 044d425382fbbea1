----------------------------- MODULE VolumeGroup -----------------------------
(***************************************************************************)
(* The volume group family of the etcd directory client                    *)
(* (src/pkg/db/drivers/etcd/etcd.go: CreateVolumeGroup, GetVolumeGroup,    *)
(* UpdateVolumeGroup, UpdateStatus on a *VolumeGroupSpec) and the helper    *)
(* UpdateVolumeGroupStatus of src/pkg/db/db.go, run by several callers at  *)
(* once.  Groups are tenant scoped: the key is                             *)
(* /volume_groups/<ctx.TenantId>/<id>, and every call builds it from the   *)
(* caller's tenant (there is no admin fallback for groups).                *)
(*                                                                         *)
(* Each store call is one atomic step.  No code here calls time.Now(): a   *)
(* timestamp is one the caller passed (Stamp) or the empty string (Unset). *)
(***************************************************************************)
EXTENDS Naturals, Sequences

CONSTANTS
    Tenants,     \* tenant ids
    Clients,     \* concurrent callers
    Ctx,         \* Ctx[c]: the caller's TenantId
    GroupIds,    \* non-empty group ids
    Statuses,    \* non-empty status strings
    NoRecord,    \* nothing stored / a nil result
    KVCanFail    \* whether a store call may fail

ASSUME Ctx \in [Clients -> Tenants] /\ KVCanFail \in BOOLEAN

Empty == ""
Unset == 0   \* an empty timestamp string
Stamp == 1   \* a timestamp a caller set

\* A model.VolumeGroupSpec reduced to the fields the properties read.
\* Name, AvailabilityZone, Description, PoolId and UpdatedAt, merged like
\* CreatedAt by UpdateVolumeGroup, are left out: no property reads them.
Group == [id: GroupIds \cup {Empty}, tenantId: Tenants \cup {Empty},
          status: Statuses \cup {Empty}, createdAt: {Unset, Stamp}]

Key == Tenants \X (GroupIds \cup {Empty})

Labels == {"Idle", "UVG_get", "UVG_write", "US_dispatch"}

VARIABLES
    store,     \* store[k]: the group under /volume_groups/<k[1]>/<k[2]>
    pc,        \* pc[c]: the next step of caller c
    req,       \* req[c]: the *VolumeGroupSpec c's update was called with
    cur,       \* cur[c]: what GetVolumeGroup returned, NoRecord for nil
    panicked   \* panicked[c]: c dereferenced a nil *VolumeGroupSpec

vars == <<store, pc, req, cur, panicked>>

TypeOK ==
    /\ store \in [Key -> Group \cup {NoRecord}]
    /\ pc \in [Clients -> Labels]
    /\ req \in [Clients -> Group]
    /\ cur \in [Clients -> Group \cup {NoRecord}]
    /\ \A c \in Clients : pc[c] = "UVG_write" => cur[c] \in Group
    /\ panicked \in [Clients -> BOOLEAN]

NoGroup == [id |-> Empty, tenantId |-> Empty, status |-> Empty, createdAt |-> Unset]

Init ==
    /\ store = [k \in Key |-> NoRecord]
    /\ pc = [c \in Clients |-> "Idle"]
    /\ req = [c \in Clients |-> NoGroup]
    /\ cur = [c \in Clients |-> NoRecord]
    /\ panicked = [c \in Clients |-> FALSE]

-----------------------------------------------------------------------------
(* Helpers translated from the code.                                        *)

\* GetVolumeGroup: Get /volume_groups/<ctx.TenantId>/<id>.
GetVolumeGroup(c, id) == store[<<Ctx[c], id>>]

\* UpdateVolumeGroup's merge.  Status is taken from the request whenever the
\* stored Status is non-empty and differs, an empty one included (line 761);
\* CreatedAt is copied from the request when it has one and it differs.
MergeGroup(vg, u) ==
    [vg EXCEPT !.status = IF vg.status # Empty /\ u.status # vg.status
                          THEN u.status ELSE @,
               !.createdAt = IF u.createdAt # Unset THEN u.createdAt ELSE @]

\* The body CreateVolumeGroup marshals: vg with TenantId = ctx.TenantId.
CreateBody(c, vg) == [vg EXCEPT !.tenantId = Ctx[c]]

Return(c) ==
    /\ pc' = [pc EXCEPT ![c] = "Idle"]
    /\ req' = [req EXCEPT ![c] = NoGroup]
    /\ cur' = [cur EXCEPT ![c] = NoRecord]

-----------------------------------------------------------------------------
(* The operations.                                                          *)

\* CreateVolumeGroup: TenantId = ctx.TenantId, then Create
\* /volume_groups/<ctx.TenantId>/<vg.Id>; neither Id nor CreatedAt is filled in.
CreateVolumeGroup(c, vg) ==
    LET k == <<Ctx[c], vg.id>> IN
    /\ pc[c] = "Idle"
    /\ \/ store' = [store EXCEPT ![k] = CreateBody(c, vg)]
       \/ KVCanFail /\ UNCHANGED store
    /\ UNCHANGED <<pc, req, cur, panicked>>

StartUpdateVolumeGroup(c, vgUpdate) ==
    /\ pc[c] = "Idle"
    /\ pc' = [pc EXCEPT ![c] = "UVG_get"]
    /\ req' = [req EXCEPT ![c] = vgUpdate]
    /\ UNCHANGED <<store, cur, panicked>>

\* db.UpdateVolumeGroupStatus: vg, _ := GetVolumeGroup(..), then UpdateStatus.
\* A failed Get returns a nil group, and the error is dropped.
UpdateVolumeGroupStatus(c, id, s) ==
    /\ pc[c] = "Idle"
    /\ pc' = [pc EXCEPT ![c] = "US_dispatch"]
    /\ \/ cur' = [cur EXCEPT ![c] = GetVolumeGroup(c, id)]
       \/ KVCanFail /\ cur' = [cur EXCEPT ![c] = NoRecord]
    /\ req' = [req EXCEPT ![c] = [NoGroup EXCEPT !.status = s]]
    /\ UNCHANGED <<store, panicked>>

\* UpdateStatus with a *VolumeGroupSpec: vg.Status = status dereferences a
\* nil vg; otherwise UpdateVolumeGroup(ctx, vg) with the group it read.
StatusDispatch(c) ==
    /\ pc[c] = "US_dispatch"
    /\ \/ /\ cur[c] = NoRecord
          /\ panicked' = [panicked EXCEPT ![c] = TRUE]
          /\ Return(c)
       \/ /\ cur[c] # NoRecord
          /\ pc' = [pc EXCEPT ![c] = "UVG_get"]
          /\ req' = [req EXCEPT ![c] = [cur[c] EXCEPT !.status = req[c].status]]
          /\ UNCHANGED <<cur, panicked>>
    /\ UNCHANGED store

\* (mutant: GetVolumeGroup's error not checked before the merge)
UpdateGetNoCheck(c) ==
    /\ pc[c] = "UVG_get"
    /\ pc' = [pc EXCEPT ![c] = "UVG_write"]
    /\ cur' = [cur EXCEPT ![c] = GetVolumeGroup(c, req[c].id)]
    /\ UNCHANGED <<store, req, panicked>>

\* UpdateVolumeGroup, first step: GetVolumeGroup(ctx, vgUpdate.Id).
UpdateGet(c) ==
    /\ pc[c] = "UVG_get"
    /\ \/ /\ GetVolumeGroup(c, req[c].id) # NoRecord
          /\ pc' = [pc EXCEPT ![c] = "UVG_write"]
          /\ cur' = [cur EXCEPT ![c] = GetVolumeGroup(c, req[c].id)]
          /\ UNCHANGED req
       \/ /\ GetVolumeGroup(c, req[c].id) = NoRecord \/ KVCanFail
          /\ Return(c)
    /\ UNCHANGED <<store, panicked>>

\* Second step: the merge, then Update /volume_groups/<ctx.TenantId>/<Id>.
UpdateWrite(c) ==
    LET k == <<Ctx[c], req[c].id>> IN
    /\ pc[c] = "UVG_write"
    /\ \/ store' = [store EXCEPT ![k] = MergeGroup(cur[c], req[c])]
       \/ KVCanFail /\ UNCHANGED store
    /\ Return(c)
    /\ UNCHANGED panicked

\* The requests callers send: a group id (or none, for a create), an
\* optional status, and CreatedAt / UpdatedAt set or not.
Requests ==
    {[id |-> id, tenantId |-> Empty, status |-> s, createdAt |-> t] :
        id \in GroupIds \cup {Empty}, s \in Statuses \cup {Empty},
        t \in {Unset, Stamp}}

Next ==
    \E c \in Clients :
        \/ \E vg \in Requests : CreateVolumeGroup(c, vg)
        \/ \E vg \in Requests : StartUpdateVolumeGroup(c, vg)
        \/ \E id \in GroupIds, s \in Statuses : UpdateVolumeGroupStatus(c, id, s)
        \/ StatusDispatch(c)
        \/ UpdateGet(c)
        \/ UpdateWrite(c)

Spec == Init /\ [][Next]_vars

-----------------------------------------------------------------------------
(* Properties.                                                              *)

\* spec.md 3 and 4.6: an update merges the non-empty fields of the request
\* and an empty field means "no change": when UpdateVolumeGroup writes, the
\* Status it stores is the request's if that is non-empty, else the one read.
UpdateKeepsStatus ==
    [][\A c \in Clients :
         pc[c] = "UVG_write" /\ pc'[c] = "Idle" /\ store' # store =>
            store'[<<Ctx[c], req[c].id>>].status =
                IF req[c].status # Empty THEN req[c].status ELSE cur[c].status]_vars
=============================================================================
