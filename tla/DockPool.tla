------------------------------ MODULE DockPool ------------------------------
(***************************************************************************)
(* The dock and pool families of the etcd directory client                 *)
(* (src/pkg/db/drivers/etcd/etcd.go: CreateDock, GetDock, GetDockByPoolId, *)
(* ListDocks, ListDocksWithFilter, UpdateDock, DeleteDock, CreatePool,      *)
(* ListPoolsWithFilter, GetPool, ListPools, UpdatePool, DeletePool), run by *)
(* several callers at once against one store.  Docks and pools are not     *)
(* tenant scoped: their keys are /docks/<id> and /pools/<id>.              *)
(*                                                                         *)
(* Each store call is one atomic step.  time.Now() formatted with          *)
(* constants.TimeFormat has one-second resolution: a call returns the      *)
(* second the last call returned or a later one.  A caller may supply the id (the drivers      *)
(* derive pool ids with uuid.NewV5 from the array's name, so the same id   *)
(* is created again after a delete) or leave it empty (uuid.NewV4: an id   *)
(* no record holds).                                                       *)
(***************************************************************************)
EXTENDS Naturals, FiniteSets

CONSTANTS
    Clients,           \* concurrent callers
    Ids,               \* record ids (of docks and of pools)
    Names,             \* non-empty names callers set
    NoRecord,          \* nothing stored under a key / a nil result
    KVCanFail,         \* whether a store call may fail
    CreateOnExisting,  \* what the store's Create may do with a key that exists
    UpdateOnAbsent,    \* what the store's Update may do with a key that is absent
    MaxClock           \* bound on time.Now()

\* The KV adapter is not under src/: its Create on an existing key may
\* overwrite it (a Put) or fail, its Update on an absent key may write it
\* (a Put) or fail; a configuration allows either or both.
ASSUME /\ KVCanFail \in BOOLEAN /\ MaxClock \in Nat
       /\ CreateOnExisting \subseteq {"overwrite", "fail"} /\ CreateOnExisting # {}
       /\ UpdateOnAbsent \subseteq {"write", "fail"} /\ UpdateOnAbsent # {}

Empty == ""
Unset == 0      \* a timestamp never set: the empty string in the code
Families == {"docks", "pools"}

\* A model.DockSpec or model.StoragePoolSpec reduced to the fields the
\* properties read; a dock's dockId is Empty.
Rec == [id: Ids \cup {Empty}, name: Names \cup {Empty}, dockId: Ids \cup {Empty},
        createdAt: 0..MaxClock, updatedAt: 0..MaxClock]

Labels == {"Idle", "Update_write", "ByPool_list"}

VARIABLES
    store,  \* store[f][id]: the record under /<f>/<id>, or NoRecord
    now,    \* the last value time.Now() returned
    pc,     \* pc[c]: the next step of caller c
    fam,    \* fam[c]: the family c's update works on
    req,    \* req[c]: the id and name c's update was called with
    cur,    \* cur[c]: the record c read (GetDock / GetPool), or NoRecord
    ret     \* ret[c]: the dock c's last GetDockByPoolId returned, or NoRecord

vars == <<store, now, pc, fam, req, cur, ret>>

TypeOK ==
    /\ store \in [Families -> [Ids -> Rec \cup {NoRecord}]]
    /\ now \in 1..MaxClock
    /\ pc \in [Clients -> Labels]
    /\ fam \in [Clients -> Families]
    /\ req \in [Clients -> [id: Ids, name: Names \cup {Empty}]]
    /\ cur \in [Clients -> Rec \cup {NoRecord}]
    /\ ret \in [Clients -> Rec \cup {NoRecord}]
    /\ \A c \in Clients : pc[c] = "Update_write" => cur[c] \in Rec

Init ==
    /\ store = [f \in Families |-> [id \in Ids |-> NoRecord]]
    /\ now = 1
    /\ pc = [c \in Clients |-> "Idle"]
    /\ fam = [c \in Clients |-> "docks"]
    /\ req = [c \in Clients |-> [id |-> CHOOSE id \in Ids : TRUE, name |-> Empty]]
    /\ cur = [c \in Clients |-> NoRecord]
    /\ ret = [c \in Clients |-> NoRecord]

-----------------------------------------------------------------------------
(* Helpers translated from the code.                                        *)

\* GetDock / GetPool: Get /<f>/<id>; NoRecord when absent.
GetRecord(f, id) == store[f][id]

GetPool(id) == GetRecord("pools", id)

\* ListDocks: List /docks; every stored dock, in no particular order.
ListDocks == {store["docks"][id] : id \in {i \in Ids : store["docks"][i] # NoRecord}}

\* (mutant: the body marshalled before the generated id is filled in)
CreateStoredLate(rec, id, t) == [rec EXCEPT !.createdAt = t]

\* The body CreateDock / CreatePool marshal: Id and CreatedAt filled in.
CreateStored(rec, id, t) == [rec EXCEPT !.id = id, !.createdAt = t]

\* time.Now(): the same second as the last call or the next one.
Tick == now' \in {t \in {now, now + 1} : t <= MaxClock}

\* CreateDock / CreatePool: fill in an empty Id (uuid.NewV4) and an empty
\* CreatedAt (time.Now()), then Create /<f>/<Id>.  With an existing key the
\* store's Create overwrites or fails; any Create may fail.
CreateRecord(f, rec) ==
    /\ Tick
    /\ \E id \in IF rec.id = Empty THEN {i \in Ids : store[f][i] = NoRecord}
                                   ELSE {rec.id} :
         \/ /\ store[f][id] = NoRecord \/ "overwrite" \in CreateOnExisting
            /\ store' = [store EXCEPT ![f][id] = CreateStored(rec, id, now')]
         \/ /\ store[f][id] # NoRecord /\ "fail" \in CreateOnExisting
            /\ UNCHANGED store
         \/ KVCanFail /\ UNCHANGED store

-----------------------------------------------------------------------------
(* The operations.                                                          *)

CreateDock(c, id, name) ==
    /\ pc[c] = "Idle"
    /\ CreateRecord("docks", [id |-> id, name |-> name, dockId |-> Empty,
                              createdAt |-> Unset, updatedAt |-> Unset])
    /\ UNCHANGED <<pc, fam, req, cur, ret>>

CreatePool(c, id, dockId, name) ==
    /\ pc[c] = "Idle"
    /\ CreateRecord("pools", [id |-> id, name |-> name, dockId |-> dockId,
                              createdAt |-> Unset, updatedAt |-> Unset])
    /\ UNCHANGED <<pc, fam, req, cur, ret>>

\* (mutant: GetDock's error not checked before the merge)
UpdateGetNoCheck(c, f, id, name) ==
    /\ pc[c] = "Idle"
    /\ pc' = [pc EXCEPT ![c] = "Update_write"]
    /\ cur' = [cur EXCEPT ![c] = GetRecord(f, id)]
    /\ fam' = [fam EXCEPT ![c] = f]
    /\ req' = [req EXCEPT ![c] = [id |-> id, name |-> name]]
    /\ UNCHANGED <<store, now, ret>>

\* UpdateDock / UpdatePool, first step: GetDock / GetPool; an error returns.
UpdateGet(c, f, id, name) ==
    /\ pc[c] = "Idle"
    /\ \/ /\ GetRecord(f, id) # NoRecord
          /\ pc' = [pc EXCEPT ![c] = "Update_write"]
          /\ cur' = [cur EXCEPT ![c] = GetRecord(f, id)]
       \/ /\ GetRecord(f, id) = NoRecord \/ KVCanFail
          /\ UNCHANGED <<pc, cur>>
    /\ fam' = [fam EXCEPT ![c] = f]
    /\ req' = [req EXCEPT ![c] = [id |-> id, name |-> name]]
    /\ UNCHANGED <<store, now, ret>>

\* Second step: a non-empty name overwrites, UpdatedAt = time.Now(), then
\* Update /<f>/<id> with the whole record read in the first step.
UpdateWrite(c) ==
    LET f == fam[c]
        id == req[c].id
        rec == [cur[c] EXCEPT !.name = IF req[c].name # Empty THEN req[c].name ELSE @,
                              !.updatedAt = now']
    IN
    /\ pc[c] = "Update_write"
    /\ Tick
    /\ \/ /\ store[f][id] # NoRecord \/ "write" \in UpdateOnAbsent
          /\ store' = [store EXCEPT ![f][id] = rec]
       \/ /\ store[f][id] = NoRecord /\ "fail" \in UpdateOnAbsent
          /\ UNCHANGED store
       \/ KVCanFail /\ UNCHANGED store
    /\ pc' = [pc EXCEPT ![c] = "Idle"]
    /\ cur' = [cur EXCEPT ![c] = NoRecord]
    /\ UNCHANGED <<fam, req, ret>>

UpdateDock(c, id, name) == UpdateGet(c, "docks", id, name)

\* UpdatePool's usedCapacity and used arguments are not read by the code.
UpdatePool(c, id, name) == UpdateGet(c, "pools", id, name)

\* DeleteDock / DeletePool: Delete /<f>/<id>; an absent key is not an error.
DeleteRecord(c, f, id) ==
    /\ pc[c] = "Idle"
    /\ \/ store' = [store EXCEPT ![f][id] = NoRecord]
       \/ KVCanFail /\ UNCHANGED store
    /\ UNCHANGED <<now, pc, fam, req, cur, ret>>

DeleteDock(c, id) == DeleteRecord(c, "docks", id)
DeletePool(c, id) == DeleteRecord(c, "pools", id)

\* GetDockByPoolId, first step: GetPool; an error returns nil.  The pool
\* is kept for the second step.
ByPoolGetPool(c, pid) ==
    /\ pc[c] = "Idle"
    /\ \/ /\ GetPool(pid) # NoRecord
          /\ pc' = [pc EXCEPT ![c] = "ByPool_list"]
          /\ cur' = [cur EXCEPT ![c] = GetPool(pid)]
       \/ /\ GetPool(pid) = NoRecord \/ KVCanFail
          /\ UNCHANGED <<pc, cur>>
    /\ req' = [req EXCEPT ![c] = [id |-> pid, name |-> Empty]]
    /\ ret' = [ret EXCEPT ![c] = NoRecord]
    /\ UNCHANGED <<store, now, fam>>

\* The scan: the listed docks whose Id is the pool's DockId.
DockOfPool(pool, docks) == {d \in docks : d.id = pool.dockId}

\* Second step: ListDocks (an error returns nil) and the scan; the dock
\* found is returned, an error when there is none.  Nothing is stored.
ByPoolListDocks(c) ==
    LET found == DockOfPool(cur[c], ListDocks) IN
    /\ pc[c] = "ByPool_list"
    /\ \/ ret' = [ret EXCEPT ![c] = IF found = {} THEN NoRecord
                                                  ELSE CHOOSE d \in found : TRUE]
       \/ KVCanFail /\ ret' = [ret EXCEPT ![c] = NoRecord]
    /\ pc' = [pc EXCEPT ![c] = "Idle"]
    /\ cur' = [cur EXCEPT ![c] = NoRecord]
    /\ UNCHANGED <<store, now, fam, req>>

Next ==
    \E c \in Clients :
        \/ \E id \in Ids \cup {Empty}, n \in Names : CreateDock(c, id, n)
        \/ \E id \in Ids \cup {Empty}, d \in Ids, n \in Names : CreatePool(c, id, d, n)
        \/ \E id \in Ids, n \in Names \cup {Empty} : UpdateDock(c, id, n) \/ UpdatePool(c, id, n)
        \/ UpdateWrite(c)
        \/ \E id \in Ids : DeleteDock(c, id) \/ DeletePool(c, id)
        \/ \E pid \in Ids : ByPoolGetPool(c, pid)
        \/ ByPoolListDocks(c)

Spec == Init /\ [][Next]_vars

-----------------------------------------------------------------------------
(* Properties.                                                              *)

\* Every dock and pool is stored under its own Id: CreateDock / CreatePool
\* fill in a generated Id before they marshal the body and build the key,
\* and UpdateDock / UpdatePool write the record they read back to its key.
KeyMatchesId ==
    \A f \in Families, id \in Ids :
        store[f][id] # NoRecord => store[f][id].id = id

\* spec.md 3: CreatedAt is set exactly once, at creation, and never
\* mutated: while a dock or pool stays stored, no step changes its CreatedAt.
CreatedAtImmutable ==
    [][\A f \in Families, id \in Ids :
         store[f][id] # NoRecord /\ store'[f][id] # NoRecord
            => store'[f][id].createdAt = store[f][id].createdAt]_store

=============================================================================
