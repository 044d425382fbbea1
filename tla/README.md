# TLA+ models of the dock resource directory and NetApp drivers

This directory holds TLA+ models of the Go code under `src/`, checked with TLC:
- the etcd-backed resource directory (`src/pkg/db/drivers/etcd/etcd.go`);
- the `db` package helpers (`src/pkg/db/db.go`);
- the NetApp E-Series SAN driver and the ONTAP NAS driver
  (`src/contrib/drivers/...`).

Every definition is translated from the code at the lines that
`PROJECT.json` ("map") gives for it. A few helpers are not under `src/`: the
KV adapter, the URL builder and the `utils` list helpers. These are modelled
from `spec.md` and marked `spec_modelled`.

## The system and how its parts interact

- **Resource directory** (`etcd.go`, type `Client`). It stores JSON documents
  under keys such as `/docks/<id>`, `/pools/<id>`, `/volumes/<tenant>/<id>` and
  `/volume_groups/<tenant>/<id>`. It reaches the store through a KV adapter
  whose `Create`, `Get`, `List`, `Update` and `Delete` each succeed or fail.
  - Docks and pools are global.
  - Volumes and volume groups are tenant scoped.
  - An admin caller's `GetVolume` falls back to scanning every tenant's volumes.
  - Updates are read-merge-write sequences of two store calls, with no
    revision check between them.
- **List query engine** (`GetLimit`, `GetOffset`, `GetSortDir`, `GetSortKey`,
  `FilterAndSort`, `ParameterFilter`, `filterByName`). This is the paging,
  sorting and filtering of the `List*WithFilter` calls.
- **db helpers** (`UpdateVolumeStatus`, `UpdateVolumeGroupStatus`). Each is a
  Get followed by `UpdateStatus` on the result.
- **NetApp drivers**. Each wraps a third-party storage driver. `Setup` parses
  a config file and Initializes the wrapped driver under a deferred
  `recover()`. `ListPools` turns the array's pools or aggregates into
  `StoragePoolSpec` records. Create and extend turn a size in GiB into bytes.
  The dock calls the drivers, and pool records reach the directory through
  `CreatePool`.

Many callers (API handlers, the dock) use one directory client at once. The
code takes no locks, so any two callers' store calls may interleave.

## Modules

| Module | Models | State | Actions |
|---|---|---|---|
| `VolumeLifecycle` | spec.md 4.6: the promised volume lifecycle | `vols` | `Update`, `Delete` |
| `VolumeDirectory` | volumes: `GetVolume`/`getVolume`, `ListVolumes`, `ListVolumesByGroupId`, `UpdateVolume`, `DeleteVolume`, `UpdateStatus`, `VolumesToUpdate`, `db.UpdateVolumeStatus` | `store` (key → document), per caller `op`, `pc`, `args`, `cur`, `cont`, `seen`, `panicked` | one action per store call of each operation (`GetScoped*`, `GetScan`, `UpdateWrite`/`UpdateFail`, `DeleteStep`, `StatusDispatch`, `ListStep`, `Start*`) |
| `ListQuery` | the list query engine, as pure operators | `src`, `params` (chosen in `Init`, never changed) | none: `Next` stutters |
| `DockPool` | docks and pools: `CreateDock`/`CreatePool`, `UpdateDock`/`UpdatePool`, `DeleteDock`/`DeletePool`, `GetDockByPoolId` | `store[family][id]`, `now` (time.Now()), per caller `pc`, `fam`, `req`, `cur` and `ret` (the dock `GetDockByPoolId` returned) | `CreateDock`, `CreatePool`, `UpdateGet` → `UpdateWrite`, `DeleteRecord`, `ByPoolGetPool` (`GetPool`) → `ByPoolListDocks` (`ListDocks`, the scan `DockOfPool`) |
| `VolumeGroup` | groups: `CreateVolumeGroup`, `GetVolumeGroup`, `UpdateVolumeGroup`, `UpdateStatus`, `db.UpdateVolumeGroupStatus` | `store`, per caller `pc`, `req`, `cur`, `panicked` | `CreateVolumeGroup`, `StartUpdateVolumeGroup`, `UpdateVolumeGroupStatus`, `StatusDispatch`, `UpdateGet`, `UpdateWrite` |
| `NetAppDriver` | both NetApp drivers: `Setup`, `Unset`, `ListPools`; E-Series `CreateVolume`, `DeleteVolume`, `ExtendVolume`, `CreateSnapshot`, `DeleteSnapshot`, `InitializeConnection`, `TerminateConnection`; ONTAP `CreateFileShare`, `DeleteFileShare`, `CreateFileShareSnapshot`, `DeleteFileShareSnapshot` | per driver `setup` (Setup's result), `drv` (wrapped driver: nil / created / ready / unset), `panicked`, `pools` (last ListPools result), `sent` (size handed over), `array` (the backend's volumes and snapshots: name, the volume a snapshot is of, the request id that made it); `meta` / `snapMeta` (the `KFileshareName` / `KFileshareSnapName` metadata the dock holds for each share and share snapshot); `published` (E-Series host mappings) | one action per driver call, `ListPools` with `NasCommitmentFails` |

The `MC_*.tla` modules give the constants model values:
- `MC_VolumeDirectory`: callers `admin` and `user`, both of tenant t1.
- `MC_VolumeGroup`: callers `a` and `b`.
- `MC_DockPool`: callers `c1`, `c2` and id `i1`.
- `MC_ListQuery`: every list of at most three pools, and queries built from a
  few values of each parameter.
- `MC_NetAppDriver`: each config names pool `p1`; the arrays report `p1` and
  `p2` with FreeSpace values that parse, wrap or fail to parse. Requests have
  ids `"r1"`, `"r2"` (snapshots `"s1"`) and one display name `"n"`, so two
  resources share a name; one host `h1`.

How the modules translate the code:
- **A store call is one atomic step.** The adapter serialises each call. Where
  the code makes two calls (Get, then Update), the model has two steps, and
  other callers may step between them.
- **Failures are disjuncts.** A store call that may fail (`KVCanFail`) has a
  failure disjunct, which returns the error as the code does.
- **Adapter semantics are constants.** `UpdateUpserts` (VolumeDirectory) and
  `CreateOnExisting`/`UpdateOnAbsent` (DockPool) set how the adapter's Create
  and Update treat an existing or absent key. The adapter is not under `src/`,
  so both behaviours are allowed.
- **Timestamps.** `time.Now()` formatted with `constants.TimeFormat` has
  one-second resolution. `Tick` returns the same second as the last call or
  the next one, up to `MaxClock`.
- **Driver integers are scaled.** An int64/uint64 is `Width` bits and
  `bytesGiB` is `2^GiBShift`, so overflow happens at the same ratios as in the
  code. `Int64`/`Uint64` are the two's-complement conversions, and `ParseUint`
  rejects non-numerals and values of `Width` bits or more.
- **Backend names.** E-Series names an array volume `getVolumeName(id)`
  (`"opensds_"` and the id); ONTAP names a filer volume by the share's display
  name and records it as `KFileshareName` metadata only when Create succeeded.
  The third-party `Create` refuses a name the backend holds; `Destroy(n)`
  removes the volume named n with its snapshots and host mappings, or fails.
  Snapshots are named `getSnapshotName(id)` on E-Series and by their display
  name on ONTAP, within their volume. A delete may be issued again later
  (a retry after a lost reply, a duplicate request), which the model allows
  by letting any delete be taken at any time.
- **What a third-party call returns beside an error.** ONTAP's ListPools drops
  `AggregateCommitment`'s error. What the client returns with it is not
  under `src/`, so `NasCommitmentFails` takes either a nil pointer (the field
  read panics) or a zero value (an empty pool).

## Runs

| Run | Cfg | Expect | What it shows |
|---|---|---|---|
| volume_directory | `MC_VolumeDirectory.cfg` | pass | Admin and tenant callers interleave every volume operation, with store failures. No volume is ever stored under a key whose tenant is not its owner (`VolumeKeyedByOwner`); a tenant never lists another tenant's volume (`ListTenantIsolation`); and under weak fairness of calls in progress every call returns (`CallsReturn`), including `VolumesToUpdate`'s loop and the scan. |
| volume_update_resurrects | `MC_VolumeResurrect.cfg` | violation | `VolumeDirectory` does not implement `VolumeLifecycle`: an `UpdateVolume` that read a volume before a concurrent `DeleteVolume` writes it back. |
| volume_status_nil | `MC_VolumeStatusNil.cfg` | violation | `UpdateVolumeStatus` passes a nil volume to `UpdateStatus`, which dereferences it. |
| list_query | `MC_ListQuery.cfg` | pass | Over every small list and query: the offset and limit bounds of `FilterAndSort`'s page (`PaginationBounds`), and `ParameterFilter`'s window, which lies within the list (`TypeOK`) and selects the same records as the page (`PagingAgrees`). |
| dock_pool | `MC_DockPool.cfg` | pass | Every dock and pool stays under its own Id, under every interleaving, store failure and adapter semantics (`KeyMatchesId`); an update never writes a record it failed to read (`TypeOK`). |
| dock_created_at | `MC_DockCreatedAt.cfg` | violation | A stale `UpdateDock` overwrites the CreatedAt of a dock that was re-created meanwhile. |
| volume_group | `MC_VolumeGroup.cfg` | pass | Every step keeps the state well formed; in particular an update never writes a group it failed to read (`TypeOK`). |
| vg_update_clears_status | `MC_VG_UpdateKeepsStatus.cfg` | violation | An update with no Status clears the stored Status. |
| netapp_driver | `MC_NetAppDriver.cfg` | pass | For every array answer, the E-Series ListPools lists exactly the configured pools, and aborts the whole list when one of their FreeSpace values does not parse (spec.md 7). An E-Series `DeleteVolume` or `DeleteSnapshot`, repeated at any later time, destroys only its own id's volume (with its snapshots) or snapshot (`DeleteRemovesOwn`). |
| san_pool_record | `MC_Drv_PoolRecord.cfg` | violation | The first E-Series pool record ListPools returns has FreeCapacity 25 and TotalCapacity 2 (`PoolCapacityWithinTotal`). |
| nas_share_delete | `MC_Drv_ShareDelete.cfg` | violation | Create share r1 named n, delete it, create share r2 named n, repeat r1's delete: r2's filer volume is destroyed (`ShareDeleteRemovesOwn`, which covers share snapshots too). |
| setup_panic | `MC_Drv_SetupPanic.cfg` | violation | A recovered Initialize panic makes Setup return nil, and the next `ListPools`, through the API client that was never set up, panics. |

Every property in a passing run has a mutant (`PROJECT.json`, "mutants"): a
plausible bug in the mapped definition, which TLC catches with that run's own
cfg. Some examples:
- a VolumesToUpdate loop that runs one element past the end;
- writing the volume under the caller's tenant instead of the owner's;
- listing without the tenant filter;
- dropping the DefaultLimit sentinel;
- marshalling the dock body before its Id is filled in;
- not checking GetDock's error;
- skipping a pool whose FreeSpace does not parse;
- naming E-Series array volumes by the display name instead of the id;
- a `VolumesToUpdate` loop that never advances.

### Findings

Each violation run is a disagreement between the code and `spec.md` or the
code's own intent:
1. **Resurrection** (`etcd.go:640`). `UpdateVolume`'s read and write are not
   atomic. With a Put-like Update, a volume deleted in between comes back.
   spec.md 4.6 allows only absent → created → updated* → deleted.
2. **Nil dereference** (`db.go:96`, and the same at `db.go:101` for groups).
   The helpers discard the Get error.
3. **CreatedAt rewritten** (`etcd.go:362`, likewise `UpdatePool` at 493).
   Pool ids are derived with `uuid.NewV5` from array names, so the same id is
   created again after a delete.
4. **Status cleared** (`etcd.go:761`). The test reads `vg.Status != ""`
   where `vgUpdate.Status != ""` is meant.
5. **Free above total** (`eseries_san.go:396`). TotalCapacity is FreeSpace
   / 10 and FreeCapacity is FreeSpace, so free is ten times total.
6. **Setup returns nil after a panic** (`eseries_san.go:98`; ONTAP at
   `ontap_nas.go:66`). The trace is Setup, whose Initialize panics, then
   `ListPools`, whose `GetVolumePools` goes through the API client.
   `Unset` only calls `Terminate()` on the wrapped driver and is not
   modelled as panicking.
7. **Share delete by name** (`ontap_nas.go:219`). spec.md 3 makes the id,
   not the name, a resource's identity; ONTAP destroys by the name, so a
   repeated delete hits a later share of the same name; share snapshots are
   deleted by display name the same way (`ontap_nas.go:269`). E-Series,
   which names volumes and snapshots by id, passes the same check
   (`DeleteRemovesOwn`).

These further disagreements were seen while modelling. They are recorded as
hazards and have no violation run:
- `GetOffset` answers an unparsable offset with the list size where spec.md
  4.4 says 0 (`etcd.go:147`).
- `filterByName` keeps a record when the filter names a field the record lacks
  (`etcd.go:683`).
- E-Series `ListPools` looks the StorageType up by drive media type, not by
  the pool label it filtered on (`eseries_san.go:405`), so every configured
  pool gets the empty StorageType.
- `utils.Filter` (modelled from spec.md 4.4 as `Keep`) matches a filter key
  to a field name ignoring case, as `etcd_test.go` expects of
  `"storageType"`; spec.md 4.4 says the match is case-sensitive.
- `CreateVolumeGroup` assigns no Id or CreatedAt (`etcd.go:707`).
- ONTAP's FreeCapacity goes negative for overcommitted aggregates
  (`ontap_nas.go:197`).
- `size*bytesGiB` wraps int64 (`eseries_san.go:61`).
- E-Series `TerminateConnection` never unpublishes: it checks that the volume
  exists and returns nil, so a detached host keeps its mapping
  (`eseries_san.go:313`).
- ONTAP `ListPools` panics when `AggregateCommitment` fails and the client
  returns nil with the error (`ontap_nas.go:187`). TLC reaches it in two steps
  and `SetupNilMeansUsable` rejects it. `setup_panic` turns it off
  (`CommitmentCanFail = FALSE`) so that its trace shows the Setup defect.
## Bounds and why they are enough

- **Two callers.** Every hazard here involves a read-then-write of one caller
  and one intervening write of another, so two callers suffice.
- **One record id per family.** Keys never interact across ids: each
  operation touches one key, except GetVolume's scan and the list calls. So
  one id shows every collision. Two tenants let the admin fallback and tenant
  isolation be tested.
- **Clock.** `MaxClock = 3` allows a create, a re-create in a later second and
  an update.
- **List query.** Lists of up to three records cover empty, single and
  reordered pages. `DefaultLimit = 2` stands in for 50, the sentinel in its
  role as "no limit". Numerals -1..1 plus a non-numeral cover every branch of
  `GetLimit` and `GetOffset`.
- **Driver integers.** `Width = 8` and `GiBShift = 3` keep the overflow ratios
  while staying within TLC's integers. FreeSpace values 0, 25, 200 (wraps
  int64), 300 (too wide for ParseUint) and a non-numeral cover every branch;
  the pass run keeps 200 and a non-numeral (a parse and a failure), since
  the pool answers multiply every backend state.

- **Requests.** Two ids and one name: the least that lets two resources
  share a display name. One snapshot id and one host show a snapshot of
  either volume and an attachment. `Sizes = {15}` in the driver pass run
  (120 bytes, just inside int64 at Width 8), since the size does not affect
  names.

The pass runs reach from about 400,000 (drivers) and 747,000 (volumes) to
about 1.3 million (volume groups) and 2.5 million (docks and pools) distinct states, in about two minutes or less each.

## Fairness

`volume_directory` checks `FairSpec`: `Spec` with weak fairness of
`CallStep(c)`, the steps of a call caller c has in progress. The code takes
no locks and waits on no other caller, and spec.md 5 puts any store timeout
in the adapter, so a store call always returns a result or an error: a
running goroutine keeps being scheduled. Starting a call is the client's
choice and is not fair. Under this, `CallsReturn` says every call returns;
it would fail for a loop that never advances (the `VolumesToUpdate` mutant).
The other runs check safety only.
The drivers' cfgs say `CHECK_DEADLOCK FALSE`: a driver whose Setup failed, or
that panicked, is never called again, so the system really stops there. The
other runs check deadlock.

## What is not modelled

- **KV adapter, URL builder, `utils`.** These are not under `src/`; they are
  used as spec.md describes them (see "spec_modelled" in the map).
- **Driver calls that do nothing.** PullVolume, PullSnapshot, the snapshot
  connections, the E-Series volume-group calls and the ONTAP ACL calls only
  return `NotImplementError`. The clone source of `createVolumeFromSnapshot`
  comes from the caller's metadata, which is not under `src/`; the clone is
  modelled as the create of `getVolumeName(id)`.
- **`db.Init`, configuration and constant declarations.** `Init` only
  picks the etcd client (for any other driver name it leaves `C` nil, which
  the model's single client does not represent). The declarations have no
  behaviour; their values appear as constants.
- **`testutils/db/fake.go` and `etcd_test.go`.** These are a test double and
  tests.
- **JSON marshalling.** The documents are records of the fields the
  properties read. Marshalling the fixed structs cannot fail, so it is left
  out.

## Plan for later work

- A volume-snapshot and attachment family, if those directory calls come
  under `src/`.
- Properties for the hazards that still have only notes: `size*bytesGiB`
  wrapping, TerminateConnection's missing unpublish, the E-Series storage-type
  lookup, `UpdateVolumeGroupStatus`'s nil dereference and `CreateVolumeGroup`'s
  empty id. Each is a violation and needs a run of its own.
