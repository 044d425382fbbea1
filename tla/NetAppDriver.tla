---------------------------- MODULE NetAppDriver ----------------------------
(***************************************************************************)
(* The two NetApp provisioning drivers: the E-Series SAN driver            *)
(* (src/contrib/drivers/netapp/eseries/eseries_san.go) and the ONTAP NAS   *)
(* driver (src/contrib/drivers/filesharedrivers/netapp/ontap_nas.go).      *)
(* Both wrap a third-party storage driver: Setup parses the config file,   *)
(* builds that driver and Initializes it under a deferred recover();       *)
(* every other operation calls into it.  ListPools turns what the array    *)
(* reports into model.StoragePoolSpec records, and the volume and share    *)
(* operations turn a size in GiB into bytes.                               *)
(*                                                                         *)
(* The third-party driver and the array are nondeterministic: Initialize   *)
(* succeeds, fails or panics, and the array reports any of a small set of  *)
(* pools.  A driver that was never Initialized has a nil API client, and   *)
(* a call through it panics.  Create and Destroy of an array volume are   *)
(* atomic calls of the third-party driver: Create refuses a name the array *)
(* holds, and either may fail.  The dock may call a delete again (a retry  *)
(* after an error or a lost reply, or a duplicate), at any later time.     *)
(*                                                                         *)
(* Integers are scaled: an int64 / uint64 is a Width-bit integer and       *)
(* bytesGiB is 2^GiBShift, so sizes that overflow in the code overflow     *)
(* here at the same ratio.                                                 *)
(***************************************************************************)
EXTENDS Integers, Sequences

CONSTANTS
    Width,         \* bits of an int64 / uint64
    GiBShift,      \* bytesGiB = 2^GiBShift
    Sizes,         \* sizes in GiB callers request
    ConfPools,     \* ConfPools[d]: the pool map of d's config file (name -> StorageType)
    SanPools,      \* pools GetVolumePools may return: [label, wwn, media, free]
    Aggregates,    \* aggregates the filer may return: [name, size, allocated]
    MaxPools,      \* bound on the number of pools an array reports
    NotNumeral,    \* a FreeSpace string that is no numeral
    Failed,        \* a call that returned a non-nil error
    ResIds,        \* ids of the volumes / file shares the dock asks for (UUIDs)
    SnapIds,       \* ids of their snapshots (UUIDs)
    Names,         \* display names, which the user chooses and may reuse
    Hosts,         \* hosts a volume is attached to
    CommitmentCanFail  \* whether the filer's AggregateCommitment call may fail

ASSUME Width \in Nat /\ GiBShift \in Nat /\ GiBShift < Width /\ MaxPools \in Nat
ASSUME CommitmentCanFail \in BOOLEAN

Drivers == {"eseries", "ontap"}
DefaultAZ == "default"
bytesGiB == 2^GiBShift

\* Two's-complement conversions of the code's integer types.
Uint64(x) == x % 2^Width
Int64(x) == LET u == Uint64(x) IN IF u >= 2^(Width - 1) THEN u - 2^Width ELSE u

\* strconv.ParseUint(s, 10, 64): fails for a non-numeral or a value that
\* does not fit in 64 bits.
ParseUint(s) ==
    IF s # NotNumeral /\ s < 2^Width THEN [ok |-> TRUE, n |-> s] ELSE [ok |-> FALSE, n |-> 0]

\* The values an int64 holds.
Int64s == -(2^(Width - 1)) .. 2^(Width - 1) - 1

\* The requests of the volume and share calls: an id and a display name.
Requests == [id: ResIds, name: Names]

\* The requests of the snapshot calls: the snapshot's id and display name,
\* and the id of the volume or share it is of.
SnapRequests == [id: SnapIds, name: Names, vol: ResIds]

Pool == [id: STRING, name: STRING, total: Int64s, free: Int64s, consumed: Int64s,
         storageType: STRING, az: STRING]

VARIABLES
    setup,     \* setup[d]: what d.Setup() returned: "none" (not run), "nil" or Failed
    drv,       \* drv[d]: the wrapped driver: "nil", "created" (never Initialized), "ready", "unset"
    panicked,  \* panicked[d]: a call on d panicked with no recover
    answer,    \* answer[d]: what the array last answered d's ListPools, or Failed
    pools,     \* pools[d]: what d.ListPools() last returned: a sequence of Pool, or Failed
    sent,      \* sent[d]: <<size requested in GiB, size handed to the driver in bytes>>
    array,     \* array[d]: the objects on d's backend, [name, on, owner]: a
               \* volume (on = "") or a snapshot of the volume named on; owner
               \* is the id of the request that created it
    meta,      \* meta[id]: the KFileshareName metadata the dock holds for
               \* share id (what CreateFileShare returned), "" when none
    snapMeta,  \* snapMeta[id]: KFileshareSnapName and KFileshareName of the
               \* share snapshot id, "" when none
    published  \* the E-Series volume-to-host mappings: [vol, host]

objVars == <<array, meta, snapMeta, published>>
vars == <<setup, drv, panicked, answer, pools, sent, objVars>>

TypeOK ==
    /\ setup \in [Drivers -> {"none", "nil", Failed}]
    /\ drv \in [Drivers -> {"nil", "created", "ready", "unset"}]
    /\ panicked \in [Drivers -> BOOLEAN]
    /\ \A d \in Drivers : answer[d] = Failed \/ answer[d] \in Seq(SanPools \cup Aggregates)
    /\ \A d \in Drivers : pools[d] = Failed \/ pools[d] \in Seq(Pool)
    /\ sent \in [Drivers -> Nat \X Int64s]
    /\ \A d \in Drivers : \A e \in array[d] : e.owner \in ResIds \cup SnapIds
    /\ meta \in [ResIds -> Names \cup {""}]
    /\ snapMeta \in [SnapIds -> [snap: Names \cup {""}, share: Names \cup {""}]]
    /\ \A p \in published : p.host \in Hosts

Init ==
    /\ setup = [d \in Drivers |-> "none"]
    /\ drv = [d \in Drivers |-> "nil"]
    /\ panicked = [d \in Drivers |-> FALSE]
    /\ answer = [d \in Drivers |-> <<>>]
    /\ pools = [d \in Drivers |-> <<>>]
    /\ sent = [d \in Drivers |-> <<0, 0>>]
    /\ array = [d \in Drivers |-> {}]
    /\ meta = [id \in ResIds |-> ""]
    /\ snapMeta = [id \in SnapIds |-> [snap |-> "", share |-> ""]]
    /\ published = {}

-----------------------------------------------------------------------------
(* Conversions and the pool builders, translated from the code.              *)

\* getVolumeName(id): volumePrefix + the id without its dashes.  Ids are
\* UUIDs, whose dashes stand at fixed places, so distinct ids give
\* distinct names.
getVolumeName(id) == "opensds_" \o id

\* (mutant: the array volume named after the display name)
ArrayNameByName(opt) == "opensds_" \o opt.name

\* The E-Series array volume a request is about: CreateVolume, its
\* createVolumeFromSnapshot branch and DeleteVolume all use
\* getVolumeName(opt.GetId()).
ArrayName(opt) == getVolumeName(opt.id)

\* getSnapshotName(id): snapshotPrefix + the id without its dashes.
getSnapshotName(id) == "opensds_snapshot_" \o id

\* The filer volume of a share: CreateFileShare names it opt.GetName() and
\* returns that name in the share's metadata (KFileshareName), which is
\* what DeleteFileShare destroys; a share whose create failed has no such
\* metadata, and the lookup gives "".
ShareName(opt) == meta[opt.id]

\* GetVolumeConfig: Size = strconv.FormatInt(size*bytesGiB, 10).
GetVolumeConfig(size) == Int64(size * bytesGiB)

\* The model.StoragePoolSpec SANDriverE.ListPools builds for an array pool
\* sp whose FreeSpace parsed to n: TotalCapacity = n / minFreeSpaceBytes
\* (10), FreeCapacity = int64(n), StorageType =
\* c.Pool[sp.DriveMediaType].StorageType (the zero value when that key is
\* missing), Id = uuid.NewV5(.., sp.WorldWideName), AZ = DefaultAZ.
SanPoolOf(sp, n) ==
    LET c == ConfPools["eseries"] IN
    [id |-> sp.wwn, name |-> sp.label, total |-> Int64(n \div 10),
     free |-> Int64(n), consumed |-> 0, az |-> DefaultAZ,
     storageType |-> IF sp.media \in DOMAIN c THEN c[sp.media] ELSE ""]

\* (mutant: the pools the config does not name are listed too)
RECURSIVE SanListAll(_)
SanListAll(lp) ==
    IF lp = <<>> THEN <<>>
    ELSE LET p == ParseUint(Head(lp).free)
             rest == SanListAll(Tail(lp))
         IN IF ~p.ok \/ rest = Failed THEN Failed
            ELSE <<SanPoolOf(Head(lp), p.n)>> \o rest

\* (mutant: a pool whose FreeSpace does not parse is skipped)
RECURSIVE SanListSkipBad(_)
SanListSkipBad(lp) ==
    IF lp = <<>> THEN <<>>
    ELSE LET p == ParseUint(Head(lp).free)
             rest == SanListSkipBad(Tail(lp))
         IN IF Head(lp).label \notin DOMAIN ConfPools["eseries"] \/ ~p.ok THEN rest
            ELSE <<SanPoolOf(Head(lp), p.n)>> \o rest

\* The loop of SANDriverE.ListPools over what GetVolumePools returned: a
\* pool the config does not name is skipped (continue); a FreeSpace that
\* does not parse returns nil, err for the whole call.
RECURSIVE SanListPools(_)
SanListPools(lp) ==
    IF lp = <<>> THEN <<>>
    ELSE LET p == ParseUint(Head(lp).free)
             rest == SanListPools(Tail(lp))
         IN IF Head(lp).label \notin DOMAIN ConfPools["eseries"] THEN rest
            ELSE IF ~p.ok \/ rest = Failed THEN Failed
            ELSE <<SanPoolOf(Head(lp), p.n)>> \o rest

\* The loop of NASDriver.ListPools over the aggregates of the SVM: an
\* aggregate the config does not name is skipped; TotalCapacity =
\* AggregateSize / bytesGiB, ConsumedCapacity = TotalAllocated / bytesGiB,
\* FreeCapacity = the difference; StorageType from c.Pool[aggr]; the
\* config's AZ, DefaultAZ when empty.  The config's AZ is left out: the
\* model's configs set none.  The aggregates in failed are those whose
\* AggregateCommitment failed and gave a zero value (error dropped).
NasListPools(ag, failed) ==
    LET c == ConfPools["ontap"]
        Keep(a) == a.name \in DOMAIN c
        ToPool(a) ==
            LET total == IF a.name \in failed THEN 0 ELSE Int64(a.size \div bytesGiB)
                used == IF a.name \in failed THEN 0 ELSE Int64(a.allocated \div bytesGiB)
            IN [id |-> a.name, name |-> a.name, total |-> total,
                free |-> total - used, consumed |-> used,
                storageType |-> c[a.name], az |-> DefaultAZ]
        kept == SelectSeq(ag, Keep)
    IN [i \in 1..Len(kept) |-> ToPool(kept[i])]

-----------------------------------------------------------------------------
(* The operations.                                                          *)

\* Setup, after the config file parsed: under defer recover(), the wrapped
\* driver is built and Initialized.  Initialize returns nil, returns an
\* error, or panics: the panic is recovered and Setup returns its zero
\* value, nil, with a driver that was never Initialized.  (json.Marshal of
\* the fixed config struct and YAMLToJSON of its output cannot fail.)
InitializeOutcome(d) ==
    \/ /\ setup' = [setup EXCEPT ![d] = "nil"]        \* Initialize ok
       /\ drv' = [drv EXCEPT ![d] = "ready"]
    \/ /\ setup' = [setup EXCEPT ![d] = Failed]       \* Initialize error
       /\ drv' = [drv EXCEPT ![d] = "created"]
    \/ /\ setup' = [setup EXCEPT ![d] = "nil"]        \* Initialize panics
       /\ drv' = [drv EXCEPT ![d] = "created"]

\* Setup: a config file that does not parse, or ValidateCommonSettings
\* failing, returns an error before the driver is built.
Setup(d) ==
    /\ setup[d] = "none"
    /\ \/ /\ setup' = [setup EXCEPT ![d] = Failed]
          /\ UNCHANGED drv
       \/ InitializeOutcome(d)
    /\ UNCHANGED <<panicked, answer, pools, sent, objVars>>

\* The operations are called on a driver whose Setup returned nil.
Usable(d) == setup[d] = "nil" /\ drv[d] # "unset" /\ ~panicked[d]

\* A call through the wrapped driver's API client, or its Create, Destroy
\* or Resize, on a driver that was never Initialized panics.
CallPanics(d) ==
    /\ drv[d] # "ready"
    /\ panicked' = [panicked EXCEPT ![d] = TRUE]
    /\ UNCHANGED <<setup, drv, answer, pools, sent, objVars>>

\* Unset: Terminate the wrapped driver built by Setup; it goes through no
\* API client, so it does not panic on a driver never Initialized.
Unset(d) ==
    /\ Usable(d)
    /\ drv' = [drv EXCEPT ![d] = "unset"]
    /\ UNCHANGED <<setup, panicked, answer, pools, sent, objVars>>

\* The array's answers: up to MaxPools pools, no label twice.
Reports(S, f(_)) ==
    {s \in UNION {[1..n -> S] : n \in 0..MaxPools} :
        \A i, j \in DOMAIN s : i # j => f(s[i]) # f(s[j])}

\* NASDriver.ListPools when AggregateCommitment fails for some configured
\* aggregates: aggregate, _ := ... drops the error, and what the client
\* returned beside it is not under src/: a nil pointer, whose field read
\* panics (nothing recovers it), or a zero value, reported as an empty pool.
NasCommitmentFails(ag) ==
    \E failed \in SUBSET {ag[i].name : i \in DOMAIN ag} \ {{}} :
        /\ failed \subseteq DOMAIN ConfPools["ontap"]
        /\ \/ /\ panicked' = [panicked EXCEPT !["ontap"] = TRUE]
              /\ UNCHANGED <<answer, pools>>
           \/ /\ answer' = [answer EXCEPT !["ontap"] = ag]
              /\ pools' = [pools EXCEPT !["ontap"] = NasListPools(ag, failed)]
              /\ UNCHANGED panicked

\* ListPools: the array call fails (its error is returned) or answers.
ListPools(d) ==
    /\ Usable(d)
    /\ \/ CallPanics(d)
       \/ /\ drv[d] = "ready"
          /\ \/ /\ answer' = [answer EXCEPT ![d] = Failed]
                /\ pools' = [pools EXCEPT ![d] = Failed]
             \/ /\ d = "eseries"
                /\ \E lp \in Reports(SanPools, LAMBDA p : p.label) :
                      /\ answer' = [answer EXCEPT ![d] = lp]
                      /\ pools' = [pools EXCEPT ![d] = SanListPools(lp)]
             \/ /\ d = "ontap"
                /\ \E ag \in Reports(Aggregates, LAMBDA a : a.name) :
                      /\ answer' = [answer EXCEPT ![d] = ag]
                      /\ pools' = [pools EXCEPT ![d] = NasListPools(ag, {})]
          /\ UNCHANGED <<setup, drv, panicked, sent, objVars>>
       \/ /\ d = "ontap" /\ drv[d] = "ready" /\ CommitmentCanFail
          /\ \E ag \in Reports(Aggregates, LAMBDA a : a.name) :
                NasCommitmentFails(ag)
          /\ UNCHANGED <<setup, drv, sent, objVars>>

\* The backend holds a volume named n.
Holds(d, n) == \E e \in array[d] : e.on = "" /\ e.name = n

\* The third-party Create of a volume named n (on = ""), or CreateSnapshot
\* of a snapshot named n of the volume named on, for request id: it
\* succeeds when the backend holds no such object and holds the volume a
\* snapshot is of.  Otherwise it fails and the backend is unchanged.
ArrayCreated(d, n, on, id) ==
    /\ \A e \in array[d] : <<e.name, e.on>> # <<n, on>>
    /\ on = "" \/ Holds(d, on)
    /\ array' = [array EXCEPT ![d] = @ \cup {[name |-> n, on |-> on, owner |-> id]}]

\* The third-party Destroy(n) (on = "") or DeleteSnapshot of snapshot n of
\* the volume named on: no such object is left (none may have been there),
\* a destroyed volume takes its snapshots and host mappings with it; or
\* the call fails and nothing changes.
ArrayDestroy(d, n, on) ==
    \/ /\ array' = [array EXCEPT ![d] = {e \in @ : /\ <<e.name, e.on>> # <<n, on>>
                                                 /\ ~(on = "" /\ e.on # "" /\ e.on = n)}]
       /\ published' = {p \in published : on # "" \/ p.vol # n}
    \/ UNCHANGED <<array, published>>

\* A call through the wrapped driver with effect on the backend objects.
ArrayCall(d, effect) ==
    /\ Usable(d)
    /\ \/ CallPanics(d)
       \/ /\ drv[d] = "ready"
          /\ effect
          /\ UNCHANGED <<setup, drv, panicked, answer, pools, sent>>

\* A call that hands a size to the wrapped driver: the size is converted by
\* GetVolumeConfig first.
SizedCall(d, size, effect) ==
    /\ Usable(d)
    /\ \/ CallPanics(d)
       \/ /\ drv[d] = "ready"
          /\ sent' = [sent EXCEPT ![d] = <<size, GetVolumeConfig(size)>>]
          /\ effect
          /\ UNCHANGED <<setup, drv, panicked, answer, pools>>

\* SANDriverE.CreateVolume: GetVolumeConfig(getVolumeName(id), size), then
\* Create, or with a snapshot id createVolumeFromSnapshot's CreateClone of
\* the same config: either makes the array volume getVolumeName(id).
CreateVolume(opt, size) ==
    SizedCall("eseries", size,
              /\ ArrayCreated("eseries", ArrayName(opt), "", opt.id) \/ UNCHANGED array
              /\ UNCHANGED <<meta, snapMeta, published>>)

\* SANDriverE.DeleteVolume: Destroy(getVolumeName(id)).
DeleteVolume(opt) ==
    ArrayCall("eseries", ArrayDestroy("eseries", ArrayName(opt), "")
                         /\ UNCHANGED <<meta, snapMeta>>)

\* SANDriverE.ExtendVolume: GetVolumeConfig(name, size) and
\* uint64(size*bytesGiB) (the same bits), then Resize.
ExtendVolume(size) == SizedCall("eseries", size, UNCHANGED objVars)

\* SANDriverE.CreateSnapshot: CreateSnapshot of getSnapshotName(id) on the
\* volume getVolumeName(opt.GetVolumeId()).
CreateSnapshot(opt) ==
    ArrayCall("eseries",
              /\ ArrayCreated("eseries", getSnapshotName(opt.id), getVolumeName(opt.vol), opt.id)
                 \/ UNCHANGED array
              /\ UNCHANGED <<meta, snapMeta, published>>)

\* SANDriverE.DeleteSnapshot: DeleteSnapshot of the same two names.
DeleteSnapshot(opt) ==
    ArrayCall("eseries", ArrayDestroy("eseries", getSnapshotName(opt.id), getVolumeName(opt.vol))
                         /\ UNCHANGED <<meta, snapMeta>>)

\* SANDriverE.InitializeConnection: Publish(getVolumeName(volId)) to the
\* host; it fails for a volume the array does not hold.
InitializeConnection(vol, host) ==
    ArrayCall("eseries",
              /\ \/ /\ Holds("eseries", getVolumeName(vol))
                    /\ published' = published \cup {[vol |-> getVolumeName(vol), host |-> host]}
                 \/ UNCHANGED published
              /\ UNCHANGED <<array, meta, snapMeta>>)

\* SANDriverE.TerminateConnection: API.GetVolume(name); an error, or a
\* volume already gone, returns; otherwise it deletes the attachment id
\* from the caller's metadata map and returns nil.  No call unpublishes.
TerminateConnection(vol, host) == ArrayCall("eseries", UNCHANGED objVars)

\* NASDriver.CreateFileShare: GetVolumeConfig(name, size), then Create of
\* the filer volume opt.GetName(); on success the share it returns carries
\* that name in its metadata.
CreateFileShare(opt, size) ==
    SizedCall("ontap", size,
              /\ \/ /\ ArrayCreated("ontap", opt.name, "", opt.id)
                    /\ meta' = [meta EXCEPT ![opt.id] = opt.name]
                 \/ UNCHANGED <<array, meta>>
              /\ UNCHANGED <<snapMeta, published>>)

\* NASDriver.DeleteFileShare: Destroy(opts.GetMetadata()[KFileshareName]).
DeleteFileShare(opt) ==
    ArrayCall("ontap", ArrayDestroy("ontap", ShareName(opt), "") /\ UNCHANGED <<meta, snapMeta>>)

\* NASDriver.CreateFileShareSnapshot: CreateSnapshot named opts.GetName()
\* on the filer volume of the share's KFileshareName; on success the
\* snapshot's metadata holds both names.  With no share name the call
\* fails.
CreateFileShareSnapshot(opt) ==
    LET share == meta[opt.vol] IN
    ArrayCall("ontap",
              /\ \/ /\ share # ""
                    /\ ArrayCreated("ontap", opt.name, share, opt.id)
                    /\ snapMeta' = [snapMeta EXCEPT ![opt.id] = [snap |-> opt.name, share |-> share]]
                 \/ UNCHANGED <<array, snapMeta>>
              /\ UNCHANGED <<meta, published>>)

\* NASDriver.DeleteFileShareSnapshot: DeleteSnapshot of the names in the
\* snapshot's metadata (KFileshareSnapName, KFileshareName).
DeleteFileShareSnapshot(opt) ==
    ArrayCall("ontap", ArrayDestroy("ontap", snapMeta[opt.id].snap, snapMeta[opt.id].share)
                       /\ UNCHANGED <<meta, snapMeta>>)

Next ==
    \/ \E d \in Drivers : Setup(d) \/ Unset(d) \/ ListPools(d)
    \/ \E s \in Sizes : ExtendVolume(s)
    \/ \E s \in Sizes, r \in Requests : CreateVolume(r, s) \/ CreateFileShare(r, s)
    \/ \E r \in Requests : DeleteVolume(r) \/ DeleteFileShare(r)
    \/ \E r \in SnapRequests :
          \/ CreateSnapshot(r) \/ DeleteSnapshot(r)
          \/ CreateFileShareSnapshot(r) \/ DeleteFileShareSnapshot(r)
    \/ \E v \in ResIds, h \in Hosts : InitializeConnection(v, h) \/ TerminateConnection(v, h)

Spec == Init /\ [][Next]_vars

-----------------------------------------------------------------------------
(* Properties.                                                              *)

\* Whatever the array answered, the eseries ListPools loop reports exactly
\* the pools the config file names, in the array's order; and, by spec.md
\* 7, a record that cannot be decoded aborts the whole list: the result is
\* an error exactly when a configured pool's FreeSpace does not parse.
SanListFaithful ==
    LET lp == answer["eseries"]
        kept == SelectSeq(lp, LAMBDA p : p.label \in DOMAIN ConfPools["eseries"])
        res == pools["eseries"]
    IN lp # Failed =>
        IF \E i \in DOMAIN kept : ~ParseUint(kept[i].free).ok
        THEN res = Failed
        ELSE /\ res # Failed
             /\ Len(res) = Len(kept)
             /\ \A i \in DOMAIN kept : res[i].name = kept[i].label

\* spec.md 3: a pool's free capacity is part of its total capacity: every
\* record ListPools returns has 0 <= FreeCapacity <= TotalCapacity, for
\* E-Series (TotalCapacity derived from FreeSpace) and ONTAP (derived from
\* the aggregate's size and commitment) alike.
PoolCapacityWithinTotal ==
    \A d \in Drivers : pools[d] # Failed =>
        \A i \in DOMAIN pools[d] :
            0 <= pools[d][i].free /\ pools[d][i].free <= pools[d][i].total

\* The objects a request owns on a backend: those it created, and the
\* snapshots of a volume it created.
OwnedBy(d, id) ==
    LET own == {e \in array[d] : e.owner = id}
    IN own \cup {e \in array[d] : \E o \in own : o.on = "" /\ e.on = o.name}

\* An E-Series delete destroys only objects of the volume or snapshot it is
\* called for: the driver names array volumes and snapshots by their ids,
\* so a DeleteVolume or DeleteSnapshot retried or delayed until after
\* another one with the same display name was created leaves it alone.
DeleteRemovesOwn ==
    [][/\ \A r \in Requests :
          DeleteVolume(r) => array["eseries"] \ array'["eseries"] \subseteq OwnedBy("eseries", r.id)
      /\ \A r \in SnapRequests :
          DeleteSnapshot(r) => array["eseries"] \ array'["eseries"] \subseteq OwnedBy("eseries", r.id)]_vars

\* The same for ONTAP shares and their snapshots.  spec.md 3 makes ids,
\* not names, the identity of a resource, and a delete may come again (a
\* retry after a lost reply, a duplicate request) once another share or
\* snapshot took the name.
ShareDeleteRemovesOwn ==
    [][/\ \A r \in Requests :
          DeleteFileShare(r) => array["ontap"] \ array'["ontap"] \subseteq OwnedBy("ontap", r.id)
      /\ \A r \in SnapRequests :
          DeleteFileShareSnapshot(r) => array["ontap"] \ array'["ontap"] \subseteq OwnedBy("ontap", r.id)]_vars

\* spec.md 9: a driver whose initialisation failed is reported by Setup as
\* an error, so no call on a driver whose Setup returned nil panics.
SetupNilMeansUsable == \A d \in Drivers : ~panicked[d]
=============================================================================
