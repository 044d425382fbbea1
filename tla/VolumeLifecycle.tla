-------------------------- MODULE VolumeLifecycle --------------------------
(***************************************************************************)
(* What the resource directory promises about volumes (spec.md 3, 4.6):    *)
(* every volume id names at most one document, its owner (TenantId) is     *)
(* fixed for its whole life, and a document goes                           *)
(*     absent -> created -> [updated]* -> deleted (absent)                 *)
(* with no other transitions.  The directory code under src/ has no       *)
(* CreateVolume, so the volumes of a behaviour are those of its initial    *)
(* state: a volume may be updated (any mutable field, any value, because   *)
(* concurrent updates may overwrite each other) or deleted, and once       *)
(* absent it stays absent.                                                 *)
(***************************************************************************)
CONSTANTS Tenants, VolIds, Statuses, Groups, NoRecord

Empty == ""

\* A stored volume document, reduced to the fields the properties read.
Doc == [id: VolIds, tenantId: Tenants,
        status: Statuses \cup {Empty}, groupId: Groups \cup {Empty}]

VARIABLE vols   \* vols[id]: the volume's document, NoRecord when absent

Init == vols \in {f \in [VolIds -> Doc \cup {NoRecord}] :
                    \A id \in VolIds : f[id] # NoRecord => f[id].id = id}

\* Any change of the mutable fields; id and owner are kept.
Update(id) ==
    /\ vols[id] # NoRecord
    /\ \E d \in Doc : /\ d.id = id
                      /\ d.tenantId = vols[id].tenantId
                      /\ vols' = [vols EXCEPT ![id] = d]

Delete(id) == vols' = [vols EXCEPT ![id] = NoRecord]

Next == \E id \in VolIds : Update(id) \/ Delete(id)

Spec == Init /\ [][Next]_vols
=============================================================================
