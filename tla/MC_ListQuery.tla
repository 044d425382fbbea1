---------------------------- MODULE MC_ListQuery ----------------------------
(***************************************************************************)
(* ListQuery over every list of at most three pools (distinct ids, names   *)
(* "a"/"b") and every query built from a few values of each parameter:   *)
(* numerals in and out of range, a negative one, one that does not parse, *)
(* sort keys and directions in several letter cases, one not whitelisted, *)
(* and filters on a string field, an int field, a map field, a lowercase  *)
(* field name and a name that is no field.                                 *)
(***************************************************************************)
EXTENDS ListQuery

\* A pool record: TotalCapacity follows from the id so that lists stay few.
Pool(id, name) == [Id |-> id, Name |-> name, TotalCapacity |-> Rank[id],
                   Extras |-> "m"]

MCLists ==
    UNION { { [i \in 1..n |-> Pool(ids[i], names[i])] :
                ids \in {f \in [1..n -> {"p1", "p2", "p3"}] : IsInjective(f)},
                names \in [1..n -> {"a", "b"}] } : n \in 0..3 }

\* One optional entry of a query map.
Opt(k, v) == IF v = "" THEN [x \in {} |-> x] ELSE (k :> v)

MCQueries ==
    { Opt("limit", l) @@ Opt("offset", o) @@ Opt("sortKey", sk)
        @@ Opt("sortDir", sd) @@ flt :
        l \in {"", "0", "1", "-1", "x"},
        o \in {"", "1", "-1", "x"},
        sk \in {"", "name", "ID", "size"},
        sd \in {"", "ASC", "up"},
        flt \in {Opt("Name", ""), Opt("Name", "A"),
                 Opt("TotalCapacity", "1"), Opt("Extras", "m"),
                 Opt("name", "a"), Opt("Color", "x")} }
=============================================================================
