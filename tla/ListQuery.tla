----------------------------- MODULE ListQuery -----------------------------
(***************************************************************************)
(* The list-query pipeline of the etcd directory client                    *)
(* (src/pkg/db/drivers/etcd/etcd.go: IsInArray, SelectOrNot, GetLimit,     *)
(* GetOffset, GetSortDir, GetSortKey, FilterAndSort, ParameterFilter and   *)
(* filterByName) as pure operators, applied to every list a caller can     *)
(* send: a sequence of at most three pool records and a query map.         *)
(*                                                                         *)
(* utils.Filter, utils.Sort, utils.Slice and utils.ContainsIgnoreCase are  *)
(* not under src/; they are modelled from spec.md 4.4.                     *)
(*                                                                         *)
(* A query map map[string][]string is a function from the keys present to  *)
(* their first value (the code only reads v[0]).  A record is a function   *)
(* from the field names of model.StoragePoolSpec the properties use to     *)
(* their values.  Strings are model strings; strconv.Atoi, strings.ToUpper *)
(* and strings.EqualFold are defined by what they do on those strings.     *)
(***************************************************************************)
EXTENDS Integers, Sequences, SequencesExt, TLC

CONSTANTS
    DefaultLimit,  \* constants.DefaultLimit
    MaxNum,        \* numerals "-MaxNum" .. "MaxNum" are the numbers parsed
    Lists,         \* the record lists a List call can return
    Queries        \* the query maps a caller can send

ASSUME DefaultLimit \in Nat /\ MaxNum \in Nat

DefaultOffset == 0        \* constants.DefaultOffset
DefaultSortDir == "desc"  \* constants.DefaultSortDir
defaultSortKey == "ID"
validKey == {"limit", "offset", "sortDir", "sortKey"}

\* sortableKeysMap[typePools]
PoolSortKeys == <<"ID", "NAME", "STATUS", "AVAILABILITYZONE", "DOCKID">>

\* Fields of model.StoragePoolSpec and their reflect.Kind.
Kind == ("Id" :> "string") @@ ("Name" :> "string")
        @@ ("TotalCapacity" :> "int") @@ ("Extras" :> "map")
Fields == DOMAIN Kind

-----------------------------------------------------------------------------
(* The conversions of the standard library the pipeline calls.             *)

\* strconv.Atoi: the number a decimal numeral denotes, or an error (err # nil).
NumeralValue == [s \in {ToString(n) : n \in -MaxNum..MaxNum} |->
                    CHOOSE n \in -MaxNum..MaxNum : ToString(n) = s]
Atoi(s) ==
    IF s \in DOMAIN NumeralValue
    THEN [ok |-> TRUE, n |-> NumeralValue[s]]
    ELSE [ok |-> FALSE, n |-> 0]

\* strings.ToUpper on the words that occur in queries and records.
UpperOf == ("asc" :> "ASC") @@ ("desc" :> "DESC") @@ ("Desc" :> "DESC")
           @@ ("up" :> "UP") @@ ("id" :> "ID") @@ ("Id" :> "ID")
           @@ ("name" :> "NAME") @@ ("Name" :> "NAME") @@ ("size" :> "SIZE")
           @@ ("a" :> "A") @@ ("b" :> "B") @@ ("p1" :> "P1") @@ ("p2" :> "P2")
           @@ ("p3" :> "P3") @@ ("m" :> "M") @@ ("x" :> "X") @@ ("Color" :> "COLOR")
ToUpper(s) == IF s \in DOMAIN UpperOf THEN UpperOf[s] ELSE s

\* strings.EqualFold (Unicode case folding; on these words, equal uppercase).
EqualFold(a, b) == ToUpper(a) = ToUpper(b)

\* The canonical string of a field: FormatInt for an int, the string itself.
FieldString(rec, f) == IF Kind[f] = "int" THEN ToString(rec[f]) ELSE rec[f]

-----------------------------------------------------------------------------
(* Helpers of utils/ (not under src/), from spec.md 4.4.                    *)

\* utils.Contained / utils.ContainsIgnoreCase on a list of strings.
Contained(e, s) == \E i \in 1..Len(s) : s[i] = e
ContainsIgnoreCase(s, e) == \E i \in 1..Len(s) : EqualFold(s[i], e)

\* utils.Filter: every non-reserved key is an equality predicate on the
\* field it names; a record lacking the field is dropped.  spec.md 4.4 says
\* the name is matched case-sensitively, but etcd_test.go (260-272) filters
\* pools on "storageType" and expects the StorageType matches kept, so the
\* key is matched to the field name ignoring case.
Keep(rec, params) ==
    \A key \in DOMAIN params \ validKey :
        \E f \in Fields :
            /\ EqualFold(f, key)
            /\ Kind[f] # "map"
            /\ EqualFold(params[key], FieldString(rec, f))
Filter(src, params) == SelectSeq(src, LAMBDA rec : Keep(rec, params))

\* The field a sortKey names (ID, NAME, ... matched case-insensitively).
SortField(key) == CHOOSE f \in Fields : EqualFold(f, key)

\* Order of field values: numbers numerically, these strings as Go does.
Rank == ("a" :> 1) @@ ("b" :> 2) @@ ("p1" :> 1) @@ ("p2" :> 2) @@ ("p3" :> 3)
Less(f, x, y) == IF Kind[f] = "int" THEN x[f] < y[f] ELSE Rank[x[f]] < Rank[y[f]]

\* utils.Sort: stable sort on the field, ascending for "asc", else descending.
Sort(s, key, dir) ==
    LET f == SortField(key)
        up == EqualFold(dir, "asc")
        Before(i, j) == IF Less(f, s[i], s[j]) \/ Less(f, s[j], s[i])
                        THEN (up = Less(f, s[i], s[j]))
                        ELSE i < j
        order == SortSeq([i \in 1..Len(s) |-> i], Before)
    IN [i \in 1..Len(s) |-> s[order[i]]]

\* utils.Slice: the window [offset, offset+limit) cut to the list; the
\* default limit stands for "no limit".
Slice(s, offset, limit) ==
    LET lo == IF offset < 0 THEN 0 ELSE IF offset > Len(s) THEN Len(s) ELSE offset
        hi == IF limit = DefaultLimit \/ lo + limit > Len(s) THEN Len(s) ELSE lo + limit
    IN SubSeq(s, lo + 1, hi)

-----------------------------------------------------------------------------
(* The code.                                                                *)

IsInArray(e, s) == \E i \in 1..Len(s) : EqualFold(e, s[i])

SelectOrNot(m) == \E key \in DOMAIN m : key \notin validKey

\* (mutant: a negative limit clamped to 0 instead of the default)
GetLimitClampZero(m) ==
    IF "limit" \in DOMAIN m /\ Atoi(m["limit"]).ok
    THEN IF Atoi(m["limit"]).n >= 0 THEN Atoi(m["limit"]).n ELSE 0
    ELSE DefaultLimit

GetLimit(m) ==
    IF "limit" \in DOMAIN m /\ Atoi(m["limit"]).ok /\ Atoi(m["limit"]).n >= 0
    THEN Atoi(m["limit"]).n
    ELSE DefaultLimit

GetOffset(m, size) ==
    IF "offset" \notin DOMAIN m THEN DefaultOffset
    ELSE LET v == Atoi(m["offset"]) IN
         IF ~v.ok \/ v.n > size THEN size
         ELSE IF v.n < 0 THEN DefaultOffset
         ELSE v.n

GetSortDir(m) ==
    IF "sortDir" \in DOMAIN m
       /\ (EqualFold(m["sortDir"], "desc") \/ EqualFold(m["sortDir"], "asc"))
    THEN m["sortDir"]
    ELSE DefaultSortDir

GetSortKey(m, sortKeys) ==
    IF "sortKey" \in DOMAIN m /\ IsInArray(ToUpper(m["sortKey"]), sortKeys)
    THEN ToUpper(m["sortKey"])
    ELSE defaultSortKey

\* Whether FilterAndSort sorts: a sortKey is given and whitelisted.
SortRequested(params, sortableKeys) ==
    "sortKey" \in DOMAIN params /\ ContainsIgnoreCase(sortableKeys, params["sortKey"])

FilterAndSort(src, params, sortableKeys) ==
    LET filtered == Filter(src, params)
        sorted == IF SortRequested(params, sortableKeys)
                  THEN Sort(filtered, params["sortKey"], GetSortDir(params))
                  ELSE filtered
    IN Slice(sorted, GetOffset(params, Len(src)), GetLimit(params))

\* (mutants: the window not cut at size; the default limit not read as "all")
ParameterFilterNoClamp(m, size, sortKeys) ==
    LET limit == GetLimit(m)
        offset == GetOffset(m, size)
        endIdx == IF limit = DefaultLimit THEN size ELSE limit + offset
    IN [beginIdx |-> offset, endIdx |-> endIdx,
        sortDir |-> GetSortDir(m), sortKey |-> GetSortKey(m, sortKeys)]
ParameterFilterNoSentinel(m, size, sortKeys) ==
    LET limit == GetLimit(m)
        offset == GetOffset(m, size)
        endIdx == IF limit + offset > size THEN size ELSE limit + offset
    IN [beginIdx |-> offset, endIdx |-> endIdx,
        sortDir |-> GetSortDir(m), sortKey |-> GetSortKey(m, sortKeys)]

ParameterFilter(m, size, sortKeys) ==
    LET limit == GetLimit(m)
        offset == GetOffset(m, size)
        endIdx == IF limit = DefaultLimit \/ limit + offset > size
                  THEN size ELSE limit + offset
    IN [beginIdx |-> offset, endIdx |-> endIdx,
        sortDir |-> GetSortDir(m), sortKey |-> GetSortKey(m, sortKeys)]

\* filterByName: keys outside filterList, and names that are not a field
\* of the record, are skipped; a field of another kind rejects the record.
filterByName(param, spec, filterList) ==
    \A key \in (DOMAIN param \cap filterList) \cap Fields :
        Kind[key] # "map" /\ EqualFold(param[key], FieldString(spec, key))

-----------------------------------------------------------------------------
(* Every list against every query: the inputs are chosen in Init and no    *)
(* step changes them, so each reachable state is one call of the pipeline. *)

VARIABLES src, params
vars == <<src, params>>

\* Inputs are a list of pool records and a query map of strings; the page
\* is a list of records of the input; ParameterFilter's window lies in the list.
TypeOK ==
    /\ src \in Seq([Id: STRING, Name: STRING, TotalCapacity: Int, Extras: STRING])
    /\ params \in [DOMAIN params -> STRING]
    /\ FilterAndSort(src, params, PoolSortKeys) \in Seq(Range(src))
    /\ LET p == ParameterFilter(params, Len(src), PoolSortKeys)
       IN /\ p \in [beginIdx: 0..Len(src), endIdx: 0..Len(src),
                    sortDir: STRING, sortKey: STRING]
          /\ p.beginIdx <= p.endIdx

Init == src \in Lists /\ params \in Queries
Next == UNCHANGED vars
Spec == Init /\ [][Next]_vars

\* The query with key k set to v (v = "" removes k).
With(m, k, v) ==
    IF v = "" THEN [x \in DOMAIN m \ {k} |-> m[x]] ELSE (k :> v) @@ m

Page == FilterAndSort(src, params, PoolSortKeys)
Num(k) == k \in DOMAIN params /\ Atoi(params[k]).ok

\* Pagination bounds (spec.md 8) of FilterAndSort: an offset at or past the
\* end of the filtered list gives an empty page; a negative offset is
\* offset 0; a negative limit is the default limit.  GetOffset clamps with
\* the length of the unfiltered list, so this rests on utils.Slice too.
PaginationBounds ==
    /\ Num("offset") /\ Atoi(params["offset"]).n >= Len(Filter(src, params))
         => Page = <<>>
    /\ Num("offset") /\ Atoi(params["offset"]).n < 0
         => Page = FilterAndSort(src, With(params, "offset", "0"), PoolSortKeys)
    /\ Num("limit") /\ Atoi(params["limit"]).n < 0
         => Page = FilterAndSort(src, With(params, "limit", ""), PoolSortKeys)

\* ParameterFilter's window [beginIdx, endIdx) and FilterAndSort's page
\* select the same records of an unfiltered, unsorted list.
PagingAgrees ==
    ~SelectOrNot(params) /\ "sortKey" \notin DOMAIN params =>
        LET p == ParameterFilter(params, Len(src), PoolSortKeys)
        IN SubSeq(src, p.beginIdx + 1, p.endIdx) = Page
=============================================================================
