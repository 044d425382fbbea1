--------------------------- MODULE MC_NetAppDriver ---------------------------
EXTENDS NetAppDriver, TLC

\* Each driver's config names pool "p1" (a block pool, a file aggregate).
MCConfPools == ("eseries" :> ("p1" :> "block")) @@ ("ontap" :> ("p1" :> "file"))

\* E-Series pools "p1" (configured) and "p2" (not), on hdd media.
SanPoolsWith(frees) ==
    {[label |-> l, wwn |-> "w" \o l, media |-> "hdd", free |-> f] :
        l \in {"p1", "p2"}, f \in frees}

\* FreeSpace values: empty, some, one that wraps int64 (>= 2^7), one too
\* wide for ParseUint (>= 2^8), and one that is no numeral.
MCSanSome == SanPoolsWith({0, 25, 200, 300, NotNumeral})
MCSanZero == SanPoolsWith({0})
\* One FreeSpace value that parses (and wraps int64) and one that does
\* not parse: each branch of the loop; ParseUint fails alike for 300.
MCSanBranches == SanPoolsWith({200, NotNumeral})

\* ONTAP aggregates "p1" and "p2", sizes in bytes (bytesGiB = 8).
AggregatesWith(fits) ==
    {a \in [name : {"p1", "p2"}, size : {0, 24}, allocated : {0, 16, 40}] :
        fits \/ a.allocated > a.size}
MCAggregatesFit == {a \in AggregatesWith(TRUE) : a.allocated <= a.size}
MCAggregatesOver == AggregatesWith(FALSE)
MCAggregatesAll == MCAggregatesFit \cup MCAggregatesOver
\* One half-used configured aggregate and one aggregate the config does not name.
MCAggregatesFew == {[name |-> "p1", size |-> 24, allocated |-> 16],
                    [name |-> "p2", size |-> 24, allocated |-> 0]}
=============================================================================
