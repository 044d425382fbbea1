\* E-Series pools with several FreeSpace values and ONTAP aggregates, overcommitted ones included: does each pool record describe its pool (free capacity within total capacity)?
CONSTANTS
    Width = 8
    GiBShift = 3
    MaxPools = 2
    NotNumeral = NotNumeral
    Failed = Failed
    ResIds = {"r1"}
    Names = {"n"}
    SnapIds = {"s1"}
    Hosts = {h1}
    CommitmentCanFail = TRUE
    ConfPools <- MCConfPools
    Sizes = {1}
    SanPools <- MCSanSome
    Aggregates <- MCAggregatesAll
SPECIFICATION Spec
INVARIANT PoolCapacityWithinTotal
CHECK_DEADLOCK FALSE
