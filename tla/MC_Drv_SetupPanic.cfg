\* Initialize may panic under Setup's recover: can a call then hit the uninitialised driver?
CONSTANTS
    Width = 8
    GiBShift = 3
    MaxPools = 2
    NotNumeral = NotNumeral
    Failed = Failed
    ResIds = {"r1"}
    Names = {"n"}
    SnapIds = {"s1"}
    Hosts = {h1}
    CommitmentCanFail = FALSE
    ConfPools <- MCConfPools
    Sizes = {1}
    SanPools <- MCSanZero
    Aggregates <- MCAggregatesFit
SPECIFICATION Spec
INVARIANT SetupNilMeansUsable
CHECK_DEADLOCK FALSE
