\* Share creates and deletes on the ONTAP driver, a delete possibly repeated later: does a delete destroy only its own share's filer volume?
CONSTANTS
    Width = 8
    GiBShift = 3
    MaxPools = 2
    NotNumeral = NotNumeral
    Failed = Failed
    ResIds = {"r1", "r2"}
    Names = {"n"}
    SnapIds = {"s1"}
    Hosts = {h1}
    CommitmentCanFail = FALSE
    ConfPools <- MCConfPools
    Sizes = {1}
    SanPools <- MCSanZero
    Aggregates <- MCAggregatesFit
SPECIFICATION Spec
PROPERTY ShareDeleteRemovesOwn
CHECK_DEADLOCK FALSE
