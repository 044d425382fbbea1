\* Both drivers set up, listing pools, creating, extending and deleting volumes and shares (deletes may be retried); the eseries ListPools loop checked against the spec's abort-on-decode rule, and E-Series deletes against name reuse.
CONSTANTS
    Width = 8
    GiBShift = 3
    MaxPools = 2
    NotNumeral = NotNumeral
    Failed = Failed
    ResIds = {"r1", "r2"}
    Names = {"n"}
    SnapIds = {"s1"}
    Hosts = {h1}
    CommitmentCanFail = TRUE
    ConfPools <- MCConfPools
    Sizes = {15}
    SanPools <- MCSanBranches
    Aggregates <- MCAggregatesFew
SPECIFICATION Spec
INVARIANT SanListFaithful
PROPERTY DeleteRemovesOwn
CHECK_DEADLOCK FALSE
