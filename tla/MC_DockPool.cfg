\* Two callers creating, updating, deleting and resolving one dock and one pool.
CONSTANTS
    c1 = c1
    c2 = c2
    i1 = i1
    Clients = {c1, c2}
    Ids = {i1}
    Names = {"n1"}
    NoRecord = NoRecord
    KVCanFail = TRUE
    CreateOnExisting = {"overwrite", "fail"}
    UpdateOnAbsent = {"write", "fail"}
    MaxClock = 3
SPECIFICATION Spec
INVARIANT KeyMatchesId
INVARIANT TypeOK
