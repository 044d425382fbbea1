\* Violation: CreatedAtImmutable (spec.md 3) even with a store whose Create and Update check existence.
CONSTANTS
    c1 = c1
    c2 = c2
    i1 = i1
    Clients = {c1, c2}
    Ids = {i1}
    Names = {"n1"}
    NoRecord = NoRecord
    KVCanFail = FALSE
    CreateOnExisting = {"fail"}
    UpdateOnAbsent = {"fail"}
    MaxClock = 3
SPECIFICATION Spec
PROPERTY CreatedAtImmutable
