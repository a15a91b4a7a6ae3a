SPECIFICATION Spec
CONSTANTS
    i1 = i1
    Conns = {c1}
    Instances = {i1}
    InstanceOf <- OneInstance
    Values <- Versions
    NoValue = NoValue
    MaxChanges = 3
    MaxUnsent = 1
    MayLose = FALSE
INVARIANTS
    SnapshotNeverOverridesUpdate
