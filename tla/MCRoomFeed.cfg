SPECIFICATION FairSpec
CONSTANTS
    i1 = i1
    Conns = {c1, c2}
    Instances = {i1}
    InstanceOf <- OneInstance
    Values <- Versions
    NoValue = NoValue
    MaxChanges = 3
    MaxUnsent = 1
    MayLose = TRUE
INVARIANTS
    MembersAreServed
    QuietMeansCurrent
PROPERTIES
    GoneAreForgotten
    EventuallyCurrent
