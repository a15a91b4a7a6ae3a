SPECIFICATION FairSpec
CONSTANTS
    s1 = s1
    s2 = s2
    w1 = w1
    w2 = w2
    Updates = {u1}
    Writers = {w1, w2}
    Readers = {r1}
    Services = {s1, s2}
    ServiceOf <- TwoServices
    CacheMayFail = TRUE
    NoRoom = NoRoom
INVARIANTS
    NoTornRoom
PROPERTIES
    EventuallyCoherent
