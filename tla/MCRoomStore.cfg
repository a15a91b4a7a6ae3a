SPECIFICATION Spec
CONSTANTS
    s1 = s1
    s2 = s2
    w1 = w1
    w2 = w2
    Updates = {u1, u2, u3}
    Writers = {w1, w2}
    Readers = {r1, r2}
    Services = {s1}
    ServiceOf <- OneService
    CacheMayFail = TRUE
    NoRoom = NoRoom
SYMMETRY Symmetry
INVARIANTS
    UpdatesKeptUnlessRaced
