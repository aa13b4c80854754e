SPECIFICATION Spec
CONSTANTS
    p1 = p1
    p2 = p2
    p3 = p3
    w1 = w1
    w2 = w2
    r1 = r1
    r2 = r2
    Nil = Nil
    Proc = {p1, p2, p3}
    File = {r1, w1, w2, r2}
    Writable = {w1, w2}
    Users <- MixedUsers
    Ops = {"ACQUIRE", "TRYACQUIRE", "RELEASE", "CLOSE"}
    Bkl = TRUE
    MaxTickets = 3
    MaxReads = 2
INVARIANTS TypeOK MutualExclusion CountsSound KnownHolderNeverWaits
PROPERTIES NoOvertaking ImplementsFairLock
