SPECIFICATION AFairSpec
CONSTANTS
    p1 = p1
    p2 = p2
    p3 = p3
    p4 = p4
    f1 = f1
    f2 = f2
    f3 = f3
    f4 = f4
    f5 = f5
    Nil = Nil
    Proc = {p1, p2, p3, p4}
    File = {f1, f2, f3, f4, f5}
    Writable = {f1, f2, f5}
    Users <- MCUsers
    Args <- MixedArgs
    Size <- MCSize
    nsectors = 2
    Ops = {"ACQUIRE", "TRYACQUIRE", "CLOSE", "KILL"}
    Bkl = TRUE
    MaxTickets = 4
    MaxReads = 4
INVARIANTS ATypeOK LockedIoIsolated AllReturned ServedTicketAccounted
PROPERTIES EveryoneEnds
CHECK_DEADLOCK FALSE
