\* Two connections, every kind of publication, breaks at any statement.
SPECIFICATION FairSpec
CONSTANTS
    Clients = {p1, p2}
    None = None
    k1 = k1
    k2 = k2
    k3 = k3
    f1 = f1
    f2 = f2
    a = a
    b = b
    c = c
    Requests <- MCRequests
PROPERTIES
    PublicationsAreSerial
    ImplementsLog
    CallsReturn
