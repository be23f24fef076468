SPECIFICATION FairLiveSpec
CONSTANTS
    a = a  b = b  p = p  s = s
    Users = {a, b}
    Rooms = {r1}
    Requests = {p}
    Sockets = {p, s}
    Caller <- MCCaller
    MaxId = 2
    Window = 2
    Capacity = 1
    MaxEvents = 1
INVARIANTS LiveTypeOK SenderOrder
PROPERTIES ImplementsFeed ImplementsMessages SkipsOnlyDropped HeardOrLagged
