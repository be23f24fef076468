SPECIFICATION FairSpec
CONSTANTS
    a = a  b = b  q = q  s = s
    Users = {a, b}
    Rooms = {r1}
    Requests = {q}
    Sockets = {s}
    Caller <- MCCaller
    MaxId = 3
    Window = 2
INVARIANTS TypeOK NoHoles HistoryFits FileIsItsMessage
PROPERTIES ReadStaysRead CachesCatchUp
