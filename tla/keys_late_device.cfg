SPECIFICATION Spec
CONSTANTS
    laptop = laptop  peer = peer  tablet = tablet
    t1 = t1  t2 = t2  t3 = t3
    Tabs = {t1, t2, t3}
    Devices = {laptop, peer, tablet}
    Keys = {k1, k2}
    DeviceOf <- OfTwoPeers
    Participants <- ByIds
    UserOf <- WhoTwoPeers
INVARIANTS FullyShared
