SPECIFICATION FairSpec
CONSTANTS
    laptop = laptop  peer = peer  tablet = tablet
    t1 = t1  t2 = t2  t3 = t3
    Tabs = {t1, t2}
    Devices = {laptop, peer}
    Keys = {k1, k2}
    DeviceOf <- OfPair
    Participants <- ByIds
    UserOf <- WhoPair
INVARIANTS TypeOK KeysAgree ServedHasKey
PROPERTIES ImplementsRoomKey EveryoneGetsKey
