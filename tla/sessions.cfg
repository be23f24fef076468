SPECIFICATION FairSpec
CONSTANTS
    a = a  b = b  s1 = s1  s2 = s2
    Users = {a, b}
    Tokens = {s1, s2}
    Handlers = {h1, h2, h3}
    Owner <- MCOwner
INVARIANTS TypeOK LiveNotRefused
PROPERTIES RefusedForGood EndedIsRefused
