SPECIFICATION Spec
CONSTANTS
    a = a  b = b  s1 = s1  s2 = s2
    Users = {a, b}
    Tokens = {s1, s2}
    Handlers = {h1, h2}
    Owner <- MCOwner
INVARIANTS LoggedOutIsRefused
