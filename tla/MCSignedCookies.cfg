SPECIFICATION Spec
CONSTANTS
    Page = {p1, p2}
    Admin = Admin
    Pin = {w1, w2}
    Password = {pw}
    NoPin = NoPin
    Secret = {s1, s2}
    Request = {r1, r2}
    None = None
    SessionTTL = 2
    PinTTL = 1
    MaxTime = 2
SYMMETRY Symmetry
INVARIANTS
    LetInOnItsOwnPin
    ActsOnALogin
