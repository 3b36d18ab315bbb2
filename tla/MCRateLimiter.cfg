\* Two clients behind up to two proxies, two windows' worth of calls and one
\* more, over three windows; readings in order.
CONSTANTS
    Clients = {a, b}
    Proxy = Proxy
    Blank = Blank
    Anyone = Anyone
    Slugs = {s}
    Spellings = {"plain", "mapped"}
    MaxHops = 2
    MaxSent = 1
    Keys <- MCKeys
    Limit = 2
    Window = 3
    MaxLag = 0
    MaxTime = 8
    MaxCalls = 5
    NoBucket = NoBucket
SPECIFICATION LimitsSpec
SYMMETRY Interchangeable
INVARIANT TwoWindowsWorthPerClient
PROPERTY MapForgets
PROPERTY ImplementsFixedWindow
PROPERTY ClientsAreLimitedApart
\* The clock and the calls run out.
CHECK_DEADLOCK FALSE
