CONSTANTS
    N = 2
    W = 6
    Values = {a, b}
    NoValue = NoValue
    Parts = {p1, p2}
    Messages = {m1, m2, m3}
    Words = {w1, w2, w3}
    Targets = {"x86_64", "aarch64"}
    MaxPublishes = 3
    WsIds = 2
    Wrap = 6
SPECIFICATION MCSpec
INVARIANT NoDataRace
INVARIANT TakenIsWhole
INVARIANT NoTornRead
INVARIANT TearsSpanOnePublish
INVARIANT SessionsAreSound
INVARIANT RequestsAreWatched
PROPERTY ImplementsFifo
PROPERTY ImplementsBox
PROPERTY ReadReturns
PROPERTY LaneIsRestored
