SPECIFICATION FairSpec
CONSTANTS
    Subs = {s1}
    Calls = {c1}
    Endpoints = {u1}
    ServerUrl = u1
    NoUrl = NoUrl
    Pieces <- StreamPieces
    Events <- TwoEvents
    MaxCasts = 2
    MaxConns = 2
    MaxPosts = 1
INVARIANTS TypeOK IInv WholeEvents ListedMissNothing
PROPERTIES CancelledEnds Resubscribes
CHECK_DEADLOCK FALSE
