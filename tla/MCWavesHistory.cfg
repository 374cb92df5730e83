\* The Waves cacher against every chain of three blocks with two requests, with
\* rollbacks as deep as WavesInterval and failing lookups.
SPECIFICATION HistorySpec
CONSTANTS
    w1 = w1
    w2 = w2
    WavesRequests = {w1, w2}
    RequestIds = {w1, w2}
    EthRows = {}
    StoreReadsFail = TRUE
    WavesStart = 3
    MaxWavesHeight = 5
    MaxWavesReorg = 1
    WavesInterval = 1
    RqTimeout = 1
INVARIANTS
    TypeOK
    CompletedPassIsComplete
    SettledUnlessTorn
PROPERTIES
    ClearWalkEnds
