\* Two validators that poll each other, one of them with failing lookups, and two
\* requests of one chain, of which one makes a validator panic.
SPECIFICATION FairSpec
CONSTANTS
    w1 = w1
    w2 = w2
    v1 = v1
    v2 = v2
    Validators = {v1, v2}
    RequestIds = {w1, w2}
    ChainType <- AllWaves
    TokenPair <- OnePanics
    Ips <- AllPoll
    FailingDbs = {v2}
    MaxCopies = 2
INVARIANTS
    TypeOK
    OneRowEach
    SignsAreGenuine
PROPERTIES
    SignaturesSpread
