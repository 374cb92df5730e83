\* Progress of the cacher: no symmetry, three blocks, reorganisations allowed.
SPECIFICATION FairSpec
CONSTANTS
    r1 = r1
    r2 = r2
    EthRequests = {r1, r2}
    RequestIds = {r1, r2}
    StoreReadsFail = FALSE
    EthStart = 4
    MaxEthHeight = 7
    MaxReorg = 1
    ContractTimeout = 1
    BlockInterval = 1
    RqTimeout = 1
PROPERTIES
    VisibleIsCached
