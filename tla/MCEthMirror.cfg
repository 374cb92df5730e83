\* The cacher against every chain of five blocks with two requests, with
\* reorganisations as deep as BlockInterval and failing lookups.  The contract
\* gives up one block later than the validator.
SPECIFICATION Spec
CONSTANTS
    r1 = r1
    r2 = r2
    EthRequests = {r1, r2}
    RequestIds = {r1, r2}
    StoreReadsFail = TRUE
    EthStart = 4
    MaxEthHeight = 9
    MaxReorg = 2
    ContractTimeout = 4
    BlockInterval = 2
    RqTimeout = 3
SYMMETRY Permute
INVARIANTS
    Settled
PROPERTIES
    LateSuccessIsBounded
    ReopensOnlyAtDeadline
    NoEntryBehindExpired
