\* Two requests of the same user, Lock or Unlock, with every verdict, and a token.
SPECIFICATION Spec
CONSTANTS
    o1 = o1
    o2 = o2
    u1 = u1
    t1 = t1
    k1 = k1
    Users = {u1}
    Targets = {t1}
    Amounts = {0, 1}
    Oracles = {o1, o2}
    Slots = {1, 2}
    Admin <- OneEach
    BftCoefficent = 2
    Timeout = 1
    Verdicts = {2, 3}
    TokenContracts = {k1}
    Start = 1
    MaxHeight = 3
    MaxRequests = 2
INVARIANTS
    TypeOK
PROPERTIES
    EscrowSpec
    ChainSpec
\* The contract does nothing by itself, and users and oracles may stop.
CHECK_DEADLOCK FALSE
