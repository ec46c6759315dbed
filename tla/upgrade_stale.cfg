\* A restart finds the evoDB of an earlier flush while the chainstate on
\* disk is a later tip reached through a disconnect: the flushed store
\* holds the records of a block no longer on the active chain.  Honest
\* miners, one block per height, two network messages, one disconnect,
\* one restart.
CONSTANTS
    Types = {T1}
    BadType = BadType
    DkgInterval = 3
    MiningWindowStart = 2
    MiningWindowEnd = 2
    SigningActiveQuorumCount = 2
    UseRotation = TRUE
    RotationHeight = 6
    DIP0003Height = 3
    DIP0003EnforcementHeight = 3
    Variants <- MC_OneVariant
    MaxSigners = 1
    MaxHeight = 8
    MaxDisconnects = 1
    MaxMsgs = 2
    MaxQcPerBlock = 2
    Handlers = {h1}
    AdversarialBlocks = FALSE
    NetQcs <- MC_NetQcs
    RestartKinds = {"lagging"}
    MaxRestarts = 1
SPECIFICATION UpSpec
INVARIANTS
    RecoveredStoreMatchesChain
CHECK_DEADLOCK FALSE
