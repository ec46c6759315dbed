\* Restarts on a growing chain: the evoDB on disk is the tip's, empty (an
\* older version's database) or the one of an earlier evoDB flush.  Rotation
\* activates at 6: cycle [3,5] mines quorum 3 into the flat index at 5,
\* cycle [6,8] quorums 6 and 7 into the indexed one at 8.  Honest miners,
\* two network messages, no disconnects, two restarts.
CONSTANTS
    Types = {T1}
    BadType = BadType
    DkgInterval = 3
    MiningWindowStart = 2
    MiningWindowEnd = 2
    SigningActiveQuorumCount = 2
    UseRotation = TRUE
    RotationHeight = 6
    DIP0003Height = 3
    DIP0003EnforcementHeight = 3
    Variants <- MC_OneVariant
    MaxSigners = 1
    MaxHeight = 8
    MaxDisconnects = 0
    MaxMsgs = 2
    MaxQcPerBlock = 2
    Handlers = {h1}
    AdversarialBlocks = FALSE
    NetQcs <- MC_NetQcs
    RestartKinds = {"synced", "legacy", "lagging"}
    MaxRestarts = 2
SPECIFICATION UpSpec
INVARIANTS
    RecoveredStoreMatchesChain
CHECK_DEADLOCK FALSE
