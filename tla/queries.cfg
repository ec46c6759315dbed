\* Both eras, one LLMQ type: rotation activates at the cycle start 9.
\* Cycles [3,5] and [6,8] mine quorums 3 and 6 into the flat index at
\* heights 5 and 8; cycles [9,11] and [12,14] mine the quorums of indexes
\* 0 and 1 (heights 9, 10 and 12, 13) into the indexed index at 11 and 14.
\* Honest miners, one block per height, four network messages (valid, one
\* signer), one disconnect.
CONSTANTS
    Types = {T1}
    BadType = BadType
    DkgInterval = 3
    MiningWindowStart = 2
    MiningWindowEnd = 2
    SigningActiveQuorumCount = 2
    UseRotation = TRUE
    RotationHeight = 9
    DIP0003Height = 3
    Variants <- MC_OneVariant
    MaxSigners = 1
    MaxHeight = 14
    MaxDisconnects = 1
    MaxMsgs = 4
    MaxQcPerBlock = 2
    Handlers = {h1}
    AdversarialBlocks = FALSE
    KeyBits = 16
    TypeId <- MC_TypeId
    OtherTypeId = 2
    MaxCount = 2
    NetQcs <- MC_NetQcs
SPECIFICATION Spec
INVARIANTS
    MinedUntilNewestFirst
    IndexedUntilNewestFirst
    ActiveQuorumsFromChain
CHECK_DEADLOCK FALSE
