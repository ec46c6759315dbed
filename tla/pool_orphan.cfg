\* Pre-rotation era, one LLMQ type, honest miners (template blocks only).
\* Cycle [3,5] has quorum block 3 (two competing variants) and mining
\* window 4..5; heights 1..2 are before DIP0003.
CONSTANTS
    Types = {T1}
    BadType = BadType
    DkgInterval = 3
    MiningWindowStart = 1
    MiningWindowEnd = 2
    SigningActiveQuorumCount = 1
    UseRotation = FALSE
    RotationHeight = 0
    DIP0003Height = 3
    Variants <- MC_Variants
    MaxSigners = 2
    MaxHeight = 5
    MaxDisconnects = 2
    MaxMsgs = 2
    MaxQcPerBlock = 2
    Handlers = {h1}
    AdversarialBlocks = FALSE
SPECIFICATION Spec
INVARIANT MinableIndexed
CHECK_DEADLOCK FALSE
