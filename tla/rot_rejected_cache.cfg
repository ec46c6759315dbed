\* Rotation era, one LLMQ type with two quorum indexes, blocks with any commitments.
\* Cycle [4,7] has quorum blocks 4 and 5 (each with two competing
\* variants) and mining window 6..7; rotation activates at the cycle start.
CONSTANTS
    Types = {T1}
    BadType = BadType
    DkgInterval = 4
    MiningWindowStart = 2
    MiningWindowEnd = 3
    SigningActiveQuorumCount = 2
    UseRotation = TRUE
    RotationHeight = 4
    DIP0003Height = 4
    Variants <- MC_Variants
    MaxSigners = 2
    MaxHeight = 7
    MaxDisconnects = 2
    MaxMsgs = 0
    MaxQcPerBlock = 2
    Handlers = {h1}
    AdversarialBlocks = TRUE
SPECIFICATION Spec
INVARIANT CacheCoherent
CHECK_DEADLOCK FALSE
