\* Rotation era, one LLMQ type with two quorum indexes, honest miners.
\* Cycle [4,7] has quorum blocks 4 and 5 (each with two competing
\* variants) and mining window 6..7; rotation activates at the cycle start.
\* Also checks that the processor refines MinedLog (BlockProcessorRefinement).
CONSTANTS
    Types = {T1}
    BadType = BadType
    DkgInterval = 4
    MiningWindowStart = 2
    MiningWindowEnd = 3
    SigningActiveQuorumCount = 2
    UseRotation = TRUE
    RotationHeight = 4
    DIP0003Height = 4
    Variants <- MC_Variants
    MaxSigners = 2
    MaxHeight = 7
    MaxDisconnects = 3
    MaxMsgs = 1
    MaxQcPerBlock = 2
    Handlers = {h1}
    AdversarialBlocks = FALSE
SPECIFICATION Spec
PROPERTY Refines
INVARIANTS
    CacheCoherent
    TemplateAccepted
CHECK_DEADLOCK FALSE
