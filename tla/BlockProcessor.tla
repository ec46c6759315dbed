--------------------------- MODULE BlockProcessor ---------------------------
(***************************************************************************)
(* The quorum-commitment block processor of src/llmq/blockprocessor.cpp   *)
(* (CQuorumBlockProcessor) on one node.                                    *)
(*                                                                         *)
(* Three kinds of actor share its state:                                   *)
(*  - the chain thread, holding cs_main, connects a block (ProcessBlock)  *)
(*    or disconnects the tip (UndoBlock), each one atomic step;            *)
(*  - message handlers run ProcessMessage for a QFCOMMITMENT in three      *)
(*    steps, because cs_main and minableCommitmentsCs are released in     *)
(*    between: the cs_main checks, the "better one locally" pool check,   *)
(*    and Verify followed by AddMineableCommitment;                        *)
(*  - the miner builds the template of GetMineableCommitmentsTx, which is *)
(*    what an honest block carries.                                        *)
(*                                                                         *)
(* A block is identified by its path from genesis: the sequence of the    *)
(* variants chosen at each height, so competing branches have distinct    *)
(* hashes and a block's ancestors are its prefixes.  A commitment is a    *)
(* record; its signer count stands for its bitsets (0 signers = IsNull)   *)
(* and "valid" for the outcome of CFinalCommitment::Verify / VerifyNull,  *)
(* which are outside this file.                                            *)
(***************************************************************************)
EXTENDS Integers, Sequences, FiniteSets, SequencesExt, TLC

CONSTANTS
    Types,                    \* LLMQ types GetLLMQParams knows (all enabled)
    BadType,                  \* a type id GetLLMQParams does not know
    DkgInterval,              \* llmqParams.dkgInterval
    MiningWindowStart,        \* llmqParams.dkgMiningWindowStart
    MiningWindowEnd,          \* llmqParams.dkgMiningWindowEnd
    SigningActiveQuorumCount, \* llmqParams.signingActiveQuorumCount
    UseRotation,              \* the type is configured for rotation
    RotationHeight,           \* height from which rotation is active
    DIP0003Height,            \* consensus.DIP0003Height
    Variants,                 \* competing blocks a miner may produce per height
    MaxSigners,               \* signer counts range over 0..MaxSigners
    MaxHeight,                \* bound: the chain never grows past this height
    MaxDisconnects,           \* bound: number of UndoBlock steps (reorg depth)
    MaxMsgs,                  \* bound: number of QFCOMMITMENT messages received
    MaxQcPerBlock,            \* bound: commitment transactions in one block
    Handlers,                 \* threads that run ProcessMessage
    AdversarialBlocks         \* blocks may carry any commitments, not only the template

ASSUME /\ DkgInterval > 0
       /\ 0 <= MiningWindowStart /\ MiningWindowStart <= MiningWindowEnd
       /\ MiningWindowEnd < DkgInterval
       /\ SigningActiveQuorumCount >= 1 /\ 0 \in Variants
       /\ BadType \notin Types /\ AdversarialBlocks \in BOOLEAN

VARIABLES
    tip,          \* ::ChainActive().Tip(): the active chain is the prefixes of tip
    blocks,       \* block id -> its commitment transactions, for blocks ever connected
    mined,        \* DB_MINED_COMMITMENT: <<type, quorumHash>> -> [qc, block]
    flatIdx,      \* DB_MINED_COMMITMENT_BY_INVERSED_HEIGHT: <<type, minedHeight>> -> quorum height
    idxIdx,       \* ..._Q_INDEXED: <<type, quorumIndex, minedHeight>> -> quorum height
    bbu,          \* DB_BEST_BLOCK_UPGRADE
    cache,        \* mapHasMinedCommitmentCache: <<type, quorumHash>> -> BOOLEAN
    byQuorum,     \* minableCommitmentsByQuorum: <<type, quorumHash>> -> commitment
    minable,      \* minableCommitments (keyed by the commitment's hash): set of commitments
    hpc,          \* handler -> "idle" | "pool" | "add"
    hqc,          \* handler -> the commitment it is processing
    msgs,         \* messages received so far
    disconnects   \* UndoBlock steps so far

vars == <<tip, blocks, mined, flatIdx, idxIdx, bbu, cache, byQuorum, minable,
          hpc, hqc, msgs, disconnects>>

-----------------------------------------------------------------------------
(* Blocks, heights and the quorum cycle                                     *)

NullHash == <<>>                 \* uint256(): not a block
UnknownHash == <<-1>>            \* a block hash this node never saw
Genesis == <<0>>

Height(b) == Len(b) - 1
TipHeight == Height(tip)

\* GetBlockHash on the active chain: null beyond the tip.
GetBlockHash(h) == IF 0 <= h /\ h <= TipHeight THEN SubSeq(tip, 1, h + 1) ELSE NullHash

CycleStart(h) == h - (h % DkgInterval)

IsMiningPhase(h) ==
    /\ CycleStart(h) + MiningWindowStart <= h
    /\ h <= CycleStart(h) + MiningWindowEnd

GetQuorumBlockHash(h, quorumIndex) == GetBlockHash(CycleStart(h) + quorumIndex)

\* utils::IsQuorumRotationEnabled, evaluated at a block of height h.
IsQuorumRotationEnabled(h) == UseRotation /\ h >= RotationHeight

QuorumIndexes(h) ==
    0..((IF IsQuorumRotationEnabled(h) THEN SigningActiveQuorumCount ELSE 1) - 1)

-----------------------------------------------------------------------------
(* Commitments                                                              *)

Commitment(t, i, qh, n, v) ==
    [type |-> t, idx |-> i, qhash |-> qh, signers |-> n, valid |-> v]

NoQc == Commitment(BadType, 0, NullHash, 0, FALSE)

IsNull(qc) == qc.signers = 0
Key(qc) == <<qc.type, qc.qhash>>

EraseKey(f, k) == [x \in DOMAIN f \ {k} |-> f[x]]

\* The part of the processor's state a block step reads and writes.
State == [ok |-> TRUE, mined |-> mined, flatIdx |-> flatIdx, idxIdx |-> idxIdx,
          cache |-> cache, byQuorum |-> byQuorum, minable |-> minable]

Fail(st) == [st EXCEPT !.ok = FALSE]

\* m_evoDb.Exists(std::make_pair(DB_MINED_COMMITMENT, k)).
MinedInDb(st, k) == k \in DOMAIN st.mined

\* HasMinedCommitment as one atomic call: the cache, else the DB.
HasMinedCommitment(st, k) ==
    IF k \in DOMAIN st.cache THEN st.cache[k] ELSE MinedInDb(st, k)

\* ... and the cache entry it inserts on a miss.
FillCache(st, k) ==
    IF k \in DOMAIN st.cache THEN st
    ELSE [st EXCEPT !.cache = @ @@ (k :> MinedInDb(st, k))]

\* AddMineableCommitment.  On replacement the code overwrites the slot's
\* hash and then erases the NEW hash from minableCommitments, so the old
\* commitment stays there.
AddMineableCommitment(st, qc) ==
    LET k == Key(qc) IN
    IF k \notin DOMAIN st.byQuorum
    THEN [st EXCEPT !.byQuorum = @ @@ (k :> qc), !.minable = @ \cup {qc}]
    ELSE IF qc.signers > st.byQuorum[k].signers
         THEN [st EXCEPT !.byQuorum[k] = qc, !.minable = @ \cup {qc}]
         ELSE st

-----------------------------------------------------------------------------
(* Required commitments and the mining template                            *)

\* The block GetNumCommitmentsRequired evaluates rotation at: the tip when
\* h is the next height, else the ancestor at h.
RefHeight(h) == IF TipHeight < h THEN TipHeight ELSE h

\* The slots GetNumCommitmentsRequired queries with HasMinedCommitment.
QueriedSlots(t, h) ==
    IF ~IsMiningPhase(h) THEN {}
    ELSE {<<t, GetQuorumBlockHash(h, i)>> : i \in QuorumIndexes(RefHeight(h))} \ {<<t, NullHash>>}

\* The slots GetNumCommitmentsRequired counts; its result is their number
\* (distinct indexes have distinct quorum blocks).
RequiredSlots(st, t, h) == {k \in QueriedSlots(t, h) : ~HasMinedCommitment(st, k)}

FillRequired(st, h) ==
    LET Q == UNION {QueriedSlots(t, h) : t \in Types} \ DOMAIN st.cache
    IN [st EXCEPT !.cache = @ @@ [k \in Q |-> MinedInDb(st, k)]]

TypeOrder == SetToSeq(Types)     \* the enum order of the multimap keys

\* Mutant of GetMineableCommitments: the "HasMinedCommitment ... continue"
\* skip is missing, so mined quorums get a template commitment again.
GetMineableCommitmentsNoMinedSkip(st, t, h) ==
    IF RequiredSlots(st, t, h) = {} THEN <<>>
    ELSE LET ids == SelectSeq([j \in 1..Cardinality(QuorumIndexes(RefHeight(h))) |-> j - 1],
                              LAMBDA i : GetQuorumBlockHash(h, i) # NullHash)
         IN [j \in 1..Len(ids) |->
               LET k == <<t, GetQuorumBlockHash(h, ids[j])>> IN
               IF k \in DOMAIN st.byQuorum THEN st.byQuorum[k]
               ELSE Commitment(t, ids[j], k[2], 0, TRUE)]

\* GetMineableCommitments for type t at height h (tip = h - 1): per
\* unmined slot the pool's candidate, else a fresh null commitment.  The
\* loop's "break" at a null quorum hash skips the same indexes as a filter,
\* since the unreachable heights are the highest ones.
GetMineableCommitments(st, t, h) ==
    IF RequiredSlots(st, t, h) = {} THEN <<>>
    ELSE LET ids == SelectSeq([j \in 1..Cardinality(QuorumIndexes(RefHeight(h))) |-> j - 1],
                              LAMBDA i : LET qh == GetQuorumBlockHash(h, i) IN
                                         qh # NullHash /\ ~HasMinedCommitment(st, <<t, qh>>))
         IN [j \in 1..Len(ids) |->
               LET k == <<t, GetQuorumBlockHash(h, ids[j])>> IN
               IF k \in DOMAIN st.byQuorum THEN st.byQuorum[k]
               ELSE Commitment(t, ids[j], k[2], 0, TRUE)]

\* The commitment transactions CreateNewBlock adds via GetMineableCommitmentsTx.
Template(st, h) ==
    FlattenSeq([j \in 1..Len(TypeOrder) |-> GetMineableCommitments(st, TypeOrder[j], h)])

-----------------------------------------------------------------------------
(* Processing and undoing a block                                           *)

\* GetCommitmentsFromBlock succeeds: known types, at most one commitment
\* per type unless rotation is active at the block, none before DIP0003.
CommitmentsExtractable(qcs, h) ==
    /\ \A j \in DOMAIN qcs : qcs[j].type \in Types
    /\ ~IsQuorumRotationEnabled(h) =>
          \A j1, j2 \in DOMAIN qcs : j1 < j2 => qcs[j1].type # qcs[j2].type
    /\ h < DIP0003Height => qcs = <<>>

\* The multimap's iteration order: by type, then transaction order.
ByType(qcs) ==
    FlattenSeq([j \in 1..Len(TypeOrder) |-> SelectSeq(qcs, LAMBDA q : q.type = TypeOrder[j])])

\* Mutant of CountsMatch: only "bad-qc-not-allowed", no "bad-qc-missing".
CountsAtMost(st, qcs, h) ==
    \A t \in Types : Cardinality(RequiredSlots(st, t, h)) >= Len(SelectSeq(qcs, LAMBDA q : q.type = t))

\* The count check of ProcessBlock: exactly the required number per type.
CountsMatch(st, qcs, h) ==
    \A t \in Types : Cardinality(RequiredSlots(st, t, h)) = Len(SelectSeq(qcs, LAMBDA q : q.type = t))

\* The checks of ProcessCommitment, up to "if (fJustCheck) return true":
\* the state with the cache fills they make, failed if one fails.
CheckCommitment(st, h, qc) ==
    LET qh == GetQuorumBlockHash(h, qc.idx)
        k == <<qc.type, qh>>
    IN
    IF ~st.ok THEN st
    ELSE IF qh = NullHash \/ qh # qc.qhash THEN Fail(st)               \* bad-qc-block
    ELSE IF IsNull(qc) THEN IF qc.valid THEN st ELSE Fail(st)         \* bad-qc-invalid-null
    ELSE IF HasMinedCommitment(st, k) THEN Fail(FillCache(st, k))      \* bad-qc-dup
    ELSE IF ~IsMiningPhase(h) \/ ~qc.valid THEN Fail(FillCache(st, k)) \* bad-qc-height, bad-qc-invalid
    ELSE FillCache(st, k)

\* A commitment that passed the checks and is written (non-null, ok).
Writes(st, qc) == st.ok /\ ~IsNull(qc)

\* Mutant of ProcessCommitment: the reverse index stores the mined height
\* instead of pQuorumBaseBlockIndex->nHeight.
ProcessCommitmentMinedHeight(st, h, b, qc) ==
    LET c == CheckCommitment(st, h, qc)
        k == Key(qc)
        rotation == IsQuorumRotationEnabled(Height(qc.qhash))
    IN
    IF ~Writes(c, qc) THEN c
    ELSE [c EXCEPT
            !.mined = @ @@ (k :> [qc |-> qc, block |-> b]),
            !.flatIdx = IF rotation THEN @ ELSE (<<qc.type, h>> :> h) @@ @,
            !.idxIdx = IF rotation THEN (<<qc.type, qc.idx, h>> :> h) @@ @ ELSE @,
            !.cache = EraseKey(@, k),
            !.byQuorum = EraseKey(@, k),
            !.minable = @ \ {qc}]

\* Mutant of ProcessCommitment: mapHasMinedCommitmentCache is not erased.
ProcessCommitmentKeepCache(st, h, b, qc) ==
    LET c == CheckCommitment(st, h, qc)
        k == Key(qc)
        rotation == IsQuorumRotationEnabled(Height(qc.qhash))
    IN
    IF ~Writes(c, qc) THEN c
    ELSE [c EXCEPT
            !.mined = @ @@ (k :> [qc |-> qc, block |-> b]),
            !.flatIdx = IF rotation THEN @ ELSE (<<qc.type, h>> :> Height(qc.qhash)) @@ @,
            !.idxIdx = IF rotation THEN (<<qc.type, qc.idx, h>> :> Height(qc.qhash)) @@ @ ELSE @,
            !.byQuorum = EraseKey(@, k),
            !.minable = @ \ {qc}]

\* ProcessCommitment for a non-checking connect (fJustCheck = false): the
\* checks, then the primary record, the reverse-index entry chosen by
\* rotation at the quorum base block, and the cache and pool evictions.
ProcessCommitment(st, h, b, qc) ==
    LET c == CheckCommitment(st, h, qc)
        k == Key(qc)
        rotation == IsQuorumRotationEnabled(Height(qc.qhash))
    IN
    IF ~Writes(c, qc) THEN c
    ELSE [c EXCEPT
            !.mined = @ @@ (k :> [qc |-> qc, block |-> b]),
            !.flatIdx = IF rotation THEN @ ELSE (<<qc.type, h>> :> Height(qc.qhash)) @@ @,
            !.idxIdx = IF rotation THEN (<<qc.type, qc.idx, h>> :> Height(qc.qhash)) @@ @ ELSE @,
            !.cache = EraseKey(@, k),
            !.byQuorum = EraseKey(@, k),
            !.minable = @ \ {qc}]

\* ProcessBlock of block b with commitment transactions qcs, tip = parent.
\* With fJustCheck, ProcessCommitment returns after its checks.
ProcessBlockWith(b, qcs, fJustCheck) ==
    LET h == Height(b)
        step(st, qc) == IF fJustCheck THEN CheckCommitment(st, h, qc)
                        ELSE ProcessCommitment(st, h, b, qc)
    IN
    IF h < DIP0003Height THEN State
    ELSE IF ~CommitmentsExtractable(qcs, h) THEN Fail(State)
    ELSE IF ~CountsMatch(State, qcs, h) THEN Fail(FillRequired(State, h))
    ELSE FoldLeft(step, FillRequired(State, h), ByType(qcs))

ProcessBlock(b, qcs) == ProcessBlockWith(b, qcs, FALSE)

\* ProcessBlock with fJustCheck = true (TestBlockValidity): ProcessCommitment
\* returns after its checks, so nothing is written and nothing evicted.
TestBlockValidity(b, qcs) == ProcessBlockWith(b, qcs, TRUE)

\* Mutant of UndoCommitment: the reverse-index entry is not erased.
UndoCommitmentKeepIndex(st, h, qc) ==
    LET k == Key(qc) IN
    IF IsNull(qc) THEN st
    ELSE AddMineableCommitment(
           [st EXCEPT !.mined = EraseKey(@, k), !.cache = EraseKey(@, k)], qc)

\* Mutant of UndoCommitment: the cache entry is not erased.
UndoCommitmentKeepCache(st, h, qc) ==
    LET k == Key(qc) IN
    IF IsNull(qc) THEN st
    ELSE AddMineableCommitment(
           [st EXCEPT
              !.mined = EraseKey(@, k),
              !.idxIdx = IF IsQuorumRotationEnabled(h) THEN EraseKey(@, <<qc.type, qc.idx, h>>) ELSE @,
              !.flatIdx = IF IsQuorumRotationEnabled(h) THEN @ ELSE EraseKey(@, <<qc.type, h>>)],
           qc)

\* Mutant of UndoCommitment: always erases the non-indexed entry.
UndoCommitmentFlatOnly(st, h, qc) ==
    LET k == Key(qc) IN
    IF IsNull(qc) THEN st
    ELSE AddMineableCommitment(
           [st EXCEPT
              !.mined = EraseKey(@, k),
              !.flatIdx = EraseKey(@, <<qc.type, h>>),
              !.cache = EraseKey(@, k)],
           qc)

\* Mutant of UndoCommitment: the undone commitment is not given back to
\* the pool ("if a reorg happened, we should allow to mine this
\* commitment later" left out).
UndoCommitmentNoReAdd(st, h, qc) ==
    LET k == Key(qc) IN
    IF IsNull(qc) THEN st
    ELSE [st EXCEPT
            !.mined = EraseKey(@, k),
            !.idxIdx = IF IsQuorumRotationEnabled(h) THEN EraseKey(@, <<qc.type, qc.idx, h>>) ELSE @,
            !.flatIdx = IF IsQuorumRotationEnabled(h) THEN @ ELSE EraseKey(@, <<qc.type, h>>),
            !.cache = EraseKey(@, k)]

\* The loop body of UndoBlock for the block at height h.
UndoCommitment(st, h, qc) ==
    LET k == Key(qc) IN
    IF IsNull(qc) THEN st
    ELSE AddMineableCommitment(
           [st EXCEPT
              !.mined = EraseKey(@, k),
              !.idxIdx = IF IsQuorumRotationEnabled(h) THEN EraseKey(@, <<qc.type, qc.idx, h>>) ELSE @,
              !.flatIdx = IF IsQuorumRotationEnabled(h) THEN @ ELSE EraseKey(@, <<qc.type, h>>),
              !.cache = EraseKey(@, k)],
           qc)

UndoBlock(qcs, h) == FoldLeft(LAMBDA st, qc : UndoCommitment(st, h, qc), State, ByType(qcs))

-----------------------------------------------------------------------------
(* The chain thread                                                         *)

EmptyMap == [x \in {} |-> NullHash]

Init ==
    /\ tip = Genesis
    /\ blocks = (Genesis :> <<>>)
    /\ mined = EmptyMap /\ flatIdx = EmptyMap /\ idxIdx = EmptyMap
    /\ bbu = Genesis
    /\ cache = EmptyMap /\ byQuorum = EmptyMap /\ minable = {}
    /\ hpc = [hd \in Handlers |-> "idle"]
    /\ hqc = [hd \in Handlers |-> NoQc]
    /\ msgs = 0 /\ disconnects = 0

\* Pre-DIP0003 blocks carry no commitments, so their forks are not told apart.
BlockVariants(h) == IF h < DIP0003Height THEN {0} ELSE Variants

\* Commitments a miner may put in a block at height h: any index, signer
\* count and validity for the cycle's quorum blocks, and one naming the
\* wrong block.
AdversarialQcs(h) ==
    {Commitment(t, i, GetQuorumBlockHash(h, i), n, v) :
        t \in Types, i \in 0..(SigningActiveQuorumCount - 1), n \in 0..MaxSigners, v \in BOOLEAN}
    \cup {Commitment(t, 0, tip, 1, TRUE) : t \in Types}

\* What the block b may carry: a block seen before carries what it carried.
BlockContents(b) ==
    IF b \in DOMAIN blocks THEN {blocks[b]}
    ELSE IF Height(b) < DIP0003Height THEN {<<>>}
    ELSE {Template(State, Height(b))}
         \cup (IF AdversarialBlocks THEN BoundedSeq(AdversarialQcs(Height(b)), MaxQcPerBlock) ELSE {})

\* A new block on the tip that ProcessBlock accepts (ConnectBlock succeeds).
ConnectAccepted ==
    /\ TipHeight < MaxHeight
    /\ \E v \in BlockVariants(TipHeight + 1) :
         LET b == Append(tip, v) IN
         \E qcs \in BlockContents(b) :
           LET r == ProcessBlock(b, qcs) IN
           /\ r.ok
           /\ tip' = b
           /\ blocks' = blocks @@ (b :> qcs)
           /\ mined' = r.mined /\ flatIdx' = r.flatIdx /\ idxIdx' = r.idxIdx
           /\ cache' = r.cache /\ byQuorum' = r.byQuorum /\ minable' = r.minable
           /\ bbu' = b
    /\ UNCHANGED <<hpc, hqc, msgs, disconnects>>

\* A block ProcessBlock rejects.  The caller discards the evoDB transaction
\* (the DB and DB_BEST_BLOCK_UPGRADE are rolled back); the cache and the
\* pool are not transactional and keep what ProcessCommitment did to them.
ConnectRejected ==
    /\ TipHeight < MaxHeight
    /\ \E v \in BlockVariants(TipHeight + 1) :
         LET b == Append(tip, v) IN
         \E qcs \in BlockContents(b) :
           LET r == ProcessBlock(b, qcs) IN
           /\ ~r.ok
           /\ cache' = r.cache /\ byQuorum' = r.byQuorum /\ minable' = r.minable
    /\ UNCHANGED <<tip, blocks, mined, flatIdx, idxIdx, bbu, hpc, hqc, msgs, disconnects>>

\* The miner's CreateNewBlock under cs_main: GetMineableCommitmentsTx
\* builds the template on the tip and TestBlockValidity checks it inside an
\* evoDB transaction the caller discards.  Only the cache fills remain.
CheckTemplate ==
    /\ TipHeight < MaxHeight
    /\ cache' = TestBlockValidity(Append(tip, 0), Template(State, TipHeight + 1)).cache
    /\ UNCHANGED <<tip, blocks, mined, flatIdx, idxIdx, bbu, byQuorum, minable, hpc, hqc, msgs, disconnects>>

\* DisconnectBlock of the tip, calling UndoBlock.
DisconnectTip ==
    /\ TipHeight > 0
    /\ disconnects < MaxDisconnects
    /\ CommitmentsExtractable(blocks[tip], TipHeight)
    /\ LET r == UndoBlock(blocks[tip], TipHeight) IN
       /\ mined' = r.mined /\ flatIdx' = r.flatIdx /\ idxIdx' = r.idxIdx
       /\ cache' = r.cache /\ byQuorum' = r.byQuorum /\ minable' = r.minable
    /\ tip' = Front(tip)
    /\ bbu' = Front(tip)
    /\ disconnects' = disconnects + 1
    /\ UNCHANGED <<blocks, hpc, hqc, msgs>>

-----------------------------------------------------------------------------
(* ProcessMessage(QFCOMMITMENT) on a handler thread                          *)

\* What peers may send: as quorum hash any known block of a quorum height,
\* the tip (not a quorum block in general) or an unknown block, with any
\* index, signer count and validity; and one commitment of unknown type.
NetQcs ==
    {Commitment(t, i, qh, n, v) :
        t \in Types, i \in 0..(SigningActiveQuorumCount - 1),
        qh \in {b \in DOMAIN blocks : Height(b) - CycleStart(Height(b)) < SigningActiveQuorumCount}
              \cup {tip, UnknownHash},
        n \in 0..MaxSigners, v \in BOOLEAN}
    \cup {Commitment(BadType, 0, Genesis, 1, TRUE)}

\* The checks under cs_main before HasMinedCommitment: not null, known
\* type, known block on the active chain, first block of its index in the
\* DKG interval, not older than one interval.
PassesBlockChecks(qc) ==
    /\ ~IsNull(qc)
    /\ qc.type \in Types
    /\ qc.qhash \in DOMAIN blocks
    /\ IsPrefix(qc.qhash, tip)
    /\ CycleStart(Height(qc.qhash)) + qc.idx = Height(qc.qhash)
    /\ ~(Height(qc.qhash) < TipHeight - DkgInterval)

\* The message is dropped by the cs_main checks.
ReceiveDropped(hd) ==
    /\ hpc[hd] = "idle" /\ msgs < MaxMsgs
    /\ \E qc \in NetQcs :
         \/ /\ ~PassesBlockChecks(qc)
            /\ UNCHANGED cache
         \/ /\ PassesBlockChecks(qc)
            /\ HasMinedCommitment(State, Key(qc))
            /\ cache' = FillCache(State, Key(qc)).cache
    /\ msgs' = msgs + 1
    /\ UNCHANGED <<tip, blocks, mined, flatIdx, idxIdx, bbu, byQuorum, minable, hpc, hqc, disconnects>>

\* The message passes the cs_main checks; cs_main is released.
ReceiveChecked(hd) ==
    /\ hpc[hd] = "idle" /\ msgs < MaxMsgs
    /\ \E qc \in NetQcs :
         /\ PassesBlockChecks(qc)
         /\ ~HasMinedCommitment(State, Key(qc))
         /\ cache' = FillCache(State, Key(qc)).cache
         /\ hqc' = [hqc EXCEPT ![hd] = qc]
    /\ hpc' = [hpc EXCEPT ![hd] = "pool"]
    /\ msgs' = msgs + 1
    /\ UNCHANGED <<tip, blocks, mined, flatIdx, idxIdx, bbu, byQuorum, minable, disconnects>>

\* The condition under which the "already got a better one locally" check
\* returns, as the code writes it.
PoolCheckReturns(qc) ==
    LET k == Key(qc) IN
    /\ k \in DOMAIN byQuorum
    /\ byQuorum[k] \in minable
    /\ byQuorum[k].signers <= qc.signers

Finish(hd) ==
    /\ hpc' = [hpc EXCEPT ![hd] = "idle"]
    /\ hqc' = [hqc EXCEPT ![hd] = NoQc]

PoolCheckDrop(hd) ==
    /\ hpc[hd] = "pool"
    /\ PoolCheckReturns(hqc[hd])
    /\ Finish(hd)
    /\ UNCHANGED <<tip, blocks, mined, flatIdx, idxIdx, bbu, cache, byQuorum, minable, msgs, disconnects>>

PoolCheckPass(hd) ==
    /\ hpc[hd] = "pool"
    /\ ~PoolCheckReturns(hqc[hd])
    /\ hpc' = [hpc EXCEPT ![hd] = "add"]
    /\ UNCHANGED <<tip, blocks, mined, flatIdx, idxIdx, bbu, cache, byQuorum, minable, hqc, msgs, disconnects>>

\* qc.Verify fails: the peer is punished, nothing else changes.
VerifyFails(hd) ==
    /\ hpc[hd] = "add"
    /\ ~hqc[hd].valid
    /\ Finish(hd)
    /\ UNCHANGED <<tip, blocks, mined, flatIdx, idxIdx, bbu, cache, byQuorum, minable, msgs, disconnects>>

\* Mutant of AddCommitment: the commitment is added without qc.Verify.
AddCommitmentUnverified(hd) ==
    /\ hpc[hd] = "add"
    /\ LET r == AddMineableCommitment(State, hqc[hd]) IN
       /\ byQuorum' = r.byQuorum
       /\ minable' = r.minable
    /\ Finish(hd)
    /\ UNCHANGED <<tip, blocks, mined, flatIdx, idxIdx, bbu, cache, msgs, disconnects>>

\* qc.Verify succeeds and AddMineableCommitment runs.
AddCommitment(hd) ==
    /\ hpc[hd] = "add"
    /\ hqc[hd].valid
    /\ LET r == AddMineableCommitment(State, hqc[hd]) IN
       /\ byQuorum' = r.byQuorum
       /\ minable' = r.minable
    /\ Finish(hd)
    /\ UNCHANGED <<tip, blocks, mined, flatIdx, idxIdx, bbu, cache, msgs, disconnects>>

Next ==
    \/ ConnectAccepted
    \/ ConnectRejected
    \/ DisconnectTip
    \/ CheckTemplate
    \/ \E hd \in Handlers :
         \/ ReceiveDropped(hd) \/ ReceiveChecked(hd)
         \/ PoolCheckDrop(hd) \/ PoolCheckPass(hd)
         \/ VerifyFails(hd) \/ AddCommitment(hd)

Spec == Init /\ [][Next]_vars

-----------------------------------------------------------------------------
(* Properties                                                               *)

Commitments ==
    [type : Types \cup {BadType}, idx : 0..(SigningActiveQuorumCount - 1),
     qhash : Seq(Int), signers : 0..MaxSigners, valid : BOOLEAN]

\* Heights a quorum base block can have: the first SigningActiveQuorumCount
\* heights of a cycle.
QuorumHeights == {x \in 0..MaxHeight : x - CycleStart(x) < SigningActiveQuorumCount}

TypeOK ==
    /\ tip \in Seq(Variants) /\ Len(tip) \in 1..(MaxHeight + 1)
    /\ DOMAIN mined \subseteq Types \X Seq(Int)
    /\ \A k \in DOMAIN mined : mined[k].qc \in Commitments
    /\ DOMAIN flatIdx \subseteq Types \X (0..MaxHeight)
    /\ \A x \in DOMAIN flatIdx : flatIdx[x] \in QuorumHeights
    /\ DOMAIN idxIdx \subseteq Types \X (0..(SigningActiveQuorumCount - 1)) \X (0..MaxHeight)
    /\ \A x \in DOMAIN idxIdx : idxIdx[x] \in QuorumHeights
    /\ \A k \in DOMAIN cache : cache[k] \in BOOLEAN
    /\ \A k \in DOMAIN byQuorum : byQuorum[k] \in Commitments
    /\ minable \subseteq Commitments
    /\ hpc \in [Handlers -> {"idle", "pool", "add"}]
    /\ msgs \in 0..MaxMsgs /\ disconnects \in 0..MaxDisconnects

\* The non-null commitments carried by the blocks of the active chain.
ChainBlocks == {GetBlockHash(h) : h \in 1..TipHeight}
MinedEntries ==
    UNION {{[qc |-> blocks[b][j], block |-> b, pos |-> j] :
              j \in {j \in DOMAIN blocks[b] : ~IsNull(blocks[b][j])}} : b \in ChainBlocks}

Graph(f) == {<<x, f[x]>> : x \in DOMAIN f}

\* The records the active chain implies: one primary record per mined
\* commitment naming its block, and one reverse-index entry in the index
\* the rotation state of its quorum block selects.
RecordsMatchChain ==
    /\ Graph(mined) = {<<Key(e.qc), [qc |-> e.qc, block |-> e.block]>> : e \in MinedEntries}
    /\ Graph(flatIdx) =
         {<<<<e.qc.type, Height(e.block)>>, Height(e.qc.qhash)>> :
            e \in {e \in MinedEntries : ~IsQuorumRotationEnabled(Height(e.qc.qhash))}}
    /\ Graph(idxIdx) =
         {<<<<e.qc.type, e.qc.idx, Height(e.block)>>, Height(e.qc.qhash)>> :
            e \in {e \in MinedEntries : IsQuorumRotationEnabled(Height(e.qc.qhash))}}
\* The evoDB records are exactly those the active chain implies, whatever
\* sequence of connects, rejected blocks and UndoBlock calls led here, and
\* DB_BEST_BLOCK_UPGRADE is the tip.  (ProcessCommitment writes, UndoBlock
\* erases.)
StoreMatchesChain == RecordsMatchChain /\ bbu = tip

\* mapHasMinedCommitmentCache never disagrees with DB_MINED_COMMITMENT:
\* ProcessCommitment and UndoBlock invalidate what they change, and no
\* entry is filled from a DB state that is later rolled back.
CacheCoherent == \A k \in DOMAIN cache : cache[k] = (k \in DOMAIN mined)

\* The block-level rule of ProcessBlock: a block accepted at a height in
\* the mining window carries exactly one commitment (possibly null) for
\* every quorum of the cycle whose base block is below it and for which no
\* earlier block mined a non-null commitment, and no other commitment.
SlotsOfBlock(h) ==
    IF ~IsMiningPhase(h) THEN {}
    ELSE {<<t, GetBlockHash(CycleStart(h) + i)>> :
            t \in Types, i \in {i \in QuorumIndexes(h - 1) : CycleStart(h) + i < h}}
MinedBelow(k, h) == \E e \in MinedEntries : Key(e.qc) = k /\ Height(e.block) < h
BlockFillsRequiredSlots ==
    \A h \in DIP0003Height..TipHeight :
       LET qcs == blocks[GetBlockHash(h)]
           req == {k \in SlotsOfBlock(h) : ~MinedBelow(k, h)}
       IN /\ Len(qcs) = Cardinality(req)
          /\ {Key(qcs[j]) : j \in DOMAIN qcs} = req

\* The block an honest miner builds from GetMineableCommitmentsTx on the
\* current tip, with this pool and with HasMinedCommitment answered from
\* the DB (as on any node whose cache agrees with its DB), is accepted by
\* this node's ProcessBlock: the pool only offers commitments that fit
\* their slot, the template agrees with the required count, and this
\* node's cached answers do not make it reject what its peers accept.
TemplateAccepted ==
    TipHeight + 1 >= DIP0003Height =>
       ProcessBlock(Append(tip, 0), Template([State EXCEPT !.cache = EmptyMap], TipHeight + 1)).ok

\* A commitment that a connected block once carried stays minable while
\* its quorum is not mined on the active chain: UndoBlock gives it back to
\* the pool, ProcessCommitment evicts a candidate only as it mines the
\* quorum, and handlers replace a candidate only by a better one.  Over a
\* reorg, a block of the abandoned branch re-mining the quorum, a second
\* undo and handler adds in between, the pool never ends up without a
\* candidate for the quorum.
UndoneCommitmentStaysMinable ==
    \A b \in DOMAIN blocks : \A qc \in Range(blocks[b]) :
        ~IsNull(qc) /\ Key(qc) \notin DOMAIN mined => Key(qc) \in DOMAIN byQuorum

\* Every commitment held in minableCommitments is the candidate of its
\* quorum in minableCommitmentsByQuorum (AddMineableCommitment replaces,
\* ProcessCommitment evicts).
MinableIndexed == minable \subseteq Range(byQuorum)

\* A pool candidate is removed only when its quorum's commitment is mined:
\* ProcessBlock evicts candidates as it goes, and a block rejected after
\* some commitments were processed must not cost the pool those candidates.
CandidateEvictedOnlyWhenMined ==
    [][\A k \in DOMAIN byQuorum : k \notin DOMAIN byQuorum' => k \in DOMAIN mined']_vars

\* When a handler finishes with a valid commitment that passed the cs_main
\* checks and whose quorum is still unmined, the pool holds a candidate at
\* least as good: ProcessMessage only drops a commitment when "we already
\* got a better one locally".
BetterCandidateNotDropped ==
    [][\A hd \in Handlers :
         LET qc == hqc[hd] IN
         (/\ hpc[hd] \in {"pool", "add"} /\ hpc'[hd] = "idle"
          /\ qc.valid /\ Key(qc) \notin DOMAIN mined')
         => /\ Key(qc) \in DOMAIN byQuorum'
            /\ byQuorum'[Key(qc)].signers >= qc.signers]_vars

=============================================================================
