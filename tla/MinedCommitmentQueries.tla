------------------------ MODULE MinedCommitmentQueries ------------------------
(***************************************************************************)
(* The read side of the mined-commitment store: the reverse indexes of    *)
(* BlockProcessor laid out as evoDB keys (InvertedHeightKey), and the     *)
(* iterator scans of GetMinedCommitmentsUntilBlock,                        *)
(* GetLastMinedCommitmentsByQuorumIndexUntilBlock and the queries built   *)
(* on them, run on every state the processor reaches.                      *)
(*                                                                         *)
(* The scans read m_evoDb.GetCurTransaction(), which the chain thread     *)
(* writes only under cs_main between calls, so a query sees one state.   *)
(* The block passed as pindex is a block of the active chain.             *)
(***************************************************************************)
EXTENDS BlockProcessor, InvertedHeightKey

CONSTANTS
    TypeId,           \* the LLMQType byte of each type of Types
    OtherTypeId,      \* the byte of an LLMQ type whose entries share the namespaces
    MaxCount          \* bound: the largest maxCount asked for

ASSUME TypeId \in [Types -> 0..255] /\ OtherTypeId \in 0..255 \ Range(TypeId)

-----------------------------------------------------------------------------
(* The evoDB key space                                                      *)

\* Reverse-index records: key tuple and value (the quorum base height).
IndexRecords ==
    {<<BuildInversedHeightKey(TypeId[x[1]], x[2]), flatIdx[x]>> : x \in DOMAIN flatIdx}
    \cup {<<BuildInversedHeightKeyIndexed(TypeId[x[1]], x[3], x[2]), idxIdx[x]>> : x \in DOMAIN idxIdx}

\* Records another LLMQ type wrote into the same two namespaces.
OtherRecords ==
    {<<BuildInversedHeightKey(OtherTypeId, 1), 0>>,
     <<BuildInversedHeightKeyIndexed(OtherTypeId, 1, 0), 0>>}

\* m_evoDb.GetCurTransaction(): its <<key bytes, value>> records in the
\* iterator's (bytewise) order.
Snapshot ==
    SortSeq(SetToSeq({<<Serialize(r[1]), r[2]>> : r \in IndexRecords \cup OtherRecords}),
            LAMBDA x, y : BytesLess(x[1], y[1]))

\* dbIt->Seek(key): the first position whose key is not below key.
Seek(order, key) ==
    LET k == Serialize(key)
        after == {j \in DOMAIN order : ~BytesLess(order[j][1], k)}
    IN IF after = {} THEN Len(order) + 1 ELSE Min(after)

\* pindex->GetAncestor(quorumHeight), pindex at height h of the active chain.
GetAncestor(h, quorumHeight) == IF quorumHeight <= h THEN GetBlockHash(quorumHeight) ELSE NullHash

\* GetMinedCommitment: the DB_MINED_COMMITMENT record of the quorum, the
\* commitment and the block that mined it, or nothing (nullptr).
NoRecord == [qc |-> NoQc, block |-> NullHash]
GetMinedCommitment(llmqType, quorumHash) ==
    IF <<llmqType, quorumHash>> \in DOMAIN mined THEN mined[<<llmqType, quorumHash>>] ELSE NoRecord

-----------------------------------------------------------------------------
(* The scans                                                                *)

\* The loop of GetMinedCommitmentsUntilBlock from position pos.
RECURSIVE FlatScan(_, _, _, _, _, _)
FlatScan(order, pos, llmqType, h, maxCount, ret) ==
    IF pos > Len(order) \/ Len(ret) >= maxCount THEN ret
    ELSE LET b == order[pos][1] IN
         IF ~KeyParses(b, FALSE) THEN ret
         ELSE LET curKey == ParseKey(b, FALSE) IN
              IF ~TupleLess(curKey, BuildInversedHeightKey(llmqType, 0)) THEN ret
              ELSE IF curKey.tag # DB_MINED_COMMITMENT_BY_INVERSED_HEIGHT
                      \/ curKey.nums[1] # llmqType THEN ret
              ELSE IF DecodeMinedHeight(curKey) > h THEN ret
              ELSE FlatScan(order, pos + 1, llmqType, h, maxCount,
                            Append(ret, GetAncestor(h, order[pos][2])))

\* Mutant: the seek key built for the height below pindex's.
GetMinedCommitmentsUntilBlockSkipTip(S, t, h, maxCount) ==
    FlatScan(S, Seek(S, BuildInversedHeightKey(TypeId[t], h - 1)),
             TypeId[t], h, maxCount, <<>>)

GetMinedCommitmentsUntilBlock(S, t, h, maxCount) ==
    FlatScan(S, Seek(S, BuildInversedHeightKey(TypeId[t], h)),
             TypeId[t], h, maxCount, <<>>)

\* The loop of GetLastMinedCommitmentsByQuorumIndexUntilBlock; NullHash is
\* std::nullopt.
RECURSIVE IndexedScan(_, _, _, _, _, _, _)
IndexedScan(order, pos, llmqType, h, quorumIndex, cycle, currentCycle) ==
    IF pos > Len(order) THEN NullHash
    ELSE LET b == order[pos][1] IN
         IF ~KeyParses(b, TRUE) THEN NullHash
         ELSE LET curKey == ParseKey(b, TRUE) IN
              IF ~TupleLess(curKey, BuildInversedHeightKeyIndexed(llmqType, 0, quorumIndex)) THEN NullHash
              ELSE IF curKey.tag # DB_MINED_COMMITMENT_BY_INVERSED_HEIGHT_Q_INDEXED
                      \/ curKey.nums[1] # llmqType THEN NullHash
              ELSE IF DecodeMinedHeight(curKey) > h THEN NullHash
              ELSE IF currentCycle = cycle THEN GetAncestor(h, order[pos][2])
              ELSE IndexedScan(order, pos + 1, llmqType, h, quorumIndex, cycle, currentCycle + 1)

GetLastMinedCommitmentsByQuorumIndexUntilBlock(S, t, h, quorumIndex, cycle) ==
    IndexedScan(S, Seek(S, BuildInversedHeightKeyIndexed(TypeId[t], h, quorumIndex)),
                TypeId[t], h, quorumIndex, cycle, 0)

\* Mutant: the indexes without a quorum kept in the result.
GetLastMinedCommitmentsPerQuorumIndexUntilBlockKeepNull(S, t, h, cycle) ==
    [i \in 1..SigningActiveQuorumCount |->
       <<i - 1, GetLastMinedCommitmentsByQuorumIndexUntilBlock(S, t, h, i - 1, cycle)>>]

\* The found <<quorumIndex, block>> pairs, in index order.
GetLastMinedCommitmentsPerQuorumIndexUntilBlock(S, t, h, cycle) ==
    SelectSeq([i \in 1..SigningActiveQuorumCount |->
                 <<i - 1, GetLastMinedCommitmentsByQuorumIndexUntilBlock(S, t, h, i - 1, cycle)>>],
              LAMBDA p : p[2] # NullHash)

Blocks(pairs) == [j \in DOMAIN pairs |-> pairs[j][2]]

RECURSIVE IndexedLoop(_, _, _, _, _, _)
IndexedLoop(S, t, h, maxCount, cycle, ret) ==
    IF Len(ret) >= maxCount THEN ret
    ELSE LET cycleRet == Blocks(GetLastMinedCommitmentsPerQuorumIndexUntilBlock(S, t, h, cycle)) IN
         IF cycleRet = <<>> THEN ret
         ELSE IndexedLoop(S, t, h, maxCount, cycle + 1,
                          ret \o SubSeq(cycleRet, 1, Min({maxCount - Len(ret), Len(cycleRet)})))

GetMinedCommitmentsIndexedUntilBlock(S, t, h, maxCount) == IndexedLoop(S, t, h, maxCount, 0, <<>>)

GetMinedAndActiveCommitmentsUntilBlock(S, h) ==
    [t \in Types |->
       IF IsQuorumRotationEnabled(h)
       THEN Blocks(GetLastMinedCommitmentsPerQuorumIndexUntilBlock(S, t, h, 0))
       ELSE GetMinedCommitmentsUntilBlock(S, t, h, SigningActiveQuorumCount)]

-----------------------------------------------------------------------------
(* References computed from the blocks of the active chain                  *)

\* The base blocks of the non-null commitments of type t mined up to
\* height h into the index selected by rotation, newest mined first.
ChainMinedNewestFirst(E, t, h, rotated, P(_)) ==
    LET S == {e \in E :
                /\ e.qc.type = t /\ Height(e.block) <= h /\ P(e.qc)
                /\ IsQuorumRotationEnabled(Height(e.qc.qhash)) = rotated}
        s == SetToSortSeq(S, LAMBDA a, b : Height(a.block) > Height(b.block))
    IN [j \in DOMAIN s |-> s[j].qc.qhash]

Prefix(s, n) == SubSeq(s, 1, Min({n, Len(s)}))

RefMined(E, t, h) == ChainMinedNewestFirst(E, t, h, FALSE, LAMBDA qc : TRUE)

\* Per quorum index, its list of mined quorums, newest first.
RefPerIndex(E, t, h) ==
    [i \in 0..(SigningActiveQuorumCount - 1) |->
       ChainMinedNewestFirst(E, t, h, TRUE, LAMBDA qc : qc.idx = i)]

\* The cycle-th newest quorum of every index that has one, in index order.
RefCycle(per, cycle) ==
    LET has == SelectSeq([i \in 1..SigningActiveQuorumCount |-> i - 1],
                         LAMBDA i : Len(per[i]) > cycle)
    IN [j \in DOMAIN has |-> per[has[j]][cycle + 1]]

\* All cycles, newest first, before the maxCount cut.
RefIndexed(per) ==
    FlattenSeq([c \in 1..Max({Len(per[i]) : i \in DOMAIN per}) |-> RefCycle(per, c - 1)])

-----------------------------------------------------------------------------
(* Properties                                                               *)

\* The handler threads write only the pool; one that is busy can always
\* finish without a step of the chain thread, so every chain and evoDB
\* state is reached with all handlers idle, and the query properties are
\* checked in those states.
HandlersIdle == \A hd \in Handlers : hpc[hd] = "idle"

\* GetMinedCommitmentsUntilBlock, for every block of the active chain and
\* every maxCount, lists the quorums of the flat index's commitments mined
\* up to that block, newest mined first: the inverted-height keys, the seek
\* and the stop tests (curKey >= lastKey, the namespace and type test, the
\* height test) together give exactly that list after any sequence of
\* connects, rejected blocks and UndoBlock calls.
MinedUntilNewestFirst ==
    HandlersIdle =>
    LET S == Snapshot  E == MinedEntries IN
    \A t \in Types, h \in DIP0003Height..TipHeight :
       LET ref == RefMined(E, t, h) IN
       \A n \in 1..MaxCount : GetMinedCommitmentsUntilBlock(S, t, h, n) = Prefix(ref, n)

\* GetMinedCommitmentsIndexedUntilBlock lists, cycle offset by cycle offset,
\* the offset-th newest quorum of each index mined up to the block, in
\* index order, cut at maxCount: the per-index seek stops at the next
\* index's keys and counts cycles per index.
IndexedUntilNewestFirst ==
    HandlersIdle =>
    LET S == Snapshot  E == MinedEntries IN
    \A t \in Types, h \in DIP0003Height..TipHeight :
       LET ref == RefIndexed(RefPerIndex(E, t, h)) IN
       \A n \in 1..MaxCount : GetMinedCommitmentsIndexedUntilBlock(S, t, h, n) = Prefix(ref, n)

\* GetMinedAndActiveCommitmentsUntilBlock gives, at every block, the newest
\* SigningActiveQuorumCount quorums when rotation is off there, and the
\* newest quorum of each index when it is on; and GetMinedCommitment, which
\* its callers use to load each of them, finds the commitment of that
\* quorum mined by an ancestor of the block: the reverse index and the
\* primary records agree.
ActiveQuorumsFromChain ==
    HandlersIdle =>
    LET S == Snapshot  E == MinedEntries IN
    \A h \in DIP0003Height..TipHeight :
       LET active == GetMinedAndActiveCommitmentsUntilBlock(S, h) IN
       /\ active =
            [t \in Types |-> IF IsQuorumRotationEnabled(h) THEN RefCycle(RefPerIndex(E, t, h), 0)
                             ELSE Prefix(RefMined(E, t, h), SigningActiveQuorumCount)]
       /\ \A t \in Types : \A q \in Range(active[t]) :
            LET r == GetMinedCommitment(t, q) IN
            /\ r.qc.qhash = q /\ r.qc.type = t
            /\ IsPrefix(r.block, GetBlockHash(h))

=============================================================================
