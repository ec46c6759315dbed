--------------------- MODULE BlockProcessorRefinement ---------------------
(***************************************************************************)
(* BlockProcessor implements MinedLog: the evoDB records, read through    *)
(* the mapping below, change only as MinedLog allows.  A connect appends  *)
(* the block's mined slots and their records, a disconnect removes those  *)
(* of the tip, and every other step (messages, the pool, rejected blocks) *)
(* leaves the log as it is.                                                *)
(***************************************************************************)
EXTENDS BlockProcessor

\* A commitment's slot: its type and the height of its quorum base block.
SlotOf(qc) == <<qc.type, Height(qc.qhash)>>

\* The reverse-index entry of a slot mined at height h, as ProcessCommitment
\* files it: indexed by quorum index when rotation is on at the quorum
\* base block, flat otherwise; the value is the quorum base height.
StoreIndexKey(s, h) ==
    IF IsQuorumRotationEnabled(s[2])
    THEN <<s[1], s[2] - CycleStart(s[2]), h, s[2]>>
    ELSE <<s[1], h, s[2]>>

\* The refinement mapping.
ChainLog ==
    [i \in 1..Len(tip) |->
       LET qcs == blocks[GetBlockHash(i - 1)] IN
       {SlotOf(qcs[j]) : j \in {j \in DOMAIN qcs : ~IsNull(qcs[j])}}]
MinedLogOf == {<<SlotOf(mined[k].qc), Height(mined[k].block)>> : k \in DOMAIN mined}
IndexLog ==
    {<<x[1], x[2], flatIdx[x]>> : x \in DOMAIN flatIdx}
    \cup {<<x[1], x[2], x[3], idxIdx[x]>> : x \in DOMAIN idxIdx}

Log == INSTANCE MinedLog
         WITH Slot <- Types \X QuorumHeights, IndexKey <- StoreIndexKey,
              chain <- ChainLog, mined <- MinedLogOf, index <- IndexLog

\* Every behaviour of the processor is a behaviour of MinedLog: each
\* ProcessBlock that succeeds mines only slots not mined on the chain and
\* writes exactly their records, each UndoBlock erases exactly the tip's,
\* and no other step (ProcessMessage, a rejected block rolled back, the
\* pool) changes the store.
Refines == Log!Spec

=============================================================================
