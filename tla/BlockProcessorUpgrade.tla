------------------------ MODULE BlockProcessorUpgrade ------------------------
(***************************************************************************)
(* BlockProcessor on a node that stops and restarts.  A restart loses     *)
(* the memory (mapHasMinedCommitmentCache, the two pool maps, the         *)
(* messages in flight) and keeps the blocks, the active chain and the     *)
(* evoDB as it is on disk.  Before the node runs again, init calls        *)
(* UpgradeDB under cs_main, which replays the active chain's blocks from  *)
(* DIP0003EnforcementHeight when DB_BEST_BLOCK_UPGRADE is not the tip.    *)
(*                                                                         *)
(* The evoDB on disk after a restart is one of                            *)
(*   "synced":  the store of the tip (evoDB and chainstate flushed        *)
(*              together),                                                 *)
(*   "legacy":  a database of a version that wrote none of these records, *)
(*   "lagging": the store as of the last evoDB flush (FlushEvo), while    *)
(*              the chainstate on disk is the current tip.                *)
(* Flushing is done by the caller (FlushStateToDisk), outside this file.  *)
(* Not covered: a crash inside UpgradeDB (it writes the same records      *)
(* again on the next start) and pruned blocks (the replay then fails      *)
(* before its first write).                                               *)
(***************************************************************************)
EXTENDS BlockProcessor

CONSTANTS
    DIP0003EnforcementHeight, \* consensus.DIP0003EnforcementHeight
    RestartKinds,             \* the evoDB states a restart may find on disk
    MaxRestarts               \* bound: restarts in a behaviour

ASSUME RestartKinds \subseteq {"synced", "legacy", "lagging"}

VARIABLES
    running,    \* init has finished: UpgradeDB returned true
    evoDisk,    \* the evoDB records as of the last flush
    restarts    \* restarts so far

upVars == <<running, evoDisk, restarts>>
allVars == <<vars, upVars>>

\* The evoDB records of the running node.
Store == [mined |-> mined, flatIdx |-> flatIdx, idxIdx |-> idxIdx, bbu |-> bbu]

UpInit ==
    /\ Init
    /\ running = TRUE
    /\ evoDisk = Store
    /\ restarts = 0

\* CEvoDB::CommitRootTransaction in FlushStateToDisk.
FlushEvo ==
    /\ running /\ "lagging" \in RestartKinds
    /\ evoDisk # Store
    /\ evoDisk' = Store
    /\ UNCHANGED <<vars, running, restarts>>

\* The evoDB records a restart finds.
DiskStore(kind) ==
    CASE kind = "synced"  -> Store
      [] kind = "legacy"  -> [mined |-> EmptyMap, flatIdx |-> EmptyMap,
                              idxIdx |-> EmptyMap, bbu |-> NullHash]
      [] kind = "lagging" -> evoDisk

\* The process stops at any point and is started again: memory is lost,
\* handler threads are gone, the disk is kept.
Restart(kind) ==
    /\ running /\ restarts < MaxRestarts
    /\ LET d == DiskStore(kind) IN
       /\ mined' = d.mined /\ flatIdx' = d.flatIdx /\ idxIdx' = d.idxIdx /\ bbu' = d.bbu
    /\ cache' = EmptyMap /\ byQuorum' = EmptyMap /\ minable' = {}
    /\ hpc' = [hd \in Handlers |-> "idle"] /\ hqc' = [hd \in Handlers |-> NoQc]
    /\ running' = FALSE
    /\ restarts' = restarts + 1
    /\ UNCHANGED <<tip, blocks, msgs, disconnects, evoDisk>>

\* Mutant of ReplayCommitment: null commitments are written too.
ReplayCommitmentKeepNull(st, b, qc) ==
    LET rotation == IsQuorumRotationEnabled(Height(qc.qhash)) IN
    [st EXCEPT
       !.mined = (Key(qc) :> [qc |-> qc, block |-> b]) @@ @,
       !.flatIdx = IF rotation THEN @ ELSE (<<qc.type, Height(b)>> :> Height(qc.qhash)) @@ @,
       !.idxIdx = IF rotation THEN (<<qc.type, qc.idx, Height(b)>> :> Height(qc.qhash)) @@ @ ELSE @]

\* The loop body of UpgradeDB for one commitment of block b: raw writes
\* of the primary record and of the reverse-index entry chosen by rotation
\* at the quorum base block (LookupBlockIndex(qc.quorumHash)).
ReplayCommitment(st, b, qc) ==
    LET rotation == IsQuorumRotationEnabled(Height(qc.qhash)) IN
    IF IsNull(qc) THEN st
    ELSE [st EXCEPT
            !.mined = (Key(qc) :> [qc |-> qc, block |-> b]) @@ @,
            !.flatIdx = IF rotation THEN @ ELSE (<<qc.type, Height(b)>> :> Height(qc.qhash)) @@ @,
            !.idxIdx = IF rotation THEN (<<qc.type, qc.idx, Height(b)>> :> Height(qc.qhash)) @@ @ ELSE @]

\* One block of the replay: its commitments in multimap order, then
\* DB_BEST_BLOCK_UPGRADE.
ReplayBlock(st, b) ==
    [FoldLeft(LAMBDA s, qc : ReplayCommitment(s, b, qc), st, ByType(blocks[b])) EXCEPT !.bbu = b]

\* The blocks the replay visits: ChainActive()[DIP0003EnforcementHeight]
\* up to the tip, following ChainActive().Next.
ReplayHeights == [i \in 1..(TipHeight - DIP0003EnforcementHeight + 1) |-> DIP0003EnforcementHeight + i - 1]

\* UpgradeDB at startup: nothing to do when the marker is the tip;
\* otherwise every block of the active chain from the enforcement height
\* is replayed, adding records and never erasing any.
UpgradeDB ==
    /\ ~running
    /\ LET r == IF bbu = tip \/ TipHeight < DIP0003EnforcementHeight THEN Store
                ELSE FoldLeft(LAMBDA st, x : ReplayBlock(st, GetBlockHash(x)), Store, ReplayHeights)
       IN /\ mined' = r.mined /\ flatIdx' = r.flatIdx /\ idxIdx' = r.idxIdx /\ bbu' = r.bbu
    /\ running' = TRUE
    /\ UNCHANGED <<tip, blocks, cache, byQuorum, minable, hpc, hqc, msgs, disconnects, evoDisk, restarts>>

UpNext ==
    \/ running /\ Next /\ UNCHANGED upVars
    \/ FlushEvo
    \/ \E kind \in RestartKinds : Restart(kind)
    \/ UpgradeDB

UpSpec == UpInit /\ [][UpNext]_allVars

-----------------------------------------------------------------------------
(* Properties                                                               *)

\* Once UpgradeDB has returned true, the evoDB records are exactly those
\* the active chain implies, whatever the restart found on disk: the
\* replay rebuilds what is missing and the processor then keeps the store
\* in step with connects and UndoBlock.
RecoveredStoreMatchesChain == running => RecordsMatchChain

=============================================================================
