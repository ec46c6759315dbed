# TLA+ models of the LLMQ quorum-commitment block processor

This directory models `CQuorumBlockProcessor` in `src/src/llmq/blockprocessor.cpp`.
That class decides which final commitments of a long-living masternode quorum (LLMQ)
a block must carry and may carry. It records mined commitments in the evoDB and keeps
a pool of commitments waiting to be mined. Everything is checked with TLC.

## 1. Inventory

### Parts of the system

| Part | Code | State | Operations that change state |
|---|---|---|---|
| Quorum cycle arithmetic | `IsMiningPhase`, `GetQuorumBlockHash`, `GetNumCommitmentsRequired` (451-508) | none; pure functions of the active chain | none |
| Mined-commitment store | `DB_MINED_COMMITMENT`, `..._BY_INVERSED_HEIGHT`, `..._Q_INDEXED`, `DB_BEST_BLOCK_UPGRADE` | evoDB records | `ProcessCommitment` writes; `UndoBlock` erases; `UpgradeDB` rebuilds |
| Mined cache | `mapHasMinedCommitmentCache`, `HasMinedCommitment` (510-526) | per type, an LRU of quorum hash -> bool | filled on a miss; erased by `ProcessCommitment` and `UndoBlock` |
| Mineable pool | `minableCommitments`, `minableCommitmentsByQuorum`; `AddMineableCommitment` (705-735), `GetMineableCommitments[Tx]` (750-826) | hash -> commitment; (type, quorum hash) -> hash | add or replace from the network and from `UndoBlock`; evict in `ProcessCommitment` |
| Network intake | `ProcessMessage` (45-137) | none of its own | adds to the pool |
| Block connect and disconnect | `ProcessBlock` (139-198, with `fJustCheck` for `TestBlockValidity`), `ProcessCommitment` (213-304), `GetCommitmentsFromBlock` (410-449), `UndoBlock` (306-350) | the store, the cache, the pool | connect, reject, disconnect, template check |
| Crash upgrade | `UpgradeDB` (353-408) | the store | replays blocks from disk after a restart |
| Queries | `GetMinedCommitment`, `GetMinedCommitment*`, `GetLastMinedCommitments*`, `GetMinedAndActiveCommitmentsUntilBlock` (528-697) | none; they read the store | none |

`CFinalCommitment::Verify`/`VerifyNull`, `GetLLMQParams` and
`utils::IsQuorumRotationEnabled` are not in `src/`:

- verification is a boolean field of a commitment;
- an unknown type is the model value `BadType`;
- rotation activation is modelled from the spec as a threshold height (`IsQuorumRotationEnabled` is marked spec_modelled).

### Actors and how they interact

- **The chain thread** holds `cs_main`. It runs `ProcessBlock` (through ConnectBlock) and `UndoBlock` (through DisconnectBlock).
  - Each call is one atomic step of the model.
  - ConnectBlock runs inside an evoDB transaction. If `ProcessBlock` fails, the caller discards that transaction, so the DB writes are rolled back.
  - The cache and the pool are ordinary memory and are *not* rolled back.
- **Message handler threads** run `ProcessMessage`. It takes `cs_main` for the chain checks and releases it. It then takes `minableCommitmentsCs` for the "better one locally" check and releases that too. Finally it verifies and calls `AddMineableCommitment`.
  - The model splits it at those lock boundaries, giving three steps.
  - The chain thread may connect or disconnect blocks in between.
- **The miner** builds blocks from `GetMineableCommitmentsTx`. An honest block carries exactly that template. An adversarial block carries any bounded sequence of commitments.
- **Readers of `HasMinedCommitment` without `cs_main`.** The function asserts no lock. It reads the cache under `minableCommitmentsCs`, reads the DB with no processor lock, and inserts the result under the lock again. `BlockProcessorReader` models such a caller as three steps.

### Hard behaviours

- **Message handling:** interleaving of the three `ProcessMessage` steps with connects and reorgs.
- **Rejected blocks:**
  - a block that fails half-way (partial failure);
  - the DB is rolled back while the cache and the pool keep what the block did to them.
- **Reorgs:**
  - `UndoBlock` re-adds each undone commitment to the pool;
  - later blocks on a new branch must be able to mine it again.
- **Rotation:**
  - several quorum indexes per cycle;
  - null and non-null commitments in one block;
  - rotation evaluated at different blocks by different functions.
- **Cache fills** that race with the writer. This is the classic stale read-through fill.
- **Crash and restart** (`UpgradeDB`): the node stops at any point, loses its memory, and finds on disk an evoDB that is in step with the chain, of an older version, or behind the chainstate (`BlockProcessorUpgrade`).

### Properties, per part

- **Store:** the evoDB records are exactly those implied by the blocks of the active chain (`StoreMatchesChain`), also after a restart and `UpgradeDB` (`RecoveredStoreMatchesChain`); every step of the processor is a step of an append/retract log of mined slots (`Refines`).
- **Queries:** every scan returns what the active chain implies (`MinedUntilNewestFirst`, `IndexedUntilNewestFirst`, `ActiveQuorumsFromChain`), on keys that round-trip and sort by descending height (`KeysRoundTrip`, `KeysDescend`).
- **Cache:** every cache entry agrees with the DB (`CacheCoherent`).
- **Block rules:** every accepted block in the mining window carries one commitment per open slot (`BlockFillsRequiredSlots`).
- **Pool:**
  - every entry of `minableCommitments` is indexed (`MinableIndexed`);
  - a candidate is evicted only when its quorum is mined (`CandidateEvictedOnlyWhenMined`);
  - a better commitment is never dropped (`BetterCandidateNotDropped`);
  - a commitment a reorg undid keeps a pool candidate while its quorum is unmined (`UndoneCommitmentStaysMinable`).
- **Miner and validator together:** the honest template built on the tip is accepted by this node (`TemplateAccepted`).

## 2. Modules

### `BlockProcessor.tla`: the processor on one node

**Blocks.**
- A block id is its path from genesis: the sequence of variants chosen at each height. Competing branches therefore have distinct hashes, and the ancestors of a block are its prefixes.
- `NullHash` (`<<>>`) stands for `uint256()`. `UnknownHash` is a block the node never saw.

**Commitments.** A commitment is a record `[type, idx, qhash, signers, valid]`. Zero signers means `IsNull`.

**State.** Each variable maps to code state as follows:

| Variable | Code state |
|---|---|
| `tip` | `::ChainActive().Tip()` |
| `blocks` | the contents of every block ever connected, so a block reconnected after a reorg carries what it carried |
| `mined` | `DB_MINED_COMMITMENT` records: (type, quorum hash) -> commitment and mined block |
| `flatIdx`, `idxIdx` | the two reverse indexes: mined height (and index) -> quorum height |
| `bbu` | `DB_BEST_BLOCK_UPGRADE` |
| `cache` | `mapHasMinedCommitmentCache` |
| `byQuorum`, `minable` | the two pool maps; a commitment is its own hash |
| `hpc`, `hqc` | each handler's program counter and message |
| `msgs`, `disconnects` | bounds |

**Functions.** The code's functions are operators over a `State` record:

- `HasMinedCommitment` and `FillCache` (its insert on a miss);
- `AddMineableCommitment`;
- `RequiredSlots` (`GetNumCommitmentsRequired`);
- `GetMineableCommitments` and `Template`;
- `CommitmentsExtractable` (`GetCommitmentsFromBlock`);
- `CountsMatch`;
- `CheckCommitment` (the checks of `ProcessCommitment` up to the `fJustCheck` return, lines 213-266) and `Writes` (whether the write part runs);
- `ProcessCommitment` (the checks, then the writes and the pool eviction);
- `ProcessBlockWith(b, qcs, fJustCheck)`: `ProcessBlock` with its `fJustCheck` argument (the extraction and count checks, then a `FoldLeft` over the commitments in multimap order). `ProcessBlock` is the call with `FALSE`; `TestBlockValidity` is the call with `TRUE`, where each commitment stops after `CheckCommitment`, so nothing is written and nothing evicted;
- `UndoCommitment`, `UndoBlock`.

`ProcessBlock` returns the state together with an `ok` flag. That is how an early `return false` is modelled while keeping the cache and pool side effects made before it.

**Actions.**

| Action | What it models |
|---|---|
| `ConnectAccepted` | `ProcessBlock` succeeds. Everything is committed. |
| `ConnectRejected` | `ProcessBlock` fails. The caller discards the evoDB transaction, so only the cache and the pool keep the block's effects. This caller behaviour is not in `src/`, so it is spec_modelled. |
| `DisconnectTip` | `UndoBlock` |
| `CheckTemplate` | `BlockAssembler::CreateNewBlock` calls `TestBlockValidity` on its template (not in `src/`, spec_modelled). Only the cache fills of `HasMinedCommitment` remain; the caller discards the evoDB transaction. |
| `ReceiveDropped`, `ReceiveChecked` | the `cs_main` part of `ProcessMessage` |
| `PoolCheckDrop`, `PoolCheckPass` | the pool check, with its comparison exactly as written |
| `VerifyFails`, `AddCommitment` | verification, then `AddMineableCommitment` |

### `BlockProcessorReader.tla`: `BlockProcessor` plus readers without `cs_main`

- It adds the actions `ReaderCacheHit`, `ReaderCacheMiss`, `ReaderDbRead` and `ReaderInsert`.
- `ReaderInsert` overwrites, as `unordered_lru_cache::insert` does.
- These readers exist only in this module, so the core runs keep the single-lock view.

### `MC_BlockProcessor.tla`, `MC_BlockProcessorReader.tla`

These give the model value set `Variants = {0, 1}`: two competing blocks per height (`MC_Variants`) or one (`MC_OneVariant`), and `MC_NetQcs`, used by the query and upgrade runs, which restricts peers to valid one-signer commitments for the quorum blocks of the active era.

### `InvertedHeightKey.tla`: the reverse-index keys, byte by byte

It models `BuildInversedHeightKey` and `BuildInversedHeightKeyIndexed` (lines 201-211) on a little-endian host, which is what the code runs on.
- `InvertedField` is `htobe32(UINT32_MAX - nMinedHeight)`. `Bswap` reverses the bytes.
- `Serialize` gives the bytes the evoDB stores for a key tuple: the string as its length byte plus its bytes, the type as one byte, an `int` or `uint32_t` as its little-endian bytes. The stored height bytes are therefore the big-endian form of the inverted height.
- `BytesLess` is LevelDB's bytewise order on keys, and also `std::tuple`'s order on the in-memory tuple (`TupleLess`).
- `KeyParses` and `ParseKey` are `CDBIterator::GetKey` into a tuple of either shape.
- `DecodeMinedHeight` is `UINT32_MAX - be32toh(...)` (lines 565 and 608).

Serialization, the comparator and the endian helpers are not in `src/`, so those operators are spec_modelled. The height field is `KeyBits` wide. TLC's integers are 32-bit signed, so the runs use 16 bits. That width has the same structure as 32: more than one byte, and carries between bytes.

`MC_InvertedHeightKey.tla` walks the height through every value of the field, one per state.

### `MinedCommitmentQueries.tla`: the queries over the store

It extends `BlockProcessor` and `InvertedHeightKey`.
- `IndexRecords` lays out `flatIdx` and `idxIdx` as evoDB records. `OtherRecords` adds the records of another LLMQ type in the same two namespaces; their keys sort right after this type's.
- `Snapshot` is `GetCurTransaction()`: the records in bytewise key order. `Seek` is `dbIt->Seek`.
- `FlatScan` and `IndexedScan` are the iterator loops, written as recursive operators. Every `break` and `return std::nullopt` is one `IF` branch, in the code's order.
- `GetMinedCommitmentsUntilBlock`, `GetLastMinedCommitmentsByQuorumIndexUntilBlock`, `GetLastMinedCommitmentsPerQuorumIndexUntilBlock`, `GetMinedCommitmentsIndexedUntilBlock` (`IndexedLoop`) and `GetMinedAndActiveCommitmentsUntilBlock` are one operator each.

The reference (`RefMined`, `RefPerIndex`, `RefCycle`, `RefIndexed`) is computed from the blocks of the active chain alone. For each type, it sorts the non-null commitments mined up to a height, newest first, split by the era of their quorum.

The properties are evaluated in the states where every handler is idle (`HandlersIdle`). This loses nothing:
- the handler steps write only the pool;
- a busy handler can always finish without a chain step.

So every chain and store state is also reached with all handlers idle. The guard makes the check about three times cheaper.

`MC_MinedCommitmentQueries.tla` gives type byte 1 for the single type, and type byte 2 for the other type. Its runs use `MC_NetQcs`: they are about what the queries return, not about rejections, which the core runs cover.

### `BlockProcessorUpgrade.tla`: restart and `UpgradeDB`

It extends `BlockProcessor` with `running`, `evoDisk` (the evoDB as of its last flush) and `restarts`.
- `FlushEvo` is the evoDB commit of `FlushStateToDisk`, done by the caller outside this file.
- `Restart(kind)` stops the node at any step: the cache, the pool, the handler threads and their messages are lost. The store becomes what the disk holds: `"synced"` (evoDB flushed with the chainstate), `"legacy"` (a database from before these records, `DB_BEST_BLOCK_UPGRADE` null) or `"lagging"` (the evoDB of the last `FlushEvo`, the chainstate at the current tip).
- `UpgradeDB` (353-408) is one atomic step under `cs_main` before the node runs again: when the marker is not the tip, it replays the active chain from `DIP0003EnforcementHeight`. `ReplayBlock` folds `ReplayCommitment` over the block's commitments in multimap order and then writes the marker. `ReplayCommitment` skips nulls and writes the primary record and the index chosen by rotation at the quorum block (383-397). It never erases a record.
- While `running`, the processor's own `Next` runs unchanged.

`MC_BlockProcessorUpgrade.tla` instantiates it; its runs use one block per height (`MC_OneVariant` of `MC_BlockProcessor`).

### `MinedLog.tla` and `BlockProcessorRefinement.tla`: what the store promises

`MinedLog` is the abstract store: a chain of sets of mined slots. `Extend(S)` appends a block mining slots that are not mined yet, and records each with its height and its index key. `Retract` removes the last block and exactly its records. Its constants are the slot set and the index key, so it says nothing about rotation.

`BlockProcessorRefinement` maps the processor onto it:
- a slot is `<<type, quorum height>>` (`SlotOf`, the `DB_MINED_COMMITMENT` key);
- `StoreIndexKey` is the reverse-index key the processor picks: flat `<<type, mined height>>`, or `<<type, index, mined height>>` under rotation at the quorum block (lines 287-291);
- `ChainLog`, `MinedLogOf` and `IndexLog` read the active chain, `mined` and both index maps.

`Refines == Log!Spec` is checked as a `PROPERTY`: every connect is an `Extend` or a stutter, every `UndoBlock` a `Retract`, every rejected block, handler step and cache fill a stutter.

## 3. Runs

The passing runs check deep invariants on two configurations.

**`core_nonrot.cfg`** (pre-rotation era, adversarial blocks). It checks `TypeOK`, `StoreMatchesChain`, `CacheCoherent`, `BlockFillsRequiredSlots`, `TemplateAccepted` and `UndoneCommitmentStaysMinable`. Bounds:
- `DkgInterval` = 3 and the mining window is 4..5. Heights run to 5, so a full cycle is covered: the quorum block, both window blocks, and a second commitment attempted after the first is mined.
- Two competing variants per height and two disconnects give a reorg across the quorum block and across the mined block.
- One network message and blocks of up to 2 commitments with signers 0..2 give all of the following:
  - duplicate commitments in one block;
  - null and non-null commitments;
  - invalid commitments;
  - a commitment naming the wrong block.

`UndoneCommitmentStaysMinable` is about UndoBlock's re-add ("if a reorg happened, we should allow to mine this commitment later", line 344). Every non-null commitment that some connected block carried, and whose quorum is not mined on the active chain, must still have a candidate in `minableCommitmentsByQuorum`. Breaking it takes a connect, an undo and, on the way, any of: a handler adding a commitment for the quorum, a block of the other branch mining the quorum and evicting the candidate, a second undo, a rejected block.

Result: about 100,000 distinct states in about 70 s.

**`core_rot.cfg`** (rotation active from the cycle start at 4, two quorum indexes, honest blocks). It checks `Refines` (on `MC_BlockProcessorRefinement`), `CacheCoherent` and `TemplateAccepted`. `Refines` is the run's check of the store. It covers each slot, its mined height and each reverse-index entry, flat or per quorum index, by connect and by undo. The record contents and `DB_BEST_BLOCK_UPGRADE` are not rotation-dependent, and `core_nonrot` checks them with `StoreMatchesChain`. Bounds:
- Heights run to 7: quorum blocks 4 and 5, and mining window 6..7.
- Three disconnects can undo the whole window and a quorum block.

Result: about 160,000 distinct states in about 60 s.

Together the two runs fire every action and every disjunct of `Next`.

**`key_encoding.cfg`** walks every mined height of a 16-bit field (65,536 states, about 15 s). It checks two properties, each for type bytes 0 and 255 and quorum indexes 0 and 1:
- `KeysRoundTrip`: each key serializes, reads back into the same tuple, and decodes to its height.
- `KeysDescend`: the key of height h+1 sorts before the key of h, including across the carry from one byte to the next.

**`queries.cfg`** covers both eras in one chain. Rotation activates at the cycle start 9. Heights run to 14, so the flat index receives quorums 3 and 6 (mined at 5 and 8), and the indexed index receives quorums 9, 10, 12 and 13 (mined at 11 and 14). The run uses honest blocks, one block per height, four network messages and one disconnect. Four messages are enough for every case below, though not all in one behaviour: two flat entries, both indexes mined in one cycle, and one index mined in two cycles. It checks `MinedUntilNewestFirst`, `IndexedUntilNewestFirst` and `ActiveQuorumsFromChain`. The last also looks every active quorum up with `GetMinedCommitment` and requires the record it returns to be of that type and quorum and mined in a block of the active chain. Those cases, plus the blocks 9 and 10 where rotation is on and nothing is indexed yet, reach every stop test:
- the `maxCount` cut;
- the other type's keys;
- the per-index cycle count;
- the "has value" filter.

About 60,000 states in about 85 s. A single block per height is enough here: the queries read one snapshot of the store, and forks only change which snapshots occur, which the core runs check against the chain.
- Each property compares the query, for every block of the active chain and every `maxCount` in 1..2, with the reference.

**`upgrade_replay.cfg`** (restarts). Honest blocks, one variant per height, heights to 8 with rotation from 6, so the replay writes both flat and indexed records. Up to two restarts, each finding a synced, legacy or lagging evoDB. It checks `RecoveredStoreMatchesChain`: once `UpgradeDB` returns, the records are exactly those of the active chain. With no disconnect the lagging evoDB only misses records, and the replay restores them. About 10,600 states in a few seconds.

**`core_rot.cfg`** also checks `Refines`, the refinement of `MinedLog`: null and non-null commitments of two indexes in one block, and undo across the window and a quorum block. With adversarial blocks (`core_nonrot`'s constants) the same check takes twice as long as `core_nonrot`, so it is not run there.

**Mutants.** Every property of the passing runs is broken by a plausible mutant of the code it protects:
- the reverse index stores the mined height instead of the quorum height;
- `UndoBlock` forgets to erase the index entry or the cache entry, or ignores rotation;
- `ProcessBlock` drops its "bad-qc-missing" check;
- `ProcessMessage` skips `Verify`;
- `ProcessCommitment` forgets to invalidate the cache;
- `GetMineableCommitments` forgets to skip mined quorums;
- the key is built without `htobe32`, or the height is decoded without `be32toh`;
- `GetMinedCommitmentsUntilBlock` seeks at the key of the height below;
- `GetLastMinedCommitmentsPerQuorumIndexUntilBlock` keeps the indexes that have no quorum.
- `UpgradeDB` writes null commitments too;
- `UndoBlock` always erases the flat entry, whatever the rotation (breaks `Refines`);
- `UndoBlock` does not give the undone commitment back to the pool (breaks `UndoneCommitmentStaysMinable`).

The runs that reproduce disagreements with the code each check one property (the findings in `PROJECT.json`):

| Run | Property | What TLC shows |
|---|---|---|
| `better_dropped` | `BetterCandidateNotDropped` | The pool check at line 119 is inverted. It returns when the local candidate has *at most* as many signers, so better network commitments are dropped. |
| `pool_orphan` | `MinableIndexed` | `AddMineableCommitment` overwrites the slot and then erases the *new* hash (lines 722-723), and `ProcessCommitment` erases only the mined commitment's hash. Old commitments stay in `minableCommitments` forever. |
| `rot_null_dup` | `BlockFillsRequiredSlots` | Under rotation a block with two null commitments for index 0 and none for index 1 is accepted. The count is per type, and nulls return before the duplicate check. |
| `rot_rejected_cache` | `CacheCoherent` | A rejected rotation block with two non-null commitments for one index caches TRUE from the uncommitted DB write. The rollback leaves the cache saying "mined". |
| `rot_partial_eviction` | `CandidateEvictedOnlyWhenMined` | A block failing at its second commitment has already evicted the pool candidate of the first. |
| `upgrade_stale` | `RecoveredStoreMatchesChain` | Quorum 3 is mined in block 5 and the evoDB is flushed; block 5 is disconnected; the node stops with the chainstate at tip 4 and the evoDB of the flush. `UpgradeDB` sees `DB_BEST_BLOCK_UPGRADE` = block 5, not the tip, and replays the chain up to 4 (line 390) without erasing anything, so the record of the disconnected block 5 stays and the quorum counts as mined. This needs the chainstate to be flushed after an evoDB flush without the evoDB being flushed with it; `FlushStateToDisk` is not in `src/`, so that ordering is an assumption about the caller. |
| `reader_stale_cache` | `TemplateAccepted` | A `HasMinedCommitment` caller without `cs_main` installs a stale FALSE after `ProcessCommitment`'s invalidation. This node then demands a commitment for a mined quorum and rejects the block its peers build. |

**`TestBlockValidity` against `ProcessBlock`.** With `fJustCheck` the commitments of a block are checked without the writes (line 272). Before rotation a block cannot carry one quorum twice, so the two verdicts agree by construction. Under rotation they do not: on `rot_rejected_cache`'s constants TLC finds, at tip 5, a block 6 with two non-null commitments for one quorum index. `TestBlockValidity` accepts it, because nothing is written and the second `HasMinedCommitment` still reads FALSE; `ProcessBlock` rejects it with bad-qc-dup, because the first commitment's uncommitted write makes the second read TRUE. It is the same duplicate as the `rot_rejected_cache` finding and is reported there, not as a separate run.

**Why the bounds suffice.** Each property concerns one cycle. The cycle arithmetic is the same in every cycle: `CycleStart(h) = h - h % DkgInterval`. So one full cycle after DIP0003, with reorgs deep enough to cross the window and the quorum block, reaches every branch of the processor's code. Larger signer ranges only rename the comparison outcomes `<`, `=` and `>`, which 0..2 already covers.

**Fairness and liveness.** None is assumed, and every property is a safety property. Every operation of the processor is a bounded synchronous call that returns; nothing in it waits, retries or loops on another thread. What would make something "eventually" happen (a peer sending a commitment, a miner producing a block, the chain thread calling `ProcessBlock`) is outside this file, so fairness on those steps would be an assumption about the network and the miners, not a fact the code justifies. The one liveness-shaped question, whether a better commitment received in the window can still be mined, is checked as the safety properties `BetterCandidateNotDropped` and `CandidateEvictedOnlyWhenMined`, whose violations already show the pool losing candidates.

## 4. Not modelled, and why

- Replay with a null tip. `ProcessBlock` and `ProcessCommitment` skip checks when `pindex->pprev` is null (lines 165-168, 229-231); `UpgradeDB` starts at the enforcement height, never at genesis, so the branch is not reached.
- A crash inside `UpgradeDB`. It writes only records the chain implies and moves the marker forward after each block, so a restart part-way replays the same writes again. `UpgradeDB` is one step.
- Pruned blocks in `UpgradeDB` (lines 372-375). The function returns false before writing the block whose data is gone, and the node does not start. A null tip (lines 357-360) does not occur: the model's chain always holds genesis.
- Rotation activating inside a cycle. `utils::IsQuorumRotationEnabled` (not in `src/`) decides at the cycle's base block, so the era changes only at a cycle start; the runs place `RotationHeight` at one. `ProcessCommitment` (at the quorum block, line 280) and `UndoBlock` (at the mined block, line 332) then always agree.
- 32-bit keys. TLC's integers are 32-bit signed, so `UINT32_MAX` cannot be represented. The keys are checked with a 16-bit field.
- `HasMineableCommitment` and `GetMineableCommitmentByHash`. They are single reads of the pool under its lock, used by net processing to answer inventory requests; they change nothing.
- `bls_legacy_scheme`, the relay of invs, and misbehaviour scores. They do not touch this state.
- The LRU capacity of the cache. Eviction only removes entries, and a missing entry is always re-read from the DB.
- Several LLMQ types at once. Types interact only through the multimap order, and one type is used so far.

## 5. Plan for the next steps

1. **Two LLMQ types**, to exercise the multimap order of `ProcessBlock` and the shared key namespaces with two live types.
2. **Larger instances** of the upgrade runs: a lagging evoDB combined with a reorg onto a competing variant, and restarts inside the rotation window.
