------------------------ MODULE BlockProcessorReader ------------------------
(***************************************************************************)
(* BlockProcessor with callers of HasMinedCommitment that do not hold     *)
(* cs_main (the function asserts no lock, unlike its neighbours).  Such a *)
(* call is three steps: the cache lookup under minableCommitmentsCs, the  *)
(* evoDB read with no lock, and the cache insert under the lock again.    *)
(* The chain thread may write or erase the record and invalidate the      *)
(* cache entry between the read and the insert.                            *)
(***************************************************************************)
EXTENDS BlockProcessor

CONSTANTS
    Readers,      \* threads calling HasMinedCommitment without cs_main
    MaxReads      \* bound: number of such calls

VARIABLES
    rpc,          \* reader -> "idle" | "db" | "insert"
    rkey,         \* reader -> the <<type, quorumHash>> it asks about
    rval,         \* reader -> the value it read from the DB
    reads         \* calls started so far

rvars == <<rpc, rkey, rval, reads>>
allVars == <<vars, rvars>>

NoKey == <<BadType, NullHash>>

\* The quorums a caller may ask about: those of the current cycle.
ReaderKeys ==
    {<<t, GetQuorumBlockHash(TipHeight, i)>> : t \in Types, i \in 0..(SigningActiveQuorumCount - 1)}
    \ {<<t, NullHash>> : t \in Types}

ReaderInit ==
    /\ Init
    /\ rpc = [r \in Readers |-> "idle"]
    /\ rkey = [r \in Readers |-> NoKey]
    /\ rval = [r \in Readers |-> FALSE]
    /\ reads = 0

\* mapHasMinedCommitmentCache[llmqType].get(quorumHash): a hit returns.
ReaderCacheHit(r) ==
    /\ rpc[r] = "idle" /\ reads < MaxReads
    /\ \E k \in ReaderKeys \cap DOMAIN cache : rkey' = [rkey EXCEPT ![r] = k]
    /\ reads' = reads + 1
    /\ UNCHANGED <<vars, rpc, rval>>

ReaderCacheMiss(r) ==
    /\ rpc[r] = "idle" /\ reads < MaxReads
    /\ \E k \in ReaderKeys \ DOMAIN cache : rkey' = [rkey EXCEPT ![r] = k]
    /\ rpc' = [rpc EXCEPT ![r] = "db"]
    /\ reads' = reads + 1
    /\ UNCHANGED <<vars, rval>>

\* m_evoDb.Exists(DB_MINED_COMMITMENT, ...), no processor lock held.
ReaderDbRead(r) ==
    /\ rpc[r] = "db"
    /\ rval' = [rval EXCEPT ![r] = rkey[r] \in DOMAIN mined]
    /\ rpc' = [rpc EXCEPT ![r] = "insert"]
    /\ UNCHANGED <<vars, rkey, reads>>

\* mapHasMinedCommitmentCache[llmqType].insert(quorumHash, fExists):
\* unordered_lru_cache::insert overwrites an existing entry.
ReaderInsert(r) ==
    /\ rpc[r] = "insert"
    /\ cache' = (rkey[r] :> rval[r]) @@ cache
    /\ rpc' = [rpc EXCEPT ![r] = "idle"]
    /\ rkey' = [rkey EXCEPT ![r] = NoKey]
    /\ UNCHANGED <<tip, blocks, mined, flatIdx, idxIdx, bbu, byQuorum, minable,
                   hpc, hqc, msgs, disconnects, rval, reads>>

ReaderNext ==
    \/ Next /\ UNCHANGED rvars
    \/ \E r \in Readers :
         ReaderCacheHit(r) \/ ReaderCacheMiss(r) \/ ReaderDbRead(r) \/ ReaderInsert(r)

ReaderSpec == ReaderInit /\ [][ReaderNext]_allVars

=============================================================================
