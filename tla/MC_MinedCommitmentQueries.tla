---------------------- MODULE MC_MinedCommitmentQueries ----------------------
EXTENDS MinedCommitmentQueries, MC_BlockProcessor

\* The single LLMQ type of the runs has type byte 1.
MC_TypeId == [t \in Types |-> 1]

=============================================================================
