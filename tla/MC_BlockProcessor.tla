------------------------- MODULE MC_BlockProcessor -------------------------
(* Instantiates BlockProcessor for TLC; the .cfg files choose the era     *)
(* (rotation or not), the miner (honest or adversarial) and the bounds.   *)
EXTENDS BlockProcessor

\* Heights: genesis is the quorum block of cycle 0, which is pre-DIP0003.
MC_Variants == {0, 1}

\* One block per height: every block ever connected is on the active chain
\* or was disconnected from it.
MC_OneVariant == {0}

\* Peers send only valid commitments with one signer for known quorum
\* blocks: for the runs about what gets mined, not about rejects.
MC_NetQcs ==
    {Commitment(t, Height(qh) - CycleStart(Height(qh)), qh, 1, TRUE) :
        t \in Types,
        qh \in {b \in DOMAIN blocks : Height(b) - CycleStart(Height(b)) \in QuorumIndexes(Height(b))}}
=============================================================================
