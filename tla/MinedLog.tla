------------------------------ MODULE MinedLog ------------------------------
(***************************************************************************)
(* What the mined-commitment store promises, without evoDB keys, caches   *)
(* or pools.  The active chain is a sequence of blocks, each the set of   *)
(* quorum slots it mined a commitment for; the store holds, for every     *)
(* slot mined on the active chain, the height it was mined at and one     *)
(* reverse-index entry.  Connecting a block on the tip mines a set of     *)
(* slots not mined yet; disconnecting the tip forgets exactly what it     *)
(* mined.  Nothing else changes the store.                                *)
(***************************************************************************)
EXTENDS Naturals, SequencesExt

CONSTANTS
    Slot,           \* the quorum slots: (LLMQ type, quorum base height)
    IndexKey(_, _)  \* the reverse-index entry of a slot mined at a height

VARIABLES
    chain,     \* the active chain: element h + 1 is the slots block h mined
    mined,     \* set of <<slot, mined height>>
    index      \* set of reverse-index entries

logVars == <<chain, mined, index>>

MinedSlots == {p[1] : p \in mined}

Init ==
    /\ chain = <<{}>>
    /\ mined = {}
    /\ index = {}

\* A block is connected on the tip; it mines the slots S.
Extend(S) ==
    /\ S \cap MinedSlots = {}
    /\ chain' = Append(chain, S)
    /\ mined' = mined \cup {<<s, Len(chain)>> : s \in S}
    /\ index' = index \cup {IndexKey(s, Len(chain)) : s \in S}

\* The tip is disconnected.
Retract ==
    /\ Len(chain) > 1
    /\ chain' = Front(chain)
    /\ mined' = mined \ {<<s, Len(chain) - 1>> : s \in Last(chain)}
    /\ index' = index \ {IndexKey(s, Len(chain) - 1) : s \in Last(chain)}

Next == (\E S \in SUBSET Slot : Extend(S)) \/ Retract

Spec == Init /\ [][Next]_logVars

=============================================================================
