------------------------- MODULE MC_InvertedHeightKey -------------------------
(***************************************************************************)
(* Every mined height of the KeyBits-wide field, 0 to UINT32_MAX, one per *)
(* state, with the key of each LLMQ type byte and quorum index checked.   *)
(***************************************************************************)
EXTENDS InvertedHeightKey

VARIABLE h     \* the mined height whose keys are checked

MC_Types == {0, 255}
MC_Indexes == {0, 1}

Init == h = 0

\* The enumeration stops at UINT32_MAX.
Next == h < UintMax /\ h' = h + 1

Spec == Init /\ [][Next]_h

FlatKeys(x) == {BuildInversedHeightKey(t, x) : t \in MC_Types}
IndexedKeys(x) == {BuildInversedHeightKeyIndexed(t, x, i) : t \in MC_Types, i \in MC_Indexes}

\* Spec 8.1, round trip: the bytes stored for a key read back (GetKey) into
\* the same tuple, and decoding its height field (UINT32_MAX - be32toh)
\* gives the mined height it was built from.
KeysRoundTrip ==
    \A k \in FlatKeys(h) \cup IndexedKeys(h) :
       /\ KeyParses(Serialize(k), IsIndexedKey(k))
       /\ ParseKey(Serialize(k), IsIndexedKey(k)) = k
       /\ DecodeMinedHeight(k) = h

\* Spec 8.1, order: within one type (and index) the stored bytes of the key
\* of mined height h + 1 sort before those of height h, so a forward
\* iteration visits strictly decreasing mined heights, across byte carries.
KeysDescend ==
    h < UintMax =>
       /\ \A t \in MC_Types :
            BytesLess(Serialize(BuildInversedHeightKey(t, h + 1)), Serialize(BuildInversedHeightKey(t, h)))
       /\ \A t \in MC_Types, i \in MC_Indexes :
            BytesLess(Serialize(BuildInversedHeightKeyIndexed(t, h + 1, i)),
                      Serialize(BuildInversedHeightKeyIndexed(t, h, i)))

=============================================================================
