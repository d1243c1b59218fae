---------------------------- MODULE InsertionIndex ----------------------------
(***************************************************************************)
(* What the submitters of both modes read besides checkpoint storage: the  *)
(* chain as its RPC nodes serve it, the database of indexed Merkle tree    *)
(* insertions (hyperlane-base/src/db/rocks/hyperlane_db.rs), the RPC       *)
(* recovery of insertions (agents/validator/src/merkle_tree_hook_sync.rs)  *)
(* and the Merkle snapshot kept beside the checkpoints.                    *)
(***************************************************************************)
EXTENDS CheckpointPublication

CONSTANT Histories    \* finalized histories the RPC nodes may serve

ASSUME HistoriesAssumption ==
    Histories \subseteq {h \in Checkpoint : Index(h) \in IndexSet}

VARIABLES
    db,        \* indexed insertions by leaf index
    snapshot   \* the persisted Merkle snapshot, None when absent

\* What a node may answer: a checkpoint of a history, a leaf at an index.
Reports == UNION {{CheckpointAt(h, i) : i \in 0 .. Index(h)} : h \in Histories}
LeavesAt(i) == {h[i + 1] : h \in {g \in Histories : Len(g) > i}}

\* store_verified_insertions: leaf j of the sequence goes to row first + j - 1.
StoreInsertions(first, leaves) ==
    [i \in IndexSet |-> IF i >= first /\ i - first < Len(leaves)
                        THEN leaves[i - first + 1] ELSE db[i]]

\* Insertions first, ..., first+n-1 as the RPC log ranges may return them.
Fetched(first, n) ==
    {s \in [1 .. n -> UNION {LeavesAt(i) : i \in IndexSet}] :
        \A j \in 1 .. n : s[j] \in LeavesAt(first + j - 1)}

\* A snapshot is restored only if this validator's own signed checkpoint at
\* its index has its root; an unreadable or unmatched one is ignored.
RestoredTrees ==
    {<< >>} \cup {s \in {snapshot} \ {None} : stored[Index(s)] = s}
=============================================================================
