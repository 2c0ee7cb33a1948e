--------------------------- MODULE MCPoolIndexer ---------------------------
(* Instances of PoolIndexer small enough for TLC, and the tree it takes    *)
(* for granted, computed for every short sequence of leaves.               *)
EXTENDS PoolIndexer, PoolTree, TLC

LeafLists == UNION {[1..n -> 0..1] : n \in 0..(2^DEPTH)}

padded(leaves) == [i \in 1..(2^DEPTH) |-> IF i <= Len(leaves) THEN leaves[i] ELSE 0]

PoolAfter(leaves) == pools(load_frontier, leaves)[Len(leaves)]

(* The contract, the indexer and the SDK compute one root, though the first
   two start from different siblings: none of those is ever read. *)
ASSUME OneRoot ==
  \A leaves \in LeafLists :
    /\ current_root(PoolAfter(leaves)) = tree_root(leaves)
    /\ rebuildRoot(leaves) = tree_root(leaves)

(* The root stands for the leaves with the empty ones after them, no more and
   no less: PoolIndexer!root. *)
ASSUME RootIsLeaves ==
  Cardinality({tree_root(leaves) : leaves \in LeafLists})
    = Cardinality({<<tree_root(leaves), padded(leaves)>> : leaves \in LeafLists})
  /\ Cardinality({padded(leaves) : leaves \in LeafLists})
       = Cardinality({tree_root(leaves) : leaves \in LeafLists})

(* The path a client finds proves the leaf at its place, and no other leaf. *)
ASSUME PathProves ==
  \A leaves \in LeafLists : \A index \in 0..(Len(leaves) - 1), leaf \in 0..1 :
    computeRoot(leaf, index, pathFor(leaves, index)) = tree_root(leaves)
      <=> leaf = leaves[index + 1]

(* The ring knows the last RING_SIZE roots and no other, wherever its head
   is: ZkRecovery!is_known_root. *)
ASSUME RingIsWindow ==
  \A leaves \in LeafLists : \A n \in 0..Len(leaves) :
    is_known_root(PoolAfter(leaves), tree_root(SubSeq(leaves, 1, n)))
      <=> \/ leaves = <<>>
          \/ \E m \in 1..Len(leaves) :
               /\ m > Len(leaves) - RING_SIZE
               /\ tree_root(SubSeq(leaves, 1, m)) = tree_root(SubSeq(leaves, 1, n))
=============================================================================
