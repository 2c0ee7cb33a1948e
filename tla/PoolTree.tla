------------------------------ MODULE PoolTree ------------------------------
(***************************************************************************)
(* The Merkle tree of the recovery pool, which four programs compute: the  *)
(* contract from the left siblings it saved (src/contracts/zk-recovery,    *)
(* merkle.rs), the pool-indexer from all leaves by the contract's          *)
(* algorithm, the SDK layer by layer, and the prover along one path.       *)
(*                                                                         *)
(* Data.  A leaf is a number, 0 the empty one.  hash2 is injective: what   *)
(* is hashed, in prefix notation.                                          *)
(***************************************************************************)
EXTENDS Integers, Sequences

CONSTANTS
  DEPTH,     \* levels below the root
  RING_SIZE  \* how many historic roots the contract keeps

ASSUME TreeAssumption == DEPTH \in Nat \ {0} /\ RING_SIZE \in Nat \ {0}

Levels == 0..(DEPTH - 1)

hash2(a, b) == <<-1>> \o a \o b

zeros[level \in 0..DEPTH] ==
  IF level = 0 THEN <<0>> ELSE hash2(zeros[level - 1], zeros[level - 1])

bit(idx, level) == (idx \div 2^level) % 2

-----------------------------------------------------------------------------
(* The contract, and the indexer, which copies it.                         *)

(* The running nodes above the leaf of index idx. *)
running(frontier, idx, leaf) ==
  LET cur[level \in 0..DEPTH] ==
        CASE level = 0 -> <<leaf>>
          [] level > 0 /\ bit(idx, level - 1) = 0 -> hash2(cur[level - 1], zeros[level - 1])
          [] level > 0 /\ bit(idx, level - 1) = 1 -> hash2(frontier[level - 1], cur[level - 1])
  IN cur

(* The left siblings saved for later leaves. *)
saved(frontier, idx, leaf) ==
  [level \in Levels |-> IF bit(idx, level) = 0 THEN running(frontier, idx, leaf)[level]
                                               ELSE frontier[level]]

(* The slot of the ring that the root after idx insertions goes to. *)
pushed(ring, head, root) ==
  [slot \in DOMAIN ring \cup {head % RING_SIZE} |->
     IF slot = head % RING_SIZE THEN root ELSE ring[slot]]

insert_leaf(pool, leaf) ==
  LET root == running(pool.frontier, pool.next_index, leaf)[DEPTH]
  IN [frontier |-> saved(pool.frontier, pool.next_index, leaf),
      ring |-> pushed(pool.ring, pool.next_index, root),
      next_index |-> pool.next_index + 1]

(* The pool after each of the first insertions, from the siblings given. *)
pools(frontier, leaves) ==
  LET pool[n \in 0..Len(leaves)] ==
        IF n = 0 THEN [frontier |-> frontier, ring |-> <<>>, next_index |-> 0]
        ELSE insert_leaf(pool[n - 1], leaves[n])
  IN pool

load_frontier == [level \in Levels |-> zeros[level]]

current_root(pool) ==
  IF pool.next_index = 0 THEN zeros[DEPTH] ELSE pool.ring[(pool.next_index - 1) % RING_SIZE]

is_known_root(pool, root) ==
  IF pool.next_index = 0 THEN root = zeros[DEPTH]
  ELSE \E i \in 0..(RING_SIZE - 1) :
         i < pool.next_index /\ pool.ring[(pool.next_index - 1 - i) % RING_SIZE] = root

(* The indexer starts from siblings that are all zero. *)
rebuildRoot(leaves) ==
  current_root(pools([level \in Levels |-> <<0>>], leaves)[Len(leaves)])

snapshot(leaves) == [root |-> rebuildRoot(leaves), nextIndex |-> Len(leaves)]

-----------------------------------------------------------------------------
(* The SDK: IncrementalTree, and the prover's path.                        *)

node(layer, i, level) == IF i < Len(layer) THEN layer[i + 1] ELSE zeros[level]

buildLayers(leaves) ==
  LET layers[level \in 0..DEPTH] ==
        IF level = 0 THEN [i \in 1..Len(leaves) |-> <<leaves[i]>>]
        ELSE [i \in 1..((Len(layers[level - 1]) + 1) \div 2) |->
                hash2(node(layers[level - 1], 2 * i - 2, level - 1),
                      node(layers[level - 1], 2 * i - 1, level - 1))]
  IN layers

tree_root(leaves) == IF leaves = <<>> THEN zeros[DEPTH] ELSE buildLayers(leaves)[DEPTH][1]

pathFor(leaves, index) ==
  LET layers == buildLayers(leaves)
      at(level) == index \div 2^level
  IN [level \in Levels |->
        node(layers[level], IF bit(index, level) = 0 THEN at(level) + 1 ELSE at(level) - 1, level)]

computeRoot(leaf, index, siblings) ==
  LET cur[level \in 0..DEPTH] ==
        CASE level = 0 -> <<leaf>>
          [] level > 0 /\ bit(index, level - 1) = 0 -> hash2(cur[level - 1], siblings[level - 1])
          [] level > 0 /\ bit(index, level - 1) = 1 -> hash2(siblings[level - 1], cur[level - 1])
  IN cur[DEPTH]
=============================================================================
