---------------------------- MODULE StaticMerkle -----------------------------
(***************************************************************************)
(* StaticMerkleTree (lvmt-db/src/merkle/mod.rs): the Merkle tree over the  *)
(* leaves of one epoch, dumped level by level under the epoch's prefix and *)
(* read back by prove.  Node (level, i) is stored at 2^level + i, the      *)
(* depth at 0.  A level with an odd number of nodes is padded with         *)
(* KECCAK_EMPTY, which is not stored: prove takes a node that reads as     *)
(* H256::default() for it.  keccak is modelled as a free constructor.      *)
(***************************************************************************)
EXTENDS Integers, Sequences

CONSTANTS
  LeafData,   \* what is hashed into a leaf
  MaxLeaves   \* bound: leaves of an epoch

ASSUME MerkleConstants == MaxLeaves \in Nat

LeafHash(x) == <<"leaf", x>>
KeccakEmpty == <<"empty">>
ZeroHash == <<"zero">>
CombineHash(a, b) == <<"node", a, b>>

Leaves == UNION {[1..n -> {LeafHash(x) : x \in LeafData}] : n \in 0..MaxLeaves}

VARIABLES
  pc,         \* "dump" while dump runs, "stored" before and after
  data,       \* the leaves dump is called with
  only_root,  \* does it keep the root only?
  level,      \* loop variable of dump, counting down
  this_level, \* the nodes of that level
  root,       \* the root dump returns
  depth,      \* the depth stored at position 0
  backend     \* the nodes stored at the other positions

vars == <<pc, data, only_root, level, this_level, root, depth, backend>>

(* length.next_power_of_two().trailing_zeros() *)
DepthOf(n) == CHOOSE d \in 0..n : 2^d >= n /\ \A e \in 0..(d - 1) : 2^e < n

Positions == 1..(2^(DepthOf(MaxLeaves) + 1) - 1)
NothingSet == [p \in Positions |-> ZeroHash]

(* The empty tree of an epoch without writes. *)
Init ==
  /\ pc = "stored"
  /\ data = << >>
  /\ only_root = FALSE
  /\ level = 0
  /\ this_level = << >>
  /\ root = ZeroHash
  /\ depth = 0
  /\ backend = NothingSet

(* dump for a new epoch, whose prefix holds nothing yet. *)
DumpBegin(leaves, only) ==
  /\ pc = "stored"
  /\ pc' = "dump"
  /\ data' = leaves
  /\ only_root' = only
  /\ level' = DepthOf(Len(leaves))
  /\ this_level' = leaves
  /\ root' = ZeroHash
  /\ depth' = 0
  /\ backend' = NothingSet

(* Mutant of Padded: the last node is repeated. *)
PaddedWithLast(nodes) ==
  IF Len(nodes) % 2 # 0 THEN Append(nodes, nodes[Len(nodes)]) ELSE nodes

Padded(nodes) == IF Len(nodes) % 2 # 0 THEN Append(nodes, KeccakEmpty) ELSE nodes

LevelAbove(nodes) ==
  [i \in 1..(Len(Padded(nodes)) \div 2) |->
     CombineHash(Padded(nodes)[2 * i - 1], Padded(nodes)[2 * i])]

(* Mutant of StoreLevel: the offset of the level is one too low. *)
StoreLevelShifted ==
  IF only_root THEN backend
  ELSE [p \in Positions |->
          IF p - 2^level + 2 \in 1..Len(this_level)
            THEN this_level[p - 2^level + 2] ELSE backend[p]]

(* backend.set for the nodes of this level. *)
StoreLevel ==
  IF only_root THEN backend
  ELSE [p \in Positions |->
          IF p - 2^level + 1 \in 1..Len(this_level)
            THEN this_level[p - 2^level + 1] ELSE backend[p]]

DumpLevel ==
  /\ pc = "dump"
  /\ level > 0
  /\ backend' = StoreLevel
  /\ this_level' = LevelAbove(this_level)
  /\ level' = level - 1
  /\ UNCHANGED <<pc, data, only_root, root, depth>>

(* The last round takes the root; then set(0, depth) and flush_cache. *)
DumpEnd ==
  /\ pc = "dump"
  /\ level = 0
  /\ backend' = StoreLevel
  /\ root' = IF this_level = << >> THEN ZeroHash ELSE this_level[Len(this_level)]
  /\ depth' = DepthOf(Len(data))
  /\ this_level' = << >>
  /\ pc' = "stored"
  /\ UNCHANGED <<data, only_root, level>>

Next ==
  \/ \E leaves \in Leaves, only \in BOOLEAN : DumpBegin(leaves, only)
  \/ DumpLevel
  \/ DumpEnd

Spec == Init /\ [][Next]_vars
------------------------------------------------------------------------------
(* prove: the siblings on the path of a position, from the leaf up. *)
Prove(position) ==
  [j \in 1..depth |->
     LET above == position \div 2^(j - 1)
         sib   == IF above % 2 = 0 THEN above + 1 ELSE above - 1
         hash  == backend[2^(depth - j + 1) + sib]
     IN IF hash = ZeroHash THEN KeccakEmpty ELSE hash]

(* The hash verify ends with. *)
Climb(hash, path, position) ==
  LET up[j \in 0..Len(path)] ==
        IF j = 0 THEN hash
        ELSE IF (position \div 2^(j - 1)) % 2 = 0
          THEN CombineHash(up[j - 1], path[j])
          ELSE CombineHash(path[j], up[j - 1])
  IN up[Len(path)]

Verify(rootHash, hash, path, position) == Climb(hash, path, position) = rootHash

------------------------------------------------------------------------------
(* The nodes of the tree over some leaves by height: a node with no leaf below
   it is KECCAK_EMPTY, whatever its height. *)
ReferenceNodes(leaves) ==
  LET top == DepthOf(Len(leaves))
      node[h \in 0..top] ==
        [i \in 0..(2^(top - h) - 1) |->
           IF i * 2^h >= Len(leaves) THEN KeccakEmpty
           ELSE IF h = 0 THEN leaves[i + 1]
           ELSE CombineHash(node[h - 1][2 * i], node[h - 1][2 * i + 1])]
  IN node

(* The level-by-level dump returns the root of the recursive definition, with
   the nodes stored or not, and stores each node at its place, leaving out the
   padding and nothing else. *)
DumpIsReference ==
  pc = "stored" =>
    LET ref == ReferenceNodes(data)
    IN /\ data # << >> => root = ref[depth][0]
       /\ \A h \in 0..depth : \A i \in 0..(2^(depth - h) - 1) :
            backend[2^(depth - h) + i] =
              IF only_root \/ ref[h][i] = KeccakEmpty THEN ZeroHash ELSE ref[h][i]

(* With the nodes stored, a leaf verifies at a position exactly if it was
   dumped there; in particular nothing verifies at a padded position. *)
ProofsExact ==
  pc = "stored" /\ ~only_root =>
    \A p \in 0..(2^depth - 1), x \in LeafData :
      Verify(root, LeafHash(x), Prove(p), p)
        <=> p < Len(data) /\ data[p + 1] = LeafHash(x)
==============================================================================
