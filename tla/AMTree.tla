-------------------------------- MODULE AMTree -------------------------------
(***************************************************************************)
(* One authenticated multipoint evaluation tree: lvmt-db/src/amt/.         *)
(*                                                                         *)
(* The commitment of the tree is linear in the vector of its leaf values,  *)
(* over the scalar field of the curve.  A group element is modelled by its *)
(* coefficients with respect to the public parameters: a commitment by one *)
(* scalar per index (AMTParams::get_commitments), the proof of an inner    *)
(* node at depth d by one scalar per quotient (d, index).  The pairing     *)
(* equation of verify then says which quotients divide by which factor.    *)
(*                                                                         *)
(* Leaf values are big integers of a fixed width, WordSize = 2^256 in the  *)
(* code; the field is smaller, Modulus.                                    *)
(***************************************************************************)
EXTENDS Integers

CONSTANTS
  Depths,       \* height of the tree
  Shards,       \* the shard roots a tree may be opened with
  NoShard,      \* shard_root is None: no inner node is kept
  Modulus,      \* order of the scalar field
  WordSize,     \* first value that does not fit a FrInt
  MaxValue,     \* bound: leaf values
  MayDecrease   \* may a write lower a leaf?  (versions never do, hashes may)

ASSUME TreeConstants ==
  /\ Depths \in Nat \ {0}
  /\ Modulus \in Nat \ {0, 1}
  /\ WordSize \in Nat /\ Modulus < WordSize
  /\ MaxValue \in 0..(Modulus - 1)
  /\ MayDecrease \in BOOLEAN
  /\ NoShard # [depth |-> 0, index |-> 0]

VARIABLES
  shard_root,  \* the part of the tree with proof data: a node index, or NoShard
  data,        \* leaf values as get sees them
  inner,       \* inner_nodes as the tree sees them: [commitment, proof]
  commitment,  \* the in-memory commitment
  dirty,       \* the dirty flag
  dbData,      \* leaf values in the database,
  dbInner,     \*   inner nodes in the database,
  dbComm       \*   and the commitment the owner of the tree stored

vars == <<shard_root, data, inner, commitment, dirty, dbData, dbInner, dbComm>>

Index == 0..(2^Depths - 1)
Fr == 0..(Modulus - 1)
Vector == [Index -> Fr]
ZeroVector == [i \in Index |-> 0]

------------------------------------------------------------------------------
(* NodeIndex (amt/node.rs). *)

NodeAt(d, i) == [depth |-> d, index |-> i]
Leaf(i) == NodeAt(Depths, i)
RootNode == NodeAt(0, 0)
InnerNodes == UNION {[depth : {d}, index : 0..(2^d - 1)] : d \in 1..Depths}

(* index ^ 1 *)
ToSibling(v) == NodeAt(v.depth, IF v.index % 2 = 0 THEN v.index + 1 ELSE v.index - 1)
ToAncestor(v, height) == NodeAt(v.depth - height, v.index \div 2^height)

(* Does the shard below root need node v?  Below the root of the shard its own
   nodes, on the path to it the siblings. *)
NeedsMaintain(v, root) ==
  \/ v = RootNode
  \/ /\ v.depth > root.depth
     /\ ToAncestor(v, v.depth - root.depth).index = root.index
  \/ /\ v.depth <= root.depth
     /\ ToSibling(v) = ToAncestor(root, root.depth - v.depth)

(* Mutant of BitReverse: leaves in their natural order. *)
BitReverseNot(n, l) == n

(* bitreverse: bit j of n becomes bit l-1-j. *)
BitReverse(n, l) ==
  LET r[j \in 0..l] == IF j = 0 THEN 0 ELSE 2 * r[j - 1] + ((n \div 2^(j - 1)) % 2)
  IN r[l]

(* The node at the given depth on the way to leaf i. *)
OnPath(i, depth) == ToAncestor(Leaf(BitReverse(i, Depths)), Depths - depth)

------------------------------------------------------------------------------
(* update *)

AddAt(vec, i, delta) == [vec EXCEPT ![i] = (vec[i] + delta) % Modulus]

(* The inner nodes update adds to for leaf i. *)
Maintained(i) ==
  IF shard_root = NoShard THEN {}
  ELSE {v \in {OnPath(i, d) : d \in 1..Depths} : NeedsMaintain(v, shard_root)}

(* Mutant of UpdateTree: the commitment of an inner node is moved without its
   proof. *)
UpdateTreeNoProof(i, delta) ==
  IF delta = 0 THEN UNCHANGED <<inner, commitment, dirty>>
  ELSE /\ commitment' = AddAt(commitment, i, delta)
       /\ dirty' = TRUE
       /\ inner' = [v \in InnerNodes |->
                      IF v \in Maintained(i)
                        THEN [inner[v] EXCEPT !.commitment = AddAt(@, i, delta)]
                        ELSE inner[v]]

UpdateTree(i, delta) ==
  IF delta = 0 THEN UNCHANGED <<inner, commitment, dirty>>
  ELSE /\ commitment' = AddAt(commitment, i, delta)
       /\ dirty' = TRUE
       /\ inner' = [v \in InnerNodes |->
                      IF v \in Maintained(i)
                        THEN [commitment |-> AddAt(inner[v].commitment, i, delta),
                              proof      |-> AddAt(inner[v].proof, i, delta)]
                        ELSE inner[v]]

(* FrParams::R is the Montgomery radix, not the modulus. *)
R == WordSize % Modulus

(* The scalar the dropped write guard passes to update: the difference of two
   words, with R added if the subtraction borrowed. *)
GuardDelta(old, new) ==
  IF new >= old THEN new - old ELSE (new - old + WordSize + R) % WordSize

(* write_versions, a new value behind the guard, and its drop. *)
Write(i, new) ==
  /\ MayDecrease \/ new >= data[i]
  /\ data' = [data EXCEPT ![i] = new]
  /\ UpdateTree(i, GuardDelta(data[i], new))
  /\ UNCHANGED <<shard_root, dbData, dbInner, dbComm>>

(* Does inc_key_ver keep the value of leaf i, or move the commitment only? *)
InProofShard(i) == shard_root # NoShard /\ NeedsMaintain(Leaf(i), shard_root)

(* A key of another shard: update without a leaf value. *)
UpdateOnly(i) ==
  /\ ~InProofShard(i)
  /\ commitment[i] < MaxValue
  /\ UpdateTree(i, 1)
  /\ UNCHANGED <<shard_root, data, dbData, dbInner, dbComm>>

(* Mutant of Flush: the inner nodes stay in the cache. *)
FlushLeavesOnly ==
  /\ dbData' = data
  /\ dbComm' = commitment
  /\ dirty' = FALSE
  /\ UNCHANGED <<shard_root, data, inner, commitment, dbInner>>

(* flush, whose result the owner of the tree stores (in its subtree_roots or
   under ROOT_KEY). *)
Flush ==
  /\ dbData' = data
  /\ dbInner' = inner
  /\ dbComm' = commitment
  /\ dirty' = FALSE
  /\ UNCHANGED <<shard_root, data, inner, commitment>>

(* A new AMTree on the stored one, after the process ended at any point. *)
Reopen ==
  /\ data' = dbData
  /\ inner' = dbInner
  /\ commitment' = dbComm
  /\ dirty' = FALSE
  /\ UNCHANGED <<shard_root, dbData, dbInner, dbComm>>

Init ==
  /\ shard_root \in Shards
  /\ data = ZeroVector
  /\ inner = [v \in InnerNodes |-> [commitment |-> ZeroVector, proof |-> ZeroVector]]
  /\ commitment = ZeroVector
  /\ dirty = FALSE
  /\ dbData = data
  /\ dbInner = inner
  /\ dbComm = commitment

Next ==
  \/ \E i \in Index, new \in 0..MaxValue : Write(i, new)
  \/ \E i \in Index : UpdateOnly(i)
  \/ Flush
  \/ Reopen

Spec == Init /\ [][Next]_vars
------------------------------------------------------------------------------
(* prove and verify. *)

(* What prove returns for leaf i: the siblings on its path, from the root. *)
Siblings(i) == [d \in 1..Depths |-> inner[ToSibling(OnPath(i, d))]]

(* The leaves whose quotients get_sibling_verification(depth, i) checks. *)
SiblingGroup(depth, i) ==
  {j \in Index : /\ j % 2^(depth - 1) = i % 2^(depth - 1)
                 /\ j % 2^depth # i % 2^depth}

(* The pairing equation: the proof multiplies out to the commitment, which
   covers the leaves of the group only. *)
PairingHolds(node, group) ==
  /\ node.commitment = node.proof
  /\ \A j \in Index \ group : node.proof[j] = 0

(* The coefficient at index j of the sum of the commitments of a proof. *)
SumAt(proof, j) ==
  LET s[d \in 0..Depths] == IF d = 0 THEN 0 ELSE s[d - 1] + proof[d].commitment[j]
  IN s[Depths] % Modulus

Verify(i, value, comm, proof) ==
  /\ \A j \in Index :
       comm[j] = ((IF j = i THEN value ELSE 0) + SumAt(proof, j)) % Modulus
  /\ \A d \in 1..Depths : PairingHolds(proof[d], SiblingGroup(d, i))

------------------------------------------------------------------------------
(* A node covers the leaves whose path goes through it. *)
Below(v) == {i \in Index : OnPath(i, v.depth) = v}

(* A maintained inner node holds exactly the part of the commitment below it,
   with its quotient proof; the others stay empty.  This must survive flushes
   and restarts at any point. *)
InnerNodesExact ==
  \A v \in InnerNodes :
    LET kept == shard_root # NoShard /\ NeedsMaintain(v, shard_root)
    IN \A i \in Index :
         /\ inner[v].commitment[i] = IF kept /\ i \in Below(v) THEN commitment[i] ELSE 0
         /\ inner[v].proof[i] = inner[v].commitment[i]

(* A tree that is not dirty is in the database as it is: commit_tree skips
   the parent of a child that says so. *)
CleanIsStored ==
  ~dirty => commitment = dbComm /\ inner = dbInner

(* A tree with the full proof data proves every leaf, with its value and no
   other one. *)
ProofsExact ==
  shard_root = RootNode =>
    \A i \in Index, v \in Fr : Verify(i, v, commitment, Siblings(i)) <=> v = data[i]
==============================================================================
