----------------------------- MODULE AMTreeProofs -----------------------------
(***************************************************************************)
(* Proofs about one AMT, for every height, field, set of shard roots and   *)
(* width of a leaf value, with leaves that may decrease or may not.        *)
(*                                                                         *)
(* The inner nodes in memory follow the commitment in memory, and those in *)
(* the database the stored commitment: a restart goes back to the second   *)
(* pair, so the invariant speaks about both.                               *)
(*                                                                         *)
(* Then the public parameters: wherever processes end, the two files agree *)
(* with each other, cached multiples of points give exact products, and    *)
(* the three lists of points satisfy the identity that verify relies on.   *)
(***************************************************************************)
EXTENDS MC_AMTree, NumberLemmas

NodeData == [commitment : Vector, proof : Vector]

TypeOK ==
  /\ shard_root \in Shards
  /\ data \in [Index -> 0..MaxValue]
  /\ inner \in [InnerNodes -> NodeData]
  /\ commitment \in Vector
  /\ dirty \in BOOLEAN
  /\ dbData \in [Index -> 0..MaxValue]
  /\ dbInner \in [InnerNodes -> NodeData]
  /\ dbComm \in Vector

(* Is v one of the nodes of this tree's proof data? *)
Kept(v) == shard_root # NoShard /\ NeedsMaintain(v, shard_root)

(* The inner nodes belong to the commitment. *)
Exact(nodes, comm) ==
  \A v \in InnerNodes, i \in Index :
    /\ nodes[v].commitment[i] = IF Kept(v) /\ i \in Below(v) THEN comm[i] ELSE 0
    /\ nodes[v].proof[i] = nodes[v].commitment[i]

TreeInv ==
  /\ TypeOK
  /\ Exact(inner, commitment)
  /\ Exact(dbInner, dbComm)
  /\ CleanIsStored

-------------------------------------------------------------------------------
(* Operators *)

(* A sum in the field is a scalar. *)
LEMMA ScalarSum ==
  ASSUME NEW a \in Int, NEW b \in Int
  PROVE  (a + b) % Modulus \in Fr
  BY TreeConstants DEF Fr

(* AddAt changes one coefficient and stays a vector. *)
LEMMA AddAtVector ==
  ASSUME NEW vec \in Vector, NEW i \in Index, NEW delta \in Int
  PROVE  /\ AddAt(vec, i, delta) \in Vector
         /\ AddAt(vec, i, delta)[i] = (vec[i] + delta) % Modulus
         /\ \A j \in Index : j # i => AddAt(vec, i, delta)[j] = vec[j]
<1>1. vec[i] \in Int
  BY TreeConstants DEF Vector, Fr
<1>2. (vec[i] + delta) % Modulus \in Fr
  BY <1>1, ScalarSum
<1> QED
  BY <1>2 DEF AddAt, Vector

(* The scalar of the write guard is a number, whether or not the subtraction of
   the two words borrows. *)
LEMMA GuardDeltaInt ==
  ASSUME NEW old \in 0..MaxValue, NEW new \in 0..MaxValue
  PROVE  GuardDelta(old, new) \in Int
<1>1. R \in Int
  BY TreeConstants DEF R
<1>2. old \in Int /\ new \in Int /\ WordSize \in Int /\ WordSize > 0
  BY TreeConstants
<1>3. (new - old + WordSize + R) % WordSize \in Int
  BY <1>1, <1>2
<1> QED
  BY <1>2, <1>3 DEF GuardDelta

(* The node on a path at a depth has that depth. *)
LEMMA OnPathDepth ==
  ASSUME NEW i \in Index, NEW d \in 1..Depths
  PROVE  OnPath(i, d).depth = d
  BY TreeConstants DEF OnPath, ToAncestor, Leaf, NodeAt

(* update visits exactly the kept nodes that the leaf is below. *)
LEMMA MaintainedAreKept ==
  ASSUME NEW i \in Index, NEW v \in InnerNodes
  PROVE  v \in Maintained(i) <=> Kept(v) /\ i \in Below(v)
<1>1. v.depth \in 1..Depths
  BY DEF InnerNodes
<1>2. ASSUME NEW d \in 1..Depths, v = OnPath(i, d)
      PROVE  OnPath(i, v.depth) = v
  BY <1>2, OnPathDepth
<1>3. i \in Below(v) <=> \E d \in 1..Depths : v = OnPath(i, d)
  BY <1>1, <1>2 DEF Below
<1>4. v \in Maintained(i) <=> Kept(v) /\ \E d \in 1..Depths : v = OnPath(i, d)
  BY DEF Maintained, Kept
<1> QED
  BY <1>3, <1>4

-------------------------------------------------------------------------------
(* The steps *)

(* What update leaves in memory. *)
LEMMA UpdateTreeExact ==
  ASSUME TypeOK, Exact(inner, commitment),
         NEW i \in Index, NEW delta \in Int, delta # 0, UpdateTree(i, delta),
         UNCHANGED shard_root
  PROVE  /\ inner' \in [InnerNodes -> NodeData]
         /\ commitment' \in Vector
         /\ dirty' = TRUE
         /\ Exact(inner, commitment)'
<1> USE DEF TypeOK
<1>1. /\ commitment' = AddAt(commitment, i, delta)
      /\ dirty' = TRUE
      /\ inner' = [v \in InnerNodes |->
                     IF v \in Maintained(i)
                       THEN [commitment |-> AddAt(inner[v].commitment, i, delta),
                             proof      |-> AddAt(inner[v].proof, i, delta)]
                       ELSE inner[v]]
  BY DEF UpdateTree
<1>2. /\ commitment' \in Vector
      /\ commitment'[i] = (commitment[i] + delta) % Modulus
      /\ \A j \in Index : j # i => commitment'[j] = commitment[j]
  BY <1>1, AddAtVector
<1>3. ASSUME NEW v \in InnerNodes
      PROVE  /\ inner[v] \in NodeData
             /\ inner[v].commitment \in Vector
             /\ inner[v].proof \in Vector
  BY DEF NodeData
<1>4. ASSUME NEW v \in InnerNodes
      PROVE  /\ AddAt(inner[v].commitment, i, delta) \in Vector
             /\ AddAt(inner[v].commitment, i, delta)[i]
                  = (inner[v].commitment[i] + delta) % Modulus
             /\ \A j \in Index : j # i =>
                  AddAt(inner[v].commitment, i, delta)[j] = inner[v].commitment[j]
             /\ AddAt(inner[v].proof, i, delta) \in Vector
             /\ AddAt(inner[v].proof, i, delta)[i] = (inner[v].proof[i] + delta) % Modulus
             /\ \A j \in Index : j # i =>
                  AddAt(inner[v].proof, i, delta)[j] = inner[v].proof[j]
  BY <1>3, AddAtVector
<1>5. inner' \in [InnerNodes -> NodeData]
  BY <1>1, <1>3, <1>4 DEF NodeData
<1>6. ASSUME NEW v \in InnerNodes, NEW j \in Index
      PROVE  /\ inner'[v].commitment[j] =
                  IF Kept(v) /\ j \in Below(v) THEN commitment'[j] ELSE 0
             /\ inner'[v].proof[j] = inner'[v].commitment[j]
  <2>1. /\ inner[v].commitment[j] = IF Kept(v) /\ j \in Below(v) THEN commitment[j] ELSE 0
        /\ inner[v].proof[j] = inner[v].commitment[j]
    BY DEF Exact
  <2>2. v \in Maintained(i) <=> Kept(v) /\ i \in Below(v)
    BY MaintainedAreKept
  <2>3. CASE v \in Maintained(i)
    <3>1. /\ inner'[v].commitment = AddAt(inner[v].commitment, i, delta)
          /\ inner'[v].proof = AddAt(inner[v].proof, i, delta)
      BY <1>1, <2>3
    <3>2. CASE j = i
      BY <1>2, <1>4, <2>1, <2>2, <2>3, <3>1, <3>2
    <3>3. CASE j # i
      BY <1>2, <1>4, <2>1, <3>1, <3>3
    <3> QED
      BY <3>2, <3>3
  <2>4. CASE v \notin Maintained(i)
    <3>1. inner'[v] = inner[v]
      BY <1>1, <2>4
    <3>2. Kept(v) /\ j \in Below(v) => j # i
      BY <2>2, <2>4
    <3> QED
      BY <1>2, <2>1, <3>1, <3>2
  <2> QED
    BY <2>3, <2>4
<1>7. \A v \in InnerNodes : Kept(v)' <=> Kept(v)
  BY DEF Kept
<1>8. Exact(inner, commitment)'
  BY <1>6, <1>7 DEF Exact
<1> QED
  BY <1>1, <1>2, <1>5, <1>8

(* The database and the parameters of the tree are left alone by update. *)
LEMMA StoredExact ==
  ASSUME Exact(dbInner, dbComm), UNCHANGED <<shard_root, dbInner, dbComm>>
  PROVE  Exact(dbInner, dbComm)'
  BY DEF Exact, Kept

LEMMA UpdateStep ==
  ASSUME TreeInv, NEW i \in Index, NEW delta \in Int, UpdateTree(i, delta),
         UNCHANGED <<shard_root, dbData, dbInner, dbComm>>,
         data' \in [Index -> 0..MaxValue]
  PROVE  TreeInv'
<1> USE DEF TreeInv
<1>1. Exact(dbInner, dbComm)'
  BY StoredExact
<1>2. CASE delta = 0
  <2>1. UNCHANGED <<inner, commitment, dirty>>
    BY <1>2 DEF UpdateTree
  <2>2. Exact(inner, commitment)'
    BY <2>1 DEF Exact, Kept
  <2>3. TypeOK' /\ CleanIsStored'
    BY <2>1 DEF TypeOK, CleanIsStored
  <2> QED
    BY <1>1, <2>2, <2>3
<1>3. CASE delta # 0
  <2>1. /\ inner' \in [InnerNodes -> NodeData]
        /\ commitment' \in Vector
        /\ dirty' = TRUE
        /\ Exact(inner, commitment)'
    BY <1>3, UpdateTreeExact
  <2>2. TypeOK' /\ CleanIsStored'
    BY <2>1 DEF TypeOK, CleanIsStored
  <2> QED
    BY <1>1, <2>1, <2>2
<1> QED
  BY <1>2, <1>3

LEMMA TreeInit ==
  ASSUME Init
  PROVE  TreeInv
<1>1. 0 \in Fr /\ 0 \in 0..MaxValue
  BY TreeConstants DEF Fr
<1>2. ZeroVector \in Vector /\ ZeroVector \in [Index -> 0..MaxValue]
  BY <1>1 DEF ZeroVector, Vector
<1>3. TypeOK
  BY <1>2 DEF Init, TypeOK, NodeData
<1>4. Exact(inner, commitment) /\ Exact(dbInner, dbComm)
  BY DEF Init, Exact, ZeroVector
<1> QED
  BY <1>3, <1>4 DEF TreeInv, CleanIsStored, Init

LEMMA TreeStep ==
  ASSUME TreeInv, [Next]_vars
  PROVE  TreeInv'
<1> USE DEF TreeInv
<1>1. ASSUME NEW i \in Index, NEW new \in 0..MaxValue, Write(i, new)
      PROVE  TreeInv'
  <2>1. data[i] \in 0..MaxValue
    BY DEF TypeOK
  <2>2. GuardDelta(data[i], new) \in Int
    BY <2>1, GuardDeltaInt
  <2>3. data' \in [Index -> 0..MaxValue]
    BY <1>1 DEF Write, TypeOK
  <2> QED
    BY <1>1, <2>2, <2>3, UpdateStep DEF Write
<1>2. ASSUME NEW i \in Index, UpdateOnly(i)
      PROVE  TreeInv'
  <2>1. data' \in [Index -> 0..MaxValue]
    BY <1>2 DEF UpdateOnly, TypeOK
  <2> QED
    BY <1>2, <2>1, UpdateStep DEF UpdateOnly
<1>3. CASE Flush
  <2>1. TypeOK' /\ CleanIsStored'
    BY <1>3 DEF Flush, TypeOK, CleanIsStored
  <2>2. Exact(inner, commitment)' /\ Exact(dbInner, dbComm)'
    BY <1>3 DEF Flush, Exact, Kept
  <2> QED
    BY <2>1, <2>2
<1>4. CASE Reopen
  <2>1. TypeOK' /\ CleanIsStored'
    BY <1>4 DEF Reopen, TypeOK, CleanIsStored
  <2>2. Exact(inner, commitment)' /\ Exact(dbInner, dbComm)'
    BY <1>4 DEF Reopen, Exact, Kept
  <2> QED
    BY <2>1, <2>2
<1>5. CASE UNCHANGED vars
  <2>1. TypeOK' /\ CleanIsStored'
    BY <1>5 DEF vars, TypeOK, CleanIsStored
  <2>2. Exact(inner, commitment)' /\ Exact(dbInner, dbComm)'
    BY <1>5 DEF vars, Exact, Kept
  <2> QED
    BY <2>1, <2>2
<1> QED
  BY <1>1, <1>2, <1>3, <1>4, <1>5 DEF Next

(* The inductive invariant of one tree. *)
THEOREM TreeInductive == Spec => []TreeInv
<1>1. Init => TreeInv
  BY TreeInit
<1>2. TreeInv /\ [Next]_vars => TreeInv'
  BY TreeStep
<1> QED
  BY <1>1, <1>2, PTL DEF Spec

(* Every node that the shard of a tree keeps (needs_maintain) holds the part of
   the commitment below it with its proof, and the others nothing, through
   update, flush and restarts. *)
THEOREM InnerNodesFollow == Spec => []InnerNodesExact
<1>1. TreeInv => InnerNodesExact
  BY DEF TreeInv, Exact, Kept, InnerNodesExact
<1> QED
  BY <1>1, TreeInductive, PTL

(* A tree whose dirty flag is down is stored as it is, so commit_tree may skip
   its parent. *)
THEOREM CleanTreesAreStored == Spec => []CleanIsStored
<1>1. TreeInv => CleanIsStored
  BY DEF TreeInv
<1> QED
  BY <1>1, TreeInductive, PTL

-------------------------------------------------------------------------------
(* The order of the leaves *)

(* Bit j of an index. *)
Bit(n, j) == (n \div 2^j) % 2

(* The first bits of n as a function of their number, most significant first. *)
Bits(n, l) == [j \in 1..l |-> Bit(n, j - 1)]

LEMMA BitsType ==
  ASSUME NEW n \in Nat, NEW l \in Nat
  PROVE  Bits(n, l) \in [1..l -> Nat] /\ \A j \in 1..l : Bits(n, l)[j] \in {0, 1}
<1>1. ASSUME NEW j \in 1..l
      PROVE  Bit(n, j - 1) \in {0, 1}
  <2>1. 2^(j - 1) \in Nat /\ 2^(j - 1) >= 1
    BY PowerPositive
  <2>2. PICK p \in Nat : p = 2^(j - 1) /\ p > 0
    BY <2>1
  <2>3. n \div p \in Nat
    BY <2>2, DivMod
  <2>4. (n \div p) % 2 \in {0, 1}
    BY <2>3
  <2> QED
    BY <2>2, <2>4 DEF Bit
<1> QED
  BY <1>1 DEF Bits

(* What bitreverse computes, step by step. *)
LEMMA BitReverseSteps ==
  ASSUME NEW n \in Nat, NEW l \in Nat
  PROVE  \E r : IsLinear(r, l, 2, Bits(n, l)) /\ BitReverse(n, l) = r[l]
<1> DEFINE F(c) == [j \in 0..l |-> IF j = 0 THEN 0 ELSE 2 * c[j - 1] + ((n \div 2^(j - 1)) % 2)]
<1>1. PICK r : IsLinear(r, l, 2, Bits(n, l))
  BY BitsType, LinearExists
<1>2. /\ r \in [0..l -> Nat] /\ r[0] = 0
      /\ \A j \in 1..l : r[j] = 2 * r[j - 1] + ((n \div 2^(j - 1)) % 2)
  BY <1>1 DEF IsLinear, Bits, Bit
<1>3. r = F(r)
  BY <1>2
<1>4. PICK c : c = CHOOSE x : x = F(x)
  OBVIOUS
<1>5. c = F(c)
  BY <1>3, <1>4
<1>6. BitReverse(n, l) = c[l]
  BY <1>4 DEF BitReverse
<1>7. \A j \in 0..l : c[j] = r[j]
  <2>1. PICK S : S = {j \in 0..l : c[j] = r[j]}
    OBVIOUS
  <2>2. c[0] = 0 /\ \A j \in 1..l : c[j] = 2 * c[j - 1] + ((n \div 2^(j - 1)) % 2)
    BY <1>5
  <2>3. 0 \in S
    BY <1>2, <2>1, <2>2
  <2>4. ASSUME NEW j \in 1..l, j - 1 \in S
        PROVE  j \in S
    <3>1. c[j - 1] = r[j - 1]
      BY <2>1, <2>4
    <3>2. c[j] = r[j]
      BY <1>2, <2>2, <3>1
    <3> QED
      BY <2>1, <3>2
  <2>5. \A j \in 0..l : j \in S
    BY <2>3, <2>4, InductionTo
  <2> QED
    BY <2>1, <2>5
<1> QED
  BY <1>1, <1>6, <1>7

(* The index, at each depth, of the node on the way to leaf i. *)
Way(i) == CHOOSE r : IsLinear(r, Depths, 2, Bits(i, Depths)) /\ BitReverse(i, Depths) = r[Depths]

LEMMA IndexIsNat ==
  ASSUME NEW i \in Index
  PROVE  i \in Nat /\ i < 2^Depths /\ 2^Depths \in Nat /\ Depths \in Nat
<1>1. 2^Depths \in Nat /\ Depths \in Nat
  BY TreeConstants, PowerPositive
<1> QED
  BY <1>1 DEF Index

(* A node has two children: the next bit of the leaf says which one is on the way. *)
LEMMA WaySteps ==
  ASSUME NEW i \in Index
  PROVE  /\ Way(i) \in [0..Depths -> Nat]
         /\ Way(i)[0] = 0
         /\ \A d \in 1..Depths : Bit(i, d - 1) \in {0, 1}
                                  /\ Way(i)[d] = 2 * Way(i)[d - 1] + Bit(i, d - 1)
         /\ BitReverse(i, Depths) = Way(i)[Depths]
<1>1. i \in Nat /\ Depths \in Nat
  BY IndexIsNat
<1>2. \E r : IsLinear(r, Depths, 2, Bits(i, Depths)) /\ BitReverse(i, Depths) = r[Depths]
  BY <1>1, BitReverseSteps
<1>3. IsLinear(Way(i), Depths, 2, Bits(i, Depths)) /\ BitReverse(i, Depths) = Way(i)[Depths]
  BY <1>2 DEF Way
<1>4. \A d \in 1..Depths : Bits(i, Depths)[d] = Bit(i, d - 1) /\ Bits(i, Depths)[d] \in {0, 1}
  BY <1>1, BitsType DEF Bits
<1> QED
  BY <1>3, <1>4 DEF IsLinear

LEMMA WayStep ==
  ASSUME NEW i \in Index, NEW d \in 1..Depths
  PROVE  \E w \in Nat, b \in {0, 1} :
           w = Way(i)[d - 1] /\ b = Bit(i, d - 1) /\ Way(i)[d] = 2 * w + b
<1>1. d - 1 \in 0..Depths
  BY TreeConstants
<1>2. Way(i)[d - 1] \in Nat
  BY <1>1, WaySteps
<1>3. Bit(i, d - 1) \in {0, 1} /\ Way(i)[d] = 2 * Way(i)[d - 1] + Bit(i, d - 1)
  BY WaySteps
<1> QED
  BY <1>2, <1>3

(* There are 2^d nodes at depth d. *)
LEMMA WayBound ==
  ASSUME NEW i \in Index
  PROVE  \A d \in 0..Depths : Way(i)[d] \in Nat /\ Way(i)[d] < 2^d
<1>1. Depths \in Nat
  BY IndexIsNat
<1>2. PICK S : S = {d \in 0..Depths : Way(i)[d] < 2^d}
  OBVIOUS
<1>3. 0 \in S
  BY <1>1, <1>2, WaySteps, PowerZero
<1>4. ASSUME NEW d \in 1..Depths, d - 1 \in S
      PROVE  d \in S
  <2>1. d - 1 \in Nat /\ (d - 1) + 1 = d
    BY <1>1
  <2>2. 2^((d - 1) + 1) = 2^(d - 1) + 2^(d - 1)
    BY <2>1, PowerDoubles
  <2>3. PICK p \in Nat : p = 2^(d - 1) /\ 2^d = p + p
    BY <2>1, <2>2, PowerPositive
  <2>4. PICK w \in Nat, b \in {0, 1} : w = Way(i)[d - 1] /\ Way(i)[d] = 2 * w + b
    BY WayStep
  <2>5. w < p
    BY <1>2, <1>4, <2>3, <2>4
  <2>6. Way(i)[d] < p + p
    BY <2>4, <2>5
  <2> QED
    BY <1>2, <2>3, <2>6
<1>5. \A d \in 0..Depths : d \in S
  BY <1>1, <1>3, <1>4, InductionTo
<1> QED
  BY <1>2, <1>5, WaySteps

(* The ancestors of a leaf are found by dividing its reversed index. *)
LEMMA WayUp ==
  ASSUME NEW i \in Index
  PROVE  \A e \in 0..Depths : BitReverse(i, Depths) \div 2^e = Way(i)[Depths - e]
<1>1. Depths \in Nat
  BY IndexIsNat
<1>2. PICK S : S = {e \in 0..Depths : BitReverse(i, Depths) \div 2^e = Way(i)[Depths - e]}
  OBVIOUS
<1>3. PICK x \in Nat : x = BitReverse(i, Depths) /\ x = Way(i)[Depths]
  BY <1>1, WaySteps
<1>4. 0 \in S
  <2>1. x \div 1 = x /\ Depths - 0 = Depths
    BY <1>1
  <2>2. x \div 2^0 = Way(i)[Depths - 0]
    BY <1>3, <2>1, PowerZero
  <2> QED
    BY <1>1, <1>2, <1>3, <2>2
<1>5. ASSUME NEW e \in 1..Depths, e - 1 \in S
      PROVE  e \in S
  <2>1. e - 1 \in Nat /\ (e - 1) + 1 = e
    BY <1>1
  <2>2. 2^((e - 1) + 1) = 2^(e - 1) + 2^(e - 1)
    BY <2>1, PowerDoubles
  <2>3. PICK p \in Nat : p = 2^(e - 1) /\ 2^e = p + p /\ p > 0
    BY <2>1, <2>2, PowerPositive
  <2>4. x \div (p + p) = (x \div p) \div 2
    BY <2>3, DivModDouble
  <2>5. Depths - (e - 1) \in 1..Depths /\ (Depths - (e - 1)) - 1 = Depths - e
        /\ Depths - e \in 0..Depths
    BY <1>1
  <2>6. PICK w \in Nat, b \in {0, 1} : w = Way(i)[Depths - e] /\ Way(i)[Depths - (e - 1)] = 2 * w + b
    BY <2>5, WaySteps
  <2>7. x \div p = 2 * w + b
    BY <1>2, <1>3, <1>5, <2>3, <2>6
  <2>8. (2 * w + b) \div 2 = w
    OBVIOUS
  <2>9. x \div 2^e = w
    BY <2>3, <2>4, <2>7, <2>8
  <2> QED
    BY <1>2, <1>3, <2>6, <2>9
<1>6. \A e \in 0..Depths : e \in S
  BY <1>1, <1>4, <1>5, InductionTo
<1> QED
  BY <1>2, <1>6

LEMMA OnPathIsWay ==
  ASSUME NEW i \in Index, NEW d \in 1..Depths
  PROVE  OnPath(i, d) = NodeAt(d, Way(i)[d])
<1>1. Depths \in Nat
  BY IndexIsNat
<1>2. Depths - d \in 0..Depths /\ Depths - (Depths - d) = d
  BY <1>1
<1>3. BitReverse(i, Depths) \div 2^(Depths - d) = Way(i)[d]
  BY <1>2, WayUp
<1> QED
  BY <1>2, <1>3 DEF OnPath, ToAncestor, Leaf, NodeAt

(* Two leaves share their way to depth d exactly if their lower d bits agree. *)
LEMMA WaysMeet ==
  ASSUME NEW i \in Index, NEW j \in Index
  PROVE  \A d \in 0..Depths : Way(i)[d] = Way(j)[d] <=> i % 2^d = j % 2^d
<1>1. Depths \in Nat /\ i \in Nat /\ j \in Nat
  BY IndexIsNat
<1>2. PICK S : S = {d \in 0..Depths : Way(i)[d] = Way(j)[d] <=> i % 2^d = j % 2^d}
  OBVIOUS
<1>3. 0 \in S
  <2>1. i % 1 = 0 /\ j % 1 = 0
    BY <1>1
  <2>2. i % 2^0 = j % 2^0
    BY <2>1, PowerZero
  <2> QED
    BY <1>1, <1>2, <2>2, WaySteps
<1>4. ASSUME NEW d \in 1..Depths, d - 1 \in S
      PROVE  d \in S
  <2>1. d - 1 \in Nat /\ (d - 1) + 1 = d
    BY <1>1
  <2>2. 2^((d - 1) + 1) = 2^(d - 1) + 2^(d - 1)
    BY <2>1, PowerDoubles
  <2>3. PICK p \in Nat : p = 2^(d - 1) /\ 2^d = p + p /\ p > 0
    BY <2>1, <2>2, PowerPositive
  <2>4. PICK v \in Nat, a \in {0, 1} :
          v = Way(i)[d - 1] /\ a = Bit(i, d - 1) /\ Way(i)[d] = 2 * v + a
    BY WayStep
  <2>5. PICK w \in Nat, b \in {0, 1} :
          w = Way(j)[d - 1] /\ b = Bit(j, d - 1) /\ Way(j)[d] = 2 * w + b
    BY WayStep
  <2>6. PICK s \in Nat : s = i % p /\ s < p /\ i % (p + p) = s + p * a
    <3>1. i % p \in Nat /\ i % p < p
      BY <1>1, <2>3, DivMod
    <3>2. i % (p + p) = (i % p) + p * ((i \div p) % 2)
      BY <1>1, <2>3, DivModDouble
    <3>3. a = (i \div p) % 2
      BY <2>3, <2>4 DEF Bit
    <3> QED
      BY <3>1, <3>2, <3>3
  <2>7. PICK t \in Nat : t = j % p /\ t < p /\ j % (p + p) = t + p * b
    <3>1. j % p \in Nat /\ j % p < p
      BY <1>1, <2>3, DivMod
    <3>2. j % (p + p) = (j % p) + p * ((j \div p) % 2)
      BY <1>1, <2>3, DivModDouble
    <3>3. b = (j \div p) % 2
      BY <2>3, <2>5 DEF Bit
    <3> QED
      BY <3>1, <3>2, <3>3
  <2>8. v = w <=> s = t
    BY <1>2, <1>4, <2>3, <2>4, <2>5, <2>6, <2>7
  <2>9. 2 * v + a = 2 * w + b <=> v = w /\ a = b
    OBVIOUS
  <2>10. s + p * a = t + p * b <=> s = t /\ a = b
    <3>1. p * a = (IF a = 0 THEN 0 ELSE p) /\ p * b = (IF b = 0 THEN 0 ELSE p)
      BY <2>3
    <3> QED
      BY <2>3, <2>6, <2>7, <3>1
  <2>11. Way(i)[d] = Way(j)[d] <=> i % (p + p) = j % (p + p)
    BY <2>4, <2>5, <2>6, <2>7, <2>8, <2>9, <2>10
  <2> QED
    BY <1>2, <2>3, <2>11
<1>5. \A d \in 0..Depths : d \in S
  BY <1>1, <1>3, <1>4, InductionTo
<1> QED
  BY <1>2, <1>5

-------------------------------------------------------------------------------
(* The proof of a leaf *)

(* Flipping the lowest bit leads to the other child of the same parent. *)
LEMMA FlipLowest ==
  ASSUME NEW w \in Nat, NEW b \in {0, 1}
  PROVE  (IF (2 * w + b) % 2 = 0 THEN (2 * w + b) + 1 ELSE (2 * w + b) - 1) = 2 * w + (1 - b)
<1>1. CASE b = 0
  BY <1>1
<1>2. CASE b = 1
  BY <1>2
<1> QED
  BY <1>1, <1>2

(* The sibling on the way to leaf i at depth d is a node of the tree, and the leaves
   below it are those that get_sibling_verification checks. *)
LEMMA SiblingCovers ==
  ASSUME NEW i \in Index, NEW d \in 1..Depths
  PROVE  /\ ToSibling(OnPath(i, d)) \in InnerNodes
         /\ Below(ToSibling(OnPath(i, d))) = SiblingGroup(d, i)
<1>1. Depths \in Nat /\ d - 1 \in Nat /\ (d - 1) + 1 = d
      /\ d \in 0..Depths /\ d - 1 \in 0..Depths
  BY IndexIsNat
<1>2. PICK w \in Nat, b \in {0, 1} :
        w = Way(i)[d - 1] /\ b = Bit(i, d - 1) /\ Way(i)[d] = 2 * w + b
  BY WayStep
<1>3. OnPath(i, d) = NodeAt(d, 2 * w + b)
  BY <1>2, OnPathIsWay
<1>4. ToSibling(OnPath(i, d)) = NodeAt(d, 2 * w + (1 - b))
  BY <1>3, FlipLowest DEF ToSibling, NodeAt
<1>5. PICK x \in Nat : x = 2 * w + (1 - b)
  OBVIOUS
<1>6. ToSibling(OnPath(i, d)) \in InnerNodes
  <2>1. 2^((d - 1) + 1) = 2^(d - 1) + 2^(d - 1)
    BY <1>1, PowerDoubles
  <2>2. PICK p \in Nat : p = 2^(d - 1) /\ 2^d = p + p
    BY <1>1, <2>1, PowerPositive
  <2>3. w < p
    BY <1>1, <1>2, <2>2, WayBound
  <2>4. x \in 0..(2^d - 1)
    BY <1>5, <2>2, <2>3
  <2>5. NodeAt(d, x) \in [depth : {d}, index : 0..(2^d - 1)]
    BY <2>4 DEF NodeAt
  <2> QED
    BY <1>4, <1>5, <2>5 DEF InnerNodes
<1>7. ASSUME NEW j \in Index
      PROVE  OnPath(j, d) = NodeAt(d, x) <=> j \in SiblingGroup(d, i)
  <2>1. PICK u \in Nat, c \in {0, 1} :
          u = Way(j)[d - 1] /\ c = Bit(j, d - 1) /\ Way(j)[d] = 2 * u + c
    BY WayStep
  <2>2. OnPath(j, d) = NodeAt(d, x) <=> Way(j)[d] = x
    BY OnPathIsWay DEF NodeAt
  <2>3. 2 * u + c = 2 * w + (1 - b) <=> u = w /\ 2 * u + c # 2 * w + b
    OBVIOUS
  <2>4. Way(j)[d - 1] = Way(i)[d - 1] <=> j % 2^(d - 1) = i % 2^(d - 1)
    BY <1>1, WaysMeet
  <2>5. Way(j)[d] = Way(i)[d] <=> j % 2^d = i % 2^d
    BY <1>1, WaysMeet
  <2>6. Way(j)[d] = x <=> Way(j)[d - 1] = Way(i)[d - 1] /\ Way(j)[d] # Way(i)[d]
    BY <1>2, <1>5, <2>1, <2>3
  <2> QED
    BY <2>2, <2>4, <2>5, <2>6 DEF SiblingGroup
<1>8. ToSibling(OnPath(i, d)).depth = d
  BY <1>4 DEF NodeAt
<1>9. Below(ToSibling(OnPath(i, d))) = {j \in Index : OnPath(j, d) = NodeAt(d, x)}
  BY <1>4, <1>5, <1>8 DEF Below
<1>10. SiblingGroup(d, i) \subseteq Index
  BY DEF SiblingGroup
<1> QED
  BY <1>6, <1>7, <1>9, <1>10

(* The full tree has proof data at every node, and the value of every leaf. *)
LEMMA FullTreeKeeps ==
  ASSUME shard_root = RootNode
  PROVE  /\ \A v \in InnerNodes : Kept(v)
         /\ \A i \in Index : InProofShard(i)
<1>1. RootNode.depth = 0 /\ RootNode.index = 0 /\ shard_root # NoShard
  BY TreeConstants DEF RootNode, NodeAt
<1>2. ASSUME NEW d \in 1..Depths, NEW x \in 0..(2^d - 1), NEW v, v.depth = d, v.index = x
      PROVE  NeedsMaintain(v, shard_root)
  <2>1. d \in Nat /\ d > 0 /\ d - 0 = d
    BY TreeConstants
  <2>2. PICK p \in Nat : p = 2^d /\ p > 0
    BY <2>1, PowerPositive
  <2>3. x \in Nat /\ x < p
    BY <2>2
  <2>4. x = p * 0 + x
    BY <2>2, <2>3
  <2>5. x \div p = 0
    BY <2>2, <2>3, <2>4, DivModUnique
  <2>6. ToAncestor(v, v.depth - shard_root.depth).index = 0
    BY <1>1, <1>2, <2>1, <2>2, <2>5 DEF ToAncestor, NodeAt
  <2> QED
    BY <1>1, <1>2, <2>1, <2>6 DEF NeedsMaintain
<1>3. ASSUME NEW v \in InnerNodes
      PROVE  Kept(v)
  <2>1. PICK d \in 1..Depths : v \in [depth : {d}, index : 0..(2^d - 1)]
    BY DEF InnerNodes
  <2>2. v.depth = d /\ v.index \in 0..(2^d - 1)
    BY <2>1
  <2> QED
    BY <1>1, <1>2, <2>2 DEF Kept
<1>4. ASSUME NEW i \in Index
      PROVE  InProofShard(i)
  <2>1. Depths \in 1..Depths
    BY TreeConstants
  <2>2. Leaf(i).depth = Depths /\ Leaf(i).index = i /\ i \in 0..(2^Depths - 1)
    BY DEF Leaf, NodeAt, Index
  <2> QED
    BY <1>1, <1>2, <2>1, <2>2 DEF InProofShard
<1> QED
  BY <1>3, <1>4

(* Every sibling that prove returns passes the pairing check. *)
LEMMA SiblingsPair ==
  ASSUME TypeOK, Exact(inner, commitment), shard_root = RootNode,
         NEW i \in Index, NEW d \in 1..Depths
  PROVE  /\ PairingHolds(Siblings(i)[d], SiblingGroup(d, i))
         /\ \A j \in Index : Siblings(i)[d].commitment[j]
                               = IF j \in SiblingGroup(d, i) THEN commitment[j] ELSE 0
<1>1. PICK v \in InnerNodes : v = ToSibling(OnPath(i, d)) /\ Below(v) = SiblingGroup(d, i)
  BY SiblingCovers
<1>2. Siblings(i)[d] = inner[v]
  BY <1>1 DEF Siblings
<1>3. Kept(v)
  BY FullTreeKeeps
<1>4. \A j \in Index :
        /\ inner[v].commitment[j] = IF j \in SiblingGroup(d, i) THEN commitment[j] ELSE 0
        /\ inner[v].proof[j] = inner[v].commitment[j]
  BY <1>1, <1>3 DEF Exact
<1>5. inner[v].commitment \in Vector /\ inner[v].proof \in Vector
  BY DEF TypeOK, NodeData
<1>6. inner[v].commitment = inner[v].proof
  BY <1>4, <1>5 DEF Vector
<1>7. \A j \in Index \ SiblingGroup(d, i) : inner[v].proof[j] = 0
  BY <1>4
<1> QED
  BY <1>2, <1>4, <1>6, <1>7 DEF PairingHolds

(* What the sum over a proof computes: the siblings down to depth d cover exactly the
   leaves that have left the way to leaf i by then. *)
LEMMA SumOfSiblings ==
  ASSUME TypeOK, Exact(inner, commitment), shard_root = RootNode,
         NEW i \in Index, NEW j \in Index
  PROVE  SumAt(Siblings(i), j) = IF j = i THEN 0 ELSE commitment[j]
<1> DEFINE F(c) == [d \in 0..Depths |->
                      IF d = 0 THEN 0 ELSE c[d - 1] + Siblings(i)[d].commitment[j]]
<1>1. Depths \in Nat /\ i \in Nat /\ j \in Nat /\ i < 2^Depths /\ j < 2^Depths /\ 2^Depths \in Nat
  BY IndexIsNat
<1>2. PICK com \in Nat : com = commitment[j] /\ com < Modulus
  BY TreeConstants DEF TypeOK, Vector, Fr
<1>3. PICK g : g = [d \in 1..Depths |-> IF j \in SiblingGroup(d, i) THEN com ELSE 0]
  OBVIOUS
<1>4. g \in [1..Depths -> Nat] /\ \A d \in 1..Depths : g[d] = Siblings(i)[d].commitment[j]
  BY <1>2, <1>3, SiblingsPair
<1>5. PICK r : IsLinear(r, Depths, 1, g)
  BY <1>1, <1>4, LinearExists
<1>6. /\ r \in [0..Depths -> Nat] /\ r[0] = 0
      /\ \A d \in 1..Depths : r[d] = r[d - 1] + g[d]
  <2>1. /\ r \in [0..Depths -> Nat] /\ r[0] = 0
        /\ \A d \in 1..Depths : r[d] = 1 * r[d - 1] + g[d]
    BY <1>5 DEF IsLinear
  <2>2. \A d \in 1..Depths : 1 * r[d - 1] = r[d - 1]
    BY <1>1, <2>1
  <2> QED
    BY <2>1, <2>2
<1>7. r = F(r)
  BY <1>4, <1>6
<1>8. PICK c : c = CHOOSE x : x = F(x)
  OBVIOUS
<1>9. c = F(c)
  BY <1>7, <1>8
<1>10. SumAt(Siblings(i), j) = c[Depths] % Modulus
  BY <1>8 DEF SumAt
<1>11. c[0] = 0 /\ \A d \in 1..Depths : c[d] = c[d - 1] + g[d]
  <2>1. c[0] = 0
    BY <1>1, <1>9
  <2>2. ASSUME NEW d \in 1..Depths
        PROVE  c[d] = c[d - 1] + g[d]
    <3>1. d \in 0..Depths /\ d # 0
      BY <1>1
    <3>2. c[d] = c[d - 1] + Siblings(i)[d].commitment[j]
      BY <1>9, <3>1
    <3> QED
      BY <1>4, <3>2
  <2> QED
    BY <2>1, <2>2
<1>12. PICK S : S = {d \in 0..Depths : c[d] = IF j % 2^d = i % 2^d THEN 0 ELSE com}
  OBVIOUS
<1>13. 0 \in S
  <2>1. i % 1 = 0 /\ j % 1 = 0
    BY <1>1
  <2>2. j % 2^0 = i % 2^0
    BY <2>1, PowerZero
  <2> QED
    BY <1>1, <1>11, <1>12, <2>2
<1>14. ASSUME NEW d \in 1..Depths, d - 1 \in S
       PROVE  d \in S
  <2>1. c[d - 1] = IF j % 2^(d - 1) = i % 2^(d - 1) THEN 0 ELSE com
    BY <1>12, <1>14
  <2>2. g[d] = IF j % 2^(d - 1) = i % 2^(d - 1) /\ j % 2^d # i % 2^d THEN com ELSE 0
    BY <1>3 DEF SiblingGroup
  <2>3. j % 2^d = i % 2^d => j % 2^(d - 1) = i % 2^(d - 1)
    <3>1. d \in 0..Depths /\ d - 1 \in 0..Depths
      BY <1>1
    <3>2. /\ Way(j)[d] = Way(i)[d] <=> j % 2^d = i % 2^d
          /\ Way(j)[d - 1] = Way(i)[d - 1] <=> j % 2^(d - 1) = i % 2^(d - 1)
      BY <3>1, WaysMeet
    <3>3. PICK v \in Nat, a \in {0, 1} :
            v = Way(i)[d - 1] /\ a = Bit(i, d - 1) /\ Way(i)[d] = 2 * v + a
      BY WayStep
    <3>4. PICK w \in Nat, b \in {0, 1} :
            w = Way(j)[d - 1] /\ b = Bit(j, d - 1) /\ Way(j)[d] = 2 * w + b
      BY WayStep
    <3>5. 2 * w + b = 2 * v + a => w = v
      OBVIOUS
    <3> QED
      BY <3>2, <3>3, <3>4, <3>5
  <2>4. c[d] = c[d - 1] + g[d]
    BY <1>11
  <2>5. c[d] = IF j % 2^d = i % 2^d THEN 0 ELSE com
    <3>1. CASE j % 2^d = i % 2^d
      BY <2>1, <2>2, <2>3, <2>4, <3>1
    <3>2. CASE j % 2^d # i % 2^d /\ j % 2^(d - 1) = i % 2^(d - 1)
      BY <1>2, <2>1, <2>2, <2>4, <3>2
    <3>3. CASE j % 2^d # i % 2^d /\ j % 2^(d - 1) # i % 2^(d - 1)
      BY <1>2, <2>1, <2>2, <2>4, <3>3
    <3> QED
      BY <3>1, <3>2, <3>3
  <2> QED
    BY <1>1, <1>12, <2>5
<1>15. Depths \in S
  <2>1. \A d \in 0..Depths : d \in S
    BY <1>1, <1>13, <1>14, InductionTo
  <2> QED
    BY <1>1, <2>1
<1>16. j % 2^Depths = j /\ i % 2^Depths = i
  <2>1. PICK p \in Nat : p = 2^Depths /\ p > 0 /\ i < p /\ j < p
    BY <1>1
  <2>2. i = p * 0 + i /\ j = p * 0 + j
    BY <1>1, <2>1
  <2>3. j % p = j /\ i % p = i
    BY <1>1, <2>1, <2>2, DivModUnique
  <2> QED
    BY <2>1, <2>3
<1>17. c[Depths] = IF j = i THEN 0 ELSE com
  BY <1>12, <1>15, <1>16
<1>18. com % Modulus = com /\ 0 % Modulus = 0
  BY <1>2, TreeConstants
<1> QED
  BY <1>2, <1>10, <1>17, <1>18

-------------------------------------------------------------------------------
(* A full tree whose leaves never decrease commits to its leaf values: no write wraps
   around in the field, and no leaf is moved without its value. *)
LeavesCommitted ==
  shard_root = RootNode =>
    \A i \in Index : commitment[i] = data[i] /\ dbComm[i] = dbData[i]

LEMMA LeavesStep ==
  ASSUME ~MayDecrease, TreeInv, LeavesCommitted, [Next]_vars
  PROVE  LeavesCommitted'
<1>1. shard_root' = shard_root
  BY DEF Next, Write, UpdateOnly, Flush, Reopen, vars
<1> SUFFICES ASSUME shard_root = RootNode,
                    NEW i \in Index
             PROVE  commitment'[i] = data'[i] /\ dbComm'[i] = dbData'[i]
  BY <1>1 DEF LeavesCommitted
<1>2. \A k \in Index : commitment[k] = data[k] /\ dbComm[k] = dbData[k]
  BY DEF LeavesCommitted
<1>3. ASSUME NEW k \in Index, NEW new \in 0..MaxValue, Write(k, new)
      PROVE  commitment'[i] = data'[i] /\ dbComm'[i] = dbData'[i]
  <2>1. /\ new >= data[k]
        /\ data' = [data EXCEPT ![k] = new]
        /\ UpdateTree(k, GuardDelta(data[k], new))
        /\ dbComm' = dbComm /\ dbData' = dbData
    BY <1>3 DEF Write
  <2>2. PICK old \in Nat : old = data[k] /\ old = commitment[k] /\ old <= new
    BY <1>2, <2>1, TreeConstants DEF TreeInv, TypeOK
  <2>3. new \in Nat /\ new < Modulus
    BY TreeConstants
  <2>4. PICK delta \in Int : delta = GuardDelta(data[k], new) /\ delta = new - old
    BY <2>2, <2>3 DEF GuardDelta
  <2>5. data'[k] = new /\ (i # k => data'[i] = data[i])
    BY <2>1 DEF TreeInv, TypeOK
  <2>6. commitment'[k] = new /\ (i # k => commitment'[i] = commitment[i])
    <3>1. CASE delta = 0
      BY <2>1, <2>2, <2>3, <2>4, <3>1 DEF UpdateTree
    <3>2. CASE delta # 0
      <4>1. commitment' = AddAt(commitment, k, delta)
        BY <2>1, <2>4, <3>2 DEF UpdateTree
      <4>2. /\ AddAt(commitment, k, delta)[k] = (commitment[k] + delta) % Modulus
            /\ \A j \in Index : j # k => AddAt(commitment, k, delta)[j] = commitment[j]
        BY AddAtVector DEF TreeInv, TypeOK
      <4>3. (commitment[k] + delta) % Modulus = new
        <5>1. commitment[k] + delta = new
          BY <2>2, <2>3, <2>4
        <5>2. new % Modulus = new
          BY <2>3, TreeConstants
        <5> QED
          BY <5>1, <5>2
      <4> QED
        BY <4>1, <4>2, <4>3
    <3> QED
      BY <3>1, <3>2
  <2> QED
    BY <1>2, <2>1, <2>5, <2>6
<1>4. ~\E k \in Index : UpdateOnly(k)
  BY FullTreeKeeps DEF UpdateOnly
<1>5. CASE Flush
  BY <1>2, <1>5 DEF Flush
<1>6. CASE Reopen
  BY <1>2, <1>6 DEF Reopen
<1>7. CASE UNCHANGED vars
  BY <1>2, <1>7 DEF vars
<1> QED
  BY <1>3, <1>4, <1>5, <1>6, <1>7 DEF Next

(* verify accepts exactly the value that the commitment has for the leaf. *)
LEMMA VerifyIsExact ==
  ASSUME TypeOK, Exact(inner, commitment), shard_root = RootNode,
         NEW i \in Index, NEW v \in Fr
  PROVE  Verify(i, v, commitment, Siblings(i)) <=> v = commitment[i]
<1>1. \A d \in 1..Depths : PairingHolds(Siblings(i)[d], SiblingGroup(d, i))
  BY SiblingsPair
<1>2. ASSUME NEW j \in Index, j # i
      PROVE  commitment[j] = ((IF j = i THEN v ELSE 0) + SumAt(Siblings(i), j)) % Modulus
  <2>1. PICK com \in Nat : com = commitment[j] /\ com < Modulus
    BY TreeConstants DEF TypeOK, Vector, Fr
  <2>2. SumAt(Siblings(i), j) = com
    BY <1>2, <2>1, SumOfSiblings
  <2>3. (0 + com) % Modulus = com
    BY <2>1, TreeConstants
  <2> QED
    BY <1>2, <2>1, <2>2, <2>3
<1>3. ((IF i = i THEN v ELSE 0) + SumAt(Siblings(i), i)) % Modulus = v
  <2>1. SumAt(Siblings(i), i) = 0
    BY SumOfSiblings
  <2>2. (v + 0) % Modulus = v
    BY TreeConstants DEF Fr
  <2> QED
    BY <2>1, <2>2
<1>4. (\A j \in Index :
         commitment[j] = ((IF j = i THEN v ELSE 0) + SumAt(Siblings(i), j)) % Modulus)
        <=> v = commitment[i]
  BY <1>2, <1>3
<1> QED
  BY <1>1, <1>4 DEF Verify

(* For leaves that only grow, as the versions of LVMT do, AMTree::verify accepts a leaf's
   proof from a tree with full proof data for the value of the leaf and for no other
   value, in a tree of any depth, through updates, flushes and restarts.  (A leaf that
   decreases breaks it: the write guard then adds the Montgomery radix.) *)
THEOREM ProofsAreExact ==
  ASSUME ~MayDecrease
  PROVE  Spec => []ProofsExact
<1>1. Init => LeavesCommitted
  BY DEF Init, LeavesCommitted
<1>2. TreeInv /\ LeavesCommitted /\ [Next]_vars => LeavesCommitted'
  BY LeavesStep
<1>3. TreeInv /\ LeavesCommitted => ProofsExact
  <2> SUFFICES ASSUME TreeInv, LeavesCommitted, shard_root = RootNode,
                      NEW i \in Index, NEW v \in Fr
               PROVE  Verify(i, v, commitment, Siblings(i)) <=> v = data[i]
    BY DEF ProofsExact
  <2>1. Verify(i, v, commitment, Siblings(i)) <=> v = commitment[i]
    BY VerifyIsExact DEF TreeInv
  <2>2. commitment[i] = data[i]
    BY DEF LeavesCommitted
  <2> QED
    BY <2>1, <2>2
<1> QED
  BY <1>1, <1>2, <1>3, TreeInductive, PTL DEF Spec

-------------------------------------------------------------------------------
(* The public parameters: the two files and what a process makes of them. *)

PIndex == Params!Index

(* A file that a process reads has the powers of one secret in both groups. *)
IsPowers(file) ==
  file \notin {Missing, Partial} =>
    \E tau \in Taus, d1 \in Nat, d2 \in Nat :
      file = [g1 |-> Params!PowersOf(tau, d1), g2 |-> Params!PowersOf(tau, d2)]

(* The parameters belong to the powers on disk. *)
OfPowers(p) == Params!Usable(power_tau) /\ p = Params!FromPp(Params!Truncated(power_tau))

(* The parameters on disk, unless they are incomplete, and the parameters in memory
   are those of the powers on disk; so are the powers in memory before the
   parameters are computed.  Powers that are replaced have no parameters yet. *)
FilesInv ==
  /\ IsPowers(power_tau)
  /\ amt_params \in {Missing, Partial} \/ OfPowers(amt_params)
  /\ params = Unloaded \/ OfPowers(params)
  /\ stage \in {"start", "power_tau", "save_powers", "from_pp"} => params = Unloaded
  /\ stage = "save_powers" => /\ \E tau \in Taus : pp = Params!Setup(tau)
                              /\ amt_params \in {Missing, Partial}
  /\ stage = "from_pp" => Params!Usable(power_tau) /\ pp = Params!Truncated(power_tau)
  /\ stage = "save_params" => OfPowers(params)

LEMMA PIndexIs ==
  /\ PIndex = 0..(2^ParamsDepths - 1) /\ IsFiniteSet(PIndex)
  /\ ParamsDepths \in Nat /\ Prime \in Nat /\ Prime > 1
  /\ 2^ParamsDepths \in Nat /\ 2^ParamsDepths >= 1
<1>1. ParamsDepths \in Nat /\ Prime \in Nat /\ Prime > 1
  BY ParamsConstants
<1>2. 2^ParamsDepths \in Nat /\ 2^ParamsDepths >= 1
  BY <1>1, PowerPositive
<1>3. PIndex = 0..(2^ParamsDepths - 1)
  BY DEF PIndex, Params!Index
<1>4. 0 \in Int /\ 2^ParamsDepths - 1 \in Int
  BY <1>2
<1>5. IsFiniteSet(0..(2^ParamsDepths - 1))
  BY <1>4, FS_Interval
<1> QED
  BY <1>1, <1>2, <1>3, <1>5

(* p has the powers of x up to the m-th, as Pow builds them. *)
PowStep(p, x, m) == p = [i \in 0..m |-> IF i = 0 THEN 1 ELSE (p[i - 1] * x) % Prime]

LEMMA PowStepIs ==
  ASSUME NEW p, NEW x \in Nat, NEW m \in Nat, PowStep(p, x, m)
  PROVE  /\ p \in [0..m -> Nat] /\ p[0] = 1 /\ \A i \in 1..m : p[i] = (p[i - 1] * x) % Prime
<1>1. Prime \in Nat /\ Prime > 1
  BY PIndexIs
<1>2. /\ DOMAIN p = 0..m
      /\ \A i \in 0..m : p[i] = IF i = 0 THEN 1 ELSE (p[i - 1] * x) % Prime
  <2>1. PICK q : q = [i \in 0..m |-> IF i = 0 THEN 1 ELSE (p[i - 1] * x) % Prime]
    OBVIOUS
  <2>2. p = q
    BY <2>1 DEF PowStep
  <2>3. DOMAIN q = 0..m /\ \A i \in 0..m : q[i] = IF i = 0 THEN 1 ELSE (p[i - 1] * x) % Prime
    BY <2>1
  <2> QED
    BY <2>2, <2>3
<1>3. PICK T : T = {i \in 0..m : p[i] \in Nat}
  OBVIOUS
<1>4. 0 \in T
  BY <1>2, <1>3
<1>5. ASSUME NEW i \in 1..m, i - 1 \in T PROVE i \in T
  <2>1. p[i - 1] \in Nat /\ i \in 0..m /\ i # 0
    BY <1>3, <1>5
  <2>2. p[i - 1] * x \in Nat
    BY <2>1
  <2>3. (p[i - 1] * x) % Prime \in Nat
    BY <1>1, <2>2
  <2> QED
    BY <1>2, <1>3, <2>1, <2>3
<1>6. \A i \in 0..m : i \in T
  BY <1>4, <1>5, InductionTo
<1>7. \A i \in 0..m : p[i] \in Nat
  BY <1>3, <1>6
<1>8. p = [i \in 0..m |-> p[i]]
  BY <1>2, Zenon DEF PowStep
<1>9. p \in [0..m -> Nat]
  BY <1>7, <1>8
<1>10. p[0] = 1 /\ \A i \in 1..m : p[i] = (p[i - 1] * x) % Prime
  <2>1. 0 \in 0..m /\ \A i \in 1..m : i \in 0..m /\ i # 0
    OBVIOUS
  <2> QED
    BY <1>2, <2>1
<1> QED
  BY <1>9, <1>10

LEMMA PowExists ==
  ASSUME NEW x \in Nat, NEW n \in Nat
  PROVE  \E p : PowStep(p, x, n)
<1>1. PICK T : T = {m \in 0..n : \E p : PowStep(p, x, m)}
  OBVIOUS
<1>2. 0 \in T
  <2>1. PICK p : p = [i \in 0..0 |-> 1]
    OBVIOUS
  <2>2. PowStep(p, x, 0)
    BY <2>1 DEF PowStep
  <2> QED
    BY <1>1, <2>2
<1>3. ASSUME NEW m \in 1..n, m - 1 \in T PROVE m \in T
  <2>1. PICK p : PowStep(p, x, m - 1)
    BY <1>1, <1>3
  <2>2. m - 1 \in Nat
    OBVIOUS
  <2>3. /\ p \in [0..(m - 1) -> Nat] /\ p[0] = 1
        /\ \A i \in 1..(m - 1) : p[i] = (p[i - 1] * x) % Prime
    BY <2>1, <2>2, PowStepIs
  <2>4. PICK q : q = [i \in 0..m |-> IF i = m THEN (p[m - 1] * x) % Prime ELSE p[i]]
    OBVIOUS
  <2>5. ASSUME NEW i \in 0..m PROVE q[i] = IF i = 0 THEN 1 ELSE (q[i - 1] * x) % Prime
    <3>1. CASE i = m
      <4>1. m # 0 /\ m - 1 \in 0..m /\ m - 1 # m
        OBVIOUS
      <4> QED
        BY <2>4, <3>1, <4>1
    <3>2. CASE i # m
      <4>1. i # 0 => i \in 1..(m - 1) /\ i - 1 \in 0..m /\ i - 1 # m
        BY <3>2
      <4>2. q[i] = p[i] /\ (i # 0 => q[i - 1] = p[i - 1])
        BY <2>4, <3>2, <4>1
      <4> QED
        BY <2>3, <4>1, <4>2
    <3> QED
      BY <3>1, <3>2
  <2>6. PowStep(q, x, m)
    BY <2>4, <2>5 DEF PowStep
  <2>7. m \in 0..n
    OBVIOUS
  <2> QED
    BY <1>1, <2>6, <2>7
<1>4. \A m \in 0..n : m \in T
  BY <1>2, <1>3, InductionTo
<1> QED
  BY <1>1, <1>4

LEMMA PowIs ==
  ASSUME NEW x \in Nat, NEW n \in Nat, NEW p,
         p[0] = 1, \A i \in 1..n : p[i] = (p[i - 1] * x) % Prime
  PROVE  Params!Pow(x, n) = p[n]
<1>1. PICK q : q = CHOOSE r : PowStep(r, x, n)
  OBVIOUS
<1>2. PowStep(q, x, n)
  BY <1>1, PowExists
<1>3. Params!Pow(x, n) = q[n]
  BY <1>1 DEF Params!Pow, PowStep
<1>4. q[0] = 1 /\ \A i \in 1..n : q[i] = (q[i - 1] * x) % Prime
  BY <1>2, PowStepIs
<1>5. PICK S : S = {i \in 0..n : q[i] = p[i]}
  OBVIOUS
<1>6. 0 \in S
  BY <1>4, <1>5
<1>7. ASSUME NEW i \in 1..n, i - 1 \in S PROVE i \in S
  BY <1>4, <1>5, <1>7
<1>8. \A i \in 0..n : i \in S
  BY <1>6, <1>7, InductionTo
<1> QED
  BY <1>3, <1>5, <1>8

(* A power is a scalar, and the next one is the product with the base. *)
LEMMA PowFacts ==
  ASSUME NEW x \in Nat, NEW n \in Nat
  PROVE  /\ Params!Pow(x, 0) = 1 /\ Params!Pow(x, n) \in Nat /\ Params!Pow(x, n) < Prime
         /\ Params!Pow(x, n + 1) = (Params!Pow(x, n) * x) % Prime
<1>0. n + 1 \in Nat /\ 0 \in Nat
  OBVIOUS
<1>1. PICK p : PowStep(p, x, n + 1)
  BY <1>0, PowExists
<1>2. /\ p \in [0..(n + 1) -> Nat] /\ p[0] = 1
      /\ \A i \in 1..(n + 1) : p[i] = (p[i - 1] * x) % Prime
  BY <1>0, <1>1, PowStepIs
<1>3. Params!Pow(x, n) = p[n]
  <2>1. \A i \in 1..n : p[i] = (p[i - 1] * x) % Prime
    BY <1>2
  <2> QED
    BY <1>2, <2>1, PowIs
<1>4. Params!Pow(x, n + 1) = p[n + 1]
  BY <1>0, <1>2, PowIs
<1>5. Params!Pow(x, 0) = p[0]
  <2>1. \A i \in 1..0 : p[i] = (p[i - 1] * x) % Prime
    OBVIOUS
  <2> QED
    BY <1>0, <1>2, <2>1, PowIs
<1>6. p[n] < Prime
  <2>1. Prime \in Nat /\ Prime > 1
    BY PIndexIs
  <2>2. CASE n = 0
    BY <1>2, <2>1, <2>2
  <2>3. CASE n # 0
    <3>1. p[n] = (p[n - 1] * x) % Prime /\ n - 1 \in 0..(n + 1)
      BY <1>2, <2>3
    <3>2. PICK y \in Nat : y = p[n - 1]
      BY <1>2, <3>1
    <3>3. y * x \in Nat
      OBVIOUS
    <3>4. (y * x) % Prime < Prime
      BY <2>1, <3>3
    <3> QED
      BY <3>1, <3>2, <3>4
  <2> QED
    BY <2>2, <2>3
<1>7. p[n + 1] = (p[n] * x) % Prime
  <2>1. n + 1 \in 1..(n + 1) /\ (n + 1) - 1 = n
    OBVIOUS
  <2> QED
    BY <1>2, <2>1
<1> QED
  BY <1>2, <1>3, <1>4, <1>5, <1>6, <1>7

LEMMA PowNat ==
  ASSUME NEW x \in Nat, NEW n \in Nat
  PROVE  Params!Pow(x, n) \in Nat
BY PowFacts

(* What a setup makes, and what a file put there has, are powers. *)
LEMMA PowersAreNat ==
  ASSUME NEW tau \in Taus, NEW d \in Nat
  PROVE  \A i \in DOMAIN Params!PowersOf(tau, d) : Params!PowersOf(tau, d)[i] \in Nat
<1>1. tau \in Nat
  <2>1. Taus \subseteq Nat
    BY ParamsConstants
  <2> QED
    BY <2>1
<1>2. 2^d \in Nat
  BY PowerPositive
<1>3. ASSUME NEW i \in 0..(2^d - 1) PROVE Params!Pow(tau, i) \in Nat
  <2>1. i \in Nat
    BY <1>2
  <2> QED
    BY <1>1, <2>1, PowNat
<1> QED
  BY <1>3 DEF Params!PowersOf

LEMMA SetupIsUsable ==
  ASSUME NEW tau \in Taus
  PROVE  /\ Params!Usable(Params!Setup(tau)) /\ IsPowers(Params!Setup(tau))
         /\ Params!Truncated(Params!Setup(tau)) = Params!Setup(tau)
<1>1. PICK f : f = Params!PowersOf(tau, ParamsDepths)
  OBVIOUS
<1>2. DOMAIN f = PIndex /\ f = [i \in PIndex |-> f[i]]
  BY <1>1, PIndexIs DEF Params!PowersOf
<1>3. Params!Setup(tau) = [g1 |-> f, g2 |-> f]
  BY <1>1 DEF Params!Setup
<1>4. Params!Setup(tau) \notin {Missing, Partial}
  BY FileConstants
<1>5. Params!Usable(Params!Setup(tau))
  BY <1>2, <1>3, <1>4 DEF Params!Usable, PIndex
<1>6. IsPowers(Params!Setup(tau))
  BY <1>1, <1>3, PIndexIs DEF IsPowers
<1>7. Params!Truncated(Params!Setup(tau)) = [g1 |-> f, g2 |-> f]
  BY <1>2, <1>3 DEF Params!Truncated, PIndex
<1> QED
  BY <1>3, <1>5, <1>6, <1>7

LEMMA FilesInit ==
  ASSUME Params!Init
  PROVE  FilesInv
<1>1. amt_params = Missing /\ params = Unloaded /\ stage = "start"
  BY DEF Params!Init
<1>2. IsPowers(power_tau)
  <2>1. CASE power_tau = Missing
    BY <2>1 DEF IsPowers
  <2>2. CASE power_tau # Missing
    <3>1. PICK tau \in Taus, d1 \in {ParamsDepths, ParamsDepths + 1},
               d2 \in {ParamsDepths - 1, ParamsDepths, ParamsDepths + 1} :
            power_tau = [g1 |-> Params!PowersOf(tau, d1), g2 |-> Params!PowersOf(tau, d2)]
      BY <2>2 DEF Params!Init
    <3>2. ParamsDepths >= 1
      BY ParamsConstants
    <3>3. d1 \in Nat /\ d2 \in Nat
      BY <3>1, <3>2, PIndexIs
    <3> QED
      BY <3>1, <3>3 DEF IsPowers
  <2> QED
    BY <2>1, <2>2
<1> QED
  BY <1>1, <1>2 DEF FilesInv

(* The steps of from_dir and a restart between any two of them. *)
LEMMA FilesStep ==
  ASSUME FilesInv, Params!Next
  PROVE  FilesInv'
<1>1. CASE Params!LoadCached
  <2>1. stage = "start" /\ UNCHANGED <<power_tau, amt_params, pp>>
    BY <1>1 DEF Params!LoadCached, Params!files
  <2>2. CASE amt_params \in {Missing, Partial}
    <3>1. stage' = "power_tau" /\ params' = params
      BY <1>1, <2>2 DEF Params!LoadCached
    <3> QED
      BY <2>1, <3>1 DEF FilesInv, OfPowers
  <2>3. CASE amt_params \notin {Missing, Partial}
    <3>1. stage' = "ready" /\ params' = amt_params
      BY <1>1, <2>3 DEF Params!LoadCached
    <3> QED
      BY <2>1, <2>3, <3>1 DEF FilesInv, OfPowers
  <2> QED
    BY <2>2, <2>3
<1>2. CASE Params!LoadPowers
  <2>1. /\ stage = "power_tau" /\ stage' = "from_pp" /\ Params!Usable(power_tau)
        /\ pp' = Params!Truncated(power_tau) /\ UNCHANGED <<power_tau, amt_params, params>>
    BY <1>2 DEF Params!LoadPowers, Params!files
  <2> QED
    BY <2>1 DEF FilesInv, OfPowers
<1>3. CASE Params!LoadPowersPanics
  <2>1. stage = "power_tau" /\ stage' = "panic" /\ UNCHANGED <<power_tau, amt_params, pp, params>>
    BY <1>3 DEF Params!LoadPowersPanics, Params!files
  <2> QED
    BY <2>1 DEF FilesInv, OfPowers
<1>4. ASSUME NEW tau \in Taus, Params!CreatePowers(tau) PROVE FilesInv'
  <2>1. /\ stage = "power_tau" /\ stage' = "save_powers" /\ ~Params!Usable(power_tau)
        /\ pp' = Params!Setup(tau) /\ power_tau' = Partial /\ UNCHANGED <<amt_params, params>>
    BY <1>4 DEF Params!CreatePowers
  <2>2. params = Unloaded /\ amt_params \in {Missing, Partial}
    BY <2>1 DEF FilesInv, OfPowers
  <2>3. IsPowers(Partial)
    BY DEF IsPowers
  <2> QED
    BY <2>1, <2>2, <2>3 DEF FilesInv
<1>5. CASE Params!SavePowers
  <2>1. /\ stage = "save_powers" /\ stage' = "from_pp" /\ power_tau' = pp
        /\ UNCHANGED <<amt_params, pp, params>>
    BY <1>5 DEF Params!SavePowers
  <2>2. PICK tau \in Taus : pp = Params!Setup(tau)
    BY <2>1 DEF FilesInv
  <2>3. Params!Usable(pp) /\ IsPowers(pp) /\ Params!Truncated(pp) = pp
    BY <2>2, SetupIsUsable
  <2>4. params = Unloaded /\ amt_params \in {Missing, Partial}
    BY <2>1 DEF FilesInv
  <2> QED
    BY <2>1, <2>3, <2>4 DEF FilesInv
<1>6. CASE Params!Generate
  <2>1. /\ stage = "from_pp" /\ stage' = "save_params" /\ params' = Params!FromPp(pp)
        /\ amt_params' = Partial /\ power_tau' = power_tau
    BY <1>6 DEF Params!Generate
  <2>2. OfPowers(params)'
    <3>1. Params!Usable(power_tau) /\ pp = Params!Truncated(power_tau)
      BY <2>1 DEF FilesInv
    <3>2. params' = Params!FromPp(Params!Truncated(power_tau'))
      BY <2>1, <3>1
    <3> QED
      BY <2>1, <3>1, <3>2 DEF OfPowers
  <2> QED
    BY <2>1, <2>2 DEF FilesInv, OfPowers
<1>7. CASE Params!SaveParams
  <2>1. /\ stage = "save_params" /\ stage' = "ready" /\ amt_params' = params
        /\ UNCHANGED <<power_tau, params>>
    BY <1>7 DEF Params!SaveParams
  <2> QED
    BY <2>1 DEF FilesInv, OfPowers
<1>8. CASE Params!Restart
  <2>1. stage' = "start" /\ params' = Unloaded /\ UNCHANGED <<power_tau, amt_params>>
    BY <1>8 DEF Params!Restart, Params!files
  <2> QED
    BY <2>1 DEF FilesInv, OfPowers
<1>9. ASSUME UNCHANGED <<power_tau, amt_params, pp, params, stage>> PROVE FilesInv'
  BY <1>9 DEF FilesInv, OfPowers
<1>10. CASE Params!WarmQuotient
  BY <1>9, <1>10 DEF Params!WarmQuotient, Params!files
<1>11. ASSUME NEW i \in CachedIndex, NEW power \in Scalars, Params!GetIdentsPow(i, power) PROVE FilesInv'
  BY <1>9, <1>11 DEF Params!GetIdentsPow, Params!files
<1>12. ASSUME NEW d \in Params!Depth, NEW i \in CachedIndex, NEW power \in Scalars,
              Params!GetQuotientPow(d, i, power)
       PROVE  FilesInv'
  BY <1>9, <1>12 DEF Params!GetQuotientPow, Params!files
<1> QED
  BY <1>1, <1>2, <1>3, <1>4, <1>5, <1>6, <1>7, <1>8, <1>10, <1>11, <1>12 DEF Params!Next

(* The inductive invariant of the two files. *)
MCInv == (checked = "tree" => params = Unloaded) /\ (checked # "tree" => FilesInv)

THEOREM FilesInductive == MCSpec => []MCInv
<1>1. MCInit => MCInv
  BY FilesInit DEF MCInit, MCInv
<1>2. MCInv /\ [MCNext]_<<vars, paramVars, checked>> => MCInv'
  <2> SUFFICES ASSUME MCInv, [MCNext]_<<vars, paramVars, checked>> PROVE MCInv'
    OBVIOUS
  <2>1. checked' = checked
    BY DEF MCNext
  <2>2. CASE UNCHANGED paramVars
    BY <2>1, <2>2 DEF MCInv, FilesInv, OfPowers, paramVars
  <2>3. CASE checked = "params" /\ Params!Next
    BY <2>1, <2>3, FilesStep DEF MCInv
  <2> QED
    BY <2>2, <2>3 DEF MCNext
<1> QED
  BY <1>1, <1>2, PTL DEF MCSpec

(* Wherever earlier processes ended while they wrote either file: the parameters a
   process works with are those of the powers of tau on disk, so two processes never
   work with different ones. *)
THEOREM FilesAgree == MCSpec => []AgreesWithPowers
<1>1. MCInv => AgreesWithPowers
  BY DEF MCInv, FilesInv, OfPowers, AgreesWithPowers, Params!AgreesWithPowers
<1> QED
  BY <1>1, FilesInductive, PTL

-------------------------------------------------------------------------------
(* Multiplication with cached multiples *)

(* The entries of a cache are the multiples of its point by powers of two. *)
Multiples(cache, point) ==
  \A b \in DOMAIN cache : b \in Nat /\ cache[b] = (point * 2^b) % Prime

LEMMA BitsFacts ==
  ASSUME NEW scalar \in Nat
  PROVE  /\ IsFiniteSet(Params!Bits(scalar)) /\ Params!Bits(scalar) \subseteq Nat
         /\ ScalarBits \in Nat
         /\ \A b \in Nat : b \in Params!Bits(scalar) <=> b < ScalarBits /\ (scalar \div 2^b) % 2 = 1
<1>1. ScalarBits \in Nat
  BY ParamsConstants
<1>2. 0 \in Int /\ ScalarBits - 1 \in Int
  BY <1>1
<1>3. IsFiniteSet(0..(ScalarBits - 1))
  BY <1>2, FS_Interval
<1>4. Params!Bits(scalar) = {b \in 0..(ScalarBits - 1) : (scalar \div 2^b) % 2 = 1}
  BY DEF Params!Bits
<1>5. Params!Bits(scalar) \in SUBSET (0..(ScalarBits - 1))
  BY <1>4
<1>6. IsFiniteSet(Params!Bits(scalar))
  BY <1>3, <1>5, FS_Subset
<1>7. ASSUME NEW b \in Nat PROVE b \in 0..(ScalarBits - 1) <=> b < ScalarBits
  BY <1>1
<1>8. Params!Bits(scalar) \subseteq Nat
  <2>1. 0..(ScalarBits - 1) \subseteq Nat
    BY <1>1
  <2> QED
    BY <1>5, <2>1
<1> QED
  BY <1>1, <1>4, <1>6, <1>7, <1>8

(* What Filled adds are multiples too, one for every bit of the scalar. *)
LEMMA FilledIsExact ==
  ASSUME NEW cache, NEW point, NEW scalar \in Nat, Multiples(cache, point)
  PROVE  /\ Multiples(Params!Filled(cache, point, scalar), point)
         /\ \A b \in Params!Bits(scalar) :
              Params!Filled(cache, point, scalar)[b] = (point * 2^b) % Prime
<1>1. PICK B : B = Params!Bits(scalar) /\ B \subseteq Nat
  BY BitsFacts
<1>2. PICK f : f = Params!Filled(cache, point, scalar)
  OBVIOUS
<1>3. f = [b \in DOMAIN cache \cup B |-> IF b \in DOMAIN cache THEN cache[b] ELSE (point * 2^b) % Prime]
  BY <1>1, <1>2 DEF Params!Filled
<1>4. ASSUME NEW b \in DOMAIN cache \cup B PROVE b \in Nat /\ f[b] = (point * 2^b) % Prime
  <2>1. CASE b \in DOMAIN cache
    BY <1>3, <2>1 DEF Multiples
  <2>2. CASE b \notin DOMAIN cache
    <3>1. f[b] = (point * 2^b) % Prime
      BY <1>3, <2>2
    <3> QED
      BY <1>1, <2>2, <3>1
  <2> QED
    BY <2>1, <2>2
<1>5. DOMAIN f = DOMAIN cache \cup B
  BY <1>3
<1> QED
  BY <1>1, <1>2, <1>4, <1>5 DEF Multiples

LEMMA WarmedIsExact ==
  ASSUME NEW cache, NEW point, Multiples(cache, point)
  PROVE  Multiples(Params!Warmed(cache, point), point)
<1>1. PICK B : B = {k * SlotBits : k \in 0..(SlotCount - 1)}
  OBVIOUS
<1>2. B \subseteq Nat
  <2>1. SlotBits \in Nat /\ SlotCount \in Nat
    BY ParamsConstants
  <2>2. ASSUME NEW k \in 0..(SlotCount - 1) PROVE k * SlotBits \in Nat
    <3>1. k \in Nat
      BY <2>1
    <3> QED
      BY <2>1, <3>1
  <2> QED
    BY <1>1, <2>2
<1>3. PICK f : f = Params!Warmed(cache, point)
  OBVIOUS
<1>4. f = [b \in DOMAIN cache \cup B |-> IF b \in B THEN (point * 2^b) % Prime ELSE cache[b]]
  BY <1>1, <1>3 DEF Params!Warmed
<1>5. ASSUME NEW b \in DOMAIN cache \cup B PROVE b \in Nat /\ f[b] = (point * 2^b) % Prime
  <2>1. CASE b \in B
    <3>1. f[b] = (point * 2^b) % Prime
      BY <1>4, <2>1
    <3> QED
      BY <1>2, <2>1, <3>1
  <2>2. CASE b \notin B
    <3>1. b \in DOMAIN cache /\ f[b] = cache[b]
      BY <1>4, <2>2
    <3> QED
      BY <3>1 DEF Multiples
  <2> QED
    BY <2>1, <2>2
<1>6. DOMAIN f = DOMAIN cache \cup B
  BY <1>4
<1> QED
  BY <1>3, <1>5, <1>6 DEF Multiples

(* The bits below k, and numbers that are equal in the field. *)
Lower(B, k) == {b \in B : b < k}
Congruent(x, y) == x \in Nat /\ \E q \in Nat : x + Prime * q = y

(* The multiples for the bits below k add up to the point times the last k bits of
   the scalar. *)
LEMMA BitsAddUp ==
  ASSUME NEW point \in Nat, NEW scalar \in Nat, NEW B, B = Params!Bits(scalar),
         NEW g \in [B -> Int], \A b \in B : g[b] = (point * 2^b) % Prime,
         NEW F \in [SUBSET B -> Int], F[{}] = 0, AddsUp(F, g, B)
  PROVE  \A k \in 0..ScalarBits : Congruent(F[Lower(B, k)], point * (scalar % 2^k))
<1>0. Prime \in Nat /\ Prime > 0 /\ ScalarBits \in Nat
  BY PIndexIs, BitsFacts
<1>1. /\ B \subseteq Nat
      /\ \A b \in Nat : b \in B <=> b < ScalarBits /\ (scalar \div 2^b) % 2 = 1
  BY BitsFacts
<1>2. PICK T : T = {k \in 0..ScalarBits : Congruent(F[Lower(B, k)], point * (scalar % 2^k))}
  OBVIOUS
<1>3. 0 \in T
  <2>1. Lower(B, 0) = {}
    BY <1>1 DEF Lower
  <2>2. scalar % 2^0 = 0
    <3>1. scalar % 1 = 0
      OBVIOUS
    <3> QED
      BY <3>1, PowerZero
  <2>3. F[Lower(B, 0)] = 0
    BY <2>1
  <2>4. 0 + Prime * 0 = point * 0 /\ 0 \in 0..ScalarBits
    BY <1>0
  <2>5. F[Lower(B, 0)] + Prime * 0 = point * (scalar % 2^0)
    BY <2>2, <2>3, <2>4
  <2>6. F[Lower(B, 0)] \in Nat
    BY <2>3
  <2>7. Congruent(F[Lower(B, 0)], point * (scalar % 2^0))
    BY <2>5, <2>6 DEF Congruent
  <2> QED
    BY <1>2, <2>4, <2>7
<1>4. ASSUME NEW k \in 1..ScalarBits, k - 1 \in T PROVE k \in T
  <2>1. PICK j \in Nat : j = k - 1 /\ k = j + 1 /\ j < ScalarBits /\ j \in T
    <3>1. k - 1 \in Nat /\ k = (k - 1) + 1 /\ k - 1 < ScalarBits
      BY <1>0
    <3> QED
      BY <1>4, <3>1
  <2>2. PICK s : s = Lower(B, j)
    OBVIOUS
  <2>3. F[s] \in Nat /\ \E q \in Nat : F[s] + Prime * q = point * (scalar % 2^j)
    BY <1>2, <2>1, <2>2 DEF Congruent
  <2>4. PICK x \in Nat, q \in Nat, v \in Nat, p \in Nat :
          /\ x = F[s] /\ v = scalar % 2^j /\ x + Prime * q = point * v
          /\ p = 2^j /\ p > 0
    <3>1. 2^j \in Nat /\ 2^j > 0
      BY PowerPositive
    <3>2. scalar % 2^j \in Nat
      BY <3>1, DivMod
    <3> QED
      BY <2>3, <3>1, <3>2
  <2>5. PICK t \in {0, 1} : t = (scalar \div 2^j) % 2
    <3>1. scalar \div p \in Nat
      BY <2>4, DivMod
    <3>2. (scalar \div p) % 2 \in {0, 1}
      BY <3>1
    <3> QED
      BY <2>4, <3>2
  <2>6. scalar % 2^k = v + p * t
    <3>1. 2^k = p + p
      BY <2>1, <2>4, PowerDoubles
    <3>2. scalar % (p + p) = (scalar % p) + p * ((scalar \div p) % 2)
      BY <2>4, DivModDouble
    <3> QED
      BY <2>4, <2>5, <3>1, <3>2
  <2>7. j \in B <=> t = 1
    BY <1>1, <2>1, <2>5
  <2>8. k \in 0..ScalarBits
    BY <1>4
  <2>9. CASE t = 0
    <3>1. Lower(B, k) = s
      <4>1. ASSUME NEW b \in B PROVE b < k <=> b < j
        <5>1. b \in Nat /\ b # j
          BY <1>1, <2>7, <2>9
        <5> QED
          BY <2>1, <5>1
      <4> QED
        BY <2>2, <4>1 DEF Lower
    <3>2. v + p * t = v
      BY <2>9
    <3>3. F[Lower(B, k)] + Prime * q = point * (scalar % 2^k) /\ F[Lower(B, k)] \in Nat
      BY <2>4, <2>6, <3>1, <3>2
    <3> QED
      BY <1>2, <2>8, <3>3 DEF Congruent
  <2>10. CASE t = 1
    <3>1. Lower(B, k) = s \cup {j} /\ s \in SUBSET B /\ j \in B \ s
      <4>1. ASSUME NEW b \in B PROVE b < k <=> b < j \/ b = j
        <5>1. b \in Nat
          BY <1>1
        <5> QED
          BY <2>1, <5>1
      <4>2. j \in B /\ ~(j < j)
        BY <2>1, <2>7, <2>10
      <4> QED
        BY <2>2, <4>1, <4>2 DEF Lower
    <3>2. F[s \cup {j}] = F[s] + g[j]
      BY <3>1 DEF AddsUp
    <3>3. PICK c \in Nat, e \in Nat : c = (point * p) % Prime /\ point * p = Prime * e + c
      <4>1. point * p \in Nat
        OBVIOUS
      <4>2. PICK y \in Nat : y = point * p
        BY <4>1
      <4>3. y % Prime \in Nat /\ y \div Prime \in Nat /\ y = Prime * (y \div Prime) + (y % Prime)
        BY <1>0, DivMod
      <4> QED
        BY <4>2, <4>3
    <3>4. g[j] = c
      <4>1. g[j] = (point * 2^j) % Prime
        BY <3>1
      <4> QED
        BY <2>4, <3>3, <4>1
    <3>5. F[Lower(B, k)] = x + c /\ x + c \in Nat
      BY <2>4, <3>1, <3>2, <3>4
    <3>6. point * (v + p * t) = point * v + point * p
      BY <2>10
    <3>7. Prime * (q + e) = Prime * q + Prime * e /\ Prime * q \in Nat /\ Prime * e \in Nat
          /\ q + e \in Nat /\ point * v \in Nat /\ point * p \in Nat
      BY <1>0
    <3>8. (x + c) + Prime * (q + e) = point * (v + p * t)
      BY <2>4, <3>3, <3>6, <3>7
    <3>9. F[Lower(B, k)] + Prime * (q + e) = point * (scalar % 2^k)
      BY <2>6, <3>5, <3>8
    <3> QED
      <4>1. Congruent(F[Lower(B, k)], point * (scalar % 2^k))
        <5>1. F[Lower(B, k)] \in Nat /\ q + e \in Nat
          BY <3>5, <3>7
        <5> QED
          BY <3>9, <5>1 DEF Congruent
      <4> QED
        BY <1>2, <2>8, <4>1
  <2> QED
    BY <2>9, <2>10
<1>5. \A k \in 0..ScalarBits : k \in T
  BY <1>0, <1>3, <1>4, InductionTo
<1> QED
  BY <1>2, <1>5

(* The product is the point times the scalar, whatever of it was cached. *)
LEMMA ProductIsExact ==
  ASSUME NEW cache, NEW point \in Nat, NEW scalar \in 0..(2^ScalarBits - 1), Multiples(cache, point)
  PROVE  Params!Product(cache, point, scalar) = (point * scalar) % Prime
<1>0. /\ Prime \in Nat /\ Prime > 0 /\ ScalarBits \in Nat /\ scalar \in Nat
      /\ 2^ScalarBits \in Nat /\ 2^ScalarBits > 0 /\ scalar < 2^ScalarBits
  <2>1. Prime \in Nat /\ Prime > 0 /\ ScalarBits \in Nat
    BY PIndexIs, ParamsConstants
  <2>2. 2^ScalarBits \in Nat /\ 2^ScalarBits > 0
    BY <2>1, PowerPositive
  <2> QED
    BY <2>1, <2>2
<1>1. PICK B : B = Params!Bits(scalar)
  OBVIOUS
<1>2. IsFiniteSet(B) /\ B \subseteq Nat
      /\ \A b \in Nat : b \in B <=> b < ScalarBits /\ (scalar \div 2^b) % 2 = 1
  BY <1>0, <1>1, BitsFacts
<1>3. PICK f : f = Params!Filled(cache, point, scalar)
  OBVIOUS
<1>4. \A b \in B : f[b] = (point * 2^b) % Prime
  BY <1>0, <1>1, <1>3, FilledIsExact
<1>5. PICK g : g = [b \in B |-> f[b]]
  OBVIOUS
<1>6. g \in [B -> Int] /\ \A b \in B : g[b] = (point * 2^b) % Prime
  <2>1. ASSUME NEW b \in B PROVE (point * 2^b) % Prime \in Int
    <3>1. 2^b \in Nat
      BY <1>2, PowerPositive
    <3>2. point * 2^b \in Nat
      BY <3>1
    <3> QED
      BY <1>0, <3>2
  <2>2. \A b \in B : g[b] = (point * 2^b) % Prime
    BY <1>4, <1>5
  <2> QED
    BY <1>5, <2>1, <2>2
<1>7. PICK F \in [SUBSET B -> Int] : SumOver(g, B) = F[B] /\ F[{}] = 0 /\ AddsUp(F, g, B)
  BY <1>2, <1>6, SumOverFacts
<1>8. Params!Product(cache, point, scalar) = SumOver(g, B) % Prime
  <2> DEFINE Step(H) == H = [s \in SUBSET B |->
                 IF s = {} THEN 0 ELSE f[SumElement(s)] + H[s \ {SumElement(s)}]]
  <2>1. Params!Product(cache, point, scalar) = (CHOOSE H : Step(H))[B] % Prime
    BY <1>1, <1>3 DEF Params!Product, Params!Sets!MapThenSumSet, Params!Sets!MapThenFoldSet, SumElement
  <2>2. ASSUME NEW H PROVE Step(H) <=> SumStep(H, g, B)
    <3>1. ASSUME NEW s \in SUBSET B PROVE s # {} => g[SumElement(s)] = f[SumElement(s)]
      <4>1. s # {} => SumElement(s) \in B
        BY DEF SumElement
      <4> QED
        BY <1>5, <4>1
    <3>2. [s \in SUBSET B |-> IF s = {} THEN 0 ELSE f[SumElement(s)] + H[s \ {SumElement(s)}]]
            = [s \in SUBSET B |-> SumTerm(H, g, s)]
      BY <3>1 DEF SumTerm
    <3> QED
      BY <3>2 DEF SumStep
  <2>3. \E H \in [SUBSET B -> Int] : SumStep(H, g, B)
    BY <1>2, <1>6, SumExists
  <2>4. PICK G : G = CHOOSE H : Step(H)
    OBVIOUS
  <2>5. SumStep(G, g, B)
    <3> HIDE DEF Step
    <3> QED
      BY <2>2, <2>3, <2>4
  <2>6. SumOver(g, B) = G[B]
    <3> HIDE DEF Step
    <3> QED
      BY <1>2, <1>6, <2>5, SumOverIs
  <2> HIDE DEF Step
  <2> QED
    BY <2>1, <2>4, <2>6
<1>9. Lower(B, ScalarBits) = B
  BY <1>2 DEF Lower
<1>10. scalar % 2^ScalarBits = scalar
  BY <1>0
<1>11. F[B] \in Nat /\ \E q \in Nat : F[B] + Prime * q = point * scalar
  <2>1. ScalarBits \in 0..ScalarBits
    BY <1>0
  <2>2. \A k \in 0..ScalarBits : Congruent(F[Lower(B, k)], point * (scalar % 2^k))
    BY <1>0, <1>1, <1>6, <1>7, BitsAddUp
  <2>3. Congruent(F[B], point * scalar)
    BY <1>9, <1>10, <2>1, <2>2
  <2> QED
    BY <2>3 DEF Congruent
<1>12. PICK x \in Nat, q \in Nat : x = F[B] /\ x + Prime * q = point * scalar
  BY <1>11
<1>13. (x + Prime * q) % Prime = x % Prime
  BY <1>0, ModShift
<1> QED
  BY <1>7, <1>8, <1>12, <1>13

-------------------------------------------------------------------------------
(* The parameters are scalars *)

(* The terms that Fft adds up for the t-th value. *)
Terms(coeff, w, t) == [i \in DOMAIN coeff |-> coeff[i] * Params!Pow(w, t * i)]

LEMMA TermsNat ==
  ASSUME NEW D \in SUBSET Nat, NEW coeff \in [D -> Nat], NEW w \in Nat, NEW t \in Nat
  PROVE  /\ Terms(coeff, w, t) \in [D -> Nat]
         /\ \A i \in D : Terms(coeff, w, t)[i] = coeff[i] * Params!Pow(w, t * i)
<1>1. ASSUME NEW i \in D PROVE coeff[i] * Params!Pow(w, t * i) \in Nat
  <2>1. i \in Nat
    OBVIOUS
  <2>2. t * i \in Nat
    BY <2>1
  <2>3. Params!Pow(w, t * i) \in Nat
    BY <2>2, PowNat
  <2>4. coeff[i] \in Nat
    OBVIOUS
  <2> QED
    BY <2>3, <2>4
<1>2. DOMAIN coeff = D
  OBVIOUS
<1> QED
  BY <1>1, <1>2 DEF Terms

LEMMA FftSum ==
  ASSUME NEW D \in SUBSET Nat, IsFiniteSet(D), NEW coeff \in [D -> Nat], NEW w \in Nat, NEW t \in D
  PROVE  /\ SumOver(Terms(coeff, w, t), D) \in Int
         /\ Params!Fft(coeff, w)[t] = SumOver(Terms(coeff, w, t), D) % Prime
<1>1. DOMAIN coeff = D /\ t \in Nat
  OBVIOUS
<1>2. PICK g : g = Terms(coeff, w, t)
  OBVIOUS
<1>3. g \in [D -> Int] /\ \A i \in D : g[i] = coeff[i] * Params!Pow(w, t * i)
  <2>1. g \in [D -> Nat] /\ \A i \in D : g[i] = coeff[i] * Params!Pow(w, t * i)
    BY <1>1, <1>2, TermsNat
  <2> QED
    BY <2>1
<1> DEFINE Step(H) == H = [s \in SUBSET D |->
               IF s = {} THEN 0
               ELSE coeff[SumElement(s)] * Params!Pow(w, t * SumElement(s)) + H[s \ {SumElement(s)}]]
<1>4. Params!Sets!MapThenSumSet(LAMBDA i : coeff[i] * Params!Pow(w, t * i), D) = (CHOOSE H : Step(H))[D]
  BY DEF Params!Sets!MapThenSumSet, Params!Sets!MapThenFoldSet, SumElement
<1>5. ASSUME NEW H PROVE Step(H) <=> SumStep(H, g, D)
  <2>1. ASSUME NEW s \in SUBSET D
        PROVE  s # {} => g[SumElement(s)] = coeff[SumElement(s)] * Params!Pow(w, t * SumElement(s))
    <3>1. s # {} => SumElement(s) \in D
      BY DEF SumElement
    <3> QED
      BY <1>3, <3>1
  <2>2. [s \in SUBSET D |->
               IF s = {} THEN 0
               ELSE coeff[SumElement(s)] * Params!Pow(w, t * SumElement(s)) + H[s \ {SumElement(s)}]]
          = [s \in SUBSET D |-> SumTerm(H, g, s)]
    BY <2>1 DEF SumTerm
  <2> QED
    BY <2>2 DEF SumStep
<1>6. PICK K \in [SUBSET D -> Int] : SumStep(K, g, D)
  BY <1>3, SumExists
<1>7. PICK G : G = CHOOSE H : Step(H)
  OBVIOUS
<1>8. SumStep(G, g, D)
  <2> HIDE DEF Step
  <2> QED
    BY <1>5, <1>6, <1>7
<1>9. SumOver(g, D) = G[D]
  <2> HIDE DEF Step
  <2> QED
    BY <1>3, <1>8, SumOverIs
<1>10. SumOver(g, D) \in Int
  <2>1. \E F \in [SUBSET D -> Int] : SumOver(g, D) = F[D]
    BY <1>3, SumOverFacts
  <2> QED
    BY <2>1
<1>11. Params!Fft(coeff, w)[t]
         = Params!Sets!MapThenSumSet(LAMBDA i : coeff[i] * Params!Pow(w, t * i), D) % Prime
  BY <1>1 DEF Params!Fft
<1> HIDE DEF Step
<1> QED
  BY <1>2, <1>4, <1>7, <1>9, <1>10, <1>11

LEMMA FftNat ==
  ASSUME NEW coeff \in [PIndex -> Nat], NEW w \in Nat
  PROVE  /\ DOMAIN Params!Fft(coeff, w) = PIndex
         /\ \A t \in PIndex : Params!Fft(coeff, w)[t] \in Nat
<1>1. PICK D \in SUBSET Nat : D = PIndex /\ IsFiniteSet(D)
  BY PIndexIs
<1>2. Prime \in Nat /\ Prime > 0
  BY PIndexIs
<1>3. DOMAIN Params!Fft(coeff, w) = PIndex
  BY DEF Params!Fft
<1>4. ASSUME NEW t \in D PROVE Params!Fft(coeff, w)[t] \in Nat
  <2>1. PICK x \in Int : Params!Fft(coeff, w)[t] = x % Prime
    BY <1>1, FftSum
  <2>2. x % Prime \in Nat
    BY <1>2
  <2> QED
    BY <2>1, <2>2
<1> QED
  BY <1>1, <1>3, <1>4

LEMMA InverseNat ==
  ASSUME NEW x, \E y \in 0..(Prime - 1) : (x * y) % Prime = 1
  PROVE  Params!Inverse(x) \in Nat
<1>1. Params!Inverse(x) \in 0..(Prime - 1)
  BY DEF Params!Inverse, Params!Fr
<1>2. Prime \in Nat
  BY PIndexIs
<1> QED
  BY <1>1, <1>2

LEMMA ScaledNat ==
  ASSUME NEW vec, DOMAIN vec = PIndex, \A t \in PIndex : vec[t] \in Nat, NEW x \in Nat
  PROVE  \A t \in PIndex : Params!Scaled(vec, x)[t] \in Nat
<1>1. Prime \in Nat /\ Prime > 0
  BY PIndexIs
<1>2. Params!Scaled(vec, x) = [t \in PIndex |-> (vec[t] * x) % Prime]
  BY DEF Params!Scaled
<1>3. ASSUME NEW t \in PIndex PROVE Params!Scaled(vec, x)[t] \in Nat
  <2>1. PICK y \in Nat : y = vec[t]
    OBVIOUS
  <2>2. y * x \in Nat
    OBVIOUS
  <2>3. (y * x) % Prime \in Nat
    BY <1>1, <2>2
  <2> QED
    BY <1>2, <2>1, <2>3
<1> QED
  BY <1>3

LEMMA SizeInvNat == Params!SizeInv \in Nat
<1>1. \E y \in 0..(Prime - 1) : ((2^ParamsDepths % Prime) * y) % Prime = 1
  BY ParamsConstants
<1>2. Params!Inverse(2^ParamsDepths % Prime) \in Nat
  BY <1>1, InverseNat
<1> QED
  BY <1>2 DEF Params!SizeInv

LEMMA CommitmentsNat ==
  ASSUME NEW g1 \in [PIndex -> Nat]
  PROVE  \A t \in PIndex : Params!GenCommitments(g1)[t] \in Nat
<1>1. \E y \in 0..(Prime - 1) : (RootOfUnity * y) % Prime = 1
  BY ParamsConstants
<1>2. Params!Inverse(RootOfUnity) \in Nat
  BY <1>1, InverseNat
<1>3. PICK v : v = Params!Fft(g1, Params!Inverse(RootOfUnity))
  OBVIOUS
<1>4. DOMAIN v = PIndex /\ \A t \in PIndex : v[t] \in Nat
  BY <1>2, <1>3, FftNat
<1>5. \A t \in PIndex : Params!Scaled(v, Params!SizeInv)[t] \in Nat
  BY <1>4, SizeInvNat, ScaledNat
<1> QED
  BY <1>3, <1>5 DEF Params!GenCommitments

LEMMA QuotientsNat ==
  ASSUME NEW g1 \in [PIndex -> Nat], NEW d \in Params!Depth
  PROVE  \A t \in PIndex : Params!GenQuotients(g1, d)[t] \in Nat
<1>1. d \in Nat /\ d >= 1 /\ d <= ParamsDepths /\ ParamsDepths \in Nat
  BY PIndexIs DEF Params!Depth
<1>2. ParamsDepths - d \in Nat /\ ParamsDepths - d <= ParamsDepths
  BY <1>1
<1>3. PICK m \in Nat, n \in Nat : m = 2^(ParamsDepths - d) /\ n = 2^ParamsDepths /\ m <= n
  BY <1>1, <1>2, PowerPositive, PowerMonotone
<1>4. PICK c : c = [i \in PIndex |-> IF i \in 1..m THEN g1[m - i] ELSE 0]
  OBVIOUS
<1>5. c \in [PIndex -> Nat]
  <2>1. ASSUME NEW i \in PIndex, i \in 1..m PROVE g1[m - i] \in Nat
    <3>1. m - i \in 0..(n - 1)
      BY <1>3, <2>1
    <3>2. m - i \in PIndex
      BY <1>3, <3>1, PIndexIs
    <3> QED
      BY <3>2
  <2> QED
    BY <1>4, <2>1
<1>6. RootOfUnity \in Nat
  BY ParamsConstants
<1>7. PICK v : v = Params!Fft(c, RootOfUnity)
  OBVIOUS
<1>8. DOMAIN v = PIndex /\ \A t \in PIndex : v[t] \in Nat
  BY <1>5, <1>6, <1>7, FftNat
<1>9. \A t \in PIndex : Params!Scaled(v, Params!SizeInv)[t] \in Nat
  BY <1>8, SizeInvNat, ScaledNat
<1>10. Params!GenQuotients(g1, d) = Params!Scaled(v, Params!SizeInv)
  BY <1>3, <1>4, <1>7 DEF Params!GenQuotients, PIndex
<1> QED
  BY <1>9, <1>10

(* So are the parameters of any powers that can be read. *)
LEMMA FromPpNat ==
  ASSUME NEW file, Params!Usable(file), IsPowers(file), NEW p, p = Params!FromPp(Params!Truncated(file))
  PROVE  \A i \in PIndex : /\ p.commitments[i] \in Nat
                           /\ \A d \in Params!Depth : p.quotients[d][i] \in Nat
<1>1. PICK g1 : g1 = [i \in PIndex |-> file.g1[i]]
  OBVIOUS
<1>2. g1 \in [PIndex -> Nat]
  <2>1. PICK tau \in Taus, d1 \in Nat : file.g1 = Params!PowersOf(tau, d1)
    BY DEF Params!Usable, IsPowers
  <2>2. \A i \in DOMAIN file.g1 : file.g1[i] \in Nat
    BY <2>1, PowersAreNat
  <2> QED
    BY <1>1, <2>2 DEF Params!Usable, PIndex
<1>3. Params!Truncated(file).g1 = g1
  BY <1>1 DEF Params!Truncated, PIndex
<1>4. p.commitments = Params!GenCommitments(g1)
  BY <1>3 DEF Params!FromPp
<1>5. p.quotients = [d \in Params!Depth |-> Params!GenQuotients(g1, d)]
  BY <1>3 DEF Params!FromPp
<1>6. ASSUME NEW i \in PIndex PROVE p.commitments[i] \in Nat
  BY <1>2, <1>4, CommitmentsNat
<1>7. ASSUME NEW i \in PIndex, NEW d \in Params!Depth PROVE p.quotients[d][i] \in Nat
  BY <1>2, <1>5, QuotientsNat
<1> QED
  BY <1>6, <1>7

-------------------------------------------------------------------------------
(* The caches, whatever was multiplied or warmed up: each entry belongs to the point
   it is filed under, so nothing is left of the parameters of an earlier process. *)
IdentsInv ==
  /\ DOMAIN indents_cache = PIndex
  /\ \A i \in PIndex : /\ params.commitments[i] \in Nat
                       /\ Multiples(indents_cache[i], params.commitments[i])

QuotientsInv ==
  /\ DOMAIN quotients_cache = Params!Depth
  /\ \A d \in Params!Depth :
       /\ DOMAIN quotients_cache[d] = PIndex
       /\ \A i \in PIndex : /\ params.quotients[d][i] \in Nat
                            /\ Multiples(quotients_cache[d][i], params.quotients[d][i])

CachesInv == params # Unloaded => IdentsInv /\ QuotientsInv

(* A process that has just read or computed the parameters. *)
LEMMA CachesStart ==
  ASSUME NEW file, Params!Usable(file), IsPowers(file),
         params' = Params!FromPp(Params!Truncated(file)), Params!EmptyCaches
  PROVE  IdentsInv' /\ QuotientsInv'
<1>1. \A i \in PIndex : /\ params.commitments[i]' \in Nat
                        /\ \A d \in Params!Depth : params.quotients[d][i]' \in Nat
  <2>1. PICK p : p = Params!FromPp(Params!Truncated(file))
    OBVIOUS
  <2>2. \A i \in PIndex : /\ p.commitments[i] \in Nat
                          /\ \A d \in Params!Depth : p.quotients[d][i] \in Nat
    BY <2>1, FromPpNat
  <2>3. params' = p
    BY <2>1
  <2> QED
    BY <2>2, <2>3
<1>2. \A point : Multiples(<< >>, point)
  BY DEF Multiples
<1>3. /\ indents_cache' = [i \in PIndex |-> << >>]
      /\ quotients_cache' = [d \in Params!Depth |-> [i \in PIndex |-> << >>]]
  BY DEF Params!EmptyCaches, PIndex
<1>4. IdentsInv'
  BY <1>1, <1>2, <1>3 DEF IdentsInv
<1>5. QuotientsInv'
  <2>1. ASSUME NEW d \in Params!Depth
        PROVE  DOMAIN quotients_cache'[d] = PIndex /\ \A i \in PIndex : quotients_cache'[d][i] = << >>
    BY <1>3
  <2>2. DOMAIN quotients_cache' = Params!Depth
    BY <1>3
  <2> QED
    BY <1>1, <1>2, <2>1, <2>2 DEF QuotientsInv
<1> QED
  BY <1>4, <1>5

LEMMA ScalarNat ==
  ASSUME NEW power \in Scalars
  PROVE  power \in Nat /\ power \in 0..(2^ScalarBits - 1)
<1>1. power \in 0..(2^ScalarBits - 1) /\ ScalarBits \in Nat
  BY ParamsConstants
<1>2. 2^ScalarBits \in Nat
  BY <1>1, PowerPositive
<1> QED
  BY <1>1, <1>2

LEMMA CachesStep ==
  ASSUME FilesInv, CachesInv, Params!Next
  PROVE  CachesInv'
<1>1. CASE Params!LoadCached
  <2>1. CASE amt_params \in {Missing, Partial}
    <3>1. UNCHANGED <<params, indents_cache, quotients_cache>>
      BY <1>1, <2>1 DEF Params!LoadCached, Params!caches
    <3> QED
      BY <3>1 DEF CachesInv, IdentsInv, QuotientsInv
  <2>2. CASE amt_params \notin {Missing, Partial}
    <3>1. params' = amt_params /\ Params!EmptyCaches
      BY <1>1, <2>2 DEF Params!LoadCached
    <3>2. Params!Usable(power_tau) /\ amt_params = Params!FromPp(Params!Truncated(power_tau)) /\ IsPowers(power_tau)
      BY <2>2 DEF FilesInv, OfPowers
    <3> QED
      BY <3>1, <3>2, CachesStart DEF CachesInv
  <2> QED
    BY <2>1, <2>2
<1>2. CASE Params!Generate
  <2>1. stage = "from_pp" /\ params' = Params!FromPp(pp) /\ Params!EmptyCaches
    BY <1>2 DEF Params!Generate
  <2>2. Params!Usable(power_tau) /\ pp = Params!Truncated(power_tau) /\ IsPowers(power_tau)
    BY <2>1 DEF FilesInv
  <2> QED
    BY <2>1, <2>2, CachesStart DEF CachesInv
<1>3. CASE Params!Restart
  BY <1>3 DEF Params!Restart, CachesInv
<1>4. ASSUME UNCHANGED <<params, indents_cache, quotients_cache>> PROVE CachesInv'
  BY <1>4 DEF CachesInv, IdentsInv, QuotientsInv
<1>5. CASE Params!LoadPowers \/ Params!LoadPowersPanics \/ Params!SavePowers \/ Params!SaveParams
           \/ \E tau \in Taus : Params!CreatePowers(tau)
  <2>1. UNCHANGED <<params, indents_cache, quotients_cache>>
    BY <1>5 DEF Params!LoadPowers, Params!LoadPowersPanics, Params!SavePowers, Params!SaveParams,
                Params!CreatePowers, Params!caches
  <2> QED
    BY <1>4, <2>1
<1>6. ASSUME NEW i \in CachedIndex, NEW power \in Scalars, Params!GetIdentsPow(i, power)
      PROVE  CachesInv'
  <2> SUFFICES ASSUME params' # Unloaded PROVE IdentsInv' /\ QuotientsInv'
    BY DEF CachesInv
  <2>1. /\ params' = params /\ quotients_cache' = quotients_cache
        /\ indents_cache' = [indents_cache EXCEPT ![i] =
                               Params!Filled(indents_cache[i], params.commitments[i], power)]
    BY <1>6 DEF Params!GetIdentsPow
  <2>2. IdentsInv /\ QuotientsInv
    BY <2>1 DEF CachesInv
  <2>3. QuotientsInv'
    BY <2>1, <2>2 DEF QuotientsInv
  <2>4. i \in PIndex
    <3>1. CachedIndex \subseteq 0..(2^ParamsDepths - 1)
      BY ParamsConstants
    <3> QED
      BY <3>1, PIndexIs
  <2>5. PICK c, f, com : c = indents_cache /\ com = params.commitments /\ f = Params!Filled(c[i], com[i], power)
    OBVIOUS
  <2>6. DOMAIN c = PIndex /\ \A j \in PIndex : com[j] \in Nat /\ Multiples(c[j], com[j])
    BY <2>2, <2>5 DEF IdentsInv
  <2>7. Multiples(f, com[i])
    BY <2>4, <2>5, <2>6, ScalarNat, FilledIsExact
  <2>8. DOMAIN indents_cache' = PIndex /\ \A j \in PIndex : indents_cache'[j] = IF j = i THEN f ELSE c[j]
    BY <2>1, <2>5, <2>6
  <2>9. params'.commitments = com
    BY <2>1, <2>5
  <2>10. ASSUME NEW j \in PIndex PROVE Multiples(indents_cache'[j], com[j])
    BY <2>6, <2>7, <2>8
  <2>11. IdentsInv'
    BY <2>6, <2>8, <2>9, <2>10 DEF IdentsInv
  <2> QED
    BY <2>3, <2>11
<1>7. ASSUME NEW d \in Params!Depth, NEW i \in CachedIndex, NEW power \in Scalars,
             Params!GetQuotientPow(d, i, power)
      PROVE  CachesInv'
  <2> SUFFICES ASSUME params' # Unloaded PROVE IdentsInv' /\ QuotientsInv'
    BY DEF CachesInv
  <2>1. /\ params' = params /\ indents_cache' = indents_cache
        /\ quotients_cache' = [quotients_cache EXCEPT ![d][i] =
                               Params!Filled(quotients_cache[d][i], params.quotients[d][i], power)]
    BY <1>7 DEF Params!GetQuotientPow
  <2>2. IdentsInv /\ QuotientsInv
    BY <2>1 DEF CachesInv
  <2>3. IdentsInv'
    BY <2>1, <2>2 DEF IdentsInv
  <2>4. i \in PIndex
    <3>1. CachedIndex \subseteq 0..(2^ParamsDepths - 1)
      BY ParamsConstants
    <3> QED
      BY <3>1, PIndexIs
  <2>5. PICK c, f, quo : c = quotients_cache /\ quo = params.quotients /\ f = Params!Filled(c[d][i], quo[d][i], power)
    OBVIOUS
  <2>6. /\ DOMAIN c = Params!Depth
        /\ \A e \in Params!Depth : DOMAIN c[e] = PIndex /\ \A j \in PIndex : quo[e][j] \in Nat /\ Multiples(c[e][j], quo[e][j])
    BY <2>2, <2>5 DEF QuotientsInv
  <2>7. Multiples(f, quo[d][i])
    BY <2>4, <2>5, <2>6, ScalarNat, FilledIsExact
  <2>8. quotients_cache' = [c EXCEPT ![d] = [c[d] EXCEPT ![i] = f]]
    BY <2>1, <2>5
  <2>9. PICK h : h = [c[d] EXCEPT ![i] = f]
    OBVIOUS
  <2>10. DOMAIN h = PIndex /\ \A j \in PIndex : h[j] = IF j = i THEN f ELSE c[d][j]
    BY <2>6, <2>9
  <2>11. DOMAIN quotients_cache' = Params!Depth /\ \A e \in Params!Depth : quotients_cache'[e] = IF e = d THEN h ELSE c[e]
    BY <2>6, <2>8, <2>9
  <2>12. params'.quotients = quo
    BY <2>1, <2>5
  <2>13. ASSUME NEW e \in Params!Depth
         PROVE  /\ DOMAIN quotients_cache'[e] = PIndex
                /\ \A j \in PIndex : quo[e][j] \in Nat /\ Multiples(quotients_cache'[e][j], quo[e][j])
    <3>1. CASE e = d
      <4>1. quotients_cache'[e] = h
        BY <2>11, <3>1
      <4> QED
        BY <2>6, <2>7, <2>10, <3>1, <4>1
    <3>2. CASE e # d
      <4>1. quotients_cache'[e] = c[e]
        BY <2>11, <3>2
      <4> QED
        BY <2>6, <4>1
    <3> QED
      BY <3>1, <3>2
  <2>14. QuotientsInv'
    BY <2>11, <2>12, <2>13 DEF QuotientsInv
  <2> QED
    BY <2>3, <2>14
<1>8. CASE Params!WarmQuotient
  <2> SUFFICES ASSUME params' # Unloaded PROVE IdentsInv' /\ QuotientsInv'
    BY DEF CachesInv
  <2>1. /\ params' = params /\ indents_cache' = indents_cache
        /\ quotients_cache' = [d \in Params!Depth |-> [i \in PIndex |->
                                 Params!Warmed(quotients_cache[d][i], params.quotients[d][i])]]
    BY <1>8 DEF Params!WarmQuotient, PIndex
  <2>2. IdentsInv /\ QuotientsInv
    BY <2>1 DEF CachesInv
  <2>3. IdentsInv'
    BY <2>1, <2>2 DEF IdentsInv
  <2>4. PICK c, quo : c = quotients_cache /\ quo = params.quotients
    OBVIOUS
  <2>5. \A e \in Params!Depth : \A j \in PIndex : quo[e][j] \in Nat /\ Multiples(c[e][j], quo[e][j])
    BY <2>2, <2>4 DEF QuotientsInv
  <2>6. \A e \in Params!Depth : \A j \in PIndex : Multiples(Params!Warmed(c[e][j], quo[e][j]), quo[e][j])
    BY <2>5, WarmedIsExact
  <2>7. /\ DOMAIN quotients_cache' = Params!Depth
        /\ \A e \in Params!Depth : /\ DOMAIN quotients_cache'[e] = PIndex
                                   /\ \A j \in PIndex : quotients_cache'[e][j] = Params!Warmed(c[e][j], quo[e][j])
    BY <2>1, <2>4
  <2>8. params'.quotients = quo
    BY <2>1, <2>4
  <2>9. QuotientsInv'
    BY <2>5, <2>6, <2>7, <2>8 DEF QuotientsInv
  <2> QED
    BY <2>3, <2>9
<1> QED
  BY <1>1, <1>2, <1>3, <1>5, <1>6, <1>7, <1>8 DEF Params!Next

(* The inductive invariant of the caches. *)
THEOREM CachesInductive == MCSpec => []CachesInv
<1>1. MCInit => CachesInv
  BY DEF MCInit, CachesInv, Params!Init
<1>2. MCInv /\ CachesInv /\ [MCNext]_<<vars, paramVars, checked>> => CachesInv'
  <2> SUFFICES ASSUME MCInv, CachesInv, [MCNext]_<<vars, paramVars, checked>> PROVE CachesInv'
    OBVIOUS
  <2>1. CASE UNCHANGED paramVars
    BY <2>1 DEF CachesInv, IdentsInv, QuotientsInv, paramVars
  <2>2. CASE checked = "params" /\ Params!Next
    BY <2>2, CachesStep DEF MCInv
  <2> QED
    BY <2>1, <2>2 DEF MCNext
<1> QED
  BY <1>1, <1>2, FilesInductive, PTL DEF MCSpec

(* Whatever was multiplied or warmed up before, and whatever process computed the
   parameters: get_idents_pow and get_quotient_pow answer the point times the scalar. *)
THEOREM ProductsAreExact == MCSpec => []PowersExact
<1>1. CachesInv => PowersExact
  <2> SUFFICES ASSUME CachesInv, params # Unloaded, NEW i \in PIndex, NEW power \in Scalars
               PROVE  /\ Params!Product(indents_cache[i], params.commitments[i], power)
                           = (params.commitments[i] * power) % Prime
                      /\ \A d \in Params!Depth :
                           Params!Product(quotients_cache[d][i], params.quotients[d][i], power)
                             = (params.quotients[d][i] * power) % Prime
    BY DEF PowersExact, Params!PowersExact, PIndex
  <2>1. power \in 0..(2^ScalarBits - 1)
    BY ScalarNat
  <2>2. params.commitments[i] \in Nat /\ Multiples(indents_cache[i], params.commitments[i])
    BY DEF CachesInv, IdentsInv
  <2>3. ASSUME NEW d \in Params!Depth
        PROVE  params.quotients[d][i] \in Nat /\ Multiples(quotients_cache[d][i], params.quotients[d][i])
    BY DEF CachesInv, QuotientsInv
  <2> QED
    BY <2>1, <2>2, <2>3, ProductIsExact
<1> QED
  BY <1>1, CachesInductive, PTL

-------------------------------------------------------------------------------
(* The powers of field elements *)

(* One more factor. *)
LEMMA PowNext ==
  ASSUME NEW x \in Nat, NEW n \in Nat
  PROVE  Same(Params!Pow(x, n + 1), Params!Pow(x, n) * x, Prime)
<1>1. Prime \in Nat /\ Prime > 0
  BY PIndexIs
<1>2. PICK y \in Nat : y = Params!Pow(x, n)
  BY PowFacts
<1>3. y * x \in Nat
  OBVIOUS
<1>4. Same((y * x) % Prime, y * x, Prime)
  BY <1>1, <1>3, SameReduced
<1> QED
  BY <1>2, <1>4, PowFacts

LEMMA PowSum ==
  ASSUME NEW x \in Nat, NEW a \in Nat, NEW b \in Nat
  PROVE  Same(Params!Pow(x, a + b), Params!Pow(x, a) * Params!Pow(x, b), Prime)
<1>1. Prime \in Nat /\ Prime > 0
  BY PIndexIs
<1>2. PICK T : T = {k \in 0..b : Same(Params!Pow(x, a + k), Params!Pow(x, a) * Params!Pow(x, k), Prime)}
  OBVIOUS
<1>3. PICK A \in Nat : A = Params!Pow(x, a)
  BY PowFacts
<1>4. 0 \in T
  <2>1. a + 0 = a /\ A * 1 = A /\ 0 \in 0..b
    OBVIOUS
  <2>2. Params!Pow(x, 0) = 1
    BY <2>1, PowFacts
  <2> QED
    BY <1>2, <1>3, <2>1, <2>2 DEF Same
<1>5. ASSUME NEW k \in 1..b, k - 1 \in T PROVE k \in T
  <2>1. PICK i \in Nat : i = k - 1 /\ k = i + 1 /\ a + k = (a + i) + 1 /\ a + i \in Nat
    BY <1>5
  <2>2. PICK u \in Nat, v \in Nat, y \in Nat, z \in Nat :
          /\ u = Params!Pow(x, a + i) /\ v = Params!Pow(x, i)
          /\ y = Params!Pow(x, a + k) /\ z = Params!Pow(x, k)
    <3>1. k \in Nat /\ a + k \in Nat
      BY <2>1
    <3> QED
      BY <2>1, <3>1, PowNat
  <2>3. Same(u, A * v, Prime)
    BY <1>2, <1>3, <1>5, <2>1, <2>2
  <2>4. Same(y, u * x, Prime) /\ Same(z, v * x, Prime)
    BY <2>1, <2>2, PowNext
  <2>5. A * v \in Nat /\ v * x \in Nat
    OBVIOUS
  <2>6. Same(u * x, (A * v) * x, Prime)
    BY <1>1, <2>3, <2>5, SameTimes
  <2>7. Same(z * A, (v * x) * A, Prime)
    BY <1>1, <2>4, <2>5, SameTimes
  <2>8. (A * v) * x = (v * x) * A /\ z * A = A * z
    OBVIOUS
  <2>9. Same(y, A * z, Prime)
    BY <2>4, <2>6, <2>7, <2>8 DEF Same
  <2>10. k \in 0..b
    OBVIOUS
  <2> QED
    BY <1>2, <1>3, <2>2, <2>9, <2>10
<1>6. b \in T
  <2>1. \A k \in 0..b : k \in T
    BY <1>4, <1>5, InductionTo
  <2>2. b \in 0..b
    OBVIOUS
  <2> QED
    BY <2>1, <2>2
<1> QED
  BY <1>2, <1>6

LEMMA PowProduct ==
  ASSUME NEW x \in Nat, NEW y \in Nat, NEW n \in Nat
  PROVE  Same(Params!Pow(x * y, n), Params!Pow(x, n) * Params!Pow(y, n), Prime)
<1>1. Prime \in Nat /\ Prime > 0 /\ x * y \in Nat
  BY PIndexIs
<1>2. PICK T : T = {k \in 0..n : Same(Params!Pow(x * y, k), Params!Pow(x, k) * Params!Pow(y, k), Prime)}
  OBVIOUS
<1>3. 0 \in T
  <2>1. Params!Pow(x, 0) = 1 /\ Params!Pow(y, 0) = 1 /\ Params!Pow(x * y, 0) = 1
    BY <1>1, PowFacts
  <2>2. 1 * 1 = 1 /\ 0 \in 0..n
    OBVIOUS
  <2> QED
    BY <1>2, <2>1, <2>2 DEF Same
<1>4. ASSUME NEW k \in 1..n, k - 1 \in T PROVE k \in T
  <2>1. PICK i \in Nat : i = k - 1 /\ k = i + 1
    BY <1>4
  <2>2. PICK u \in Nat, v \in Nat, w \in Nat, u1 \in Nat, v1 \in Nat, w1 \in Nat :
          /\ u = Params!Pow(x, i) /\ v = Params!Pow(y, i) /\ w = Params!Pow(x * y, i)
          /\ u1 = Params!Pow(x, k) /\ v1 = Params!Pow(y, k) /\ w1 = Params!Pow(x * y, k)
    <3>1. k \in Nat
      BY <2>1
    <3> QED
      BY <1>1, <2>1, <3>1, PowNat
  <2>3. Same(w, u * v, Prime)
    BY <1>2, <1>4, <2>1, <2>2
  <2>4. Same(u1, u * x, Prime) /\ Same(v1, v * y, Prime) /\ Same(w1, w * (x * y), Prime)
    BY <1>1, <2>1, <2>2, PowNext
  <2>5. u * x \in Nat /\ v * y \in Nat /\ u * v \in Nat
    OBVIOUS
  <2>6. Same(u1 * v1, (u * x) * (v * y), Prime)
    BY <1>1, <2>4, <2>5, SameProducts
  <2>7. Same(w * (x * y), (u * v) * (x * y), Prime)
    BY <1>1, <2>3, <2>5, SameTimes
  <2>8. (u * x) * (v * y) = (u * v) * (x * y)
    OBVIOUS
  <2>9. Same(w1, u1 * v1, Prime)
    BY <2>4, <2>6, <2>7, <2>8 DEF Same
  <2>10. k \in 0..n
    OBVIOUS
  <2> QED
    BY <1>2, <2>2, <2>9, <2>10
<1>5. n \in T
  <2>1. \A k \in 0..n : k \in T
    BY <1>3, <1>4, InductionTo
  <2>2. n \in 0..n
    OBVIOUS
  <2> QED
    BY <2>1, <2>2
<1> QED
  BY <1>2, <1>5

(* Equal elements have equal powers. *)
LEMMA PowSame ==
  ASSUME NEW x \in Nat, NEW y \in Nat, NEW n \in Nat, Same(x, y, Prime)
  PROVE  Params!Pow(x, n) = Params!Pow(y, n)
<1>1. Prime \in Nat /\ Prime > 0
  BY PIndexIs
<1>2. PICK T : T = {k \in 0..n : Params!Pow(x, k) = Params!Pow(y, k)}
  OBVIOUS
<1>3. 0 \in T
  <2>1. Params!Pow(x, 0) = 1 /\ Params!Pow(y, 0) = 1 /\ 0 \in 0..n
    BY PowFacts
  <2> QED
    BY <1>2, <2>1
<1>4. ASSUME NEW k \in 1..n, k - 1 \in T PROVE k \in T
  <2>1. PICK i \in Nat : i = k - 1 /\ k = i + 1
    BY <1>4
  <2>2. PICK u \in Nat : u = Params!Pow(x, i) /\ u = Params!Pow(y, i)
    <3>1. Params!Pow(x, i) = Params!Pow(y, i)
      BY <1>2, <1>4, <2>1
    <3> QED
      BY <3>1, PowFacts
  <2>3. Params!Pow(x, k) = (u * x) % Prime /\ Params!Pow(y, k) = (u * y) % Prime
    BY <2>1, <2>2, PowFacts
  <2>4. Same(x * u, y * u, Prime)
    BY <1>1, SameTimes
  <2>5. x * u = u * x /\ y * u = u * y /\ k \in 0..n
    OBVIOUS
  <2> QED
    BY <1>2, <2>3, <2>4, <2>5 DEF Same
<1>5. n \in T
  <2>1. \A k \in 0..n : k \in T
    BY <1>3, <1>4, InductionTo
  <2>2. n \in 0..n
    OBVIOUS
  <2> QED
    BY <2>1, <2>2
<1> QED
  BY <1>2, <1>5

(* A power of a power. *)
LEMMA PowPower ==
  ASSUME NEW x \in Nat, NEW a \in Nat, NEW b \in Nat
  PROVE  Same(Params!Pow(Params!Pow(x, a), b), Params!Pow(x, a * b), Prime)
<1>1. Prime \in Nat /\ Prime > 0
  BY PIndexIs
<1>2. PICK y \in Nat : y = Params!Pow(x, a)
  BY PowFacts
<1>3. PICK T : T = {k \in 0..b : Same(Params!Pow(y, k), Params!Pow(x, a * k), Prime)}
  OBVIOUS
<1>4. 0 \in T
  <2>1. Params!Pow(x, 0) = 1 /\ Params!Pow(y, 0) = 1
    BY PowFacts
  <2>2. a * 0 = 0 /\ 0 \in 0..b
    OBVIOUS
  <2> QED
    BY <1>3, <2>1, <2>2 DEF Same
<1>5. ASSUME NEW k \in 1..b, k - 1 \in T PROVE k \in T
  <2>1. PICK i \in Nat, c \in Nat : i = k - 1 /\ k = i + 1 /\ c = a * i
    BY <1>5
  <2>2. a * k = c + a
    BY <2>1
  <2>3. PICK u \in Nat, v \in Nat : u = Params!Pow(y, i) /\ v = Params!Pow(x, c)
    BY PowFacts
  <2>4. Same(u, v, Prime)
    BY <1>3, <1>5, <2>1, <2>3
  <2>5. Same(Params!Pow(y, k), u * y, Prime) /\ Same(Params!Pow(x, a * k), v * y, Prime)
    BY <1>2, <2>1, <2>2, <2>3, PowNext, PowSum
  <2>6. Same(u * y, v * y, Prime)
    BY <1>1, <2>4, SameTimes
  <2>7. k \in 0..b
    OBVIOUS
  <2> QED
    BY <1>3, <2>5, <2>6, <2>7 DEF Same
<1>6. b \in T
  <2>1. \A k \in 0..b : k \in T
    BY <1>4, <1>5, InductionTo
  <2>2. b \in 0..b
    OBVIOUS
  <2> QED
    BY <2>1, <2>2
<1> QED
  BY <1>2, <1>3, <1>6

(* The powers of one are one. *)
LEMMA PowOne ==
  ASSUME NEW x \in Nat, NEW n \in Nat, Same(x, 1, Prime)
  PROVE  Params!Pow(x, n) = 1
<1>1. Prime \in Nat /\ Prime > 1
  BY PIndexIs
<1>2. PICK T : T = {k \in 0..n : Params!Pow(1, k) = 1}
  OBVIOUS
<1>3. 0 \in T
  BY <1>2, PowFacts
<1>4. ASSUME NEW k \in 1..n, k - 1 \in T PROVE k \in T
  <2>1. PICK i \in Nat : i = k - 1 /\ k = i + 1
    BY <1>4
  <2>2. Params!Pow(1, i) = 1
    BY <1>2, <1>4, <2>1
  <2>3. Params!Pow(1, k) = (1 * 1) % Prime
    BY <2>1, <2>2, PowFacts
  <2>4. (1 * 1) % Prime = 1 /\ k \in 0..n
    BY <1>1
  <2> QED
    BY <1>2, <2>3, <2>4
<1>5. n \in T
  <2>1. \A k \in 0..n : k \in T
    BY <1>3, <1>4, InductionTo
  <2>2. n \in 0..n
    OBVIOUS
  <2> QED
    BY <2>1, <2>2
<1>6. Params!Pow(x, n) = Params!Pow(1, n)
  BY PowSame
<1> QED
  BY <1>2, <1>5, <1>6

-------------------------------------------------------------------------------
(* Roots of unity *)

LEMMA PrimeIsNat == Prime \in Nat /\ Prime > 0
BY PIndexIs

InverseRoot == Params!Inverse(RootOfUnity)

LEMMA SameElements ==
  ASSUME NEW x \in Nat, NEW y \in Nat, x < Prime, y < Prime, Same(x, y, Prime)
  PROVE  x = y
<1>1. Prime \in Nat /\ Prime > 0
  BY PIndexIs
<1>2. x = Prime * 0 + x /\ y = Prime * 0 + y
  BY <1>1
<1>3. x % Prime = x /\ y % Prime = y
  BY <1>1, <1>2, DivModUnique
<1> QED
  BY <1>3 DEF Same

LEMMA RootFacts ==
  /\ RootOfUnity \in Nat /\ InverseRoot \in Nat
  /\ Same(RootOfUnity * InverseRoot, 1, Prime)
  /\ Params!Pow(RootOfUnity, 2^ParamsDepths) = 1 /\ Params!Pow(InverseRoot, 2^ParamsDepths) = 1
<1>1. Prime \in Nat /\ Prime > 1 /\ 2^ParamsDepths \in Nat
  BY PIndexIs
<1>2. RootOfUnity \in Nat /\ Params!Pow(RootOfUnity, 2^ParamsDepths) = 1
  BY ParamsConstants, RootConstants
<1>3. \E y \in 0..(Prime - 1) : (RootOfUnity * y) % Prime = 1
  BY ParamsConstants
<1>4. InverseRoot \in 0..(Prime - 1) /\ (RootOfUnity * InverseRoot) % Prime = 1
  BY <1>3 DEF InverseRoot, Params!Inverse, Params!Fr
<1>5. PICK w \in Nat, v \in Nat, n \in Nat : w = RootOfUnity /\ v = InverseRoot /\ n = 2^ParamsDepths
  BY <1>1, <1>2, <1>4
<1>6. Same(w * v, 1, Prime)
  <2>1. 1 % Prime = 1
    BY <1>1
  <2> QED
    BY <1>4, <1>5, <2>1 DEF Same
<1>7. Params!Pow(v, n) = 1
  <2>1. w * v \in Nat
    OBVIOUS
  <2>2. Params!Pow(w * v, n) = 1
    BY <1>6, <2>1, PowOne
  <2>3. PICK x \in Nat : x = Params!Pow(v, n) /\ x < Prime
    BY PowFacts
  <2>4. Same(Params!Pow(w * v, n), Params!Pow(w, n) * Params!Pow(v, n), Prime)
    BY PowProduct
  <2>5. 1 * x = x
    OBVIOUS
  <2>6. Same(1, x, Prime)
    BY <1>2, <1>5, <2>2, <2>3, <2>4, <2>5
  <2>7. 1 = x
    BY <1>1, <2>3, <2>6, SameElements
  <2> QED
    BY <2>3, <2>7
<1> QED
  BY <1>2, <1>5, <1>6, <1>7

(* A power of the root and the same power of its inverse cancel. *)
LEMMA RootsCancel ==
  ASSUME NEW k \in Nat
  PROVE  Same(Params!Pow(RootOfUnity, k) * Params!Pow(InverseRoot, k), 1, Prime)
<1>1. PICK w \in Nat, v \in Nat : w = RootOfUnity /\ v = InverseRoot /\ Same(w * v, 1, Prime)
  BY RootFacts
<1>2. w * v \in Nat
  OBVIOUS
<1>3. Params!Pow(w * v, k) = 1
  BY <1>1, <1>2, PowOne
<1>4. Same(Params!Pow(w * v, k), Params!Pow(w, k) * Params!Pow(v, k), Prime)
  BY PowProduct
<1> QED
  BY <1>1, <1>3, <1>4 DEF Same

(* The root of a smaller domain has the inverse that is taken there. *)
LEMMA InversePower ==
  ASSUME NEW k \in Nat
  PROVE  Params!Inverse(Params!Pow(RootOfUnity, k)) = Params!Pow(InverseRoot, k)
<1>1. Prime \in Nat /\ Prime > 1
  BY PIndexIs
<1>2. PICK x \in Nat, y \in Nat :
        x = Params!Pow(RootOfUnity, k) /\ y = Params!Pow(InverseRoot, k) /\ y < Prime
  BY RootFacts, PowFacts
<1>3. Same(x * y, 1, Prime)
  BY <1>2, RootsCancel
<1>4. 1 % Prime = 1
  BY <1>1
<1>5. y \in Params!Fr /\ (x * y) % Prime = 1
  BY <1>1, <1>2, <1>3, <1>4 DEF Same, Params!Fr
<1>6. PICK z : z = CHOOSE c \in Params!Fr : (x * c) % Prime = 1
  OBVIOUS
<1>7. z \in Params!Fr /\ (x * z) % Prime = 1
  BY <1>5, <1>6
<1>8. z \in Nat /\ z < Prime /\ Same(x * z, 1, Prime)
  BY <1>1, <1>4, <1>7 DEF Params!Fr, Same
<1>9. Same((x * z) * y, 1 * y, Prime) /\ Same((x * y) * z, 1 * z, Prime)
  <2>1. Prime > 0 /\ x * z \in Nat /\ x * y \in Nat /\ 1 \in Nat
    BY <1>1, <1>8
  <2>2. Same((x * z) * y, 1 * y, Prime)
    BY <1>1, <1>8, <2>1, SameTimes
  <2>3. Same((x * y) * z, 1 * z, Prime)
    BY <1>1, <1>3, <1>8, <2>1, SameTimes
  <2> QED
    BY <2>2, <2>3
<1>10. (x * z) * y = (x * y) * z /\ 1 * y = y /\ 1 * z = z
  BY <1>8
<1>11. Same(y, z, Prime)
  BY <1>9, <1>10 DEF Same
<1>12. y = z
  BY <1>2, <1>8, <1>11, SameElements
<1> QED
  BY <1>2, <1>6, <1>12 DEF Params!Inverse

(* Exponents of the inverse root go round. *)
LEMMA RootIsCyclic ==
  ASSUME NEW a \in Nat, NEW b \in Nat
  PROVE  Same(Params!Pow(InverseRoot, 2^ParamsDepths * a + b), Params!Pow(InverseRoot, b), Prime)
<1>1. PICK v \in Nat, n \in Nat : v = InverseRoot /\ n = 2^ParamsDepths /\ Params!Pow(v, n) = 1
  BY RootFacts, PIndexIs
<1>2. n * a \in Nat
  OBVIOUS
<1>3. Same(Params!Pow(Params!Pow(v, n), a), Params!Pow(v, n * a), Prime)
  BY PowPower
<1>4. Params!Pow(1, a) = 1
  BY PowOne DEF Same
<1>5. PICK x \in Nat, y \in Nat : x = Params!Pow(v, n * a) /\ y = Params!Pow(v, b)
  BY <1>2, PowFacts
<1>6. Same(1, x, Prime)
  BY <1>1, <1>3, <1>4, <1>5
<1>7. Same(1 * y, x * y, Prime)
  BY <1>6, SameTimes, PrimeIsNat
<1>8. Same(Params!Pow(v, n * a + b), x * y, Prime)
  BY <1>2, <1>5, PowSum
<1>9. 1 * y = y
  OBVIOUS
<1> QED
  BY <1>1, <1>5, <1>7, <1>8, <1>9 DEF Same

-------------------------------------------------------------------------------
(* The three lists of points *)

(* What is added up in each of them: the secret, turned by the inverse root. *)
Turned(tau, t) == tau * Params!Pow(InverseRoot, t)
PowerList(x, a) == [k \in Nat |-> Params!Pow(x, a * k)]

LEMMA TurnedPower ==
  ASSUME NEW tau \in Nat, NEW t \in Nat, NEW k \in Nat
  PROVE  /\ Turned(tau, t) \in Nat
         /\ Same(Params!Pow(Turned(tau, t), k), Params!Pow(tau, k) * Params!Pow(InverseRoot, t * k), Prime)
<1>1. PICK v \in Nat, y \in Nat : v = InverseRoot /\ y = Params!Pow(v, t)
  BY RootFacts, PowFacts
<1>2. tau * y \in Nat /\ t * k \in Nat
  OBVIOUS
<1>3. Same(Params!Pow(tau * y, k), Params!Pow(tau, k) * Params!Pow(y, k), Prime)
  BY PowProduct
<1>4. Same(Params!Pow(y, k), Params!Pow(v, t * k), Prime)
  BY <1>1, PowPower
<1>5. PICK a \in Nat, b \in Nat, c \in Nat :
        a = Params!Pow(tau, k) /\ b = Params!Pow(y, k) /\ c = Params!Pow(v, t * k)
  BY <1>2, PowFacts
<1>6. Same(b * a, c * a, Prime)
  BY <1>4, <1>5, SameTimes, PrimeIsNat
<1>7. b * a = a * b /\ c * a = a * c
  OBVIOUS
<1> QED
  BY <1>1, <1>2, <1>3, <1>5, <1>6, <1>7 DEF Turned, Same

(* A value of Fft, when its terms in some order are multiples of those of a list. *)
LEMMA FftIs ==
  ASSUME NEW l \in Nat, NEW coeff \in [0..(l - 1) -> Nat], NEW w \in Nat, NEW t \in 0..(l - 1),
         NEW n \in Nat, NEW f, NEW g \in [0..(n - 1) -> Nat],
         Mirrors(f, 0..(n - 1), 0..(l - 1), g, Terms(coeff, w, t)),
         NEW h, NEW q, RunningSum(q, h, n), NEW c \in Nat, Multiplied(g, h, n, c, Prime)
  PROVE  /\ Params!Fft(coeff, w)[t] \in Nat
         /\ Same(Params!Fft(coeff, w)[t], c * q[n], Prime)
<1>1. Prime \in Nat /\ Prime > 0
  BY PIndexIs
<1>2. PICK D \in SUBSET Nat : D = 0..(l - 1)
  OBVIOUS
<1>3. IsFiniteSet(D)
  BY <1>2 DEF Mirrors
<1>4. Params!Fft(coeff, w)[t] = SumOver(Terms(coeff, w, t), D) % Prime
  BY <1>2, <1>3, FftSum
<1>5. SumOver(Terms(coeff, w, t), D) = SumOver(g, 0..(n - 1))
  BY <1>2, SumOfImage
<1>6. PICK r : RunningSum(r, g, n)
  <2>1. \A k \in 0..(n - 1) : g[k] \in Nat
    OBVIOUS
  <2> QED
    BY <2>1, RunningExists
<1>7. SumOver(g, 0..(n - 1)) = r[n]
  BY <1>6, SumOverNumbers
<1>8. n \in 0..n
  OBVIOUS
<1>9. Same(r[n], c * q[n], Prime)
  BY <1>1, <1>6, <1>8, RunningMultiplied
<1>10. r[n] \in Nat
  BY <1>6, <1>8 DEF RunningSum
<1>11. PICK x \in Nat : x = r[n]
  BY <1>10
<1>12. Same(x % Prime, x, Prime) /\ x % Prime \in Nat
  BY <1>1, SameReduced
<1> QED
  BY <1>4, <1>5, <1>7, <1>9, <1>11, <1>12 DEF Same

(* The powers of tau, as a setup or a file has them. *)
PowersIn(g, tau) == \A i \in PIndex : g[i] = Params!Pow(tau, i)

LEMMA ScaledIs ==
  ASSUME NEW vec, NEW t \in DOMAIN vec, vec[t] \in Nat, NEW x \in Nat, NEW y \in Nat,
         Same(vec[t], y, Prime)
  PROVE  Same(Params!Scaled(vec, x)[t], y * x, Prime) /\ Params!Scaled(vec, x)[t] \in Nat
<1>1. Prime \in Nat /\ Prime > 0
  BY PIndexIs
<1>2. PICK z \in Nat : z = vec[t]
  OBVIOUS
<1>3. Params!Scaled(vec, x)[t] = (z * x) % Prime
  BY <1>2 DEF Params!Scaled
<1>4. z * x \in Nat
  OBVIOUS
<1>5. Same((z * x) % Prime, z * x, Prime) /\ (z * x) % Prime \in Nat
  BY <1>1, <1>4, SameReduced
<1>6. Same(z * x, y * x, Prime)
  BY <1>1, <1>2, SameTimes
<1> QED
  BY <1>3, <1>5, <1>6 DEF Same

(* A commitment is the sum of the powers of the turned secret. *)
LEMMA CommitmentIs ==
  ASSUME NEW tau \in Nat, NEW g1 \in [PIndex -> Nat], PowersIn(g1, tau), NEW t \in PIndex,
         NEW q, RunningSum(q, PowerList(Turned(tau, t), 1), 2^ParamsDepths)
  PROVE  /\ Params!GenCommitments(g1)[t] \in Nat
         /\ Same(Params!GenCommitments(g1)[t], q[2^ParamsDepths] * Params!SizeInv, Prime)
<1>1. PICK n \in Nat : n = 2^ParamsDepths /\ n >= 1 /\ PIndex = 0..(n - 1) /\ IsFiniteSet(PIndex)
  BY PIndexIs
<1>2. PICK v \in Nat : v = InverseRoot
  BY RootFacts
<1>3. PICK g : g = Terms(g1, v, t)
  OBVIOUS
<1>4. t \in Nat /\ PIndex \in SUBSET Nat
  BY <1>1
<1>5. g \in [PIndex -> Nat] /\ \A i \in PIndex : g[i] = g1[i] * Params!Pow(v, t * i)
  <2>1. PICK D \in SUBSET Nat : D = PIndex
    BY <1>4
  <2>2. g1 \in [D -> Nat]
    BY <2>1
  <2>3. Terms(g1, v, t) \in [D -> Nat] /\ \A i \in D : Terms(g1, v, t)[i] = g1[i] * Params!Pow(v, t * i)
    BY <1>4, <2>2, TermsNat
  <2> QED
    BY <1>3, <2>1, <2>3
<1>6. PICK f : f = [i \in PIndex |-> i]
  OBVIOUS
<1>7. Mirrors(f, 0..(n - 1), 0..(n - 1), g, Terms(g1, v, t))
  BY <1>1, <1>3, <1>5, <1>6 DEF Mirrors
<1>8. Multiplied(g, PowerList(Turned(tau, t), 1), n, 1, Prime)
  <2> SUFFICES ASSUME NEW k \in 0..(n - 1)
               PROVE  Same(g[k], 1 * PowerList(Turned(tau, t), 1)[k], Prime)
    BY DEF Multiplied
  <2>1. k \in Nat /\ k \in PIndex /\ 1 * k = k
    BY <1>1
  <2>2. PowerList(Turned(tau, t), 1)[k] = Params!Pow(Turned(tau, t), k)
    BY <2>1 DEF PowerList
  <2>3. Turned(tau, t) \in Nat
        /\ Same(Params!Pow(Turned(tau, t), k), Params!Pow(tau, k) * Params!Pow(v, t * k), Prime)
    BY <1>2, <1>4, <2>1, TurnedPower
  <2>4. g[k] = Params!Pow(tau, k) * Params!Pow(v, t * k)
    BY <1>5, <2>1 DEF PowersIn
  <2>5. Params!Pow(Turned(tau, t), k) \in Nat
    BY <2>1, <2>3, PowFacts
  <2>6. 1 * Params!Pow(Turned(tau, t), k) = Params!Pow(Turned(tau, t), k)
    BY <2>5
  <2> QED
    BY <2>2, <2>3, <2>4, <2>6 DEF Same
<1>9. /\ Params!Fft(g1, v)[t] \in Nat
      /\ Same(Params!Fft(g1, v)[t], 1 * q[n], Prime)
  <2>1. g1 \in [0..(n - 1) -> Nat] /\ t \in 0..(n - 1) /\ g \in [0..(n - 1) -> Nat]
    BY <1>1, <1>5
  <2>2. RunningSum(q, PowerList(Turned(tau, t), 1), n)
    BY <1>1
  <2> QED
    BY <1>7, <1>8, <2>1, <2>2, FftIs
<1>10. PICK s \in Nat : s = q[n]
  <2>1. n \in 0..n
    OBVIOUS
  <2> QED
    BY <1>1, <2>1 DEF RunningSum
<1>11. 1 * s = s
  OBVIOUS
<1>12. t \in DOMAIN Params!Fft(g1, v)
  BY <1>2, FftNat
<1> QED
  BY <1>1, <1>2, <1>9, <1>10, <1>11, <1>12, SizeInvNat, ScaledIs DEF Params!GenCommitments, InverseRoot

(* The lengths of the pieces at a depth. *)
LEMMA PiecesAt ==
  ASSUME NEW d \in Params!Depth
  PROVE  /\ d \in Nat /\ 2^d \in Nat /\ 2^(ParamsDepths - d) \in Nat /\ 2^ParamsDepths \in Nat
         /\ 2^ParamsDepths = 2^(ParamsDepths - d) * 2^d
         /\ 2^(ParamsDepths - d) >= 1 /\ 2^d >= 2
<1>1. d \in Nat /\ d >= 1 /\ d <= ParamsDepths /\ ParamsDepths \in Nat
  BY PIndexIs DEF Params!Depth
<1>2. PICK a \in Nat, e \in Nat : a = ParamsDepths - d /\ e = d - 1 /\ a + d = ParamsDepths /\ e + 1 = d
  BY <1>1
<1>3. 2^(a + d) = 2^a * 2^d
  BY <1>1, PowerSum
<1>4. 2^(e + 1) = 2^e + 2^e
  BY PowerDoubles
<1>5. 2^e \in Nat /\ 2^e >= 1 /\ 2^a \in Nat /\ 2^a >= 1 /\ 2^d \in Nat /\ 2^(a + d) \in Nat
  BY <1>1, PowerPositive
<1> QED
  BY <1>1, <1>2, <1>3, <1>4, <1>5

(* A quotient is a power of the root times the sum of the first piece of them. *)
LEMMA QuotientIs ==
  ASSUME NEW tau \in Nat, NEW g1 \in [PIndex -> Nat], PowersIn(g1, tau), NEW t \in PIndex,
         NEW d \in Params!Depth, NEW m \in Nat, m = 2^(ParamsDepths - d),
         NEW q, RunningSum(q, PowerList(Turned(tau, t), 1), m)
  PROVE  /\ Params!GenQuotients(g1, d)[t] \in Nat
         /\ Same(Params!GenQuotients(g1, d)[t],
                 (Params!Pow(RootOfUnity, t * m) * q[m]) * Params!SizeInv, Prime)
<1>1. PICK n \in Nat : n = 2^ParamsDepths /\ n >= 1 /\ PIndex = 0..(n - 1) /\ IsFiniteSet(PIndex)
  BY PIndexIs
<1>2. m >= 1 /\ m < n
  <2>1. PICK e \in Nat : e = 2^d /\ n = m * e /\ e >= 2 /\ m >= 1
    BY <1>1, PiecesAt
  <2>2. PICK x \in Nat : e = 2 + x
    BY <2>1
  <2>3. m * (2 + x) = m + m + m * x /\ m * x \in Nat
    OBVIOUS
  <2> QED
    BY <2>1, <2>2, <2>3
<1>3. PICK w \in Nat, v \in Nat : w = RootOfUnity /\ v = InverseRoot
  BY RootFacts
<1>4. PICK c : c = [i \in PIndex |-> IF i \in 1..m THEN g1[m - i] ELSE 0]
  OBVIOUS
<1>5. t \in Nat /\ PIndex \in SUBSET Nat
  BY <1>1
<1>6. c \in [PIndex -> Nat]
  <2>1. ASSUME NEW i \in PIndex, i \in 1..m PROVE g1[m - i] \in Nat
    <3>1. m - i \in PIndex
      BY <1>1, <1>2, <2>1
    <3> QED
      BY <3>1
  <2> QED
    BY <1>4, <2>1
<1>7. PICK u : u = Terms(c, w, t)
  OBVIOUS
<1>8. u \in [PIndex -> Nat] /\ \A i \in PIndex : u[i] = c[i] * Params!Pow(w, t * i)
  <2>1. PICK D \in SUBSET Nat : D = PIndex
    BY <1>5
  <2>2. c \in [D -> Nat]
    BY <1>6, <2>1
  <2>3. Terms(c, w, t) \in [D -> Nat] /\ \A i \in D : Terms(c, w, t)[i] = c[i] * Params!Pow(w, t * i)
    BY <1>5, <2>2, TermsNat
  <2> QED
    BY <1>7, <2>1, <2>3
<1>9. PICK f : f = [k \in 0..(m - 1) |-> m - k]
  OBVIOUS
<1>10. PICK g : g = [k \in 0..(m - 1) |-> u[m - k]]
  OBVIOUS
<1>11. ASSUME NEW k \in 0..(m - 1)
       PROVE  /\ m - k \in PIndex /\ m - k \in 1..m /\ f[k] = m - k /\ m - (m - k) = k
              /\ k \in PIndex /\ k \in Nat /\ g[k] = u[m - k] /\ g[k] \in Nat
  <2>1. /\ m - k \in 0..(n - 1) /\ m - k \in 1..m /\ m - (m - k) = k
        /\ k \in 0..(n - 1) /\ k \in Nat
    BY <1>1, <1>2
  <2>2. m - k \in PIndex /\ k \in PIndex
    BY <1>1, <2>1
  <2>3. f[k] = m - k /\ g[k] = u[m - k]
    BY <1>9, <1>10
  <2>4. u[m - k] \in Nat
    BY <1>8, <2>2
  <2> QED
    BY <2>1, <2>2, <2>3, <2>4
<1>12. g \in [0..(m - 1) -> Nat] /\ f \in [0..(m - 1) -> 0..(n - 1)]
  BY <1>1, <1>9, <1>10, <1>11
<1>13. Mirrors(f, 0..(m - 1), 0..(n - 1), g, u)
  <2>1. IsFiniteSet(0..(m - 1)) /\ IsFiniteSet(0..(n - 1))
    <3>1. 0 \in Int /\ m - 1 \in Int
      OBVIOUS
    <3> QED
      BY <1>1, <3>1, FS_Interval
  <2>2. u \in [0..(n - 1) -> Int] /\ g \in [0..(m - 1) -> Int]
    BY <1>1, <1>8, <1>12
  <2>3. \A x, y \in 0..(m - 1) : f[x] = f[y] => x = y
    BY <1>9
  <2>4. \A k \in 0..(m - 1) : g[k] = u[f[k]]
    BY <1>11
  <2>5. ASSUME NEW p \in 0..(n - 1), u[p] # 0 PROVE \E k \in 0..(m - 1) : f[k] = p
    <3>1. p \in 1..m
      <4> SUFFICES ASSUME p \notin 1..m PROVE FALSE
        OBVIOUS
      <4>1. p \in PIndex /\ c[p] = 0
        BY <1>1, <1>4
      <4>2. PICK y \in Nat : y = Params!Pow(w, t * p)
        <5>1. t * p \in Nat
          BY <1>5
        <5> QED
          BY <5>1, PowNat
      <4>3. 0 * y = 0
        OBVIOUS
      <4> QED
        BY <1>8, <2>5, <4>1, <4>2, <4>3
    <3>2. m - p \in 0..(m - 1) /\ m - (m - p) = p
      BY <3>1
    <3> QED
      BY <1>9, <3>2
  <2> QED
    BY <1>12, <2>1, <2>2, <2>3, <2>4, <2>5 DEF Mirrors
<1>14. PICK b \in Nat : b = Params!Pow(w, t * m)
  <2>1. t * m \in Nat
    BY <1>5
  <2> QED
    BY <2>1, PowNat
<1>15. Multiplied(g, PowerList(Turned(tau, t), 1), m, b, Prime)
  <2> SUFFICES ASSUME NEW k \in 0..(m - 1)
               PROVE  Same(g[k], b * PowerList(Turned(tau, t), 1)[k], Prime)
    BY DEF Multiplied
  <2>1. k \in Nat /\ 1 * k = k /\ m - k \in Nat
    BY <1>11
  <2>2. PowerList(Turned(tau, t), 1)[k] = Params!Pow(Turned(tau, t), k)
    BY <2>1 DEF PowerList
  <2>3. /\ Turned(tau, t) \in Nat
        /\ Same(Params!Pow(Turned(tau, t), k), Params!Pow(tau, k) * Params!Pow(v, t * k), Prime)
    BY <1>3, <1>5, <2>1, TurnedPower
  <2>4. PICK i \in Nat, j \in Nat : i = t * (m - k) /\ j = t * k
    BY <1>5, <2>1
  <2>5. t * m = i + j
    <3>1. PICK o \in Nat : o = m - k /\ m = o + k
      BY <2>1
    <3>2. t * (o + k) = t * o + t * k
      BY <1>5
    <3> QED
      BY <2>4, <3>1, <3>2
  <2>6. PICK A \in Nat, B \in Nat, C \in Nat, E \in Nat, U \in Nat :
          /\ A = Params!Pow(tau, k) /\ B = Params!Pow(w, i) /\ C = Params!Pow(w, j)
          /\ E = Params!Pow(v, j) /\ U = Params!Pow(Turned(tau, t), k)
    BY <2>1, <2>3, PowFacts
  <2>7. g[k] = A * B
    <3>1. c[m - k] = g1[m - (m - k)]
      BY <1>4, <1>11
    <3>2. c[m - k] = A
      BY <1>11, <2>6, <3>1 DEF PowersIn
    <3>3. u[m - k] = c[m - k] * Params!Pow(w, t * (m - k))
      BY <1>8, <1>11
    <3> QED
      BY <1>11, <2>4, <2>6, <3>2, <3>3
  <2>8. Same(b, B * C, Prime)
    BY <1>14, <2>5, <2>6, PowSum
  <2>9. Same(U, A * E, Prime)
    BY <2>3, <2>4, <2>6
  <2>10. Same(C * E, 1, Prime)
    BY <1>3, <2>6, RootsCancel
  <2>11. Same(b * U, (B * C) * (A * E), Prime)
    <3>1. B * C \in Nat /\ A * E \in Nat
      OBVIOUS
    <3> QED
      BY <2>8, <2>9, <3>1, SameProducts, PrimeIsNat
  <2>12. Same((C * E) * (A * B), 1 * (A * B), Prime)
    <3>1. C * E \in Nat /\ A * B \in Nat
      OBVIOUS
    <3> QED
      BY <2>10, <3>1, SameTimes, PrimeIsNat
  <2>13. (B * C) * (A * E) = (C * E) * (A * B) /\ 1 * (A * B) = A * B
    OBVIOUS
  <2> QED
    BY <2>2, <2>6, <2>7, <2>11, <2>12, <2>13 DEF Same
<1>16. /\ Params!Fft(c, w)[t] \in Nat
       /\ Same(Params!Fft(c, w)[t], b * q[m], Prime)
  <2>1. c \in [0..(n - 1) -> Nat] /\ t \in 0..(n - 1)
    BY <1>1, <1>6
  <2>2. Mirrors(f, 0..(m - 1), 0..(n - 1), g, Terms(c, w, t))
    BY <1>7, <1>13
  <2> QED
    BY <1>12, <1>15, <2>1, <2>2, FftIs
<1>17. PICK s \in Nat : s = q[m]
  <2>1. m \in 0..m
    OBVIOUS
  <2> QED
    BY <2>1 DEF RunningSum
<1>18. b * s \in Nat
  OBVIOUS
<1>19. t \in DOMAIN Params!Fft(c, w)
  BY <1>6, FftNat
<1>20. Params!GenQuotients(g1, d) = Params!Scaled(Params!Fft(c, w), Params!SizeInv)
  BY <1>3, <1>4 DEF Params!GenQuotients, PIndex
<1> QED
  BY <1>3, <1>14, <1>16, <1>17, <1>18, <1>19, <1>20, SizeInvNat, ScaledIs

(* A verification point is a power of the inverse root times the sum of every m-th of
   the powers, for all indices of a subtree alike. *)
LEMMA VerificationIs ==
  ASSUME NEW tau \in Nat, NEW g2 \in [PIndex -> Nat], PowersIn(g2, tau), NEW t \in PIndex,
         NEW d \in Params!Depth, NEW m \in Nat, m = 2^(ParamsDepths - d), NEW n \in Nat, n = 2^d,
         NEW q, RunningSum(q, PowerList(Turned(tau, t), m), n)
  PROVE  /\ Params!GenVerify(g2, d)[t % n] \in Nat
         /\ Same(Params!GenVerify(g2, d)[t % n], Params!Pow(InverseRoot, t * m) * q[n], Prime)
<1>1. PICK l \in Nat : l = 2^ParamsDepths /\ l = m * n /\ PIndex = 0..(l - 1) /\ m >= 1 /\ n >= 2
  BY PIndexIs, PiecesAt
<1>2. PICK v \in Nat : v = InverseRoot
  BY RootFacts
<1>3. PICK b \in Nat : b = Params!Pow(v, m) /\ b = Params!Inverse(Params!Pow(RootOfUnity, m))
  BY <1>2, PowFacts, InversePower
<1>4. PICK s \in Nat, e \in Nat : s = t % n /\ s < n /\ t = n * e + s /\ t \in Nat
  <2>1. t \in Nat /\ n > 0
    BY <1>1
  <2>2. t \div n \in Nat /\ t % n \in Nat /\ t % n < n /\ t = n * (t \div n) + (t % n)
    BY <2>1, DivMod
  <2> QED
    BY <2>1, <2>2
<1>5. PICK D \in SUBSET Nat : D = 0..(n - 1)
  OBVIOUS
<1>6. PICK c : c = [i \in D |-> IF i = 0 THEN g2[l - m] ELSE g2[(i - 1) * m]]
  OBVIOUS
<1>7. PICK f : f = [k \in D |-> IF k = n - 1 THEN 0 ELSE k + 1]
  OBVIOUS
<1>8. ASSUME NEW k \in D
      PROVE  /\ f[k] \in D /\ k \in Nat /\ m * k \in PIndex /\ c[f[k]] = g2[m * k]
             /\ \A i \in D : f[i] = f[k] => i = k
  <2>1. k \in 0..(n - 1) /\ k \in Nat
    BY <1>5
  <2>2. f[k] \in D /\ \A i \in D : f[i] = f[k] => i = k
    <3>1. \A i \in D : f[i] = IF i = n - 1 THEN 0 ELSE i + 1
      BY <1>7
    <3>2. 0 \in D /\ (k # n - 1 => k + 1 \in D)
      <4>1. n >= 2
        BY <1>1
      <4>2. 0 \in 0..(n - 1) /\ (k # n - 1 => k + 1 \in 0..(n - 1))
        BY <2>1, <4>1
      <4> QED
        BY <1>5, <4>2
    <3>3. \A i \in D : i \in Nat
      OBVIOUS
    <3> QED
      BY <2>1, <3>1, <3>2, <3>3
  <2>3. PICK x \in Nat : x = (n - k) - 1 /\ n = k + x + 1
    BY <2>1
  <2>4. m * (k + x + 1) = m * k + m * x + m /\ m * x \in Nat /\ m * k \in Nat
    BY <2>1
  <2>5. m * k \in PIndex
    <3>1. l = m * k + m * x + m
      BY <1>1, <2>3, <2>4
    <3>2. m * k \in 0..(l - 1)
      <4>1. PICK c1 \in Nat, c2 \in Nat : c1 = m * k /\ c2 = m * x /\ l = c1 + c2 + m
        BY <2>4, <3>1
      <4>2. m >= 1
        BY <1>1
      <4>3. c1 \in 0..(l - 1)
        BY <4>1, <4>2
      <4> QED
        BY <4>1, <4>3
    <3> QED
      BY <1>1, <3>2
  <2>6. CASE k = n - 1
    <3>1. f[k] = 0 /\ 0 \in D /\ x = 0
      <4>1. 0 \in D
        BY <1>1, <1>5
      <4>2. f[k] = 0
        BY <1>7, <2>6
      <4>3. x = 0
        BY <2>1, <2>3, <2>6
      <4> QED
        BY <4>1, <4>2, <4>3
    <3>2. m * 0 = 0
      OBVIOUS
    <3>3. l - m = m * k
      <4>1. l = m * k + m * x + m
        BY <1>1, <2>3, <2>4
      <4>2. m * x = 0
        BY <3>1, <3>2
      <4> QED
        BY <2>4, <4>1, <4>2
    <3> QED
      BY <1>6, <2>1, <2>2, <2>5, <3>1, <3>3
  <2>7. CASE k # n - 1
    <3>1. f[k] = k + 1 /\ k + 1 # 0 /\ (k + 1) - 1 = k
      BY <1>7, <2>1, <2>7
    <3>2. k * m = m * k
      BY <2>1
    <3>3. c[k + 1] = g2[k * m]
      BY <1>6, <2>2, <3>1
    <3> QED
      BY <2>1, <2>2, <2>5, <3>1, <3>2, <3>3
  <2> QED
    BY <2>6, <2>7
<1>9. ASSUME NEW i \in D PROVE \E k \in D : f[k] = i
  <2>1. CASE i = 0
    <3>1. n - 1 \in D
      <4>1. n >= 2
        BY <1>1
      <4>2. n - 1 \in 0..(n - 1)
        BY <4>1
      <4> QED
        BY <1>5, <4>2
    <3> QED
      BY <1>7, <2>1, <3>1
  <2>2. CASE i # 0
    <3>1. i - 1 \in D /\ i - 1 # n - 1 /\ (i - 1) + 1 = i
      BY <1>5, <2>2
    <3> QED
      BY <1>7, <3>1
  <2> QED
    BY <2>1, <2>2
<1>10. c \in [D -> Nat]
  <2>1. ASSUME NEW i \in D PROVE c[i] \in Nat
    <3>1. PICK k \in D : f[k] = i
      BY <1>9
    <3>2. c[i] = g2[m * k] /\ m * k \in PIndex
      BY <1>8, <3>1
    <3> QED
      BY <3>2
  <2> QED
    BY <1>6, <2>1
<1>11. s \in D
  BY <1>4, <1>5
<1>12. PICK u : u = Terms(c, b, s)
  OBVIOUS
<1>13. u \in [D -> Nat] /\ \A i \in D : u[i] = c[i] * Params!Pow(b, s * i)
  BY <1>10, <1>11, <1>12, TermsNat
<1>14. PICK g : g = [k \in D |-> u[f[k]]]
  OBVIOUS
<1>15. g \in [D -> Nat] /\ f \in [D -> D] /\ \A k \in D : g[k] = u[f[k]]
  <2>1. \A k \in D : f[k] \in D /\ u[f[k]] \in Nat
    BY <1>8, <1>13
  <2>2. f = [k \in D |-> f[k]]
    BY <1>7
  <2> QED
    BY <1>14, <2>1, <2>2
<1>16. Mirrors(f, D, D, g, u)
  <2>1. IsFiniteSet(D)
    <3>1. 0 \in Int /\ n - 1 \in Int
      OBVIOUS
    <3> QED
      BY <1>5, <3>1, FS_Interval
  <2>2. u \in [D -> Int] /\ g \in [D -> Int]
    BY <1>13, <1>15
  <2>3. \A x, y \in D : f[x] = f[y] => x = y
    BY <1>8
  <2> QED
    BY <1>9, <1>15, <2>1, <2>2, <2>3 DEF Mirrors
<1>17. PICK o \in Nat, p \in Nat : o = t * m /\ p = Params!Pow(v, o)
  <2>1. t * m \in Nat
    BY <1>4
  <2> QED
    BY <2>1, PowNat
<1>18. ASSUME NEW k \in D
       PROVE  Same(Params!Pow(b, s * f[k]), Params!Pow(v, o * (k + 1)), Prime)
  <2>1. PICK i \in Nat : i = f[k]
    BY <1>5, <1>8
  <2>2. PICK x \in Nat, y \in Nat, z \in Nat : x = s * i /\ y = m * x /\ z = o * (k + 1)
    <3>1. k + 1 \in Nat
      BY <1>8
    <3>2. s * i \in Nat /\ o * (k + 1) \in Nat
      BY <3>1
    <3>3. m * (s * i) \in Nat
      BY <3>2
    <3> QED
      BY <3>2, <3>3
  <2>3. Same(Params!Pow(b, x), Params!Pow(v, y), Prime)
    BY <1>3, <2>2, PowPower
  <2>4. CASE k = n - 1
    <3>1. i = 0 /\ k + 1 = n
      BY <1>7, <2>1, <2>4
    <3>2. y = 0
      <4>1. s * 0 = 0 /\ m * 0 = 0
        OBVIOUS
      <4> QED
        BY <2>2, <3>1, <4>1
    <3>3. z = l * t + 0
      <4>1. (t * m) * n = (m * n) * t
        BY <1>4
      <4>2. z = (m * n) * t
        BY <1>17, <2>2, <3>1, <4>1
      <4>3. l * t \in Nat /\ l * t + 0 = l * t
        BY <1>4
      <4> QED
        BY <1>1, <4>2, <4>3
    <3>4. Same(Params!Pow(v, z), Params!Pow(v, 0), Prime)
      BY <1>1, <1>2, <1>4, <3>3, RootIsCyclic
    <3> QED
      BY <2>1, <2>2, <2>3, <3>2, <3>4 DEF Same
  <2>5. CASE k # n - 1
    <3>1. i = k + 1
      BY <1>7, <2>1, <2>5
    <3>2. z = l * (e * i) + y
      <4>1. ((n * e + s) * m) * i = (m * n) * (e * i) + m * (s * i)
        OBVIOUS
      <4>2. z = ((n * e + s) * m) * i
        BY <1>4, <1>17, <2>2, <3>1
      <4> QED
        BY <1>1, <2>2, <4>1, <4>2
    <3>3. e * i \in Nat
      OBVIOUS
    <3>4. Same(Params!Pow(v, z), Params!Pow(v, y), Prime)
      BY <1>1, <1>2, <3>2, <3>3, RootIsCyclic
    <3> QED
      BY <2>1, <2>2, <2>3, <3>4 DEF Same
  <2> QED
    BY <2>4, <2>5
<1>19. Multiplied(g, PowerList(Turned(tau, t), m), n, p, Prime)
  <2> SUFFICES ASSUME NEW k \in 0..(n - 1)
               PROVE  Same(g[k], p * PowerList(Turned(tau, t), m)[k], Prime)
    BY DEF Multiplied
  <2>1. k \in D /\ k \in Nat
    BY <1>5
  <2>2. PICK j \in Nat, i \in Nat, x \in Nat, h \in Nat :
          j = m * k /\ i = f[k] /\ x = s * i /\ h = o * k
    <3>1. m * k \in Nat /\ o * k \in Nat /\ f[k] \in Nat
      BY <1>5, <1>8, <2>1
    <3>2. s * f[k] \in Nat
      BY <3>1
    <3> QED
      BY <3>1, <3>2
  <2>3. PowerList(Turned(tau, t), m)[k] = Params!Pow(Turned(tau, t), j)
    BY <2>1, <2>2 DEF PowerList
  <2>4. /\ Turned(tau, t) \in Nat
        /\ Same(Params!Pow(Turned(tau, t), j), Params!Pow(tau, j) * Params!Pow(v, t * j), Prime)
    BY <1>2, <1>4, TurnedPower
  <2>5. t * j = h
    <3>1. t * (m * k) = (t * m) * k
      BY <1>4, <2>1
    <3> QED
      BY <1>17, <2>2, <3>1
  <2>6. PICK A \in Nat, B \in Nat, C \in Nat, U \in Nat, E \in Nat :
          /\ A = Params!Pow(tau, j) /\ B = Params!Pow(b, x) /\ C = Params!Pow(v, h)
          /\ U = Params!Pow(Turned(tau, t), j) /\ E = Params!Pow(v, o * (k + 1))
    <3>1. k + 1 \in Nat
      BY <2>1
    <3>2. o * (k + 1) \in Nat
      BY <3>1
    <3> QED
      BY <2>4, <3>2, PowFacts
  <2>7. g[k] = A * B
    <3>1. c[f[k]] = A
      BY <1>8, <2>1, <2>2, <2>6 DEF PowersIn
    <3>2. u[f[k]] = c[f[k]] * Params!Pow(b, s * f[k])
      BY <1>8, <1>13, <2>1
    <3>3. g[k] = u[f[k]]
      BY <1>15, <2>1
    <3> QED
      BY <2>2, <2>6, <3>1, <3>2, <3>3
  <2>8. Same(B, E, Prime)
    BY <1>18, <2>1, <2>2, <2>6
  <2>9. Same(E, C * p, Prime)
    <3>1. o * (k + 1) = h + o
      <4>1. o * (k + 1) = o * k + o
        BY <2>1
      <4> QED
        BY <2>2, <4>1
    <3> QED
      BY <1>17, <2>6, <3>1, PowSum
  <2>10. Same(U, A * C, Prime)
    BY <2>4, <2>5, <2>6
  <2>11. Same(B * A, (C * p) * A, Prime)
    <3>1. Same(B, C * p, Prime) /\ C * p \in Nat
      BY <2>8, <2>9 DEF Same
    <3> QED
      BY <3>1, SameTimes, PrimeIsNat
  <2>12. Same(U * p, (A * C) * p, Prime)
    <3>1. A * C \in Nat
      OBVIOUS
    <3> QED
      BY <2>10, <3>1, SameTimes, PrimeIsNat
  <2>13. B * A = A * B /\ (C * p) * A = (A * C) * p /\ U * p = p * U
    OBVIOUS
  <2> QED
    BY <2>3, <2>6, <2>7, <2>11, <2>12, <2>13 DEF Same
<1>20. /\ Params!Fft(c, b)[s] \in Nat
       /\ Same(Params!Fft(c, b)[s], p * q[n], Prime)
  <2>1. c \in [0..(n - 1) -> Nat] /\ s \in 0..(n - 1) /\ g \in [0..(n - 1) -> Nat]
    BY <1>5, <1>10, <1>11, <1>15
  <2>2. Mirrors(f, 0..(n - 1), 0..(n - 1), g, Terms(c, b, s))
    BY <1>5, <1>12, <1>16
  <2> QED
    BY <1>19, <2>1, <2>2, FftIs
<1>21. Params!GenVerify(g2, d) = Params!Fft(c, b)
  BY <1>1, <1>3, <1>5, <1>6 DEF Params!GenVerify
<1> QED
  BY <1>2, <1>4, <1>17, <1>20, <1>21

(* The three lists fit together: a quotient times the verification point of its
   subtree is the commitment of its index. *)
LEMMA PointsFit ==
  ASSUME NEW tau \in Nat, NEW g1 \in [PIndex -> Nat], PowersIn(g1, tau),
         NEW g2 \in [PIndex -> Nat], PowersIn(g2, tau), NEW t \in PIndex, NEW d \in Params!Depth
  PROVE  /\ Params!GenCommitments(g1)[t] \in Nat
         /\ Same(Params!GenCommitments(g1)[t],
                 Params!GenQuotients(g1, d)[t] * Params!GenVerify(g2, d)[t % 2^d], Prime)
<1>1. PICK m \in Nat, n \in Nat, l \in Nat :
        /\ m = 2^(ParamsDepths - d) /\ n = 2^d /\ l = 2^ParamsDepths /\ l = m * n
        /\ m >= 1 /\ n >= 2
  BY PiecesAt
<1>2. t \in Nat /\ Prime \in Nat /\ Prime > 0
  BY PIndexIs
<1>3. PICK U \in Nat : U = Turned(tau, t)
  <2>1. 0 \in Nat
    OBVIOUS
  <2> QED
    BY <1>2, <2>1, TurnedPower
<1>4. PICK g : g = PowerList(U, 1)
  OBVIOUS
<1>5. PICK h : h = PowerList(U, m)
  OBVIOUS
<1>6. \A k \in Nat : g[k] = Params!Pow(U, k) /\ g[k] \in Nat
  <2>1. ASSUME NEW k \in Nat PROVE g[k] = Params!Pow(U, k) /\ g[k] \in Nat
    <3>1. 1 * k = k
      OBVIOUS
    <3>2. g[k] = Params!Pow(U, k)
      BY <1>4, <3>1 DEF PowerList
    <3> QED
      BY <3>2, PowFacts
  <2> QED
    BY <2>1
<1>7. \A k \in Nat : h[k] = Params!Pow(U, m * k) /\ h[k] \in Nat
  <2>1. ASSUME NEW k \in Nat PROVE h[k] = Params!Pow(U, m * k) /\ h[k] \in Nat
    <3>1. m * k \in Nat
      OBVIOUS
    <3>2. h[k] = Params!Pow(U, m * k)
      BY <1>5 DEF PowerList
    <3> QED
      BY <3>1, <3>2, PowFacts
  <2> QED
    BY <2>1
<1>8. PICK r : RunningSum(r, g, l)
  <2>1. \A k \in 0..(l - 1) : g[k] \in Nat
    BY <1>6
  <2> QED
    BY <2>1, RunningExists
<1>9. PICK q : RunningSum(q, h, n)
  <2>1. \A k \in 0..(n - 1) : h[k] \in Nat
    BY <1>7
  <2> QED
    BY <2>1, RunningExists
<1>10. PICK w : w = [k \in 0..m |-> r[k]]
  OBVIOUS
<1>11. m \in 0..l
  <2>1. PICK x \in Nat : n = 1 + x
    <3>1. n - 1 \in Nat /\ n = 1 + (n - 1)
      BY <1>1
    <3> QED
      BY <3>1
  <2>2. m * (1 + x) = m + m * x /\ m * x \in Nat
    OBVIOUS
  <2> QED
    BY <1>1, <2>1, <2>2
<1>12. RunningSum(w, g, m) /\ w[m] = r[m]
  <2>1. /\ r \in [0..l -> Nat] /\ r[0] = 0
        /\ \A k \in 1..l : g[k - 1] \in Nat /\ r[k] = r[k - 1] + g[k - 1]
    BY <1>8 DEF RunningSum
  <2>2. ASSUME NEW k \in 0..m PROVE w[k] = r[k] /\ r[k] \in Nat
    BY <1>10, <1>11, <2>1
  <2>3. w \in [0..m -> Nat]
    BY <1>10, <2>2
  <2>4. 0 \in 0..m /\ m \in 0..m
    OBVIOUS
  <2>5. ASSUME NEW k \in 1..m PROVE g[k - 1] \in Nat /\ w[k] = w[k - 1] + g[k - 1]
    <3>1. k \in 1..l /\ k \in 0..m /\ k - 1 \in 0..m
      BY <1>11
    <3> QED
      BY <2>1, <2>2, <3>1
  <2> QED
    BY <2>1, <2>2, <2>3, <2>4, <2>5 DEF RunningSum
<1>13. Pieces(g, h, m, n, Prime)
  <2> SUFFICES ASSUME NEW k \in 0..(n - 1), NEW j \in 0..(m - 1)
               PROVE  Same(g[m * k + j], h[k] * g[j], Prime)
    BY DEF Pieces
  <2>1. k \in Nat /\ j \in Nat /\ m * k \in Nat /\ m * k + j \in Nat
    OBVIOUS
  <2>2. Same(Params!Pow(U, m * k + j), Params!Pow(U, m * k) * Params!Pow(U, j), Prime)
    BY <2>1, PowSum
  <2> QED
    BY <1>6, <1>7, <2>1, <2>2
<1>14. Same(r[l], r[m] * q[n], Prime)
  BY <1>1, <1>2, <1>8, <1>9, <1>13, RunningPieces
<1>15. PICK X \in Nat, M \in Nat, Q \in Nat, Z \in Nat :
         X = r[l] /\ M = r[m] /\ Q = q[n] /\ Z = Params!SizeInv
  <2>1. l \in 0..l /\ n \in 0..n
    OBVIOUS
  <2>2. r[l] \in Nat /\ r[m] \in Nat /\ q[n] \in Nat
    BY <1>8, <1>9, <1>11, <2>1 DEF RunningSum
  <2> QED
    BY <2>2, SizeInvNat
<1>16. PICK A \in Nat, B \in Nat :
         /\ A = Params!Pow(RootOfUnity, t * m) /\ B = Params!Pow(InverseRoot, t * m)
         /\ Same(A * B, 1, Prime)
  <2>1. t * m \in Nat
    BY <1>2
  <2> QED
    BY <2>1, RootFacts, PowFacts, RootsCancel
<1>17. Params!GenCommitments(g1)[t] \in Nat /\ Same(Params!GenCommitments(g1)[t], X * Z, Prime)
  BY <1>1, <1>3, <1>4, <1>8, <1>15, CommitmentIs
<1>18. /\ Params!GenQuotients(g1, d)[t] \in Nat
       /\ Same(Params!GenQuotients(g1, d)[t], (A * M) * Z, Prime)
  BY <1>1, <1>3, <1>4, <1>12, <1>15, <1>16, QuotientIs
<1>19. /\ Params!GenVerify(g2, d)[t % 2^d] \in Nat
       /\ Same(Params!GenVerify(g2, d)[t % 2^d], B * Q, Prime)
  BY <1>1, <1>3, <1>5, <1>9, <1>15, <1>16, VerificationIs
<1>20. PICK x \in Nat, y \in Nat, z \in Nat :
         /\ x = Params!GenCommitments(g1)[t] /\ y = Params!GenQuotients(g1, d)[t]
         /\ z = Params!GenVerify(g2, d)[t % 2^d]
  BY <1>17, <1>18, <1>19
<1>21. Same(y * z, ((A * M) * Z) * (B * Q), Prime)
  <2>1. (A * M) * Z \in Nat /\ B * Q \in Nat
    OBVIOUS
  <2> QED
    BY <1>2, <1>18, <1>19, <1>20, <2>1, SameProducts
<1>22. Same((A * B) * ((M * Q) * Z), 1 * (X * Z), Prime)
  <2>1. M * Q \in Nat /\ A * B \in Nat /\ (M * Q) * Z \in Nat /\ X * Z \in Nat
    OBVIOUS
  <2>2. Same(X * Z, (M * Q) * Z, Prime)
    BY <1>2, <1>14, <1>15, <2>1, SameTimes
  <2>3. Same((M * Q) * Z, X * Z, Prime)
    BY <2>2 DEF Same
  <2> QED
    BY <1>2, <1>16, <2>1, <2>3, SameProducts
<1>23. ((A * M) * Z) * (B * Q) = (A * B) * ((M * Q) * Z) /\ 1 * (X * Z) = X * Z
  OBVIOUS
<1> QED
  BY <1>17, <1>20, <1>21, <1>22, <1>23 DEF Same

(* Whatever the secret and whichever process computed the parameters: at every depth
   the quotient of an index, paired with the verification point of its subtree, is
   the commitment of the index.  This is what the pairing in verify relies on. *)
THEOREM IdentitiesHold == MCSpec => []IdentProve
<1>1. ASSUME MCInv, params # Unloaded, NEW d \in Params!Depth, NEW t \in Params!Index
      PROVE  (params.commitments[t] * params.g2) % Prime
               = (params.quotients[d][t] * params.verification[d][t % 2^d]) % Prime
  <2>1. Params!Usable(power_tau) /\ params = Params!FromPp(Params!Truncated(power_tau)) /\ IsPowers(power_tau)
    BY <1>1 DEF MCInv, FilesInv, OfPowers
  <2>2. PICK tau \in Taus, d1 \in Nat, d2 \in Nat :
          power_tau = [g1 |-> Params!PowersOf(tau, d1), g2 |-> Params!PowersOf(tau, d2)]
    BY <2>1 DEF IsPowers, Params!Usable
  <2>3. tau \in Nat
    <3>1. Taus \subseteq Nat
      BY ParamsConstants
    <3> QED
      BY <3>1
  <2>4. PICK p : p = Params!PowersOf(tau, d1)
    OBVIOUS
  <2>5. PICK o : o = Params!PowersOf(tau, d2)
    OBVIOUS
  <2>6. \A i \in DOMAIN p : p[i] = Params!Pow(tau, i)
    BY <2>4 DEF Params!PowersOf
  <2>7. \A i \in DOMAIN o : o[i] = Params!Pow(tau, i)
    BY <2>5 DEF Params!PowersOf
  <2>8. PIndex \subseteq DOMAIN p /\ PIndex \subseteq DOMAIN o
    BY <2>1, <2>2, <2>4, <2>5 DEF Params!Usable, PIndex
  <2>9. PICK g1 : g1 = [i \in PIndex |-> p[i]]
    OBVIOUS
  <2>10. PICK g2 : g2 = [i \in PIndex |-> o[i]]
    OBVIOUS
  <2>11. Params!Truncated(power_tau) = [g1 |-> g1, g2 |-> g2]
    BY <2>2, <2>4, <2>5, <2>9, <2>10 DEF Params!Truncated, PIndex
  <2>12. ASSUME NEW i \in PIndex
         PROVE  g1[i] = Params!Pow(tau, i) /\ g2[i] = Params!Pow(tau, i) /\ Params!Pow(tau, i) \in Nat
    <3>1. i \in Nat
      BY PIndexIs
    <3> QED
      BY <2>3, <2>6, <2>7, <2>8, <2>9, <2>10, <3>1, PowNat
  <2>13. /\ g1 \in [PIndex -> Nat] /\ PowersIn(g1, tau)
         /\ g2 \in [PIndex -> Nat] /\ PowersIn(g2, tau)
    BY <2>9, <2>10, <2>12 DEF PowersIn
  <2>14. params.g2 = 1
    <3>1. 0 \in PIndex
      BY PIndexIs
    <3>2. g2[0] = Params!Pow(tau, 0)
      BY <2>12, <3>1
    <3>3. Params!Pow(tau, 0) = 1
      <4>1. 0 \in Nat
        OBVIOUS
      <4> QED
        BY <2>3, <4>1, PowFacts
    <3> QED
      BY <2>1, <2>11, <3>2, <3>3 DEF Params!FromPp
  <2>15. /\ params.commitments[t] = Params!GenCommitments(g1)[t]
         /\ params.quotients[d][t] = Params!GenQuotients(g1, d)[t]
         /\ params.verification[d][t % 2^d] = Params!GenVerify(g2, d)[t % 2^d]
    BY <2>1, <2>11 DEF Params!FromPp
  <2>16. t \in PIndex
    BY DEF PIndex
  <2>17. PICK x \in Nat : x = Params!GenCommitments(g1)[t]
    BY <2>3, <2>13, <2>16, PointsFit
  <2>18. Same(x, Params!GenQuotients(g1, d)[t] * Params!GenVerify(g2, d)[t % 2^d], Prime)
    BY <2>3, <2>13, <2>16, <2>17, PointsFit
  <2>19. x * 1 = x
    OBVIOUS
  <2> QED
    BY <2>14, <2>15, <2>17, <2>18, <2>19 DEF Same
<1>2. MCInv => IdentProve
  BY <1>1 DEF IdentProve, Params!IdentProve
<1> QED
  BY <1>2, FilesInductive, PTL

(* The tree of the composed model is a tree: what is proved of Spec holds of it. *)
THEOREM ComposedTree == MCSpec => Spec
<1>1. MCInit => Init
  BY DEF MCInit
<1>2. [MCNext]_<<vars, paramVars, checked>> => [Next]_vars
  BY DEF MCNext
<1> QED
  BY <1>1, <1>2, PTL DEF MCSpec, Spec
==============================================================================
