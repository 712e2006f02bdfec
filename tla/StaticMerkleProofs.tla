-------------------------- MODULE StaticMerkleProofs --------------------------
(***************************************************************************)
(* Proofs about StaticMerkleTree for every number of leaves: what dump     *)
(* stores level by level is the tree of the recursive definition, and a    *)
(* proof read back from it verifies exactly the leaf at its position.      *)
(***************************************************************************)
EXTENDS StaticMerkle, NumberLemmas

-------------------------------------------------------------------------------
(* The depth of a tree *)

(* There is a power of two above every number. *)
LEMMA PowerAbove ==
  ASSUME NEW n \in Nat
  PROVE  2^n >= n
<1>1. PICK S : S = {j \in Nat : 2^j >= j}
  OBVIOUS
<1>2. 0 \in S
  BY <1>1, PowerZero
<1>3. ASSUME NEW j \in 1..n, j - 1 \in S
      PROVE  j \in S
  <2>1. j - 1 \in Nat /\ (j - 1) + 1 = j
    OBVIOUS
  <2>2. 2^((j - 1) + 1) = 2^(j - 1) + 2^(j - 1)
    BY <2>1, PowerDoubles
  <2>3. 2^(j - 1) \in Nat /\ 2^(j - 1) >= 1
    BY <2>1, PowerPositive
  <2>4. 2^(j - 1) >= j - 1
    BY <1>1, <1>3
  <2>5. 2^(j - 1) + 2^(j - 1) >= (j - 1) + 1
    BY <2>3, <2>4
  <2>6. 2^j >= j
    BY <2>1, <2>2, <2>5
  <2> QED
    BY <1>1, <2>6
<1>4. \A j \in 0..n : j \in S
  BY <1>2, <1>3, InductionTo
<1> QED
  BY <1>1, <1>4

(* The depth is the least exponent of a power of two with room for the leaves. *)
LEMMA DepthBounds ==
  ASSUME NEW n \in Nat
  PROVE  /\ DepthOf(n) \in 0..n /\ DepthOf(n) \in Nat
         /\ 2^DepthOf(n) >= n
         /\ \A e \in 0..(DepthOf(n) - 1) : 2^e < n
<1>1. PICK T : T = {d \in 0..n : 2^d >= n}
  OBVIOUS
<1>2. n \in T
  BY <1>1, PowerAbove
<1>3. T \in SUBSET Nat
  BY <1>1
<1>4. PICK d \in T : \A j \in T : d <= j
  BY <1>2, <1>3, LeastNat
<1>5. \A e \in 0..(d - 1) : 2^e < n
  <2> SUFFICES ASSUME NEW e \in 0..(d - 1) PROVE 2^e < n
    OBVIOUS
  <2>1. e \in 0..n /\ ~(d <= e)
    BY <1>1, <1>3
  <2>2. ~(2^e >= n)
    BY <1>1, <1>4, <2>1
  <2>3. 2^e \in Nat
    BY <2>1, PowerPositive
  <2> QED
    BY <2>2, <2>3
<1>6. DepthOf(n) \in 0..n /\ 2^DepthOf(n) >= n /\ \A e \in 0..(DepthOf(n) - 1) : 2^e < n
  BY <1>1, <1>5 DEF DepthOf
<1> QED
  BY <1>6

(* More leaves do not make the tree less deep. *)
LEMMA DepthMonotone ==
  ASSUME NEW m \in Nat, NEW n \in Nat, m <= n
  PROVE  DepthOf(m) <= DepthOf(n)
<1> SUFFICES ASSUME ~(DepthOf(m) <= DepthOf(n)) PROVE FALSE
  OBVIOUS
<1>1. DepthOf(m) \in Nat /\ DepthOf(n) \in Nat /\ 2^DepthOf(n) >= n
  BY DepthBounds
<1>2. DepthOf(n) \in 0..(DepthOf(m) - 1)
  BY <1>1
<1>3. 2^DepthOf(n) < m
  BY <1>2, DepthBounds
<1>4. 2^DepthOf(n) \in Nat
  BY <1>1, PowerPositive
<1> QED
  BY <1>1, <1>3, <1>4

-------------------------------------------------------------------------------
(* The reference tree *)

(* Row h of the tree over some leaves, from the row below it. *)
Row(h, below, leaves, top) ==
  [i \in 0..(2^(top - h) - 1) |->
     IF i * 2^h >= Len(leaves) THEN KeccakEmpty
     ELSE IF h = 0 THEN leaves[i + 1]
     ELSE CombineHash(below[2 * i], below[2 * i + 1])]

HasRows(r, leaves, top, n) == r = [h \in 0..n |-> Row(h, r[h - 1], leaves, top)]

(* The rows can be built one above the other. *)
LEMMA RowsExist ==
  ASSUME NEW leaves, NEW top \in Nat
  PROVE  \E r : HasRows(r, leaves, top, top)
<1>1. PICK S : S = {n \in 0..top : \E r : HasRows(r, leaves, top, n)}
  OBVIOUS
<1>2. 0 \in S
  <2>1. PICK r : r = [h \in 0..0 |-> Row(0, 0, leaves, top)]
    OBVIOUS
  <2>2. \A x : Row(0, x, leaves, top) = Row(0, 0, leaves, top)
    BY DEF Row
  <2>3. HasRows(r, leaves, top, 0)
    BY <2>1, <2>2 DEF HasRows
  <2> QED
    BY <1>1, <2>3
<1>3. ASSUME NEW n \in 1..top, n - 1 \in S
      PROVE  n \in S
  <2>1. PICK r : HasRows(r, leaves, top, n - 1)
    BY <1>1, <1>3
  <2>2. r = [h \in 0..(n - 1) |-> Row(h, r[h - 1], leaves, top)]
    BY <2>1 DEF HasRows
  <2>3. PICK s : s = [h \in 0..n |-> IF h = n THEN Row(n, r[n - 1], leaves, top) ELSE r[h]]
    OBVIOUS
  <2>4. \A h \in 0..(n - 1) : s[h] = r[h]
    BY <2>3
  <2>5. ASSUME NEW h \in 0..n
        PROVE  s[h] = Row(h, s[h - 1], leaves, top)
    <3>1. CASE h = n
      <4>1. s[n - 1] = r[n - 1]
        BY <2>4
      <4> QED
        BY <2>3, <3>1, <4>1
    <3>2. CASE h # n /\ h # 0
      <4>1. h \in 0..(n - 1) /\ h - 1 \in 0..(n - 1)
        BY <3>2
      <4>2. s[h] = r[h] /\ s[h - 1] = r[h - 1]
        BY <2>4, <4>1
      <4>3. r[h] = Row(h, r[h - 1], leaves, top)
        BY <2>2, <4>1, Zenon
      <4> QED
        BY <4>2, <4>3, Zenon
    <3>3. CASE h # n /\ h = 0
      <4>1. h \in 0..(n - 1)
        BY <3>3
      <4>2. s[h] = r[h] /\ r[h] = Row(h, r[h - 1], leaves, top)
        BY <2>2, <2>4, <4>1, Zenon
      <4>3. \A x, y : Row(0, x, leaves, top) = Row(0, y, leaves, top)
        BY DEF Row
      <4> QED
        BY <3>3, <4>2, <4>3, Zenon
    <3> QED
      BY <3>1, <3>2, <3>3
  <2>6. s = [h \in 0..n |-> s[h]]
    BY <2>3
  <2>7. HasRows(s, leaves, top, n)
    BY <2>5, <2>6 DEF HasRows
  <2> QED
    BY <1>1, <2>7
<1>4. \A j \in 0..top : j \in S
  BY <1>2, <1>3, InductionTo
<1> QED
  BY <1>1, <1>4

(* ReferenceNodes has them. *)
LEMMA ReferenceRows ==
  ASSUME NEW leaves, Len(leaves) \in Nat,
         NEW top, top = DepthOf(Len(leaves)),
         NEW h \in 0..top
  PROVE  ReferenceNodes(leaves)[h] = Row(h, ReferenceNodes(leaves)[h - 1], leaves, top)
<1> DEFINE F(x) == [k \in 0..top |->
                      [i \in 0..(2^(top - k) - 1) |->
                         IF i * 2^k >= Len(leaves) THEN KeccakEmpty
                         ELSE IF k = 0 THEN leaves[i + 1]
                         ELSE CombineHash(x[k - 1][2 * i], x[k - 1][2 * i + 1])]]
<1>1. top \in Nat
  BY DepthBounds
<1>2. \A x : F(x) = [k \in 0..top |-> Row(k, x[k - 1], leaves, top)]
  BY DEF Row
<1>3. PICK r : HasRows(r, leaves, top, top)
  BY <1>1, RowsExist
<1>4. r = F(r)
  BY <1>2, <1>3 DEF HasRows
<1>5. PICK c : c = CHOOSE x : x = F(x)
  OBVIOUS
<1>6. c = F(c)
  BY <1>4, <1>5
<1>7. ReferenceNodes(leaves) = c
  BY <1>5 DEF ReferenceNodes
<1> HIDE DEF F
<1>8. c = [k \in 0..top |-> Row(k, c[k - 1], leaves, top)]
  BY <1>2, <1>6, Zenon
<1> QED
  BY <1>7, <1>8, Zenon

-------------------------------------------------------------------------------
(* Nodes of the reference tree *)

(* The leaves of an epoch are hashes of leaves. *)
LEMMA LeavesType ==
  ASSUME NEW leaves \in Leaves
  PROVE  /\ Len(leaves) \in 0..MaxLeaves /\ Len(leaves) \in Nat
         /\ DOMAIN leaves = 1..Len(leaves)
         /\ \A i \in 1..Len(leaves) : \E x \in LeafData : leaves[i] = LeafHash(x)
<1>1. PICK n \in 0..MaxLeaves : leaves \in [1..n -> {LeafHash(x) : x \in LeafData}]
  BY DEF Leaves
<1>2. n \in Nat
  BY <1>1, MerkleConstants
<1>3. Len(leaves) = n
  BY <1>1, <1>2
<1> QED
  BY <1>1, <1>2, <1>3

(* The hashes of leaves, of nodes, of the padding and the default are told apart. *)
LEMMA HashesDiffer ==
  /\ KeccakEmpty # ZeroHash
  /\ \A x : LeafHash(x) # KeccakEmpty /\ LeafHash(x) # ZeroHash
  /\ \A a, b : CombineHash(a, b) # KeccakEmpty /\ CombineHash(a, b) # ZeroHash
  /\ \A a, b, c, d : CombineHash(a, b) = CombineHash(c, d) <=> a = c /\ b = d
  BY DEF KeccakEmpty, ZeroHash, LeafHash, CombineHash

(* A node is the padding if no leaf is below it, and otherwise a leaf or the hash of
   its children. *)
LEMMA ReferenceNode ==
  ASSUME NEW leaves \in Leaves,
         NEW top, top = DepthOf(Len(leaves)),
         NEW h \in 0..top, NEW i \in 0..(2^(top - h) - 1),
         NEW ref, ref = ReferenceNodes(leaves)
  PROVE  /\ i * 2^h >= Len(leaves) => ref[h][i] = KeccakEmpty
         /\ ~(i * 2^h >= Len(leaves)) =>
              /\ h = 0 => ref[h][i] = leaves[i + 1]
              /\ h # 0 => ref[h][i] = CombineHash(ref[h - 1][2 * i], ref[h - 1][2 * i + 1])
<1>1. Len(leaves) \in Nat
  BY LeavesType
<1>2. ref[h] = Row(h, ref[h - 1], leaves, top)
  BY <1>1, ReferenceRows
<1> QED
  BY <1>2 DEF Row

(* A node above leaves is the hash of its children. *)
LEMMA ReferenceInner ==
  ASSUME NEW leaves \in Leaves,
         NEW h \in 1..DepthOf(Len(leaves)), NEW i \in 0..(2^(DepthOf(Len(leaves)) - h) - 1),
         ~(i * 2^h >= Len(leaves))
  PROVE  ReferenceNodes(leaves)[h][i] =
           CombineHash(ReferenceNodes(leaves)[h - 1][2 * i], ReferenceNodes(leaves)[h - 1][2 * i + 1])
<1>1. Len(leaves) \in Nat
  BY LeavesType
<1>2. PICK top \in Nat : top = DepthOf(Len(leaves))
  BY <1>1, DepthBounds
<1>3. h \in 0..top /\ h # 0
  BY <1>2
<1>4. ReferenceNodes(leaves)[h] = Row(h, ReferenceNodes(leaves)[h - 1], leaves, top)
  BY <1>1, <1>2, <1>3, ReferenceRows
<1>5. i \in 0..(2^(top - h) - 1)
  BY <1>2
<1> QED
  BY <1>3, <1>4, <1>5 DEF Row

(* The lowest row begins with the leaves. *)
LEMMA ReferenceLeaf ==
  ASSUME NEW leaves \in Leaves, NEW i \in Nat, i < Len(leaves)
  PROVE  ReferenceNodes(leaves)[0][i] = leaves[i + 1]
<1>1. Len(leaves) \in Nat
  BY LeavesType
<1>2. PICK top \in Nat : top = DepthOf(Len(leaves)) /\ 2^top >= Len(leaves)
  BY <1>1, DepthBounds
<1>3. 0 \in 0..top /\ top - 0 = top /\ 2^top \in Nat
  BY PowerPositive
<1>4. ReferenceNodes(leaves)[0] = Row(0, ReferenceNodes(leaves)[0 - 1], leaves, top)
  BY <1>1, <1>2, <1>3, ReferenceRows
<1>5. i \in 0..(2^(top - 0) - 1)
  BY <1>1, <1>2, <1>3
<1>6. ~(i * 2^0 >= Len(leaves))
  BY <1>1, PowerZero
<1> QED
  BY <1>4, <1>5, <1>6 DEF Row

(* Only padding hashes to KECCAK_EMPTY, and nothing to the default. *)
LEMMA ReferenceKind ==
  ASSUME NEW leaves \in Leaves,
         NEW top, top = DepthOf(Len(leaves)),
         NEW h \in 0..top, NEW i \in 0..(2^(top - h) - 1),
         NEW ref, ref = ReferenceNodes(leaves)
  PROVE  /\ ref[h][i] = KeccakEmpty <=> i * 2^h >= Len(leaves)
         /\ ref[h][i] # ZeroHash
<1>0. /\ i * 2^h >= Len(leaves) => ref[h][i] = KeccakEmpty
      /\ ~(i * 2^h >= Len(leaves)) =>
           /\ h = 0 => ref[h][i] = leaves[i + 1]
           /\ h # 0 => ref[h][i] = CombineHash(ref[h - 1][2 * i], ref[h - 1][2 * i + 1])
  BY ReferenceNode
<1>1. CASE i * 2^h >= Len(leaves)
  BY <1>0, <1>1, HashesDiffer
<1>2. CASE ~(i * 2^h >= Len(leaves)) /\ h # 0
  BY <1>0, <1>2, HashesDiffer
<1>3. CASE ~(i * 2^h >= Len(leaves)) /\ h = 0
  <2>1. Len(leaves) \in Nat /\ top \in Nat
    BY LeavesType, DepthBounds
  <2>2. 2^(top - h) \in Nat
    BY <1>3, <2>1, PowerPositive
  <2>3. i \in Nat
    BY <2>2
  <2>4. i * 2^h = i
    BY <1>3, <2>3, PowerZero
  <2>5. i + 1 \in 1..Len(leaves)
    BY <1>3, <2>1, <2>3, <2>4
  <2>6. PICK x \in LeafData : leaves[i + 1] = LeafHash(x)
    BY <2>5, LeavesType
  <2> QED
    BY <1>0, <1>3, <2>6, HashesDiffer
<1> QED
  BY <1>1, <1>2, <1>3

-------------------------------------------------------------------------------
(* Levels *)

(* A level of w nodes covers n leaves. *)
Width(w, h, n) == w \in Nat /\ \A i \in Nat : i < w <=> i * 2^h < n

(* The level above a level that covers the leaves covers them too. *)
LEMMA WidthAbove ==
  ASSUME NEW w, NEW h \in Nat, NEW n \in Nat, Width(w, h, n),
         NEW v \in Nat, w = 2 * v \/ w = 2 * v - 1
  PROVE  Width(v, h + 1, n)
<1>1. w \in Nat
  BY DEF Width
<1>2. ASSUME NEW i \in Nat
      PROVE  i < v <=> i * 2^(h + 1) < n
  <2>1. PICK p \in Nat : p = 2^h
    BY PowerPositive
  <2>2. 2^(h + 1) = p + p
    BY <2>1, PowerDoubles
  <2>3. 2 * i \in Nat /\ (2 * i) * p = i * (p + p)
    OBVIOUS
  <2>4. 2 * i < w <=> (2 * i) * 2^h < n
    BY <2>3 DEF Width
  <2>5. i < v <=> 2 * i < w
    BY <1>1
  <2> QED
    BY <2>1, <2>2, <2>3, <2>4, <2>5
<1> QED
  BY <1>2 DEF Width

(* A level has no more nodes than positions. *)
LEMMA WidthFits ==
  ASSUME NEW n \in Nat, NEW top \in Nat, n <= 2^top,
         NEW l \in 0..top, NEW w, Width(w, top - l, n)
  PROVE  w <= 2^l
<1> SUFFICES ASSUME ~(w <= 2^l) PROVE FALSE
  OBVIOUS
<1>1. w \in Nat /\ l \in Nat /\ top - l \in Nat /\ l + (top - l) = top
  BY DEF Width
<1>2. 2^l \in Nat /\ 2^top \in Nat
  BY <1>1, PowerPositive
<1>3. 2^l < w
  BY <1>1, <1>2
<1>4. 2^l * 2^(top - l) < n
  BY <1>2, <1>3 DEF Width
<1>5. 2^(l + (top - l)) = 2^l * 2^(top - l)
  BY <1>1, PowerSum
<1>6. 2^top < n
  BY <1>1, <1>4, <1>5
<1> QED
  BY <1>2, <1>6

(* The place of a node is a position of the backend. *)
LEMMA Places ==
  ASSUME NEW leaves \in Leaves,
         NEW top, top = DepthOf(Len(leaves)),
         NEW h \in 0..top, NEW i \in 0..(2^(top - h) - 1)
  PROVE  2^(top - h) + i \in Positions
<1>1. Len(leaves) \in Nat /\ Len(leaves) <= MaxLeaves /\ MaxLeaves \in Nat
  BY LeavesType, MerkleConstants
<1>2. top \in Nat /\ Len(leaves) <= 2^top /\ DepthOf(MaxLeaves) \in Nat /\ top <= DepthOf(MaxLeaves)
  <2>1. top \in Nat /\ 2^top >= Len(leaves) /\ DepthOf(MaxLeaves) \in Nat
    BY <1>1, DepthBounds
  <2>2. 2^top \in Nat
    BY <2>1, PowerPositive
  <2> QED
    BY <1>1, <2>1, <2>2, DepthMonotone
<1>3. PICK q \in Nat : q = top - h /\ q <= top
  BY <1>2
<1>4. PICK p \in Nat : p = 2^q /\ p >= 1
  BY PowerPositive
<1>5. i \in Nat /\ i < p
  BY <1>3, <1>4
<1>6. 2^(q + 1) = p + p
  BY <1>4, PowerDoubles
<1> QED
  <2>1. PICK m \in Nat : m = DepthOf(MaxLeaves) /\ top <= m
    BY <1>2
  <2>a. q <= m
    <3>1. top \in Nat /\ q <= top /\ top <= m
      BY <1>2, <1>3, <2>1
    <3> QED
      BY <3>1
  <2>2. q + 1 \in Nat /\ m + 1 \in Nat /\ q + 1 <= m + 1
    BY <2>a
  <2>3. 2^(q + 1) <= 2^(m + 1) /\ 2^(m + 1) \in Nat
    BY <2>2, PowerMonotone, PowerPositive
  <2>4. p + i \in 1..(2^(m + 1) - 1)
    BY <1>4, <1>5, <1>6, <2>3
  <2> QED
    BY <1>3, <1>4, <2>1, <2>4 DEF Positions

(* A level that is stored takes only places of its own. *)
LEMMA LevelPlaces ==
  ASSUME NEW leaves \in Leaves,
         NEW top, top = DepthOf(Len(leaves)),
         NEW h \in 0..top, NEW i \in 0..(2^(top - h) - 1),
         NEW l \in 0..top, NEW w \in Nat, Width(w, top - l, Len(leaves))
  PROVE  /\ (2^(top - h) + i) - 2^l + 1 \in 1..w <=> h = top - l /\ i < w
         /\ h = top - l => (2^(top - h) + i) - 2^l + 1 = i + 1
<1>1. Len(leaves) \in Nat /\ Len(leaves) <= MaxLeaves /\ MaxLeaves \in Nat
  BY LeavesType, MerkleConstants
<1>2. top \in Nat /\ Len(leaves) <= 2^top /\ DepthOf(MaxLeaves) \in Nat /\ top <= DepthOf(MaxLeaves)
  <2>1. top \in Nat /\ 2^top >= Len(leaves) /\ DepthOf(MaxLeaves) \in Nat
    BY <1>1, DepthBounds
  <2>2. 2^top \in Nat
    BY <2>1, PowerPositive
  <2> QED
    BY <1>1, <2>1, <2>2, DepthMonotone
<1>3. PICK q \in Nat : q = top - h /\ q <= top
  BY <1>2
<1>4. PICK p \in Nat : p = 2^q /\ p >= 1
  BY PowerPositive
<1>5. i \in Nat /\ i < p
  BY <1>3, <1>4
<1>6. 2^(q + 1) = p + p
  BY <1>4, PowerDoubles
<1> QED
  <2>1. w \in Nat /\ l \in Nat
    BY <1>2 DEF Width
  <2>2. w <= 2^l
    BY <1>1, <1>2, WidthFits
  <2>3. PICK r \in Nat : r = 2^l
    BY <2>1, PowerPositive
  <2>4. CASE q = l
    <3>1. p = r /\ h = top - l /\ 2^(top - h) = p
      BY <1>2, <1>3, <1>4, <2>1, <2>3, <2>4
    <3>2. (p + i) - r + 1 = i + 1
      BY <1>5, <3>1
    <3>3. i + 1 \in 1..w <=> i < w
      BY <1>5, <2>1
    <3> QED
      BY <2>3, <3>1, <3>2, <3>3
  <2>5. CASE q > l
    <3>1. l + 1 \in Nat /\ l + 1 <= q
      BY <2>1, <2>5
    <3>2. 2^(l + 1) <= p
      BY <1>4, <3>1, PowerMonotone
    <3>3. 2^(l + 1) = r + r
      BY <2>1, <2>3, PowerDoubles
    <3>4. (p + i) - r + 1 > w
      BY <1>5, <2>1, <2>2, <2>3, <3>2, <3>3
    <3>5. h # top - l
      BY <1>2, <1>3, <2>1, <2>5
    <3> QED
      BY <1>3, <1>4, <1>5, <2>1, <2>3, <3>4, <3>5
  <2>6. CASE q < l
    <3>1. q + 1 \in Nat /\ q + 1 <= l
      BY <2>1, <2>6
    <3>2. 2^(q + 1) <= r
      BY <2>1, <2>3, <3>1, PowerMonotone
    <3>3. (p + i) - r + 1 <= 0
      BY <1>4, <1>5, <1>6, <2>3, <3>2
    <3>4. h # top - l
      BY <1>2, <1>3, <2>1, <2>6
    <3> QED
      BY <1>3, <1>4, <1>5, <2>1, <2>3, <3>3, <3>4
  <2> QED
    BY <1>3, <2>1, <2>4, <2>5, <2>6

-------------------------------------------------------------------------------
(* The inductive invariant: while dump runs, this_level is a row of the reference
   tree without its padding, and the rows below it are stored and no others. *)

(* Row h of the tree over data waits to be stored. *)
Waits(h) == pc = "dump" /\ h >= DepthOf(Len(data)) - level

StoredOK ==
  LET top == DepthOf(Len(data))
      ref == ReferenceNodes(data)
  IN \A h \in 0..top : \A i \in 0..(2^(top - h) - 1) :
       backend[2^(top - h) + i] =
         IF only_root \/ Waits(h) \/ ref[h][i] = KeccakEmpty THEN ZeroHash ELSE ref[h][i]

IsSeq(s) == \E S : s \in Seq(S)

LevelOK ==
  pc = "dump" =>
    LET h == DepthOf(Len(data)) - level
    IN /\ level \in 0..DepthOf(Len(data))
       /\ IsSeq(this_level)
       /\ Width(Len(this_level), h, Len(data))
       /\ \A i \in 1..Len(this_level) : this_level[i] = ReferenceNodes(data)[h][i - 1]

RootOK ==
  pc = "stored" =>
    /\ depth = DepthOf(Len(data))
    /\ data # << >> => root = ReferenceNodes(data)[depth][0]
    /\ data = << >> => root = ZeroHash

MerkleInv ==
  /\ pc \in {"dump", "stored"}
  /\ data \in Leaves
  /\ StoredOK /\ LevelOK /\ RootOK

LEMMA EmptyDepth == DepthOf(0) = 0
<1>1. DepthOf(0) \in 0..0
  BY DepthBounds
<1> QED
  BY <1>1

LEMMA MerkleInit ==
  ASSUME Init
  PROVE  MerkleInv
<1>1. pc = "stored" /\ data = << >> /\ depth = 0 /\ backend = NothingSet /\ root = ZeroHash
  BY DEF Init
<1>2. << >> \in Leaves
  <2>1. 0 \in 0..MaxLeaves
    BY MerkleConstants
  <2>2. << >> \in [1..0 -> {LeafHash(x) : x \in LeafData}]
    OBVIOUS
  <2> QED
    BY <2>1, <2>2 DEF Leaves
<1>3. Len(data) = 0
  BY <1>1
<1>4. StoredOK
  <2>1. PICK top \in Nat : top = DepthOf(Len(data))
    BY <1>3, EmptyDepth
  <2>2. top = 0
    BY <1>3, <2>1, EmptyDepth
  <2>a. \A h \in 0..top : h \in Nat /\ h <= top
    OBVIOUS
  <2>3. ASSUME NEW h \in 0..top, NEW i \in 0..(2^(top - h) - 1)
        PROVE  /\ backend[2^(top - h) + i] = ZeroHash
               /\ ReferenceNodes(data)[h][i] = KeccakEmpty
    <3>1. h = 0 /\ top - h = 0
      <4>1. h \in Nat /\ h <= 0
        BY <2>2, <2>a
      <4>2. h = 0
        BY <4>1
      <4> QED
        BY <2>2, <4>2
    <3>2. i = 0
      <4>1. i \in 0..(2^0 - 1)
        BY <3>1
      <4>2. i \in 0..(1 - 1)
        BY <4>1, PowerZero
      <4> QED
        BY <4>2
    <3>3. 2^(top - h) + i \in Positions
      BY <1>1, <1>2, <2>1, Places
    <3>4. i * 2^h >= Len(data)
      BY <1>3, <3>1, <3>2, PowerZero
    <3>5. ReferenceNodes(data)[h][i] = KeccakEmpty
      BY <1>1, <1>2, <2>1, <3>4, ReferenceKind
    <3> QED
      BY <1>1, <3>3, <3>5 DEF NothingSet
  <2> QED
    BY <2>1, <2>3 DEF StoredOK
<1> QED
  BY <1>1, <1>2, <1>3, <1>4, EmptyDepth DEF MerkleInv, LevelOK, RootOK

-------------------------------------------------------------------------------
(* The steps of dump *)

(* After the nodes of a level are stored, its row waits no longer. *)
LEMMA StoreRow ==
  ASSUME MerkleInv, pc = "dump",
         NEW top, top = DepthOf(Len(data)), NEW ref, ref = ReferenceNodes(data),
         NEW h \in 0..top, NEW i \in 0..(2^(top - h) - 1)
  PROVE  StoreLevel[2^(top - h) + i] =
           IF only_root \/ h > top - level \/ ref[h][i] = KeccakEmpty
             THEN ZeroHash ELSE ref[h][i]
<1>1. data \in Leaves /\ Len(data) \in Nat
  BY LeavesType DEF MerkleInv
<1>2. top \in Nat /\ level \in 0..top /\ level \in Nat
  BY <1>1, DepthBounds DEF MerkleInv, LevelOK
<1>3. PICK w \in Nat : w = Len(this_level) /\ Width(w, top - level, Len(data))
  BY DEF MerkleInv, LevelOK, Width
<1>4. \A j \in 1..w : this_level[j] = ref[top - level][j - 1]
  BY <1>3 DEF MerkleInv, LevelOK
<1>5. PICK p : p = 2^(top - h) + i
  OBVIOUS
<1>6. p \in Positions
  BY <1>1, <1>5, Places
<1>7. /\ p - 2^level + 1 \in 1..w <=> h = top - level /\ i < w
      /\ h = top - level => p - 2^level + 1 = i + 1
  <2>1. /\ (2^(top - h) + i) - 2^level + 1 \in 1..w <=> h = top - level /\ i < w
        /\ h = top - level => (2^(top - h) + i) - 2^level + 1 = i + 1
    <3>1. PICK leaves \in Leaves : leaves = data
      BY <1>1
    <3>2. PICK l \in 0..top : l = level
      BY <1>2
    <3>3. Width(w, top - l, Len(leaves)) /\ top = DepthOf(Len(leaves))
      BY <1>3, <3>1, <3>2
    <3>4. /\ (2^(top - h) + i) - 2^l + 1 \in 1..w <=> h = top - l /\ i < w
          /\ h = top - l => (2^(top - h) + i) - 2^l + 1 = i + 1
      BY <3>3, LevelPlaces
    <3> QED
      BY <3>2, <3>4, Zenon
  <2> QED
    BY <1>5, <2>1, Zenon
<1>8. backend[p] = IF only_root \/ Waits(h) \/ ref[h][i] = KeccakEmpty THEN ZeroHash ELSE ref[h][i]
  BY <1>5 DEF MerkleInv, StoredOK
<1>9. Waits(h) <=> h >= top - level
  BY DEF Waits
<1>10. h \in Int /\ top - level \in Int
  <2>1. h \in Int
    OBVIOUS
  <2>2. top - level \in Int
    BY <1>2
  <2> QED
    BY <2>1, <2>2
<1>11. CASE only_root
  BY <1>5, <1>8, <1>11 DEF StoreLevel
<1>12. CASE ~only_root /\ h = top - level /\ i < w
  <2>1. StoreLevel[p] = this_level[i + 1]
    BY <1>3, <1>6, <1>7, <1>12 DEF StoreLevel
  <2>2. top - h \in Nat
    BY <1>2
  <2>3. 2^(top - h) \in Nat
    BY <2>2, PowerPositive
  <2>4. i \in Nat
    BY <2>3
  <2>5. i + 1 \in 1..w /\ (i + 1) - 1 = i
    BY <1>12, <2>4
  <2>6. this_level[i + 1] = ref[h][i]
    BY <1>4, <1>12, <2>5
  <2>7. i * 2^h < Len(data)
    BY <1>3, <1>12, <2>4 DEF Width
  <2>8. ~(i * 2^h >= Len(data))
    <3>1. h \in Nat
      BY <1>2
    <3>2. 2^h \in Nat
      BY <3>1, PowerPositive
    <3>3. i * 2^h \in Nat
      BY <2>4, <3>2
    <3> QED
      BY <1>1, <2>7, <3>3
  <2>9. ref[h][i] # KeccakEmpty
    BY <1>1, <2>8, ReferenceKind
  <2>10. ~(h > top - level)
    BY <1>10, <1>12
  <2> QED
    BY <1>5, <1>12, <2>1, <2>6, <2>9, <2>10
<1>13. CASE ~only_root /\ h = top - level /\ ~(i < w)
  <2>1. StoreLevel[p] = backend[p]
    BY <1>3, <1>6, <1>7, <1>13 DEF StoreLevel
  <2>2. Waits(h)
    BY <1>9, <1>10, <1>13
  <2>3. backend[p] = ZeroHash
    BY <1>8, <2>2
  <2>4. top - h \in Nat
    BY <1>2
  <2>5. 2^(top - h) \in Nat
    BY <2>4, PowerPositive
  <2>6. i \in Nat
    BY <2>5
  <2>7. ~(i * 2^h < Len(data))
    BY <1>3, <1>13, <2>6 DEF Width
  <2>8. i * 2^h >= Len(data)
    <3>1. h \in Nat
      BY <1>2
    <3>2. 2^h \in Nat
      BY <3>1, PowerPositive
    <3>3. i * 2^h \in Nat
      BY <2>6, <3>2
    <3> QED
      BY <1>1, <2>7, <3>3
  <2>9. ref[h][i] = KeccakEmpty
    BY <1>1, <2>8, ReferenceKind
  <2> QED
    BY <1>5, <2>1, <2>3, <2>9
<1>14. CASE ~only_root /\ h # top - level
  <2>1. StoreLevel[p] = backend[p]
    BY <1>3, <1>6, <1>7, <1>14 DEF StoreLevel
  <2>2. h >= top - level <=> h > top - level
    BY <1>10, <1>14
  <2> QED
    BY <1>5, <1>8, <1>9, <1>14, <2>1, <2>2
<1> QED
  BY <1>11, <1>12, <1>13, <1>14

(* The next level is the next row. *)
LEMMA RowAbove ==
  ASSUME MerkleInv, pc = "dump", level > 0,
         NEW h, h = DepthOf(Len(data)) - level
  PROVE  /\ IsSeq(LevelAbove(this_level))
         /\ Width(Len(LevelAbove(this_level)), h + 1, Len(data))
         /\ \A i \in 1..Len(LevelAbove(this_level)) :
              LevelAbove(this_level)[i] = ReferenceNodes(data)[h + 1][i - 1]
<1>1. data \in Leaves /\ Len(data) \in Nat
  BY LeavesType DEF MerkleInv
<1>2. PICK top \in Nat : top = DepthOf(Len(data)) /\ Len(data) <= 2^top
  BY <1>1, DepthBounds
<1>3. level \in 1..top /\ level \in Nat /\ h \in 0..top /\ h \in Nat /\ h + 1 \in 0..top /\ h + 1 \in Nat
  BY <1>2 DEF MerkleInv, LevelOK
<1>4. PICK w \in Nat : w = Len(this_level) /\ Width(w, h, Len(data))
  BY DEF MerkleInv, LevelOK, Width
<1>5. \A j \in 1..w : this_level[j] = ReferenceNodes(data)[h][j - 1]
  BY <1>4 DEF MerkleInv, LevelOK
<1>6. PICK ref : ref = ReferenceNodes(data)
  OBVIOUS
<1>a. \A a \in 0..top : \A b \in 0..(2^(top - a) - 1) :
        ~(b * 2^a >= Len(data)) =>
          (a # 0 => ref[a][b] = CombineHash(ref[a - 1][2 * b], ref[a - 1][2 * b + 1]))
  BY <1>1, <1>2, <1>6, ReferenceNode
<1>7. PICK nodes : nodes = Padded(this_level)
  OBVIOUS
<1>8. PICK S : this_level \in Seq(S)
  BY DEF MerkleInv, LevelOK, IsSeq
<1>9. PICK v \in Nat : /\ w = 2 * v \/ w = 2 * v - 1
                       /\ Len(nodes) = 2 * v
                       /\ \A j \in 1..w : nodes[j] = this_level[j]
                       /\ w = 2 * v - 1 => nodes[2 * v] = KeccakEmpty
  <2>1. CASE w % 2 = 0
    <3>1. PICK v \in Nat : w = 2 * v
      BY <2>1
    <3>2. nodes = this_level
      BY <1>4, <1>7, <2>1 DEF Padded
    <3>3. w # 2 * v - 1
      BY <3>1
    <3> QED
      BY <1>4, <3>1, <3>2, <3>3
  <2>2. CASE w % 2 # 0
    <3>1. PICK v \in Nat : w = 2 * v - 1
      <4>1. w % 2 = 1
        BY <2>2
      <4>2. w = 2 * (w \div 2) + 1
        BY <4>1
      <4>3. w \div 2 \in Nat
        OBVIOUS
      <4>4. PICK v \in Nat : v = (w \div 2) + 1
        BY <4>3
      <4>5. w = 2 * v - 1
        BY <4>2, <4>3, <4>4
      <4> QED
        BY <4>5
    <3>2. nodes = Append(this_level, KeccakEmpty)
      BY <1>4, <1>7, <2>2 DEF Padded
    <3>3. /\ Len(nodes) = w + 1 /\ nodes[w + 1] = KeccakEmpty
          /\ \A j \in 1..w : nodes[j] = this_level[j]
      BY <1>4, <1>8, <3>2
    <3>4. w + 1 = 2 * v
      BY <3>1
    <3> QED
      BY <3>1, <3>3, <3>4
  <2> QED
    BY <2>1, <2>2
<1>10. Len(nodes) \div 2 = v
  BY <1>9
<1>11. PICK above : above = LevelAbove(this_level)
  OBVIOUS
<1>12. above = [i \in 1..v |-> CombineHash(nodes[2 * i - 1], nodes[2 * i])]
  BY <1>7, <1>10, <1>11 DEF LevelAbove
<1>13. Len(above) = v /\ IsSeq(above)
  <2>1. PICK T : T = {above[i] : i \in 1..v}
    OBVIOUS
  <2>2. above \in [1..v -> T]
    BY <1>12, <2>1
  <2>3. above \in Seq(T)
    BY <2>2
  <2> QED
    BY <2>2, <2>3 DEF IsSeq
<1>14. Width(v, h + 1, Len(data))
  BY <1>1, <1>3, <1>4, <1>9, WidthAbove
<1>15. ASSUME NEW i \in 1..v
       PROVE  above[i] = ref[h + 1][i - 1]
  <2>1. PICK j \in Nat : j = i - 1
    OBVIOUS
  <2>2. j < v /\ i = j + 1
    BY <2>1
  <2>3. j * 2^(h + 1) < Len(data)
    BY <1>14, <2>2 DEF Width
  <2>4. PICK l \in Nat : l = level - 1 /\ level = l + 1 /\ top - (h + 1) = l /\ top - h = l + 1
    BY <1>2, <1>3
  <2>5. PICK q \in Nat : q = 2^l /\ 2^(l + 1) = q + q
    BY PowerPositive, PowerDoubles
  <2>6. v <= q
    <3>1. l \in 0..top /\ top - l = h + 1
      BY <1>3, <2>4
    <3> QED
      BY <1>1, <1>2, <1>14, <2>5, <3>1, WidthFits
  <2>7. j \in 0..(2^l - 1) /\ 2 * j \in 0..(2^(l + 1) - 1) /\ 2 * j + 1 \in 0..(2^(l + 1) - 1)
    BY <2>2, <2>5, <2>6
  <2>8. ref[h + 1][j] = CombineHash(ref[h][2 * j], ref[h][2 * j + 1])
    <3>1. j \in 0..(2^(top - (h + 1)) - 1)
      BY <2>4, <2>7
    <3>2. ~(j * 2^(h + 1) >= Len(data))
      <4>1. 2^(h + 1) \in Nat
        BY <1>3, PowerPositive
      <4>2. j * 2^(h + 1) \in Nat
        BY <4>1
      <4> QED
        BY <1>1, <2>3, <4>2
    <3>3. h + 1 # 0 /\ (h + 1) - 1 = h
      BY <1>3
    <3>4. h + 1 # 0 => ref[h + 1][j] = CombineHash(ref[(h + 1) - 1][2 * j], ref[(h + 1) - 1][2 * j + 1])
      <4>1. h + 1 \in 0..top /\ top = DepthOf(Len(data))
        BY <1>2, <1>3
      <4> QED
        BY <1>a, <3>1, <3>2, <4>1
    <3> QED
      BY <3>3, <3>4
  <2>9. nodes[2 * i - 1] = ref[h][2 * j]
    <3>1. 2 * i - 1 \in 1..w /\ (2 * i - 1) - 1 = 2 * j
      BY <1>9, <2>2
    <3> QED
      BY <1>5, <1>6, <1>9, <3>1
  <2>10. nodes[2 * i] = ref[h][2 * j + 1]
    <3>1. CASE 2 * i <= w
      <4>1. 2 * i \in 1..w /\ 2 * i - 1 = 2 * j + 1
        BY <2>2, <3>1
      <4> QED
        BY <1>5, <1>6, <1>9, <4>1
    <3>2. CASE ~(2 * i <= w)
      <4>1. w = 2 * v - 1 /\ i = v /\ ~(2 * j + 1 < w)
        BY <1>9, <2>2, <3>2
      <4>2. nodes[2 * i] = KeccakEmpty
        BY <1>9, <4>1
      <4>3. ~((2 * j + 1) * 2^h < Len(data))
        BY <1>4, <4>1 DEF Width
      <4>4. (2 * j + 1) * 2^h \in Nat
        <5>1. 2^h \in Nat
          BY <1>3, PowerPositive
        <5> QED
          BY <5>1
      <4>5. (2 * j + 1) * 2^h >= Len(data)
        BY <1>1, <4>3, <4>4
      <4>6. 2 * j + 1 \in 0..(2^(top - h) - 1)
        BY <2>4, <2>7
      <4>7. ref[h][2 * j + 1] = KeccakEmpty
        BY <1>1, <1>2, <1>3, <1>6, <4>5, <4>6, ReferenceKind
      <4> QED
        BY <4>2, <4>7
    <3> QED
      BY <3>1, <3>2
  <2> QED
    BY <1>12, <2>1, <2>8, <2>9, <2>10
<1> QED
  BY <1>6, <1>11, <1>13, <1>14, <1>15

LEMMA DumpBeginStep ==
  ASSUME MerkleInv, NEW leaves \in Leaves, NEW only \in BOOLEAN, DumpBegin(leaves, only)
  PROVE  MerkleInv'
<1>1. /\ pc' = "dump" /\ data' = leaves /\ this_level' = leaves /\ backend' = NothingSet
      /\ level' = DepthOf(Len(leaves))
  BY DEF DumpBegin
<1>2. Len(leaves) \in Nat /\ DOMAIN leaves = 1..Len(leaves)
  BY LeavesType
<1>3. PICK top \in Nat : top = DepthOf(Len(leaves)) /\ 2^top >= Len(leaves)
  BY <1>2, DepthBounds
<1>4. PICK ref : ref = ReferenceNodes(leaves)
  OBVIOUS
<1>5. DepthOf(Len(data))' = top /\ level' = top /\ ReferenceNodes(data)' = ref
  BY <1>1, <1>3, <1>4
<1>6. StoredOK'
  <2>1. ASSUME NEW h \in 0..top, NEW i \in 0..(2^(top - h) - 1)
        PROVE  backend'[2^(top - h) + i] = ZeroHash /\ Waits(h)'
    <3>1. 2^(top - h) + i \in Positions
      BY <1>3, Places
    <3>2. h \in Nat
      OBVIOUS
    <3>3. h >= top - top
      BY <3>2
    <3> QED
      BY <1>1, <1>5, <3>1, <3>3 DEF NothingSet, Waits
  <2> QED
    BY <1>5, <2>1 DEF StoredOK
<1>7. LevelOK'
  <2>1. IsSeq(leaves)
    <3>1. PICK S : S = {leaves[i] : i \in 1..Len(leaves)}
      OBVIOUS
    <3>2. PICK n \in 0..MaxLeaves : leaves \in [1..n -> {LeafHash(x) : x \in LeafData}]
      BY DEF Leaves
    <3>3. n \in Nat
      BY <3>2, MerkleConstants
    <3>4. leaves \in Seq({LeafHash(x) : x \in LeafData})
      BY <3>2, <3>3
    <3> QED
      BY <3>4 DEF IsSeq
  <2>2. Width(Len(leaves), 0, Len(leaves))
    <3>1. \A i \in Nat : i * 2^0 = i
      BY PowerZero
    <3> QED
      BY <1>2, <3>1 DEF Width
  <2>3. ASSUME NEW i \in 1..Len(leaves)
        PROVE  leaves[i] = ref[0][i - 1]
    <3>1. PICK j \in Nat : j = i - 1
      OBVIOUS
    <3>2. j + 1 = i /\ j < Len(leaves)
      BY <1>2, <3>1
    <3>8. ref[0][j] = leaves[j + 1]
      BY <1>4, <3>2, ReferenceLeaf
    <3> QED
      BY <3>1, <3>2, <3>8
  <2>4. top \in 0..top /\ top - top = 0
    OBVIOUS
  <2> QED
    BY <1>1, <1>4, <1>5, <2>1, <2>2, <2>3, <2>4 DEF LevelOK
<1> QED
  BY <1>1, <1>6, <1>7 DEF MerkleInv, RootOK

LEMMA DumpLevelStep ==
  ASSUME MerkleInv, DumpLevel
  PROVE  MerkleInv'
<1>1. /\ pc = "dump" /\ level > 0 /\ UNCHANGED <<pc, data, only_root>>
      /\ backend' = StoreLevel /\ this_level' = LevelAbove(this_level) /\ level' = level - 1
  BY DEF DumpLevel
<1>2. data \in Leaves /\ Len(data) \in Nat
  BY LeavesType DEF MerkleInv
<1>3. PICK top \in Nat : top = DepthOf(Len(data))
  BY <1>2, DepthBounds
<1>4. PICK ref : ref = ReferenceNodes(data)
  OBVIOUS
<1>5. DepthOf(Len(data))' = top /\ ReferenceNodes(data)' = ref
  BY <1>1, <1>3, <1>4
<1>a. \A h \in 0..top : \A i \in 0..(2^(top - h) - 1) :
        StoreLevel[2^(top - h) + i] =
          IF only_root \/ h > top - level \/ ref[h][i] = KeccakEmpty THEN ZeroHash ELSE ref[h][i]
  BY <1>1, <1>3, <1>4, StoreRow
<1>6. PICK l \in 1..top : l = level
  BY <1>1, <1>3 DEF MerkleInv, LevelOK
<1>7. StoredOK'
  <2>1. ASSUME NEW h \in 0..top, NEW i \in 0..(2^(top - h) - 1)
        PROVE  backend'[2^(top - h) + i] =
                 IF only_root \/ Waits(h)' \/ ref[h][i] = KeccakEmpty THEN ZeroHash ELSE ref[h][i]
    <3>1. StoreLevel[2^(top - h) + i] =
            IF only_root \/ h > top - level \/ ref[h][i] = KeccakEmpty THEN ZeroHash ELSE ref[h][i]
      BY <1>a
    <3>2. h > top - l <=> h >= top - (l - 1)
      <4>1. h \in Nat
        OBVIOUS
      <4> QED
        BY <4>1
    <3>3. Waits(h)' <=> h > top - level
      BY <1>1, <1>5, <1>6, <3>2 DEF Waits
    <3> QED
      BY <1>1, <3>1, <3>3
  <2> QED
    BY <1>1, <1>5, <2>1 DEF StoredOK
<1>8. LevelOK'
  <2>1. PICK h \in Nat : h = top - l /\ top - (l - 1) = h + 1 /\ l - 1 \in 0..top
    BY <1>6
  <2>2. /\ IsSeq(LevelAbove(this_level))
        /\ Width(Len(LevelAbove(this_level)), h + 1, Len(data))
        /\ \A i \in 1..Len(LevelAbove(this_level)) :
             LevelAbove(this_level)[i] = ref[h + 1][i - 1]
    BY <1>1, <1>3, <1>4, <1>6, <2>1, RowAbove
  <2> QED
    BY <1>1, <1>4, <1>5, <1>6, <2>1, <2>2 DEF LevelOK
<1> QED
  BY <1>1, <1>2, <1>7, <1>8 DEF MerkleInv, RootOK

LEMMA DumpEndStep ==
  ASSUME MerkleInv, DumpEnd
  PROVE  MerkleInv'
<1>1. /\ pc = "dump" /\ pc' = "stored" /\ level = 0 /\ UNCHANGED <<data, only_root, level>>
      /\ backend' = StoreLevel /\ depth' = DepthOf(Len(data))
      /\ root' = IF this_level = << >> THEN ZeroHash ELSE this_level[Len(this_level)]
  BY DEF DumpEnd
<1>2. data \in Leaves /\ Len(data) \in Nat
  BY LeavesType DEF MerkleInv
<1>3. PICK top \in Nat : top = DepthOf(Len(data)) /\ 2^top >= Len(data)
  BY <1>2, DepthBounds
<1>4. PICK ref : ref = ReferenceNodes(data)
  OBVIOUS
<1>5. DepthOf(Len(data))' = top /\ ReferenceNodes(data)' = ref
  BY <1>1, <1>3, <1>4
<1>a. \A h \in 0..top : \A i \in 0..(2^(top - h) - 1) :
        StoreLevel[2^(top - h) + i] =
          IF only_root \/ h > top - level \/ ref[h][i] = KeccakEmpty THEN ZeroHash ELSE ref[h][i]
  BY <1>1, <1>3, <1>4, StoreRow
<1>6. StoredOK'
  <2>1. ASSUME NEW h \in 0..top, NEW i \in 0..(2^(top - h) - 1)
        PROVE  backend'[2^(top - h) + i] =
                 IF only_root \/ Waits(h)' \/ ref[h][i] = KeccakEmpty THEN ZeroHash ELSE ref[h][i]
    <3>1. StoreLevel[2^(top - h) + i] =
            IF only_root \/ h > top - level \/ ref[h][i] = KeccakEmpty THEN ZeroHash ELSE ref[h][i]
      BY <1>a
    <3>2. ~(h > top - 0)
      <4>1. h \in Nat /\ h <= top
        OBVIOUS
      <4> QED
        BY <4>1
    <3>3. ~Waits(h)'
      BY <1>1 DEF Waits
    <3> QED
      BY <1>1, <3>1, <3>2, <3>3
  <2> QED
    BY <1>1, <1>5, <2>1 DEF StoredOK
<1>7. ASSUME data # << >>
      PROVE  root' = ref[top][0]
  <2>1. PICK w \in Nat : /\ w = Len(this_level) /\ Width(w, top - 0, Len(data))
                         /\ \A i \in 1..w : this_level[i] = ref[top - 0][i - 1]
    BY <1>1, <1>3, <1>4 DEF MerkleInv, LevelOK, Width
  <2>2. Len(data) > 0
    <3>1. PICK n \in 0..MaxLeaves : data \in [1..n -> {LeafHash(x) : x \in LeafData}]
      BY <1>2 DEF Leaves
    <3>2. n \in Nat /\ Len(data) = n
      BY <3>1, MerkleConstants
    <3>3. n # 0
      BY <1>7, <3>1
    <3> QED
      BY <3>2, <3>3
  <2>3. 0 < w
    <3>1. 2^(top - 0) \in Nat
      BY PowerPositive
    <3>2. 0 * 2^(top - 0) = 0
      BY <3>1
    <3> QED
      BY <1>2, <2>1, <2>2, <3>2 DEF Width
  <2>4. w <= 2^0
    <3>1. 0 \in 0..top
      OBVIOUS
    <3>2. 2^top \in Nat
      BY PowerPositive
    <3>3. Len(data) <= 2^top
      BY <1>2, <1>3, <3>2
    <3> QED
      BY <1>2, <2>1, <3>1, <3>3, WidthFits
  <2>5. w = 1
    BY <2>3, <2>4, PowerZero
  <2>6. this_level # << >>
    <3>1. this_level = << >> => Len(this_level) = 0
      OBVIOUS
    <3> QED
      BY <2>1, <2>5, <3>1
  <2>7. top - 0 = top /\ 1 \in 1..w /\ 1 - 1 = 0
    BY <2>5
  <2> QED
    BY <1>1, <2>1, <2>5, <2>6, <2>7
<1>8. ASSUME data = << >>
      PROVE  root' = ZeroHash
  <2>1. PICK w \in Nat : w = Len(this_level) /\ Width(w, top - 0, Len(data)) /\ IsSeq(this_level)
    BY <1>1, <1>3, <1>4 DEF MerkleInv, LevelOK, Width
  <2>2. Len(data) = 0
    BY <1>8
  <2>3. w = 0
    <3>1. 2^(top - 0) \in Nat
      BY PowerPositive
    <3>2. 0 * 2^(top - 0) = 0
      BY <3>1
    <3> QED
      BY <2>1, <2>2, <3>2 DEF Width
  <2>4. this_level = << >>
    <3>1. PICK S : this_level \in Seq(S)
      BY <2>1 DEF IsSeq
    <3>2. \A s \in Seq(S) : Len(s) = 0 => s = << >>
      OBVIOUS
    <3> QED
      BY <2>1, <2>3, <3>1, <3>2
  <2> QED
    BY <1>1, <2>4
<1> QED
  BY <1>1, <1>2, <1>3, <1>5, <1>6, <1>7, <1>8 DEF MerkleInv, LevelOK, RootOK

(* The inductive invariant of dump. *)
THEOREM MerkleInductive == Spec => []MerkleInv
<1>1. Init => MerkleInv
  BY MerkleInit
<1>2. MerkleInv /\ [Next]_vars => MerkleInv'
  <2> SUFFICES ASSUME MerkleInv, [Next]_vars PROVE MerkleInv'
    OBVIOUS
  <2>1. CASE \E leaves \in Leaves, only \in BOOLEAN : DumpBegin(leaves, only)
    BY <2>1, DumpBeginStep
  <2>2. CASE DumpLevel
    BY <2>2, DumpLevelStep
  <2>3. CASE DumpEnd
    BY <2>3, DumpEndStep
  <2>4. CASE UNCHANGED vars
    BY <2>4 DEF vars, MerkleInv, StoredOK, LevelOK, RootOK, Waits
  <2> QED
    BY <2>1, <2>2, <2>3, <2>4 DEF Next
<1> QED
  BY <1>1, <1>2, PTL DEF Spec

(* For every number of leaves, dump returns the root of the recursive definition and
   stores each of its nodes, and only those, at its place. *)
THEOREM DumpIsExact == Spec => []DumpIsReference
<1>1. MerkleInv => DumpIsReference
  <2> SUFFICES ASSUME MerkleInv, pc = "stored" PROVE DumpIsReference
    BY DEF DumpIsReference
  <2>1. depth = DepthOf(Len(data)) /\ \A h : ~Waits(h)
    BY DEF MerkleInv, RootOK, Waits
  <2> QED
    BY <2>1 DEF MerkleInv, StoredOK, RootOK, DumpIsReference
<1> QED
  BY <1>1, MerkleInductive, PTL

-------------------------------------------------------------------------------
(* Proofs that are read back *)

(* One step of verify, to height j. *)
StepUp(below, path, position, j) ==
  IF (position \div 2^(j - 1)) % 2 = 0
    THEN CombineHash(below, path[j])
    ELSE CombineHash(path[j], below)

Climbs(up, hash, path, position, n) ==
  up = [j \in 0..n |-> IF j = 0 THEN hash ELSE StepUp(up[j - 1], path, position, j)]

(* The hashes on the way up can be computed one after the other. *)
LEMMA ClimbExists ==
  ASSUME NEW hash, NEW path, NEW position, NEW l \in Nat
  PROVE  \E up : Climbs(up, hash, path, position, l)
<1>1. PICK S : S = {n \in 0..l : \E up : Climbs(up, hash, path, position, n)}
  OBVIOUS
<1>2. 0 \in S
  <2>1. PICK up : up = [j \in 0..0 |-> hash]
    OBVIOUS
  <2>2. \A j \in 0..0 : j = 0
    OBVIOUS
  <2>3. Climbs(up, hash, path, position, 0)
    BY <2>1, <2>2 DEF Climbs
  <2> QED
    BY <1>1, <2>3
<1>3. ASSUME NEW n \in 1..l, n - 1 \in S
      PROVE  n \in S
  <2>1. PICK r : Climbs(r, hash, path, position, n - 1)
    BY <1>1, <1>3
  <2>2. r = [j \in 0..(n - 1) |-> IF j = 0 THEN hash ELSE StepUp(r[j - 1], path, position, j)]
    BY <2>1 DEF Climbs
  <2>3. PICK s : s = [j \in 0..n |-> IF j = n THEN StepUp(r[n - 1], path, position, n) ELSE r[j]]
    OBVIOUS
  <2>4. \A j \in 0..(n - 1) : s[j] = r[j]
    BY <2>3
  <2>5. ASSUME NEW j \in 0..n
        PROVE  s[j] = IF j = 0 THEN hash ELSE StepUp(s[j - 1], path, position, j)
    <3>1. CASE j = n
      <4>1. s[n - 1] = r[n - 1] /\ n # 0
        BY <2>4
      <4> QED
        BY <2>3, <3>1, <4>1
    <3>2. CASE j # n /\ j # 0
      <4>1. j \in 0..(n - 1) /\ j - 1 \in 0..(n - 1)
        BY <3>2
      <4>2. s[j] = r[j] /\ s[j - 1] = r[j - 1]
        BY <2>4, <4>1
      <4>3. r[j] = StepUp(r[j - 1], path, position, j)
        BY <2>2, <3>2, <4>1, Zenon
      <4> QED
        BY <3>2, <4>2, <4>3, Zenon
    <3>3. CASE j # n /\ j = 0
      <4>1. 0 \in 0..(n - 1)
        BY <3>3
      <4>2. s[0] = r[0] /\ r[0] = hash
        BY <2>2, <2>4, <4>1, Zenon
      <4> QED
        BY <3>3, <4>2, Zenon
    <3> QED
      BY <3>1, <3>2, <3>3
  <2>6. s = [j \in 0..n |-> s[j]]
    BY <2>3
  <2>7. Climbs(s, hash, path, position, n)
    BY <2>5, <2>6 DEF Climbs
  <2> QED
    BY <1>1, <2>7
<1>4. \A j \in 0..l : j \in S
  BY <1>2, <1>3, InductionTo
<1> QED
  BY <1>1, <1>4

(* up holds the hashes that verify meets. *)
WayUp(up, hash, path, position, l) ==
  /\ Climb(hash, path, position) = up[l]
  /\ up[0] = hash
  /\ \A j \in 1..l : up[j] = StepUp(up[j - 1], path, position, j)

LEMMA ClimbSteps ==
  ASSUME NEW hash, NEW path, NEW position, NEW l \in Nat, Len(path) = l
  PROVE  \E up : WayUp(up, hash, path, position, l)
<1> DEFINE F(x) == [j \in 0..Len(path) |->
                      IF j = 0 THEN hash
                      ELSE IF (position \div 2^(j - 1)) % 2 = 0
                        THEN CombineHash(x[j - 1], path[j])
                        ELSE CombineHash(path[j], x[j - 1])]
<1>1. \A x : F(x) = [j \in 0..l |-> IF j = 0 THEN hash ELSE StepUp(x[j - 1], path, position, j)]
  BY DEF StepUp
<1>2. PICK r : Climbs(r, hash, path, position, l)
  BY ClimbExists
<1>3. r = F(r)
  BY <1>1, <1>2 DEF Climbs
<1>4. PICK up : up = CHOOSE x : x = F(x)
  OBVIOUS
<1>5. up = F(up)
  BY <1>3, <1>4
<1>6. Climb(hash, path, position) = up[l]
  BY <1>4 DEF Climb
<1> HIDE DEF F
<1>7. up = [j \in 0..l |-> IF j = 0 THEN hash ELSE StepUp(up[j - 1], path, position, j)]
  BY <1>1, <1>5, Zenon
<1>8. up[0] = hash
  <2>1. 0 \in 0..l
    OBVIOUS
  <2> QED
    BY <1>7, <2>1, Zenon
<1>9. ASSUME NEW j \in 1..l
      PROVE  up[j] = StepUp(up[j - 1], path, position, j)
  <2>1. j \in 0..l /\ j # 0
    OBVIOUS
  <2> QED
    BY <1>7, <2>1, Zenon
<1> QED
  BY <1>6, <1>8, <1>9 DEF WayUp

(* The sibling of the node at index a of its row. *)
SiblingOf(a) == IF a % 2 = 0 THEN a + 1 ELSE a - 1

(* The node on the way of a position at the next height, its children, and whether it
   has leaves below it. *)
LEMMA WayOfPosition ==
  ASSUME NEW top \in Nat, NEW p \in 0..(2^top - 1), NEW j \in 1..top
  PROVE  \E a, b \in Nat :
           /\ a = p \div 2^(j - 1) /\ b = p \div 2^j
           /\ a \in 0..(2^(top - (j - 1)) - 1)
           /\ SiblingOf(a) \in 0..(2^(top - (j - 1)) - 1)
           /\ b \in 0..(2^(top - j) - 1)
           /\ a % 2 = 0 => a = 2 * b /\ SiblingOf(a) = 2 * b + 1
           /\ a % 2 # 0 => a = 2 * b + 1 /\ SiblingOf(a) = 2 * b
<1>0. PICK a, b : a = p \div 2^(j - 1) /\ b = p \div 2^j
  OBVIOUS
<1>1. PICK i \in Nat : i = j - 1 /\ j = i + 1 /\ i \in 0..top
  OBVIOUS
<1>2. PICK m \in Nat : m = 2^i /\ m > 0 /\ 2^j = m + m
  <2>1. 2^(i + 1) = 2^i + 2^i /\ 2^i \in Nat /\ 2^i >= 1
    BY PowerDoubles, PowerPositive
  <2> QED
    BY <1>1, <2>1
<1>3. p \in Nat
  <2>1. 2^top \in Nat
    BY PowerPositive
  <2> QED
    BY <2>1
<1>4. p < 2^top /\ 2^top \in Nat
  <2>1. 2^top \in Nat
    BY PowerPositive
  <2> QED
    BY <2>1
<1>5. a \in Nat /\ p % m \in Nat /\ p % m < m /\ p = m * a + (p % m)
  BY <1>0, <1>1, <1>2, <1>3, DivMod
<1>6. b = a \div 2
  <2>1. p \div (m + m) = (p \div m) \div 2
    BY <1>2, <1>3, DivModDouble
  <2>2. b = p \div (m + m) /\ a = p \div m
    BY <1>0, <1>1, <1>2
  <2> QED
    BY <2>1, <2>2
<1>7. b \in Nat /\ (a % 2 = 0 => a = 2 * b) /\ (a % 2 # 0 => a = 2 * b + 1)
  BY <1>5, <1>6
<1>8. PICK k \in Nat : k = top - j /\ top - (j - 1) = k + 1 /\ top = i + (k + 1)
  BY <1>1
<1>9. PICK q \in Nat : q = 2^k /\ 2^(k + 1) = q + q
  BY PowerPositive, PowerDoubles
<1>10. 2^top = m * (q + q)
  <2>1. 2^(i + (k + 1)) = 2^i * 2^(k + 1)
    BY <1>8, PowerSum
  <2> QED
    BY <1>2, <1>8, <1>9, <2>1
<1>11. a < q + q
  <2> SUFFICES ASSUME q + q <= a PROVE FALSE
    BY <1>5
  <2>1. m * (q + q) <= m * a
    BY <1>5
  <2>2. m * (q + q) \in Nat /\ m * a \in Nat
    BY <1>5
  <2>3. m * a <= p
    BY <1>3, <1>5, <2>2
  <2> QED
    BY <1>3, <1>4, <1>10, <2>1, <2>2, <2>3
<1>12. b < q
  BY <1>5, <1>7, <1>11
<1>13. a \in 0..((q + q) - 1) /\ b \in 0..(q - 1) /\ 2 * b \in 0..((q + q) - 1) /\ 2 * b + 1 \in 0..((q + q) - 1)
  BY <1>5, <1>7, <1>11, <1>12
<1>14. /\ a % 2 = 0 => SiblingOf(a) = 2 * b + 1
       /\ a % 2 # 0 => SiblingOf(a) = 2 * b
  BY <1>7 DEF SiblingOf
<1>15. /\ a \in 0..(2^(top - (j - 1)) - 1)
       /\ SiblingOf(a) \in 0..(2^(top - (j - 1)) - 1)
       /\ b \in 0..(2^(top - j) - 1)
  <2>1. 2^(top - (j - 1)) = q + q /\ 2^(top - j) = q
    BY <1>8, <1>9
  <2>2. SiblingOf(a) = 2 * b + 1 \/ SiblingOf(a) = 2 * b
    BY <1>14
  <2>3. a \in 0..((q + q) - 1) /\ b \in 0..(q - 1) /\ SiblingOf(a) \in 0..((q + q) - 1)
    BY <1>13, <2>2
  <2> QED
    BY <2>1, <2>3
<1> QED
  BY <1>0, <1>5, <1>7, <1>14, <1>15

(* prove reads the sibling of the node on the way from each row. *)
LEMMA ProveReads ==
  ASSUME MerkleInv, pc = "stored", ~only_root,
         NEW top \in Nat, top = depth,
         NEW ref, ref = ReferenceNodes(data),
         NEW p \in 0..(2^top - 1), NEW j \in 1..top
  PROVE  Prove(p)[j] = ref[j - 1][SiblingOf(p \div 2^(j - 1))]
<1>1. data \in Leaves /\ top = DepthOf(Len(data))
  BY DEF MerkleInv, RootOK
<1>2. PICK i : i = SiblingOf(p \div 2^(j - 1))
  OBVIOUS
<1>3. i \in 0..(2^(top - (j - 1)) - 1)
  <2>1. PICK a \in Nat : /\ a = p \div 2^(j - 1)
                         /\ SiblingOf(a) \in 0..(2^(top - (j - 1)) - 1)
    BY WayOfPosition
  <2> QED
    BY <1>2, <2>1
<1>4. j - 1 \in 0..top /\ top - j + 1 = top - (j - 1)
  OBVIOUS
<1>5. PICK h \in 0..top : h = j - 1
  BY <1>4
<1>6. backend[2^(top - h) + i] = IF ref[h][i] = KeccakEmpty THEN ZeroHash ELSE ref[h][i]
  BY <1>1, <1>3, <1>5 DEF MerkleInv, StoredOK, Waits
<1>7. ref[h][i] # ZeroHash
  <2>1. PICK leaves \in Leaves : leaves = data
    BY <1>1
  <2>2. top = DepthOf(Len(leaves)) /\ ref = ReferenceNodes(leaves) /\ i \in 0..(2^(top - h) - 1)
    BY <1>1, <1>3, <1>5, <2>1
  <2> QED
    BY <2>2, ReferenceKind
<1>8. Prove(p)[j] = IF backend[2^(top - j + 1) + i] = ZeroHash THEN KeccakEmpty
                    ELSE backend[2^(top - j + 1) + i]
  BY <1>2 DEF Prove, SiblingOf
<1>9. Prove(p)[j] = IF backend[2^(top - h) + i] = ZeroHash THEN KeccakEmpty
                    ELSE backend[2^(top - h) + i]
  BY <1>4, <1>5, <1>8
<1>10. Prove(p)[j] = ref[h][i]
  BY <1>6, <1>7, <1>9, HashesDiffer
<1> QED
  BY <1>2, <1>5, <1>10

(* If the hash at some height on the way up is the node there, so it was one height
   below, and conversely. *)
LEMMA ClimbStep ==
  ASSUME NEW leaves \in Leaves, NEW top \in Nat, top = DepthOf(Len(leaves)),
         NEW ref, ref = ReferenceNodes(leaves),
         NEW p \in 0..(2^top - 1), NEW j \in 1..top,
         NEW path, path[j] = ref[j - 1][SiblingOf(p \div 2^(j - 1))],
         NEW below, below # KeccakEmpty
  PROVE  StepUp(below, path, p, j) = ref[j][p \div 2^j] <=> below = ref[j - 1][p \div 2^(j - 1)]
<1>1. PICK a, b \in Nat :
        /\ a = p \div 2^(j - 1) /\ b = p \div 2^j
        /\ a \in 0..(2^(top - (j - 1)) - 1)
        /\ SiblingOf(a) \in 0..(2^(top - (j - 1)) - 1)
        /\ b \in 0..(2^(top - j) - 1)
        /\ a % 2 = 0 => a = 2 * b /\ SiblingOf(a) = 2 * b + 1
        /\ a % 2 # 0 => a = 2 * b + 1 /\ SiblingOf(a) = 2 * b
  BY WayOfPosition
<1>2. /\ a \in 0..(2^(top - (j - 1)) - 1) /\ b \in 0..(2^(top - j) - 1)
      /\ a % 2 = 0 => a = 2 * b /\ SiblingOf(a) = 2 * b + 1
      /\ a % 2 # 0 => a = 2 * b + 1 /\ SiblingOf(a) = 2 * b
  BY <1>1
<1>3. j \in 0..top /\ j - 1 \in 0..top /\ j # 0
  OBVIOUS
<1>4. Len(leaves) \in Nat
  BY LeavesType
<1>5. CASE b * 2^j >= Len(leaves)
  <2>1. ref[j][b] = KeccakEmpty
    BY <1>2, <1>3, <1>5, ReferenceKind
  <2>2. StepUp(below, path, p, j) # KeccakEmpty
    BY HashesDiffer DEF StepUp
  <2>3. PICK i \in Nat : i = j - 1 /\ j = i + 1
    BY <1>3
  <2>4. PICK m \in Nat : m = 2^i /\ 2^j = m + m
    BY <2>3, PowerPositive, PowerDoubles
  <2>5. b * (m + m) = (2 * b) * m /\ (2 * b) * m \in Nat /\ (2 * b + 1) * m = (2 * b) * m + m
    BY <1>2
  <2>6. a * m >= Len(leaves)
    <3>1. a = 2 * b \/ a = 2 * b + 1
      BY <1>2
    <3>2. (2 * b) * m >= Len(leaves)
      BY <1>5, <2>4, <2>5
    <3>3. (2 * b + 1) * m >= Len(leaves)
      BY <1>4, <2>5, <3>2
    <3> QED
      BY <3>1, <3>2, <3>3
  <2>7. ref[j - 1][a] = KeccakEmpty
    <3>1. a * 2^(j - 1) >= Len(leaves)
      BY <2>3, <2>4, <2>6
    <3> QED
      BY <1>2, <1>3, <3>1, ReferenceKind
  <2> QED
    BY <1>1, <2>1, <2>2, <2>7
<1>6. CASE ~(b * 2^j >= Len(leaves))
  <2>1. ref[j][b] = CombineHash(ref[j - 1][2 * b], ref[j - 1][2 * b + 1])
    <3>1. top = DepthOf(Len(leaves)) /\ j \in 1..DepthOf(Len(leaves))
      OBVIOUS
    <3>2. b \in 0..(2^(DepthOf(Len(leaves)) - j) - 1)
      BY <1>2, <3>1
    <3> QED
      BY <1>6, <3>1, <3>2, ReferenceInner
  <2>2. CASE a % 2 = 0
    <3>a. path[j] = ref[j - 1][2 * b + 1]
      BY <1>1, <1>2, <2>2, Zenon
    <3>1. StepUp(below, path, p, j) = CombineHash(below, ref[j - 1][2 * b + 1])
      BY <1>1, <2>2, <3>a, Zenon DEF StepUp
    <3>2. a = 2 * b
      BY <1>2, <2>2
    <3>3. StepUp(below, path, p, j) = ref[j][b] <=> below = ref[j - 1][2 * b]
      BY <2>1, <3>1, HashesDiffer
    <3> QED
      BY <1>1, <3>2, <3>3
  <2>3. CASE a % 2 # 0
    <3>a. path[j] = ref[j - 1][2 * b]
      BY <1>1, <1>2, <2>3, Zenon
    <3>1. StepUp(below, path, p, j) = CombineHash(ref[j - 1][2 * b], below)
      BY <1>1, <2>3, <3>a, Zenon DEF StepUp
    <3>2. a = 2 * b + 1
      BY <1>2, <2>3
    <3>3. StepUp(below, path, p, j) = ref[j][b] <=> below = ref[j - 1][2 * b + 1]
      BY <2>1, <3>1, HashesDiffer
    <3> QED
      BY <1>1, <3>2, <3>3
  <2> QED
    BY <2>2, <2>3
<1> QED
  BY <1>5, <1>6

(* verify accepts a leaf hash exactly if it is the leaf of the reference tree. *)
LEMMA VerifyExact ==
  ASSUME MerkleInv, pc = "stored", ~only_root,
         NEW p \in 0..(2^depth - 1), NEW x \in LeafData
  PROVE  Verify(root, LeafHash(x), Prove(p), p) <=> p < Len(data) /\ data[p + 1] = LeafHash(x)
<1>1. PICK leaves \in Leaves : leaves = data
  BY DEF MerkleInv
<1>2. Len(leaves) \in Nat
  BY LeavesType
<1>3. PICK top \in Nat : top = DepthOf(Len(leaves)) /\ 2^top >= Len(leaves)
  BY <1>2, DepthBounds
<1>4. depth = top
  BY <1>1, <1>3 DEF MerkleInv, RootOK
<1>5. PICK ref : ref = ReferenceNodes(leaves)
  OBVIOUS
<1>6. PICK q \in 0..(2^top - 1) : q = p
  BY <1>4
<1>7. q \in Nat /\ 2^top \in Nat /\ q < 2^top
  <2>1. 2^top \in Nat
    BY PowerPositive
  <2> QED
    BY <2>1
<1>8. PICK path : path = Prove(p)
  OBVIOUS
<1>9. Len(path) = top
  BY <1>4, <1>8 DEF Prove
<1>10. \A j \in 1..top : path[j] = ref[j - 1][SiblingOf(q \div 2^(j - 1))]
  BY <1>1, <1>4, <1>5, <1>6, <1>8, ProveReads
<1>11. PICK up : /\ Climb(LeafHash(x), path, q) = up[top]
                 /\ up[0] = LeafHash(x)
                 /\ \A j \in 1..top : up[j] = StepUp(up[j - 1], path, q, j)
  <2>1. \E up : WayUp(up, LeafHash(x), path, q, top)
    BY <1>9, ClimbSteps
  <2> QED
    BY <2>1 DEF WayUp
<1>12. PICK S : S = {j \in 0..top :
                      /\ up[j] # KeccakEmpty
                      /\ up[j] = ref[j][q \div 2^j] <=> LeafHash(x) = ref[0][q]}
  OBVIOUS
<1>13. 0 \in S
  <2>1. q \div 2^0 = q
    BY <1>7, PowerZero
  <2>2. 0 \in 0..top
    OBVIOUS
  <2> QED
    BY <1>11, <1>12, <2>1, <2>2, HashesDiffer
<1>14. ASSUME NEW j \in 1..top, j - 1 \in S
       PROVE  j \in S
  <2>1. /\ up[j - 1] # KeccakEmpty
        /\ up[j - 1] = ref[j - 1][q \div 2^(j - 1)] <=> LeafHash(x) = ref[0][q]
    BY <1>12, <1>14
  <2>2. up[j] = StepUp(up[j - 1], path, q, j)
    BY <1>11
  <2>3. up[j] # KeccakEmpty
    BY <2>2, HashesDiffer DEF StepUp
  <2>4. path[j] = ref[j - 1][SiblingOf(q \div 2^(j - 1))]
    BY <1>10
  <2>5. StepUp(up[j - 1], path, q, j) = ref[j][q \div 2^j] <=> up[j - 1] = ref[j - 1][q \div 2^(j - 1)]
    BY <1>3, <1>5, <2>1, <2>4, ClimbStep
  <2>6. j \in 0..top
    OBVIOUS
  <2> QED
    BY <1>12, <2>1, <2>2, <2>3, <2>5, <2>6
<1>15. up[top] = ref[top][q \div 2^top] <=> LeafHash(x) = ref[0][q]
  <2>1. \A j \in 0..top : j \in S
    BY <1>13, <1>14, InductionTo
  <2>2. top \in S
    BY <2>1
  <2> QED
    BY <1>12, <2>2
<1>16. q \div 2^top = 0
  <2>1. PICK m \in Nat : m = 2^top
    BY <1>7
  <2>2. q = m * 0 + q /\ q < m /\ m > 0
    BY <1>7, <2>1
  <2>3. q \div m = 0
    BY <1>7, <2>2, DivModUnique
  <2> QED
    BY <2>1, <2>3
<1>17. LeafHash(x) = ref[0][q] <=> q < Len(leaves) /\ leaves[q + 1] = LeafHash(x)
  <2>1. CASE q < Len(leaves)
    BY <1>5, <1>7, <2>1, ReferenceLeaf
  <2>2. CASE ~(q < Len(leaves))
    <3>1. 0 \in 0..top /\ top - 0 = top /\ q * 2^0 = q
      BY <1>7, PowerZero
    <3>2. q \in 0..(2^(top - 0) - 1) /\ q * 2^0 >= Len(leaves)
      BY <1>2, <1>7, <2>2, <3>1
    <3>3. ref[0][q] = KeccakEmpty
      BY <1>3, <1>5, <3>1, <3>2, ReferenceKind
    <3> QED
      BY <2>2, <3>3, HashesDiffer
  <2> QED
    BY <2>1, <2>2
<1>18. Verify(root, LeafHash(x), Prove(p), p) <=> up[top] = root
  BY <1>6, <1>8, <1>11 DEF Verify
<1>19. CASE leaves # << >>
  <2>1. root = ref[top][0]
    BY <1>1, <1>4, <1>5, <1>19 DEF MerkleInv, RootOK
  <2> QED
    BY <1>1, <1>6, <1>15, <1>16, <1>17, <1>18, <2>1
<1>20. CASE leaves = << >>
  <2>1. root = ZeroHash /\ Len(leaves) = 0
    BY <1>1, <1>20 DEF MerkleInv, RootOK
  <2>2. top = 0
    BY <1>3, <2>1, EmptyDepth
  <2>3. up[top] = LeafHash(x)
    BY <1>11, <2>2
  <2>4. LeafHash(x) # ZeroHash
    BY DEF LeafHash, ZeroHash
  <2>5. ~(q < Len(leaves))
    BY <1>7, <2>1
  <2> QED
    BY <1>1, <1>6, <1>18, <2>1, <2>3, <2>4, <2>5
<1> QED
  BY <1>19, <1>20

(* For every number of leaves and every position, a leaf verifies against what prove
   reads back exactly if dump was given it at that position. *)
THEOREM ProofsAreExact == Spec => []ProofsExact
<1>1. MerkleInv => ProofsExact
  <2> SUFFICES ASSUME MerkleInv, pc = "stored", ~only_root,
                      NEW p \in 0..(2^depth - 1), NEW x \in LeafData
               PROVE  Verify(root, LeafHash(x), Prove(p), p)
                        <=> p < Len(data) /\ data[p + 1] = LeafHash(x)
    BY DEF ProofsExact
  <2> QED
    BY VerifyExact
<1> QED
  BY <1>1, MerkleInductive, PTL
==============================================================================
