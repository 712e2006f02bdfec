----------------------------- MODULE LvmtProofs ------------------------------
(***************************************************************************)
(* Theorems about LvmtDB for every value of its constants, in three parts: *)
(*                                                                         *)
(*   - the forest and its types: names of trees, version nodes, batches;   *)
(*   - what the store promises its caller: it is an AuthStore, its epochs  *)
(*     never change, a key that is written moves to a higher version, and  *)
(*     between commits every tree is committed to by its parent;           *)
(*   - the version slots: which slots the keys hold, the versions the AMTs *)
(*     commit to in them, and that verify accepts what prove returns for   *)
(*     every stored key.                                                   *)
(***************************************************************************)
EXTENDS LvmtDB, SequenceTheorems, NumberLemmas

------------------------------------------------------------------------------
(* Tree names. *)

(* A tree name is a sequence of indices shorter than MaxLevel. *)
LEMMA NameIsSeq ==
  ASSUME NEW n \in Names
  PROVE  /\ n \in Seq(Index)
         /\ Len(n) \in 0..(MaxLevel - 1)
         /\ DOMAIN n = 1..Len(n)
         /\ \A i \in 1..Len(n) : n[i] \in Index
<1>1. PICK l \in 0..(MaxLevel - 1) : n \in [1..l -> Index]
  BY DEF Names
<1>2. l \in Nat
  BY <1>1, ForestConstants
<1>3. n \in Seq(Index) /\ Len(n) = l
  BY <1>1, <1>2
<1> QED BY <1>1, <1>2, <1>3

(* Conversely, an index function over 1..l is the name of a tree. *)
LEMMA FunIsName ==
  ASSUME NEW l \in 0..(MaxLevel - 1), NEW n \in [1..l -> Index]
  PROVE  n \in Names /\ Len(n) = l
<1>1. l \in Nat
  BY ForestConstants
<1>2. n \in Seq(Index) /\ Len(n) = l
  BY <1>1
<1> QED BY <1>2 DEF Names

(* The empty name, of the root tree, is a tree name. *)
LEMMA RootIsName == Root \in Names /\ Len(Root) = 0
<1>1. Root \in [1..0 -> Index] /\ Len(Root) = 0
  BY DEF Root
<1>2. 0 \in 0..(MaxLevel - 1)
  BY ForestConstants
<1> QED BY <1>1, <1>2, FunIsName

(* Only the root tree has an empty name. *)
LEMMA EmptyNameIsRoot ==
  ASSUME NEW n \in Names, Len(n) = 0
  PROVE  n = Root
BY NameIsSeq, EmptySeq DEF Root

(* Ancestors are trees, of the length asked for. *)
LEMMA AncIsName ==
  ASSUME NEW n \in Names, NEW j \in 0..Len(n)
  PROVE  /\ Anc(n, j) \in Names
         /\ Len(Anc(n, j)) = j
         /\ \A i \in 1..j : Anc(n, j)[i] = n[i]
<1>1. Len(n) \in 0..(MaxLevel - 1) /\ \A i \in 1..Len(n) : n[i] \in Index
  BY NameIsSeq
<1>2. j \in 0..(MaxLevel - 1) /\ MaxLevel \in Nat
  BY <1>1, ForestConstants
<1>3. Anc(n, j) \in [1..j -> Index]
  BY <1>1, <1>2 DEF Anc
<1>4. Anc(n, j) \in Names /\ Len(Anc(n, j)) = j
  BY <1>2, <1>3, FunIsName
<1>5. \A i \in 1..j : Anc(n, j)[i] = n[i]
  BY DEF Anc
<1> QED BY <1>4, <1>5

(* The ancestors of an ancestor are ancestors. *)
LEMMA AncOfAnc ==
  ASSUME NEW n \in Names, NEW m \in 0..Len(n), NEW j \in 0..m
  PROVE  Anc(Anc(n, m), j) = Anc(n, j)
<1>1. Len(n) \in Nat
  BY NameIsSeq
<1>2. \A i \in 1..j : i \in 1..m
  BY <1>1
<1>3. \A i \in 1..j : Anc(n, m)[i] = n[i]
  BY <1>2 DEF Anc
<1> QED BY <1>3 DEF Anc

(* A tree is its own longest ancestor. *)
LEMMA AncSelf ==
  ASSUME NEW n \in Names
  PROVE  Anc(n, Len(n)) = n
<1>1. n = [i \in 1..Len(n) |-> n[i]]
  BY NameIsSeq
<1> QED BY <1>1 DEF Anc

(* The path of a key names trees and indices. *)
LEMMA KeyPath ==
  ASSUME NEW k \in Keys, NEW l \in 0..(MaxLevel - 1)
  PROVE  /\ TreeAtLevel(k, l) \in Names
         /\ Len(TreeAtLevel(k, l)) = l
         /\ IndexAtLevel(k, l) \in Index
<1>1. MaxLevel \in Nat /\ Path[k] \in [1..MaxLevel -> Index]
  BY ForestConstants
<1>2. TreeAtLevel(k, l) \in [1..l -> Index]
  BY <1>1 DEF TreeAtLevel
<1>3. IndexAtLevel(k, l) \in Index
  BY <1>1 DEF IndexAtLevel
<1> QED BY <1>2, <1>3, FunIsName

------------------------------------------------------------------------------
(* get_tree_mut. *)

(* The tree types of TypeOK, which the lemmas about trees rest on. *)
TreeTypes ==
  /\ forest \subseteq Names
  /\ mark \subseteq Names
  /\ kids \in [Names -> SUBSET Index]
  /\ dirty \subseteq Names
  /\ comm \in [Names -> Commitment \cup {NoComm}]
  /\ data \in [Names -> [Index -> Node]]
  /\ sub \in [Names -> [Index -> Commitment]]

(* The walk of get_tree_mut visits ancestors only. *)
LEMMA WalkedIsAncestors ==
  ASSUME NEW n \in Names
  PROVE  /\ Walked(n) \subseteq 0..(Len(n) - 1)
         /\ \A j \in Walked(n) : Anc(n, j) \in Names /\ n[j + 1] \in Index
         /\ \A j \in Walked(n) : Anc(n, j + 1) \in Names /\ Len(Anc(n, j + 1)) = j + 1
         /\ WalkedNames(n) \subseteq Names
<1>1. Len(n) \in Nat /\ \A i \in 1..Len(n) : n[i] \in Index
  BY NameIsSeq
<1>2. Walked(n) \subseteq 0..(Len(n) - 1)
  BY DEF Walked
<1>3. \A j \in Walked(n) : j \in 0..Len(n) /\ j + 1 \in 0..Len(n) /\ j + 1 \in 1..Len(n)
  BY <1>1, <1>2
<1>4. \A j \in Walked(n) : Anc(n, j) \in Names /\ n[j + 1] \in Index
  BY <1>1, <1>3, AncIsName
<1>5. \A j \in Walked(n) : Anc(n, j + 1) \in Names /\ Len(Anc(n, j + 1)) = j + 1
  BY <1>3, AncIsName
<1> QED BY <1>2, <1>4, <1>5 DEF WalkedNames

(* The parent and the index of a tree below the root. *)
LEMMA ParentIsName ==
  ASSUME NEW n \in Names, n # Root
  PROVE  /\ Len(n) \in 1..(MaxLevel - 1)
         /\ Parent(n) \in Names
         /\ Len(Parent(n)) = Len(n) - 1
         /\ LevelIndex(n) \in Index
         /\ Parent(n) # n
<1>1. Len(n) \in 0..(MaxLevel - 1) /\ \A i \in 1..Len(n) : n[i] \in Index
  BY NameIsSeq
<1>2. Len(n) # 0
  BY EmptyNameIsRoot
<1>3. Len(n) \in 1..(MaxLevel - 1) /\ Len(n) \in 1..Len(n) /\ Len(n) - 1 \in 0..Len(n)
  BY <1>1, <1>2, ForestConstants
<1>4. Parent(n) \in Names /\ Len(Parent(n)) = Len(n) - 1
  BY <1>3, AncIsName DEF Parent
<1>5. Parent(n) # n
  BY <1>3, <1>4
<1> QED BY <1>1, <1>3, <1>4, <1>5 DEF LevelIndex

(* get_tree_mut keeps the types, and the tree it returns has a commitment. *)
LEMMA TouchTypes ==
  ASSUME TreeTypes, LoadedOK(forest, mark, comm), NEW n \in Names
  PROVE  /\ TouchForest(n) \subseteq Names
         /\ TouchMark(n) \subseteq Names
         /\ TouchKids(n) \in [Names -> SUBSET Index]
         /\ TouchComm(n) \in [Names -> Commitment \cup {NoComm}]
         /\ n \in TouchMark(n)
         /\ \A t \in TouchForest(n) : TouchComm(n)[t] \in Commitment
<1>1. WalkedNames(n) \subseteq Names /\ n \in WalkedNames(n)
  BY WalkedIsAncestors DEF WalkedNames
<1>2. TouchKids(n) \in [Names -> SUBSET Index]
  BY WalkedIsAncestors DEF TouchKids, TreeTypes
<1>3. ASSUME NEW t \in Names, NEW j \in Walked(n), Anc(n, j + 1) = t
      PROVE  sub[Parent(t)][LevelIndex(t)] \in Commitment
  <2>1. Len(t) = j + 1 /\ j \in 0..(Len(n) - 1)
    BY <1>3, WalkedIsAncestors
  <2>2. Len(n) \in Nat
    BY NameIsSeq
  <2>3. t # Root
    BY <2>1, <2>2, RootIsName
  <2>4. Parent(t) \in Names /\ LevelIndex(t) \in Index
    BY <2>3, ParentIsName
  <2> QED BY <2>4 DEF TreeTypes
<1>4. \A t \in Names : TouchComm(n)[t] \in Commitment \cup {NoComm}
  BY <1>3 DEF TouchComm, TreeTypes
<1>5. TouchComm(n) \in [Names -> Commitment \cup {NoComm}]
  BY <1>4 DEF TouchComm
<1>6. ASSUME NEW t \in TouchForest(n)
      PROVE  TouchComm(n)[t] \in Commitment
  <2>0. t \in Names
    BY <1>1, <1>6 DEF TouchForest, TreeTypes
  <2>1. CASE comm[t] # NoComm
    BY <2>0, <2>1 DEF TouchComm, TreeTypes
  <2>2. CASE comm[t] = NoComm
    <3>1. t \notin forest /\ t \notin mark /\ t # Root
      BY <2>2 DEF LoadedOK
    <3>2. t \in WalkedNames(n)
      BY <3>1, <1>6 DEF TouchForest
    <3>3. Len(n) \in Nat
      BY NameIsSeq
    <3>4. \E j \in Walked(n) : Anc(n, j + 1) = t
      <4>1. CASE t = n
        <5>1. Len(n) # 0
          BY <4>1, <3>1, EmptyNameIsRoot
        <5>2. Len(n) - 1 \in 0..(Len(n) - 1) /\ ((Len(n) - 1) + 1)..(Len(n) - 1) = {}
          BY <5>1, <3>3
        <5>3. Len(n) - 1 \in Walked(n)
          BY <5>2, <4>1, <3>1 DEF Walked
        <5>4. Anc(n, (Len(n) - 1) + 1) = n
          BY <3>3, AncSelf
        <5> QED BY <5>3, <5>4, <4>1
      <4>2. CASE t # n
        <5>1. PICK m \in Walked(n) : Anc(n, m) = t
          BY <3>2, <4>2 DEF WalkedNames
        <5>2. m \in 0..(Len(n) - 1)
          BY WalkedIsAncestors
        <5>3. Len(t) = m
          BY <5>1, <5>2, <3>3, AncIsName
        <5>4. m # 0
          BY <5>3, <2>0, <3>1, EmptyNameIsRoot
        <5>5. m - 1 \in 0..(Len(n) - 1) /\ (m - 1) + 1 = m
          BY <5>2, <5>4, <3>3
        <5>6. n \notin mark /\ \A q \in (m + 1)..(Len(n) - 1) : Anc(n, q) \notin mark
          BY <5>1 DEF Walked
        <5>7. \A q \in m..(Len(n) - 1) : q = m \/ q \in (m + 1)..(Len(n) - 1)
          BY <5>2, <3>3
        <5>8. \A q \in ((m - 1) + 1)..(Len(n) - 1) : Anc(n, q) \notin mark
          BY <5>1, <5>5, <5>6, <5>7, <3>1
        <5>9. m - 1 \in Walked(n)
          BY <5>5, <5>6, <5>8 DEF Walked
        <5> QED BY <5>1, <5>5, <5>9
      <4> QED BY <4>1, <4>2
    <3> QED BY <2>0, <2>2, <3>4, <1>3 DEF TouchComm
  <2> QED BY <2>1, <2>2
<1> QED BY <1>1, <1>2, <1>5, <1>6 DEF TouchForest, TouchMark, TreeTypes

(* The name of a child, and its parent. *)
LEMMA ChildOfAnc ==
  ASSUME NEW n \in Names, NEW j \in 0..(Len(n) - 1)
  PROVE  Append(Anc(n, j), n[j + 1]) = Anc(n, j + 1)
<1>1. Len(n) \in Nat /\ j \in 0..Len(n) /\ j + 1 \in 0..Len(n) /\ j \in Nat
      /\ j + 1 \in 1..Len(n)
  BY NameIsSeq
<1>2. Anc(n, j) \in Seq(Index) /\ Len(Anc(n, j)) = j /\ n[j + 1] \in Index
  BY <1>1, AncIsName, NameIsSeq
<1>3. Anc(n, j + 1) \in Seq(Index) /\ Len(Anc(n, j + 1)) = j + 1
  BY <1>1, AncIsName, NameIsSeq
<1>4. Append(Anc(n, j), n[j + 1]) \in Seq(Index)
      /\ Len(Append(Anc(n, j), n[j + 1])) = j + 1
  BY <1>1, <1>2
<1>5. ASSUME NEW i \in 1..(j + 1)
      PROVE  Append(Anc(n, j), n[j + 1])[i] = Anc(n, j + 1)[i]
  <2>1. Anc(n, j + 1)[i] = n[i]
    BY DEF Anc
  <2>2. CASE i = j + 1
    BY <2>1, <2>2, <1>1, <1>2
  <2>3. CASE i # j + 1
    <3>1. i \in 1..j
      BY <2>3, <1>1
    <3>2. Anc(n, j)[i] = n[i]
      BY <3>1 DEF Anc
    <3> QED BY <2>1, <3>1, <3>2, <1>1, <1>2
  <2> QED BY <2>2, <2>3
<1> QED BY <1>3, <1>4, <1>5, SeqEqual

(* A child's parent and last index are the ones it was built from
   (AMTNodeIndex::child, parent and level_index of name.rs). *)
LEMMA ChildParent ==
  ASSUME NEW p \in Names, NEW i \in Index, Append(p, i) \in Names
  PROVE  /\ Append(p, i) # Root
         /\ Parent(Append(p, i)) = p
         /\ LevelIndex(Append(p, i)) = i
<1>1. p \in Seq(Index) /\ Len(p) \in Nat
  BY NameIsSeq
<1>2. Len(Append(p, i)) = Len(p) + 1 /\ Append(p, i)[Len(p) + 1] = i
      /\ \A q \in 1..Len(p) : Append(p, i)[q] = p[q]
  BY <1>1
<1>3. Parent(Append(p, i)) = [q \in 1..Len(p) |-> Append(p, i)[q]]
  BY <1>1, <1>2 DEF Parent, Anc
<1>4. Parent(Append(p, i)) = [q \in 1..Len(p) |-> p[q]]
  BY <1>2, <1>3
<1>5. Parent(Append(p, i)) = p
  BY <1>4, AncSelf DEF Anc
<1> QED BY <1>1, <1>2, <1>5, RootIsName DEF LevelIndex

(* get_tree_mut keeps the forest in order. *)
LEMMA TouchForestOK ==
  ASSUME TreeTypes, ForestInv, NEW n \in Names
  PROVE  ForestOK(TouchForest(n), TouchMark(n), TouchKids(n), dirty, TouchComm(n))
<1> USE DEF ForestInv, ForestOK
<1>1. LoadedOK(TouchForest(n), TouchMark(n), TouchComm(n))
  <2>1. \A t \in TouchForest(n) : TouchComm(n)[t] \in Commitment
    BY TouchTypes
  <2>2. NoComm \notin Commitment
    BY ForestConstants DEF Commitment, FrInt
  <2> QED BY <2>1, <2>2 DEF LoadedOK, TouchForest, TouchMark
<1>2. \A t \in Names : kids[t] \subseteq TouchKids(n)[t]
  BY DEF TouchKids
<1>3. \A j \in Walked(n) : n[j + 1] \in TouchKids(n)[Anc(n, j)]
  BY WalkedIsAncestors DEF TouchKids
<1>4. ChainOK(TouchMark(n), TouchKids(n))
  <2> SUFFICES ASSUME NEW t \in TouchMark(n), NEW j \in 0..(Len(t) - 1)
               PROVE  t[j + 1] \in TouchKids(n)[Anc(t, j)]
    BY DEF ChainOK
  <2>0. t \in Names /\ Len(t) \in Nat
    BY TouchTypes, NameIsSeq
  <2>1. CASE t \in mark
    <3>1. t[j + 1] \in kids[Anc(t, j)]
      BY <2>1 DEF ChainOK
    <3>2. Anc(t, j) \in Names
      BY <2>0, AncIsName
    <3> QED BY <3>1, <3>2, <1>2
  <2>2. CASE t \notin mark
    <3>1. PICK m \in 0..Len(n) : t = Anc(n, m)
      <4>1. t \in WalkedNames(n)
        BY <2>2 DEF TouchMark
      <4>2. Len(n) \in Nat
        BY NameIsSeq
      <4>3. CASE t = n
        BY <4>3, <4>2, AncSelf
      <4>4. CASE t # n
        BY <4>1, <4>2, <4>4, WalkedIsAncestors DEF WalkedNames
      <4> QED BY <4>3, <4>4
    <3>2. Len(n) \in Nat /\ Len(t) = m /\ j \in 0..(m - 1) /\ j \in 0..m /\ j \in 0..(Len(n) - 1)
      BY <3>1, AncIsName, NameIsSeq
    <3>3. Anc(t, j) = Anc(n, j) /\ t[j + 1] = n[j + 1]
      BY <3>1, <3>2, AncOfAnc, AncIsName
    <3>4. CASE j \in Walked(n)
      BY <3>3, <3>4, <1>3
    <3>5. CASE j \notin Walked(n)
      <4>1. n \notin mark
        <5>1. CASE n \in mark
          <6>1. WalkedNames(n) = {n}
            BY <5>1 DEF Walked, WalkedNames
          <6> QED BY <6>1, <5>1, <2>2 DEF TouchMark
        <5> QED BY <5>1
      <4>2. PICK q \in (j + 1)..(Len(n) - 1) : Anc(n, q) \in mark
        BY <3>2, <3>5, <4>1 DEF Walked
      <4>3. q \in 0..Len(n) /\ j \in 0..q /\ j \in 0..(q - 1) /\ j + 1 \in 1..q
        BY <3>2
      <4>4. Len(Anc(n, q)) = q /\ Anc(n, q)[j + 1] = n[j + 1] /\ Anc(Anc(n, q), j) = Anc(n, j)
        BY <4>3, AncIsName, AncOfAnc
      <4>5. n[j + 1] \in kids[Anc(n, j)]
        BY <4>2, <4>3, <4>4 DEF ChainOK
      <4>6. Anc(n, j) \in Names
        BY <4>3, AncIsName, <3>2
      <4> QED BY <4>5, <4>6, <3>3, <1>2
    <3> QED BY <3>4, <3>5
  <2> QED BY <2>1, <2>2
<1>5. KidsOK(TouchMark(n), TouchKids(n))
  <2> SUFFICES ASSUME NEW t \in Names, NEW i \in TouchKids(n)[t]
               PROVE  t \in TouchMark(n) /\ Append(t, i) \in TouchMark(n)
    BY DEF KidsOK
  <2>1. CASE i \in kids[t]
    BY <2>1 DEF KidsOK, TouchMark
  <2>2. CASE i \notin kids[t]
    <3>1. PICK j \in Walked(n) : Anc(n, j) = t /\ n[j + 1] = i
      BY <2>2 DEF TouchKids
    <3>2. Len(n) \in Nat /\ j \in 0..(Len(n) - 1)
      BY WalkedIsAncestors, NameIsSeq
    <3>3. Append(t, i) = Anc(n, j + 1)
      BY <3>1, <3>2, ChildOfAnc
    <3>4. Anc(n, j + 1) \in WalkedNames(n)
      <4>1. CASE j = Len(n) - 1
        BY <4>1, <3>2, AncSelf DEF WalkedNames
      <4>2. CASE j # Len(n) - 1
        <5>1. j + 1 \in 0..(Len(n) - 1)
          BY <4>2, <3>2
        <5>2. n \notin mark /\ \A q \in (j + 1)..(Len(n) - 1) : Anc(n, q) \notin mark
          BY <3>1 DEF Walked
        <5>3. ((j + 1) + 1)..(Len(n) - 1) \subseteq (j + 1)..(Len(n) - 1)
          BY <3>2
        <5>4. j + 1 \in Walked(n)
          BY <5>1, <5>2, <5>3 DEF Walked
        <5> QED BY <5>4 DEF WalkedNames
      <4> QED BY <4>1, <4>2
    <3> QED BY <3>1, <3>3, <3>4 DEF TouchMark, WalkedNames
  <2> QED BY <2>1, <2>2
<1>6. DirtyOK(TouchMark(n), dirty)
  BY DEF DirtyOK, TouchMark
<1> QED BY <1>1, <1>4, <1>5, <1>6

------------------------------------------------------------------------------
(* Nodes and the commitment updates they cause. *)

(* as_fr_int of a node is a vector of naturals. *)
LEMMA AsFrIntType ==
  ASSUME NEW node \in Node
  PROVE  AsFrInt(node) \in FrInt
BY DEF AsFrInt, FrInt, Node

(* Pushing the new slot of a key. *)
LEMMA WithSlotNode ==
  ASSUME NEW node \in Node, NEW slot \in 1..Slots
  PROVE  /\ WithSlot(node, slot) \in Node
         /\ AsFrInt(WithSlot(node, slot)) = AsFrInt(node)
         /\ slot <= Len(node.key_versions) + 1
              => slot <= Len(WithSlot(node, slot).key_versions)
<1> DEFINE kv == node.key_versions
<1>1. kv \in Seq(Nat) /\ Len(kv) \in Nat /\ slot \in Nat /\ Slots \in Nat
  BY ForestConstants DEF Node
<1>2. CASE slot > Len(kv)
  <2> DEFINE new == [node EXCEPT !.key_versions = Append(kv, 0)]
  <2>1. WithSlot(node, slot) = new
    BY <1>2 DEF WithSlot
  <2>2. Append(kv, 0) \in Seq(Nat) /\ Len(Append(kv, 0)) = Len(kv) + 1
        /\ Append(kv, 0)[Len(kv) + 1] = 0
        /\ \A q \in 1..Len(kv) : Append(kv, 0)[q] = kv[q]
    BY <1>1
  <2>3. new \in Node /\ new.key_versions = Append(kv, 0)
        /\ new.tree_version = node.tree_version
    BY <2>2 DEF Node
  <2> HIDE DEF new
  <2>4. \A s \in 0..Slots : AsFrInt(new)[s] = AsFrInt(node)[s]
    BY <2>2, <2>3, <1>1 DEF AsFrInt
  <2>5. AsFrInt(new) = AsFrInt(node)
    BY <2>4 DEF AsFrInt
  <2> QED BY <2>1, <2>2, <2>3, <2>5
<1>3. CASE ~(slot > Len(kv))
  <2>1. WithSlot(node, slot) = node
    BY <1>3 DEF WithSlot
  <2> QED BY <2>1, <1>1, <1>3
<1> QED BY <1>2, <1>3

(* Incrementing a slot. *)
LEMMA WithVersionNode ==
  ASSUME NEW node \in Node, NEW slot \in 1..Slots
  PROVE  /\ WithVersion(node, slot) \in Node
         /\ Len(WithVersion(node, slot).key_versions) = Len(node.key_versions)
         /\ WithVersion(node, slot).tree_version = node.tree_version
         /\ WithVersion(node, slot).tree_position = node.tree_position
         /\ slot <= Len(node.key_versions)
              => FrDelta(node, WithVersion(node, slot)) = SlotUnit(slot)
         /\ slot > Len(node.key_versions)
              => FrDelta(node, WithVersion(node, slot)) = ZeroFr
<1> DEFINE kv == node.key_versions
           kw == [kv EXCEPT ![slot] = kv[slot] + 1]
           new == [node EXCEPT !.key_versions = kw]
<1>1. kv \in Seq(Nat) /\ Len(kv) \in Nat /\ slot \in Nat /\ slot > 0 /\ Slots \in Nat
      /\ DOMAIN kv = 1..Len(kv)
  BY ForestConstants DEF Node
<1>2. WithVersion(node, slot) = new
  BY DEF WithVersion
<1>3. kw \in Seq(Nat) /\ Len(kw) = Len(kv)
      /\ (\A q \in 1..Len(kv) : q # slot => kw[q] = kv[q])
      /\ (slot <= Len(kv) => kw[slot] = kv[slot] + 1)
  <2>0. kv \in [1..Len(kv) -> Nat]
    BY <1>1
  <2>1. kw \in [1..Len(kv) -> Nat]
    <3>1. CASE slot \in 1..Len(kv)
      <4>1. kv[slot] + 1 \in Nat
        BY <2>0, <3>1
      <4> QED BY <2>0, <3>1, <4>1
    <3>2. CASE slot \notin 1..Len(kv)
      <4>1. kw = kv
        BY <2>0, <3>2
      <4> QED BY <2>0, <4>1
    <3> QED BY <3>1, <3>2
  <2>2. kw \in Seq(Nat) /\ Len(kw) = Len(kv)
    BY <2>1, <1>1
  <2> QED BY <2>2, <1>1
<1> HIDE DEF kw
<1>4. new \in Node /\ new.key_versions = kw /\ new.tree_version = node.tree_version
      /\ new.tree_position = node.tree_position
  BY <1>3 DEF Node
<1> HIDE DEF new
<1>5. node.tree_version \in Nat /\ \A q \in 1..Len(kv) : kv[q] \in Nat /\ kw[q] \in Nat
  BY <1>1, <1>3 DEF Node
<1>6. ASSUME slot <= Len(kv)
      PROVE  FrDelta(node, new) = SlotUnit(slot)
  <2>1. ASSUME NEW s \in 0..Slots
        PROVE  AsFrInt(new)[s] - AsFrInt(node)[s] = SlotUnit(slot)[s]
    <3>0. /\ AsFrInt(new)[s] = IF s = 0 THEN node.tree_version
                               ELSE IF s <= Len(kv) THEN kw[s] ELSE 0
          /\ AsFrInt(node)[s] = IF s = 0 THEN node.tree_version
                                ELSE IF s <= Len(kv) THEN kv[s] ELSE 0
          /\ SlotUnit(slot)[s] = IF s = slot THEN 1 ELSE 0
      BY <1>3, <1>4 DEF AsFrInt, SlotUnit
    <3>1. CASE s = 0
      BY <1>1, <1>5, <3>0, <3>1
    <3>2. CASE s = slot
      <4>1. s # 0 /\ s <= Len(kv) /\ s \in 1..Len(kv)
        BY <1>1, <1>6, <3>2
      <4>2. kw[s] = kv[s] + 1 /\ kv[s] \in Nat
        BY <1>3, <1>5, <1>6, <3>2, <4>1
      <4> QED BY <3>0, <3>2, <4>1, <4>2
    <3>3. CASE s # 0 /\ s # slot /\ s <= Len(kv)
      <4>1. s \in 1..Len(kv)
        BY <1>1, <3>3
      <4>2. kw[s] = kv[s] /\ kv[s] \in Nat
        BY <1>3, <1>5, <3>3, <4>1
      <4> QED BY <3>0, <3>3, <4>2
    <3>4. CASE s # 0 /\ s # slot /\ ~(s <= Len(kv))
      BY <3>0, <3>4
    <3> QED BY <3>1, <3>2, <3>3, <3>4
  <2> QED BY <2>1 DEF FrDelta, SlotUnit
<1>7. ASSUME slot > Len(kv)
      PROVE  FrDelta(node, new) = ZeroFr
  <2>1. \A q \in 1..Len(kv) : kw[q] = kv[q]
    BY <1>3, <1>7, <1>1
  <2>2. \A s \in 0..Slots : AsFrInt(new)[s] - AsFrInt(node)[s] = 0
    BY <1>1, <1>3, <1>4, <1>5, <2>1 DEF AsFrInt
  <2> QED BY <2>2 DEF FrDelta, ZeroFr
<1> QED BY <1>2, <1>3, <1>4, <1>6, <1>7

(* A key write moves the commitment up, in the key's slot. *)
LEMMA IncDelta ==
  ASSUME NEW old \in Node, NEW slot \in 1..Slots
  PROVE  /\ WithVersion(WithSlot(old, slot), slot) \in Node
         /\ FrDelta(old, WithVersion(WithSlot(old, slot), slot)) \in FrInt
         /\ SlotUnit(slot) \in FrInt
         /\ slot <= Len(old.key_versions) + 1
              => FrDelta(old, WithVersion(WithSlot(old, slot), slot)) = SlotUnit(slot)
<1> DEFINE room == WithSlot(old, slot)
           new == WithVersion(room, slot)
<1>1. room \in Node /\ AsFrInt(room) = AsFrInt(old)
      /\ (slot <= Len(old.key_versions) + 1 => slot <= Len(room.key_versions))
  BY WithSlotNode
<1>2. FrDelta(old, new) = FrDelta(room, new)
  BY <1>1 DEF FrDelta
<1>3. new \in Node
      /\ (slot <= Len(room.key_versions) => FrDelta(room, new) = SlotUnit(slot))
      /\ (slot > Len(room.key_versions) => FrDelta(room, new) = ZeroFr)
  BY <1>1, WithVersionNode
<1>4. SlotUnit(slot) \in FrInt /\ ZeroFr \in FrInt
  BY DEF SlotUnit, ZeroFr, FrInt
<1>5. slot <= Len(room.key_versions) \/ slot > Len(room.key_versions)
  BY <1>1, ForestConstants DEF Node
<1> QED BY <1>1, <1>2, <1>3, <1>4, <1>5

(* A recorded child moves the commitment up by one child version. *)
LEMMA TreeDelta ==
  ASSUME NEW old \in Node, NEW epoch \in Nat, hashes \in Seq(Leaf)
  PROVE  /\ WithTreeVersion(old, epoch) \in Node
         /\ FrDelta(old, WithTreeVersion(old, epoch)) = SlotUnit(0)
         /\ SlotUnit(0) \in FrInt
<1> DEFINE new == WithTreeVersion(old, epoch)
<1>1. Len(hashes) \in Nat
  OBVIOUS
<1>2. new \in Node /\ new.tree_version = old.tree_version + 1
      /\ new.key_versions = old.key_versions
  BY <1>1 DEF WithTreeVersion, Node, EpochPosition
<1> HIDE DEF new
<1>3. \A s \in 0..Slots : AsFrInt(new)[s] - AsFrInt(old)[s] = SlotUnit(0)[s]
  <2>1. old.tree_version \in Nat /\ old.key_versions \in Seq(Nat)
    BY DEF Node
  <2>2. \A q \in 1..Len(old.key_versions) : old.key_versions[q] \in Nat
    BY <2>1
  <2> QED BY <1>2, <2>1, <2>2, ForestConstants DEF AsFrInt, SlotUnit
<1>4. FrDelta(old, new) = SlotUnit(0)
  BY <1>3 DEF FrDelta, SlotUnit
<1>5. SlotUnit(0) \in FrInt
  BY DEF SlotUnit, FrInt
<1> QED BY <1>2, <1>4, <1>5 DEF new

(* Adding a non-negative change to a commitment gives a commitment. *)
LEMMA UpdatedType ==
  ASSUME NEW c \in Commitment, NEW i \in Index, NEW delta \in FrInt
  PROVE  Updated(c, i, delta) \in Commitment
<1>1. c[i] \in FrInt
  BY DEF Commitment
<1>2. ASSUME NEW s \in 0..Slots
      PROVE  c[i][s] + delta[s] \in Nat
  <2>1. c[i][s] \in Nat
    BY <1>1 DEF FrInt
  <2>2. delta[s] \in Nat
    BY DEF FrInt
  <2> QED BY <2>1, <2>2
<1>3. [s \in 0..Slots |-> c[i][s] + delta[s]] \in FrInt
  BY <1>2 DEF FrInt
<1> QED BY <1>3 DEF Updated, Commitment

------------------------------------------------------------------------------
(* What each operation does to the forest. *)

(* get_tree_mut by itself. *)
LEMMA TouchStep ==
  ASSUME TreeTypes, ForestInv, NEW n \in Names,
         GetTreeMut(n), UNCHANGED <<data, sub>>, dirty' \subseteq dirty
  PROVE  TreeTypes' /\ ForestInv' /\ comm'[Root] \in Commitment
<1>1. LoadedOK(forest, mark, comm)
  BY DEF ForestInv, ForestOK
<1>2. ForestOK(TouchForest(n), TouchMark(n), TouchKids(n), dirty, TouchComm(n))
  BY TouchForestOK
<1>3. ForestOK(forest', mark', kids', dirty, comm')
  BY <1>2 DEF GetTreeMut
<1>4. ForestInv'
  BY <1>3 DEF ForestInv, ForestOK, DirtyOK, LoadedOK, ChainOK, KidsOK
<1>5. TreeTypes'
  BY <1>1, TouchTypes DEF GetTreeMut, TreeTypes
<1>6. comm'[Root] \in Commitment
  BY <1>1, TouchTypes DEF GetTreeMut, LoadedOK, TouchForest
<1> QED BY <1>4, <1>5, <1>6

(* inc_key_ver writes one tree, which is marked afterwards. *)
LEMMA IncKeyVerStep ==
  ASSUME TreeTypes, ForestInv, NEW k \in Keys, NEW info \in VerInfo,
         IncKeyVer(k, info)
  PROVE  /\ TreeTypes'
         /\ ForestInv'
         /\ mark \subseteq mark'
         /\ \E n \in mark' : \A t \in Names : t # n => data'[t] = data[t]
<1> DEFINE n     == TreeAtLevel(k, info.level)
           i     == IndexAtLevel(k, info.level)
           old   == data[n][i]
           room  == WithSlot(old, info.slot)
           new   == IF InProofShard(k) THEN WithVersion(room, info.slot) ELSE room
           delta == IF InProofShard(k) THEN FrDelta(old, new) ELSE SlotUnit(info.slot)
<1>1. info.level \in 0..(MaxLevel - 1) /\ info.slot \in 1..Slots
  BY DEF VerInfo
<1>2. n \in Names /\ i \in Index
  BY <1>1, KeyPath
<1>3. old \in Node
  BY <1>2 DEF TreeTypes
<1>4. new \in Node /\ delta \in FrInt
  BY <1>1, <1>3, WithSlotNode, IncDelta
<1>5. /\ forest' = TouchForest(n)
      /\ mark' = TouchMark(n)
      /\ kids' = TouchKids(n)
      /\ data' = [data EXCEPT ![n] = [data[n] EXCEPT ![i] = new]]
      /\ comm' = [TouchComm(n) EXCEPT ![n] = Updated(TouchComm(n)[n], i, delta)]
      /\ dirty' = dirty \cup DirtiedBy(n, delta)
      /\ sub' = sub
  BY DEF IncKeyVer
<1> HIDE DEF n, i, new, delta
<1>6. LoadedOK(forest, mark, comm)
  BY DEF ForestInv, ForestOK
<1>7. /\ TouchForest(n) \subseteq Names
      /\ TouchMark(n) \subseteq Names
      /\ TouchKids(n) \in [Names -> SUBSET Index]
      /\ TouchComm(n) \in [Names -> Commitment \cup {NoComm}]
      /\ n \in TouchMark(n)
      /\ \A t \in TouchForest(n) : TouchComm(n)[t] \in Commitment
  BY <1>2, <1>6, TouchTypes
<1>8. ForestOK(TouchForest(n), TouchMark(n), TouchKids(n), dirty, TouchComm(n))
  BY <1>2, TouchForestOK
<1>9. n \in TouchForest(n)
  BY DEF TouchForest, WalkedNames
<1>10. Updated(TouchComm(n)[n], i, delta) \in Commitment
  BY <1>2, <1>4, <1>7, <1>9, UpdatedType
<1>11. DirtiedBy(n, delta) \subseteq {n}
  BY DEF DirtiedBy
<1>12. TreeTypes'
  <2>1. data' \in [Names -> [Index -> Node]]
    BY <1>2, <1>4, <1>5 DEF TreeTypes
  <2>2. comm' \in [Names -> Commitment \cup {NoComm}]
    BY <1>5, <1>7, <1>10
  <2>3. dirty' \subseteq Names
    BY <1>2, <1>5, <1>11 DEF TreeTypes
  <2> QED BY <1>5, <1>7, <2>1, <2>2, <2>3 DEF TreeTypes
<1>13. ForestInv'
  <2>1. \A t \in forest' : comm'[t] # NoComm
    <3>1. NoComm \notin Commitment
      BY ForestConstants DEF Commitment, FrInt
    <3> QED BY <1>5, <1>7, <1>10, <3>1
  <2>2. LoadedOK(forest', mark', comm')
    BY <1>5, <1>8, <2>1 DEF ForestOK, LoadedOK
  <2>3. ChainOK(mark', kids') /\ KidsOK(mark', kids')
    BY <1>5, <1>8 DEF ForestOK
  <2>4. DirtyOK(mark', dirty')
    BY <1>5, <1>7, <1>8, <1>11 DEF ForestOK, DirtyOK
  <2> QED BY <2>2, <2>3, <2>4 DEF ForestInv, ForestOK, LoadedOK, ChainOK, KidsOK, DirtyOK
<1>14. \A t \in Names : t # n => data'[t] = data[t]
  BY <1>2, <1>5 DEF TreeTypes
<1> QED BY <1>5, <1>7, <1>12, <1>13, <1>14 DEF TouchMark

(* A tree commit_tree is about to finish is marked, and so is its parent. *)
LEMMA NextToCommitMarked ==
  ASSUME TreeTypes, ForestInv, NEW n \in Names, n # Root, NextToCommit(n)
  PROVE  /\ n \in mark /\ Parent(n) \in mark
         /\ Parent(n) \in Names /\ LevelIndex(n) \in Index /\ Parent(n) # n
         /\ LevelIndex(n) \in kids[Parent(n)]
<1>1. /\ Len(n) \in 1..(MaxLevel - 1)
      /\ Parent(n) \in Names /\ LevelIndex(n) \in Index /\ Parent(n) # n
  BY ParentIsName
<1>2. Len(n) - 1 \in 0..(Len(n) - 1) /\ (Len(n) - 1) + 1 = Len(n) /\ Len(n) \in Nat
  BY <1>1, ForestConstants
<1>3. LevelIndex(n) \in kids[Parent(n)]
  BY <1>2 DEF NextToCommit, LevelIndex, Parent
<1>4. Append(Parent(n), LevelIndex(n)) = n
  BY <1>2, ChildOfAnc, AncSelf DEF Parent, LevelIndex
<1> QED BY <1>1, <1>3, <1>4 DEF ForestInv, ForestOK, KidsOK

(* commit_tree returning for one tree. *)
LEMMA CommitTreeStep ==
  ASSUME TreeTypes, ForestInv, hashes \in Seq(Leaf), NEW n \in Names,
         NEW epoch \in Nat, CommitTree(n, epoch)
  PROVE  /\ TreeTypes' /\ ForestInv' /\ hashes' \in Seq(Leaf)
         /\ mark' = mark \ {n}
         /\ n # Root /\ n \in mark /\ Parent(n) \in mark' /\ Parent(n) \in Names /\ Parent(n) # n
         /\ \A t \in Names : t # Parent(n) => data'[t] = data[t] /\ sub'[t] = sub[t]
<1> DEFINE p     == Parent(n)
           i     == LevelIndex(n)
           old   == data[p][i]
           new   == WithTreeVersion(old, epoch)
           delta == FrDelta(old, new)
<1>1. n # Root /\ NextToCommit(n) /\ kids[n] = {}
  BY DEF CommitTree, NextToCommit
<1>2. /\ n \in mark /\ p \in mark
      /\ p \in Names /\ i \in Index /\ p # n
      /\ i \in kids[p]
  BY <1>1, NextToCommitMarked
<1>3. comm[n] \in Commitment /\ comm[p] \in Commitment
  BY <1>2 DEF ForestInv, ForestOK, LoadedOK, TreeTypes
<1>4. old \in Node
  BY <1>2 DEF TreeTypes
<1>5. new \in Node /\ delta = SlotUnit(0) /\ delta \in FrInt
  BY <1>4, TreeDelta
<1>6. Updated(comm[p], i, delta) \in Commitment
  BY <1>2, <1>3, <1>5, UpdatedType
<1>7. DirtiedBy(p, delta) \subseteq {p}
  BY DEF DirtiedBy
<1>8. /\ kids' = [kids EXCEPT ![p] = kids[p] \ {i}]
      /\ mark' = mark \ {n}
      /\ forest' = forest
  BY DEF CommitTree
<1>9. \/ /\ sub' = [sub EXCEPT ![p] = [sub[p] EXCEPT ![i] = comm[n]]]
         /\ data' = [data EXCEPT ![p] = [data[p] EXCEPT ![i] = new]]
         /\ comm' = [comm EXCEPT ![p] = Updated(comm[p], i, delta)]
         /\ dirty' = (dirty \ {n}) \cup DirtiedBy(p, delta)
         /\ hashes' = Append(hashes, TreeValue(n, new.tree_version, comm[n]))
      \/ n \notin dirty /\ UNCHANGED <<sub, data, comm, dirty, hashes>>
  BY DEF CommitTree, RecordUpdate
<1>10. TreeValue(n, new.tree_version, comm[n]) \in Leaf
  <2>1. new.tree_version \in Nat
    BY <1>5 DEF Node
  <2> QED BY <2>1, <1>3 DEF TreeValue, Leaf
<1> HIDE DEF p, i, new, delta
<1>11. TreeTypes'
  <2>1. kids' \in [Names -> SUBSET Index]
    BY <1>2, <1>8 DEF TreeTypes
  <2>2. forest' \subseteq Names /\ mark' \subseteq Names
    BY <1>8 DEF TreeTypes
  <2>3. /\ dirty' \subseteq Names
        /\ comm' \in [Names -> Commitment \cup {NoComm}]
        /\ data' \in [Names -> [Index -> Node]]
        /\ sub' \in [Names -> [Index -> Commitment]]
    <3>1. CASE UNCHANGED <<sub, data, comm, dirty, hashes>>
      BY <3>1 DEF TreeTypes
    <3>2. CASE ~UNCHANGED <<sub, data, comm, dirty, hashes>>
      <4>1. dirty' \subseteq Names
        BY <1>2, <1>7, <1>9, <3>2 DEF TreeTypes
      <4>2. comm' \in [Names -> Commitment \cup {NoComm}]
        BY <1>2, <1>6, <1>9, <3>2 DEF TreeTypes
      <4>3. data' \in [Names -> [Index -> Node]]
        <5>1. data' = [data EXCEPT ![p] = [data[p] EXCEPT ![i] = new]]
          BY <1>9, <3>2
        <5>2. [data[p] EXCEPT ![i] = new] \in [Index -> Node]
          BY <1>2, <1>5 DEF TreeTypes
        <5> QED BY <1>2, <5>1, <5>2 DEF TreeTypes
      <4>4. sub' \in [Names -> [Index -> Commitment]]
        <5>1. sub' = [sub EXCEPT ![p] = [sub[p] EXCEPT ![i] = comm[n]]]
          BY <1>9, <3>2
        <5>2. [sub[p] EXCEPT ![i] = comm[n]] \in [Index -> Commitment]
          BY <1>2, <1>3 DEF TreeTypes
        <5> QED BY <1>2, <5>1, <5>2 DEF TreeTypes
      <4> QED BY <4>1, <4>2, <4>3, <4>4
    <3> QED BY <3>1, <3>2
  <2> QED BY <2>1, <2>2, <2>3 DEF TreeTypes
<1>12. hashes' \in Seq(Leaf)
  BY <1>9, <1>10
<1>13. LoadedOK(forest', mark', comm')
  <2>1. NoComm \notin Commitment
    BY ForestConstants DEF Commitment, FrInt
  <2> QED BY <2>1, <1>2, <1>6, <1>8, <1>9 DEF LoadedOK, ForestInv, ForestOK, TreeTypes
<1>14. ChainOK(mark', kids')
  <2> SUFFICES ASSUME NEW t \in mark', NEW j \in 0..(Len(t) - 1)
               PROVE  t[j + 1] \in kids'[Anc(t, j)]
    BY DEF ChainOK
  <2>1. t \in mark /\ t # n /\ t \in Names /\ Len(t) \in Nat
    BY <1>8, NameIsSeq DEF TreeTypes
  <2>2. t[j + 1] \in kids[Anc(t, j)]
    BY <2>1 DEF ForestInv, ForestOK, ChainOK
  <2>3. CASE Anc(t, j) = p /\ t[j + 1] = i
    <3>1. j \in 0..Len(t) /\ j + 1 \in 0..Len(t)
      BY <2>1
    <3>2. Len(p) = j /\ Len(p) = Len(n) - 1 /\ Len(n) \in Nat
      BY <2>1, <2>3, <3>1, AncIsName, ParentIsName, <1>1, NameIsSeq DEF p
    <3>3. Append(p, i) = n
      BY <1>1, <3>2, ChildOfAnc, AncSelf DEF p, i, Parent, LevelIndex
    <3>4. Anc(t, j + 1) = n
      BY <2>1, <2>3, <3>3, ChildOfAnc
    <3>5. CASE j + 1 = Len(t)
      BY <3>4, <3>5, <2>1, AncSelf
    <3>6. CASE j + 1 # Len(t)
      <4>1. j + 1 \in 0..(Len(t) - 1)
        BY <3>6, <2>1
      <4>2. t[(j + 1) + 1] \in kids[Anc(t, j + 1)]
        BY <4>1, <2>1 DEF ForestInv, ForestOK, ChainOK
      <4> QED BY <4>2, <3>4, <1>1
    <3> QED BY <3>5, <3>6
  <2>4. CASE ~(Anc(t, j) = p /\ t[j + 1] = i)
    <3>1. j \in 0..Len(t)
      BY <2>1
    <3>2. Anc(t, j) \in Names
      BY <2>1, <3>1, AncIsName
    <3> QED BY <2>2, <2>4, <3>2, <1>2, <1>8 DEF TreeTypes
  <2> QED BY <2>3, <2>4
<1>15. KidsOK(mark', kids')
  <2> SUFFICES ASSUME NEW t \in Names, NEW q \in kids'[t]
               PROVE  t \in mark' /\ Append(t, q) \in mark'
    BY DEF KidsOK
  <2>1. q \in kids[t] /\ ~(t = p /\ q = i) /\ q \in Index
    BY <1>2, <1>8 DEF TreeTypes
  <2>2. t \in mark /\ Append(t, q) \in mark
    BY <2>1 DEF ForestInv, ForestOK, KidsOK
  <2>3. t # n
    BY <2>1, <1>1
  <2>4. Append(t, q) # n
    <3>1. Append(t, q) \in Names
      BY <2>2 DEF TreeTypes
    <3>2. Parent(Append(t, q)) = t /\ LevelIndex(Append(t, q)) = q
      BY <2>1, <3>1, ChildParent
    <3> QED BY <2>1, <3>2 DEF p, i
  <2> QED BY <2>2, <2>3, <2>4, <1>8
<1>16. DirtyOK(mark', dirty')
  BY <1>2, <1>7, <1>8, <1>9 DEF ForestInv, ForestOK, DirtyOK
<1>17. ForestInv'
  BY <1>13, <1>14, <1>15, <1>16 DEF ForestInv, ForestOK, LoadedOK, ChainOK, KidsOK, DirtyOK
<1>18. \A t \in Names : t # p => data'[t] = data[t] /\ sub'[t] = sub[t]
  BY <1>2, <1>9 DEF TreeTypes
<1> QED BY <1>1, <1>2, <1>8, <1>11, <1>12, <1>17, <1>18 DEF p

(* flush_all: the root tree is walked by itself. *)
LEMMA FlushAllStep ==
  ASSUME TreeTypes, ForestInv, FlushAll
  PROVE  /\ TreeTypes' /\ ForestInv' /\ comm[Root] \in Commitment
<1>1. Root \in Names
  BY RootIsName
<1>2. dirty' \subseteq dirty /\ UNCHANGED <<data, sub>> /\ GetTreeMut(Root)
  BY DEF FlushAll
<1>3. TreeTypes' /\ ForestInv'
  BY <1>1, <1>2, TouchStep
<1>4. comm[Root] \in Commitment
  BY <1>1 DEF ForestInv, ForestOK, LoadedOK, TreeTypes
<1> QED BY <1>3, <1>4

(* When commit_tree gets back to the root tree no other tree is marked. *)
LEMMA RootCommitsLast ==
  ASSUME TreeTypes, ForestInv, NextToCommit(Root)
  PROVE  mark \subseteq {Root}
<1> SUFFICES ASSUME NEW n \in mark, n # Root
             PROVE  FALSE
  OBVIOUS
<1>1. n \in Names /\ Len(n) \in Nat /\ Len(n) # 0
  BY NameIsSeq, EmptyNameIsRoot DEF TreeTypes
<1>2. 0 \in 0..(Len(n) - 1) /\ 0 \in 0..Len(n)
  BY <1>1
<1>3. n[0 + 1] \in kids[Anc(n, 0)]
  BY <1>2 DEF ForestInv, ForestOK, ChainOK
<1>4. Anc(n, 0) = Root
  BY <1>1, <1>2, AncIsName, EmptyNameIsRoot
<1> QED BY <1>3, <1>4 DEF NextToCommit

(* The return of commit_tree for the root tree keeps the forest in order: its
   children have all left its marks. *)
LEMMA CommitRootStep ==
  ASSUME TreeTypes, ForestInv, CommitRoot
  PROVE  TreeTypes' /\ ForestInv' /\ mark \subseteq {Root} /\ dirty' \subseteq {Root}
<1>1. mark \subseteq {Root}
  BY RootCommitsLast DEF CommitRoot
<1>2. mark' = {} /\ UNCHANGED <<forest, kids, dirty, comm, data, sub>> /\ kids[Root] = {}
  BY <1>1 DEF CommitRoot, NextToCommit
<1>3. TreeTypes'
  BY <1>2 DEF TreeTypes
<1>4. dirty' \subseteq {Root}
  BY <1>1, <1>2 DEF ForestInv, ForestOK, DirtyOK
<1>5. LoadedOK(forest', mark', comm') /\ ChainOK(mark', kids') /\ DirtyOK(mark', dirty')
  BY <1>2, <1>4 DEF ForestInv, ForestOK, LoadedOK, ChainOK, DirtyOK
<1>6. KidsOK(mark', kids')
  <2> SUFFICES ASSUME NEW t \in Names, NEW i \in kids[t]
               PROVE  FALSE
    BY <1>2 DEF KidsOK
  <2>1. i \in Index /\ Append(t, i) \in mark /\ Append(t, i) \in Names
    BY DEF ForestInv, ForestOK, KidsOK, TreeTypes
  <2>2. Append(t, i) # Root
    BY <2>1, ChildParent
  <2> QED BY <2>1, <2>2, <1>1
<1>7. ForestInv'
  BY <1>5, <1>6 DEF ForestInv, ForestOK, LoadedOK, ChainOK, KidsOK, DirtyOK
<1> QED BY <1>1, <1>3, <1>4, <1>7

(* A forest just opened: the root tree alone, marked. *)
LEMMA OpenedForest ==
  ASSUME NEW r \in Commitment
  PROVE  ForestOK({Root}, {Root}, [t \in Names |-> {}], {},
                  [t \in Names |-> IF t = Root THEN r ELSE NoComm])
<1> DEFINE c == [t \in Names |-> IF t = Root THEN r ELSE NoComm]
           ks == [t \in Names |-> {}]
<1>1. NoComm \notin Commitment /\ Root \in Names
  BY ForestConstants, RootIsName DEF Commitment, FrInt
<1>2. LoadedOK({Root}, {Root}, c)
  BY <1>1 DEF LoadedOK
<1>3. ChainOK({Root}, ks)
  <2>1. 0..(Len(Root) - 1) = {}
    BY RootIsName
  <2> QED BY <2>1 DEF ChainOK
<1>4. KidsOK({Root}, ks)
  BY DEF KidsOK
<1>5. DirtyOK({Root}, {})
  BY DEF DirtyOK
<1> QED BY <1>2, <1>3, <1>4, <1>5 DEF ForestOK

------------------------------------------------------------------------------
(* Batches and entries of the key column. *)

(* The greatest of some positions, which the last write of a key is. *)
LEMMA GreatestIndex ==
  ASSUME NEW N \in Nat, NEW W, W \subseteq 1..N, W # {}
  PROVE  \E m \in W : \A j \in W : j <= m
<1>1. W \subseteq 0..N
  OBVIOUS
<1> QED BY <1>1, GreatestNat

(* Writing the key batch leaves a well-typed key column. *)
LEMMA ApplyBatchType ==
  ASSUME NEW column \in [Keys -> Value \cup {Missing}], NEW ops \in Seq(WriteOp)
  PROVE  ApplyBatch(column, ops) \in [Keys -> Value \cup {Missing}]
<1>1. Len(ops) \in Nat /\ DOMAIN ops = 1..Len(ops)
  OBVIOUS
<1>2. ASSUME NEW k \in Keys, WritesTo(ops, k) # {}
      PROVE  ops[CHOOSE m \in WritesTo(ops, k) :
                   \A j \in WritesTo(ops, k) : j <= m].val \in Value
  <2>1. WritesTo(ops, k) \subseteq 1..Len(ops)
    BY <1>1 DEF WritesTo
  <2>2. \E m \in WritesTo(ops, k) : \A j \in WritesTo(ops, k) : j <= m
    BY <1>1, <1>2, <2>1, GreatestIndex
  <2>3. (CHOOSE m \in WritesTo(ops, k) : \A j \in WritesTo(ops, k) : j <= m)
          \in WritesTo(ops, k)
    BY <2>2
  <2>4. \A m \in 1..Len(ops) : ops[m] \in WriteOp
    OBVIOUS
  <2>5. \A m \in WritesTo(ops, k) : ops[m].val \in Value
    BY <2>1, <2>4 DEF WriteOp
  <2> QED BY <2>3, <2>5
<1>3. \A k \in Keys : column[k] \in Value \cup {Missing}
  OBVIOUS
<1> QED BY <1>2, <1>3 DEF ApplyBatch

(* What get and commit look up is an entry or nothing. *)
LEMMA LookupType ==
  ASSUME TypeOK, NEW k \in Keys
  PROVE  /\ Lookup(k) \in Value \cup {Missing}
         /\ Lookup(k) # Missing => Lookup(k).version \in VerInfo
<1>1. Lookup(k) \in Value \cup {Missing}
  BY DEF TypeOK, Lookup
<1> QED BY <1>1 DEF Value

(* The slot allocate_vacant_slot pushes exists. *)
LEMMA VacantSlotType ==
  ASSUME TreeTypes, NEW k \in Keys, NEW l \in 0..(MaxLevel - 1), ~SlotsFull(k, l)
  PROVE  VacantSlot(k, l) \in VerInfo
<1> DEFINE kv == data[TreeAtLevel(k, l)][IndexAtLevel(k, l)].key_versions
<1>1. TreeAtLevel(k, l) \in Names /\ IndexAtLevel(k, l) \in Index
  BY KeyPath
<1>2. data[TreeAtLevel(k, l)][IndexAtLevel(k, l)] \in Node
  BY <1>1 DEF TreeTypes
<1>3. kv \in Seq(Nat) /\ Len(kv) \in Nat
  BY <1>2 DEF Node
<1>4. ~(Len(kv) >= Slots)
  BY DEF SlotsFull
<1> HIDE DEF kv
<1>5. Len(kv) + 1 \in 1..Slots
  BY <1>3, <1>4, ForestConstants
<1> QED BY <1>5 DEF VacantSlot, VerInfo, kv

------------------------------------------------------------------------------
(* The inductive invariant.  ForestInv is what makes DirtyReachable and
   MarkedTreesLoaded inductive (marks and children_marks determine each
   other), FlushInv adds to OnlyRootUnflushed what is not flushed yet while a
   commit runs, and EpochInv keeps the epoch number in its range. *)
IndInv == TypeOK /\ ForestInv /\ FlushInv /\ EpochInv

(* TypeOK without the trees in memory. *)
StoreTypes ==
  /\ dbData \in [Names -> [Index -> Node]]
  /\ dbSub \in [Names -> [Index -> Commitment]]
  /\ dbRoot \in Commitment
  /\ hashes \in Seq(Leaf)
  /\ pc \in {"idle", "keys", "trees", "panic"}
  /\ uncommitted \in Seq([key : Keys, val : Values])
  /\ cache \in [Keys -> Value \cup {Missing, Uncached}]
  /\ level \in 0..MaxLevel
  /\ write_ops \in Seq(WriteOp)
  /\ dbKey \in [Keys -> Value \cup {Missing}]
  /\ dbMerkle \in [0..(MaxEpoch - 1) -> Seq(Leaf)]
  /\ dbEpoch \in 0..MaxEpoch
  /\ saved \in Database

(* The type invariant is the one of the forest and the one of the store. *)
LEMMA TypeOKParts == TypeOK <=> TreeTypes /\ StoreTypes
BY DEF TypeOK, TreeTypes, StoreTypes

(* The same of the next state. *)
LEMMA TypeOKPartsNext == TypeOK' <=> TreeTypes' /\ StoreTypes'
BY DEF TypeOK, TreeTypes, StoreTypes

(* The empty database. *)
LEMMA EmptyTypes ==
  /\ EmptyData \in [Names -> [Index -> Node]]
  /\ EmptySub \in [Names -> [Index -> Commitment]]
  /\ ZeroComm \in Commitment
  /\ EmptyKeys \in [Keys -> Value \cup {Missing}]
  /\ EmptyCache \in [Keys -> Value \cup {Missing, Uncached}]
  /\ EmptyMerkle \in [0..(MaxEpoch - 1) -> Seq(Leaf)]
  /\ 0 \in 0..MaxEpoch /\ 0 \in 0..MaxLevel
  /\ EmptySaved \in Database
<1>1. EmptyNode \in Node
  BY DEF EmptyNode, Node, EpochPosition
<1>2. EmptyData \in [Names -> [Index -> Node]]
  BY <1>1 DEF EmptyData
<1>3. ZeroComm \in Commitment
  BY DEF ZeroComm, ZeroFr, Commitment, FrInt
<1>4. EmptySub \in [Names -> [Index -> Commitment]]
  BY <1>3 DEF EmptySub
<1>5. EmptyKeys \in [Keys -> Value \cup {Missing}]
  BY DEF EmptyKeys
<1>6. EmptyCache \in [Keys -> Value \cup {Missing, Uncached}]
  BY DEF EmptyCache
<1>7. EmptyMerkle \in [0..(MaxEpoch - 1) -> Seq(Leaf)]
  BY DEF EmptyMerkle
<1>8. 0 \in 0..MaxEpoch /\ 0 \in 0..MaxLevel
  BY StoreConstants, ForestConstants
<1>9. EmptySaved \in Database
  BY <1>2, <1>3, <1>4, <1>5, <1>7, <1>8 DEF EmptySaved, Database
<1> QED BY <1>2, <1>3, <1>4, <1>5, <1>6, <1>7, <1>8, <1>9

(* A new database satisfies the inductive invariant. *)
LEMMA InitInd == Init => IndInv
<1> SUFFICES ASSUME Init PROVE IndInv
  OBVIOUS
<1> USE DEF Init, TreeInit, NewForest
<1>1. TreeTypes
  <2>1. comm \in [Names -> Commitment \cup {NoComm}]
    BY EmptyTypes
  <2>2. kids \in [Names -> SUBSET Index]
    OBVIOUS
  <2> QED BY <2>1, <2>2, EmptyTypes, RootIsName DEF TreeTypes
<1>2. StoreTypes
  BY EmptyTypes DEF StoreTypes
<1>3. ForestInv
  BY EmptyTypes, OpenedForest DEF ForestInv
<1>4. FlushInv
  BY DEF FlushInv
<1>5. EpochInv
  BY DEF EpochInv
<1> QED BY <1>1, <1>2, <1>3, <1>4, <1>5, TypeOKParts DEF IndInv

(* Steps that leave the trees alone. *)
LEMMA TreesUnchanged ==
  ASSUME TreeTypes, ForestInv, UNCHANGED treeVars
  PROVE  TreeTypes' /\ ForestInv'
BY DEF treeVars, TreeTypes, ForestInv, ForestOK, LoadedOK, ChainOK, KidsOK, DirtyOK

(* A step that leaves the trees alone, and does not end a commit, keeps what
   is known about the database. *)
LEMMA FlushUnchanged ==
  ASSUME FlushInv, UNCHANGED treeVars, pc' = "idle" => pc = "idle"
  PROVE  FlushInv'
BY DEF treeVars, FlushInv

(* get only fills the epoch cache. *)
LEMMA GetStep ==
  ASSUME IndInv, NEW k \in Keys, Get(k)
  PROVE  IndInv'
<1>1. UNCHANGED treeVars /\ pc' = pc /\ dbEpoch' = dbEpoch
  BY DEF Get
<1>2. TreeTypes' /\ ForestInv' /\ FlushInv' /\ EpochInv'
  BY <1>1, TypeOKParts, TreesUnchanged, FlushUnchanged DEF IndInv, EpochInv
<1>3. Lookup(k) \in Value \cup {Missing}
  BY LookupType DEF IndInv
<1>4. cache' \in [Keys -> Value \cup {Missing, Uncached}]
  BY <1>3 DEF Get, IndInv, TypeOK
<1>5. StoreTypes'
  BY <1>1, <1>4 DEF Get, IndInv, TypeOK, StoreTypes, treeVars
<1> QED BY <1>2, <1>5, TypeOKPartsNext DEF IndInv

(* set only queues a write. *)
LEMMA SetStep ==
  ASSUME IndInv, NEW k \in Keys, NEW v \in Values, Set(k, v)
  PROVE  IndInv'
<1>1. UNCHANGED <<treeVars, storeVars, hashes, pc, level, write_ops>>
  BY DEF Set
<1>2. TreeTypes' /\ ForestInv' /\ FlushInv' /\ EpochInv'
  BY <1>1, TypeOKParts, TreesUnchanged, FlushUnchanged DEF IndInv, EpochInv, storeVars
<1>3. uncommitted' \in Seq([key : Keys, val : Values])
  BY DEF Set, IndInv, TypeOK
<1>4. StoreTypes'
  BY <1>1, <1>3 DEF IndInv, TypeOK, StoreTypes, treeVars, storeVars
<1> QED BY <1>2, <1>4, TypeOKPartsNext DEF IndInv

(* prove marks the path of the key, which leaves the path loaded and linked. *)
LEMMA ProveStep ==
  ASSUME IndInv, NEW k \in Keys, Prove(k)
  PROVE  IndInv'
<1> DEFINE n == TreeAtLevel(k, dbKey[k].version.level)
<1>1. dbKey[k] \in Value /\ dbKey[k].version \in VerInfo
  BY DEF IndInv, TypeOK, Prove, Value
<1>2. n \in Names
  <2>1. dbKey[k].version.level \in 0..(MaxLevel - 1)
    BY <1>1 DEF VerInfo
  <2> QED BY <2>1, KeyPath
<1>3. GetTreeMut(n) /\ UNCHANGED <<dirty, data, sub>>
  BY DEF Prove
<1> HIDE DEF n
<1>4. TreeTypes' /\ ForestInv'
  BY <1>2, <1>3, TypeOKParts, TouchStep DEF IndInv
<1>5. mark \subseteq mark'
  BY <1>3 DEF GetTreeMut, TouchMark
<1>6. pc = "idle" /\ UNCHANGED <<dirty, data, sub, dbData, dbSub, dbRoot, hashes, storeVars,
                                 uncommitted, level, write_ops>>
      /\ pc' \in {"idle", "panic"}
  BY DEF Prove
<1>7. FlushInv'
  BY <1>6 DEF IndInv, FlushInv
<1>8. EpochInv'
  BY <1>6 DEF EpochInv
<1>9. StoreTypes'
  BY <1>6 DEF IndInv, TypeOK, StoreTypes, storeVars
<1> QED BY <1>4, <1>7, <1>8, <1>9, TypeOKPartsNext DEF IndInv

(* The write the key loop is at. *)
LEMMA CurrentType ==
  ASSUME TypeOK, uncommitted # << >>
  PROVE  /\ Current.key \in Keys /\ Current.val \in Values
         /\ Tail(uncommitted) \in Seq([key : Keys, val : Values])
<1> DEFINE W == [key : Keys, val : Values]
<1>1. uncommitted \in Seq(W)
  BY DEF TypeOK
<1> HIDE DEF W
<1>2. Head(uncommitted) \in W /\ Tail(uncommitted) \in Seq(W)
  BY <1>1, HeadTailProperties
<1> QED BY <1>2 DEF W, Current

(* A round of the key loop, for the slot of its key. *)
LEMMA CommitWriteStep ==
  ASSUME IndInv, NEW info \in VerInfo, pc = "keys", uncommitted # << >>,
         CommitWrite(info)
  PROVE  IndInv'
<1>1. Tail(uncommitted) \in Seq([key : Keys, val : Values])
  BY CurrentType DEF IndInv
<1>2. Current.key \in Keys /\ Current.val \in Values
  BY CurrentType DEF IndInv
<1>3. IncKeyVer(Current.key, info)
  BY DEF CommitWrite
<1>4. /\ TreeTypes' /\ ForestInv'
      /\ mark \subseteq mark'
      /\ \E n \in mark' : \A t \in Names : t # n => data'[t] = data[t]
  BY <1>2, <1>3, TypeOKParts, IncKeyVerStep DEF IndInv
<1>5. UNCHANGED <<sub, dbData, dbSub, dbRoot>>
  BY <1>3 DEF IncKeyVer
<1> DEFINE next == [info EXCEPT !.version = info.version + 1]
           op == [key |-> Current.key,
                  val |-> [value    |-> Current.val,
                           version  |-> next,
                           position |-> [epoch    |-> dbEpoch,
                                         position |-> Len(write_ops)]]]
<1>6. next \in VerInfo
  BY DEF VerInfo
<1> HIDE DEF next
<1>7. op \in WriteOp /\ KeyValue(Current.key, next, Current.val) \in Leaf
  <2>1. dbEpoch \in Nat /\ Len(write_ops) \in Nat
    BY StoreConstants DEF IndInv, TypeOK
  <2>2. op.val \in Value
    BY <1>2, <1>6, <2>1 DEF Value, EpochPosition
  <2> QED BY <1>2, <1>6, <2>2 DEF WriteOp, KeyValue, Leaf
<1>8. /\ \/ /\ write_ops' = Append(write_ops, op)
            /\ hashes' = Append(hashes, KeyValue(Current.key, next, Current.val))
            /\ uncommitted' = Tail(uncommitted)
            /\ pc' = pc
         \/ pc' = "panic" /\ UNCHANGED <<write_ops, hashes, uncommitted>>
      /\ level' = 0
      /\ UNCHANGED storeVars
  BY DEF CommitWrite, next
<1> HIDE DEF op
<1>9. /\ write_ops' \in Seq(WriteOp)
      /\ hashes' \in Seq(Leaf)
      /\ uncommitted' \in Seq([key : Keys, val : Values])
      /\ pc' \in {"keys", "panic"}
      /\ level' \in 0..MaxLevel
  <2>1. write_ops \in Seq(WriteOp) /\ hashes \in Seq(Leaf)
        /\ uncommitted \in Seq([key : Keys, val : Values])
    BY DEF IndInv, TypeOK
  <2>2. write_ops' \in Seq(WriteOp)
    <3>1. Append(write_ops, op) \in Seq(WriteOp)
      BY <1>7, <2>1, AppendProperties
    <3> QED BY <1>8, <2>1, <3>1
  <2>3. hashes' \in Seq(Leaf)
    <3>1. Append(hashes, KeyValue(Current.key, next, Current.val)) \in Seq(Leaf)
      BY <1>7, <2>1, AppendProperties
    <3> QED BY <1>8, <2>1, <3>1
  <2>4. uncommitted' \in Seq([key : Keys, val : Values])
    BY <1>1, <1>8, <2>1
  <2> QED BY <1>8, <2>2, <2>3, <2>4, ForestConstants
<1>10. StoreTypes'
  BY <1>5, <1>8, <1>9 DEF IndInv, TypeOK, StoreTypes, storeVars
<1>11. FlushInv'
  BY <1>4, <1>5, <1>9 DEF IndInv, FlushInv
<1>12. EpochInv'
  BY <1>8 DEF IndInv, EpochInv, storeVars
<1> QED BY <1>4, <1>10, <1>11, <1>12, TypeOKPartsNext DEF IndInv

(* A round of commit's loop for a key that has a slot. *)
LEMMA CommitKnownKeyStep ==
  ASSUME IndInv, CommitKnownKey
  PROVE  IndInv'
<1>1. Current.key \in Keys
  BY CurrentType DEF IndInv, CommitKnownKey
<1>2. Lookup(Current.key).version \in VerInfo
  BY <1>1, LookupType DEF IndInv, CommitKnownKey
<1> QED BY <1>2, CommitWriteStep DEF CommitKnownKey

(* A round of commit's loop for a key that gets the vacant slot found. *)
LEMMA CommitNewKeyStep ==
  ASSUME IndInv, CommitNewKey
  PROVE  IndInv'
<1>1. Current.key \in Keys
  BY CurrentType DEF IndInv, CommitNewKey
<1>2. level \in 0..(MaxLevel - 1)
  BY ForestConstants DEF IndInv, TypeOK, CommitNewKey
<1>3. VacantSlot(Current.key, level) \in VerInfo
  BY <1>1, <1>2, TypeOKParts, VacantSlotType DEF IndInv, CommitNewKey
<1> QED BY <1>3, CommitWriteStep DEF CommitNewKey

(* A round of allocate_vacant_slot that finds the node full. *)
LEMMA AllocateSkipStep ==
  ASSUME IndInv, AllocateSkip
  PROVE  IndInv'
<1>1. Current.key \in Keys
  BY CurrentType DEF IndInv, AllocateSkip
<1>2. level \in 0..(MaxLevel - 1) /\ level + 1 \in 0..MaxLevel
  BY ForestConstants DEF IndInv, TypeOK, AllocateSkip
<1>3. TreeAtLevel(Current.key, level) \in Names
  BY <1>1, <1>2, KeyPath
<1>4. /\ GetTreeMut(TreeAtLevel(Current.key, level))
      /\ UNCHANGED <<dirty, data, sub, hashes, dbData, dbSub, dbRoot>>
      /\ pc = "keys" /\ level' = level + 1
      /\ UNCHANGED <<storeVars, pc, uncommitted, write_ops>>
  BY DEF AllocateSkip, SkipFullLevel
<1>5. TreeTypes' /\ ForestInv'
  BY <1>3, <1>4, TypeOKParts, TouchStep DEF IndInv
<1>6. mark \subseteq mark'
  BY <1>4 DEF GetTreeMut, TouchMark
<1>7. FlushInv'
  BY <1>4, <1>6 DEF IndInv, FlushInv
<1>8. EpochInv'
  BY <1>4 DEF IndInv, EpochInv, storeVars
<1>9. StoreTypes'
  BY <1>2, <1>4 DEF IndInv, TypeOK, StoreTypes, storeVars
<1> QED BY <1>5, <1>7, <1>8, <1>9, TypeOKPartsNext DEF IndInv

(* The steps of commit that only move its control. *)
LEMMA ControlStep ==
  ASSUME IndInv, CommitBegin \/ AllocatePanic \/ CommitTreesBegin
  PROVE  IndInv'
<1>1. /\ UNCHANGED <<treeVars, hashes, storeVars, uncommitted, level, write_ops>>
      /\ pc' \in {"keys", "trees", "panic"}
      /\ pc' \in {"keys", "trees"} => dbEpoch < MaxEpoch
  BY DEF CommitBegin, AllocatePanic, CommitTreesBegin, IndInv, EpochInv
<1>2. TreeTypes' /\ ForestInv' /\ FlushInv'
  BY <1>1, TypeOKParts, TreesUnchanged, FlushUnchanged DEF IndInv
<1>3. EpochInv'
  BY <1>1 DEF EpochInv, storeVars
<1>4. StoreTypes'
  BY <1>1 DEF IndInv, TypeOK, StoreTypes, treeVars, storeVars
<1> QED BY <1>2, <1>3, <1>4, TypeOKPartsNext DEF IndInv

(* commit_tree returns for one tree below the root, flushed and unmarked. *)
LEMMA CommitOneTreeStep ==
  ASSUME IndInv, CommitOneTree
  PROVE  IndInv'
<1>1. PICK n \in Names : CommitTree(n, dbEpoch)
  BY DEF CommitOneTree
<1>2. dbEpoch \in Nat /\ hashes \in Seq(Leaf)
  BY StoreConstants DEF IndInv, TypeOK
<1>3. /\ TreeTypes' /\ ForestInv' /\ hashes' \in Seq(Leaf)
      /\ mark' = mark \ {n}
      /\ n # Root /\ n \in mark /\ Parent(n) \in mark' /\ Parent(n) \in Names /\ Parent(n) # n
      /\ \A t \in Names : t # Parent(n) => data'[t] = data[t] /\ sub'[t] = sub[t]
  BY <1>1, <1>2, TypeOKParts, CommitTreeStep DEF IndInv
<1>4. /\ dbData' = [dbData EXCEPT ![n] = data[n]]
      /\ dbSub' = [dbSub EXCEPT ![n] = sub[n]]
      /\ dbRoot' = dbRoot
  BY <1>1 DEF CommitTree, FlushTree
<1>5. pc = "trees" /\ UNCHANGED <<storeVars, pc, uncommitted, level, write_ops>>
  BY DEF CommitOneTree
<1>6. data[n] \in [Index -> Node] /\ sub[n] \in [Index -> Commitment]
  BY DEF IndInv, TypeOK
<1>7. StoreTypes'
  BY <1>3, <1>4, <1>5, <1>6 DEF IndInv, TypeOK, StoreTypes, storeVars
<1>8. ASSUME NEW t \in Names \ {Root}, t \notin mark'
      PROVE  dbData'[t] = data'[t] /\ dbSub'[t] = sub'[t]
  <2>1. t # Parent(n)
    BY <1>3, <1>8
  <2>2. CASE t = n
    BY <1>3, <1>4, <2>1, <2>2 DEF IndInv, TypeOK
  <2>3. CASE t # n
    <3>1. dbData[t] = data[t] /\ dbSub[t] = sub[t]
      BY <1>3, <1>8, <2>3 DEF IndInv, FlushInv
    <3> QED BY <1>3, <1>4, <2>1, <2>3, <3>1 DEF IndInv, TypeOK
  <2> QED BY <2>2, <2>3
<1>9. FlushInv'
  BY <1>5, <1>8 DEF FlushInv
<1>10. EpochInv'
  BY <1>5 DEF IndInv, EpochInv, storeVars
<1> QED BY <1>3, <1>7, <1>9, <1>10, TypeOKPartsNext DEF IndInv

(* The end of commit: no tree but the root is marked any more, so that only
   the root can differ from the database. *)
LEMMA CommitEndStep ==
  ASSUME IndInv, CommitEnd
  PROVE  IndInv'
<1>1. CommitRoot /\ pc = "trees"
  BY DEF CommitEnd
<1>2. TreeTypes' /\ ForestInv' /\ mark \subseteq {Root} /\ dirty' \subseteq {Root}
  BY <1>1, TypeOKParts, CommitRootStep DEF IndInv
<1>3. UNCHANGED <<data, sub, dbData, dbSub, dbRoot>>
  BY <1>1 DEF CommitRoot
<1>4. FlushInv'
  BY <1>2, <1>3 DEF IndInv, FlushInv
<1>5. EpochInv'
  BY DEF CommitEnd, EpochInv
<1>6. dbEpoch < MaxEpoch /\ dbEpoch \in 0..MaxEpoch /\ MaxEpoch \in Nat
  BY <1>1, StoreConstants DEF IndInv, EpochInv, TypeOK
<1>7. dbEpoch' \in 0..MaxEpoch
  BY <1>6 DEF CommitEnd
<1>8. dbMerkle' \in [0..(MaxEpoch - 1) -> Seq(Leaf)]
  BY <1>6 DEF CommitEnd, IndInv, TypeOK
<1>9. dbKey' \in [Keys -> Value \cup {Missing}]
  BY ApplyBatchType DEF CommitEnd, IndInv, TypeOK
<1>10. cache' \in [Keys -> Value \cup {Missing, Uncached}]
  BY EmptyTypes DEF CommitEnd
<1>11. hashes' \in Seq(Leaf) /\ write_ops' \in Seq(WriteOp)
  BY DEF CommitEnd
<1>12. StoreTypes'
  BY <1>3, <1>7, <1>8, <1>9, <1>10, <1>11 DEF CommitEnd, IndInv, TypeOK, StoreTypes
<1> QED BY <1>2, <1>4, <1>5, <1>12, TypeOKPartsNext DEF IndInv

(* flush_root brings the root tree to the database as well. *)
LEMMA FlushRootStep ==
  ASSUME IndInv, FlushRoot
  PROVE  IndInv'
<1>1. /\ FlushAll /\ pc = "idle"
      /\ UNCHANGED <<hashes, cache, answer, dbKey, dbMerkle, dbEpoch,
                     pc, uncommitted, level, write_ops>>
      /\ saved' \in {saved, DbAfterFlush}
  BY DEF FlushRoot
<1>2. TreeTypes' /\ ForestInv' /\ comm[Root] \in Commitment
  BY <1>1, TypeOKParts, FlushAllStep DEF IndInv
<1>3. /\ dbData' = [dbData EXCEPT ![Root] = data[Root]]
      /\ dbSub' = [dbSub EXCEPT ![Root] = sub[Root]]
      /\ dbRoot' = comm[Root]
      /\ dirty' = dirty \ {Root}
      /\ UNCHANGED <<data, sub>>
  BY <1>1 DEF FlushAll, FlushTree
<1>4. /\ dbData' \in [Names -> [Index -> Node]]
      /\ dbSub' \in [Names -> [Index -> Commitment]]
      /\ dbRoot' \in Commitment
  <2>1. data[Root] \in [Index -> Node] /\ sub[Root] \in [Index -> Commitment]
    BY RootIsName DEF IndInv, TypeOK
  <2> QED BY <1>2, <1>3, <2>1 DEF IndInv, TypeOK
<1>5. saved' \in Database
  <2>1. DbAfterFlush \in Database
    BY <1>4 DEF DbAfterFlush, Database, IndInv, TypeOK
  <2> QED BY <1>1, <2>1 DEF IndInv, TypeOK
<1>6. StoreTypes'
  BY <1>1, <1>4, <1>5 DEF IndInv, TypeOK, StoreTypes
<1>7. FlushInv'
  <2>1. \A n \in Names \ {Root} : dbData'[n] = dbData[n] /\ dbSub'[n] = dbSub[n]
    BY <1>3, RootIsName DEF IndInv, TypeOK
  <2> QED BY <1>1, <1>3, <2>1 DEF IndInv, FlushInv
<1>8. EpochInv'
  BY <1>1 DEF IndInv, EpochInv
<1> QED BY <1>2, <1>6, <1>7, <1>8, TypeOKPartsNext DEF IndInv

(* A new process on the saved directory starts with the root tree only. *)
LEMMA RestartStep ==
  ASSUME IndInv, Restart
  PROVE  IndInv'
<1> USE DEF Restart, ReopenForest
<1>1. /\ saved.key \in [Keys -> Value \cup {Missing}]
      /\ saved.merkle \in [0..(MaxEpoch - 1) -> Seq(Leaf)]
      /\ saved.epoch \in 0..MaxEpoch
      /\ saved.data \in [Names -> [Index -> Node]]
      /\ saved.sub \in [Names -> [Index -> Commitment]]
      /\ saved.root \in Commitment
  BY DEF IndInv, TypeOK, Database
<1>2. TreeTypes'
  <2>1. comm' \in [Names -> Commitment \cup {NoComm}]
    BY <1>1
  <2>2. kids' \in [Names -> SUBSET Index]
    OBVIOUS
  <2> QED BY <1>1, <2>1, <2>2, RootIsName DEF TreeTypes
<1>3. ForestInv'
  <2>1. ForestOK(forest', mark', kids', dirty', comm')
    BY <1>1, OpenedForest
  <2> QED BY <2>1 DEF ForestInv, ForestOK, LoadedOK, ChainOK, KidsOK, DirtyOK
<1>4. StoreTypes'
  BY <1>1, EmptyTypes DEF IndInv, TypeOK, StoreTypes
<1>5. FlushInv'
  BY DEF FlushInv
<1>6. EpochInv'
  BY DEF EpochInv
<1> QED BY <1>2, <1>3, <1>4, <1>5, <1>6, TypeOKPartsNext DEF IndInv

(* Every step keeps the invariant. *)
LEMMA NextInd == IndInv /\ [Next]_vars => IndInv'
<1> SUFFICES ASSUME IndInv, [Next]_vars PROVE IndInv'
  OBVIOUS
<1>1. ASSUME NEW k \in ReadKeys, Get(k) PROVE IndInv'
  BY <1>1, GetStep, StoreConstants
<1>2. ASSUME NEW k \in Keys, NEW v \in Values, Set(k, v) PROVE IndInv'
  BY <1>2, SetStep
<1>3. ASSUME NEW k \in Keys, Prove(k) PROVE IndInv'
  BY <1>3, ProveStep
<1>4. CASE CommitBegin \/ AllocatePanic \/ CommitTreesBegin
  BY <1>4, ControlStep
<1>5. CASE CommitKnownKey
  BY <1>5, CommitKnownKeyStep
<1>6. CASE AllocateSkip
  BY <1>6, AllocateSkipStep
<1>7. CASE CommitNewKey
  BY <1>7, CommitNewKeyStep
<1>8. CASE CommitOneTree
  BY <1>8, CommitOneTreeStep
<1>9. CASE CommitEnd
  BY <1>9, CommitEndStep
<1>10. CASE FlushRoot
  BY <1>10, FlushRootStep
<1>11. CASE Restart
  BY <1>11, RestartStep
<1>12. CASE UNCHANGED vars
  <2>1. UNCHANGED <<treeVars, hashes, storeVars, pc, uncommitted, level, write_ops>>
    BY <1>12 DEF vars
  <2>2. TreeTypes' /\ ForestInv' /\ FlushInv'
    BY <2>1, TypeOKParts, TreesUnchanged, FlushUnchanged DEF IndInv
  <2>3. StoreTypes' /\ EpochInv'
    BY <2>1 DEF IndInv, TypeOK, StoreTypes, EpochInv, treeVars, storeVars
  <2> QED BY <2>2, <2>3, TypeOKPartsNext DEF IndInv
<1> QED BY <1>1, <1>2, <1>3, <1>4, <1>5, <1>6, <1>7, <1>8, <1>9, <1>10, <1>11, <1>12
        DEF Next, CommitStep

(* IndInv is an invariant of LvmtDB, for all keys, indices, levels, slots,
   shards and bounds: no sequence of reads, writes, commits, panics, saves and
   restarts leads commit_tree past a written tree or into an unloaded one. *)
THEOREM Inductive == Spec => []IndInv
<1>1. Init => IndInv
  BY InitInd
<1>2. IndInv /\ [Next]_vars => IndInv'
  BY NextInd
<1> QED BY <1>1, <1>2, PTL DEF Spec

------------------------------------------------------------------------------
(* The theorems. *)

(* LvmtDB stays in its types, whatever is read, written, committed, saved
   and reopened: no commitment component is ever negative, and
   allocate_vacant_slot hands out no slot beyond the node's capacity. *)
THEOREM TypeCorrect == Spec => []TypeOK
<1>1. IndInv => TypeOK
  BY DEF IndInv
<1> QED BY <1>1, Inductive, PTL

(* commit_tree descends to every tree that inc_key_ver has written. *)
THEOREM DirtyTreesReached == Spec => []DirtyReachable
<1>1. IndInv => DirtyReachable
  BY DEF IndInv, ForestInv, ForestOK, ChainOK, DirtyOK, DirtyReachable
<1> QED BY <1>1, Inductive, PTL

(* The unwraps of get_tree_mut and commit_tree never meet a None. *)
THEOREM TreesLoaded == Spec => []MarkedTreesLoaded
<1>1. IndInv => MarkedTreesLoaded
  BY DEF IndInv, ForestInv, ForestOK, LoadedOK, KidsOK, MarkedTreesLoaded
<1> QED BY <1>1, Inductive, PTL

(* After a commit the database lacks nothing but the root tree. *)
THEOREM CommitFlushes == Spec => []OnlyRootUnflushed
<1>1. IndInv => OnlyRootUnflushed
  BY DEF IndInv, FlushInv, OnlyRootUnflushed
<1> QED BY <1>1, Inductive, PTL

------------------------------------------------------------------------------
(* The inductive invariant: a cached entry is the stored one, so that get and
   commit read what the last commit left; a commit starts with empty batches and
   has drained the queue when it turns to the trees; and every entry of the key
   batch is one version above the stored entry of its key, in the same slot. *)

CacheOK == \A k \in Keys : cache[k] \in {Uncached, dbKey[k]}

PhaseOK ==
  /\ pc = "idle" => write_ops = << >> /\ hashes = << >>
  /\ pc = "trees" => uncommitted = << >>

NextVersion(entry, info) ==
  IF entry = Missing
    THEN info.version = 1
    ELSE /\ info.level = entry.version.level
         /\ info.slot = entry.version.slot
         /\ info.version = entry.version.version + 1

BatchOK ==
  \A j \in DOMAIN write_ops : NextVersion(dbKey[write_ops[j].key], write_ops[j].val.version)

StoreInv == CacheOK /\ PhaseOK /\ BatchOK

(* Under the invariant the cache does not show. *)
LEMMA LookupIsStored ==
  ASSUME CacheOK, NEW k \in Keys
  PROVE  Lookup(k) = dbKey[k]
BY DEF CacheOK, Lookup

(* A round of the key loop: the batch grows by the current write, or commit panics. *)
LEMMA WriteRound ==
  ASSUME IndInv, NEW info \in VerInfo, uncommitted # << >>, CommitWrite(info)
  PROVE  /\ \/ /\ info.version < MaxVersion
               /\ pc' = pc
               /\ uncommitted' = Tail(uncommitted)
               /\ \E op \in WriteOp :
                    /\ write_ops' = Append(write_ops, op)
                    /\ hashes' = Append(hashes, KeyValue(op.key, op.val.version, op.val.value))
                    /\ op.key = Current.key
                    /\ op.val.value = Current.val
                    /\ op.val.version.level = info.level
                    /\ op.val.version.slot = info.slot
                    /\ op.val.version.version = info.version + 1
                    /\ op.val.position = [epoch |-> dbEpoch, position |-> Len(write_ops)]
            \/ pc' = "panic" /\ UNCHANGED <<write_ops, hashes, uncommitted>>
         /\ level' = 0
         /\ UNCHANGED storeVars
<1> DEFINE next == [info EXCEPT !.version = info.version + 1]
           op == [key |-> Current.key,
                  val |-> [value    |-> Current.val,
                           version  |-> next,
                           position |-> [epoch    |-> dbEpoch,
                                         position |-> Len(write_ops)]]]
<1>1. Current.key \in Keys /\ Current.val \in Values
  BY CurrentType DEF IndInv
<1>2. /\ next \in VerInfo /\ next.level = info.level /\ next.slot = info.slot
      /\ next.version = info.version + 1
  BY DEF VerInfo
<1>3. /\ \/ /\ info.version < MaxVersion
            /\ write_ops' = Append(write_ops, op)
            /\ hashes' = Append(hashes, KeyValue(Current.key, next, Current.val))
            /\ uncommitted' = Tail(uncommitted)
            /\ pc' = pc
         \/ pc' = "panic" /\ UNCHANGED <<write_ops, hashes, uncommitted>>
      /\ level' = 0
      /\ UNCHANGED storeVars
  BY DEF CommitWrite
<1> HIDE DEF next
<1>4. op \in WriteOp
  <2>1. dbEpoch \in Nat /\ Len(write_ops) \in Nat
    BY StoreConstants DEF IndInv, TypeOK
  <2>2. op.val \in Value
    BY <1>1, <1>2, <2>1 DEF Value, EpochPosition
  <2> QED BY <1>1, <2>2 DEF WriteOp
<1>5. /\ op.key = Current.key /\ op.val.value = Current.val /\ op.val.version = next
      /\ op.val.position = [epoch |-> dbEpoch, position |-> Len(write_ops)]
  OBVIOUS
<1> HIDE DEF op
<1> QED BY <1>2, <1>3, <1>4, <1>5

(* The entry that a batch appends to keeps its place. *)
LEMMA AppendOp ==
  ASSUME write_ops \in Seq(WriteOp), NEW op \in WriteOp, write_ops' = Append(write_ops, op)
  PROVE  /\ Len(write_ops) \in Nat
         /\ Len(write_ops') = Len(write_ops) + 1
         /\ DOMAIN write_ops' = 1..(Len(write_ops) + 1)
         /\ DOMAIN write_ops = 1..Len(write_ops)
         /\ write_ops'[Len(write_ops) + 1] = op
         /\ \A j \in 1..Len(write_ops) : write_ops'[j] = write_ops[j]
BY AppendProperties

(* A round of the key loop keeps the batch in order: the slot it was called with is
   the stored one, or is new. *)
LEMMA WriteRoundInv ==
  ASSUME IndInv, StoreInv, NEW info \in VerInfo, pc = "keys", uncommitted # << >>,
         CommitWrite(info),
         IF dbKey[Current.key] = Missing THEN info.version = 0 ELSE info = dbKey[Current.key].version
  PROVE  StoreInv'
<1>1. UNCHANGED storeVars /\ pc' \in {"keys", "panic"}
  BY WriteRound
<1>2. CacheOK' /\ PhaseOK'
  BY <1>1 DEF storeVars, StoreInv, CacheOK, PhaseOK
<1>3. ASSUME NEW op \in WriteOp, write_ops' = Append(write_ops, op), op.key = Current.key,
             op.val.version.level = info.level, op.val.version.slot = info.slot,
             op.val.version.version = info.version + 1
      PROVE  BatchOK'
  <2>1. /\ Len(write_ops) \in Nat
        /\ DOMAIN write_ops' = 1..(Len(write_ops) + 1)
        /\ DOMAIN write_ops = 1..Len(write_ops)
        /\ write_ops'[Len(write_ops) + 1] = op
        /\ \A j \in 1..Len(write_ops) : write_ops'[j] = write_ops[j]
    BY <1>3, AppendOp DEF IndInv, TypeOK
  <2>2. NextVersion(dbKey[op.key], op.val.version)
    BY <1>3 DEF NextVersion, VerInfo
  <2>3. ASSUME NEW j \in DOMAIN write_ops'
        PROVE  NextVersion(dbKey[write_ops'[j].key], write_ops'[j].val.version)
    <3>1. CASE j = Len(write_ops) + 1
      BY <2>1, <2>2, <3>1
    <3>2. CASE j # Len(write_ops) + 1
      <4>1. j \in DOMAIN write_ops /\ write_ops'[j] = write_ops[j]
        BY <2>1, <3>2
      <4> QED BY <4>1 DEF StoreInv, BatchOK
    <3> QED BY <3>1, <3>2
  <2>4. dbKey' = dbKey
    BY <1>1 DEF storeVars
  <2> QED BY <2>3, <2>4 DEF BatchOK, NextVersion
<1>4. ASSUME write_ops' = write_ops
      PROVE  BatchOK'
  <2>1. dbKey' = dbKey
    BY <1>1 DEF storeVars
  <2> QED BY <1>4, <2>1 DEF StoreInv, BatchOK, NextVersion
<1>5. \/ \E op \in WriteOp :
           /\ write_ops' = Append(write_ops, op)
           /\ op.key = Current.key
           /\ op.val.version.level = info.level
           /\ op.val.version.slot = info.slot
           /\ op.val.version.version = info.version + 1
      \/ write_ops' = write_ops
  BY WriteRound
<1>6. BatchOK'
  BY <1>3, <1>4, <1>5
<1> QED BY <1>2, <1>6 DEF StoreInv

(* The slot the key loop works with: the stored one of a known key, or a vacant one at
   the level that the search has reached. *)
LEMMA KnownSlot ==
  ASSUME IndInv, StoreInv, CommitKnownKey
  PROVE  /\ pc = "keys" /\ uncommitted # << >>
         /\ Current.key \in Keys
         /\ dbKey[Current.key] # Missing
         /\ dbKey[Current.key].version \in VerInfo
         /\ CommitWrite(dbKey[Current.key].version)
<1>1. pc = "keys" /\ uncommitted # << >> /\ Lookup(Current.key) # Missing
      /\ CommitWrite(Lookup(Current.key).version)
  BY DEF CommitKnownKey
<1>2. Current.key \in Keys
  BY <1>1, CurrentType DEF IndInv
<1>3. Lookup(Current.key) = dbKey[Current.key]
  BY <1>2, LookupIsStored DEF StoreInv
<1>4. Lookup(Current.key).version \in VerInfo
  BY <1>1, <1>2, LookupType DEF IndInv
<1> QED BY <1>1, <1>2, <1>3, <1>4

(* The same for a key without a version. *)
LEMMA NewSlot ==
  ASSUME IndInv, StoreInv, CommitNewKey
  PROVE  /\ pc = "keys" /\ uncommitted # << >>
         /\ Current.key \in Keys
         /\ dbKey[Current.key] = Missing
         /\ level \in 0..(MaxLevel - 1)
         /\ ~SlotsFull(Current.key, level)
         /\ VacantSlot(Current.key, level) \in VerInfo
         /\ VacantSlot(Current.key, level).version = 0
         /\ CommitWrite(VacantSlot(Current.key, level))
<1>1. pc = "keys" /\ uncommitted # << >> /\ Lookup(Current.key) = Missing
      /\ level < MaxLevel /\ ~SlotsFull(Current.key, level)
      /\ CommitWrite(VacantSlot(Current.key, level))
  BY DEF CommitNewKey
<1>2. Current.key \in Keys
  BY <1>1, CurrentType DEF IndInv
<1>3. Lookup(Current.key) = dbKey[Current.key]
  BY <1>2, LookupIsStored DEF StoreInv
<1>4. level \in 0..(MaxLevel - 1)
  BY <1>1, ForestConstants DEF IndInv, TypeOK
<1>5. TreeTypes
  BY TypeOKParts DEF IndInv
<1>6. VacantSlot(Current.key, level) \in VerInfo
  BY <1>1, <1>2, <1>4, <1>5, VacantSlotType
<1>7. VacantSlot(Current.key, level).version = 0
  BY DEF VacantSlot
<1> QED BY <1>1, <1>2, <1>3, <1>4, <1>6, <1>7

(* The new store. *)
LEMMA StoreInit == Init => StoreInv
<1> SUFFICES ASSUME Init PROVE StoreInv
  OBVIOUS
<1>1. \A k \in Keys : cache[k] = Uncached
  BY DEF Init, EmptyCache
<1>2. write_ops = << >> /\ hashes = << >> /\ pc = "idle"
  BY DEF Init
<1> QED BY <1>1, <1>2 DEF StoreInv, CacheOK, PhaseOK, BatchOK

(* Steps that change neither the database nor the batch. *)
LEMMA StoreKept ==
  ASSUME StoreInv, UNCHANGED <<dbKey, write_ops>>, CacheOK', PhaseOK'
  PROVE  StoreInv'
BY DEF StoreInv, BatchOK, NextVersion

(* Every step keeps the invariant. *)
LEMMA StoreNext == IndInv /\ StoreInv /\ [Next]_vars => StoreInv'
<1> SUFFICES ASSUME IndInv, StoreInv, [Next]_vars PROVE StoreInv'
  OBVIOUS
<1>1. ASSUME NEW k \in ReadKeys, Get(k) PROVE StoreInv'
  <2>1. k \in Keys
    BY StoreConstants
  <2>2. Lookup(k) = dbKey[k]
    BY <2>1, LookupIsStored DEF StoreInv
  <2>3. /\ cache' = [cache EXCEPT ![k] = dbKey[k]] /\ dbKey' = dbKey
        /\ write_ops' = write_ops /\ pc' = pc /\ hashes' = hashes
        /\ uncommitted' = uncommitted
    BY <1>1, <2>2 DEF Get
  <2>4. cache \in [Keys -> Value \cup {Missing, Uncached}]
    BY DEF IndInv, TypeOK
  <2>5. CacheOK'
    BY <2>3, <2>4 DEF StoreInv, CacheOK
  <2>6. PhaseOK'
    BY <2>3 DEF StoreInv, PhaseOK
  <2> QED BY <2>3, <2>5, <2>6, StoreKept
<1>2. ASSUME NEW k \in Keys, NEW v \in Values, Set(k, v) PROVE StoreInv'
  <2>1. UNCHANGED <<dbKey, write_ops, cache, pc, hashes>> /\ pc = "idle"
    BY <1>2 DEF Set, storeVars
  <2>2. CacheOK' /\ PhaseOK'
    BY <2>1 DEF StoreInv, CacheOK, PhaseOK
  <2> QED BY <2>1, <2>2, StoreKept
<1>3. ASSUME NEW k \in Keys, Prove(k) PROVE StoreInv'
  <2>1. UNCHANGED <<dbKey, write_ops, cache, hashes, uncommitted>> /\ pc = "idle"
        /\ pc' \in {"idle", "panic"}
    BY <1>3 DEF Prove, storeVars
  <2>2. CacheOK' /\ PhaseOK'
    BY <2>1 DEF StoreInv, CacheOK, PhaseOK
  <2> QED BY <2>1, <2>2, StoreKept
<1>4. ASSUME CommitBegin \/ AllocatePanic \/ CommitTreesBegin PROVE StoreInv'
  <2>1. /\ UNCHANGED <<dbKey, write_ops, cache, hashes, uncommitted>>
        /\ pc' \in {"keys", "panic"} \/ (pc' = "trees" /\ uncommitted = << >>)
    BY <1>4 DEF CommitBegin, AllocatePanic, CommitTreesBegin, storeVars
  <2>2. CacheOK' /\ PhaseOK'
    BY <2>1 DEF StoreInv, CacheOK, PhaseOK
  <2> QED BY <2>1, <2>2, StoreKept
<1>5. CASE CommitKnownKey
  BY <1>5, KnownSlot, WriteRoundInv
<1>6. CASE CommitNewKey
  <2>1. PICK info : info = VacantSlot(Current.key, level)
    OBVIOUS
  <2> QED BY <1>6, <2>1, NewSlot, WriteRoundInv
<1>7. CASE AllocateSkip \/ CommitOneTree
  <2>1. UNCHANGED <<dbKey, write_ops, cache, uncommitted, pc>> /\ pc \in {"keys", "trees"}
    BY <1>7 DEF AllocateSkip, CommitOneTree, storeVars
  <2>2. CacheOK' /\ PhaseOK'
    BY <2>1 DEF StoreInv, CacheOK, PhaseOK
  <2> QED BY <2>1, <2>2, StoreKept
<1>8. CASE CommitEnd
  <2>1. cache' = EmptyCache /\ hashes' = << >> /\ write_ops' = << >> /\ pc' = "idle"
    BY <1>8 DEF CommitEnd
  <2> QED BY <2>1 DEF StoreInv, CacheOK, PhaseOK, BatchOK, EmptyCache
<1>9. CASE FlushRoot
  <2>1. UNCHANGED <<dbKey, write_ops, cache, uncommitted, pc, hashes>>
    BY <1>9 DEF FlushRoot
  <2>2. CacheOK' /\ PhaseOK'
    BY <2>1 DEF StoreInv, CacheOK, PhaseOK
  <2> QED BY <2>1, <2>2, StoreKept
<1>10. CASE Restart
  <2>1. cache' = EmptyCache /\ hashes' = << >> /\ write_ops' = << >> /\ pc' = "idle"
    BY <1>10 DEF Restart
  <2> QED BY <2>1 DEF StoreInv, CacheOK, PhaseOK, BatchOK, EmptyCache
<1>11. CASE UNCHANGED vars
  <2>1. UNCHANGED <<dbKey, write_ops, cache, uncommitted, pc, hashes>>
    BY <1>11 DEF vars, storeVars
  <2>2. CacheOK' /\ PhaseOK'
    BY <2>1 DEF StoreInv, CacheOK, PhaseOK
  <2> QED BY <2>1, <2>2, StoreKept
<1> QED BY <1>1, <1>2, <1>3, <1>4, <1>5, <1>6, <1>7, <1>8, <1>9, <1>10, <1>11
        DEF Next, CommitStep

(* The invariant of the store, with that of its trees. *)
THEOREM StoreInductive == Spec => [](IndInv /\ StoreInv)
<1>1. Init => IndInv /\ StoreInv
  BY InitInd, StoreInit
<1>2. IndInv /\ StoreInv /\ [Next]_vars => (IndInv /\ StoreInv)'
  BY NextInd, StoreNext
<1> QED BY <1>1, <1>2, PTL DEF Spec

------------------------------------------------------------------------------
(* What a batch does to a column. *)

(* A key keeps its entry or takes the last one that the batch holds for it. *)
LEMMA BatchEntry ==
  ASSUME NEW column, DOMAIN column = Keys, NEW ops, NEW N \in Nat, DOMAIN ops = 1..N,
         NEW k \in Keys
  PROVE  \/ /\ WritesTo(ops, k) = {}
            /\ ApplyBatch(column, ops)[k] = column[k]
         \/ \E m \in WritesTo(ops, k) :
              /\ \A j \in WritesTo(ops, k) : j <= m
              /\ ApplyBatch(column, ops)[k] = ops[m].val
<1> DEFINE W == WritesTo(ops, k)
           top == CHOOSE m \in W : \A j \in W : j <= m
<1>1. ApplyBatch(column, ops)[k] = IF W = {} THEN column[k] ELSE ops[top].val
  BY DEF ApplyBatch
<1>2. CASE W = {}
  BY <1>1, <1>2
<1>3. CASE W # {}
  <2>1. W \subseteq 1..N
    BY DEF WritesTo
  <2>2. \E m \in W : \A j \in W : j <= m
    BY <1>3, <2>1, GreatestIndex
  <2>3. top \in W /\ \A j \in W : j <= top
    BY <2>2
  <2>4. ApplyBatch(column, ops)[k] = ops[top].val
    BY <1>1, <1>3
  <2> QED BY <2>3, <2>4
<1> QED BY <1>2, <1>3

(* The abstract store's batch is the same operator. *)
LEMMA SameBatch ==
  ASSUME NEW column, NEW ops
  PROVE  Abstract!ApplyBatch(column, ops) = ApplyBatch(column, ops)
BY DEF Abstract!ApplyBatch, ApplyBatch, Abstract!WritesTo, WritesTo

(* Applying the batch and then forgetting versions and positions is the same as
   forgetting them first. *)
LEMMA BatchValues ==
  ASSUME TypeOK
  PROVE  [k \in Keys |-> ValueOf(ApplyBatch(dbKey, write_ops)[k])]
           = ApplyBatch([k \in Keys |-> ValueOf(dbKey[k])], BatchWrites)
<1>0. PICK col : col = [k \in Keys |-> ValueOf(dbKey[k])]
  OBVIOUS
<1>1. /\ Len(write_ops) \in Nat /\ DOMAIN write_ops = 1..Len(write_ops)
      /\ \A j \in 1..Len(write_ops) : write_ops[j] \in WriteOp
      /\ DOMAIN dbKey = Keys
  BY DEF TypeOK
<1>2. /\ DOMAIN BatchWrites = 1..Len(write_ops)
      /\ \A j \in 1..Len(write_ops) :
           BatchWrites[j].key = write_ops[j].key /\ BatchWrites[j].val = write_ops[j].val.value
  BY DEF BatchWrites
<1>3. DOMAIN col = Keys /\ \A k \in Keys : col[k] = ValueOf(dbKey[k])
  BY <1>0
<1>4. ASSUME NEW k \in Keys
      PROVE  ApplyBatch(col, BatchWrites)[k] = ValueOf(ApplyBatch(dbKey, write_ops)[k])
  <2>1. WritesTo(BatchWrites, k) = WritesTo(write_ops, k)
    BY <1>1, <1>2 DEF WritesTo
  <2>2. WritesTo(write_ops, k) \subseteq 1..Len(write_ops)
    BY <1>1 DEF WritesTo
  <2>3. \/ /\ WritesTo(write_ops, k) = {}
           /\ ApplyBatch(dbKey, write_ops)[k] = dbKey[k]
        \/ \E m \in WritesTo(write_ops, k) :
             /\ \A j \in WritesTo(write_ops, k) : j <= m
             /\ ApplyBatch(dbKey, write_ops)[k] = write_ops[m].val
    BY <1>1, BatchEntry
  <2>7. \/ /\ WritesTo(BatchWrites, k) = {}
           /\ ApplyBatch(col, BatchWrites)[k] = col[k]
        \/ \E m \in WritesTo(BatchWrites, k) :
             /\ \A j \in WritesTo(BatchWrites, k) : j <= m
             /\ ApplyBatch(col, BatchWrites)[k] = BatchWrites[m].val
    <3>1. Len(write_ops) \in Nat
      BY <1>1
    <3>2. DOMAIN BatchWrites = 1..Len(write_ops)
      BY <1>2
    <3>3. DOMAIN col = Keys
      BY <1>3
    <3> QED
      BY <3>1, <3>2, <3>3, BatchEntry
  <2>4. \/ /\ WritesTo(write_ops, k) = {}
           /\ ApplyBatch(col, BatchWrites)[k] = col[k]
        \/ \E m \in WritesTo(write_ops, k) :
             /\ \A j \in WritesTo(write_ops, k) : j <= m
             /\ ApplyBatch(col, BatchWrites)[k] = BatchWrites[m].val
    BY <2>1, <2>7
  <2>5. CASE WritesTo(write_ops, k) = {}
    BY <1>3, <2>3, <2>4, <2>5
  <2>6. CASE WritesTo(write_ops, k) # {}
    <3>1. PICK m \in WritesTo(write_ops, k) :
            /\ \A j \in WritesTo(write_ops, k) : j <= m
            /\ ApplyBatch(dbKey, write_ops)[k] = write_ops[m].val
      BY <2>3, <2>6
    <3>2. PICK n \in WritesTo(write_ops, k) :
            /\ \A j \in WritesTo(write_ops, k) : j <= n
            /\ ApplyBatch(col, BatchWrites)[k] = BatchWrites[n].val
      BY <2>4, <2>6
    <3>3. m = n
      BY <2>2, <3>1, <3>2
    <3>4. m \in 1..Len(write_ops) /\ BatchWrites[m].val = write_ops[m].val.value
      BY <1>2, <2>2
    <3>5. write_ops[m].val \in Value
      BY <1>1, <3>4 DEF WriteOp
    <3>6. ValueOf(write_ops[m].val) = write_ops[m].val.value
      BY <3>5, EntryConstants DEF ValueOf
    <3> QED BY <3>1, <3>2, <3>3, <3>4, <3>6
  <2> QED BY <2>5, <2>6
<1>5. ApplyBatch(col, BatchWrites) = [k \in Keys |-> ApplyBatch(col, BatchWrites)[k]]
  BY <1>3 DEF ApplyBatch
<1>6. ApplyBatch(col, BatchWrites) = [k \in Keys |-> ValueOf(ApplyBatch(dbKey, write_ops)[k])]
  BY <1>4, <1>5
<1> QED BY <1>0, <1>6

------------------------------------------------------------------------------
(* LvmtDB implements the abstract store. *)

(* The abstract store's variables, in terms of LvmtDB's. *)
ShownStore == [k \in Keys |-> ValueOf(dbKey[k])]
ShownPending == BatchWrites \o uncommitted
ShownSaved == [k \in Keys |-> ValueOf(saved.key[k])]

PendingWrite == [key : Keys, val : Values]

(* Moving the head of a queue to the end of the sequence in front of it. *)
LEMMA MoveHead ==
  ASSUME NEW S, NEW a \in Seq(S), NEW u \in Seq(S), u # << >>
  PROVE  Append(a, Head(u)) \o Tail(u) = a \o u
<1> DEFINE b == Append(a, Head(u))
           t == Tail(u)
<1>1. /\ Head(u) \in S /\ t \in Seq(S) /\ Len(t) = Len(u) - 1
      /\ \A i \in 1..Len(t) : t[i] = u[i + 1]
      /\ Head(u) = u[1]
      /\ Len(u) \in Nat \ {0} /\ Len(a) \in Nat /\ Len(t) \in Nat
  BY HeadTailProperties, EmptySeq, LenProperties
<1>2. /\ b \in Seq(S) /\ Len(b) = Len(a) + 1
      /\ \A i \in 1..Len(a) : b[i] = a[i]
      /\ b[Len(a) + 1] = u[1]
  BY <1>1, AppendProperties
<1> HIDE DEF b, t
<1>3. /\ b \o t \in Seq(S) /\ Len(b \o t) = Len(a) + Len(u)
      /\ \A i \in 1..(Len(b) + Len(t)) :
           (b \o t)[i] = IF i <= Len(b) THEN b[i] ELSE t[i - Len(b)]
  <2>1. Len(b) + Len(t) = Len(a) + Len(u)
    BY <1>1, <1>2
  <2>2. /\ b \o t \in Seq(S) /\ Len(b \o t) = Len(b) + Len(t)
        /\ \A i \in 1..(Len(b) + Len(t)) :
             (b \o t)[i] = IF i <= Len(b) THEN b[i] ELSE t[i - Len(b)]
    BY <1>1, <1>2, ConcatProperties
  <2> QED BY <2>1, <2>2
<1>4. /\ a \o u \in Seq(S) /\ Len(a \o u) = Len(a) + Len(u)
      /\ \A i \in 1..(Len(a) + Len(u)) :
           (a \o u)[i] = IF i <= Len(a) THEN a[i] ELSE u[i - Len(a)]
  BY ConcatProperties
<1>5. ASSUME NEW i \in 1..(Len(a) + Len(u))
      PROVE  (b \o t)[i] = (a \o u)[i]
  <2>1. CASE i <= Len(a)
    BY <1>1, <1>2, <1>3, <1>4, <2>1
  <2>2. CASE i = Len(a) + 1
    BY <1>1, <1>2, <1>3, <1>4, <2>2
  <2>3. CASE i > Len(a) + 1
    <3>1. /\ (b \o t)[i] = t[i - Len(b)] /\ (a \o u)[i] = u[i - Len(a)]
          /\ i - Len(b) \in 1..Len(t) /\ (i - Len(b)) + 1 = i - Len(a)
      BY <1>1, <1>2, <1>3, <1>4, <2>3
    <3> QED BY <1>1, <3>1
  <2>4. i <= Len(a) \/ i = Len(a) + 1 \/ i > Len(a) + 1
    <3>1. Len(a) \in Nat /\ Len(u) \in Nat
      BY <1>1
    <3> QED BY <3>1
  <2> QED BY <2>1, <2>2, <2>3, <2>4
<1>6. b \o t = a \o u
  BY <1>3, <1>4, <1>5, SeqEqual
<1> QED BY <1>6 DEF b, t

(* The key batch as writes of the abstract store. *)
LEMMA BatchWritesType ==
  ASSUME TypeOK
  PROVE  /\ BatchWrites \in Seq(PendingWrite)
         /\ Len(BatchWrites) = Len(write_ops)
         /\ uncommitted \in Seq(PendingWrite)
         /\ ShownPending \in Seq(PendingWrite)
<1>1. Len(write_ops) \in Nat /\ \A j \in 1..Len(write_ops) : write_ops[j] \in WriteOp
  BY DEF TypeOK
<1>2. \A j \in 1..Len(write_ops) :
        [key |-> write_ops[j].key, val |-> write_ops[j].val.value] \in PendingWrite
  BY <1>1 DEF WriteOp, Value, PendingWrite
<1>3. BatchWrites \in [1..Len(write_ops) -> PendingWrite]
  BY <1>2 DEF BatchWrites
<1>4. BatchWrites \in Seq(PendingWrite) /\ Len(BatchWrites) = Len(write_ops)
  BY <1>1, <1>3
<1>5. uncommitted \in Seq(PendingWrite)
  BY DEF TypeOK, PendingWrite
<1> QED BY <1>4, <1>5, ConcatProperties DEF ShownPending

(* A round of the key loop moves a write from the queue to the batch: pending writes
   stay the same. *)
LEMMA RoundHidden ==
  ASSUME IndInv, IndInv', uncommitted # << >>, NEW op \in WriteOp,
         write_ops' = Append(write_ops, op), op.key = Current.key, op.val.value = Current.val,
         uncommitted' = Tail(uncommitted)
  PROVE  ShownPending' = ShownPending
<1>1. /\ Len(write_ops) \in Nat /\ Len(write_ops') = Len(write_ops) + 1
      /\ write_ops'[Len(write_ops) + 1] = op
      /\ \A j \in 1..Len(write_ops) : write_ops'[j] = write_ops[j]
  BY AppendOp DEF IndInv, TypeOK
<1>2. /\ BatchWrites \in Seq(PendingWrite) /\ Len(BatchWrites) = Len(write_ops)
      /\ uncommitted \in Seq(PendingWrite)
  BY BatchWritesType DEF IndInv
<1>3. /\ BatchWrites' \in Seq(PendingWrite) /\ Len(BatchWrites') = Len(write_ops')
  <2>1. TypeOK'
    BY DEF IndInv
  <2>2. Len(write_ops') \in Nat /\ \A j \in 1..Len(write_ops') : write_ops'[j] \in WriteOp
    BY <2>1 DEF TypeOK
  <2>3. \A j \in 1..Len(write_ops') :
        [key |-> write_ops'[j].key, val |-> write_ops'[j].val.value] \in PendingWrite
    BY <2>2 DEF WriteOp, Value, PendingWrite
  <2>4. BatchWrites' \in [1..Len(write_ops') -> PendingWrite]
    BY <2>3 DEF BatchWrites
  <2> QED BY <2>2, <2>4
<1>4. Head(uncommitted) \in PendingWrite /\ Head(uncommitted) = [key |-> op.key, val |-> op.val.value]
  <2>1. Head(uncommitted) \in PendingWrite
    BY <1>2, HeadTailProperties
  <2> QED BY <2>1 DEF PendingWrite, Current
<1>5. /\ \A j \in 1..Len(write_ops) :
           BatchWrites[j] = [key |-> write_ops[j].key, val |-> write_ops[j].val.value]
      /\ \A j \in 1..Len(write_ops') :
           BatchWrites'[j] = [key |-> write_ops'[j].key, val |-> write_ops'[j].val.value]
  BY DEF BatchWrites
<1>6. BatchWrites' = Append(BatchWrites, Head(uncommitted))
  <2> DEFINE A == Append(BatchWrites, Head(uncommitted))
  <2>1. /\ A \in Seq(PendingWrite) /\ Len(A) = Len(write_ops) + 1
        /\ \A i \in 1..Len(write_ops) : A[i] = BatchWrites[i]
        /\ A[Len(write_ops) + 1] = Head(uncommitted)
    BY <1>2, <1>4, AppendProperties
  <2> HIDE DEF A
  <2>2. ASSUME NEW i \in 1..Len(BatchWrites')
        PROVE  BatchWrites'[i] = A[i]
    <3>1. CASE i = Len(write_ops) + 1
      BY <1>1, <1>3, <1>4, <1>5, <2>1, <3>1
    <3>2. CASE i # Len(write_ops) + 1
      <4>1. i \in 1..Len(write_ops) /\ i \in 1..Len(write_ops')
        BY <1>1, <1>3, <3>2
      <4> QED BY <1>1, <1>5, <2>1, <4>1
    <3> QED BY <3>1, <3>2
  <2>3. Len(BatchWrites') = Len(A)
    BY <1>1, <1>3, <2>1
  <2>4. BatchWrites' = A
    BY <1>3, <2>1, <2>2, <2>3, SeqEqual
  <2> QED BY <2>4 DEF A
<1>7. Append(BatchWrites, Head(uncommitted)) \o Tail(uncommitted) = BatchWrites \o uncommitted
  BY <1>2, MoveHead
<1> QED BY <1>6, <1>7 DEF ShownPending

(* The empty store is the empty abstract store. *)
LEMMA ShownInit == Init => Abstract!Init
<1> SUFFICES ASSUME Init PROVE Abstract!Init
  OBVIOUS
<1>1. \A k \in Keys : ValueOf(dbKey[k]) = Missing /\ ValueOf(saved.key[k]) = Missing
  BY DEF Init, EmptyKeys, EmptySaved, ValueOf
<1>2. BatchWrites \o uncommitted = << >>
  <2>1. write_ops = << >> /\ uncommitted = << >>
    BY DEF Init
  <2>2. IndInv
    BY InitInd
  <2>3. BatchWrites \in Seq(PendingWrite) /\ Len(BatchWrites) = 0
    BY <2>1, <2>2, BatchWritesType DEF IndInv
  <2>4. BatchWrites = << >>
    BY <2>3, EmptySeq
  <2> QED BY <2>1, <2>4
<1>3. answer = NoAnswer
  BY DEF Init
<1> QED BY <1>1, <1>2, <1>3 DEF Abstract!Init, Abstract!EmptyStore, Abstract!NoAnswer, NoAnswer

(* Nothing is pending when queue and batch are empty. *)
LEMMA NothingPending ==
  ASSUME write_ops' = << >>, uncommitted' = << >>
  PROVE  ShownPending' = << >>
<1>1. Len(write_ops') = 0
  OBVIOUS
<1>2. BatchWrites' \in [1..0 -> PendingWrite]
  BY <1>1 DEF BatchWrites
<1>3. BatchWrites' \in Seq(PendingWrite) /\ Len(BatchWrites') = 0
  BY <1>2
<1>4. BatchWrites' = << >>
  BY <1>3, EmptySeq
<1> QED BY <1>4 DEF ShownPending

(* get answers from the abstract store: the epoch cache does not show. *)
LEMMA GetShown ==
  ASSUME IndInv, StoreInv, NEW k \in Keys, Get(k)
  PROVE  Abstract!Get(k)
<1>1. Lookup(k) = dbKey[k]
  BY LookupIsStored DEF StoreInv
<1>2. /\ answer' = [key |-> k, val |-> ValueOf(dbKey[k])]
      /\ UNCHANGED <<dbKey, write_ops, uncommitted, saved>>
  BY <1>1 DEF Get, ValueOf
<1>3. UNCHANGED <<ShownStore, ShownPending, ShownSaved>>
  BY <1>2 DEF ShownStore, ShownPending, ShownSaved, BatchWrites
<1>4. ShownStore[k] = ValueOf(dbKey[k])
  BY DEF ShownStore
<1> QED BY <1>2, <1>3, <1>4 DEF Abstract!Get, ShownStore, ShownPending, ShownSaved

(* set appends to the pending writes: the batch is empty outside of commit. *)
LEMMA SetShown ==
  ASSUME IndInv, StoreInv, NEW k \in Keys, NEW v \in Values, Set(k, v)
  PROVE  Abstract!Set(k, v)
<1>1. /\ uncommitted' = Append(uncommitted, [key |-> k, val |-> v])
      /\ UNCHANGED <<dbKey, write_ops, answer, saved>>
  BY DEF Set, storeVars
<1>2. /\ BatchWrites \in Seq(PendingWrite) /\ uncommitted \in Seq(PendingWrite)
      /\ [key |-> k, val |-> v] \in PendingWrite
  BY BatchWritesType DEF IndInv, PendingWrite
<1>3. BatchWrites = << >>
  <2>1. write_ops = << >>
    BY DEF StoreInv, PhaseOK, Set
  <2>2. Len(BatchWrites) = 0
    BY <2>1, BatchWritesType DEF IndInv
  <2> QED BY <1>2, <2>2, EmptySeq
<1>4. BatchWrites' = BatchWrites
  BY <1>1 DEF BatchWrites
<1>5. ShownPending = uncommitted /\ ShownPending' = uncommitted'
  <2>1. uncommitted' \in Seq(PendingWrite)
    BY <1>1, <1>2, AppendProperties
  <2>2. << >> \o uncommitted = uncommitted /\ << >> \o uncommitted' = uncommitted'
    BY <1>2, <2>1, ConcatEmptySeq
  <2> QED BY <1>3, <1>4, <2>2 DEF ShownPending
<1>6. ShownPending' = Append(ShownPending, [key |-> k, val |-> v])
  BY <1>1, <1>5
<1>7. UNCHANGED <<ShownStore, ShownSaved>>
  BY <1>1 DEF ShownStore, ShownSaved
<1> QED BY <1>1, <1>6, <1>7 DEF Abstract!Set, ShownStore, ShownPending, ShownSaved

(* The last step of commit is the abstract commit. *)
LEMMA CommitShown ==
  ASSUME IndInv, StoreInv, CommitEnd
  PROVE  Abstract!Commit
<1>1. /\ pc = "trees" /\ dbKey' = ApplyBatch(dbKey, write_ops) /\ write_ops' = << >>
      /\ UNCHANGED <<uncommitted, answer, saved>>
  BY DEF CommitEnd
<1>2. uncommitted = << >>
  BY <1>1 DEF StoreInv, PhaseOK
<1>3. ShownPending = BatchWrites
  BY <1>2, BatchWritesType, ConcatEmptySeq DEF IndInv, ShownPending
<1>4. ShownPending' = << >>
  BY <1>1, <1>2, NothingPending
<1>5. ShownStore' = ApplyBatch(ShownStore, ShownPending)
  <2>1. ShownStore' = [k \in Keys |-> ValueOf(ApplyBatch(dbKey, write_ops)[k])]
    BY <1>1 DEF ShownStore, ValueOf
  <2> QED BY <1>3, <2>1, BatchValues DEF IndInv, ShownStore
<1>6. ShownStore' = Abstract!ApplyBatch(ShownStore, ShownPending)
  BY <1>5, SameBatch
<1>7. ShownSaved' = ShownSaved
  BY <1>1 DEF ShownSaved
<1> QED BY <1>1, <1>4, <1>6, <1>7 DEF Abstract!Commit, ShownStore, ShownPending, ShownSaved

(* A warm-up saves the store as it is, or not at all. *)
LEMMA SaveShown ==
  ASSUME IndInv, StoreInv, FlushRoot
  PROVE  Abstract!Save \/ UNCHANGED <<ShownStore, ShownPending, answer, ShownSaved>>
<1>1. /\ pc = "idle" /\ uncommitted = << >> /\ write_ops' = write_ops
      /\ uncommitted' = uncommitted /\ answer' = answer /\ dbKey' = dbKey
      /\ saved' = saved \/ saved'.key = dbKey
  BY DEF FlushRoot, DbAfterFlush
<1>2. write_ops = << >>
  BY <1>1 DEF StoreInv, PhaseOK
<1>3. UNCHANGED <<ShownStore, ShownPending, answer>>
  BY <1>1 DEF ShownStore, ShownPending, BatchWrites
<1>4. ShownPending = << >>
  BY <1>1, <1>2, <1>3, NothingPending
<1>5. CASE saved' = saved
  BY <1>3, <1>5 DEF ShownSaved
<1>6. CASE saved'.key = dbKey
  <2>1. ShownSaved' = ShownStore
    BY <1>6 DEF ShownSaved, ShownStore, ValueOf
  <2> QED BY <1>3, <1>4, <2>1 DEF Abstract!Save, ShownStore, ShownPending, ShownSaved
<1> QED BY <1>1, <1>5, <1>6

(* A new process sees what was saved. *)
LEMMA RestartShown ==
  ASSUME Restart
  PROVE  Abstract!Restart
<1>1. /\ dbKey' = saved.key /\ write_ops' = << >> /\ uncommitted' = << >>
      /\ answer' = NoAnswer /\ saved' = saved
  BY DEF Restart
<1>2. ShownPending' = << >>
  BY <1>1, NothingPending
<1>3. ShownStore' = ShownSaved /\ ShownSaved' = ShownSaved
  BY <1>1 DEF ShownStore, ShownSaved, ValueOf
<1> QED BY <1>1, <1>2, <1>3
        DEF Abstract!Restart, Abstract!NoAnswer, NoAnswer, ShownStore, ShownPending, ShownSaved

(* A round of the key loop does not show: a write moves from the queue to the batch, or
   commit panics before it does. *)
LEMMA RoundShown ==
  ASSUME IndInv, IndInv', NEW info \in VerInfo, uncommitted # << >>, CommitWrite(info)
  PROVE  UNCHANGED <<ShownStore, ShownPending, answer, ShownSaved>>
<1>1. UNCHANGED <<dbKey, answer, saved>>
  BY DEF CommitWrite, storeVars
<1>2. \/ /\ uncommitted' = Tail(uncommitted)
         /\ \E op \in WriteOp :
              write_ops' = Append(write_ops, op) /\ op.key = Current.key /\ op.val.value = Current.val
      \/ UNCHANGED <<write_ops, uncommitted>>
  BY WriteRound
<1>3. ShownPending' = ShownPending
  <2>1. CASE UNCHANGED <<write_ops, uncommitted>>
    BY <2>1 DEF ShownPending, BatchWrites
  <2> QED BY <1>2, <2>1, RoundHidden
<1> QED BY <1>1, <1>3 DEF ShownStore, ShownSaved

(* Every step is an abstract step or does not show. *)
LEMMA ShownNext ==
  IndInv /\ IndInv' /\ StoreInv /\ [Next]_vars
    => [Abstract!Next]_<<ShownStore, ShownPending, answer, ShownSaved>>
<1> SUFFICES ASSUME IndInv, IndInv', StoreInv, [Next]_vars
             PROVE  Abstract!Next \/ UNCHANGED <<ShownStore, ShownPending, answer, ShownSaved>>
  OBVIOUS
<1>1. ASSUME NEW k \in ReadKeys, Get(k) PROVE Abstract!Next
  <2>1. k \in Keys
    BY StoreConstants
  <2> QED BY <1>1, <2>1, GetShown DEF Abstract!Next
<1>2. ASSUME NEW k \in Keys, NEW v \in Values, Set(k, v) PROVE Abstract!Next
  BY <1>2, SetShown DEF Abstract!Next
<1>3. ASSUME UNCHANGED <<dbKey, write_ops, uncommitted, answer, saved>>
      PROVE  UNCHANGED <<ShownStore, ShownPending, answer, ShownSaved>>
  BY <1>3 DEF ShownStore, ShownPending, ShownSaved, BatchWrites
<1>4. ASSUME NEW k \in Keys, Prove(k)
      PROVE  UNCHANGED <<dbKey, write_ops, uncommitted, answer, saved>>
  BY <1>4 DEF Prove, storeVars
<1>5. CASE CommitBegin \/ AllocatePanic \/ CommitTreesBegin \/ AllocateSkip \/ CommitOneTree
  <2>1. UNCHANGED <<dbKey, write_ops, uncommitted, answer, saved>>
    BY <1>5 DEF CommitBegin, AllocatePanic, CommitTreesBegin, AllocateSkip, CommitOneTree, storeVars
  <2> QED BY <1>3, <2>1
<1>6. CASE CommitKnownKey
  BY <1>6, KnownSlot, RoundShown
<1>7. CASE CommitNewKey
  BY <1>7, NewSlot, RoundShown
<1>8. CASE CommitEnd
  BY <1>8, CommitShown DEF Abstract!Next
<1>9. CASE FlushRoot
  BY <1>9, SaveShown DEF Abstract!Next
<1>10. CASE Restart
  BY <1>10, RestartShown DEF Abstract!Next
<1>11. CASE UNCHANGED vars
  BY <1>3, <1>11 DEF vars, storeVars
<1> QED BY <1>1, <1>2, <1>3, <1>4, <1>5, <1>6, <1>7, <1>8, <1>9, <1>10, <1>11
        DEF Next, CommitStep

(* LvmtDB is an AuthStore, for every set of keys and values and every shape of the
   forest: its trees, versions, slots and epoch cache, and the rounds of commit, show
   neither through get nor through what a restart brings back. *)
THEOREM StoreRefinesAuthStore == Spec => ImplementsAuthStore
<1>1. Init => Abstract!Init
  BY ShownInit
<1>2. IndInv /\ IndInv' /\ StoreInv /\ [Next]_vars => [Abstract!Next]_<<ShownStore, ShownPending, answer, ShownSaved>>
  BY ShownNext
<1>3. IndInv /\ IndInv' /\ StoreInv /\ [Next]_vars => [Abstract!Next]_(Abstract!storeVars)
  BY <1>2 DEF Abstract!storeVars, ShownStore, ShownPending, ShownSaved
<1> QED BY <1>1, <1>3, StoreInductive, PTL DEF Spec, ImplementsAuthStore, Abstract!Spec

------------------------------------------------------------------------------
(* What a step of a running process never does. *)

(* The steps that leave the key column and the Merkle trees alone. *)
LEMMA ColumnsChange ==
  ASSUME [Next]_vars
  PROVE  CommitEnd \/ Restart \/ UNCHANGED <<dbKey, dbMerkle, dbEpoch>>
BY DEF Next, CommitStep, vars, storeVars, Get, Set, Prove, CommitBegin, CommitKnownKey,
       CommitWrite, AllocateSkip, CommitNewKey, AllocatePanic, CommitTreesBegin,
       CommitOneTree, FlushRoot

(* One step of EpochsImmutable. *)
LEMMA EpochsStep ==
  IndInv /\ [Next]_vars
    => [Restart \/ (/\ dbEpoch' >= dbEpoch
                    /\ \A e \in 0..(dbEpoch - 1) : dbMerkle'[e] = dbMerkle[e])]_vars
<1> SUFFICES ASSUME IndInv, [Next]_vars
             PROVE  Restart \/ (/\ dbEpoch' >= dbEpoch
                                /\ \A e \in 0..(dbEpoch - 1) : dbMerkle'[e] = dbMerkle[e])
  OBVIOUS
<1>1. dbEpoch \in 0..MaxEpoch /\ MaxEpoch \in Nat
      /\ DOMAIN dbMerkle = 0..(MaxEpoch - 1)
  BY StoreConstants DEF IndInv, TypeOK
<1>2. CASE CommitEnd
  <2>1. dbEpoch' = dbEpoch + 1 /\ dbMerkle' = [dbMerkle EXCEPT ![dbEpoch] = hashes]
    BY <1>2 DEF CommitEnd
  <2>2. \A e \in 0..(dbEpoch - 1) : e # dbEpoch /\ e \in 0..(MaxEpoch - 1)
    BY <1>1
  <2>3. \A e \in 0..(dbEpoch - 1) : dbMerkle'[e] = dbMerkle[e]
    BY <1>1, <2>1, <2>2
  <2>4. dbEpoch' >= dbEpoch
    BY <1>1, <2>1
  <2> QED BY <2>3, <2>4
<1>3. CASE UNCHANGED <<dbKey, dbMerkle, dbEpoch>>
  BY <1>1, <1>3
<1> QED BY <1>2, <1>3, ColumnsChange

(* The Merkle tree of an epoch, once dumped, is never rewritten by the process that
   dumped it: every position that a proof points at stays what it was. *)
THEOREM MerkleTreesStay == Spec => EpochsImmutable
<1>1. IndInv /\ [Next]_vars
        => [Restart \/ (/\ dbEpoch' >= dbEpoch
                        /\ \A e \in 0..(dbEpoch - 1) : dbMerkle'[e] = dbMerkle[e])]_vars
  BY EpochsStep
<1> QED BY <1>1, Inductive, PTL DEF Spec, EpochsImmutable

(* While commit is at the trees, only the return of a commit_tree keeps it there. *)
LEMMA TreesPhase ==
  ASSUME [Next]_vars, pc = "trees", pc' = "trees"
  PROVE  CommitOneTree \/ UNCHANGED vars
BY DEF Next, CommitStep, Get, Set, Prove, CommitBegin, CommitKnownKey, AllocateSkip,
       CommitNewKey, AllocatePanic, CommitTreesBegin, CommitEnd, FlushRoot, Restart

(* One step of FlushedTreesRest: the tree that returns is recorded in its parent, which
   is marked still. *)
LEMMA RestStep ==
  IndInv /\ [Next]_vars
    => [pc = "trees" /\ pc' = "trees" =>
          /\ mark' \subseteq mark
          /\ \A n \in Names \ mark' : data'[n] = data[n] /\ sub'[n] = sub[n]]_vars
<1> SUFFICES ASSUME IndInv, [Next]_vars, pc = "trees", pc' = "trees"
             PROVE  /\ mark' \subseteq mark
                    /\ \A n \in Names \ mark' : data'[n] = data[n] /\ sub'[n] = sub[n]
  OBVIOUS
<1>1. CASE CommitOneTree
  <2>1. PICK n \in Names : CommitTree(n, dbEpoch)
    BY <1>1 DEF CommitOneTree
  <2>2. TreeTypes /\ ForestInv /\ hashes \in Seq(Leaf) /\ dbEpoch \in Nat
    BY TypeOKParts, StoreConstants DEF IndInv, TypeOK
  <2>3. /\ mark' = mark \ {n} /\ Parent(n) \in mark'
        /\ \A t \in Names : t # Parent(n) => data'[t] = data[t] /\ sub'[t] = sub[t]
    BY <2>1, <2>2, CommitTreeStep
  <2> QED BY <2>3
<1>2. CASE UNCHANGED vars
  BY <1>2 DEF vars, treeVars
<1> QED BY <1>1, <1>2, TreesPhase

(* No round of a commit comes back to a tree that an earlier round has flushed, so that
   it does not matter whether the backend shows buffered writes. *)
THEOREM FlushedTreesAreLeft == Spec => FlushedTreesRest
<1>1. IndInv /\ [Next]_vars
        => [pc = "trees" /\ pc' = "trees" =>
              /\ mark' \subseteq mark
              /\ \A n \in Names \ mark' : data'[n] = data[n] /\ sub'[n] = sub[n]]_vars
  BY RestStep
<1> QED BY <1>1, Inductive, PTL DEF Spec, FlushedTreesRest

(* One step of VersionsAdvance: the entry a batch brings is one version above. *)
LEMMA VersionsStep ==
  IndInv /\ StoreInv /\ [Next]_vars
    => [Restart \/
        \A k \in Stored :
          /\ dbKey'[k] # Missing
          /\ dbKey'[k].version.level = dbKey[k].version.level
          /\ dbKey'[k].version.slot = dbKey[k].version.slot
          /\ dbKey'[k] # dbKey[k]
               => dbKey'[k].version.version > dbKey[k].version.version]_vars
<1> SUFFICES ASSUME IndInv, StoreInv, [Next]_vars, ~Restart, NEW k \in Stored
             PROVE  /\ dbKey'[k] # Missing
                    /\ dbKey'[k].version.level = dbKey[k].version.level
                    /\ dbKey'[k].version.slot = dbKey[k].version.slot
                    /\ dbKey'[k] # dbKey[k]
                         => dbKey'[k].version.version > dbKey[k].version.version
  OBVIOUS
<1>1. k \in Keys /\ dbKey[k] # Missing
  BY DEF Stored
<1>2. CASE dbKey'[k] = dbKey[k]
  BY <1>1, <1>2
<1>3. CASE dbKey'[k] # dbKey[k]
  <2>1. dbKey' = ApplyBatch(dbKey, write_ops)
    BY <1>3, ColumnsChange DEF CommitEnd
  <2>2. /\ Len(write_ops) \in Nat /\ DOMAIN write_ops = 1..Len(write_ops)
        /\ \A j \in 1..Len(write_ops) : write_ops[j] \in WriteOp
        /\ DOMAIN dbKey = Keys /\ dbKey[k] \in Value
    BY <1>1 DEF IndInv, TypeOK
  <2>3. \E m \in WritesTo(write_ops, k) : ApplyBatch(dbKey, write_ops)[k] = write_ops[m].val
    <3>1. \/ /\ WritesTo(write_ops, k) = {}
             /\ ApplyBatch(dbKey, write_ops)[k] = dbKey[k]
          \/ \E m \in WritesTo(write_ops, k) :
               /\ \A j \in WritesTo(write_ops, k) : j <= m
               /\ ApplyBatch(dbKey, write_ops)[k] = write_ops[m].val
      BY <1>1, <2>2, BatchEntry
    <3> QED BY <1>3, <2>1, <3>1
  <2>4. PICK m \in DOMAIN write_ops : write_ops[m].key = k /\ dbKey'[k] = write_ops[m].val
    BY <2>1, <2>3 DEF WritesTo
  <2>5. write_ops[m].val \in Value
    BY <2>2, <2>4 DEF WriteOp
  <2>6. NextVersion(dbKey[k], dbKey'[k].version)
    BY <2>4 DEF StoreInv, BatchOK
  <2>7. dbKey[k].version.version \in Nat /\ dbKey'[k] # Missing
    BY <2>2, <2>4, <2>5, EntryConstants DEF Value, VerInfo
  <2> QED BY <1>1, <2>6, <2>7 DEF NextVersion
<1> QED BY <1>2, <1>3

(* Within one process a stored key keeps its level and slot for good, and a commit that
   changes its entry raises its version. *)
THEOREM KeysKeepSlots == Spec => VersionsAdvance
<1>1. IndInv /\ StoreInv /\ [Next]_vars
        => [Restart \/
            \A k \in Stored :
              /\ dbKey'[k] # Missing
              /\ dbKey'[k].version.level = dbKey[k].version.level
              /\ dbKey'[k].version.slot = dbKey[k].version.slot
              /\ dbKey'[k] # dbKey[k]
                   => dbKey'[k].version.version > dbKey[k].version.version]_vars
  BY VersionsStep
<1> QED BY <1>1, StoreInductive, PTL DEF Spec, VersionsAdvance

------------------------------------------------------------------------------
(* The inductive invariant.  A tree that is not in memory has no commitment of its own,
   so that get_tree_mut takes the one its parent holds; and the saved directory, which
   Restart opens, commits to its nodes in the same way as the running store. *)

AbsentOK == \A n \in Names : n \notin forest => comm[n] = NoComm

LinkInv == AbsentOK /\ CommitmentsLinked

(* The commitment of tree n in the saved directory. *)
SavedComm(n) == IF n = Root THEN saved.root ELSE saved.sub[Parent(n)][LevelIndex(n)]

(* Commitment c is the one of the nodes of tree n. *)
BindsAt(c, node, inShard) ==
  c[0] = node.tree_version /\ (inShard => c = AsFrInt(node))

SavedBinds ==
  \A n \in Names, i \in Index :
    BindsAt(SavedComm(n)[i], saved.data[n][i], NodeInShard(n, i))

CommitInv == LinkInv /\ CommitmentBindsData /\ SavedBinds

------------------------------------------------------------------------------
(* What get_tree_mut, inc_key_ver, commit_tree, flush_all and a restart do to the
   commitment that get_tree_mut would hand out for each tree. *)

(* A tree below the root is the child of its parent at its index. *)
LEMMA ChildOfParent ==
  ASSUME NEW t \in Names, t # Root
  PROVE  t = Append(Parent(t), LevelIndex(t))
<1>1. Len(t) \in 1..(MaxLevel - 1) /\ Len(t) - 1 \in 0..(Len(t) - 1)
      /\ (Len(t) - 1) + 1 = Len(t)
  BY ParentIsName, ForestConstants
<1> QED BY <1>1, ChildOfAnc, AncSelf DEF Parent, LevelIndex

(* The walk of get_tree_mut loads the children it gives a commitment to. *)
LEMMA WalkedClosed ==
  ASSUME NEW n \in Names, NEW j \in Walked(n)
  PROVE  Anc(n, j + 1) \in WalkedNames(n)
<1>1. Len(n) \in Nat /\ j \in 0..(Len(n) - 1)
  BY WalkedIsAncestors, NameIsSeq
<1>2. CASE j = Len(n) - 1
  BY <1>1, <1>2, AncSelf DEF WalkedNames
<1>3. CASE j # Len(n) - 1
  <2>1. j + 1 \in 0..(Len(n) - 1)
    BY <1>1, <1>3
  <2>2. n \notin mark /\ \A q \in (j + 1)..(Len(n) - 1) : Anc(n, q) \notin mark
    BY DEF Walked
  <2>3. ((j + 1) + 1)..(Len(n) - 1) \subseteq (j + 1)..(Len(n) - 1)
    BY <1>1
  <2>4. j + 1 \in Walked(n)
    BY <2>1, <2>2, <2>3 DEF Walked
  <2> QED BY <2>4 DEF WalkedNames
<1> QED BY <1>2, <1>3

(* get_tree_mut hands out the commitment seen before it was called, and leaves the trees
   it does not load without one. *)
LEMMA TouchedComm ==
  ASSUME TreeTypes, ForestInv, AbsentOK, NEW n \in Names, NEW t \in Names
  PROVE  /\ t \in TouchForest(n) => TouchComm(n)[t] = ViewComm(t)
         /\ t \notin TouchForest(n) => TouchComm(n)[t] = NoComm
<1>1. LoadedOK(forest, mark, comm)
  BY DEF ForestInv, ForestOK
<1>2. TouchComm(n)[t] = IF comm[t] = NoComm /\ \E j \in Walked(n) : Anc(n, j + 1) = t
                          THEN sub[Parent(t)][LevelIndex(t)] ELSE comm[t]
  BY DEF TouchComm
<1>3. CASE t \in forest
  <2>1. comm[t] # NoComm /\ t \in TouchForest(n)
    BY <1>1, <1>3 DEF LoadedOK, TouchForest
  <2> QED BY <1>2, <1>3, <2>1 DEF ViewComm
<1>4. CASE t \notin forest /\ t \in TouchForest(n)
  <2>1. TouchComm(n)[t] \in Commitment
    BY <1>1, <1>4, TouchTypes
  <2>2. NoComm \notin Commitment
    BY ForestConstants DEF Commitment, FrInt
  <2>3. comm[t] = NoComm
    BY <1>4 DEF AbsentOK
  <2>4. TouchComm(n)[t] = sub[Parent(t)][LevelIndex(t)]
    BY <1>2, <2>1, <2>2, <2>3
  <2> QED BY <1>4, <2>4 DEF ViewComm
<1>5. CASE t \notin TouchForest(n)
  <2>1. t \notin forest /\ t \notin WalkedNames(n)
    BY <1>5 DEF TouchForest
  <2>2. comm[t] = NoComm
    BY <2>1 DEF AbsentOK
  <2>3. ~\E j \in Walked(n) : Anc(n, j + 1) = t
    BY <2>1, WalkedClosed
  <2> QED BY <1>2, <1>5, <2>2, <2>3
<1> QED BY <1>3, <1>4, <1>5

(* CommitmentsLinked of the trees in memory holds of all trees. *)
LEMMA ViewLinked ==
  ASSUME CommitmentsLinked, NEW t \in Names, t # Root, t \notin dirty
  PROVE  ViewComm(t) = sub[Parent(t)][LevelIndex(t)]
BY DEF CommitmentsLinked, ViewComm

(* Commitments are vectors. *)
LEMMA ViewType ==
  ASSUME TreeTypes, ForestInv, NEW t \in Names
  PROVE  ViewComm(t) \in Commitment
<1>1. CASE t \in forest
  BY <1>1 DEF ViewComm, ForestInv, ForestOK, LoadedOK, TreeTypes
<1>2. CASE t \notin forest
  <2>1. t # Root
    BY <1>2 DEF ForestInv, ForestOK, LoadedOK
  <2>2. Parent(t) \in Names /\ LevelIndex(t) \in Index
    BY <2>1, ParentIsName
  <2> QED BY <1>2, <2>2 DEF ViewComm, TreeTypes
<1> QED BY <1>1, <1>2

(* get_tree_mut changes no commitment that can be seen. *)
LEMMA TouchView ==
  ASSUME TreeTypes, ForestInv, LinkInv, NEW n \in Names,
         GetTreeMut(n), sub' = sub, dirty' \in {dirty, dirty \ {Root}}
  PROVE  LinkInv' /\ \A t \in Names : ViewComm(t)' = ViewComm(t)
<1>1. forest' = TouchForest(n) /\ comm' = TouchComm(n)
  BY DEF GetTreeMut
<1>2. AbsentOK'
  BY <1>1, TouchedComm DEF AbsentOK, LinkInv
<1>3. ASSUME NEW t \in Names PROVE ViewComm(t)' = ViewComm(t)
  <2>1. CASE t \in forest'
    BY <1>1, <2>1, TouchedComm DEF ViewComm, LinkInv
  <2>2. CASE t \notin forest'
    BY <1>1, <2>2 DEF ViewComm, TouchForest
  <2> QED BY <2>1, <2>2
<1>4. CommitmentsLinked'
  <2> SUFFICES ASSUME NEW t \in forest', t # Root, t \notin dirty'
               PROVE  sub'[Parent(t)][LevelIndex(t)] = comm'[t]
    BY DEF CommitmentsLinked
  <2>1. t \in Names /\ t \notin dirty
    BY <1>1, TouchTypes DEF ForestInv, ForestOK
  <2>2. ViewComm(t) = sub[Parent(t)][LevelIndex(t)]
    BY <2>1, ViewLinked DEF LinkInv
  <2>3. comm'[t] = ViewComm(t)
    BY <1>1, <2>1, TouchedComm DEF LinkInv
  <2> QED BY <2>2, <2>3
<1> QED BY <1>2, <1>3, <1>4 DEF LinkInv

(* Adding zero to a commitment. *)
LEMMA UpdatedByZero ==
  ASSUME NEW c \in Commitment, NEW i \in Index
  PROVE  Updated(c, i, ZeroFr) = c
<1>1. c[i] \in FrInt
  BY DEF Commitment
<1>2. \A s \in 0..Slots : c[i][s] + ZeroFr[s] = c[i][s]
  <2>1. \A s \in 0..Slots : c[i][s] \in Nat /\ ZeroFr[s] = 0
    BY <1>1 DEF FrInt, ZeroFr
  <2> QED BY <2>1
<1>3. [s \in 0..Slots |-> c[i][s] + ZeroFr[s]] = c[i]
  <2>1. c[i] = [s \in 0..Slots |-> c[i][s]]
    BY <1>1 DEF FrInt
  <2> QED BY <1>2, <2>1
<1> QED BY <1>3 DEF Updated, Commitment

(* What pushing a slot leaves alone. *)
LEMMA WithSlotFields ==
  ASSUME NEW node \in Node, NEW slot \in 1..Slots
  PROVE  /\ WithSlot(node, slot).tree_version = node.tree_version
         /\ WithSlot(node, slot).tree_position = node.tree_position
         /\ Len(node.key_versions) \in Nat
         /\ Len(WithSlot(node, slot).key_versions)
              = IF slot > Len(node.key_versions) THEN Len(node.key_versions) + 1
                                                 ELSE Len(node.key_versions)
<1>1. node.key_versions \in Seq(Nat) /\ Len(node.key_versions) \in Nat
  BY DEF Node
<1>2. Len(Append(node.key_versions, 0)) = Len(node.key_versions) + 1
  BY <1>1
<1> QED BY <1>1, <1>2 DEF WithSlot, Node

(* What inc_key_ver does to node i of tree n, and nothing else: new replaces the node, and
   the commitment of the tree moves by delta, which is one in the key's slot unless that
   slot does not exist. *)
IncEffect(k, info, n, i, new, delta) ==
  /\ n = TreeAtLevel(k, info.level) /\ i = IndexAtLevel(k, info.level)
  /\ info.slot <= Len(data[n][i].key_versions) + 1 => delta = SlotUnit(info.slot)
  /\ InProofShard(k) => delta = FrDelta(data[n][i], new)
  /\ new.tree_version = data[n][i].tree_version
  /\ new.tree_position = data[n][i].tree_position
  /\ Len(new.key_versions)
       = IF info.slot > Len(data[n][i].key_versions)
           THEN Len(data[n][i].key_versions) + 1 ELSE Len(data[n][i].key_versions)
  /\ data' = [data EXCEPT ![n] = [data[n] EXCEPT ![i] = new]]
  /\ dirty' = dirty \cup DirtiedBy(n, delta)
  /\ ViewComm(n)' = Updated(ViewComm(n), i, delta)
  /\ \A t \in Names : t # n => ViewComm(t)' = ViewComm(t)

(* inc_key_ver has this effect, and keeps the trees linked. *)
LEMMA IncView ==
  ASSUME TreeTypes, ForestInv, LinkInv, NEW k \in Keys, NEW info \in VerInfo,
         IncKeyVer(k, info)
  PROVE  /\ LinkInv'
         /\ \E n \in Names, i \in Index, new \in Node, delta \in {SlotUnit(info.slot), ZeroFr} :
              IncEffect(k, info, n, i, new, delta)
<1>1. info.level \in 0..(MaxLevel - 1) /\ info.slot \in 1..Slots
  BY DEF VerInfo
<1>2. PICK n \in Names, i \in Index :
        n = TreeAtLevel(k, info.level) /\ i = IndexAtLevel(k, info.level)
  BY <1>1, KeyPath
<1>3. PICK old \in Node : old = data[n][i]
  BY DEF TreeTypes
<1>4. PICK room \in Node :
        /\ room = WithSlot(old, info.slot)
        /\ AsFrInt(room) = AsFrInt(old)
        /\ info.slot <= Len(old.key_versions) + 1 => info.slot <= Len(room.key_versions)
        /\ room.tree_version = old.tree_version /\ room.tree_position = old.tree_position
        /\ Len(room.key_versions) = IF info.slot > Len(old.key_versions)
                                      THEN Len(old.key_versions) + 1 ELSE Len(old.key_versions)
        /\ Len(room.key_versions) \in Nat
  <2>1. WithSlot(old, info.slot) \in Node
    BY <1>1, WithSlotNode
  <2>2. Len(WithSlot(old, info.slot).key_versions) \in Nat
    BY <2>1 DEF Node
  <2> QED BY <1>1, <2>1, <2>2, WithSlotNode, WithSlotFields
<1>5. PICK new \in Node : new = IF InProofShard(k) THEN WithVersion(room, info.slot) ELSE room
  BY <1>1, WithVersionNode
<1>6. PICK delta : delta = IF InProofShard(k) THEN FrDelta(old, new) ELSE SlotUnit(info.slot)
  OBVIOUS
<1>7. /\ forest' = TouchForest(n)
      /\ data' = [data EXCEPT ![n] = [data[n] EXCEPT ![i] = new]]
      /\ comm' = [TouchComm(n) EXCEPT ![n] = Updated(TouchComm(n)[n], i, delta)]
      /\ dirty' = dirty \cup DirtiedBy(n, delta)
      /\ sub' = sub
  BY <1>2, <1>3, <1>4, <1>5, <1>6 DEF IncKeyVer
<1>8. /\ delta \in {SlotUnit(info.slot), ZeroFr}
      /\ info.slot <= Len(old.key_versions) + 1 => delta = SlotUnit(info.slot)
      /\ InProofShard(k) => delta = FrDelta(old, new)
      /\ new.tree_version = old.tree_version /\ new.tree_position = old.tree_position
      /\ Len(new.key_versions) = Len(room.key_versions)
  <2>1. CASE ~InProofShard(k)
    BY <1>4, <1>5, <1>6, <2>1
  <2>2. CASE InProofShard(k)
    <3>1. FrDelta(old, new) = FrDelta(room, new)
      BY <1>4 DEF FrDelta
    <3>2. /\ Len(new.key_versions) = Len(room.key_versions)
          /\ new.tree_version = room.tree_version /\ new.tree_position = room.tree_position
          /\ info.slot <= Len(room.key_versions) => FrDelta(room, new) = SlotUnit(info.slot)
          /\ info.slot > Len(room.key_versions) => FrDelta(room, new) = ZeroFr
      BY <1>1, <1>5, <2>2, WithVersionNode
    <3>3. info.slot <= Len(room.key_versions) \/ info.slot > Len(room.key_versions)
      BY <1>1, <1>4, ForestConstants
    <3> QED BY <1>4, <1>6, <2>2, <3>1, <3>2, <3>3
  <2> QED BY <2>1, <2>2
<1>9. n \in TouchForest(n) /\ DOMAIN TouchComm(n) = Names
  BY DEF TouchForest, WalkedNames, TouchComm
<1>10. TouchComm(n)[n] = ViewComm(n)
  BY <1>9, TouchedComm DEF LinkInv
<1>11. ViewComm(n)' = Updated(ViewComm(n), i, delta)
  BY <1>7, <1>9, <1>10 DEF ViewComm
<1>12. ASSUME NEW t \in Names, t # n
       PROVE  ViewComm(t)' = ViewComm(t)
  <2>1. comm'[t] = TouchComm(n)[t]
    BY <1>7, <1>9, <1>12
  <2>2. CASE t \in forest'
    BY <1>7, <2>1, <2>2, TouchedComm DEF ViewComm, LinkInv
  <2>3. CASE t \notin forest'
    BY <1>7, <2>3 DEF ViewComm, TouchForest
  <2> QED BY <2>2, <2>3
<1>13. AbsentOK'
  <2> SUFFICES ASSUME NEW t \in Names, t \notin forest' PROVE comm'[t] = NoComm
    BY DEF AbsentOK
  <2>1. t # n
    BY <1>7, <1>9
  <2>2. comm'[t] = TouchComm(n)[t]
    BY <1>7, <1>9, <2>1
  <2> QED BY <1>7, <2>2, TouchedComm DEF LinkInv
<1>14. CommitmentsLinked'
  <2> SUFFICES ASSUME NEW t \in forest', t # Root, t \notin dirty'
               PROVE  sub'[Parent(t)][LevelIndex(t)] = comm'[t]
    BY DEF CommitmentsLinked
  <2>1. t \in Names /\ t \notin dirty
    BY <1>7, TouchTypes DEF ForestInv, ForestOK
  <2>2. ViewComm(t) = sub[Parent(t)][LevelIndex(t)]
    BY <2>1, ViewLinked DEF LinkInv
  <2>3. comm'[t] = ViewComm(t)'
    BY DEF ViewComm
  <2>4. ViewComm(t)' = ViewComm(t)
    <3>1. CASE t = n
      <4>1. delta = ZeroFr
        BY <1>7, <3>1 DEF DirtiedBy
      <4>2. ViewComm(n) \in Commitment
        BY ViewType
      <4> QED BY <1>11, <3>1, <4>1, <4>2, UpdatedByZero
    <3> QED BY <1>12, <2>1, <3>1
  <2> QED BY <1>7, <2>2, <2>3, <2>4
<1>15. IncEffect(k, info, n, i, new, delta)
  BY <1>2, <1>3, <1>4, <1>7, <1>8, <1>11, <1>12 DEF IncEffect
<1> QED BY <1>8, <1>13, <1>14, <1>15 DEF LinkInv

(* A recorded child is never recorded without effect. *)
LEMMA UnitIsNotZero ==
  ASSUME NEW s \in 0..Slots
  PROVE  SlotUnit(s) # ZeroFr
<1>1. SlotUnit(s)[s] = 1 /\ ZeroFr[s] = 0
  BY DEF SlotUnit, ZeroFr
<1> QED BY <1>1

(* What commit_tree does for a dirty tree n: node i of its parent p becomes new, the
   commitment of p goes up by one child version, and a leaf holds that of n. *)
RecordEffect(n, p, i, new, epoch) ==
  /\ n \in dirty
  /\ p = Parent(n) /\ i = LevelIndex(n) /\ p # n
  /\ new = WithTreeVersion(data[p][i], epoch)
  /\ FrDelta(data[p][i], new) = SlotUnit(0)
  /\ data' = [data EXCEPT ![p] = [data[p] EXCEPT ![i] = new]]
  /\ dirty' = (dirty \ {n}) \cup {p}
  /\ hashes' = Append(hashes, TreeValue(n, new.tree_version, ViewComm(n)))
  /\ TreeValue(n, new.tree_version, ViewComm(n)) \in Leaf
  /\ ViewComm(p)' = Updated(ViewComm(p), i, SlotUnit(0))
  /\ \A t \in Names : t # p => ViewComm(t)' = ViewComm(t)

(* commit_tree has this effect or none that can be seen, and keeps the trees linked. *)
LEMMA CommitTreeView ==
  ASSUME TreeTypes, ForestInv, LinkInv, hashes \in Seq(Leaf), NEW n \in Names,
         NEW epoch \in Nat, CommitTree(n, epoch)
  PROVE  /\ LinkInv'
         /\ n # Root
         /\ \/ /\ n \notin dirty
               /\ UNCHANGED <<data, dirty, hashes>>
               /\ \A t \in Names : ViewComm(t)' = ViewComm(t)
            \/ \E p \in Names, i \in Index, new \in Node : RecordEffect(n, p, i, new, epoch)
<1>1. n # Root /\ NextToCommit(n) /\ forest' = forest
  BY DEF CommitTree
<1>2. PICK p \in Names, i \in Index :
        p = Parent(n) /\ i = LevelIndex(n) /\ p # n /\ n \in forest /\ p \in forest
  <2>1. /\ n \in mark /\ Parent(n) \in mark
        /\ Parent(n) \in Names /\ LevelIndex(n) \in Index /\ Parent(n) # n
    BY <1>1, NextToCommitMarked
  <2> QED BY <2>1 DEF ForestInv, ForestOK, LoadedOK
<1>3. PICK old \in Node : old = data[p][i]
  BY DEF TreeTypes
<1>4. PICK new \in Node : new = WithTreeVersion(old, epoch) /\ FrDelta(old, new) = SlotUnit(0)
  BY TreeDelta
<1>5. ViewComm(n) = comm[n] /\ ViewComm(p) = comm[p]
  BY <1>2 DEF ViewComm
<1>6. CASE n \notin dirty
  <2>1. UNCHANGED <<forest, sub, data, comm, dirty, hashes>>
    BY <1>1, <1>6 DEF CommitTree
  <2>2. LinkInv' /\ \A t \in Names : ViewComm(t)' = ViewComm(t)
    BY <2>1 DEF LinkInv, AbsentOK, CommitmentsLinked, ViewComm
  <2> QED BY <1>1, <1>6, <2>1, <2>2
<1>7. CASE n \in dirty
  <2>1. /\ sub' = [sub EXCEPT ![p] = [sub[p] EXCEPT ![i] = comm[n]]]
        /\ data' = [data EXCEPT ![p] = [data[p] EXCEPT ![i] = new]]
        /\ comm' = [comm EXCEPT ![p] = Updated(comm[p], i, SlotUnit(0))]
        /\ dirty' = (dirty \ {n}) \cup DirtiedBy(p, SlotUnit(0))
        /\ hashes' = Append(hashes, TreeValue(n, new.tree_version, comm[n]))
    BY <1>2, <1>3, <1>4, <1>7 DEF CommitTree, RecordUpdate
  <2>2. dirty' = (dirty \ {n}) \cup {p}
    <3>1. SlotUnit(0) # ZeroFr
      BY UnitIsNotZero, ForestConstants
    <3> QED BY <2>1, <3>1 DEF DirtiedBy
  <2>3. ASSUME NEW t \in Names, t # Root, t # n
        PROVE  sub'[Parent(t)][LevelIndex(t)] = sub[Parent(t)][LevelIndex(t)]
    <3>1. Parent(t) \in Names /\ LevelIndex(t) \in Index
      BY <2>3, ParentIsName
    <3>2. Parent(t) # p \/ LevelIndex(t) # i
      BY <1>1, <1>2, <2>3, ChildOfParent
    <3> QED BY <2>1, <3>1, <3>2 DEF TreeTypes
  <2>4. sub'[p][i] = comm[n]
    BY <2>1 DEF TreeTypes
  <2>5. \A t \in Names : t # p => comm'[t] = comm[t]
    BY <2>1 DEF TreeTypes
  <2>6. comm'[p] = Updated(comm[p], i, SlotUnit(0))
    BY <2>1 DEF TreeTypes
  <2>7. ASSUME NEW t \in Names, t # p
        PROVE  ViewComm(t)' = ViewComm(t)
    <3>1. CASE t \in forest
      BY <1>1, <2>5, <2>7, <3>1 DEF ViewComm
    <3>2. CASE t \notin forest
      <4>1. t # Root /\ t # n
        BY <1>2, <3>2 DEF ForestInv, ForestOK, LoadedOK
      <4> QED BY <1>1, <2>3, <3>2, <4>1 DEF ViewComm
    <3> QED BY <3>1, <3>2
  <2>8. ViewComm(p)' = Updated(ViewComm(p), i, SlotUnit(0))
    BY <1>1, <1>2, <1>5, <2>6 DEF ViewComm
  <2>9. AbsentOK'
    BY <1>1, <1>2, <2>5 DEF LinkInv, AbsentOK
  <2>10. CommitmentsLinked'
    <3> SUFFICES ASSUME NEW t \in forest, t # Root, t \notin dirty'
                 PROVE  sub'[Parent(t)][LevelIndex(t)] = comm'[t]
      BY <1>1 DEF CommitmentsLinked
    <3>1. t \in Names /\ t # p
      BY <2>2 DEF TreeTypes
    <3>2. comm'[t] = comm[t]
      BY <2>5, <3>1
    <3>3. CASE t = n
      BY <1>2, <2>4, <3>2, <3>3
    <3>4. CASE t # n
      <4>1. t \notin dirty
        BY <2>2, <3>4
      <4>2. sub[Parent(t)][LevelIndex(t)] = comm[t]
        BY <4>1 DEF LinkInv, CommitmentsLinked
      <4> QED BY <2>3, <3>1, <3>2, <3>4, <4>2
    <3> QED BY <3>3, <3>4
  <2>11. TreeValue(n, new.tree_version, ViewComm(n)) \in Leaf
    <3>1. new.tree_version \in Nat /\ ViewComm(n) \in Commitment
      BY ViewType DEF Node
    <3> QED BY <3>1 DEF TreeValue, Leaf
  <2>12. RecordEffect(n, p, i, new, epoch)
    BY <1>2, <1>3, <1>4, <1>5, <1>7, <2>1, <2>2, <2>7, <2>8, <2>11 DEF RecordEffect
  <2> QED BY <1>1, <2>9, <2>10, <2>12 DEF LinkInv
<1> QED BY <1>6, <1>7

(* A saved directory has the commitments and the nodes of the store it was taken from:
   between commits only the root tree is not flushed, and flush_all has just done so. *)
LEMMA FlushSaves ==
  ASSUME IndInv, LinkInv, FlushRoot
  PROVE  /\ UNCHANGED <<data, dbKey, dbMerkle, dbEpoch, hashes, write_ops, uncommitted, pc, level>>
         /\ pc = "idle" /\ uncommitted = << >>
         /\ dirty' = dirty \ {Root}
         /\ LinkInv'
         /\ \A t \in Names : ViewComm(t)' = ViewComm(t)
         /\ \/ saved' = saved
            \/ /\ saved'.key = dbKey /\ saved'.merkle = dbMerkle /\ saved'.epoch = dbEpoch
               /\ saved'.data = data
               /\ \A t \in Names : SavedComm(t)' = ViewComm(t)
<1>1. /\ pc = "idle" /\ uncommitted = << >> /\ FlushAll /\ saved' \in {saved, DbAfterFlush}
      /\ UNCHANGED <<hashes, dbKey, dbMerkle, dbEpoch, pc, uncommitted, level, write_ops>>
  BY DEF FlushRoot
<1>2. /\ GetTreeMut(Root) /\ dbRoot' = comm[Root] /\ dirty' = dirty \ {Root}
      /\ UNCHANGED <<data, sub>>
      /\ dbData' = [dbData EXCEPT ![Root] = data[Root]]
      /\ dbSub' = [dbSub EXCEPT ![Root] = sub[Root]]
  BY <1>1 DEF FlushAll, FlushTree
<1>3. TreeTypes /\ ForestInv /\ Root \in Names
  BY TypeOKParts, RootIsName DEF IndInv
<1>4. LinkInv' /\ \A t \in Names : ViewComm(t)' = ViewComm(t)
  BY <1>2, <1>3, TouchView
<1>5. /\ dirty \subseteq {Root}
      /\ \A t \in Names \ {Root} : dbData[t] = data[t] /\ dbSub[t] = sub[t]
  BY <1>1 DEF IndInv, FlushInv
<1>6. dbData' = data /\ dbSub' = sub
  <2>1. /\ dbData \in [Names -> [Index -> Node]] /\ data \in [Names -> [Index -> Node]]
        /\ dbSub \in [Names -> [Index -> Commitment]] /\ sub \in [Names -> [Index -> Commitment]]
    BY DEF IndInv, TypeOK
  <2>2. dbData' = data
    BY <1>2, <1>5, <2>1
  <2>3. dbSub' = sub
    BY <1>2, <1>5, <2>1
  <2> QED BY <2>2, <2>3
<1>7. ASSUME saved' = DbAfterFlush
      PROVE  /\ saved'.key = dbKey /\ saved'.merkle = dbMerkle /\ saved'.epoch = dbEpoch
             /\ saved'.data = data
             /\ \A t \in Names : SavedComm(t)' = ViewComm(t)
  <2>1. /\ saved'.key = dbKey /\ saved'.merkle = dbMerkle /\ saved'.epoch = dbEpoch
        /\ saved'.data = data /\ saved'.sub = sub /\ saved'.root = comm[Root]
    BY <1>2, <1>6, <1>7 DEF DbAfterFlush
  <2>2. ASSUME NEW t \in Names PROVE SavedComm(t)' = ViewComm(t)
    <3>1. CASE t = Root
      BY <1>3, <2>1, <3>1 DEF SavedComm, ViewComm, ForestInv, ForestOK, LoadedOK
    <3>2. CASE t # Root
      <4>1. ViewComm(t) = sub[Parent(t)][LevelIndex(t)]
        BY <1>5, <3>2, ViewLinked DEF LinkInv
      <4> QED BY <2>1, <3>2, <4>1 DEF SavedComm
    <3> QED BY <3>1, <3>2
  <2> QED BY <2>1, <2>2
<1> QED BY <1>1, <1>2, <1>4, <1>7

(* A new process sees the commitments of the saved directory. *)
LEMMA RestartView ==
  ASSUME Restart
  PROVE  /\ LinkInv'
         /\ \A t \in Names : ViewComm(t)' = SavedComm(t)
         /\ \A t \in Names : SavedComm(t)' = SavedComm(t)
<1>1. /\ forest' = {Root} /\ comm' = [t \in Names |-> IF t = Root THEN saved.root ELSE NoComm]
      /\ sub' = saved.sub /\ saved' = saved
  BY DEF Restart, ReopenForest
<1>2. Root \in Names
  BY RootIsName
<1>3. AbsentOK' /\ CommitmentsLinked'
  BY <1>1 DEF AbsentOK, CommitmentsLinked
<1>4. \A t \in Names : ViewComm(t)' = SavedComm(t)
  BY <1>1, <1>2 DEF ViewComm, SavedComm
<1>5. \A t \in Names : SavedComm(t)' = SavedComm(t)
  BY <1>1 DEF SavedComm
<1> QED BY <1>3, <1>4, <1>5 DEF LinkInv

(* A step that leaves the trees in memory alone. *)
LEMMA ViewKept ==
  ASSUME LinkInv, UNCHANGED <<forest, comm, sub, dirty>>
  PROVE  LinkInv' /\ \A t \in Names : ViewComm(t)' = ViewComm(t)
BY DEF LinkInv, AbsentOK, CommitmentsLinked, ViewComm

------------------------------------------------------------------------------
(* Commitments bind nodes. *)

(* CommitmentBindsData, one node at a time. *)
LEMMA BindsEach ==
  CommitmentBindsData <=>
    \A n \in Names, i \in Index : BindsAt(ViewComm(n)[i], data[n][i], NodeInShard(n, i))
BY DEF CommitmentBindsData, BindsAt

(* The same of the next state. *)
LEMMA BindsEachNext ==
  CommitmentBindsData' <=>
    \A n \in Names, i \in Index : BindsAt(ViewComm(n)'[i], data'[n][i], NodeInShard(n, i))
BY DEF CommitmentBindsData, BindsAt, NodeInShard

(* A key's nodes are all in the proof shard or all outside. *)
LEMMA ShardOfKey ==
  ASSUME NEW k \in Keys, NEW l \in 0..(MaxLevel - 1)
  PROVE  NodeInShard(TreeAtLevel(k, l), IndexAtLevel(k, l)) <=> InProofShard(k)
<1>1. TreeAtLevel(k, l) \in Names /\ Len(TreeAtLevel(k, l)) = l
  BY KeyPath
<1>2. CASE l = 0
  BY <1>1, <1>2, EmptyNameIsRoot DEF NodeInShard, InProofShard
<1>3. CASE l # 0
  <2>1. TreeAtLevel(k, l) # Root
    BY <1>1, <1>3, RootIsName
  <2>2. 1 \in 1..l
    BY <1>3, ForestConstants
  <2>3. TreeAtLevel(k, l)[1] = Path[k][1] /\ IndexAtLevel(k, 0) = Path[k][1]
    BY <2>2 DEF TreeAtLevel, IndexAtLevel
  <2> QED BY <2>1, <2>3 DEF NodeInShard, InProofShard
<1> QED BY <1>2, <1>3

(* A commitment that moves with its node keeps binding it. *)
LEMMA BindsUpdated ==
  ASSUME NEW old \in Node, NEW new \in Node, NEW inShard \in BOOLEAN, NEW c \in FrInt,
         NEW delta \in FrInt, BindsAt(c, old, inShard),
         delta[0] = new.tree_version - old.tree_version,
         inShard => delta = FrDelta(old, new)
  PROVE  BindsAt([s \in 0..Slots |-> c[s] + delta[s]], new, inShard)
<1> DEFINE d == [s \in 0..Slots |-> c[s] + delta[s]]
<1>1. 0 \in 0..Slots /\ old.tree_version \in Nat /\ new.tree_version \in Nat
  BY ForestConstants DEF Node
<1>2. d[0] = new.tree_version
  BY <1>1 DEF BindsAt
<1>3. ASSUME inShard PROVE d = AsFrInt(new)
  <2>1. AsFrInt(old) \in FrInt /\ AsFrInt(new) \in FrInt
    BY AsFrIntType
  <2>2. c = AsFrInt(old) /\ delta = FrDelta(old, new)
    BY <1>3 DEF BindsAt
  <2>3. ASSUME NEW s \in 0..Slots PROVE c[s] + delta[s] = AsFrInt(new)[s]
    <3>1. AsFrInt(old)[s] \in Nat /\ AsFrInt(new)[s] \in Nat
      BY <2>1 DEF FrInt
    <3>2. c[s] = AsFrInt(old)[s] /\ delta[s] = AsFrInt(new)[s] - AsFrInt(old)[s]
      BY <2>2 DEF FrDelta
    <3> QED BY <3>1, <3>2
  <2>4. AsFrInt(new) = [s \in 0..Slots |-> AsFrInt(new)[s]]
    BY <2>1 DEF FrInt
  <2> QED BY <2>3, <2>4
<1> QED BY <1>2, <1>3 DEF BindsAt

(* AMTree::update changes one index of the commitment. *)
LEMMA UpdatedAt ==
  ASSUME NEW c \in Commitment, NEW i \in Index, NEW delta \in FrInt
  PROVE  Updated(c, i, delta)[i] = [s \in 0..Slots |-> c[i][s] + delta[s]]
BY DEF Updated, Commitment

(* The others stay. *)
LEMMA UpdatedElsewhere ==
  ASSUME NEW c \in Commitment, NEW i \in Index, NEW delta \in FrInt, NEW j \in Index, j # i
  PROVE  Updated(c, i, delta)[j] = c[j]
BY DEF Updated, Commitment

(* The change of one node, with its commitment. *)
LEMMA BindsStep ==
  ASSUME TreeTypes, ForestInv, CommitmentBindsData,
         NEW n \in Names, NEW i \in Index, NEW new \in Node, NEW delta \in FrInt,
         data' = [data EXCEPT ![n] = [data[n] EXCEPT ![i] = new]],
         ViewComm(n)' = Updated(ViewComm(n), i, delta),
         \A t \in Names : t # n => ViewComm(t)' = ViewComm(t),
         delta[0] = new.tree_version - data[n][i].tree_version,
         NodeInShard(n, i) => delta = FrDelta(data[n][i], new)
  PROVE  CommitmentBindsData'
<1> SUFFICES ASSUME NEW t \in Names, NEW j \in Index
             PROVE  BindsAt(ViewComm(t)'[j], data'[t][j], NodeInShard(t, j))
  BY BindsEachNext
<1>1. BindsAt(ViewComm(t)[j], data[t][j], NodeInShard(t, j))
  BY BindsEach
<1>2. data \in [Names -> [Index -> Node]]
  BY DEF TreeTypes
<1>3. CASE t # n
  BY <1>1, <1>2, <1>3
<1>4. CASE t = n /\ j # i
  <2>1. ViewComm(n)'[j] = ViewComm(n)[j]
    <3>1. PICK c \in Commitment : c = ViewComm(n)
      BY ViewType
    <3>2. j # i
      BY <1>4
    <3>3. Updated(c, i, delta)[j] = c[j]
      BY <3>2, UpdatedElsewhere
    <3> QED BY <3>1, <3>3
  <2> QED BY <1>1, <1>2, <1>4, <2>1
<1>5. CASE t = n /\ j = i
  <2>1. ViewComm(n) \in Commitment /\ ViewComm(n)[i] \in FrInt
    BY ViewType DEF Commitment
  <2>2. ViewComm(n)'[i] = [s \in 0..Slots |-> ViewComm(n)[i][s] + delta[s]]
    BY <2>1, UpdatedAt
  <2>3. data'[n][i] = new /\ data[n][i] \in Node
    BY <1>2
  <2>4. NodeInShard(n, i) \in BOOLEAN
    BY DEF NodeInShard
  <2>5. BindsAt([s \in 0..Slots |-> ViewComm(n)[i][s] + delta[s]], new, NodeInShard(n, i))
    BY <1>1, <1>5, <2>1, <2>3, <2>4, BindsUpdated
  <2> QED BY <1>5, <2>2, <2>3, <2>5
<1> QED BY <1>3, <1>4, <1>5

(* No change. *)
LEMMA BindsKept ==
  ASSUME CommitmentBindsData, data' = data, \A t \in Names : ViewComm(t)' = ViewComm(t)
  PROVE  CommitmentBindsData'
BY BindsEach, BindsEachNext

(* The saved directory only changes with saved. *)
LEMMA SavedKept ==
  ASSUME SavedBinds, saved' = saved
  PROVE  SavedBinds'
BY DEF SavedBinds, SavedComm, BindsAt, NodeInShard

(* A round of the key loop. *)
LEMMA WriteRoundBinds ==
  ASSUME IndInv, CommitInv, NEW info \in VerInfo, uncommitted # << >>, CommitWrite(info)
  PROVE  CommitInv'
<1>1. TreeTypes /\ ForestInv /\ Current.key \in Keys
  BY TypeOKParts, CurrentType DEF IndInv
<1>2. IncKeyVer(Current.key, info) /\ saved' = saved
  BY DEF CommitWrite, storeVars
<1>3. info.level \in 0..(MaxLevel - 1) /\ info.slot \in 1..Slots
  BY DEF VerInfo
<1>4. LinkInv'
  BY <1>1, <1>2, IncView DEF CommitInv
<1>9. PICK n \in Names, i \in Index, new \in Node, delta \in {SlotUnit(info.slot), ZeroFr} :
        IncEffect(Current.key, info, n, i, new, delta)
  BY <1>1, <1>2, IncView DEF CommitInv
<1>5. delta \in FrInt /\ delta[0] = 0
  BY <1>3, ForestConstants DEF SlotUnit, ZeroFr, FrInt
<1>6. NodeInShard(n, i) => delta = FrDelta(data[n][i], new)
  BY <1>1, <1>3, <1>9, ShardOfKey DEF IncEffect
<1>7. delta[0] = new.tree_version - data[n][i].tree_version
  <2>1. new.tree_version \in Nat
    BY DEF Node
  <2> QED BY <1>5, <1>9, <2>1 DEF IncEffect
<1>8. CommitmentBindsData'
  <2>1. /\ data' = [data EXCEPT ![n] = [data[n] EXCEPT ![i] = new]]
        /\ ViewComm(n)' = Updated(ViewComm(n), i, delta)
        /\ \A t \in Names : t # n => ViewComm(t)' = ViewComm(t)
    BY <1>9 DEF IncEffect
  <2> QED BY <1>1, <1>5, <1>6, <1>7, <2>1, BindsStep DEF CommitInv
<1> QED BY <1>2, <1>4, <1>8, SavedKept DEF CommitInv

(* A tree that commit_tree finishes. *)
LEMMA CommitOneTreeBinds ==
  ASSUME IndInv, CommitInv, CommitOneTree
  PROVE  CommitInv'
<1>1. PICK n \in Names : CommitTree(n, dbEpoch)
  BY DEF CommitOneTree
<1>2. saved' = saved /\ dbEpoch \in Nat /\ hashes \in Seq(Leaf)
  BY StoreConstants DEF CommitOneTree, storeVars, IndInv, TypeOK
<1>3. TreeTypes /\ ForestInv
  BY TypeOKParts DEF IndInv
<1>4. /\ LinkInv'
      /\ \/ /\ n \notin dirty
            /\ UNCHANGED <<data, dirty, hashes>>
            /\ \A t \in Names : ViewComm(t)' = ViewComm(t)
         \/ \E p \in Names, i \in Index, new \in Node : RecordEffect(n, p, i, new, dbEpoch)
  BY <1>1, <1>2, <1>3, CommitTreeView DEF CommitInv
<1>5. ASSUME NEW p \in Names, NEW i \in Index, NEW new \in Node,
             RecordEffect(n, p, i, new, dbEpoch)
      PROVE  CommitmentBindsData'
  <2>5. /\ new = WithTreeVersion(data[p][i], dbEpoch)
        /\ FrDelta(data[p][i], new) = SlotUnit(0)
        /\ data' = [data EXCEPT ![p] = [data[p] EXCEPT ![i] = new]]
        /\ ViewComm(p)' = Updated(ViewComm(p), i, SlotUnit(0))
        /\ \A t \in Names : t # p => ViewComm(t)' = ViewComm(t)
    BY <1>5 DEF RecordEffect
  <2>1. SlotUnit(0) \in FrInt /\ SlotUnit(0)[0] = 1
    BY ForestConstants DEF SlotUnit, FrInt
  <2>2. data[p][i].tree_version \in Nat
    BY <1>3 DEF TreeTypes, Node
  <2>3. new.tree_version = data[p][i].tree_version + 1
    BY <2>5 DEF WithTreeVersion
  <2>4. SlotUnit(0)[0] = new.tree_version - data[p][i].tree_version
    BY <2>1, <2>2, <2>3
  <2> QED BY <1>3, <2>1, <2>4, <2>5, BindsStep DEF CommitInv
<1>6. CommitmentBindsData'
  BY <1>4, <1>5, BindsKept DEF CommitInv
<1> QED BY <1>2, <1>4, <1>6, SavedKept DEF CommitInv

(* The empty store commits to empty nodes. *)
LEMMA CommitInit == Init => CommitInv
<1> SUFFICES ASSUME Init PROVE CommitInv
  OBVIOUS
<1>1. /\ forest = {Root} /\ comm = [t \in Names |-> IF t = Root THEN ZeroComm ELSE NoComm]
      /\ data = EmptyData /\ sub = EmptySub /\ saved = EmptySaved
  BY DEF Init, TreeInit, NewForest
<1>2. LinkInv
  BY <1>1 DEF LinkInv, AbsentOK, CommitmentsLinked
<1>3. ASSUME NEW n \in Names
      PROVE  ViewComm(n) = ZeroComm /\ SavedComm(n) = ZeroComm
  <2>1. CASE n = Root
    BY <1>1, <2>1 DEF ViewComm, SavedComm, EmptySaved
  <2>2. CASE n # Root
    <3>1. Parent(n) \in Names /\ LevelIndex(n) \in Index
      BY <2>2, ParentIsName
    <3> QED BY <1>1, <2>2, <3>1 DEF ViewComm, SavedComm, EmptySaved, EmptySub
  <2> QED BY <2>1, <2>2
<1>4. ASSUME NEW n \in Names, NEW i \in Index
      PROVE  data[n][i] = EmptyNode /\ saved.data[n][i] = EmptyNode /\ ZeroComm[i] = ZeroFr
  BY <1>1 DEF EmptyData, EmptySaved, ZeroComm
<1>5. BindsAt(ZeroFr, EmptyNode, TRUE) /\ BindsAt(ZeroFr, EmptyNode, FALSE)
  <2>1. EmptyNode.tree_version = 0 /\ EmptyNode.key_versions = << >>
    BY DEF EmptyNode
  <2>2. \A s \in 0..Slots : AsFrInt(EmptyNode)[s] = 0
    BY <2>1, ForestConstants DEF AsFrInt
  <2>3. AsFrInt(EmptyNode) = ZeroFr
    BY <2>2 DEF AsFrInt, ZeroFr
  <2>4. ZeroFr[0] = 0
    BY ForestConstants DEF ZeroFr
  <2> QED BY <2>1, <2>3, <2>4 DEF BindsAt
<1>6. \A n \in Names, i \in Index : BindsAt(ZeroFr, EmptyNode, NodeInShard(n, i))
  BY <1>5 DEF NodeInShard, BindsAt
<1>7. CommitmentBindsData
  BY <1>3, <1>4, <1>6, BindsEach
<1>8. SavedBinds
  BY <1>3, <1>4, <1>6 DEF SavedBinds
<1> QED BY <1>2, <1>7, <1>8 DEF CommitInv

(* Every step keeps commitments linked and binding. *)
LEMMA CommitNext == IndInv /\ StoreInv /\ CommitInv /\ [Next]_vars => CommitInv'
<1> SUFFICES ASSUME IndInv, StoreInv, CommitInv, [Next]_vars PROVE CommitInv'
  OBVIOUS
<1>0. TreeTypes /\ ForestInv
  BY TypeOKParts DEF IndInv
<1>1. ASSUME UNCHANGED <<forest, comm, sub, dirty, data, saved>> PROVE CommitInv'
  BY <1>1, ViewKept, BindsKept, SavedKept DEF CommitInv
<1>2. ASSUME NEW n \in Names, GetTreeMut(n), UNCHANGED <<sub, dirty, data, saved>>
      PROVE  CommitInv'
  <2>1. LinkInv' /\ \A t \in Names : ViewComm(t)' = ViewComm(t)
    BY <1>0, <1>2, TouchView DEF CommitInv
  <2> QED BY <1>2, <2>1, BindsKept, SavedKept DEF CommitInv
<1>3. ASSUME NEW k \in ReadKeys, Get(k) PROVE CommitInv'
  BY <1>1, <1>3 DEF Get, treeVars
<1>4. ASSUME NEW k \in Keys, NEW v \in Values, Set(k, v) PROVE CommitInv'
  BY <1>1, <1>4 DEF Set, treeVars, storeVars
<1>5. ASSUME NEW k \in Keys, Prove(k) PROVE CommitInv'
  <2>1. dbKey[k].version.level \in 0..(MaxLevel - 1)
    BY <1>5 DEF IndInv, TypeOK, Prove, Value, VerInfo
  <2>2. TreeAtLevel(k, dbKey[k].version.level) \in Names
    BY <2>1, KeyPath
  <2> QED BY <1>2, <1>5, <2>2 DEF Prove, storeVars
<1>6. CASE CommitBegin \/ AllocatePanic \/ CommitTreesBegin
  BY <1>1, <1>6 DEF CommitBegin, AllocatePanic, CommitTreesBegin, treeVars, storeVars
<1>7. CASE CommitKnownKey
  BY <1>7, KnownSlot, WriteRoundBinds
<1>8. CASE CommitNewKey
  <2>1. PICK info : info = VacantSlot(Current.key, level)
    OBVIOUS
  <2> QED BY <1>8, <2>1, NewSlot, WriteRoundBinds
<1>9. CASE AllocateSkip
  <2>1. Current.key \in Keys /\ level \in 0..(MaxLevel - 1)
    BY <1>9, CurrentType, ForestConstants DEF IndInv, TypeOK, AllocateSkip
  <2>2. TreeAtLevel(Current.key, level) \in Names
    BY <2>1, KeyPath
  <2>3. GetTreeMut(TreeAtLevel(Current.key, level)) /\ UNCHANGED <<sub, dirty, data, saved>>
    BY <1>9 DEF AllocateSkip, SkipFullLevel, storeVars
  <2> QED BY <1>2, <2>2, <2>3
<1>10. CASE CommitOneTree
  BY <1>10, CommitOneTreeBinds
<1>11. CASE CommitEnd
  BY <1>1, <1>11 DEF CommitEnd, CommitRoot
<1>12. CASE FlushRoot
  <2>1. /\ data' = data /\ LinkInv'
        /\ \A t \in Names : ViewComm(t)' = ViewComm(t)
        /\ \/ saved' = saved
           \/ saved'.data = data /\ \A t \in Names : SavedComm(t)' = ViewComm(t)
    BY <1>12, FlushSaves DEF CommitInv
  <2>2. CommitmentBindsData'
    BY <2>1, BindsKept DEF CommitInv
  <2>3. SavedBinds'
    <3>1. CASE saved' = saved
      BY <3>1, SavedKept DEF CommitInv
    <3>2. CASE saved'.data = data /\ \A t \in Names : SavedComm(t)' = ViewComm(t)
      <4>1. \A n \in Names, i \in Index :
              BindsAt(SavedComm(n)'[i], saved'.data[n][i], NodeInShard(n, i))
        BY <3>2, BindsEach DEF CommitInv
      <4> QED BY <4>1 DEF SavedBinds, BindsAt, NodeInShard
    <3> QED BY <2>1, <3>1, <3>2
  <2> QED BY <2>1, <2>2, <2>3 DEF CommitInv
<1>13. CASE Restart
  <2>1. /\ LinkInv' /\ data' = saved.data /\ saved' = saved
        /\ \A t \in Names : ViewComm(t)' = SavedComm(t)
    BY <1>13, RestartView DEF Restart, ReopenForest
  <2>2. CommitmentBindsData'
    BY <2>1, BindsEachNext DEF CommitInv, SavedBinds
  <2> QED BY <2>1, <2>2, SavedKept DEF CommitInv
<1>14. CASE UNCHANGED vars
  BY <1>1, <1>14 DEF vars, treeVars, storeVars
<1> QED BY <1>3, <1>4, <1>5, <1>6, <1>7, <1>8, <1>9, <1>10, <1>11, <1>12, <1>13, <1>14
        DEF Next, CommitStep

(* The invariant of the commitments, with those of the store and of its trees. *)
THEOREM CommitInductive == Spec => [](IndInv /\ StoreInv /\ CommitInv)
<1>1. Init => CommitInv
  BY CommitInit
<1>2. IndInv /\ StoreInv /\ CommitInv /\ [Next]_vars => CommitInv'
  BY CommitNext
<1> QED BY <1>1, <1>2, StoreInductive, PTL DEF Spec

------------------------------------------------------------------------------
(* The theorems. *)

(* The subtree root that a parent holds for a tree that is not dirty is the tree's
   commitment, for any forest and any order of writes, commits, panics, saves and
   restarts: what get_tree_mut reads back for a tree that was dropped is what was
   committed. *)
THEOREM ParentsCommitToChildren == Spec => []CommitmentsLinked
<1>1. CommitInv => CommitmentsLinked
  BY DEF CommitInv, LinkInv
<1> QED BY <1>1, CommitInductive, PTL

(* A commitment that inc_key_ver and commit_tree only ever add to is the commitment of
   the nodes as they are: in the proof shard of every version, outside of the child
   versions, for any number of slots and any tree. *)
THEOREM CommitmentsBind == Spec => []CommitmentBindsData
<1>1. CommitInv => CommitmentBindsData
  BY DEF CommitInv
<1> QED BY <1>1, CommitInductive, PTL

------------------------------------------------------------------------------
(* The inductive invariant of the slots.  What ShallowLevelsFull and SlotsExclusive say of
   the stored keys is said of the batch of the running commit and of the saved directory
   too; no node holds more than Slots slots; and while allocate_vacant_slot searches, the
   levels it has passed are full. *)

(* The slots taken in the node of key k at level l of the trees d. *)
Taken(d, k, l) == Len(d[TreeAtLevel(k, l)][IndexAtLevel(k, l)].key_versions)

RoomOK(d) == \A n \in Names, i \in Index : Len(d[n][i].key_versions) <= Slots

PlacedAt(d, k, info) ==
  /\ \A l \in 0..(info.level - 1) : Taken(d, k, l) = Slots
  /\ info.slot <= Taken(d, k, info.level)

SameSlot(k1, info1, k2, info2) ==
  /\ info1.level = info2.level /\ info1.slot = info2.slot
  /\ TreeAtLevel(k1, info1.level) = TreeAtLevel(k2, info2.level)
  /\ IndexAtLevel(k1, info1.level) = IndexAtLevel(k2, info2.level)

ColumnPlaced(col, d) == \A k \in Keys : col[k] # Missing => PlacedAt(d, k, col[k].version)

ColumnExclusive(col) ==
  \A k1, k2 \in Keys :
    k1 # k2 /\ col[k1] # Missing /\ col[k2] # Missing
      => ~SameSlot(k1, col[k1].version, k2, col[k2].version)

BatchPlaced ==
  \A j \in DOMAIN write_ops : PlacedAt(data, write_ops[j].key, write_ops[j].val.version)

(* The slot of key k named by info is not the slot of another key of the store, ... *)
OffColumn(k, info) ==
  \A k2 \in Keys :
    k2 # k /\ dbKey[k2] # Missing => ~SameSlot(k2, dbKey[k2].version, k, info)

(* ... nor of another key of the batch. *)
OffBatch(k, info) ==
  \A j \in DOMAIN write_ops :
    write_ops[j].key # k => ~SameSlot(write_ops[j].key, write_ops[j].val.version, k, info)

(* The slot is free for key k, or its own; and it is at the first level with room. *)
Fits(k, info) ==
  /\ info.slot <= Taken(data, k, info.level) + 1
  /\ \A l \in 0..(info.level - 1) : Taken(data, k, l) = Slots
  /\ OffColumn(k, info) /\ OffBatch(k, info)

BatchExclusive ==
  \A j \in DOMAIN write_ops :
    /\ OffColumn(write_ops[j].key, write_ops[j].val.version)
    /\ OffBatch(write_ops[j].key, write_ops[j].val.version)

LevelOK ==
  /\ pc \in {"idle", "trees"} => level = 0
  /\ pc = "keys" /\ level > 0
       => /\ uncommitted # << >>
          /\ \A l \in 0..(level - 1) : Taken(data, Current.key, l) = Slots

SavedSlots ==
  /\ RoomOK(saved.data)
  /\ ColumnPlaced(saved.key, saved.data)
  /\ ColumnExclusive(saved.key)

SlotInv ==
  /\ RoomOK(data) /\ ColumnPlaced(dbKey, data) /\ ColumnExclusive(dbKey)
  /\ BatchPlaced /\ BatchExclusive
  /\ LevelOK
  /\ SavedSlots

------------------------------------------------------------------------------
(* Nodes only gain slots. *)

Trees == [Names -> [Index -> Node]]

Grows(d, e) ==
  \A n \in Names, i \in Index : Len(d[n][i].key_versions) <= Len(e[n][i].key_versions)

(* The number of slots of a node is a number. *)
LEMMA LenType ==
  ASSUME NEW d \in Trees, NEW n \in Names, NEW i \in Index
  PROVE  Len(d[n][i].key_versions) \in Nat
<1>1. d[n][i] \in Node
  BY DEF Trees
<1> QED BY <1>1 DEF Node

(* The same along the path of a key. *)
LEMMA TakenType ==
  ASSUME NEW d \in Trees, NEW k \in Keys, NEW l \in 0..(MaxLevel - 1)
  PROVE  Taken(d, k, l) \in Nat /\ (RoomOK(d) => Taken(d, k, l) <= Slots)
<1>1. TreeAtLevel(k, l) \in Names /\ IndexAtLevel(k, l) \in Index
  BY KeyPath
<1> QED BY <1>1, LenType DEF Taken, RoomOK

(* A key that was placed stays placed when nodes gain slots. *)
LEMMA PlacedGrows ==
  ASSUME NEW d \in Trees, NEW e \in Trees, RoomOK(e), Grows(d, e),
         NEW k \in Keys, NEW info \in VerInfo, PlacedAt(d, k, info)
  PROVE  PlacedAt(e, k, info)
<1>1. info.level \in 0..(MaxLevel - 1) /\ info.slot \in Nat /\ MaxLevel \in Nat /\ Slots \in Nat
  BY ForestConstants DEF VerInfo
<1>2. ASSUME NEW l \in 0..(MaxLevel - 1)
      PROVE  /\ Taken(d, k, l) <= Taken(e, k, l) /\ Taken(e, k, l) <= Slots
             /\ Taken(d, k, l) \in Nat /\ Taken(e, k, l) \in Nat
  <2>1. TreeAtLevel(k, l) \in Names /\ IndexAtLevel(k, l) \in Index
    BY KeyPath
  <2>2. Taken(d, k, l) <= Taken(e, k, l)
    BY <2>1 DEF Grows, Taken
  <2> QED BY <2>2, TakenType
<1>3. ASSUME NEW l \in 0..(info.level - 1)
      PROVE  Taken(e, k, l) = Slots
  <2>1. l \in 0..(MaxLevel - 1)
    BY <1>1
  <2>2. Taken(d, k, l) = Slots
    BY DEF PlacedAt
  <2> QED BY <1>1, <1>2, <2>1, <2>2
<1>4. info.slot <= Taken(e, k, info.level)
  <2>1. info.slot <= Taken(d, k, info.level)
    BY DEF PlacedAt
  <2> QED BY <1>1, <1>2, <2>1
<1> QED BY <1>3, <1>4 DEF PlacedAt

(* Where a key is placed depends on its level and slot alone. *)
LEMMA PlacedSame ==
  ASSUME NEW d, NEW k, NEW info1, NEW info2, info1.level = info2.level, info1.slot = info2.slot
  PROVE  PlacedAt(d, k, info1) <=> PlacedAt(d, k, info2)
BY DEF PlacedAt

(* The same for SameSlot. *)
LEMMA SlotSame ==
  ASSUME NEW k1, NEW k2, NEW info, NEW info1, NEW info2,
         info1.level = info2.level, info1.slot = info2.slot
  PROVE  /\ SameSlot(k1, info, k2, info1) <=> SameSlot(k1, info, k2, info2)
         /\ SameSlot(k1, info1, k2, info) <=> SameSlot(k2, info, k1, info2)
BY DEF SameSlot

(* One node changes. *)
LEMMA NodeGrows ==
  ASSUME NEW d \in Trees, RoomOK(d), NEW n \in Names, NEW i \in Index, NEW new \in Node,
         Len(d[n][i].key_versions) <= Len(new.key_versions), Len(new.key_versions) <= Slots,
         NEW e, e = [d EXCEPT ![n] = [d[n] EXCEPT ![i] = new]]
  PROVE  e \in Trees /\ RoomOK(e) /\ Grows(d, e) /\ e[n][i] = new
<1>1. e \in Trees /\ e[n][i] = new
  BY DEF Trees
<1>2. ASSUME NEW t \in Names, NEW j \in Index
      PROVE  /\ Len(e[t][j].key_versions) <= Slots
             /\ Len(d[t][j].key_versions) <= Len(e[t][j].key_versions)
  <2>1. CASE t = n /\ j = i
    BY <1>1, <2>1
  <2>2. CASE ~(t = n /\ j = i)
    <3>1. e[t][j] = d[t][j]
      BY <2>2 DEF Trees
    <3>2. Len(d[t][j].key_versions) \in Nat /\ Len(d[t][j].key_versions) <= Slots
      BY LenType DEF RoomOK
    <3> QED BY <3>1, <3>2
  <2> QED BY <2>1, <2>2
<1> QED BY <1>1, <1>2 DEF RoomOK, Grows

(* inc_key_ver adds at most the slot it was asked for. *)
LEMMA IncGrows ==
  ASSUME data \in Trees, RoomOK(data), NEW k \in Keys, NEW info \in VerInfo, NEW n \in Names,
         NEW i \in Index, NEW new \in Node, NEW delta, IncEffect(k, info, n, i, new, delta)
  PROVE  /\ data' \in Trees /\ RoomOK(data') /\ Grows(data, data')
         /\ info.slot <= Len(data[n][i].key_versions) + 1
              => info.slot <= Len(data'[n][i].key_versions)
<1>1. Len(data[n][i].key_versions) \in Nat /\ Len(data[n][i].key_versions) <= Slots
  BY LenType DEF RoomOK
<1>2. info.slot \in 1..Slots /\ Slots \in Nat
  BY ForestConstants DEF VerInfo
<1>3. /\ Len(new.key_versions) = IF info.slot > Len(data[n][i].key_versions)
                                   THEN Len(data[n][i].key_versions) + 1
                                   ELSE Len(data[n][i].key_versions)
      /\ data' = [data EXCEPT ![n] = [data[n] EXCEPT ![i] = new]]
  BY DEF IncEffect
<1>4. /\ Len(data[n][i].key_versions) <= Len(new.key_versions) /\ Len(new.key_versions) <= Slots
  BY <1>1, <1>2, <1>3
<1>7. info.slot <= Len(data[n][i].key_versions) + 1 => info.slot <= Len(new.key_versions)
  BY <1>1, <1>2, <1>3
<1>5. PICK e : e = [data EXCEPT ![n] = [data[n] EXCEPT ![i] = new]]
  OBVIOUS
<1>6. e \in Trees /\ RoomOK(e) /\ Grows(data, e)
  BY <1>4, <1>5, NodeGrows
<1>8. data'[n][i] = new
  BY <1>3 DEF Trees
<1>9. data' = e
  BY <1>3, <1>5
<1> QED BY <1>6, <1>7, <1>8, <1>9

(* commit_tree changes no slot. *)
LEMMA RecordGrows ==
  ASSUME data \in Trees, RoomOK(data), NEW n, NEW p \in Names, NEW i \in Index,
         NEW new \in Node, NEW epoch, RecordEffect(n, p, i, new, epoch)
  PROVE  data' \in Trees /\ RoomOK(data') /\ Grows(data, data')
<1>1. /\ new = WithTreeVersion(data[p][i], epoch)
      /\ data' = [data EXCEPT ![p] = [data[p] EXCEPT ![i] = new]]
  BY DEF RecordEffect
<1>2. new.key_versions = data[p][i].key_versions
  BY <1>1 DEF WithTreeVersion
<1>3. Len(data[p][i].key_versions) \in Nat /\ Len(data[p][i].key_versions) <= Slots
  BY LenType DEF RoomOK
<1>4. Len(data[p][i].key_versions) <= Len(new.key_versions) /\ Len(new.key_versions) <= Slots
  BY <1>2, <1>3
<1>5. PICK e : e = [data EXCEPT ![p] = [data[p] EXCEPT ![i] = new]]
  OBVIOUS
<1>6. e \in Trees /\ RoomOK(e) /\ Grows(data, e)
  BY <1>4, <1>5, NodeGrows
<1> QED BY <1>1, <1>5, <1>6

------------------------------------------------------------------------------
(* Steps that keep slots. *)

(* The types of stored and batched entries. *)
LEMMA EntryTypes ==
  ASSUME IndInv
  PROVE  /\ data \in Trees
         /\ \A k \in Keys : dbKey[k] # Missing => dbKey[k].version \in VerInfo
         /\ DOMAIN write_ops = 1..Len(write_ops) /\ Len(write_ops) \in Nat
         /\ \A j \in DOMAIN write_ops :
              /\ write_ops[j] \in WriteOp
              /\ write_ops[j].key \in Keys
              /\ write_ops[j].val \in Value
              /\ write_ops[j].val.version \in VerInfo
<1>1. data \in Trees
  BY DEF IndInv, TypeOK, Trees
<1>2. \A k \in Keys : dbKey[k] # Missing => dbKey[k].version \in VerInfo
  BY DEF IndInv, TypeOK, Value
<1>3. write_ops \in Seq(WriteOp)
  BY DEF IndInv, TypeOK
<1>4. /\ DOMAIN write_ops = 1..Len(write_ops) /\ Len(write_ops) \in Nat
      /\ \A j \in DOMAIN write_ops : write_ops[j] \in WriteOp
  BY <1>3
<1> QED BY <1>1, <1>2, <1>4 DEF WriteOp, Value

(* Nodes gain slots: what was placed stays placed. *)
LEMMA SlotsGrow ==
  ASSUME IndInv, SlotInv, data' \in Trees, RoomOK(data'), Grows(data, data'),
         UNCHANGED <<dbKey, saved>>
  PROVE  /\ RoomOK(data)' /\ ColumnPlaced(dbKey, data)' /\ ColumnExclusive(dbKey)' /\ SavedSlots'
         /\ \A j \in DOMAIN write_ops :
              PlacedAt(data', write_ops[j].key, write_ops[j].val.version)
<1>1. ASSUME NEW k \in Keys, NEW info \in VerInfo, PlacedAt(data, k, info)
      PROVE  PlacedAt(data', k, info)
  BY <1>1, EntryTypes, PlacedGrows
<1>2. ColumnPlaced(dbKey', data')
  BY <1>1, EntryTypes DEF SlotInv, ColumnPlaced
<1>3. \A j \in DOMAIN write_ops : PlacedAt(data', write_ops[j].key, write_ops[j].val.version)
  BY <1>1, EntryTypes DEF SlotInv, BatchPlaced
<1>4. ColumnExclusive(dbKey)' /\ SavedSlots'
  BY DEF SlotInv, ColumnExclusive, SavedSlots
<1>5. RoomOK(data)' /\ ColumnPlaced(dbKey, data)'
  BY <1>2
<1> QED BY <1>3, <1>4, <1>5

(* The batch does not change. *)
LEMMA BatchSlotsKept ==
  ASSUME SlotInv, UNCHANGED <<dbKey, write_ops>>,
         \A j \in DOMAIN write_ops : PlacedAt(data', write_ops[j].key, write_ops[j].val.version)
  PROVE  BatchPlaced' /\ BatchExclusive'
<1>1. BatchPlaced'
  BY DEF BatchPlaced
<1>2. BatchExclusive'
  BY DEF SlotInv, BatchExclusive, OffColumn, OffBatch
<1> QED BY <1>1, <1>2

(* The batch gains an entry in a slot of its own. *)
LEMMA BatchSlotsGrow ==
  ASSUME IndInv, SlotInv, NEW op \in WriteOp, write_ops' = Append(write_ops, op), dbKey' = dbKey,
         \A j \in DOMAIN write_ops : PlacedAt(data', write_ops[j].key, write_ops[j].val.version),
         PlacedAt(data', op.key, op.val.version),
         OffColumn(op.key, op.val.version), OffBatch(op.key, op.val.version)
  PROVE  BatchPlaced' /\ BatchExclusive'
<1>1. /\ Len(write_ops) \in Nat
      /\ DOMAIN write_ops' = 1..(Len(write_ops) + 1)
      /\ DOMAIN write_ops = 1..Len(write_ops)
      /\ write_ops'[Len(write_ops) + 1] = op
      /\ \A j \in 1..Len(write_ops) : write_ops'[j] = write_ops[j]
  BY AppendOp DEF IndInv, TypeOK
<1>2. \A j \in DOMAIN write_ops' :
        \/ write_ops'[j] = op
        \/ j \in DOMAIN write_ops /\ write_ops'[j] = write_ops[j]
  BY <1>1
<1>3. BatchPlaced'
  BY <1>2 DEF BatchPlaced
<1>4. ASSUME NEW j \in DOMAIN write_ops', NEW k2 \in Keys,
             k2 # write_ops'[j].key, dbKey[k2] # Missing
      PROVE  ~SameSlot(k2, dbKey[k2].version, write_ops'[j].key, write_ops'[j].val.version)
  <2>1. CASE write_ops'[j] = op
    BY <1>4, <2>1 DEF OffColumn
  <2>2. CASE j \in DOMAIN write_ops /\ write_ops'[j] = write_ops[j]
    BY <1>4, <2>2 DEF SlotInv, BatchExclusive, OffColumn
  <2> QED BY <1>2, <2>1, <2>2
<1>5. ASSUME NEW j \in DOMAIN write_ops', NEW m \in DOMAIN write_ops',
             write_ops'[m].key # write_ops'[j].key
      PROVE  ~SameSlot(write_ops'[m].key, write_ops'[m].val.version,
                       write_ops'[j].key, write_ops'[j].val.version)
  <2>1. CASE write_ops'[j] = op
    <3>1. m \in DOMAIN write_ops /\ write_ops'[m] = write_ops[m]
      BY <1>2, <1>5, <2>1
    <3> QED BY <1>5, <2>1, <3>1 DEF OffBatch
  <2>2. CASE write_ops'[m] = op
    <3>1. j \in DOMAIN write_ops /\ write_ops'[j] = write_ops[j]
      BY <1>2, <1>5, <2>2
    <3>2. ~SameSlot(write_ops[j].key, write_ops[j].val.version, op.key, op.val.version)
      BY <1>5, <2>2, <3>1 DEF OffBatch
    <3> QED BY <2>2, <3>1, <3>2, SlotSame
  <2>3. CASE /\ j \in DOMAIN write_ops /\ write_ops'[j] = write_ops[j]
             /\ m \in DOMAIN write_ops /\ write_ops'[m] = write_ops[m]
    BY <1>5, <2>3 DEF SlotInv, BatchExclusive, OffBatch
  <2> QED BY <1>2, <2>1, <2>2, <2>3
<1>6. BatchExclusive'
  BY <1>4, <1>5 DEF BatchExclusive, OffColumn, OffBatch
<1> QED BY <1>3, <1>6

(* A round of the key loop, for a slot that is the key's own and on a path that is full
   above it. *)
LEMMA WriteRoundSlots ==
  ASSUME IndInv, SlotInv, LinkInv, NEW info \in VerInfo, pc = "keys", uncommitted # << >>,
         CommitWrite(info), Fits(Current.key, info)
  PROVE  SlotInv'
<1>0. /\ info.slot <= Taken(data, Current.key, info.level) + 1
      /\ \A l \in 0..(info.level - 1) : Taken(data, Current.key, l) = Slots
      /\ OffColumn(Current.key, info) /\ OffBatch(Current.key, info)
  BY DEF Fits
<1>1. TreeTypes /\ ForestInv /\ Current.key \in Keys /\ data \in Trees
  BY TypeOKParts, CurrentType, EntryTypes DEF IndInv
<1>2. IncKeyVer(Current.key, info) /\ UNCHANGED <<dbKey, saved>> /\ level' = 0
  BY DEF CommitWrite, storeVars
<1>3. PICK n \in Names, i \in Index, new \in Node, delta \in {SlotUnit(info.slot), ZeroFr} :
        IncEffect(Current.key, info, n, i, new, delta)
  BY <1>1, <1>2, IncView
<1>4. n = TreeAtLevel(Current.key, info.level) /\ i = IndexAtLevel(Current.key, info.level)
  BY <1>3 DEF IncEffect
<1>5. /\ data' \in Trees /\ RoomOK(data') /\ Grows(data, data')
      /\ info.slot <= Len(data[n][i].key_versions) + 1
           => info.slot <= Len(data'[n][i].key_versions)
  BY <1>1, <1>3, IncGrows DEF SlotInv
<1>6. /\ RoomOK(data)' /\ ColumnPlaced(dbKey, data)' /\ ColumnExclusive(dbKey)' /\ SavedSlots'
      /\ \A j \in DOMAIN write_ops : PlacedAt(data', write_ops[j].key, write_ops[j].val.version)
  BY <1>2, <1>5, SlotsGrow
<1>7. PlacedAt(data', Current.key, info)
  <2>1. info.slot <= Taken(data', Current.key, info.level)
    BY <1>0, <1>4, <1>5 DEF Taken
  <2>2. info.level \in 0..(MaxLevel - 1) /\ MaxLevel \in Nat /\ Slots \in Nat
    BY ForestConstants DEF VerInfo
  <2>3. ASSUME NEW l \in 0..(info.level - 1) PROVE Taken(data', Current.key, l) = Slots
    <3>1. l \in 0..(MaxLevel - 1)
      BY <2>2
    <3>2. TreeAtLevel(Current.key, l) \in Names /\ IndexAtLevel(Current.key, l) \in Index
      BY <1>1, <3>1, KeyPath
    <3>3. Taken(data, Current.key, l) <= Taken(data', Current.key, l)
      BY <1>5, <3>2 DEF Grows, Taken
    <3>4. Taken(data', Current.key, l) \in Nat /\ Taken(data', Current.key, l) <= Slots
      BY <1>1, <1>5, <3>1, TakenType
    <3>5. Taken(data, Current.key, l) = Slots
      BY <1>0
    <3> QED BY <2>2, <3>3, <3>4, <3>5
  <2> QED BY <2>1, <2>3 DEF PlacedAt
<1>8. \/ \E op \in WriteOp :
           /\ write_ops' = Append(write_ops, op)
           /\ op.key = Current.key
           /\ op.val.version.level = info.level
           /\ op.val.version.slot = info.slot
      \/ write_ops' = write_ops
  BY WriteRound
<1>9. BatchPlaced' /\ BatchExclusive'
  <2>1. CASE write_ops' = write_ops
    BY <1>2, <1>6, <2>1, BatchSlotsKept
  <2>2. ASSUME NEW op \in WriteOp, write_ops' = Append(write_ops, op), op.key = Current.key,
               op.val.version.level = info.level, op.val.version.slot = info.slot
        PROVE  BatchPlaced' /\ BatchExclusive'
    <3>1. PlacedAt(data', op.key, op.val.version)
      BY <1>7, <2>2, PlacedSame
    <3>2. OffColumn(op.key, op.val.version) /\ OffBatch(op.key, op.val.version)
      BY <1>0, <2>2, SlotSame DEF OffColumn, OffBatch
    <3> QED BY <1>2, <1>6, <2>2, <3>1, <3>2, BatchSlotsGrow
  <2> QED BY <1>8, <2>1, <2>2
<1>10. LevelOK'
  <2>1. pc' \in {"keys", "panic"} /\ ~(level' > 0)
    BY <1>2, WriteRound
  <2> QED BY <1>2, <2>1 DEF LevelOK
<1> QED BY <1>6, <1>9, <1>10 DEF SlotInv

(* A known key is written to the slot it has. *)
LEMMA KnownKeyFits ==
  ASSUME IndInv, StoreInv, SlotInv, CommitKnownKey
  PROVE  Fits(Current.key, dbKey[Current.key].version)
<1>1. PICK k \in Keys : k = Current.key /\ dbKey[k] # Missing
  BY KnownSlot
<1>2. PICK info \in VerInfo : info = dbKey[k].version
  BY <1>1, KnownSlot
<1>4. PlacedAt(data, k, info)
  BY <1>1, <1>2 DEF SlotInv, ColumnPlaced
<1>5. info.slot <= Taken(data, k, info.level) + 1
  <2>1. info.slot \in Nat /\ info.level \in 0..(MaxLevel - 1)
    BY DEF VerInfo
  <2>2. Taken(data, k, info.level) \in Nat
    BY <2>1, EntryTypes, TakenType
  <2>3. info.slot <= Taken(data, k, info.level)
    BY <1>4 DEF PlacedAt
  <2> QED BY <2>1, <2>2, <2>3
<1>6. OffColumn(k, info)
  BY <1>1, <1>2 DEF SlotInv, ColumnExclusive, OffColumn
<1>7. OffBatch(k, info)
  <2> SUFFICES ASSUME NEW j \in DOMAIN write_ops, write_ops[j].key # k
               PROVE  ~SameSlot(write_ops[j].key, write_ops[j].val.version, k, info)
    BY DEF OffBatch
  <2>1. ~SameSlot(k, info, write_ops[j].key, write_ops[j].val.version)
    BY <1>1, <1>2 DEF SlotInv, BatchExclusive, OffColumn
  <2> QED BY <2>1 DEF SameSlot
<1>8. \A l \in 0..(info.level - 1) : Taken(data, k, l) = Slots
  BY <1>4 DEF PlacedAt
<1> QED BY <1>1, <1>2, <1>5, <1>6, <1>7, <1>8 DEF Fits

(* A vacant slot belongs to no key that was placed. *)
LEMMA FreshSlot ==
  ASSUME data \in Trees, NEW k \in Keys, NEW l \in 0..(MaxLevel - 1),
         NEW k2 \in Keys, NEW info2 \in VerInfo, PlacedAt(data, k2, info2)
  PROVE  ~SameSlot(k2, info2, k, VacantSlot(k, l))
<1> SUFFICES ASSUME SameSlot(k2, info2, k, VacantSlot(k, l)) PROVE FALSE
  OBVIOUS
<1>1. VacantSlot(k, l).level = l /\ VacantSlot(k, l).slot = Taken(data, k, l) + 1
  BY DEF VacantSlot, Taken
<1>2. info2.level = l /\ info2.slot = Taken(data, k, l) + 1
      /\ TreeAtLevel(k2, l) = TreeAtLevel(k, l) /\ IndexAtLevel(k2, l) = IndexAtLevel(k, l)
  BY <1>1 DEF SameSlot
<1>3. Taken(data, k2, l) = Taken(data, k, l)
  BY <1>2 DEF Taken
<1>4. info2.slot <= Taken(data, k2, l)
  BY <1>2 DEF PlacedAt
<1>5. Taken(data, k, l) \in Nat
  BY TakenType
<1> QED BY <1>2, <1>3, <1>4, <1>5

(* A new key gets the vacant slot of the first level with room. *)
LEMMA NewKeyFits ==
  ASSUME IndInv, StoreInv, SlotInv, CommitNewKey
  PROVE  Fits(Current.key, VacantSlot(Current.key, level))
<1>1. PICK k \in Keys : k = Current.key
  BY NewSlot
<1>2. pc = "keys" /\ uncommitted # << >> /\ level \in 0..(MaxLevel - 1) /\ data \in Trees
  BY NewSlot, EntryTypes
<1>3. PICK info \in VerInfo : info = VacantSlot(k, level)
  BY <1>1, NewSlot
<1>5. info.level = level /\ info.slot = Taken(data, k, level) + 1
  BY <1>3 DEF VacantSlot, Taken
<1>6. info.slot <= Taken(data, k, info.level) + 1
  <2>1. Taken(data, k, level) \in Nat
    BY <1>2, TakenType
  <2> QED BY <1>5, <2>1
<1>7. \A l \in 0..(info.level - 1) : Taken(data, k, l) = Slots
  <2>1. CASE level > 0
    BY <1>1, <1>2, <1>5, <2>1 DEF SlotInv, LevelOK
  <2>2. CASE ~(level > 0)
    BY <1>2, <1>5, <2>2
  <2> QED BY <2>1, <2>2
<1>8. OffColumn(k, info)
  BY <1>2, <1>3, EntryTypes, FreshSlot DEF OffColumn, SlotInv, ColumnPlaced
<1>9. OffBatch(k, info)
  BY <1>2, <1>3, EntryTypes, FreshSlot DEF OffBatch, SlotInv, BatchPlaced
<1> QED BY <1>1, <1>3, <1>6, <1>7, <1>8, <1>9 DEF Fits

(* Steps that change neither nodes nor columns nor the batch. *)
LEMMA SlotsKept ==
  ASSUME SlotInv, UNCHANGED <<data, dbKey, write_ops, saved>>, LevelOK'
  PROVE  SlotInv'
<1>1. /\ RoomOK(data)' /\ ColumnPlaced(dbKey, data)' /\ ColumnExclusive(dbKey)'
      /\ BatchPlaced' /\ SavedSlots'
  BY DEF SlotInv, RoomOK, ColumnPlaced, ColumnExclusive, BatchPlaced, SavedSlots
<1>2. BatchExclusive'
  BY DEF SlotInv, BatchExclusive, OffColumn, OffBatch
<1> QED BY <1>1, <1>2 DEF SlotInv

(* A round of allocate_vacant_slot that finds the node full. *)
LEMMA SkipSlots ==
  ASSUME IndInv, StoreInv, SlotInv, AllocateSkip
  PROVE  SlotInv'
<1>1. /\ pc = "keys" /\ uncommitted # << >> /\ level < MaxLevel /\ SlotsFull(Current.key, level)
      /\ level' = level + 1
      /\ UNCHANGED <<data, dbKey, write_ops, saved, pc, uncommitted>>
  BY DEF AllocateSkip, SkipFullLevel, storeVars
<1>2. PICK k \in Keys : k = Current.key
  BY <1>1, CurrentType DEF IndInv
<1>3. level \in 0..(MaxLevel - 1) /\ MaxLevel \in Nat /\ Slots \in Nat
  BY <1>1, ForestConstants DEF IndInv, TypeOK
<1>4. Taken(data, k, level) = Slots
  <2>1. Taken(data, k, level) >= Slots
    BY <1>1, <1>2 DEF SlotsFull, Taken
  <2>2. Taken(data, k, level) \in Nat /\ Taken(data, k, level) <= Slots
    BY <1>3, EntryTypes, TakenType DEF SlotInv
  <2> QED BY <1>3, <2>1, <2>2
<1>5. ASSUME NEW l \in 0..level PROVE Taken(data, k, l) = Slots
  <2>1. CASE l = level
    BY <1>4, <2>1
  <2>2. CASE l # level
    <3>1. level > 0 /\ l \in 0..(level - 1)
      BY <1>3, <2>2
    <3> QED BY <1>1, <1>2, <3>1 DEF SlotInv, LevelOK
  <2> QED BY <2>1, <2>2
<1>6. 0..(level' - 1) = 0..level /\ Current' = Current
  BY <1>1, <1>3 DEF Current
<1>7. LevelOK'
  BY <1>1, <1>2, <1>5, <1>6 DEF LevelOK, Taken
<1> QED BY <1>1, <1>7, SlotsKept

(* A tree that commit_tree finishes. *)
LEMMA CommitOneTreeSlots ==
  ASSUME IndInv, LinkInv, SlotInv, CommitOneTree
  PROVE  SlotInv'
<1>1. PICK n \in Names : CommitTree(n, dbEpoch)
  BY DEF CommitOneTree
<1>2. pc = "trees" /\ UNCHANGED <<dbKey, saved, pc, level, write_ops, uncommitted>>
  BY DEF CommitOneTree, storeVars
<1>3. dbEpoch \in Nat /\ hashes \in Seq(Leaf) /\ TreeTypes /\ ForestInv /\ data \in Trees
  BY StoreConstants, TypeOKParts, EntryTypes DEF IndInv, TypeOK
<1>4. data' \in Trees /\ RoomOK(data') /\ Grows(data, data')
  <2>1. CASE data' = data
    <3>1. Grows(data, data)
      BY <1>3, LenType DEF Grows
    <3> QED BY <1>3, <2>1, <3>1 DEF SlotInv
  <2>2. \/ data' = data
        \/ \E p \in Names, i \in Index, new \in Node : RecordEffect(n, p, i, new, dbEpoch)
    BY <1>1, <1>3, CommitTreeView
  <2>3. ASSUME NEW p \in Names, NEW i \in Index, NEW new \in Node,
               RecordEffect(n, p, i, new, dbEpoch)
        PROVE  data' \in Trees /\ RoomOK(data') /\ Grows(data, data')
    BY <1>3, <2>3, RecordGrows DEF SlotInv
  <2> QED BY <2>1, <2>2, <2>3
<1>5. /\ RoomOK(data)' /\ ColumnPlaced(dbKey, data)' /\ ColumnExclusive(dbKey)' /\ SavedSlots'
      /\ \A j \in DOMAIN write_ops : PlacedAt(data', write_ops[j].key, write_ops[j].val.version)
  BY <1>2, <1>4, SlotsGrow
<1>6. BatchPlaced' /\ BatchExclusive'
  BY <1>2, <1>5, BatchSlotsKept
<1>7. LevelOK'
  BY <1>2 DEF SlotInv, LevelOK
<1> QED BY <1>5, <1>6, <1>7 DEF SlotInv

(* The entry of a key after commit is the stored one or one of the batch. *)
LEMMA AppliedEntry ==
  ASSUME IndInv, NEW k \in Keys
  PROVE  \/ /\ WritesTo(write_ops, k) = {}
            /\ ApplyBatch(dbKey, write_ops)[k] = dbKey[k]
         \/ \E m \in DOMAIN write_ops :
              /\ write_ops[m].key = k
              /\ ApplyBatch(dbKey, write_ops)[k] = write_ops[m].val
<1>1. DOMAIN write_ops = 1..Len(write_ops) /\ Len(write_ops) \in Nat /\ DOMAIN dbKey = Keys
  BY EntryTypes DEF IndInv, TypeOK
<1>2. \/ /\ WritesTo(write_ops, k) = {}
         /\ ApplyBatch(dbKey, write_ops)[k] = dbKey[k]
      \/ \E m \in WritesTo(write_ops, k) :
           /\ \A j \in WritesTo(write_ops, k) : j <= m
           /\ ApplyBatch(dbKey, write_ops)[k] = write_ops[m].val
  BY <1>1, BatchEntry
<1> QED BY <1>2 DEF WritesTo

(* The batch becomes part of the store. *)
LEMMA CommitEndSlots ==
  ASSUME IndInv, SlotInv, CommitEnd
  PROVE  SlotInv'
<1>1. /\ pc = "trees" /\ pc' = "idle" /\ dbKey' = ApplyBatch(dbKey, write_ops)
      /\ UNCHANGED <<data, level, saved>> /\ write_ops' = << >>
  BY DEF CommitEnd, CommitRoot
<1>2. ASSUME NEW k \in Keys
      PROVE  \/ dbKey'[k] = dbKey[k]
             \/ \E m \in DOMAIN write_ops :
                  write_ops[m].key = k /\ dbKey'[k] = write_ops[m].val
  BY <1>1, AppliedEntry
<1>3. ColumnPlaced(dbKey', data)
  BY <1>2 DEF SlotInv, ColumnPlaced, BatchPlaced
<1>4. ASSUME NEW k1 \in Keys, NEW k2 \in Keys, k1 # k2, dbKey'[k1] # Missing, dbKey'[k2] # Missing
      PROVE  ~SameSlot(k1, dbKey'[k1].version, k2, dbKey'[k2].version)
  <2>1. CASE dbKey'[k1] = dbKey[k1] /\ dbKey'[k2] = dbKey[k2]
    BY <1>4, <2>1 DEF SlotInv, ColumnExclusive
  <2>2. ASSUME NEW m \in DOMAIN write_ops, write_ops[m].key = k2, dbKey'[k2] = write_ops[m].val
        PROVE  ~SameSlot(k1, dbKey'[k1].version, k2, dbKey'[k2].version)
    <3>1. OffColumn(k2, dbKey'[k2].version) /\ OffBatch(k2, dbKey'[k2].version)
      BY <2>2 DEF SlotInv, BatchExclusive
    <3> QED BY <1>2, <1>4, <3>1 DEF OffColumn, OffBatch
  <2>3. ASSUME NEW m \in DOMAIN write_ops, write_ops[m].key = k1, dbKey'[k1] = write_ops[m].val,
               dbKey'[k2] = dbKey[k2]
        PROVE  ~SameSlot(k1, dbKey'[k1].version, k2, dbKey'[k2].version)
    <3>1. OffColumn(k1, dbKey'[k1].version)
      BY <2>3 DEF SlotInv, BatchExclusive
    <3>2. ~SameSlot(k2, dbKey'[k2].version, k1, dbKey'[k1].version)
      BY <1>4, <2>3, <3>1 DEF OffColumn
    <3> QED BY <3>2 DEF SameSlot
  <2> QED BY <1>2, <2>1, <2>2, <2>3
<1>5. ColumnExclusive(dbKey')
  BY <1>4 DEF ColumnExclusive
<1>6. RoomOK(data)' /\ ColumnPlaced(dbKey, data)' /\ ColumnExclusive(dbKey)' /\ SavedSlots'
  BY <1>1, <1>3, <1>5 DEF SlotInv, SavedSlots
<1>7. BatchPlaced' /\ BatchExclusive' /\ LevelOK'
  BY <1>1 DEF BatchPlaced, BatchExclusive, LevelOK, SlotInv
<1> QED BY <1>6, <1>7 DEF SlotInv

(* The empty store holds no slot. *)
LEMMA SlotInit == Init => SlotInv
<1> SUFFICES ASSUME Init PROVE SlotInv
  OBVIOUS
<1>1. /\ data = EmptyData /\ dbKey = EmptyKeys /\ saved = EmptySaved /\ write_ops = << >>
      /\ pc = "idle" /\ level = 0
  BY DEF Init, TreeInit, NewForest
<1>2. RoomOK(EmptyData)
  <2>1. ASSUME NEW n \in Names, NEW i \in Index
        PROVE  EmptyData[n][i].key_versions = << >>
    BY DEF EmptyData, EmptyNode
  <2>2. Len(<< >>) = 0 /\ 0 <= Slots
    BY ForestConstants
  <2> QED BY <2>1, <2>2 DEF RoomOK
<1>3. \A k \in Keys : EmptyKeys[k] = Missing
  BY DEF EmptyKeys
<1>4. ColumnPlaced(EmptyKeys, EmptyData) /\ ColumnExclusive(EmptyKeys)
  BY <1>3 DEF ColumnPlaced, ColumnExclusive
<1>5. SavedSlots
  BY <1>1, <1>2, <1>4 DEF SavedSlots, EmptySaved
<1>6. BatchPlaced /\ BatchExclusive /\ LevelOK
  BY <1>1 DEF BatchPlaced, BatchExclusive, LevelOK
<1> QED BY <1>1, <1>2, <1>4, <1>5, <1>6 DEF SlotInv

(* A directory that is saved has the slots of the store. *)
LEMMA FlushSlots ==
  ASSUME IndInv, LinkInv, SlotInv, FlushRoot
  PROVE  SlotInv'
<1>1. /\ UNCHANGED <<data, dbKey, write_ops, pc, level, uncommitted>>
      /\ \/ saved' = saved
         \/ saved'.key = dbKey /\ saved'.data = data
  BY FlushSaves
<1>2. SavedSlots'
  BY <1>1 DEF SlotInv, SavedSlots
<1>3. /\ RoomOK(data)' /\ ColumnPlaced(dbKey, data)' /\ ColumnExclusive(dbKey)'
      /\ BatchPlaced' /\ LevelOK'
  BY <1>1 DEF SlotInv, RoomOK, ColumnPlaced, ColumnExclusive, BatchPlaced, LevelOK, Current,
              Taken
<1>4. BatchExclusive'
  BY <1>1 DEF SlotInv, BatchExclusive, OffColumn, OffBatch
<1> QED BY <1>2, <1>3, <1>4 DEF SlotInv

(* A new process has the slots of the saved directory. *)
LEMMA RestartSlots ==
  ASSUME SlotInv, Restart
  PROVE  SlotInv'
<1>1. /\ data' = saved.data /\ dbKey' = saved.key /\ saved' = saved /\ write_ops' = << >>
      /\ level' = 0 /\ pc' = "idle"
  BY DEF Restart, ReopenForest
<1>2. RoomOK(data)' /\ ColumnPlaced(dbKey, data)' /\ ColumnExclusive(dbKey)' /\ SavedSlots'
  BY <1>1 DEF SlotInv, SavedSlots
<1>3. BatchPlaced' /\ BatchExclusive' /\ LevelOK'
  BY <1>1 DEF BatchPlaced, BatchExclusive, LevelOK
<1> QED BY <1>2, <1>3 DEF SlotInv

(* Every step keeps the slots in order. *)
LEMMA SlotNext == IndInv /\ StoreInv /\ CommitInv /\ SlotInv /\ [Next]_vars => SlotInv'
<1> SUFFICES ASSUME IndInv, StoreInv, CommitInv, SlotInv, [Next]_vars PROVE SlotInv'
  OBVIOUS
<1>0. LinkInv /\ LevelOK /\ level \in 0..MaxLevel /\ MaxLevel \in Nat
  BY ForestConstants DEF CommitInv, SlotInv, IndInv, TypeOK
<1>1. ASSUME UNCHANGED <<data, dbKey, write_ops, saved, level>>, pc = "idle"
      PROVE  SlotInv'
  <2>1. level' = 0
    BY <1>0, <1>1 DEF LevelOK
  <2>2. LevelOK'
    BY <2>1 DEF LevelOK
  <2> QED BY <1>1, <2>2, SlotsKept
<1>2. CASE \/ \E k \in ReadKeys : Get(k)
           \/ \E k \in Keys, v \in Values : Set(k, v)
           \/ \E k \in Keys : Prove(k)
           \/ CommitBegin
  BY <1>1, <1>2 DEF Get, Set, Prove, CommitBegin, treeVars, storeVars
<1>3. CASE CommitKnownKey
  BY <1>0, <1>3, KnownSlot, KnownKeyFits, WriteRoundSlots
<1>4. CASE CommitNewKey
  <2>1. PICK info : info = VacantSlot(Current.key, level)
    OBVIOUS
  <2> QED BY <1>0, <1>4, <2>1, NewSlot, NewKeyFits, WriteRoundSlots
<1>5. CASE AllocateSkip
  BY <1>5, SkipSlots
<1>6. CASE AllocatePanic
  <2>1. pc' = "panic" /\ UNCHANGED <<data, dbKey, write_ops, saved>>
    BY <1>6 DEF AllocatePanic, treeVars, storeVars
  <2>2. LevelOK'
    BY <2>1 DEF LevelOK
  <2> QED BY <2>1, <2>2, SlotsKept
<1>7. CASE CommitTreesBegin
  <2>1. /\ pc = "keys" /\ pc' = "trees" /\ uncommitted = << >>
        /\ UNCHANGED <<data, dbKey, write_ops, saved, level>>
    BY <1>7 DEF CommitTreesBegin, treeVars, storeVars
  <2>2. level = 0
    BY <1>0, <2>1 DEF LevelOK
  <2>3. LevelOK'
    BY <2>1, <2>2 DEF LevelOK
  <2> QED BY <2>1, <2>3, SlotsKept
<1>8. CASE CommitOneTree
  BY <1>0, <1>8, CommitOneTreeSlots
<1>9. CASE CommitEnd
  BY <1>9, CommitEndSlots
<1>10. CASE FlushRoot
  BY <1>0, <1>10, FlushSlots
<1>11. CASE Restart
  BY <1>11, RestartSlots
<1>12. CASE UNCHANGED vars
  <2>1. UNCHANGED <<data, dbKey, write_ops, saved, level, pc, uncommitted>>
    BY <1>12 DEF vars, treeVars, storeVars
  <2>2. LevelOK'
    BY <1>0, <2>1 DEF LevelOK, Current, Taken
  <2> QED BY <2>1, <2>2, SlotsKept
<1> QED BY <1>2, <1>3, <1>4, <1>5, <1>6, <1>7, <1>8, <1>9, <1>10, <1>11, <1>12
        DEF Next, CommitStep

(* The invariant of the slots, with those it rests on. *)
THEOREM SlotInductive == Spec => [](IndInv /\ StoreInv /\ CommitInv /\ SlotInv)
<1>1. Init => SlotInv
  BY SlotInit
<1>2. IndInv /\ StoreInv /\ CommitInv /\ SlotInv /\ [Next]_vars => SlotInv'
  BY SlotNext
<1> QED BY <1>1, <1>2, CommitInductive, PTL DEF Spec

(* Two stored keys never have the same version slot, whatever paths the keys have and
   however often the search of allocate_vacant_slot moved down: inc_key_ver of one key
   does not move the version of another. *)
THEOREM SlotsAreExclusive == Spec => []SlotsExclusive
<1>1. SlotInv => SlotsExclusive
  BY DEF SlotInv, ColumnExclusive, SlotsExclusive, SameSlot, Stored
<1> QED BY <1>1, SlotInductive, PTL

(* A stored key sits at the first level that had room for it: every node above on its
   path is full, at any depth of the forest and with any number of slots. *)
THEOREM UpperLevelsFull == Spec => []ShallowLevelsFull
<1>1. SlotInv => ShallowLevelsFull
  BY DEF SlotInv, ColumnPlaced, PlacedAt, Taken, ShallowLevelsFull, Stored
<1> QED BY <1>1, SlotInductive, PTL

------------------------------------------------------------------------------
(* The versions in the slots, for a workload that writes a key at most once in an epoch.
   VersionAgreement speaks of the stored keys between commits.  During a commit a key that
   the batch writes agrees in its batch entry instead, a slot that no key holds has
   version 0, and no key is in both the batch and the writes that are left. *)

(* The version that the AMTs commit to in the slot of key k named by info. *)
Committed(k, info) ==
  ViewComm(TreeAtLevel(k, info.level))[IndexAtLevel(k, info.level)][info.slot]

SavedCommitted(k, info) ==
  SavedComm(TreeAtLevel(k, info.level))[IndexAtLevel(k, info.level)][info.slot]

UnusedAt(c, node) == \A s \in 1..Slots : s > Len(node.key_versions) => c[s] = 0

UnusedZero == \A n \in Names, i \in Index : UnusedAt(ViewComm(n)[i], data[n][i])

SavedUnusedZero == \A n \in Names, i \in Index : UnusedAt(SavedComm(n)[i], saved.data[n][i])

OneWrite ==
  /\ \A i, j \in DOMAIN uncommitted : uncommitted[i].key = uncommitted[j].key => i = j
  /\ \A i \in DOMAIN write_ops, j \in DOMAIN uncommitted :
       write_ops[i].key # uncommitted[j].key

ColumnAgrees ==
  \A k \in Keys :
    dbKey[k] # Missing /\ WritesTo(write_ops, k) = {}
      => dbKey[k].version.version = Committed(k, dbKey[k].version)

BatchAgrees ==
  \A j \in DOMAIN write_ops :
    write_ops[j].val.version.version = Committed(write_ops[j].key, write_ops[j].val.version)

SavedAgrees ==
  \A k \in Keys :
    saved.key[k] # Missing
      => saved.key[k].version.version = SavedCommitted(k, saved.key[k].version)

VersionInv ==
  /\ UnusedZero /\ SavedUnusedZero
  /\ OneWrite
  /\ pc # "panic" => ColumnAgrees /\ BatchAgrees
  /\ SavedAgrees

(* The commitments of all key slots, seen before and after a step. *)
SlotsUnmoved ==
  \A n \in Names, i \in Index, s \in 1..Slots : ViewComm(n)'[i][s] = ViewComm(n)[i][s]

(* A step that keeps the view of every tree moves no slot. *)
LEMMA SameView ==
  ASSUME \A t \in Names : ViewComm(t)' = ViewComm(t)
  PROVE  SlotsUnmoved
BY DEF SlotsUnmoved

(* The place of a key's slot. *)
LEMMA SlotPlace ==
  ASSUME NEW k \in Keys, NEW info \in VerInfo
  PROVE  /\ TreeAtLevel(k, info.level) \in Names /\ IndexAtLevel(k, info.level) \in Index
         /\ info.slot \in 1..Slots
<1>1. info.level \in 0..(MaxLevel - 1) /\ info.slot \in 1..Slots
  BY DEF VerInfo
<1> QED BY <1>1, KeyPath

(* Then it moves no version. *)
LEMMA SameCommitted ==
  ASSUME SlotsUnmoved, NEW k \in Keys, NEW info \in VerInfo
  PROVE  Committed(k, info)' = Committed(k, info)
<1>1. PICK n \in Names, i \in Index, s \in 1..Slots :
        n = TreeAtLevel(k, info.level) /\ i = IndexAtLevel(k, info.level) /\ s = info.slot
  BY SlotPlace
<1>2. Committed(k, info)' = ViewComm(n)'[i][s] /\ Committed(k, info) = ViewComm(n)[i][s]
  BY <1>1 DEF Committed
<1> QED BY <1>2 DEF SlotsUnmoved

(* inc_key_ver adds one to the version of its slot, and moves no other slot. *)
LEMMA IncMoves ==
  ASSUME TreeTypes, ForestInv, NEW k \in Keys, NEW info \in VerInfo, NEW n \in Names,
         NEW i \in Index, NEW new \in Node, NEW delta, IncEffect(k, info, n, i, new, delta),
         info.slot <= Len(data[n][i].key_versions) + 1
  PROVE  /\ ViewComm(n)'[i][info.slot] = ViewComm(n)[i][info.slot] + 1
         /\ \A t \in Names, j \in Index, s \in 0..Slots :
              ~(t = n /\ j = i /\ s = info.slot) => ViewComm(t)'[j][s] = ViewComm(t)[j][s]
<1>1. /\ delta = SlotUnit(info.slot)
      /\ ViewComm(n)' = Updated(ViewComm(n), i, delta)
      /\ \A t \in Names : t # n => ViewComm(t)' = ViewComm(t)
  BY DEF IncEffect
<1>2. info.slot \in 0..Slots /\ delta \in FrInt
  BY <1>1, ForestConstants DEF VerInfo, SlotUnit, FrInt
<1>3. PICK c \in Commitment : c = ViewComm(n)
  BY ViewType
<1>4. /\ ViewComm(n)'[i] = [s \in 0..Slots |-> c[i][s] + delta[s]]
      /\ \A j \in Index : j # i => ViewComm(n)'[j] = c[j]
  BY <1>1, <1>2, <1>3, UpdatedAt, UpdatedElsewhere
<1>5. \A s \in 0..Slots : c[i][s] \in Nat /\ delta[s] = IF s = info.slot THEN 1 ELSE 0
  BY <1>1 DEF Commitment, FrInt, SlotUnit
<1>6. \A s \in 0..Slots : ViewComm(n)'[i][s] = c[i][s] + delta[s]
  BY <1>4
<1>7. ViewComm(n)'[i][info.slot] = ViewComm(n)[i][info.slot] + 1
  BY <1>2, <1>3, <1>5, <1>6
<1>8. ASSUME NEW t \in Names, NEW j \in Index, NEW s \in 0..Slots,
             ~(t = n /\ j = i /\ s = info.slot)
      PROVE  ViewComm(t)'[j][s] = ViewComm(t)[j][s]
  <2>1. CASE t # n
    BY <1>1, <2>1
  <2>2. CASE t = n /\ j # i
    BY <1>3, <1>4, <2>2
  <2>3. CASE t = n /\ j = i
    <3>1. ViewComm(n)'[i][s] = c[i][s] + 0
      BY <1>5, <1>6, <1>8, <2>3
    <3> QED BY <1>3, <1>5, <2>3, <3>1
  <2> QED BY <2>1, <2>2, <2>3
<1> QED BY <1>7, <1>8

(* commit_tree moves child versions only. *)
LEMMA RecordMoves ==
  ASSUME TreeTypes, ForestInv, NEW n, NEW p \in Names, NEW i \in Index, NEW new,
         NEW epoch, RecordEffect(n, p, i, new, epoch)
  PROVE  SlotsUnmoved
<1>1. /\ ViewComm(p)' = Updated(ViewComm(p), i, SlotUnit(0))
      /\ \A t \in Names : t # p => ViewComm(t)' = ViewComm(t)
  BY DEF RecordEffect
<1>2. SlotUnit(0) \in FrInt
  BY ForestConstants DEF SlotUnit, FrInt
<1>3. PICK c \in Commitment : c = ViewComm(p)
  BY ViewType
<1>4. /\ ViewComm(p)'[i] = [s \in 0..Slots |-> c[i][s] + SlotUnit(0)[s]]
      /\ \A j \in Index : j # i => ViewComm(p)'[j] = c[j]
  BY <1>1, <1>2, <1>3, UpdatedAt, UpdatedElsewhere
<1>5. ASSUME NEW s \in 1..Slots PROVE ViewComm(p)'[i][s] = c[i][s]
  <2>1. s \in 0..Slots /\ SlotUnit(0)[s] = 0
    BY ForestConstants DEF SlotUnit
  <2>2. c[i][s] \in Nat
    BY <2>1 DEF Commitment, FrInt
  <2> QED BY <1>4, <2>1, <2>2
<1> QED BY <1>1, <1>3, <1>4, <1>5 DEF SlotsUnmoved

(* Unused slots stay zero while nodes only gain slots. *)
LEMMA UnusedKept ==
  ASSUME UnusedZero, SlotsUnmoved, data \in Trees, data' \in Trees, Grows(data, data')
  PROVE  UnusedZero'
<1> SUFFICES ASSUME NEW n \in Names, NEW i \in Index, NEW s \in 1..Slots,
                    s > Len(data'[n][i].key_versions)
             PROVE  ViewComm(n)'[i][s] = 0
  BY DEF UnusedZero, UnusedAt
<1>1. Len(data[n][i].key_versions) <= Len(data'[n][i].key_versions)
  BY DEF Grows
<1>2. Len(data[n][i].key_versions) \in Nat /\ Len(data'[n][i].key_versions) \in Nat
  BY LenType
<1>3. s > Len(data[n][i].key_versions)
  BY <1>1, <1>2, ForestConstants
<1> QED BY <1>3 DEF UnusedZero, UnusedAt, SlotsUnmoved

(* The saved directory only changes with saved. *)
LEMMA SavedVersionsKept ==
  ASSUME SavedUnusedZero, SavedAgrees, saved' = saved
  PROVE  SavedUnusedZero' /\ SavedAgrees'
<1>1. \A n \in Names : SavedComm(n)' = SavedComm(n)
  BY DEF SavedComm
<1>2. SavedUnusedZero'
  BY <1>1 DEF SavedUnusedZero, UnusedAt
<1>3. SavedAgrees'
  BY DEF SavedAgrees, SavedCommitted, SavedComm
<1> QED BY <1>2, <1>3

(* A step that moves no slot and keeps the columns and the batch. *)
LEMMA VersionsKept ==
  ASSUME IndInv, VersionInv, SlotsUnmoved, data' \in Trees, Grows(data, data'),
         UNCHANGED <<dbKey, write_ops, saved>>, OneWrite', pc' # "panic" => pc # "panic"
  PROVE  VersionInv'
<1>1. UnusedZero'
  BY EntryTypes, UnusedKept DEF VersionInv
<1>2. SavedUnusedZero' /\ SavedAgrees'
  BY SavedVersionsKept DEF VersionInv
<1>3. ASSUME pc # "panic" PROVE ColumnAgrees'
  <2> SUFFICES ASSUME NEW k \in Keys, dbKey[k] # Missing, WritesTo(write_ops, k) = {}
               PROVE  dbKey[k].version.version = Committed(k, dbKey[k].version)'
    BY DEF ColumnAgrees, Committed
  <2>1. PICK info \in VerInfo : info = dbKey[k].version
    BY EntryTypes
  <2>2. dbKey[k].version.version = Committed(k, info)
    BY <1>3, <2>1 DEF VersionInv, ColumnAgrees
  <2>3. Committed(k, info)' = Committed(k, info)
    BY SameCommitted
  <2>4. Committed(k, dbKey[k].version)' = Committed(k, info)'
    BY <2>1 DEF Committed
  <2> QED BY <2>2, <2>3, <2>4
<1>4. ASSUME pc # "panic" PROVE BatchAgrees'
  <2> SUFFICES ASSUME NEW j \in DOMAIN write_ops
               PROVE  write_ops[j].val.version.version
                        = Committed(write_ops[j].key, write_ops[j].val.version)'
    BY DEF BatchAgrees, Committed
  <2>1. PICK k \in Keys, info \in VerInfo :
          k = write_ops[j].key /\ info = write_ops[j].val.version
    BY EntryTypes
  <2>2. info.version = Committed(k, info)
    BY <1>4, <2>1 DEF VersionInv, BatchAgrees
  <2>3. Committed(k, info)' = Committed(k, info)
    BY SameCommitted
  <2>4. Committed(write_ops[j].key, write_ops[j].val.version)' = Committed(k, info)'
    BY <2>1 DEF Committed
  <2> QED BY <2>1, <2>2, <2>3, <2>4
<1> QED BY <1>1, <1>2, <1>3, <1>4 DEF VersionInv

(* A round of the key loop takes a write from the queue to the batch. *)
LEMMA OneWriteRound ==
  ASSUME IndInv, OneWrite, uncommitted # << >>, uncommitted' = Tail(uncommitted),
         NEW op \in WriteOp, write_ops' = Append(write_ops, op), op.key = Current.key
  PROVE  OneWrite' /\ WritesTo(write_ops, Current.key) = {}
<1>1. /\ Len(write_ops) \in Nat
      /\ DOMAIN write_ops' = 1..(Len(write_ops) + 1)
      /\ DOMAIN write_ops = 1..Len(write_ops)
      /\ write_ops'[Len(write_ops) + 1] = op
      /\ \A j \in 1..Len(write_ops) : write_ops'[j] = write_ops[j]
  BY AppendOp DEF IndInv, TypeOK
<1>2. PICK S : uncommitted \in Seq(S)
  BY DEF IndInv, TypeOK
<1>3. /\ Len(uncommitted) \in Nat \ {0} /\ DOMAIN uncommitted = 1..Len(uncommitted)
      /\ DOMAIN uncommitted' = 1..(Len(uncommitted) - 1)
      /\ Current = uncommitted[1]
      /\ \A j \in 1..(Len(uncommitted) - 1) : uncommitted'[j] = uncommitted[j + 1]
  BY <1>2, HeadTailProperties, EmptySeq, LenProperties DEF Current
<1>4. 1 \in DOMAIN uncommitted /\ \A j \in DOMAIN uncommitted' :
        j + 1 \in DOMAIN uncommitted /\ j + 1 # 1 /\ uncommitted'[j] = uncommitted[j + 1]
  BY <1>3
<1>5. ASSUME NEW i \in DOMAIN uncommitted', NEW j \in DOMAIN uncommitted',
             uncommitted'[i].key = uncommitted'[j].key
      PROVE  i = j
  <2>1. i + 1 = j + 1
    BY <1>4, <1>5 DEF OneWrite
  <2> QED BY <1>3, <2>1
<1>6. ASSUME NEW i \in DOMAIN write_ops', NEW j \in DOMAIN uncommitted'
      PROVE  write_ops'[i].key # uncommitted'[j].key
  <2>1. CASE i \in 1..Len(write_ops)
    BY <1>1, <1>4, <2>1 DEF OneWrite
  <2>2. CASE i = Len(write_ops) + 1
    BY <1>1, <1>3, <1>4, <2>2 DEF OneWrite
  <2> QED BY <1>1, <2>1, <2>2
<1>7. WritesTo(write_ops, Current.key) = {}
  BY <1>3, <1>4 DEF OneWrite, WritesTo
<1> QED BY <1>5, <1>6, <1>7 DEF OneWrite

(* inc_key_ver seen from the slots of keys: the key's own version goes up by one, and a
   key with another slot keeps its version. *)
LEMMA IncVersions ==
  ASSUME IndInv, LinkInv, NEW k \in Keys, NEW info \in VerInfo, IncKeyVer(k, info),
         info.slot <= Taken(data, k, info.level) + 1, RoomOK(data), UnusedZero
  PROVE  /\ Committed(k, info)' = Committed(k, info) + 1
         /\ \A k2 \in Keys, info2 \in VerInfo :
              ~SameSlot(k2, info2, k, info) => Committed(k2, info2)' = Committed(k2, info2)
         /\ UnusedZero'
<1>1. TreeTypes /\ ForestInv /\ data \in Trees
  BY TypeOKParts, EntryTypes DEF IndInv
<1>2. PICK n \in Names, i \in Index, new \in Node, delta \in {SlotUnit(info.slot), ZeroFr} :
        IncEffect(k, info, n, i, new, delta)
  BY <1>1, IncView
<1>3. n = TreeAtLevel(k, info.level) /\ i = IndexAtLevel(k, info.level)
  BY <1>2 DEF IncEffect
<1>4. info.slot <= Len(data[n][i].key_versions) + 1
  BY <1>3 DEF Taken
<1>5. ViewComm(n)'[i][info.slot] = ViewComm(n)[i][info.slot] + 1
  BY <1>1, <1>2, <1>4, IncMoves
<1>6. \A t \in Names, j \in Index, s \in 0..Slots :
        ~(t = n /\ j = i /\ s = info.slot) => ViewComm(t)'[j][s] = ViewComm(t)[j][s]
  BY <1>1, <1>2, <1>4, IncMoves
<1>7. Committed(k, info)' = Committed(k, info) + 1
  BY <1>3, <1>5 DEF Committed
<1>8. ASSUME NEW k2 \in Keys, NEW info2 \in VerInfo, ~SameSlot(k2, info2, k, info)
      PROVE  Committed(k2, info2)' = Committed(k2, info2)
  <2>1. PICK t \in Names, j \in Index, s \in 1..Slots :
          /\ t = TreeAtLevel(k2, info2.level) /\ j = IndexAtLevel(k2, info2.level)
          /\ s = info2.slot
    BY SlotPlace
  <2>2. s \in 0..Slots
    BY ForestConstants
  <2>3. ~(t = n /\ j = i /\ s = info.slot)
    <3> SUFFICES ASSUME t = n, j = i, s = info.slot PROVE FALSE
      OBVIOUS
    <3>1. info.level \in 0..(MaxLevel - 1) /\ info2.level \in 0..(MaxLevel - 1)
      BY DEF VerInfo
    <3>2. info2.level = info.level
      BY <1>3, <2>1, <3>1, KeyPath
    <3> QED BY <1>3, <1>8, <2>1, <3>2 DEF SameSlot
  <2>4. ViewComm(t)'[j][s] = ViewComm(t)[j][s]
    BY <1>6, <2>2, <2>3
  <2> QED BY <2>1, <2>4 DEF Committed
<1>9. data' \in Trees /\ Grows(data, data')
      /\ info.slot <= Len(data'[n][i].key_versions)
  BY <1>1, <1>2, <1>4, IncGrows
<1>10. UnusedZero'
  <2> SUFFICES ASSUME NEW t \in Names, NEW j \in Index, NEW s \in 1..Slots,
                      s > Len(data'[t][j].key_versions)
               PROVE  ViewComm(t)'[j][s] = 0
    BY DEF UnusedZero, UnusedAt
  <2>1. /\ Len(data[t][j].key_versions) \in Nat /\ Len(data'[t][j].key_versions) \in Nat
        /\ Len(data[t][j].key_versions) <= Len(data'[t][j].key_versions)
    BY <1>1, <1>9, LenType DEF Grows
  <2>2. s > Len(data[t][j].key_versions) /\ s \in 0..Slots
    BY <2>1, ForestConstants
  <2>3. ~(t = n /\ j = i /\ s = info.slot)
    <3> SUFFICES ASSUME t = n, j = i, s = info.slot PROVE FALSE
      OBVIOUS
    <3>1. s <= Len(data'[t][j].key_versions)
      BY <1>9
    <3> QED BY <2>1, <3>1
  <2>4. ViewComm(t)[j][s] = 0
    BY <2>2 DEF UnusedZero, UnusedAt
  <2> QED BY <1>6, <2>2, <2>3, <2>4
<1> QED BY <1>7, <1>8, <1>10

(* A round of the key loop for a slot that is the key's own and whose version is the
   one that the AMTs commit to. *)
LEMMA WriteRoundVersions ==
  ASSUME IndInv, SlotInv, LinkInv, VersionInv, NEW info \in VerInfo, pc = "keys",
         uncommitted # << >>, CommitWrite(info), Fits(Current.key, info),
         info.version = Committed(Current.key, info)
  PROVE  VersionInv'
<1>0. /\ info.slot <= Taken(data, Current.key, info.level) + 1
      /\ OffColumn(Current.key, info) /\ OffBatch(Current.key, info)
  BY DEF Fits
<1>1. PICK k \in Keys : k = Current.key
  BY CurrentType DEF IndInv
<1>2. IncKeyVer(k, info) /\ UNCHANGED <<dbKey, saved>>
  BY <1>1 DEF CommitWrite, storeVars
<1>3. UnusedZero' /\ SavedUnusedZero' /\ SavedAgrees'
  <2>1. info.slot <= Taken(data, k, info.level) + 1
    BY <1>0, <1>1
  <2> QED BY <1>2, <2>1, IncVersions, SavedVersionsKept DEF SlotInv, VersionInv
<1>4. Committed(k, info)' = Committed(k, info) + 1
  BY <1>0, <1>1, <1>2, IncVersions DEF SlotInv, VersionInv
<1>5. \A k2 \in Keys, info2 \in VerInfo :
        ~SameSlot(k2, info2, k, info) => Committed(k2, info2)' = Committed(k2, info2)
  BY <1>0, <1>1, <1>2, IncVersions DEF SlotInv, VersionInv
<1>6. \/ /\ uncommitted' = Tail(uncommitted)
         /\ \E op \in WriteOp :
              /\ write_ops' = Append(write_ops, op)
              /\ op.key = Current.key
              /\ op.val.version.level = info.level
              /\ op.val.version.slot = info.slot
              /\ op.val.version.version = info.version + 1
      \/ pc' = "panic" /\ UNCHANGED <<write_ops, uncommitted>>
  BY WriteRound
<1>7. CASE pc' = "panic" /\ UNCHANGED <<write_ops, uncommitted>>
  BY <1>3, <1>7 DEF VersionInv, OneWrite
<1>8. ASSUME uncommitted' = Tail(uncommitted), NEW op \in WriteOp,
             write_ops' = Append(write_ops, op), op.key = k,
             op.val.version.level = info.level, op.val.version.slot = info.slot,
             op.val.version.version = info.version + 1
      PROVE  VersionInv'
  <2>1. OneWrite' /\ WritesTo(write_ops, k) = {}
    BY <1>1, <1>8, OneWriteRound DEF VersionInv
  <2>2. /\ Len(write_ops) \in Nat
        /\ DOMAIN write_ops' = 1..(Len(write_ops) + 1)
        /\ DOMAIN write_ops = 1..Len(write_ops)
        /\ write_ops'[Len(write_ops) + 1] = op
        /\ \A j \in 1..Len(write_ops) : write_ops'[j] = write_ops[j]
    BY <1>8, AppendOp DEF IndInv, TypeOK
  <2>3. ColumnAgrees'
    <3> SUFFICES ASSUME NEW k2 \in Keys, dbKey[k2] # Missing, WritesTo(write_ops', k2) = {}
                 PROVE  dbKey[k2].version.version = Committed(k2, dbKey[k2].version)'
      BY <1>2 DEF ColumnAgrees, Committed
    <3>1. k2 # k /\ WritesTo(write_ops, k2) = {}
      BY <1>8, <2>2 DEF WritesTo
    <3>2. PICK info2 \in VerInfo : info2 = dbKey[k2].version
      BY EntryTypes
    <3>3. info2.version = Committed(k2, info2)
      BY <3>1, <3>2 DEF VersionInv, ColumnAgrees
    <3>4. ~SameSlot(k2, info2, k, info)
      BY <1>0, <1>1, <3>1, <3>2 DEF OffColumn
    <3>5. Committed(k2, info2)' = Committed(k2, info2)
      BY <1>5, <3>4
    <3>6. Committed(k2, dbKey[k2].version)' = Committed(k2, info2)'
      BY <1>2, <3>2 DEF Committed
    <3> QED BY <3>2, <3>3, <3>5, <3>6
  <2>4. BatchAgrees'
    <3> SUFFICES ASSUME NEW j \in DOMAIN write_ops'
                 PROVE  write_ops'[j].val.version.version
                          = Committed(write_ops[j].key, write_ops[j].val.version)'
      BY DEF BatchAgrees, Committed
    <3>1. CASE j \in 1..Len(write_ops)
      <4>1. PICK k2 \in Keys, info2 \in VerInfo :
              k2 = write_ops[j].key /\ info2 = write_ops[j].val.version
        BY <2>2, <3>1, EntryTypes
      <4>2. info2.version = Committed(k2, info2)
        BY <2>2, <3>1, <4>1 DEF VersionInv, BatchAgrees
      <4>3. k2 # k
        BY <2>1, <2>2, <3>1, <4>1 DEF WritesTo
      <4>4. ~SameSlot(k2, info2, k, info)
        BY <1>0, <1>1, <2>2, <3>1, <4>1, <4>3 DEF OffBatch
      <4>5. Committed(k2, info2)' = Committed(k2, info2)
        BY <1>5, <4>4
      <4>6. Committed(write_ops[j].key, write_ops[j].val.version)' = Committed(k2, info2)'
        BY <2>2, <3>1, <4>1 DEF Committed
      <4> QED BY <2>2, <3>1, <4>1, <4>2, <4>5, <4>6
    <3>2. CASE j = Len(write_ops) + 1
      <4>1. Committed(write_ops[j].key, write_ops[j].val.version)' = Committed(k, info)'
        BY <1>8, <2>2, <3>2 DEF Committed
      <4> QED BY <1>1, <1>4, <1>8, <2>2, <3>2, <4>1
    <3> QED BY <2>2, <3>1, <3>2
  <2> QED BY <1>3, <2>1, <2>3, <2>4 DEF VersionInv
<1> QED BY <1>1, <1>6, <1>7, <1>8

(* A known key has the version that the AMTs commit to: the batch has not written it. *)
LEMMA KnownKeyAgrees ==
  ASSUME IndInv, StoreInv, VersionInv, CommitKnownKey
  PROVE  dbKey[Current.key].version.version = Committed(Current.key, dbKey[Current.key].version)
<1>1. pc = "keys" /\ uncommitted # << >> /\ Current.key \in Keys /\ dbKey[Current.key] # Missing
  BY KnownSlot
<1>2. PICK S : uncommitted \in Seq(S)
  BY DEF IndInv, TypeOK
<1>3. 1 \in DOMAIN uncommitted /\ Current = uncommitted[1]
  BY <1>1, <1>2, HeadTailProperties, EmptySeq, LenProperties DEF Current
<1>4. WritesTo(write_ops, Current.key) = {}
  BY <1>3 DEF VersionInv, OneWrite, WritesTo
<1> QED BY <1>1, <1>4 DEF VersionInv, ColumnAgrees

(* A vacant slot has version 0. *)
LEMMA NewKeyAgrees ==
  ASSUME IndInv, StoreInv, VersionInv, CommitNewKey
  PROVE  VacantSlot(Current.key, level).version
           = Committed(Current.key, VacantSlot(Current.key, level))
<1>1. PICK k \in Keys : k = Current.key
  BY NewSlot
<1>2. PICK info \in VerInfo : info = VacantSlot(k, level)
  BY <1>1, NewSlot
<1>3. PICK n \in Names, i \in Index :
        n = TreeAtLevel(k, info.level) /\ i = IndexAtLevel(k, info.level)
  BY SlotPlace
<1>4. info.version = 0 /\ info.slot \in 1..Slots /\ info.slot = Len(data[n][i].key_versions) + 1
  BY <1>2, <1>3, SlotPlace DEF VacantSlot
<1>5. Len(data[n][i].key_versions) \in Nat
  BY EntryTypes, LenType
<1>6. info.slot > Len(data[n][i].key_versions)
  BY <1>4, <1>5
<1>7. ViewComm(n)[i][info.slot] = 0
  BY <1>4, <1>6 DEF VersionInv, UnusedZero, UnusedAt
<1>8. info.version = Committed(k, info)
  BY <1>3, <1>4, <1>7 DEF Committed
<1> QED BY <1>1, <1>2, <1>8

(* The empty store. *)
LEMMA VersionInit == Init => VersionInv
<1> SUFFICES ASSUME Init PROVE VersionInv
  OBVIOUS
<1>1. /\ forest = {Root} /\ comm = [t \in Names |-> IF t = Root THEN ZeroComm ELSE NoComm]
      /\ sub = EmptySub /\ saved = EmptySaved
      /\ dbKey = EmptyKeys /\ write_ops = << >> /\ uncommitted = << >>
  BY DEF Init, TreeInit, NewForest
<1>2. ASSUME NEW n \in Names
      PROVE  ViewComm(n) = ZeroComm /\ SavedComm(n) = ZeroComm
  <2>1. CASE n = Root
    BY <1>1, <2>1 DEF ViewComm, SavedComm, EmptySaved
  <2>2. CASE n # Root
    <3>1. Parent(n) \in Names /\ LevelIndex(n) \in Index
      BY <2>2, ParentIsName
    <3> QED BY <1>1, <2>2, <3>1 DEF ViewComm, SavedComm, EmptySaved, EmptySub
  <2> QED BY <2>1, <2>2
<1>3. \A i \in Index, s \in 1..Slots : ZeroComm[i][s] = 0
  BY ForestConstants DEF ZeroComm, ZeroFr
<1>4. UnusedZero /\ SavedUnusedZero
  BY <1>2, <1>3 DEF UnusedZero, SavedUnusedZero, UnusedAt
<1>5. ColumnAgrees /\ SavedAgrees
  BY <1>1 DEF ColumnAgrees, SavedAgrees, EmptySaved, EmptyKeys
<1>6. OneWrite /\ BatchAgrees
  BY <1>1 DEF OneWrite, BatchAgrees
<1> QED BY <1>4, <1>5, <1>6 DEF VersionInv

(* set queues a key that is not queued. *)
LEMMA SetVersions ==
  ASSUME IndInv, StoreInv, VersionInv, ~RepeatWrites, NEW k \in Keys, NEW v \in Values, Set(k, v)
  PROVE  OneWrite'
<1>1. /\ pc = "idle" /\ WritesTo(uncommitted, k) = {} /\ write_ops' = write_ops
      /\ uncommitted' = Append(uncommitted, [key |-> k, val |-> v])
  BY DEF Set
<1>2. write_ops = << >>
  BY <1>1 DEF StoreInv, PhaseOK
<1>3. PICK op : op = [key |-> k, val |-> v]
  OBVIOUS
<1>4. op \in [key : Keys, val : Values] /\ op.key = k
  BY <1>3
<1>5. PICK S : uncommitted \in Seq(S) /\ op \in S
  BY <1>4 DEF IndInv, TypeOK
<1>6. /\ Len(uncommitted) \in Nat /\ DOMAIN uncommitted = 1..Len(uncommitted)
      /\ DOMAIN uncommitted' = 1..(Len(uncommitted) + 1)
      /\ uncommitted'[Len(uncommitted) + 1] = op
      /\ \A j \in 1..Len(uncommitted) : uncommitted'[j] = uncommitted[j]
  BY <1>1, <1>3, <1>5, AppendProperties
<1>7. ASSUME NEW i \in DOMAIN uncommitted', NEW j \in DOMAIN uncommitted',
             uncommitted'[i].key = uncommitted'[j].key
      PROVE  i = j
  <2>1. \A m \in 1..Len(uncommitted) : uncommitted[m].key # k
    BY <1>1, <1>6 DEF WritesTo
  <2> QED BY <1>4, <1>6, <1>7, <2>1 DEF VersionInv, OneWrite
<1> QED BY <1>1, <1>2, <1>7 DEF OneWrite

(* The batch becomes part of the store, with its versions. *)
LEMMA CommitEndVersions ==
  ASSUME IndInv, StoreInv, VersionInv, LinkInv, CommitEnd
  PROVE  VersionInv'
<1>1. /\ pc = "trees" /\ dbKey' = ApplyBatch(dbKey, write_ops) /\ write_ops' = << >>
      /\ UNCHANGED <<data, forest, comm, sub, dirty, saved, uncommitted>>
  BY DEF CommitEnd, CommitRoot
<1>2. \A t \in Names : ViewComm(t)' = ViewComm(t)
  BY <1>1, ViewKept
<1>3. UnusedZero' /\ OneWrite' /\ BatchAgrees'
  BY <1>1, <1>2 DEF VersionInv, UnusedZero, UnusedAt, OneWrite, BatchAgrees
<1>4. SavedUnusedZero' /\ SavedAgrees'
  BY <1>1, SavedVersionsKept DEF VersionInv
<1>5. ColumnAgrees'
  <2> SUFFICES ASSUME NEW k \in Keys, dbKey'[k] # Missing
               PROVE  dbKey'[k].version.version = Committed(k, dbKey[k].version)'
    BY DEF ColumnAgrees, Committed
  <2>1. \/ /\ WritesTo(write_ops, k) = {}
           /\ ApplyBatch(dbKey, write_ops)[k] = dbKey[k]
        \/ \E m \in DOMAIN write_ops :
             /\ write_ops[m].key = k
             /\ ApplyBatch(dbKey, write_ops)[k] = write_ops[m].val
    BY AppliedEntry
  <2>2. PICK info : info = dbKey'[k].version
    OBVIOUS
  <2>3. info \in VerInfo /\ info.version = Committed(k, info)
    <3>1. CASE WritesTo(write_ops, k) = {} /\ ApplyBatch(dbKey, write_ops)[k] = dbKey[k]
      BY <1>1, <2>2, <3>1, EntryTypes DEF VersionInv, ColumnAgrees
    <3>2. ASSUME NEW m \in DOMAIN write_ops, write_ops[m].key = k,
                 ApplyBatch(dbKey, write_ops)[k] = write_ops[m].val
          PROVE  info \in VerInfo /\ info.version = Committed(k, info)
      BY <1>1, <2>2, <3>2, EntryTypes DEF VersionInv, BatchAgrees
    <3> QED BY <2>1, <3>1, <3>2
  <2>4. Committed(k, info)' = Committed(k, info)
    BY <1>2, <2>3, SameView, SameCommitted
  <2>5. Committed(k, dbKey[k].version)' = Committed(k, info)'
    BY <2>2 DEF Committed
  <2> QED BY <2>2, <2>3, <2>4, <2>5
<1> QED BY <1>3, <1>4, <1>5 DEF VersionInv

(* A tree that commit_tree finishes. *)
LEMMA CommitOneTreeVersions ==
  ASSUME IndInv, SlotInv, LinkInv, VersionInv, CommitOneTree
  PROVE  VersionInv'
<1>1. PICK n \in Names : CommitTree(n, dbEpoch)
  BY DEF CommitOneTree
<1>2. UNCHANGED <<dbKey, saved, pc, write_ops, uncommitted>>
  BY DEF CommitOneTree, storeVars
<1>3. dbEpoch \in Nat /\ hashes \in Seq(Leaf) /\ TreeTypes /\ ForestInv /\ data \in Trees
  BY StoreConstants, TypeOKParts, EntryTypes DEF IndInv, TypeOK
<1>4. \/ data' = data /\ \A t \in Names : ViewComm(t)' = ViewComm(t)
      \/ \E p \in Names, i \in Index, new \in Node : RecordEffect(n, p, i, new, dbEpoch)
  BY <1>1, <1>3, CommitTreeView
<1>5. SlotsUnmoved /\ data' \in Trees /\ Grows(data, data')
  <2>1. CASE data' = data /\ \A t \in Names : ViewComm(t)' = ViewComm(t)
    <3>1. Grows(data, data)
      BY <1>3, LenType DEF Grows
    <3> QED BY <1>3, <2>1, <3>1, SameView
  <2>2. ASSUME NEW p \in Names, NEW i \in Index, NEW new \in Node,
               RecordEffect(n, p, i, new, dbEpoch)
        PROVE  SlotsUnmoved /\ data' \in Trees /\ Grows(data, data')
    BY <1>3, <2>2, RecordMoves, RecordGrows DEF SlotInv
  <2> QED BY <1>4, <2>1, <2>2
<1>6. OneWrite'
  BY <1>2 DEF VersionInv, OneWrite
<1> QED BY <1>2, <1>5, <1>6, VersionsKept

(* A saved directory has the versions of the store it was taken from. *)
LEMMA FlushVersions ==
  ASSUME IndInv, StoreInv, LinkInv, VersionInv, FlushRoot
  PROVE  VersionInv'
<1>1. /\ UNCHANGED <<data, dbKey, write_ops, uncommitted, pc>> /\ pc = "idle"
      /\ \A t \in Names : ViewComm(t)' = ViewComm(t)
      /\ \/ saved' = saved
         \/ /\ saved'.key = dbKey /\ saved'.data = data
            /\ \A t \in Names : SavedComm(t)' = ViewComm(t)
  BY FlushSaves
<1>2. data \in Trees /\ Grows(data, data') /\ write_ops = << >>
  BY <1>1, EntryTypes, LenType DEF Grows, StoreInv, PhaseOK
<1>3. CASE saved' = saved
  <2>1. OneWrite'
    BY <1>1 DEF VersionInv, OneWrite
  <2> QED BY <1>1, <1>2, <1>3, <2>1, SameView, VersionsKept
<1>4. CASE saved'.key = dbKey /\ saved'.data = data /\ \A t \in Names : SavedComm(t)' = ViewComm(t)
  <2>1. UnusedZero' /\ SavedUnusedZero' /\ OneWrite' /\ BatchAgrees'
    BY <1>1, <1>2, <1>4
       DEF VersionInv, UnusedZero, SavedUnusedZero, UnusedAt, OneWrite, BatchAgrees
  <2>2. ASSUME NEW k \in Keys, dbKey[k] # Missing
        PROVE  /\ dbKey[k].version.version = Committed(k, dbKey[k].version)'
               /\ dbKey[k].version.version = SavedCommitted(k, dbKey[k].version)'
    <3>1. PICK info \in VerInfo : info = dbKey[k].version
      BY <2>2, EntryTypes
    <3>2. WritesTo(write_ops, k) = {}
      BY <1>2 DEF WritesTo
    <3>3. info.version = Committed(k, info)
      BY <1>1, <2>2, <3>1, <3>2 DEF VersionInv, ColumnAgrees
    <3>4. TreeAtLevel(k, info.level) \in Names
      BY SlotPlace
    <3>5. /\ Committed(k, dbKey[k].version)' = Committed(k, info)
          /\ SavedCommitted(k, dbKey[k].version)' = Committed(k, info)
      BY <1>1, <1>4, <3>1, <3>4 DEF Committed, SavedCommitted
    <3> QED BY <3>1, <3>3, <3>5
  <2>3. ColumnAgrees'
    BY <1>1, <2>2 DEF ColumnAgrees, Committed
  <2>4. SavedAgrees'
    <3> SUFFICES ASSUME NEW k \in Keys, saved'.key[k] # Missing
                 PROVE  saved'.key[k].version.version
                          = SavedCommitted(k, saved.key[k].version)'
      BY DEF SavedAgrees, SavedCommitted
    <3>1. dbKey[k].version.version = SavedCommitted(k, dbKey[k].version)'
      BY <1>4, <2>2
    <3>2. SavedCommitted(k, saved.key[k].version)' = SavedCommitted(k, dbKey[k].version)'
      BY <1>1, <1>4 DEF SavedCommitted
    <3> QED BY <1>4, <3>1, <3>2
  <2> QED BY <2>1, <2>3, <2>4 DEF VersionInv
<1> QED BY <1>1, <1>3, <1>4

(* A new process starts from the versions of the saved directory. *)
LEMMA RestartVersions ==
  ASSUME VersionInv, IndInv, Restart
  PROVE  VersionInv'
<1>1. /\ data' = saved.data /\ dbKey' = saved.key /\ saved' = saved /\ write_ops' = << >>
      /\ uncommitted' = << >>
  BY DEF Restart, ReopenForest
<1>2. \A t \in Names : ViewComm(t)' = SavedComm(t)
  BY RestartView
<1>3. SavedUnusedZero' /\ SavedAgrees'
  BY <1>1, SavedVersionsKept DEF VersionInv
<1>4. UnusedZero' /\ OneWrite' /\ BatchAgrees'
  BY <1>1, <1>2
     DEF VersionInv, UnusedZero, SavedUnusedZero, UnusedAt, OneWrite, BatchAgrees
<1>5. ColumnAgrees'
  <2> SUFFICES ASSUME NEW k \in Keys, dbKey'[k] # Missing
               PROVE  dbKey'[k].version.version = Committed(k, dbKey[k].version)'
    BY DEF ColumnAgrees, Committed
  <2>1. saved.key[k].version \in VerInfo
    BY <1>1 DEF IndInv, TypeOK, Database, Value
  <2>2. PICK info \in VerInfo : info = saved.key[k].version
    BY <2>1
  <2>3. info.version = SavedCommitted(k, info)
    BY <1>1, <2>2 DEF VersionInv, SavedAgrees
  <2>4. TreeAtLevel(k, info.level) \in Names
    BY SlotPlace
  <2>5. Committed(k, dbKey[k].version)' = SavedCommitted(k, info)
    BY <1>1, <1>2, <2>2, <2>4 DEF Committed, SavedCommitted
  <2> QED BY <1>1, <2>2, <2>3, <2>5
<1> QED BY <1>3, <1>4, <1>5 DEF VersionInv

(* Every step keeps the versions in step. *)
LEMMA VersionNext ==
  ASSUME ~RepeatWrites, IndInv, StoreInv, CommitInv, SlotInv, VersionInv, [Next]_vars
  PROVE  VersionInv'
<1>0. LinkInv /\ TreeTypes /\ ForestInv /\ OneWrite
  BY TypeOKParts DEF CommitInv, IndInv, VersionInv
<1>a. data \in Trees /\ Grows(data, data)
  BY EntryTypes, LenType DEF Grows
<1>1. ASSUME UNCHANGED <<data, dbKey, write_ops, saved>>, OneWrite',
             \A t \in Names : ViewComm(t)' = ViewComm(t), pc # "panic" \/ pc' = pc
      PROVE  VersionInv'
  BY <1>a, <1>1, SameView, VersionsKept
<1>2. ASSUME NEW n \in Names, GetTreeMut(n), pc # "panic",
             UNCHANGED <<sub, dirty, data, dbKey, write_ops, uncommitted, saved>>
      PROVE  VersionInv'
  <2>1. \A t \in Names : ViewComm(t)' = ViewComm(t)
    BY <1>0, <1>2, TouchView
  <2>2. OneWrite'
    BY <1>0, <1>2 DEF OneWrite
  <2> QED BY <1>1, <1>2, <2>1, <2>2
<1>3. ASSUME UNCHANGED <<forest, comm, sub, dirty, data, dbKey, write_ops, uncommitted, saved>>,
             pc # "panic" \/ pc' = pc
      PROVE  VersionInv'
  <2>1. OneWrite'
    BY <1>0, <1>3 DEF OneWrite
  <2> QED BY <1>0, <1>1, <1>3, <2>1, ViewKept
<1>4. CASE (\E k \in ReadKeys : Get(k)) \/ CommitBegin \/ AllocatePanic \/ CommitTreesBegin
  BY <1>3, <1>4 DEF Get, CommitBegin, AllocatePanic, CommitTreesBegin, treeVars, storeVars
<1>5. ASSUME NEW k \in Keys, NEW v \in Values, Set(k, v) PROVE VersionInv'
  <2>1. OneWrite'
    BY <1>5, SetVersions
  <2>2. UNCHANGED <<forest, comm, sub, dirty, data, dbKey, write_ops, saved, pc>>
    BY <1>5 DEF Set, treeVars, storeVars
  <2> QED BY <1>0, <1>1, <2>1, <2>2, ViewKept
<1>6. ASSUME NEW k \in Keys, Prove(k) PROVE VersionInv'
  <2>1. dbKey[k].version.level \in 0..(MaxLevel - 1)
    BY <1>6 DEF IndInv, TypeOK, Prove, Value, VerInfo
  <2>2. TreeAtLevel(k, dbKey[k].version.level) \in Names
    BY <2>1, KeyPath
  <2> QED BY <1>2, <1>6, <2>2 DEF Prove, storeVars
<1>7. CASE CommitKnownKey
  BY <1>0, <1>7, KnownSlot, KnownKeyFits, KnownKeyAgrees, WriteRoundVersions
<1>8. CASE CommitNewKey
  <2>1. PICK info : info = VacantSlot(Current.key, level)
    OBVIOUS
  <2> QED BY <1>0, <1>8, <2>1, NewSlot, NewKeyFits, NewKeyAgrees, WriteRoundVersions
<1>9. CASE AllocateSkip
  <2>1. Current.key \in Keys /\ level \in 0..(MaxLevel - 1)
    BY <1>9, CurrentType, ForestConstants DEF IndInv, TypeOK, AllocateSkip
  <2>2. TreeAtLevel(Current.key, level) \in Names
    BY <2>1, KeyPath
  <2>3. /\ GetTreeMut(TreeAtLevel(Current.key, level)) /\ pc # "panic"
        /\ UNCHANGED <<sub, dirty, data, dbKey, write_ops, uncommitted, saved>>
    BY <1>9 DEF AllocateSkip, SkipFullLevel, storeVars
  <2> QED BY <1>2, <2>2, <2>3
<1>10. CASE CommitOneTree
  BY <1>0, <1>10, CommitOneTreeVersions
<1>11. CASE CommitEnd
  BY <1>0, <1>11, CommitEndVersions
<1>12. CASE FlushRoot
  BY <1>0, <1>12, FlushVersions
<1>13. CASE Restart
  BY <1>13, RestartVersions
<1>14. CASE UNCHANGED vars
  BY <1>3, <1>14 DEF vars, treeVars, storeVars
<1> QED BY <1>4, <1>5, <1>6, <1>7, <1>8, <1>9, <1>10, <1>11, <1>12, <1>13, <1>14
        DEF Next, CommitStep

(* For a workload that writes a key at most once between two commits, the version stored
   and hashed with the value of a key is the one that the AMTs commit to in its slot,
   through panics, saves and restarts.  With two writes of a key in one epoch the code
   breaks it: both take the version from the database, and the slot moves twice. *)
THEOREM VersionsAgree ==
  ASSUME ~RepeatWrites
  PROVE  Spec => []VersionAgreement
<1>1. Init => VersionInv
  BY VersionInit
<1>2. IndInv /\ StoreInv /\ CommitInv /\ SlotInv /\ VersionInv /\ [Next]_vars => VersionInv'
  BY VersionNext
<1>3. IndInv /\ StoreInv /\ VersionInv => VersionAgreement
  <2> SUFFICES ASSUME IndInv, StoreInv, VersionInv, pc = "idle", NEW k \in Stored
               PROVE  dbKey[k].version.version = SlotVersion(k)
    BY DEF VersionAgreement
  <2>1. k \in Keys /\ dbKey[k] # Missing /\ WritesTo(write_ops, k) = {}
    BY DEF Stored, StoreInv, PhaseOK, WritesTo
  <2> QED BY <2>1 DEF VersionInv, ColumnAgrees, Committed, SlotVersion
<1> QED BY <1>1, <1>2, <1>3, SlotInductive, PTL DEF Spec

------------------------------------------------------------------------------
(* The inductive invariant.  A leaf that a proof needs is in the Merkle tree of an epoch
   that ended, or, while commit runs, among the leaves it has gathered. *)

LeafAt(leaves, p, leaf) == p < Len(leaves) /\ leaves[p + 1] = leaf

(* An epoch before ep has the leaf at the position pos. *)
HeldBy(merkle, ep, pos, leaf) == pos.epoch < ep /\ LeafAt(merkle[pos.epoch], pos.position, leaf)

HeldNow(pos, leaf) ==
  \/ HeldBy(dbMerkle, dbEpoch, pos, leaf)
  \/ pos.epoch = dbEpoch /\ LeafAt(hashes, pos.position, leaf)

(* The leaf of the latest write of every key of a column. *)
KeysProvable(col, merkle, ep) ==
  \A k \in Keys :
    col[k] # Missing
      => HeldBy(merkle, ep, col[k].position, KeyValue(k, col[k].version, col[k].value))

BatchHashed ==
  /\ Len(write_ops) <= Len(hashes)
  /\ pc = "keys" => Len(hashes) = Len(write_ops)
  /\ \A j \in DOMAIN write_ops :
       /\ write_ops[j].val.position = [epoch |-> dbEpoch, position |-> j - 1]
       /\ hashes[j] = KeyValue(write_ops[j].key, write_ops[j].val.version, write_ops[j].val.value)

(* The node that the parent of tree t has for it, and whether t holds a key. *)
ParentNode(d, t) == d[Parent(t)][LevelIndex(t)]
HasKeys(d, t) == \E i \in Index : d[t][i].key_versions # << >>

(* A tree that holds a key was recorded in its parent, and the leaf of its latest record
   holds its commitment. *)
TreeOK(t) ==
  /\ HasKeys(data, t) => ParentNode(data, t).tree_version > 0
  /\ ParentNode(data, t).tree_version > 0
       => HeldNow(ParentNode(data, t).tree_position,
                  TreeValue(t, ParentNode(data, t).tree_version, ViewComm(t)))

TreesOK == \A t \in Names : t # Root /\ t \notin dirty => TreeOK(t)

SavedTreeOK(t) ==
  /\ HasKeys(saved.data, t) => ParentNode(saved.data, t).tree_version > 0
  /\ ParentNode(saved.data, t).tree_version > 0
       => HeldBy(saved.merkle, saved.epoch, ParentNode(saved.data, t).tree_position,
                 TreeValue(t, ParentNode(saved.data, t).tree_version, SavedComm(t)))

SavedOK ==
  /\ KeysProvable(saved.key, saved.merkle, saved.epoch)
  /\ \A t \in Names : t # Root => SavedTreeOK(t)

ProofInv == KeysProvable(dbKey, dbMerkle, dbEpoch) /\ BatchHashed /\ TreesOK /\ SavedOK

------------------------------------------------------------------------------
(* Leaves stay where they are. *)

(* What is held stays held in a step. *)
LeavesStay ==
  \A pos \in EpochPosition : \A leaf : HeldNow(pos, leaf) => HeldNow(pos, leaf)'

(* A step that changes no leaf. *)
LEMMA LeavesKept ==
  ASSUME UNCHANGED <<dbMerkle, dbEpoch, hashes>>
  PROVE  LeavesStay
BY DEF LeavesStay, HeldNow

(* commit appends a leaf. *)
LEMMA LeafAppended ==
  ASSUME IndInv, NEW x \in Leaf, hashes' = Append(hashes, x), UNCHANGED <<dbMerkle, dbEpoch>>
  PROVE  /\ LeavesStay
         /\ Len(hashes) \in Nat /\ Len(hashes') = Len(hashes) + 1
         /\ hashes'[Len(hashes) + 1] = x
         /\ \A j \in 1..Len(hashes) : hashes'[j] = hashes[j]
<1>1. /\ Len(hashes) \in Nat /\ Len(hashes') = Len(hashes) + 1
      /\ hashes'[Len(hashes) + 1] = x
      /\ \A j \in 1..Len(hashes) : hashes'[j] = hashes[j]
  BY AppendProperties DEF IndInv, TypeOK
<1>2. ASSUME NEW p \in Nat, NEW leaf, LeafAt(hashes, p, leaf)
      PROVE  LeafAt(hashes', p, leaf)
  <2>1. p < Len(hashes) /\ hashes[p + 1] = leaf
    BY <1>2 DEF LeafAt
  <2>2. p + 1 \in 1..Len(hashes) /\ p < Len(hashes) + 1
    BY <1>1, <2>1
  <2> QED BY <1>1, <2>1, <2>2 DEF LeafAt
<1>3. LeavesStay
  <2> SUFFICES ASSUME NEW pos \in EpochPosition, NEW leaf, HeldNow(pos, leaf)
               PROVE  HeldNow(pos, leaf)'
    BY DEF LeavesStay
  <2>1. pos.position \in Nat
    BY DEF EpochPosition
  <2> QED BY <1>2, <2>1 DEF HeldNow
<1> QED BY <1>1, <1>3

(* The leaves of the epoch that ends become its Merkle tree. *)
LEMMA EpochEnds ==
  ASSUME IndInv, dbEpoch < MaxEpoch, dbMerkle' = [dbMerkle EXCEPT ![dbEpoch] = hashes],
         dbEpoch' = dbEpoch + 1, NEW pos \in EpochPosition, NEW leaf, HeldNow(pos, leaf)
  PROVE  HeldBy(dbMerkle', dbEpoch', pos, leaf)
<1>1. /\ dbMerkle \in [0..(MaxEpoch - 1) -> Seq(Leaf)] /\ dbEpoch \in Nat /\ MaxEpoch \in Nat
      /\ pos.epoch \in Nat
  BY StoreConstants DEF IndInv, TypeOK, EpochPosition
<1>2. CASE HeldBy(dbMerkle, dbEpoch, pos, leaf)
  <2>1. pos.epoch < dbEpoch
    BY <1>2 DEF HeldBy
  <2>2. pos.epoch \in 0..(MaxEpoch - 1) /\ pos.epoch # dbEpoch /\ pos.epoch < dbEpoch + 1
    BY <1>1, <2>1
  <2>3. dbMerkle'[pos.epoch] = dbMerkle[pos.epoch]
    BY <1>1, <2>2
  <2> QED BY <1>2, <2>2, <2>3 DEF HeldBy
<1>3. CASE pos.epoch = dbEpoch /\ LeafAt(hashes, pos.position, leaf)
  <2>1. dbEpoch \in 0..(MaxEpoch - 1) /\ dbEpoch < dbEpoch + 1
    BY <1>1
  <2>2. dbMerkle'[pos.epoch] = hashes
    BY <1>1, <1>3, <2>1
  <2> QED BY <1>3, <2>1, <2>2 DEF HeldBy
<1> QED BY <1>2, <1>3 DEF HeldNow

------------------------------------------------------------------------------
(* Trees. *)

(* The node that a tree has in its parent. *)
LEMMA ParentNodeType ==
  ASSUME NEW d \in Trees, NEW t \in Names, t # Root
  PROVE  /\ ParentNode(d, t) \in Node
         /\ ParentNode(d, t).tree_version \in Nat
         /\ ParentNode(d, t).tree_position \in EpochPosition
<1>1. Parent(t) \in Names /\ LevelIndex(t) \in Index
  BY ParentIsName
<1>2. ParentNode(d, t) \in Node
  BY <1>1 DEF Trees, ParentNode
<1> QED BY <1>2 DEF Node

(* A tree that the step does not touch, whose record in the parent stays. *)
LEMMA TreeKept ==
  ASSUME data \in Trees, data' \in Trees, NEW t \in Names, t # Root, TreeOK(t), LeavesStay,
         HasKeys(data', t) => HasKeys(data, t),
         ParentNode(data', t).tree_version = ParentNode(data, t).tree_version,
         ParentNode(data', t).tree_position = ParentNode(data, t).tree_position,
         ViewComm(t)' = ViewComm(t)
  PROVE  TreeOK(t)'
<1>1. PICK pos \in EpochPosition : pos = ParentNode(data, t).tree_position
  BY ParentNodeType
<1>2. PICK leaf : leaf = TreeValue(t, ParentNode(data, t).tree_version, ViewComm(t))
  OBVIOUS
<1>3. ParentNode(data, t).tree_version > 0 => HeldNow(pos, leaf)
  BY <1>1, <1>2 DEF TreeOK
<1>4. HeldNow(pos, leaf) => HeldNow(pos, leaf)'
  BY DEF LeavesStay
<1>5. /\ ParentNode(data', t).tree_position = pos
      /\ TreeValue(t, ParentNode(data', t).tree_version, ViewComm(t)') = leaf
  BY <1>1, <1>2
<1>6. HasKeys(data', t) => ParentNode(data', t).tree_version > 0
  BY DEF TreeOK
<1> QED BY <1>3, <1>4, <1>5, <1>6 DEF TreeOK, HeldNow

(* Steps that change no node, no dirty tree below the root and no commitment. *)
LEMMA TreesKept ==
  ASSUME IndInv, TreesOK, data' = data, dirty' \cup {Root} = dirty \cup {Root}, LeavesStay,
         \A t \in Names : ViewComm(t)' = ViewComm(t)
  PROVE  TreesOK'
<1>1. data \in Trees
  BY EntryTypes
<1> SUFFICES ASSUME NEW t \in Names, t # Root, t \notin dirty' PROVE TreeOK(t)'
  BY DEF TreesOK
<1>2. TreeOK(t)
  BY DEF TreesOK
<1> QED BY <1>1, <1>2, TreeKept

(* Only node i of tree n changes: the other trees keep their keys, and the other trees
   than the child at i keep their record in the parent. *)
LEMMA OneNode ==
  ASSUME NEW d, NEW e, NEW n, NEW i, NEW t \in Names, t # Root,
         \A u \in Names : u # n => e[u] = d[u],
         \A j \in Index : j # i => e[n][j] = d[n][j]
  PROVE  /\ t # n /\ HasKeys(e, t) => HasKeys(d, t)
         /\ ~(Parent(t) = n /\ LevelIndex(t) = i) => ParentNode(e, t) = ParentNode(d, t)
<1>1. Parent(t) \in Names /\ LevelIndex(t) \in Index
  BY ParentIsName
<1>2. t # n /\ HasKeys(e, t) => HasKeys(d, t)
  BY DEF HasKeys
<1>3. ASSUME ~(Parent(t) = n /\ LevelIndex(t) = i)
      PROVE  ParentNode(e, t) = ParentNode(d, t)
  BY <1>1, <1>3 DEF ParentNode
<1> QED BY <1>2, <1>3

(* inc_key_ver changes keys of a tree that becomes dirty. *)
LEMMA IncTrees ==
  ASSUME IndInv, SlotInv, LinkInv, TreesOK, LeavesStay, NEW k \in Keys, NEW info \in VerInfo,
         IncKeyVer(k, info), Fits(k, info)
  PROVE  TreesOK'
<1>1. TreeTypes /\ ForestInv /\ data \in Trees
  BY TypeOKParts, EntryTypes DEF IndInv
<1>2. PICK n \in Names, i \in Index, new \in Node, delta \in {SlotUnit(info.slot), ZeroFr} :
        IncEffect(k, info, n, i, new, delta)
  BY <1>1, IncView
<1>3. /\ n = TreeAtLevel(k, info.level) /\ i = IndexAtLevel(k, info.level)
      /\ info.slot <= Len(data[n][i].key_versions) + 1 => delta = SlotUnit(info.slot)
      /\ new.tree_version = data[n][i].tree_version
      /\ new.tree_position = data[n][i].tree_position
      /\ data' = [data EXCEPT ![n] = [data[n] EXCEPT ![i] = new]]
      /\ dirty' = dirty \cup DirtiedBy(n, delta)
      /\ \A t \in Names : t # n => ViewComm(t)' = ViewComm(t)
  BY <1>2 DEF IncEffect
<1>4. n \in dirty' /\ dirty \subseteq dirty'
  <2>1. delta = SlotUnit(info.slot)
    BY <1>3 DEF Fits, Taken
  <2>2. info.slot \in 0..Slots
    BY ForestConstants DEF VerInfo
  <2>3. delta # ZeroFr
    BY <2>1, <2>2, UnitIsNotZero
  <2> QED BY <1>3, <2>3 DEF DirtiedBy
<1>5. data' \in Trees
  BY <1>1, <1>2, IncGrows DEF SlotInv
<1> SUFFICES ASSUME NEW t \in Names, t # Root, t \notin dirty' PROVE TreeOK(t)'
  BY DEF TreesOK
<1>6. t # n /\ TreeOK(t) /\ ViewComm(t)' = ViewComm(t)
  BY <1>3, <1>4 DEF TreesOK
<1>7. /\ HasKeys(data', t) => HasKeys(data, t)
      /\ data'[n][i] = new
      /\ ~(Parent(t) = n /\ LevelIndex(t) = i) => ParentNode(data', t) = ParentNode(data, t)
  <2>1. /\ data'[n][i] = new
        /\ \A u \in Names : u # n => data'[u] = data[u]
        /\ \A j \in Index : j # i => data'[n][j] = data[n][j]
    BY <1>1, <1>3 DEF Trees
  <2>2. /\ t # n /\ HasKeys(data', t) => HasKeys(data, t)
        /\ ~(Parent(t) = n /\ LevelIndex(t) = i) => ParentNode(data', t) = ParentNode(data, t)
    BY <2>1, OneNode
  <2> QED BY <1>6, <2>1, <2>2
<1>8. /\ ParentNode(data', t).tree_version = ParentNode(data, t).tree_version
      /\ ParentNode(data', t).tree_position = ParentNode(data, t).tree_position
  <2>1. CASE Parent(t) = n /\ LevelIndex(t) = i
    BY <1>3, <1>7, <2>1 DEF ParentNode
  <2> QED BY <1>7, <2>1
<1> QED BY <1>1, <1>5, <1>6, <1>7, <1>8, TreeKept

(* commit_tree: the leaf of the tree it records holds the tree's commitment. *)
LEMMA RecordTrees ==
  ASSUME IndInv, SlotInv, TreesOK, NEW n \in Names, n # Root, NEW p \in Names, NEW i \in Index,
         NEW new \in Node, RecordEffect(n, p, i, new, dbEpoch), UNCHANGED <<dbMerkle, dbEpoch>>
  PROVE  TreesOK'
<1>1. /\ p = Parent(n) /\ i = LevelIndex(n) /\ p # n
      /\ new = WithTreeVersion(data[p][i], dbEpoch)
      /\ data' = [data EXCEPT ![p] = [data[p] EXCEPT ![i] = new]]
      /\ dirty' = (dirty \ {n}) \cup {p}
      /\ hashes' = Append(hashes, TreeValue(n, new.tree_version, ViewComm(n)))
      /\ TreeValue(n, new.tree_version, ViewComm(n)) \in Leaf
      /\ \A t \in Names : t # p => ViewComm(t)' = ViewComm(t)
  BY DEF RecordEffect
<1>2. data \in Trees /\ data' \in Trees
  BY EntryTypes, RecordGrows DEF SlotInv
<1>3. PICK x \in Leaf : x = TreeValue(n, new.tree_version, ViewComm(n))
  BY <1>1
<1>4. /\ LeavesStay
      /\ Len(hashes) \in Nat /\ Len(hashes') = Len(hashes) + 1
      /\ hashes'[Len(hashes) + 1] = x
  BY <1>1, <1>3, LeafAppended
<1>5. /\ data'[p][i] = new
      /\ \A u \in Names : u # p => data'[u] = data[u]
      /\ \A j \in Index : j # i => data'[p][j] = data[p][j]
  BY <1>1, <1>2 DEF Trees
<1> SUFFICES ASSUME NEW t \in Names, t # Root, t \notin dirty' PROVE TreeOK(t)'
  BY DEF TreesOK
<1>6. t # p /\ ViewComm(t)' = ViewComm(t)
  BY <1>1
<1>7. CASE t = n
  <2>1. ParentNode(data', n) = new
    BY <1>1, <1>5 DEF ParentNode
  <2>2. /\ new.tree_version = data[p][i].tree_version + 1
        /\ new.tree_position = [epoch |-> dbEpoch, position |-> Len(hashes)]
    BY <1>1 DEF WithTreeVersion
  <2>3. data[p][i].tree_version \in Nat
    BY <1>2 DEF Trees, Node
  <2>4. new.tree_version > 0
    BY <2>2, <2>3
  <2>5. LeafAt(hashes', Len(hashes), x)
    BY <1>4 DEF LeafAt
  <2>6. new.tree_position.epoch = dbEpoch' /\ new.tree_position.position = Len(hashes)
    BY <2>2
  <2>7. HeldNow(new.tree_position, x)'
    BY <2>5, <2>6 DEF HeldNow
  <2>8. x = TreeValue(n, new.tree_version, ViewComm(n)')
    BY <1>3, <1>6, <1>7
  <2> QED BY <1>7, <2>1, <2>4, <2>7, <2>8 DEF TreeOK, HeldNow
<1>8. CASE t # n
  <2>1. TreeOK(t)
    BY <1>1, <1>8 DEF TreesOK
  <2>2. ~(Parent(t) = p /\ LevelIndex(t) = i)
    BY <1>1, <1>8, ChildOfParent
  <2>3. ParentNode(data', t) = ParentNode(data, t) /\ (HasKeys(data', t) => HasKeys(data, t))
    BY <1>5, <1>6, <2>2, OneNode
  <2> QED BY <1>2, <1>4, <1>6, <2>1, <2>3, TreeKept
<1> QED BY <1>7, <1>8

------------------------------------------------------------------------------
(* The steps. *)

(* The saved directory only changes with saved. *)
LEMMA SavedProofsKept ==
  ASSUME SavedOK, saved' = saved
  PROVE  SavedOK'
<1>1. \A t \in Names : SavedComm(t)' = SavedComm(t)
  BY DEF SavedComm
<1>2. KeysProvable(saved.key, saved.merkle, saved.epoch)'
  BY DEF SavedOK, KeysProvable
<1>3. \A t \in Names : t # Root => SavedTreeOK(t)'
  BY <1>1 DEF SavedOK, SavedTreeOK
<1> QED BY <1>2, <1>3 DEF SavedOK

(* A round of the key loop: the batch and the leaves grow together. *)
LEMMA BatchHashedRound ==
  ASSUME IndInv, BatchHashed, pc = "keys", dbEpoch' = dbEpoch,
         NEW op \in WriteOp, write_ops' = Append(write_ops, op),
         NEW x \in Leaf, hashes' = Append(hashes, x), UNCHANGED <<dbMerkle, dbEpoch>>,
         x = KeyValue(op.key, op.val.version, op.val.value),
         op.val.position = [epoch |-> dbEpoch, position |-> Len(write_ops)]
  PROVE  BatchHashed'
<1>1. /\ Len(write_ops) \in Nat /\ Len(write_ops') = Len(write_ops) + 1
      /\ DOMAIN write_ops' = 1..(Len(write_ops) + 1)
      /\ DOMAIN write_ops = 1..Len(write_ops)
      /\ write_ops'[Len(write_ops) + 1] = op
      /\ \A j \in 1..Len(write_ops) : write_ops'[j] = write_ops[j]
  BY AppendOp DEF IndInv, TypeOK
<1>2. /\ Len(hashes) = Len(write_ops) /\ Len(hashes') = Len(hashes) + 1
      /\ hashes'[Len(hashes) + 1] = x
      /\ \A j \in 1..Len(hashes) : hashes'[j] = hashes[j]
  BY LeafAppended DEF BatchHashed
<1>3. Len(write_ops') <= Len(hashes') /\ Len(hashes') = Len(write_ops')
  BY <1>1, <1>2
<1>4. ASSUME NEW j \in DOMAIN write_ops'
      PROVE  /\ write_ops'[j].val.position = [epoch |-> dbEpoch, position |-> j - 1]
             /\ hashes'[j] = KeyValue(write_ops'[j].key, write_ops'[j].val.version,
                                      write_ops'[j].val.value)
  <2>1. CASE j \in 1..Len(write_ops)
    BY <1>1, <1>2, <2>1 DEF BatchHashed
  <2>2. CASE j = Len(write_ops) + 1
    <3>1. j - 1 = Len(write_ops)
      BY <1>1, <2>2
    <3> QED BY <1>1, <1>2, <2>2, <3>1
  <2>3. j \in 1..Len(write_ops) \/ j = Len(write_ops) + 1
    BY <1>1
  <2> QED BY <2>1, <2>2, <2>3
<1> QED BY <1>3, <1>4 DEF BatchHashed, KeyValue

(* The same for all that proofs need. *)
LEMMA WriteRoundProofs ==
  ASSUME IndInv, SlotInv, LinkInv, ProofInv, NEW info \in VerInfo, pc = "keys",
         uncommitted # << >>, CommitWrite(info), Fits(Current.key, info)
  PROVE  ProofInv'
<1>1. PICK k \in Keys : k = Current.key
  BY CurrentType DEF IndInv
<1>2. IncKeyVer(k, info) /\ Fits(k, info) /\ UNCHANGED <<dbKey, dbMerkle, dbEpoch, saved>>
  BY <1>1 DEF CommitWrite, storeVars
<1>3. KeysProvable(dbKey, dbMerkle, dbEpoch)' /\ SavedOK'
  BY <1>2, SavedProofsKept DEF ProofInv, KeysProvable
<1>4. \/ \E op \in WriteOp :
           /\ write_ops' = Append(write_ops, op)
           /\ hashes' = Append(hashes, KeyValue(op.key, op.val.version, op.val.value))
           /\ op.val.position = [epoch |-> dbEpoch, position |-> Len(write_ops)]
      \/ pc' = "panic" /\ UNCHANGED <<write_ops, hashes>>
  BY WriteRound
<1>5. CASE pc' = "panic" /\ UNCHANGED <<write_ops, hashes>>
  <2>1. LeavesStay
    BY <1>2, <1>5, LeavesKept
  <2>2. TreesOK'
    BY <1>2, <2>1, IncTrees DEF ProofInv
  <2>3. BatchHashed'
    BY <1>2, <1>5 DEF ProofInv, BatchHashed
  <2> QED BY <1>3, <2>2, <2>3 DEF ProofInv
<1>6. ASSUME NEW op \in WriteOp, write_ops' = Append(write_ops, op),
             hashes' = Append(hashes, KeyValue(op.key, op.val.version, op.val.value)),
             op.val.position = [epoch |-> dbEpoch, position |-> Len(write_ops)]
      PROVE  ProofInv'
  <2>1. PICK x \in Leaf : x = KeyValue(op.key, op.val.version, op.val.value)
    BY DEF Leaf, KeyValue, WriteOp, Value
  <2>2. LeavesStay
    BY <1>2, <1>6, <2>1, LeafAppended
  <2>3. TreesOK'
    BY <1>2, <2>2, IncTrees DEF ProofInv
  <2>4. BatchHashed'
    BY <1>2, <1>6, <2>1, BatchHashedRound DEF ProofInv
  <2> QED BY <1>3, <2>3, <2>4 DEF ProofInv
<1> QED BY <1>4, <1>5, <1>6

(* A tree that commit_tree finishes. *)
LEMMA CommitOneTreeProofs ==
  ASSUME IndInv, SlotInv, LinkInv, ProofInv, CommitOneTree
  PROVE  ProofInv'
<1>1. PICK n \in Names : CommitTree(n, dbEpoch)
  BY DEF CommitOneTree
<1>2. UNCHANGED <<dbKey, dbMerkle, dbEpoch, saved, pc, write_ops>> /\ pc = "trees"
  BY DEF CommitOneTree, storeVars
<1>3. dbEpoch \in Nat /\ hashes \in Seq(Leaf) /\ TreeTypes /\ ForestInv
  BY StoreConstants, TypeOKParts DEF IndInv, TypeOK
<1>4. /\ n # Root
      /\ \/ /\ n \notin dirty
            /\ UNCHANGED <<data, dirty, hashes>>
            /\ \A t \in Names : ViewComm(t)' = ViewComm(t)
         \/ \E p \in Names, i \in Index, new \in Node : RecordEffect(n, p, i, new, dbEpoch)
  BY <1>1, <1>3, CommitTreeView
<1>5. KeysProvable(dbKey, dbMerkle, dbEpoch)' /\ SavedOK'
  BY <1>2, SavedProofsKept DEF ProofInv, KeysProvable
<1>6. CASE /\ UNCHANGED <<data, dirty, hashes>>
           /\ \A t \in Names : ViewComm(t)' = ViewComm(t)
  <2>1. TreesOK'
    BY <1>2, <1>6, LeavesKept, TreesKept DEF ProofInv
  <2>2. BatchHashed'
    BY <1>2, <1>6 DEF ProofInv, BatchHashed
  <2> QED BY <1>5, <2>1, <2>2 DEF ProofInv
<1>7. ASSUME NEW p \in Names, NEW i \in Index, NEW new \in Node,
             RecordEffect(n, p, i, new, dbEpoch)
      PROVE  ProofInv'
  <2>1. TreesOK'
    BY <1>2, <1>4, <1>7, RecordTrees DEF ProofInv
  <2>2. PICK x \in Leaf : hashes' = Append(hashes, x)
    BY <1>7 DEF RecordEffect
  <2>3. /\ Len(hashes) \in Nat /\ Len(hashes') = Len(hashes) + 1
        /\ \A j \in 1..Len(hashes) : hashes'[j] = hashes[j]
    BY <1>2, <2>2, LeafAppended
  <2>4. /\ Len(write_ops) \in Nat /\ DOMAIN write_ops = 1..Len(write_ops)
        /\ Len(write_ops) <= Len(hashes)
    BY EntryTypes DEF ProofInv, BatchHashed
  <2>5. Len(write_ops) <= Len(hashes') /\ \A j \in DOMAIN write_ops : hashes'[j] = hashes[j]
    BY <2>3, <2>4
  <2>6. BatchHashed'
    BY <1>2, <2>5 DEF ProofInv, BatchHashed
  <2> QED BY <1>5, <2>1, <2>6 DEF ProofInv
<1> QED BY <1>4, <1>6, <1>7

(* commit ends: the leaves are dumped and the batch is written. *)
LEMMA CommitEndProofs ==
  ASSUME IndInv, LinkInv, ProofInv, CommitEnd
  PROVE  ProofInv'
<1>1. /\ pc = "trees" /\ pc' = "idle" /\ dbKey' = ApplyBatch(dbKey, write_ops)
      /\ dbMerkle' = [dbMerkle EXCEPT ![dbEpoch] = hashes] /\ dbEpoch' = dbEpoch + 1
      /\ hashes' = << >> /\ write_ops' = << >>
      /\ UNCHANGED <<data, forest, comm, sub, dirty, saved>>
  BY DEF CommitEnd, CommitRoot
<1>2. dbEpoch < MaxEpoch
  BY <1>1 DEF IndInv, EpochInv
<1>3. \A pos \in EpochPosition : \A leaf :
        HeldNow(pos, leaf) => HeldBy(dbMerkle', dbEpoch', pos, leaf)
  BY <1>1, <1>2, EpochEnds
<1>4. LeavesStay
  BY <1>3 DEF LeavesStay, HeldNow
<1>5. TreesOK'
  BY <1>1, <1>4, ViewKept, TreesKept DEF ProofInv
<1>6. BatchHashed'
  BY <1>1 DEF BatchHashed
<1>7. ASSUME NEW k \in Keys, dbKey'[k] # Missing
      PROVE  HeldBy(dbMerkle', dbEpoch', dbKey'[k].position,
                    KeyValue(k, dbKey'[k].version, dbKey'[k].value))
  <2>1. \/ ApplyBatch(dbKey, write_ops)[k] = dbKey[k]
        \/ \E m \in DOMAIN write_ops :
             /\ write_ops[m].key = k
             /\ ApplyBatch(dbKey, write_ops)[k] = write_ops[m].val
    BY AppliedEntry
  <2>2. CASE dbKey'[k] = dbKey[k]
    <3>1. dbKey[k] \in Value
      BY <1>7, <2>2 DEF IndInv, TypeOK
    <3>2. dbKey[k].position \in EpochPosition
      BY <3>1 DEF Value
    <3>3. HeldNow(dbKey[k].position, KeyValue(k, dbKey[k].version, dbKey[k].value))
      BY <1>7, <2>2 DEF ProofInv, KeysProvable, HeldNow
    <3> QED BY <1>3, <2>2, <3>2, <3>3
  <2>3. ASSUME NEW m \in DOMAIN write_ops, write_ops[m].key = k, dbKey'[k] = write_ops[m].val
        PROVE  HeldBy(dbMerkle', dbEpoch', dbKey'[k].position,
                      KeyValue(k, dbKey'[k].version, dbKey'[k].value))
    <3>1. /\ dbKey'[k].position = [epoch |-> dbEpoch, position |-> m - 1]
          /\ hashes[m] = KeyValue(k, dbKey'[k].version, dbKey'[k].value)
          /\ Len(write_ops) <= Len(hashes)
      BY <2>3 DEF ProofInv, BatchHashed
    <3>2. m \in 1..Len(write_ops) /\ Len(write_ops) \in Nat /\ Len(hashes) \in Nat
          /\ dbEpoch \in Nat
      BY EntryTypes, StoreConstants DEF IndInv, TypeOK
    <3>3. m - 1 \in Nat /\ m - 1 < Len(hashes) /\ (m - 1) + 1 = m
      BY <3>1, <3>2
    <3>4. /\ dbKey'[k].position \in EpochPosition
          /\ dbKey'[k].position.epoch = dbEpoch /\ dbKey'[k].position.position = m - 1
      BY <3>1, <3>2, <3>3 DEF EpochPosition
    <3>5. LeafAt(hashes, m - 1, KeyValue(k, dbKey'[k].version, dbKey'[k].value))
      BY <3>1, <3>3 DEF LeafAt
    <3>6. HeldNow(dbKey'[k].position, KeyValue(k, dbKey'[k].version, dbKey'[k].value))
      BY <3>4, <3>5 DEF HeldNow
    <3> QED BY <1>3, <3>4, <3>6
  <2> QED BY <1>1, <2>1, <2>2, <2>3
<1>8. KeysProvable(dbKey, dbMerkle, dbEpoch)'
  BY <1>7 DEF KeysProvable
<1>9. SavedOK'
  BY <1>1, SavedProofsKept DEF ProofInv
<1> QED BY <1>5, <1>6, <1>8, <1>9 DEF ProofInv

(* A saved directory can prove what the store could. *)
LEMMA FlushProofs ==
  ASSUME IndInv, StoreInv, LinkInv, ProofInv, FlushRoot
  PROVE  ProofInv'
<1>1. /\ UNCHANGED <<data, dbKey, dbMerkle, dbEpoch, hashes, write_ops, pc>> /\ pc = "idle"
      /\ dirty' = dirty \ {Root}
      /\ \A t \in Names : ViewComm(t)' = ViewComm(t)
      /\ \/ saved' = saved
         \/ /\ saved'.key = dbKey /\ saved'.merkle = dbMerkle /\ saved'.epoch = dbEpoch
            /\ saved'.data = data
            /\ \A t \in Names : SavedComm(t)' = ViewComm(t)
  BY FlushSaves
<1>2. hashes = << >> /\ dirty \subseteq {Root}
  BY <1>1 DEF StoreInv, PhaseOK, IndInv, FlushInv
<1>3. dirty' \cup {Root} = dirty \cup {Root}
  BY <1>1
<1>4. TreesOK'
  BY <1>1, <1>3, LeavesKept, TreesKept DEF ProofInv
<1>5. KeysProvable(dbKey, dbMerkle, dbEpoch)' /\ BatchHashed'
  BY <1>1 DEF ProofInv, KeysProvable, BatchHashed
<1>6. SavedOK'
  <2>1. CASE saved' = saved
    BY <2>1, SavedProofsKept DEF ProofInv
  <2>2. CASE /\ saved'.key = dbKey /\ saved'.merkle = dbMerkle /\ saved'.epoch = dbEpoch
             /\ saved'.data = data
             /\ \A t \in Names : SavedComm(t)' = ViewComm(t)
    <3>1. KeysProvable(saved.key, saved.merkle, saved.epoch)'
      BY <2>2 DEF ProofInv, KeysProvable
    <3>2. ASSUME NEW t \in Names, t # Root PROVE SavedTreeOK(t)'
      <4>1. TreeOK(t)
        BY <1>2, <3>2 DEF ProofInv, TreesOK
      <4>2. PICK node \in Node : node = ParentNode(data, t) /\ node.tree_position \in EpochPosition
        BY <3>2, EntryTypes, ParentNodeType
      <4>3. ~LeafAt(hashes, node.tree_position.position, TreeValue(t, node.tree_version, ViewComm(t)))
        <5>1. node.tree_position.position \in Nat /\ Len(hashes) = 0
          BY <1>2, <4>2 DEF EpochPosition
        <5> QED BY <5>1 DEF LeafAt
      <4>4. node.tree_version > 0
              => HeldBy(dbMerkle, dbEpoch, node.tree_position,
                        TreeValue(t, node.tree_version, ViewComm(t)))
        BY <4>1, <4>2, <4>3 DEF TreeOK, HeldNow
      <4>5. HasKeys(data, t) => node.tree_version > 0
        BY <4>1, <4>2 DEF TreeOK
      <4> QED BY <2>2, <4>2, <4>4, <4>5 DEF SavedTreeOK
    <3> QED BY <3>1, <3>2 DEF SavedOK
  <2> QED BY <1>1, <2>1, <2>2
<1> QED BY <1>4, <1>5, <1>6 DEF ProofInv

(* A new process can prove what the saved directory can. *)
LEMMA RestartProofs ==
  ASSUME ProofInv, Restart
  PROVE  ProofInv'
<1>1. /\ data' = saved.data /\ dbKey' = saved.key /\ dbMerkle' = saved.merkle
      /\ dbEpoch' = saved.epoch /\ saved' = saved /\ write_ops' = << >> /\ hashes' = << >>
      /\ pc' = "idle"
  BY DEF Restart, ReopenForest
<1>2. \A t \in Names : ViewComm(t)' = SavedComm(t)
  BY RestartView
<1>3. KeysProvable(dbKey, dbMerkle, dbEpoch)' /\ BatchHashed' /\ SavedOK'
  BY <1>1, SavedProofsKept DEF ProofInv, SavedOK, KeysProvable, BatchHashed
<1>4. \A t \in Names : t # Root => TreeOK(t)'
  BY <1>1, <1>2 DEF ProofInv, SavedOK, SavedTreeOK, TreeOK, HeldNow
<1> QED BY <1>3, <1>4 DEF ProofInv, TreesOK

(* The empty store has nothing to prove. *)
LEMMA ProofInit == Init => ProofInv
<1> SUFFICES ASSUME Init PROVE ProofInv
  OBVIOUS
<1>1. /\ data = EmptyData /\ saved = EmptySaved /\ dbKey = EmptyKeys
      /\ write_ops = << >> /\ hashes = << >>
  BY DEF Init, TreeInit, NewForest
<1>2. ASSUME NEW n \in Names, NEW i \in Index
      PROVE  /\ EmptyData[n][i].key_versions = << >>
             /\ EmptyData[n][i].tree_version = 0
  BY DEF EmptyData, EmptyNode
<1>3. ASSUME NEW t \in Names, t # Root
      PROVE  ~HasKeys(EmptyData, t) /\ ParentNode(EmptyData, t).tree_version = 0
  <2>1. Parent(t) \in Names /\ LevelIndex(t) \in Index
    BY <1>3, ParentIsName
  <2> QED BY <1>2, <2>1 DEF HasKeys, ParentNode
<1>4. TreesOK
  BY <1>1, <1>3 DEF TreesOK, TreeOK
<1>5. saved.data = EmptyData /\ saved.key = EmptyKeys
  BY <1>1 DEF EmptySaved
<1>6. \A k \in Keys : EmptyKeys[k] = Missing
  BY DEF EmptyKeys
<1>7. KeysProvable(dbKey, dbMerkle, dbEpoch) /\ KeysProvable(saved.key, saved.merkle, saved.epoch)
  BY <1>1, <1>5, <1>6 DEF KeysProvable
<1>8. SavedOK
  BY <1>3, <1>5, <1>7 DEF SavedOK, SavedTreeOK
<1>9. BatchHashed
  BY <1>1 DEF BatchHashed
<1> QED BY <1>4, <1>7, <1>8, <1>9 DEF ProofInv

(* Every step keeps what proofs need. *)
LEMMA ProofNext ==
  ASSUME IndInv, StoreInv, CommitInv, SlotInv, ProofInv, [Next]_vars
  PROVE  ProofInv'
<1>0. LinkInv /\ TreeTypes /\ ForestInv
  BY TypeOKParts DEF CommitInv, IndInv
<1>1. ASSUME UNCHANGED <<data, dirty, hashes, dbKey, dbMerkle, dbEpoch, write_ops, saved>>,
             \A t \in Names : ViewComm(t)' = ViewComm(t), BatchHashed'
      PROVE  ProofInv'
  <2>1. TreesOK'
    BY <1>1, LeavesKept, TreesKept DEF ProofInv
  <2>2. KeysProvable(dbKey, dbMerkle, dbEpoch)' /\ SavedOK'
    BY <1>1, SavedProofsKept DEF ProofInv, KeysProvable
  <2> QED BY <1>1, <2>1, <2>2 DEF ProofInv
<1>2. ASSUME UNCHANGED <<forest, comm, sub, dirty, data, hashes, dbKey, dbMerkle, dbEpoch,
                         write_ops, saved>>,
             pc' = "keys" => pc \in {"keys", "idle"}
      PROVE  ProofInv'
  <2>1. BatchHashed'
    <3>1. pc = "idle" => write_ops = << >> /\ hashes = << >>
      BY DEF StoreInv, PhaseOK
    <3> QED BY <1>2, <3>1 DEF ProofInv, BatchHashed
  <2> QED BY <1>0, <1>1, <1>2, <2>1, ViewKept
<1>3. ASSUME NEW n \in Names, GetTreeMut(n), pc' # "keys" \/ pc' = pc,
             UNCHANGED <<sub, dirty, data, hashes, dbKey, dbMerkle, dbEpoch, write_ops, saved>>
      PROVE  ProofInv'
  <2>1. \A t \in Names : ViewComm(t)' = ViewComm(t)
    BY <1>0, <1>3, TouchView
  <2>2. BatchHashed'
    BY <1>3 DEF ProofInv, BatchHashed
  <2> QED BY <1>1, <1>3, <2>1, <2>2
<1>4. CASE \/ \E k \in ReadKeys : Get(k)
           \/ \E k \in Keys, v \in Values : Set(k, v)
           \/ CommitBegin \/ AllocatePanic \/ CommitTreesBegin
  BY <1>2, <1>4 DEF Get, Set, CommitBegin, AllocatePanic, CommitTreesBegin, treeVars, storeVars
<1>5. ASSUME NEW k \in Keys, Prove(k) PROVE ProofInv'
  <2>1. dbKey[k].version.level \in 0..(MaxLevel - 1)
    BY <1>5 DEF IndInv, TypeOK, Prove, Value, VerInfo
  <2>2. TreeAtLevel(k, dbKey[k].version.level) \in Names
    BY <2>1, KeyPath
  <2> QED BY <1>3, <1>5, <2>2 DEF Prove, storeVars
<1>6. CASE CommitKnownKey
  BY <1>0, <1>6, KnownSlot, KnownKeyFits, WriteRoundProofs
<1>7. CASE CommitNewKey
  <2>1. PICK info : info = VacantSlot(Current.key, level)
    OBVIOUS
  <2> QED BY <1>0, <1>7, <2>1, NewSlot, NewKeyFits, WriteRoundProofs
<1>8. CASE AllocateSkip
  <2>1. Current.key \in Keys /\ level \in 0..(MaxLevel - 1)
    BY <1>8, CurrentType, ForestConstants DEF IndInv, TypeOK, AllocateSkip
  <2>2. TreeAtLevel(Current.key, level) \in Names
    BY <2>1, KeyPath
  <2>3. /\ GetTreeMut(TreeAtLevel(Current.key, level)) /\ pc' = pc
        /\ UNCHANGED <<sub, dirty, data, hashes, dbKey, dbMerkle, dbEpoch, write_ops, saved>>
    BY <1>8 DEF AllocateSkip, SkipFullLevel, storeVars
  <2> QED BY <1>3, <2>2, <2>3
<1>9. CASE CommitOneTree
  BY <1>0, <1>9, CommitOneTreeProofs
<1>10. CASE CommitEnd
  BY <1>0, <1>10, CommitEndProofs
<1>11. CASE FlushRoot
  BY <1>0, <1>11, FlushProofs
<1>12. CASE Restart
  BY <1>12, RestartProofs
<1>13. CASE UNCHANGED vars
  BY <1>2, <1>13 DEF vars, treeVars, storeVars
<1> QED BY <1>4, <1>5, <1>6, <1>7, <1>8, <1>9, <1>10, <1>11, <1>12, <1>13
        DEF Next, CommitStep

(* The invariant of proofs, with those it rests on. *)
THEOREM ProofInductive == Spec => [](IndInv /\ StoreInv /\ CommitInv /\ SlotInv /\ ProofInv)
<1>1. Init => ProofInv
  BY ProofInit
<1>2. IndInv /\ StoreInv /\ CommitInv /\ SlotInv /\ ProofInv /\ [Next]_vars => ProofInv'
  BY ProofNext
<1> QED BY <1>1, <1>2, SlotInductive, PTL DEF Spec

(* The tree of a key at one level is the child of its tree at the level above. *)
LEMMA NextLevel ==
  ASSUME NEW k \in Keys, NEW l \in 0..(MaxLevel - 1), l + 1 \in 0..(MaxLevel - 1)
  PROVE  /\ TreeAtLevel(k, l + 1) \in Names /\ TreeAtLevel(k, l + 1) # Root
         /\ Parent(TreeAtLevel(k, l + 1)) = TreeAtLevel(k, l)
         /\ LevelIndex(TreeAtLevel(k, l + 1)) = IndexAtLevel(k, l)
<1>1. PICK t \in Names : t = TreeAtLevel(k, l + 1) /\ Len(t) = l + 1
  BY KeyPath
<1>2. l \in Nat
  BY ForestConstants
<1>3. t # Root
  BY <1>1, <1>2, RootIsName
<1>4. \A j \in 1..(l + 1) : t[j] = Path[k][j]
  BY <1>1 DEF TreeAtLevel
<1>5. Len(t) - 1 = l /\ 1..l \subseteq 1..(l + 1) /\ l + 1 \in 1..(l + 1)
  BY <1>1, <1>2
<1>6. Parent(t) = TreeAtLevel(k, l)
  BY <1>4, <1>5 DEF Parent, Anc, TreeAtLevel
<1>7. LevelIndex(t) = IndexAtLevel(k, l)
  BY <1>1, <1>4, <1>5 DEF LevelIndex, IndexAtLevel
<1> QED BY <1>1, <1>3, <1>6, <1>7

(* A leaf that is held between commits is in the Merkle tree of its epoch. *)
LEMMA HeldIsDumped ==
  ASSUME NEW pos \in EpochPosition, NEW leaf, hashes = << >>, HeldNow(pos, leaf)
  PROVE  MerkleHolds(pos, leaf)
<1>1. pos.position \in Nat /\ Len(hashes) = 0
  BY DEF EpochPosition
<1>2. ~LeafAt(hashes, pos.position, leaf)
  BY <1>1 DEF LeafAt
<1> QED BY <1>2 DEF HeldNow, HeldBy, LeafAt, MerkleHolds

(* LvmtDB::verify accepts the proof of every stored key: the AMT opening at every level of
   its path, the Merkle leaf of its value and the Merkle leaves of the trees on the path,
   for any forest, after any commits, panics, saves and restarts, with full proof data. *)
THEOREM StoredKeysVerify == Spec => []ProofsVerify
<1>1. IndInv /\ StoreInv /\ CommitInv /\ SlotInv /\ ProofInv => ProofsVerify
  <2> SUFFICES ASSUME IndInv, StoreInv, CommitInv, SlotInv, ProofInv,
                      pc = "idle", ProofShard = Index, NEW k \in Stored
               PROVE  ProofVerifies(k)
    BY DEF ProofsVerify
  <2>1. k \in Keys /\ dbKey[k] # Missing
    BY DEF Stored
  <2>2. PICK info \in VerInfo : info = dbKey[k].version
    BY <2>1, EntryTypes
  <2>3. /\ info.level \in 0..(MaxLevel - 1) /\ info.slot \in 1..Slots
        /\ MaxLevel \in Nat /\ Slots \in Nat \ {0}
    BY ForestConstants DEF VerInfo
  <2>4. hashes = << >> /\ dirty \subseteq {Root} /\ data \in Trees
    BY EntryTypes DEF StoreInv, PhaseOK, IndInv, FlushInv
  <2>5. PlacedAt(data, k, info)
    BY <2>1, <2>2 DEF SlotInv, ColumnPlaced
  <2>6. ASSUME NEW l \in 0..info.level
        PROVE  ViewComm(TreeAtLevel(k, l))[IndexAtLevel(k, l)]
                 = AsFrInt(data[TreeAtLevel(k, l)][IndexAtLevel(k, l)])
    <3>1. l \in 0..(MaxLevel - 1) /\ 0 \in 0..(MaxLevel - 1)
      BY <2>3
    <3>2. TreeAtLevel(k, l) \in Names /\ IndexAtLevel(k, l) \in Index
      BY <2>1, <3>1, KeyPath
    <3>3. InProofShard(k)
      BY <2>1, <3>1, KeyPath DEF InProofShard
    <3>4. NodeInShard(TreeAtLevel(k, l), IndexAtLevel(k, l))
      BY <2>1, <3>1, <3>3, ShardOfKey
    <3> QED BY <3>2, <3>4 DEF CommitInv, CommitmentBindsData
  <2>7. MerkleHolds(dbKey[k].position, KeyValue(k, info, dbKey[k].value))
    BY <2>1, <2>2 DEF ProofInv, KeysProvable, HeldBy, LeafAt, MerkleHolds
  <2>8. ASSUME NEW l \in 0..(info.level - 1)
        PROVE  MerkleHolds(data[TreeAtLevel(k, l)][IndexAtLevel(k, l)].tree_position,
                 TreeValue(TreeAtLevel(k, l + 1),
                           data[TreeAtLevel(k, l)][IndexAtLevel(k, l)].tree_version,
                           ViewComm(TreeAtLevel(k, l + 1))))
    <3>1. l \in 0..(MaxLevel - 1) /\ l + 1 \in 0..(MaxLevel - 1)
          /\ (l + 1 = info.level \/ l + 1 \in 0..(info.level - 1))
      BY <2>3
    <3>2. PICK t \in Names : t = TreeAtLevel(k, l + 1) /\ t # Root
      BY <2>1, <3>1, NextLevel
    <3>3. PICK node \in Node : node = data[TreeAtLevel(k, l)][IndexAtLevel(k, l)]
      BY <2>1, <2>4, <3>1, KeyPath DEF Trees
    <3>4. ParentNode(data, t) = node
      BY <2>1, <3>1, <3>2, <3>3, NextLevel DEF ParentNode
    <3>5. TreeOK(t)
      BY <2>4, <3>2 DEF ProofInv, TreesOK
    <3>6. HasKeys(data, t)
      <4>1. Taken(data, k, l + 1) \in Nat
        BY <2>1, <2>4, <3>1, TakenType
      <4>2. Taken(data, k, l + 1) >= 1
        <5>1. Taken(data, k, l + 1) = Slots \/ info.slot <= Taken(data, k, l + 1)
          BY <2>5, <3>1 DEF PlacedAt
        <5> QED BY <2>3, <4>1, <5>1
      <4>3. PICK i \in Index : i = IndexAtLevel(k, l + 1)
        BY <2>1, <3>1, KeyPath
      <4>4. Len(data[t][i].key_versions) >= 1
        BY <3>2, <4>2, <4>3 DEF Taken
      <4>5. data[t][i].key_versions # << >>
        BY <4>4
      <4> QED BY <4>5 DEF HasKeys
    <3>7. HeldNow(node.tree_position, TreeValue(t, node.tree_version, ViewComm(t)))
      BY <3>4, <3>5, <3>6 DEF TreeOK
    <3>8. node.tree_position \in EpochPosition
      BY DEF Node
    <3>9. MerkleHolds(node.tree_position, TreeValue(t, node.tree_version, ViewComm(t)))
      BY <2>4, <3>7, <3>8, HeldIsDumped
    <3> QED BY <3>2, <3>3, <3>9
  <2> QED BY <2>2, <2>6, <2>7, <2>8 DEF ProofVerifies
<1> QED BY <1>1, ProofInductive, PTL
==============================================================================
