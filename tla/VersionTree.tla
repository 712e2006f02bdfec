----------------------------- MODULE VersionTree -----------------------------
(***************************************************************************)
(* The multi-layer AMT of LVMT: lvmt-db/src/multi_layer_amt/tree.rs.       *)
(*                                                                         *)
(* A VersionTree is a forest of AMTs named by the path of node indices     *)
(* from the root tree.  A leaf (node) of an AMT holds the versions of up   *)
(* to Slots keys, and the version and latest Merkle position of the child  *)
(* AMT below it.  get_tree_mut marks every tree it hands out in its        *)
(* parent, so that commit_tree, which only descends through the marks,     *)
(* reaches every tree that was written.                                    *)
(*                                                                         *)
(* A curve commitment is modelled by the vector it commits to: the AMT     *)
(* commitment is linear in that vector and binding, so two commitments are *)
(* equal exactly when the vectors are.  This module has the forest's state *)
(* and what each operation does to it; LvmtDB drives it.                   *)
(***************************************************************************)
EXTENDS Integers, Sequences, FiniteSets

CONSTANTS
  Keys,         \* the keys of the store
  Index,        \* node indices of one AMT, 0 .. 2^DEPTHS - 1 in the code
  MaxLevel,     \* levels 0 .. MaxLevel-1 can hold a key (32 in the code)
  Slots,        \* key slots of a node (5 in the code)
  Path,         \* Path[k][l+1]: the key bits Key::index_at_level(l) extracts
  ProofShard,   \* root-tree indices whose data is maintained for proofs
  MaxVersion,   \* MAX_VERSION_NUMBER
  NoComm        \* the commitment field of an AMTree when it is None

ASSUME ForestConstants ==
  /\ Index \subseteq Nat
  /\ MaxLevel \in Nat \ {0}
  /\ Slots \in Nat \ {0}
  /\ Path \in [Keys -> [1..MaxLevel -> Index]]
  /\ ProofShard \subseteq Index
  /\ MaxVersion \in Nat
  /\ NoComm \notin [Index -> [0..Slots -> Int]]

VARIABLES
  forest,   \* names of the trees held in memory
  mark,     \* trees whose mark_in_parent is set
  kids,     \* children_marks of each tree
  dirty,    \* trees whose dirty flag is set
  comm,     \* the in-memory commitment of each tree, or NoComm
  data,     \* nodes of each tree as AMTree::get sees them
  sub,      \* subtree_roots of each tree as AMTree::subtree_root sees them
  hashes,   \* Merkle leaves gathered by the running commit
  dbData,   \* column COL_VER_TREE: the stored nodes,
  dbSub,    \*   the stored subtree roots,
  dbRoot    \*   and the root commitment under ROOT_KEY

treeVars == <<forest, mark, kids, dirty, comm, data, sub, dbData, dbSub, dbRoot>>

------------------------------------------------------------------------------
(* Names and keys. *)

Root == << >>

(* The tree names that keys can reach. *)
Names == UNION {[1..l -> Index] : l \in 0..(MaxLevel - 1)}

(* The ancestor of tree n that has j indices in its name. *)
Anc(n, j) == [i \in 1..j |-> n[i]]

Parent(n) == Anc(n, Len(n) - 1)
LevelIndex(n) == n[Len(n)]

TreeAtLevel(k, l) == [i \in 1..l |-> Path[k][i]]
IndexAtLevel(k, l) == Path[k][l + 1]

------------------------------------------------------------------------------
(* Nodes and commitments. *)

FrInt == [0..Slots -> Nat]
Commitment == [Index -> FrInt]
EpochPosition == [epoch : Nat, position : Nat]
Node == [key_versions : Seq(Nat), tree_version : Nat, tree_position : EpochPosition]

EmptyNode ==
  [key_versions  |-> << >>,
   tree_version  |-> 0,
   tree_position |-> [epoch |-> 0, position |-> 0]]

ZeroFr == [s \in 0..Slots |-> 0]
ZeroComm == [i \in Index |-> ZeroFr]

(* Node::as_fr_int: component 0 holds the version of the child tree and
   component s the version in key slot s. *)
AsFrInt(node) ==
  [s \in 0..Slots |->
     IF s = 0 THEN node.tree_version
     ELSE IF s <= Len(node.key_versions) THEN node.key_versions[s]
     ELSE 0]

(* Mutant of FrDelta: the operands of the subtraction swapped. *)
FrDeltaSwapped(old, new) == [s \in 0..Slots |-> AsFrInt(old)[s] - AsFrInt(new)[s]]

(* What the write guard adds to the commitment when a node changes. *)
FrDelta(old, new) == [s \in 0..Slots |-> AsFrInt(new)[s] - AsFrInt(old)[s]]

(* fr_int_pow_2((slot_index + 1) * 40): one more in key slot s. *)
SlotUnit(s) == [t \in 0..Slots |-> IF t = s THEN 1 ELSE 0]

(* Mutant of Updated: the commitment is overwritten, not added to. *)
UpdatedByOverwrite(c, i, delta) == [c EXCEPT ![i] = delta]

(* AMTree::update: the commitment moves by delta at one index ... *)
Updated(c, i, delta) == [c EXCEPT ![i] = [s \in 0..Slots |-> c[i][s] + delta[s]]]

(* ... and the tree becomes dirty, unless delta is zero. *)
DirtiedBy(n, delta) == IF delta = ZeroFr THEN {} ELSE {n}

------------------------------------------------------------------------------
(* get_tree_mut.  Marking a tree that is not marked yet walks up its
   ancestors and stops at the first one that is marked itself. *)

(* Lengths of the ancestors the upward loop visits. *)
Walked(n) ==
  IF n \in mark THEN {}
  ELSE {j \in 0..(Len(n) - 1) : \A m \in (j + 1)..(Len(n) - 1) : Anc(n, m) \notin mark}

WalkedNames(n) == {n} \cup {Anc(n, j) : j \in Walked(n)}

(* Mutant of TouchForest: absent ancestors are not created. *)
TouchForestOnlySelf(n) == forest \cup {n}

TouchForest(n) == forest \cup WalkedNames(n)

TouchMark(n) == mark \cup WalkedNames(n)

TouchKids(n) ==
  [t \in Names |->
     kids[t] \cup {n[j + 1] : j \in {m \in Walked(n) : Anc(n, m) = t}}]

(* Mutant of TouchComm: a tree that is loaded starts from the empty
   commitment. *)
TouchCommZero(n) ==
  [t \in Names |->
     IF comm[t] = NoComm /\ \E j \in Walked(n) : Anc(n, j + 1) = t
       THEN ZeroComm ELSE comm[t]]

(* set_commitment: each visited child without a commitment takes the subtree
   root its parent holds for it. *)
TouchComm(n) ==
  [t \in Names |->
     IF comm[t] = NoComm /\ \E j \in Walked(n) : Anc(n, j + 1) = t
       THEN sub[Parent(t)][LevelIndex(t)]
       ELSE comm[t]]

GetTreeMut(n) ==
  /\ forest' = TouchForest(n)
  /\ mark' = TouchMark(n)
  /\ kids' = TouchKids(n)
  /\ comm' = TouchComm(n)

------------------------------------------------------------------------------
(* inc_key_ver and the slot search it runs for a key without a version. *)

VerInfo == [version : Nat, level : 0..(MaxLevel - 1), slot : 1..Slots]

(* Mutant of SlotsFull: looks at the key's index in the root tree. *)
SlotsFullWrongIndex(k, level) ==
  Len(data[TreeAtLevel(k, level)][IndexAtLevel(k, 0)].key_versions) >= Slots

(* Is the node of key k at this level full? *)
SlotsFull(k, level) ==
  Len(data[TreeAtLevel(k, level)][IndexAtLevel(k, level)].key_versions) >= Slots

(* One round of allocate_vacant_slot that finds no room. *)
SkipFullLevel(k, level) ==
  /\ SlotsFull(k, level)
  /\ GetTreeMut(TreeAtLevel(k, level))
  /\ UNCHANGED <<dirty, data, sub, hashes, dbData, dbSub, dbRoot>>

(* The round that finds room: the slot that push(0) creates. *)
VacantSlot(k, level) ==
  [version |-> 0,
   level   |-> level,
   slot    |-> Len(data[TreeAtLevel(k, level)][IndexAtLevel(k, level)].key_versions) + 1]

WithSlot(node, slot) ==
  IF slot > Len(node.key_versions)
    THEN [node EXCEPT !.key_versions = Append(node.key_versions, 0)]
    ELSE node

WithVersion(node, slot) ==
  [node EXCEPT !.key_versions = [node.key_versions EXCEPT ![slot] = node.key_versions[slot] + 1]]

InProofShard(k) == IndexAtLevel(k, 0) \in ProofShard

(* Mutant of IncKeyVer: the else is missing, so that a key in the shard moves
   the commitment twice. *)
IncKeyVerTwice(k, info) ==
  LET n     == TreeAtLevel(k, info.level)
      i     == IndexAtLevel(k, info.level)
      new   == WithVersion(WithSlot(data[n][i], info.slot), info.slot)
      once  == Updated(TouchComm(n)[n], i, SlotUnit(info.slot))
  IN /\ forest' = TouchForest(n)
     /\ mark' = TouchMark(n)
     /\ kids' = TouchKids(n)
     /\ data' = [data EXCEPT ![n] = [data[n] EXCEPT ![i] = new]]
     /\ comm' = [TouchComm(n) EXCEPT ![n] = Updated(once, i, FrDelta(data[n][i], new))]
     /\ dirty' = dirty \cup {n}
     /\ UNCHANGED <<sub, dbData, dbSub, dbRoot>>

(* inc_key_ver for the slot info names, pushing the slot first if it is new.
   In the proof shard the node is written and the commitment follows it;
   outside, only the commitment moves. *)
IncKeyVer(k, info) ==
  LET n     == TreeAtLevel(k, info.level)
      i     == IndexAtLevel(k, info.level)
      old   == data[n][i]
      room  == WithSlot(old, info.slot)
      new   == IF InProofShard(k) THEN WithVersion(room, info.slot) ELSE room
      delta == IF InProofShard(k) THEN FrDelta(old, new) ELSE SlotUnit(info.slot)
  IN /\ forest' = TouchForest(n)
     /\ mark' = TouchMark(n)
     /\ kids' = TouchKids(n)
     /\ data' = [data EXCEPT ![n] = [data[n] EXCEPT ![i] = new]]
     /\ comm' = [TouchComm(n) EXCEPT ![n] = Updated(TouchComm(n)[n], i, delta)]
     /\ dirty' = dirty \cup DirtiedBy(n, delta)
     /\ UNCHANGED <<sub, dbData, dbSub, dbRoot>>

------------------------------------------------------------------------------
(* commit_tree.  The recursion visits the marked children of a tree in the
   order of their indices and finishes a tree after its children.  One step
   of the model finishes one tree; a finished child leaves its parent's
   children_marks, which the code clears when the loop over them ends. *)

(* n is the tree whose call of commit_tree is the next to return. *)
NextToCommit(n) ==
  /\ kids[n] = {}
  /\ \A j \in 0..(Len(n) - 1) :
       /\ n[j + 1] \in kids[Anc(n, j)]
       /\ \A i \in kids[Anc(n, j)] : n[j + 1] <= i

TreeValue(n, version, c) == [key |-> n, version_number |-> version, commitment |-> c]

(* Mutant of WithTreeVersion: the position is one off. *)
WithTreeVersionOffByOne(node, epoch) ==
  [key_versions  |-> node.key_versions,
   tree_version  |-> node.tree_version + 1,
   tree_position |-> [epoch |-> epoch, position |-> Len(hashes) + 1]]

(* The parent's node for a dirty child: one version up, and the position of
   the Merkle leaf this update becomes. *)
WithTreeVersion(node, epoch) ==
  [key_versions  |-> node.key_versions,
   tree_version  |-> node.tree_version + 1,
   tree_position |-> [epoch |-> epoch, position |-> Len(hashes)]]

(* Record a dirty child in its parent. *)
RecordUpdate(n, epoch) ==
  LET p     == Parent(n)
      i     == LevelIndex(n)
      old   == data[p][i]
      new   == WithTreeVersion(old, epoch)
      delta == FrDelta(old, new)
  IN /\ sub' = [sub EXCEPT ![p] = [sub[p] EXCEPT ![i] = comm[n]]]
     /\ data' = [data EXCEPT ![p] = [data[p] EXCEPT ![i] = new]]
     /\ comm' = [comm EXCEPT ![p] = Updated(comm[p], i, delta)]
     /\ dirty' = (dirty \ {n}) \cup DirtiedBy(p, delta)
     /\ hashes' = Append(hashes, TreeValue(n, new.tree_version, comm[n]))

(* Mutant of FlushTree: the subtree roots are not flushed. *)
FlushTreeDataOnly(n) ==
  /\ dbData' = [dbData EXCEPT ![n] = data[n]]
  /\ UNCHANGED dbSub

(* AMTree::flush of tree n: its nodes and subtree roots reach the database. *)
FlushTree(n) ==
  /\ dbData' = [dbData EXCEPT ![n] = data[n]]
  /\ dbSub' = [dbSub EXCEPT ![n] = sub[n]]

(* Mutant of CommitTree: mark_in_parent is not reset. *)
CommitTreeKeepsMark(n, epoch) ==
  /\ n # Root
  /\ NextToCommit(n)
  /\ \/ n \in dirty /\ RecordUpdate(n, epoch)
     \/ n \notin dirty /\ UNCHANGED <<sub, data, comm, dirty, hashes>>
  /\ kids' = [kids EXCEPT ![Parent(n)] = kids[Parent(n)] \ {LevelIndex(n)}]
  /\ FlushTree(n)
  /\ UNCHANGED <<mark, forest, dbRoot>>

(* Mutant of CommitTree: the child is not taken off its parent's marks. *)
CommitTreeKeepsKids(n, epoch) ==
  /\ n # Root
  /\ NextToCommit(n)
  /\ \/ n \in dirty /\ RecordUpdate(n, epoch)
     \/ n \notin dirty /\ UNCHANGED <<sub, data, comm, dirty, hashes>>
  /\ mark' = mark \ {n}
  /\ FlushTree(n)
  /\ UNCHANGED <<kids, forest, dbRoot>>

(* Mutant of CommitTree: a tree is flushed and its mark reset before the loop
   over its children. *)
CommitTreeBeforeChildren(n, epoch) ==
  LET entered == {Anc(n, j) : j \in 1..Len(n)} \cap mark
  IN /\ n # Root
     /\ NextToCommit(n)
     /\ \/ n \in dirty /\ RecordUpdate(n, epoch)
        \/ n \notin dirty /\ UNCHANGED <<sub, data, comm, dirty, hashes>>
     /\ kids' = [kids EXCEPT ![Parent(n)] = kids[Parent(n)] \ {LevelIndex(n)}]
     /\ mark' = mark \ entered
     /\ dbData' = [t \in Names |-> IF t \in entered THEN data[t] ELSE dbData[t]]
     /\ dbSub' = [t \in Names |-> IF t \in entered THEN sub[t] ELSE dbSub[t]]
     /\ UNCHANGED <<forest, dbRoot>>

(* commit_tree returns for the tree n below the root. *)
CommitTree(n, epoch) ==
  /\ n # Root
  /\ NextToCommit(n)
  /\ \/ n \in dirty /\ RecordUpdate(n, epoch)
     \/ n \notin dirty /\ UNCHANGED <<sub, data, comm, dirty, hashes>>
  /\ kids' = [kids EXCEPT ![Parent(n)] = kids[Parent(n)] \ {LevelIndex(n)}]
  /\ mark' = mark \ {n}
  /\ FlushTree(n)
  /\ UNCHANGED <<forest, dbRoot>>

(* commit_tree returns for the root tree, which is not flushed. *)
CommitRoot ==
  /\ NextToCommit(Root)
  /\ mark' = mark \ {Root}
  /\ UNCHANGED <<forest, kids, dirty, comm, data, sub, dbData, dbSub, dbRoot>>

------------------------------------------------------------------------------
(* Mutant of FlushAll: only the root commitment is stored. *)
FlushAllCommitmentOnly ==
  /\ GetTreeMut(Root)
  /\ dbRoot' = comm[Root]
  /\ UNCHANGED <<dbData, dbSub, dirty, data, sub>>

(* flush_all: the root tree and its commitment reach the database. *)
FlushAll ==
  /\ GetTreeMut(Root)
  /\ FlushTree(Root)
  /\ dbRoot' = comm[Root]
  /\ dirty' = dirty \ {Root}
  /\ UNCHANGED <<data, sub>>

(* VersionTree::new on an empty column, and on the stored trees d, s, r. *)
NewForest(d, s, r) ==
  /\ forest = {Root}
  /\ mark = {Root}
  /\ kids = [t \in Names |-> {}]
  /\ dirty = {}
  /\ comm = [t \in Names |-> IF t = Root THEN r ELSE NoComm]
  /\ data = d
  /\ sub = s

EmptyData == [t \in Names |-> [i \in Index |-> EmptyNode]]
EmptySub == [t \in Names |-> [i \in Index |-> ZeroComm]]

TreeInit ==
  /\ NewForest(EmptyData, EmptySub, ZeroComm)
  /\ dbData = EmptyData
  /\ dbSub = EmptySub
  /\ dbRoot = ZeroComm

(* VersionTree::new after a restart: nothing but the database survives. *)
ReopenForest(d, s, r) ==
  /\ forest' = {Root}
  /\ mark' = {Root}
  /\ kids' = [t \in Names |-> {}]
  /\ dirty' = {}
  /\ comm' = [t \in Names |-> IF t = Root THEN r ELSE NoComm]
  /\ data' = d
  /\ sub' = s
  /\ dbData' = d
  /\ dbSub' = s
  /\ dbRoot' = r
==============================================================================
