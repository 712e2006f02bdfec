------------------------------- MODULE LvmtDB --------------------------------
(***************************************************************************)
(* LvmtDB (lvmt-db/src/lvmt_db.rs) as the benchmark drives it: a key-value *)
(* store whose commit gives every written key a version in the multi-layer *)
(* AMT, hashes the epoch's writes into a Merkle tree and propagates the    *)
(* commitments of the changed AMTs up to the root tree.                    *)
(*                                                                         *)
(* commit takes &mut self, so nothing interleaves with it; it is split     *)
(* into the rounds of its loops because each round reads what the earlier  *)
(* ones left behind, and because it can panic half-way.                    *)
(***************************************************************************)
EXTENDS VersionTree, Batch

CONSTANTS
  Values,        \* values a key can be set to
  Missing,       \* no value stored under a key
  Uncached,      \* no entry in the epoch cache
  ReadKeys,      \* bound: keys the workload reads
  RepeatWrites,  \* may the workload write a key twice in one epoch?
  MaxPending,    \* bound: writes per epoch
  MaxEpoch       \* bound: committed epochs

ASSUME StoreConstants ==
  /\ ReadKeys \subseteq Keys
  /\ RepeatWrites \in BOOLEAN
  /\ MaxPending \in Nat
  /\ MaxEpoch \in Nat

VARIABLES
  pc,          \* "idle", or where commit is: "keys", "trees"; or "panic"
  uncommitted, \* uncommitted_key_values: records [key, val]
  cache,       \* the epoch cache that get fills
  level,       \* loop variable of allocate_vacant_slot
  write_ops,   \* batch for the key column built by the running commit
  answer,      \* what the latest get returned, with its key
  dbKey,       \* column COL_KEY_NEW
  dbMerkle,    \* column COL_MERKLE: the leaves of each epoch's Merkle tree,
  dbEpoch,     \*   and the next epoch, under EPOCH_NUMBER_KEY
  saved        \* the database directory a new process starts from

storeVars == <<cache, answer, dbKey, dbMerkle, dbEpoch, saved>>
vars == <<treeVars, hashes, storeVars, pc, uncommitted, level, write_ops>>

------------------------------------------------------------------------------
(* Value as stored in the key column, and the leaf commit hashes for it. *)
Value == [value : Values, version : VerInfo, position : EpochPosition]
KeyValue(k, info, v) == [key |-> k, version |-> info, value |-> v]

ASSUME EntryConstants ==
  /\ Missing \notin Value
  /\ Uncached \notin Value \cup {Missing}

EmptyKeys == [k \in Keys |-> Missing]
EmptyCache == [k \in Keys |-> Uncached]
NoAnswer == [key |-> Missing, val |-> Missing]
EmptyMerkle == [e \in 0..(MaxEpoch - 1) |-> << >>]
EmptySaved == [key |-> EmptyKeys, merkle |-> EmptyMerkle, epoch |-> 0,
               data |-> EmptyData, sub |-> EmptySub, root |-> ZeroComm]

Init ==
  /\ TreeInit
  /\ hashes = << >>
  /\ pc = "idle"
  /\ uncommitted = << >>
  /\ cache = EmptyCache
  /\ level = 0
  /\ write_ops = << >>
  /\ answer = NoAnswer
  /\ dbKey = EmptyKeys
  /\ dbMerkle = EmptyMerkle
  /\ dbEpoch = 0
  /\ saved = EmptySaved

------------------------------------------------------------------------------
(* Mutant of Lookup: commit and get forget to ask the database. *)
LookupCacheOnly(k) == IF cache[k] = Uncached THEN Missing ELSE cache[k]

(* The entry that get and commit read for k: the cache's before the
   database's. *)
Lookup(k) == IF cache[k] = Uncached THEN dbKey[k] ELSE cache[k]

Get(k) ==
  /\ pc = "idle"
  /\ cache' = [cache EXCEPT ![k] = Lookup(k)]
  /\ answer' = [key |-> k,
                val |-> IF Lookup(k) = Missing THEN Missing ELSE Lookup(k).value]
  /\ UNCHANGED <<treeVars, hashes, pc, uncommitted, level, write_ops,
                 dbKey, dbMerkle, dbEpoch, saved>>

Set(k, v) ==
  /\ pc = "idle"
  /\ dbEpoch < MaxEpoch
  /\ Len(uncommitted) < MaxPending
  /\ RepeatWrites \/ WritesTo(uncommitted, k) = {}
  /\ uncommitted' = Append(uncommitted, [key |-> k, val |-> v])
  /\ UNCHANGED <<treeVars, hashes, storeVars, pc, level, write_ops>>

(* prove for a stored key.  get_tree_mut of the deepest tree marks its whole
   path; a tree without the full proof data makes prove panic. *)
Prove(k) ==
  /\ pc = "idle"
  /\ dbKey[k] # Missing
  /\ GetTreeMut(TreeAtLevel(k, dbKey[k].version.level))
  /\ pc' = IF ProofShard = Index THEN "idle" ELSE "panic"
  /\ UNCHANGED <<dirty, data, sub, dbData, dbSub, dbRoot, hashes, storeVars,
                 uncommitted, level, write_ops>>

------------------------------------------------------------------------------
(* commit. *)

CommitBegin ==
  /\ pc = "idle"
  /\ dbEpoch < MaxEpoch
  /\ pc' = "keys"
  /\ UNCHANGED <<treeVars, hashes, storeVars, uncommitted, level, write_ops>>

(* The write the loop of commit is at. *)
Current == Head(uncommitted)

(* The loop body once the slot of the key is known: inc_key_ver, which panics
   on a version that does not fit, then the batch entry and the Merkle leaf. *)
CommitWrite(info) ==
  LET next == [info EXCEPT !.version = info.version + 1]
  IN /\ IncKeyVer(Current.key, info)
     /\ IF info.version < MaxVersion
          THEN /\ write_ops' =
                    Append(write_ops,
                           [key |-> Current.key,
                            val |-> [value    |-> Current.val,
                                     version  |-> next,
                                     position |-> [epoch    |-> dbEpoch,
                                                   position |-> Len(write_ops)]]])
               /\ hashes' = Append(hashes, KeyValue(Current.key, next, Current.val))
               /\ uncommitted' = Tail(uncommitted)
               /\ UNCHANGED pc
          ELSE /\ pc' = "panic"
               /\ UNCHANGED <<write_ops, hashes, uncommitted>>
     /\ level' = 0
     /\ UNCHANGED storeVars

(* The key has a version from an earlier epoch. *)
CommitKnownKey ==
  /\ pc = "keys"
  /\ uncommitted # << >>
  /\ Lookup(Current.key) # Missing
  /\ CommitWrite(Lookup(Current.key).version)

(* The key is new: search a vacant slot level by level. *)
AllocateSkip ==
  /\ pc = "keys"
  /\ uncommitted # << >>
  /\ Lookup(Current.key) = Missing
  /\ level < MaxLevel
  /\ SkipFullLevel(Current.key, level)
  /\ level' = level + 1
  /\ UNCHANGED <<storeVars, pc, uncommitted, write_ops>>

CommitNewKey ==
  /\ pc = "keys"
  /\ uncommitted # << >>
  /\ Lookup(Current.key) = Missing
  /\ level < MaxLevel
  /\ ~SlotsFull(Current.key, level)
  /\ CommitWrite(VacantSlot(Current.key, level))

(* "Exceed maximum support level". *)
AllocatePanic ==
  /\ pc = "keys"
  /\ uncommitted # << >>
  /\ level = MaxLevel
  /\ pc' = "panic"
  /\ UNCHANGED <<treeVars, hashes, storeVars, uncommitted, level, write_ops>>

CommitTreesBegin ==
  /\ pc = "keys"
  /\ uncommitted = << >>
  /\ pc' = "trees"
  /\ UNCHANGED <<treeVars, hashes, storeVars, uncommitted, level, write_ops>>

CommitOneTree ==
  /\ pc = "trees"
  /\ \E n \in Names : CommitTree(n, dbEpoch)
  /\ UNCHANGED <<storeVars, pc, uncommitted, level, write_ops>>

(* Mutant of CommitEnd: the epoch cache survives the commit. *)
CommitEndKeepsCache ==
  /\ pc = "trees"
  /\ CommitRoot
  /\ dbKey' = ApplyBatch(dbKey, write_ops)
  /\ dbMerkle' = [dbMerkle EXCEPT ![dbEpoch] = hashes]
  /\ dbEpoch' = dbEpoch + 1
  /\ hashes' = << >>
  /\ write_ops' = << >>
  /\ pc' = "idle"
  /\ UNCHANGED <<cache, uncommitted, level, answer, saved>>

(* Mutant of CommitEnd: the Merkle tree is dumped under the number of the epoch
   before. *)
CommitEndPrevEpoch ==
  /\ pc = "trees"
  /\ CommitRoot
  /\ dbKey' = ApplyBatch(dbKey, write_ops)
  /\ dbMerkle' = [dbMerkle EXCEPT ![IF dbEpoch = 0 THEN 0 ELSE dbEpoch - 1] = hashes]
  /\ dbEpoch' = dbEpoch + 1
  /\ cache' = EmptyCache
  /\ hashes' = << >>
  /\ write_ops' = << >>
  /\ pc' = "idle"
  /\ UNCHANGED <<uncommitted, level, answer, saved>>

(* The tree commit is done: dump the Merkle tree, store the epoch number and
   the key batch, flush the backend and drop the epoch cache. *)
CommitEnd ==
  /\ pc = "trees"
  /\ CommitRoot
  /\ dbKey' = ApplyBatch(dbKey, write_ops)
  /\ dbMerkle' = [dbMerkle EXCEPT ![dbEpoch] = hashes]
  /\ dbEpoch' = dbEpoch + 1
  /\ cache' = EmptyCache
  /\ hashes' = << >>
  /\ write_ops' = << >>
  /\ pc' = "idle"
  /\ UNCHANGED <<uncommitted, level, answer, saved>>

------------------------------------------------------------------------------
(* Warm-up and restart, as run.rs and main.rs do them. *)

(* The database directory, as FlushAll leaves it. *)
DbAfterFlush ==
  [key |-> dbKey, merkle |-> dbMerkle, epoch |-> dbEpoch,
   data |-> dbData', sub |-> dbSub', root |-> dbRoot']

(* flush_root at the end of a warm-up; with --warmup-to the directory is
   copied. *)
FlushRoot ==
  /\ pc = "idle"
  /\ uncommitted = << >>
  /\ FlushAll
  /\ saved' \in {saved, DbAfterFlush}
  /\ UNCHANGED <<hashes, cache, answer, dbKey, dbMerkle, dbEpoch,
                 pc, uncommitted, level, write_ops>>

(* The process ends, at any point, and a new one starts: the database
   directory is wiped and the saved one, if any, copied into it. *)
Restart ==
  /\ ReopenForest(saved.data, saved.sub, saved.root)
  /\ dbKey' = saved.key
  /\ dbMerkle' = saved.merkle
  /\ dbEpoch' = saved.epoch
  /\ hashes' = << >>
  /\ pc' = "idle"
  /\ uncommitted' = << >>
  /\ cache' = EmptyCache
  /\ level' = 0
  /\ write_ops' = << >>
  /\ answer' = NoAnswer
  /\ UNCHANGED saved

------------------------------------------------------------------------------
CommitStep ==
  \/ CommitKnownKey
  \/ AllocateSkip
  \/ CommitNewKey
  \/ AllocatePanic
  \/ CommitTreesBegin
  \/ CommitOneTree
  \/ CommitEnd

Next ==
  \/ \E k \in ReadKeys : Get(k)
  \/ \E k \in Keys, v \in Values : Set(k, v)
  \/ \E k \in Keys : Prove(k)
  \/ CommitBegin
  \/ CommitStep
  \/ FlushRoot
  \/ Restart

Spec == Init /\ [][Next]_vars

(* A commit that was called runs: it waits for nobody. *)
FairSpec == Spec /\ WF_vars(CommitStep)
------------------------------------------------------------------------------
(* Type invariant. *)
Leaf == [key : Keys, version : VerInfo, value : Values]
          \cup [key : Names, version_number : Nat, commitment : Commitment]

WriteOp == [key : Keys, val : Value]

Database ==
  [key    : [Keys -> Value \cup {Missing}],
   merkle : [0..(MaxEpoch - 1) -> Seq(Leaf)],
   epoch  : 0..MaxEpoch,
   data   : [Names -> [Index -> Node]],
   sub    : [Names -> [Index -> Commitment]],
   root   : Commitment]

(* Every variable stays in the range the code's types and asserts give it; in
   particular the commitment of every tree is an honest vector of naturals. *)
TypeOK ==
  /\ forest \subseteq Names
  /\ mark \subseteq Names
  /\ kids \in [Names -> SUBSET Index]
  /\ dirty \subseteq Names
  /\ comm \in [Names -> Commitment \cup {NoComm}]
  /\ data \in [Names -> [Index -> Node]]
  /\ sub \in [Names -> [Index -> Commitment]]
  /\ dbData \in [Names -> [Index -> Node]]
  /\ dbSub \in [Names -> [Index -> Commitment]]
  /\ dbRoot \in Commitment
  /\ hashes \in Seq(Leaf)
  /\ pc \in {"idle", "keys", "trees", "panic"}
  /\ uncommitted \in Seq([key : Keys, val : Values])
  /\ cache \in [Keys -> Value \cup {Missing, Uncached}]
  /\ level \in 0..MaxLevel
  /\ write_ops \in Seq(WriteOp)
  /\ dbKey \in [Keys -> Value \cup {Missing}]
  /\ dbMerkle \in [0..(MaxEpoch - 1) -> Seq(Leaf)]
  /\ dbEpoch \in 0..MaxEpoch
  /\ saved \in Database

------------------------------------------------------------------------------
(* Properties of the forest. *)

(* commit_tree only descends through children_marks: every dirty tree below
   the root must be reachable through them, or its update would never get
   into its parent, into the Merkle tree or to the database. *)
DirtyReachable ==
  \A n \in dirty \ {Root} :
    \A j \in 0..(Len(n) - 1) : n[j + 1] \in kids[Anc(n, j)]

(* Every tree commit_tree descends into is in memory and has a commitment
   (tree.rs unwraps both), and so has every tree in the forest. *)
MarkedTreesLoaded ==
  /\ Root \in forest
  /\ \A n \in forest : comm[n] # NoComm
  /\ \A n \in Names : \A i \in kids[n] :
       /\ n \in forest
       /\ Append(n, i) \in forest

(* Between commits only the root tree may differ from the database: the
   commit flushed every other tree that was written. *)
OnlyRootUnflushed ==
  pc = "idle" =>
    /\ dirty \subseteq {Root}
    /\ \A n \in Names \ {Root} : dbData[n] = data[n] /\ dbSub[n] = sub[n]

(* The commitment get_tree_mut would hand out for tree n. *)
ViewComm(n) ==
  IF n \in forest THEN comm[n] ELSE sub[Parent(n)][LevelIndex(n)]

(* A tree that is not dirty is committed to by its parent: the subtree root
   the parent holds for it is its commitment. *)
CommitmentsLinked ==
  \A n \in forest \ {Root} :
    n \notin dirty => sub[Parent(n)][LevelIndex(n)] = comm[n]

(* Is node i of tree n below the proof shard? *)
NodeInShard(n, i) == (IF n = Root THEN i ELSE n[1]) \in ProofShard

(* The incrementally updated commitment of a tree is the commitment of its
   nodes: of the child version everywhere, of all versions in the shard. *)
CommitmentBindsData ==
  \A n \in Names, i \in Index :
    /\ ViewComm(n)[i][0] = data[n][i].tree_version
    /\ NodeInShard(n, i) => ViewComm(n)[i] = AsFrInt(data[n][i])

------------------------------------------------------------------------------
(* What keeps the forest in order: the inductive form of the properties above,
   stated of its parts because every action changes several of them at once. *)

(* Marked trees are in memory, and trees in memory have a commitment. *)
LoadedOK(f, m, c) ==
  /\ Root \in f
  /\ m \subseteq f
  /\ \A n \in f : c[n] # NoComm

(* commit_tree reaches every marked tree from the root. *)
ChainOK(m, ks) ==
  \A n \in m : \A j \in 0..(Len(n) - 1) : n[j + 1] \in ks[Anc(n, j)]

(* children_marks names marked trees, and only marked trees have some. *)
KidsOK(m, ks) ==
  \A n \in Names : \A i \in ks[n] : n \in m /\ Append(n, i) \in m

(* A tree is dirty only while it is marked; the root tree stays dirty until
   flush_all. *)
DirtyOK(m, d) == d \subseteq m \cup {Root}

ForestOK(f, m, ks, d, c) ==
  LoadedOK(f, m, c) /\ ChainOK(m, ks) /\ KidsOK(m, ks) /\ DirtyOK(m, d)

ForestInv == ForestOK(forest, mark, kids, dirty, comm)

(* What the database lacks: between commits nothing but the root tree, and
   during a commit nothing but marked trees. *)
FlushInv ==
  /\ pc = "idle" => dirty \subseteq {Root}
  /\ \A n \in Names \ {Root} :
       (pc = "idle" \/ n \notin mark) => dbData[n] = data[n] /\ dbSub[n] = sub[n]

(* A commit runs only while the epoch bound leaves room. *)
EpochInv == pc \in {"keys", "trees"} => dbEpoch < MaxEpoch

------------------------------------------------------------------------------
(* Properties of the store. *)

Stored == {k \in Keys : dbKey[k] # Missing}

(* Two keys never share a version slot: inc_key_ver of one key must not move
   the version of another. *)
SlotsExclusive ==
  \A k1, k2 \in Stored :
    LET info1 == dbKey[k1].version
        info2 == dbKey[k2].version
    IN (k1 # k2 /\ info1.level = info2.level /\ info1.slot = info2.slot)
         => \/ TreeAtLevel(k1, info1.level) # TreeAtLevel(k2, info2.level)
            \/ IndexAtLevel(k1, info1.level) # IndexAtLevel(k2, info2.level)

(* A key was placed at the first level with room: on its path above, every
   node is full, so the search for a new key never skips a vacant slot. *)
ShallowLevelsFull ==
  \A k \in Stored :
    LET info     == dbKey[k].version
        taken(l) == Len(data[TreeAtLevel(k, l)][IndexAtLevel(k, l)].key_versions)
    IN /\ \A l \in 0..(info.level - 1) : taken(l) = Slots
       /\ info.slot <= taken(info.level)

(* StaticMerkleTree::verify against the root of that epoch: the leaf is at
   that position of the epoch's Merkle tree. *)
MerkleHolds(pos, leaf) ==
  /\ pos.epoch < dbEpoch
  /\ pos.position < Len(dbMerkle[pos.epoch])
  /\ dbMerkle[pos.epoch][pos.position + 1] = leaf

(* LvmtDB::verify accepts what LvmtDB::prove returns for key k. *)
ProofVerifies(k) ==
  LET info    == dbKey[k].version
      tree(l) == TreeAtLevel(k, l)
      node(l) == data[tree(l)][IndexAtLevel(k, l)]
  IN /\ \A l \in 0..info.level :
          ViewComm(tree(l))[IndexAtLevel(k, l)] = AsFrInt(node(l))
     /\ MerkleHolds(dbKey[k].position, KeyValue(k, info, dbKey[k].value))
     /\ \A l \in 0..(info.level - 1) :
          MerkleHolds(node(l).tree_position,
                      TreeValue(tree(l + 1), node(l).tree_version, ViewComm(tree(l + 1))))

(* Between commits every stored key can be proved, whatever was committed,
   evicted, saved or reopened since it was written (full proof data). *)
ProofsVerify ==
  (pc = "idle" /\ ProofShard = Index) => \A k \in Stored : ProofVerifies(k)

(* The version the AMT commits to in the slot of k. *)
SlotVersion(k) ==
  LET info == dbKey[k].version
  IN ViewComm(TreeAtLevel(k, info.level))[IndexAtLevel(k, info.level)][info.slot]

(* The version stored and hashed with a key's value is the one the AMT
   commits to in the key's slot. *)
VersionAgreement ==
  pc = "idle" => \A k \in Stored : dbKey[k].version.version = SlotVersion(k)

(* Within one process a stored key keeps its slot, and its value changes only
   together with a higher version. *)
VersionsAdvance ==
  [][Restart \/
     \A k \in Stored :
       /\ dbKey'[k] # Missing
       /\ dbKey'[k].version.level = dbKey[k].version.level
       /\ dbKey'[k].version.slot = dbKey[k].version.slot
       /\ dbKey'[k] # dbKey[k] => dbKey'[k].version.version > dbKey[k].version.version]_vars

(* A Merkle tree, once dumped for an epoch, is never rewritten: the positions
   of older values stay provable. *)
EpochsImmutable ==
  [][Restart \/ (/\ dbEpoch' >= dbEpoch
                 /\ \A e \in 0..(dbEpoch - 1) : dbMerkle'[e] = dbMerkle[e])]_vars

(* A tree that commit_tree has flushed is left alone until commit flushes the
   backend: it is neither marked again, read nor written.  The backends may hide
   buffered writes from get, and the flush has emptied the tree's cache, so that
   a round that came back to it would start from the data of the epoch before. *)
FlushedTreesRest ==
  [][pc = "trees" /\ pc' = "trees" =>
       /\ mark' \subseteq mark
       /\ \A n \in Names \ mark' : data'[n] = data[n] /\ sub'[n] = sub[n]]_vars

(* Every commit returns or panics. *)
CommitTerminates == pc \in {"keys", "trees"} ~> pc \in {"idle", "panic"}

------------------------------------------------------------------------------
(* LvmtDB implements AuthStore: the trees, the epoch cache and the rounds of
   commit do not show through get, commit, save and restart. *)
ValueOf(entry) == IF entry = Missing THEN Missing ELSE entry.value
BatchWrites == [j \in 1..Len(write_ops) |->
                  [key |-> write_ops[j].key, val |-> write_ops[j].val.value]]

Abstract == INSTANCE AuthStore WITH
  store   <- [k \in Keys |-> ValueOf(dbKey[k])],
  pending <- BatchWrites \o uncommitted,
  answer  <- answer,
  saved   <- [k \in Keys |-> ValueOf(saved.key[k])]

(* Every behaviour of LvmtDB is one of the abstract store. *)
ImplementsAuthStore == Abstract!Spec
==============================================================================
