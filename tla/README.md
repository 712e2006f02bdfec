# A TLA+ model of the authenticated-storage benchmark

The repository benchmarks authenticated key-value storages: LVMT (layered
version multi-point tree), a single AMT, Ethereum's MPT over parity's journal
databases, a RainBlock-style trie, and LMPTs. A driver (`benchmarks/`) feeds
epochs of reads and writes to an `AuthDB` and commits after each epoch; the
storages keep their state in a column-oriented backend.

The project models LVMT in most detail: it is the program's own contribution,
and its correctness rests on an interplay of marks, caches, incremental
commitments and two kinds of proofs that the tests hardly exercise (they run one
tree shape, without restart, shard or repeated write). Around it stand the
storages it is compared with (the four journal databases under the MPT, the
RainBlock trie), the backends below them and the driver and workloads above.

## Inventory

| Part | State | Operations | What makes it correct |
|---|---|---|---|
| `LvmtDB` (lvmt_db.rs) | queued writes, epoch cache, key column, Merkle column with the epoch number | get, set, commit, prove/verify, flush_root | it is a key-value store with epochs; stored keys can be proved; versions only advance |
| `VersionTree` (multi_layer_amt) | forest of AMTs, `mark_in_parent`, `children_marks`, node data, subtree roots | get_tree_mut, inc_key_ver, allocate_vacant_slot, commit_tree, flush_all | a commit reaches every written tree; a parent commits to its children; slots are exclusive |
| `AMTree` (amt) | leaves, inner proof nodes, commitment, dirty flag | write guard, update, flush, prove, verify | the incremental commitment and proofs are those of the leaf vector |
| `DBAccess` (storage) | cache entries with dirty flags | get, get_mut, set, flush_cache | nothing written is lost, nothing stale is read |
| `StaticMerkleTree` (merkle) | one tree per epoch in the Merkle column | dump, prove, verify | proofs hold for exactly the dumped leaves |
| AMT parameters (crypto) | two files, points in memory, caches of their multiples | from_dir, from_pp, get_idents_pow, get_quotient_pow, warm_quotient | quotients divide commitments at every depth; a half-written file is never used |
| `AmtDB` (single_amt) | one AMT and its root commitment | get, set, commit | as AMTree, with hashes as leaves |
| journal databases (parity-journaldb) | overlay, journal, reference counts, archive flags | insert/remove, journal_under, mark_canonical, inject, reopening | a node is deleted only when no live era needs it, and then it is; a restart rebuilds the counts |
| MPT store (mpt.rs) | trie root | get, set, commit, flush_all | root and nodes survive together |
| RainBlock trie | in-memory top levels, content-addressed nodes, pending deletions, weak lists of exiled and loaded nodes | get, put, del, commit, flush_all, new | no live node is deleted or dropped from memory unwritten; the root depends on the content only |
| backends | write buffers, locks | get, write_buffered, write, flush | a get misses nothing that its backend promises to show, buffered writes become durable in order, no deadlock |
| workloads (asb-tasks) | producer thread, bounded channel, group of blocks | warmup, tasks, next | blocks arrive in order, none lost; the run ends |
| driver (benchmarks) | database directory, saved warm-up | warm-up, epochs, restart | a restart finds what was saved |

Interaction: the driver calls the storage from one thread (`&mut self`), so
nothing interleaves with a commit. Threads meet at two places, the channel
between a workload's producer and the driver, and the backends, which are shared
(`Arc<dyn KeyValueDB>`, lock by lock). What is hard elsewhere is the sequence: each round of
the loops of `commit` reads what earlier rounds, earlier epochs, proofs,
flushes and restarts left in the marks, in three levels of caching and in the
database. A process may end at any point; the next one starts from the
directory saved after a warm-up, because `main` wipes the working directory.

## Modules

| Module | Models | Remarks |
|---|---|---|
| `Batch` | a `DBTransaction` of inserts | last write of a key wins |
| `AuthStore` | what a storage promises its caller | abstract specification |
| `VersionTree` | multi_layer_amt/tree.rs, node.rs, name.rs, key.rs | state and operations of the forest |
| `LvmtDB` | lvmt_db.rs, driven as run.rs and main.rs do | extends `VersionTree`; `Spec`, `FairSpec`, all LVMT properties |
| `LvmtProofs` | | theorems about `LvmtDB` in three parts: forest, store, slots |
| `CachedMap` | what a `DBAccess` promises | abstract specification |
| `DBAccess` | storage/access.rs, layout.rs | shown to implement `CachedMap` (theorems in `DBAccessProofs`) |
| `AMTree` | amt/tree.rs, node.rs, write_guard.rs | one tree with its inner proof nodes |
| `AMTParams` | crypto/prove_params.rs, power_tau.rs | the public parameters and their files; `MC_AMTree` composes it with `AMTree` (`AMTreeProofs` for both) |
| `StaticMerkle` | merkle/mod.rs | dump by levels against the recursive definition (`StaticMerkleProofs`) |
| `MemoryDB` | parity-journaldb/memory-db | signed reference counts, operators only |
| `JournalClient` | the MPT store (mpt.rs) and its trie, generalised to forks | which nodes each block needs |
| `JournalDB` | the trait JournalDB | backing, batch and the steps all four databases share |
| `OverlayRecentDB`, `EarlyMergeDB`, `RefCountedDB`, `ArchiveDB` | the files of these names, and overlaydb.rs | each extends `JournalDB` |
| `JournalDatabases` | `parity_journaldb::new` | one client with one of the four behind it (`JournalProofs`) |
| `RainTrie` | rainblock-trie | recursive operators on the trie, one action per call |
| `KvDatabase` | cfx-kvdb-rocksdb, parity_kvdb_rocksdb.rs, mdbx.rs | one action per lock operation (`KvProofs`) |
| `Workload` | asb-tasks, run.rs | driver, producer thread and channel (`WorkloadProofs`) |
| `NumberLemmas` | | facts about numbers, finite sets, recursive functions, folds and sums that the proofs share |
| `MC_LvmtDB`, `MC_AMTree`, `MC_JournalDatabases`, `MC_RainTrie`, `MC_Workload` | | constants of the instances |

### How the state corresponds to the code

*Commitments.* An AMT commitment is a sum of base points, one per index,
multiplied by the leaf values. It is linear and binding, so `VersionTree`
represents a commitment by the vector it commits to (per index, the six 40-bit
components of `as_fr_int`), and `AMTree` by one field element per index. An
update adds to one component, exactly where the code adds a multiple of one
base point. The pairing equation of `verify` becomes: the proof has the same
coefficients as the inner commitment and only for the leaves of that subtree.

*`DBAccess`.* `VersionTree` and `AMTree` have, for each `DBAccess`, a view
(`data`, `sub`, `inner`) and a durable copy (`dbData`, ...). `ImplementsCachedMap`,
checked by the run `dbaccess` and proved, justifies that reading.

*The commit.* One action per round: `CommitKnownKey`, `AllocateSkip` (a full
level), `CommitNewKey`, `AllocatePanic`, `CommitOneTree` (one return of the
recursion, children in the order of their indices, each before its parent),
`CommitEnd` (Merkle dump, epoch number, key batch, flush, cache). The batch is
applied in `CommitEnd`: in the code it is handed to the backend after the key
loop, but nothing reads the column between that point and the end, and a
process that ends there starts again from the saved directory.
`children_marks` loses a child when its call returns, while the code clears the
set after the loop over it; nothing reads the set in between.

*Buffered writes.* `FlushTree` puts a tree into `dbData` at once, although parity
and MDBX hide what is buffered until `CommitEnd` flushes the backend. That is sound
only if no round of the commit comes back to a tree it has flushed, whose cache is
empty: this is `FlushedTreesRest`. Between commits nothing is buffered.

*Panics* leave `pc = "panic"`, from which only a restart leads on.

*Restart* replaces the database by `saved`, the copy `run_tasks` takes after
`flush_all`, or the empty database.

*The journal database.* `OverlayRecentDB` has the code's fields; a node is
named by its hash, which determines its value, so that a value's length is 1
in `cumulative_size` and the twelve-byte prefix that the history uses as a key
is the key. `batch` is the `DBTransaction` as the backing it will leave. The
steps of a commit (journal_under, mark_canonical once or several times, write,
flush) are separate actions, because clones share the overlay and the cache:
reads come in between. A `get` is one step; its lookup and its insertion into
the read cache are not split.

`JournalClient` keeps what the properties compare with: the set of nodes each
block needs. It follows the trait's contract: a trie removes only nodes its
state has and inserts only nodes it lacks (a node at two places of one trie is
excluded, see the hazard at mpt.rs:78), blocks become canonical in the order of
their eras, and `inject` comes before any block. Forks are part of the contract
(traits.rs: "potentially containing many forks"); the MPT store itself commits
one chain. Uncommitted changes survive a mark_canonical only when they build on
the canonical block. With `RefCountedDB`, which adds its counts to those in the
backing and ignores the batch, at most one era is marked per written batch, and
a process ends only when nothing is in memory alone (see the hazards).

`EarlyMergeDB` treats every node by itself: `Cell` is a node's entry in `refs`,
its presence and its archive flag, and `InsertKey`, `RemoveKey` and `Finalise`
are the bodies of the loops over nodes. `MarkCanonical` folds them over the
records of the era in the order of their indices.

*The parameters.* A group element is its logarithm in a field of 17 elements, so
that a pairing is a product, and a field element is a number. `Partial` is a file
that a process has begun to write and that cannot be deserialised. An existing
file of powers may be of another depth (`from_dir_inner` cuts or refuses it). Its
last condition compares a depth with a length where it means two depths; it is
true for every usable file, and cutting a file to its own length changes nothing.

*The RainBlock trie.* A hash is the content it is computed from. A node carries
its `Commit` state; `Pending`, which a node is in only within `commit`, is left
out. `exile_nodes` and `loaded_node` hold weak pointers, so that an entry dies
when `make_mut` moves its node: they are marks on the node (`weak`). Sizes in
RLP decide which nodes are embedded and are computed from the lengths of keys and
values. The last part of `insert_on_branch`, for a child that is there, cannot be
reached: the search stops at a branch only where it has no child. `root`, `map`
and `committed` are compared: `map` is what the calls asked for.

*The backends.* The three persistent backends are one module with a field `kind`.
Actions of the RocksDB one are the stretches between two lock operations; the
guards that `get` keeps are those of the threads that are in it. Values are the
positions of the writes, so that "not older than" is `>=`. Direct writes
(`write`) concern keys of their own: a `write` that races a flush of the same key
may be overwritten by it, which the callers exclude by writing in one way only.
For parity and MDBX the model has one flushing thread at a time, as they take
their writes out without a lock. Their `get` sees no buffered write, so what it may
answer is compared with the last flush that had returned when it was called, and not
with the last write as for RocksDB (`ReadsFresh`, `start`). An MDBX `get` takes a
cursor of the open transaction under the lock and uses it after the lock
is gone (mdbx.rs:122). `CommitTxn` waits for no get: it turns those that hold a cursor
("get_txn") into gets of a transaction that has ended ("get_ended"), which fail.
The puts of a flush into the transaction are one step.

*The workload.* The storage is reduced to the keys it finds; a real trace to
blocks that have events or not. `producer` is "ended" when its thread has
returned, which closes the channel. The retries of the copy keep what earlier
attempts wrote, as the code does.

## Runs

| Run | Instance | Question |
|---|---|---|
| `lvmt_forest` | 3 keys that collide down to level 2, 1 slot per node, up to 2 writes per epoch (repeats allowed), 3 epochs, full proof data | forest invariants, slots, proofs, versions, immutability of epochs, no return to a flushed tree |
| `lvmt_store` | 2 keys, 2 values, reads, 2 epochs | `LvmtDB` implements `AuthStore` |
| `lvmt_limits` | 4 keys, 2 levels, version limit 1, half of the index space outside the proof shard, no repeats | commitments bind data, versions agree, every commit ends |
| `lvmt_repeat` | 2 keys, repeats | violation: stored version and AMT version differ |
| `dbaccess` | tree of 3 nodes, 2 values | `DBAccess` implements `CachedMap` |
| `amt` | depth 2, full tree and a shard of half, modulus 5; parameters of depth 3 over a field of 17 with every secret | inner nodes, clean trees, exactness of proofs; the pairing identities, cached multiples, parameter files |
| `merkle` | all lists of up to 7 leaves over 2 values | dump and proofs against the definition |
| `journal` | each of the 4 algorithms with 1 node, up to 2 blocks per parent, 3 eras, 4 blocks, restarts anywhere | live nodes can be read, a restart rebuilds the counts, nothing is left on disk, no assertion fails |
| `rain` | 5 keys that share prefixes of every length, 3 at a time, 2 changes per epoch, values shorter and longer than a hash, 2 and 3 top levels | canonical root, readable and durable nodes, no garbage |
| `rain_truncate` | the same, with deletions after reads | violation: a node is dropped from memory unwritten |
| `kvdb` | 2 threads, 2 buffered keys and a direct one, 3 writes, each backend, restarts anywhere | what a get may miss and when it fails, durability, order, no deadlock |
| `workload` | 3 keys, batches of 2, 4 traces, groups of 2, all options | order and completeness of the replay, warm-up, termination |

Why the bounds are enough. Two indices per AMT and one slot per node make a
second key descend one level and a third two, so that all of the walk of
`get_tree_mut` happens: unmarked, partly marked and unloaded ancestors, after a
restart as well. Three epochs allow a tree to be written, committed, left
alone and written again. In `lvmt_limits` the key paths coincide on both
levels, so that the third key exhausts them (`AllocatePanic`), and a second
write reaches the version limit. Depth 2 is the least at which bit reversal
differs from the identity; the modulus 5 in words of 8 leaves a Montgomery
radix different from 0 and 1. Seven leaves give odd levels at every height.
The
journal databases treat each node by itself, so one node shows every interplay of
insertions and removals; three eras with forks let a block remove a node, a
competing or later block insert it again, and either of them become canonical
or be abandoned. Blocks with one parent are symmetric. With three of the five keys
the trie has branches, extensions and leaves at four depths, keys that end in a
branch, and extensions that are split, joined and moved across the border of the
top levels. Two threads are the fewest that can meet; three writes let one be
flushed, one be in flushing and one in the overlay. Traces end within and at
group boundaries, and have files and groups without events.

`RepeatWrites = FALSE` in `lvmt_limits` and `DelAfterLoad = FALSE` in `rain` keep
these two runs away from the disagreements below, which `lvmt_repeat` and
`rain_truncate` show. The other LVMT runs allow repeats.

For OverlayRecentDB, `BackingExact` has to except nodes that an abandoned block had inserted:
mark_canonical skips the removal of a node that the history inserts again, and
when the block that does is abandoned later, the node stays on disk for good.

Fairness. `FairSpec` adds weak fairness of `CommitStep` only: a commit that was
called runs in its caller's thread and waits for nobody. No fairness is assumed
of calls, saves or restarts. `CommitTerminates` then says that every commit
returns or panics.

In `KvDatabase` each thread's steps are strongly fair: a call waits only for locks,
and those of parking_lot are handed on fairly (a waiting writer keeps new readers
out), so that a thread that can go on again and again does. No call is assumed
to be made. `CallsReturn` says that every one returns. In `Workload` the driver
and the producer are weakly fair, each being a thread of its own; `Timeout` and
starting another process are not counted on, so that `RunEnds` holds
although nobody times out.

`CHECK_DEADLOCK` is on in every run.

### Disagreements found

* `lvmt_repeat`: a key written twice in one epoch is given version v+1 twice
  while its AMT slot moves by 2 (a new key even takes two slots). `verify` does
  not notice because it never compares the version of the value with the slot.
  The random workload does repeat keys within an epoch.
* `rain_truncate`: a node changed in this epoch, below which a `get` then loaded a
  child, is listed in `loaded_node`. If a deletion moves it into the top levels,
  `commit` truncates it although its changed child, now a top-level node, was not
  written: the next `get` panics with "Hash not found".

Seen while modelling, without a run:

* On a borrow the write guard adds the Montgomery radix where the modulus is
  needed (write_guard.rs:43). LVMT's versions only grow; the single AMT, whose
  leaves are hashes, would be affected if its index function did not panic.
* Leaf data is kept for a shard by natural index (tree.rs:132 of the forest),
  inner nodes by bit-reversed index (amt/tree.rs:159): the leaves whose values
  are kept are not those whose inner nodes are.
* `inject` of OverlayRecentDB leaves the read cache stale (overlayrecentdb.rs:553).
  The model injects only before anything is read. Nothing in the program injects.
* `--max-epoch n` runs n-1 epochs (run.rs:85), and the blocks of a trace file are
  replayed last to first (real_trace.rs:90); `Replay` states the latter order.
* The trie's `get` of an absent key that ends at a branch answers an empty value
  (`value` of the branch), not none.
* An exiled node that is small is written under its hash although it is embedded,
  and never deleted; `NoGarbage` excepts it.
* A trie committed without `flush_all` cannot be opened again: the top levels are
  missing under the root key that commit wrote.
* An MDBX `get` whose transaction another thread's flush commits between its two
  steps fails (mdbx.rs:122), and its callers unwrap; the benchmark calls from one thread.
* A flush that fails in RocksDB leaves its writes in `flushing`, and the next one
  swaps them back over newer values.

## Proofs

The theorems hold for every value of the constants that satisfies the named
assumptions; TLC evaluates these in every run. Each theorem `Spec => []P` rests
on an inductive invariant of which the runs' property `P` is a part or a
consequence. Every property of a passing run is checked by TLC on the instance of
that run as well.

### The LVMT store

`LvmtDB` is proved in layers. Each layer adds a conjunct to the invariant and
uses those below it; the numbers of keys, levels, slots, indices, values and
epochs and the paths of the keys are arbitrary (`ForestConstants`,
`StoreConstants`; `EntryConstants` says that the markers for a missing and an
uncached entry are not entries).

| Invariant | What it adds | Theorems |
|---|---|---|
| `IndInv` | types; marks, `children_marks`, dirty flags and loaded trees fit together; the database lacks only marked trees | `TypeCorrect`, `DirtyTreesReached` (`DirtyReachable`), `TreesLoaded` (`MarkedTreesLoaded`), `CommitFlushes` (`OnlyRootUnflushed`), `FlushedTreesAreLeft` (`FlushedTreesRest`) |
| `StoreInv` | a cached entry is the stored one; a commit starts with empty batches; a batch entry is one version above the stored one, in its slot | `StoreRefinesAuthStore` (`ImplementsAuthStore`), `MerkleTreesStay` (`EpochsImmutable`), `KeysKeepSlots` (`VersionsAdvance`) |
| `CommitInv` | a tree that is not in memory has no commitment of its own; every commitment is that of its nodes, in the saved directory too | `ParentsCommitToChildren` (`CommitmentsLinked`), `CommitmentsBind` (`CommitmentBindsData`) |
| `SlotInv` | slots of stored keys, of the batch and of the saved directory are taken, exclusive and below full levels; `allocate_vacant_slot` has passed full levels only | `SlotsAreExclusive` (`SlotsExclusive`), `UpperLevelsFull` (`ShallowLevelsFull`) |
| `VersionInv` | a slot that no key holds has version 0; the version of a slot is that of its key | `VersionsAgree` (`VersionAgreement`) |
| `ProofInv` | the leaf of the latest write of each key, and of the latest record of each tree, is in the Merkle tree of its epoch or among the leaves gathered so far | `StoredKeysVerify` (`ProofsVerify`) |

Why the first layer is needed: `DirtyReachable` speaks of dirty trees, but
`get_tree_mut` stops at a *marked* ancestor, so what has to be preserved is that
every marked tree is linked to the root (`ChainOK`), that marks and
`children_marks` agree (`KidsOK`), that dirty trees are marked (`DirtyOK`) and
that marked trees are loaded (`LoadedOK`). `OnlyRootUnflushed` speaks of the idle
state; during a commit the database may lack exactly the marked trees
(`FlushInv`), and when the root's call returns no mark is left below the root.

The argument goes by operation: `GetTreeMut` restores the chain for the tree it
returns (the walk stops where the chain holds already), `IncKeyVer` dirties
only that tree, `CommitTree` removes one leaf of the mark tree and dirties only
its parent, which is marked. Then one lemma per action of `LvmtDB`. The later
layers follow the same pattern: what an operation does to one tree, then one step
per action. A restart replaces the store by the saved directory, so every layer
says of the saved directory what it says of the store.

The refinement maps the abstract pending writes to those still queued behind the
batch of the running commit. A round of the key loop moves a write from the queue
to the batch, which the abstract store does not see; `CommitEnd` is the abstract
commit, where the last write of a key in the batch wins (`BatchValues`).

`VersionsAgree` has the hypothesis `~RepeatWrites`: no key is written twice
between two commits. Without it the code breaks the property, as the run
`lvmt_repeat` shows. All other LVMT theorems hold with and without repeats.

### DBAccess

`AccessIsCachedMap` and `CleanEntries` hold for a layout of any depth. The heart
is that `FlattenTree::position` places no two nodes at one position: the nodes of
depth d fill 2^d .. 2^(d+1)-1. `AccessConstants` asks that the default value is a
value and that the marker for a vacant entry is none.

### The backends

`GetIsFresh`, `FlushIsDurable` and `DiskIsPrefix` hold for any number of threads,
keys and writes. `GetIsFresh` says something else of each backend: a RocksDB get
misses no write made before the call; one of parity or MDBX misses nothing that a
flush had made durable before the call, and may miss what was only buffered; an
MDBX get may also fail, under the commit of another thread. The invariant `KvInv` orders
the copies of a key by the positions of their writes: the newest of overlay,
flushing and disk is the last write (`Contents`). A get that went past a map
still holds its guard, so that the key is still not in it (`Passed`); the swap
waits for these readers (`OneFlush`); what a call found written is not lost on
the way to the disk (`Kept`). `KvConstants` keeps buffered and direct keys apart,
as the callers do, and markers apart from values.

### One AMT

`InnerNodesFollow` and `CleanTreesAreStored` hold for every depth, field, set of
shard roots and width of a leaf, whether or not leaves decrease. The invariant says of
the database what it says of the tree in memory, because a restart goes back to
the stored pair of inner nodes and commitment.

`ProofsAreExact` is the correctness of prove and verify at every depth. It needs
what `bitreverse` and the sum over a proof compute, which are recursive functions:
`NumberLemmas` proves that such functions exist and gives induction up to a bound
for a *set* of numbers, so that no operator has to be a parameter. Then: the node
on the way to leaf i at depth d has as its index the lower d bits of i reversed
(`WayUp`), two leaves share their way exactly if these bits agree (`WaysMeet`),
the sibling at depth d covers the leaves that `get_sibling_verification` checks
(`SiblingCovers`), and the siblings down to depth d cover the leaves that have left
the way by then (`SumOfSiblings`). The hypothesis `~MayDecrease` is that of LVMT,
whose leaves are versions: on a borrow the write guard adds the wrong constant
(see above).

### The public parameters

`FilesAgree`, `ProductsAreExact` and `IdentitiesHold` hold for every depth, field,
secret and scalar. `FilesInv` follows the two files from process to process: a
file of parameters that can be read was computed from the powers that are on disk,
powers are replaced only while no complete file of parameters exists, and both
groups of a readable file have powers of one secret. `CachesInv` says that every
cached multiple is filed under its own point, those of `warm_quotient` included.

`IdentitiesHold` is the algebra behind `verify`. The inverse transform of the powers
of the secret gives the commitment of an index as a sum over all powers of one
product (`CommitmentIs`, `FftIs`), a geometric progression. At depth d the quotient,
which the code takes from the forward transform of the reversed coefficients, is a
power of the root times the first m terms of it, m being 2^depth / 2^d
(`QuotientIs`), and the verification point is the inverse power times every m-th term
(`VerificationIs`). The sum of the progression is the product of the sum of its first
m terms with the sum of every m-th (`RunningPieces`), and the powers of the root
cancel (`PointsFit`). The argument needs that the root is of order 2^depth and
that it and the size of the domain have inverses (`ParamsConstants`,
`RootConstants`); that the order of the field is prime is not used.
`FileConstants` says that a file with powers is not taken for a missing one.

`ComposedTree` transfers what is proved of `AMTree` to the composition.

### The Merkle trees

`DumpIsExact` and `ProofsAreExact` hold for every number of leaves and whatever the
leaves are. While `dump` runs, the current level is a row of the reference tree
without its padding, and the rows below it are stored and no others (`MerkleInv`).
The row of height h has the leaves divided by 2^h, rounded up, as its width; padding
and halving commute. `VerifyExact` climbs from a leaf: the hash that `verify` has
after h steps is the node of the reference tree if the leaf is the dumped one, and
differs from it in every step if it is not, because the model's hashes are
injective. That a leaf is no inner node and no padding is by the form of
`LeafHash` and `CombineHash`; an injective hash is what the model assumes of Keccak.

### The journal databases

`NothingIsLost`, `MemoryIsReconstructed`, `BackingIsPruned` and
`AssertionsNeverFail` hold for any number of nodes, eras and records per era and
for all forks. All four invariants (`OverlayRecentInv`, `EarlyMergeInv`,
`RefCountedInv`, `ArchiveInv`) derive what a database holds from the *blocks*: with
`views` the nodes each block needs, the journal has one record per block above the
canonical one, at indices without a gap (`JournalOK`), and

* in `OverlayRecentDB` the overlay counts how many of these blocks add each node,
  and the backing has the canonical nodes, and beyond them only strays and nodes
  that some block above adds. What a mark adds stays in `pending_overlay` until
  the batch is written (`batch.nodes` lies within the backing and it);
* in `EarlyMergeDB` a node's entry in `refs` is the number of blocks that add it and
  whether the canonical state has it, it is stored exactly if one of the two holds
  and flagged exactly if both do (`Merged`);
* in `RefCountedDB` the references of a node on disk or in the batch, plus those in
  memory, are 1 if the canonical state has it, plus its insertions in all journalled
  records and in the state being built (`Balanced`). The insertions of one
  block are a part of that sum, so that a removal never takes more than there is;
* in `ArchiveDB` every block's nodes are there.

The database part of each invariant is stated twice, of the batch with the current
blocks and of the backing with `kept`, the blocks it knows: a restart replaces the
first by the second. `MarkCanonical` of `EarlyMergeDB` folds over the records of an era: the proof
takes them one by one, in their order, and says after each what the node's entry
is. That of `RefCountedDB` sums over them. The canonical block's record moves its nodes to the backing, those
of its rivals and, through `Extends`, of everything built on them disappear.

What a restart may meet, forks, the contract of the trie and the limits named above for
`RefCountedDB` are part of the model, not hypotheses of the theorems.
The assumptions are that nodes are finitely many and that the markers (`NoView`,
`NoEra`, `NoRecord`, `Uncached`) are none of the values they are told from.

One defect of the model itself showed only in these proofs: two guards of the CASE
that applies a record of `EarlyMergeDB` overlapped, so that its value was whichever
branch TLC took first. The code is an if/else chain and the branches are now
exclusive; a CASE of `RainTrie` had the same flaw.

### The workload

`WarmKeysAreFound`: the warm-up iterator ends only when it has handed out all
keys, the last batch included (`WarmupExhausts`; this needs the set of keys to be
finite); a copy that succeeds is complete although others failed before; and the
random workload's producer outlives its iterator, so that every epoch has one batch
of keys.

`TracesAreInOrder` and `TracesAreComplete` hold for all traces, sizes of
groups and capacities. `Along` places a run in its trace: with m files taken
from the channel, what was replayed, the group being gathered and the rest of the
file, reversed, make up the first m files of `Replay`, and the channel holds the
files from m + 1 on. A pick that fails does so only when producer, channel and
file are at their end, so that a group that is too short is the last one. The
trace must have no file without a block (`WorkloadConstants`): the code pops from
a file it just received. No theorem uses fairness.

### Numbers, functions and folds

Induction over data is out of the prover's reach, because it takes a predicate as
a parameter. `NumberLemmas` states it for *sets*: a set that has 0 and with each
number the next one, up to a bound, has them all (`InductionTo`), and likewise for
the subsets of a finite set. With these it proves that recursive functions on 0..n
exist, what the community modules' folds and sums compute (`SumOverIs`,
`SumOverNumbers`), that sums can be split and multiplied, and arithmetic modulo a
number (`Same`), which the solver does not do by itself.

### Only model-checked

* Liveness: `CommitTerminates`, `CallsReturn` and `RunEnds`. They rest on fairness,
  for which the prover has no rules.
* `RainTrie` (`Canonical`, `Readable`, `Durable`, `NoGarbage`): its operators on
  nested nodes are RECURSIVE, which the prover's arithmetic and set solver refuses,
  and what they compute is an induction over the trie.

All other invariants and action properties of the passing runs are theorems.

## Not modelled

Curve arithmetic, serialisation, statistics, command line, profiling and reports:
no state, or only I/O. `Key::mid` is the constant `Path`. The 40-bit width of
`tree_version` is not modelled (key versions have their limit, `MaxVersion`): the
number of epochs it takes to wrap is out of reach. Of `AmtDB`, the hashing of
values and the key-to-index conversion, which panics for every size the program
offers. `consolidate`, `revert` and the debugging views of the journal databases.
Of the backends, failed writes and repair, close and restore, adding and dropping
columns, iterators and the in-memory database. The LMPTs storage and Ethereum's
TrieDBMut are external crates. ppot2ark converts files offline.

## Plan

1. Done: `AuthStore`, `VersionTree`, `LvmtDB`, `DBAccess`, `AMTree`,
   `StaticMerkle`, their runs, and the inductive invariant of the forest.
2. Done: the four journal databases under one client, `RainTrie`, `KvDatabase`,
   `Workload`, `AMTParams`.
3. Done: proofs of the safety properties of `LvmtDB`, `DBAccess`, `KvDatabase` and
   `AMTree`, both refinements, and the warm-up of `Workload`.
4. Done: proofs of the safety properties of `StaticMerkle`, the four journal
   databases, the public parameters and the replay of real traces.
5. Left: `RainTrie`. A proof would need its operators as functions on the tries of
   each height, and an induction over that height for each of insertion,
   deletion and commit. The parts named under "Not modelled".
