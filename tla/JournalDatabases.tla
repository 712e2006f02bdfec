-------------------------- MODULE JournalDatabases ---------------------------
(***************************************************************************)
(* parity_journaldb::new (parity-journaldb/src/lib.rs): one trait object   *)
(* with one of four algorithms behind it, used by the same client.         *)
(***************************************************************************)
EXTENDS JournalDB

CONSTANTS Uncached, MaxListed,
  Algorithms,   \* the algorithms that are checked
  Unused        \* a field that the chosen database does not have

ASSUME DatabaseConstants == Uncached \notin BOOLEAN

VARIABLES
  algorithm,
  memory,       \* changes in memory: transaction_overlay, overlay or forward
  overlay, read_cache,          \* of OverlayRecentDB
  refs,                         \* of EarlyMergeDB
  inserts, removes,             \* of RefCountedDB
  latest_era

vars == <<clientVars, pc, batch, db, algorithm, memory, overlay, read_cache,
          refs, inserts, removes, latest_era>>

OverlayRecent == INSTANCE OverlayRecentDB WITH transaction_overlay <- memory
EarlyMerge == INSTANCE EarlyMergeDB WITH overlay <- memory
RefCounted == INSTANCE RefCountedDB WITH forward <- memory
Archive == INSTANCE ArchiveDB WITH overlay <- memory

(* The fields of the other databases. *)
NotOverlayRecent == <<algorithm, refs, inserts, removes, latest_era>>
NotEarlyMerge == <<algorithm, overlay, read_cache, inserts, removes>>
NotRefCounted == <<algorithm, overlay, read_cache, refs>>
NotArchive == <<algorithm, overlay, read_cache, refs, inserts, removes>>

Init ==
  /\ algorithm \in Algorithms
  /\ \/ /\ algorithm = "OverlayRecent" /\ OverlayRecent!Init
        /\ refs = Unused /\ inserts = Unused /\ removes = Unused /\ latest_era = Unused
     \/ /\ algorithm = "EarlyMerge" /\ EarlyMerge!Init
        /\ overlay = Unused /\ read_cache = Unused /\ inserts = Unused /\ removes = Unused
     \/ /\ algorithm = "RefCounted" /\ RefCounted!Init
        /\ overlay = Unused /\ read_cache = Unused /\ refs = Unused
     \/ /\ algorithm = "Archive" /\ Archive!Init
        /\ overlay = Unused /\ read_cache = Unused /\ refs = Unused /\ inserts = Unused /\ removes = Unused

NextOverlayRecent ==
  /\ algorithm = "OverlayRecent"
  /\ UNCHANGED NotOverlayRecent
  /\ \/ \E k \in Keys : OverlayRecent!Insert(k)
     \/ \E k \in Keys : OverlayRecent!Remove(k)
     \/ \E k \in Keys : OverlayRecent!Get(k)
     \/ \E b \in Blocks : OverlayRecent!SwitchTo(b)
     \/ \E id \in Ids : OverlayRecent!JournalUnder(id)
     \/ \E c \in Blocks : OverlayRecent!MarkCanonical(c)
     \/ OverlayRecent!WriteBatch
     \/ OverlayRecent!Flush
     \/ OverlayRecent!Inject
     \/ OverlayRecent!Reopen

NextEarlyMerge ==
  /\ algorithm = "EarlyMerge"
  /\ UNCHANGED NotEarlyMerge
  /\ \/ \E k \in Keys : EarlyMerge!Insert(k)
     \/ \E k \in Keys : EarlyMerge!Remove(k)
     \/ \E b \in Blocks : EarlyMerge!SwitchTo(b)
     \/ \E id \in Ids : EarlyMerge!JournalUnder(id)
     \/ \E c \in Blocks : EarlyMerge!MarkCanonical(c)
     \/ EarlyMerge!WriteBatch
     \/ EarlyMerge!Inject
     \/ EarlyMerge!Reopen

NextRefCounted ==
  /\ algorithm = "RefCounted"
  /\ UNCHANGED NotRefCounted
  /\ \/ \E k \in Keys : RefCounted!Insert(k)
     \/ \E k \in Keys : RefCounted!Remove(k)
     \/ \E b \in Blocks : RefCounted!SwitchTo(b)
     \/ \E id \in Ids : RefCounted!JournalUnder(id)
     \/ \E c \in Blocks : RefCounted!MarkCanonical(c)
     \/ RefCounted!WriteBatch
     \/ RefCounted!Inject
     \/ RefCounted!Reopen

NextArchive ==
  /\ algorithm = "Archive"
  /\ UNCHANGED NotArchive
  /\ \/ \E k \in Keys : Archive!Insert(k)
     \/ \E k \in Keys : Archive!Remove(k)
     \/ \E b \in Blocks : Archive!SwitchTo(b)
     \/ \E id \in Ids : Archive!JournalUnder(id)
     \/ \E c \in Blocks : Archive!MarkCanonical(c)
     \/ Archive!WriteBatch
     \/ Archive!Inject
     \/ Archive!Reopen

Next == NextOverlayRecent \/ NextEarlyMerge \/ NextRefCounted \/ NextArchive

Spec == Init /\ [][Next]_vars
------------------------------------------------------------------------------
(* No node of a block that may still become canonical is lost: at every step
   of a commit with OverlayRecentDB, once a batch is written with the others,
   after every restart, and whatever was read before. *)
LiveReadable ==
  CASE algorithm = "OverlayRecent" -> OverlayRecent!LiveReadable
    [] algorithm = "EarlyMerge"    -> EarlyMerge!LiveReadable
    [] algorithm = "RefCounted"    -> RefCounted!LiveReadable
    [] algorithm = "Archive"       -> Archive!EveryStateReadable

(* can_reconstruct_refs: between commits a database has in memory what a new
   process would read from the journal: OverlayRecentDB its overlay,
   EarlyMergeDB its reference counts and archive flags. *)
Reconstructs ==
  /\ algorithm = "OverlayRecent" => OverlayRecent!OverlayReconstructs
  /\ algorithm = "EarlyMerge" => EarlyMerge!RefsReconstruct

(* Nothing is left on disk for ever.  OverlayRecentDB keeps, when its history is
   empty, the nodes of the canonical state and beyond them only what an abandoned
   block inserted; EarlyMergeDB exactly the canonical state and the nodes that
   blocks of the journal insert; the counts of RefCountedDB are those of the
   canonical state, the journal and the state being built. *)
BackingExact ==
  /\ algorithm = "OverlayRecent" => OverlayRecent!BackingPruned
  /\ algorithm = "EarlyMerge" => EarlyMerge!BackingExact
  /\ algorithm = "RefCounted" => RefCounted!CountsExact

(* The assertions of journal_under and the errors of commit_to_batch and inject
   are out of reach of a trie that keeps to the contract. *)
NothingFails ==
  /\ algorithm = "EarlyMerge" => EarlyMerge!AssertionsHold
  /\ algorithm = "RefCounted" => RefCounted!CountsSuffice
==============================================================================
