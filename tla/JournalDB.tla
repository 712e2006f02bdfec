------------------------------ MODULE JournalDB ------------------------------
(***************************************************************************)
(* What the implementations of the trait JournalDB (parity-journaldb) have *)
(* in common: the layout of the backing and the batch that a commit builds *)
(* before it is written.  A commit is one journal_under, any number of     *)
(* mark_canonical, the write of the batch and flush; each is one step.     *)
(***************************************************************************)
EXTENDS JournalClient, MemoryDB

CONSTANTS
  NoEra,      \* latest_era: None
  NoRecord    \* no journal record under a database key

ASSUME JournalConstants ==
  /\ NoEra \notin Eras
  /\ NoRecord \notin [id : Blocks, insertions : SUBSET Keys, deletions : SUBSET Keys]
  /\ NoRecord \notin [id : Blocks, insertions : [Keys -> Nat], deletions : [Keys -> Nat]]

VARIABLES
  pc,     \* "idle", or how far a commit is
  batch,  \* the backing as the DBTransaction will leave it
  db      \* the backing

Indexes == 0..(MaxBlocks - 1)

(* Nodes, journal records under (era, index), latest era, and the flags that
   only EarlyMergeDB stores. *)
EmptyBacking(none) ==
  [nodes      |-> none,
   journal    |-> [e \in Eras |-> [i \in Indexes |-> NoRecord]],
   latest     |-> NoEra,
   already_in |-> {}]

(* What a block leaves in the journal. *)
Record(b, ins, del) == [id |-> b, insertions |-> ins, deletions |-> del]

(* The records stored for an era, from index 0 to the first gap. *)
StoredRecords(records) ==
  LET n == CHOOSE n \in 0..MaxBlocks :
             /\ \A i \in 0..(n - 1) : records[i] # NoRecord
             /\ n = MaxBlocks \/ records[n] = NoRecord
  IN [i \in 1..n |-> records[i - 1]]

(* Mutant of ErasRead: stops before it has read era 0. *)
ErasReadNotZero(b) ==
  {e \in Eras \ {0} : b.latest # NoEra /\ e <= b.latest
                       /\ \A f \in e..b.latest : b.journal[f][0] # NoRecord}

(* From the latest era down to the first one without a record. *)
ErasRead(b) ==
  {e \in Eras : b.latest # NoEra /\ e <= b.latest
                 /\ \A f \in e..b.latest : b.journal[f][0] # NoRecord}

(* The first index of an era without a record in the backing. *)
FreeIndex(e) == Len(StoredRecords(db.journal[e]))

(* No record of the era waits in the batch. *)
EraWritten(e) == batch.journal[e] = db.journal[e]

(* The era with no record left, the others as they are. *)
WithoutEra(journal, e) == [journal EXCEPT ![e] = [i \in Indexes |-> NoRecord]]

Latest(era, now) == IF era = NoEra \/ now > era THEN now ELSE era

(* backing().write(batch); next is the step that follows. *)
Written(next) ==
  /\ pc \in {"batch", "marked"}
  /\ Persisted
  /\ db' = batch
  /\ pc' = next
  /\ UNCHANGED batch

(* Without uncommitted changes the trie goes on from another block. *)
Switched(b) ==
  /\ pc = "idle"
  /\ Checkout(b)
  /\ UNCHANGED <<pc, batch, db>>

(* inject, and the write of its batch, before there is any block: the
   canonical state becomes the one built, and the backing becomes new. *)
Injected(new) ==
  /\ pc = "idle"
  /\ Journalled = {Genesis}
  /\ views' = [views EXCEPT ![Genesis] = work]
  /\ kept' = [kept EXCEPT !.views = views']
  /\ db' = new
  /\ batch' = new
  /\ UNCHANGED <<canon, tip, work, stray, pc>>

(* A new process opens what the backing holds. *)
Opened ==
  /\ ClientReopen
  /\ pc' = "idle"
  /\ batch' = db
  /\ UNCHANGED db

(* Every node of the state being built, and of every block that may still
   become canonical, is found. *)
NodesFound(found) ==
  /\ work \subseteq found
  /\ \A b \in Live : views[b] \cap (IF b = tip THEN work ELSE Keys) \subseteq found
==============================================================================
