----------------------------- MODULE EarlyMergeDB ----------------------------
(***************************************************************************)
(* EarlyMergeDB (parity-journaldb/src/earlymergedb.rs).  Nodes go to the   *)
(* backing when a block is journalled.  For every node that some block in  *)
(* the journal inserts, refs counts those insertions and remembers whether *)
(* the node belongs to the canonical state as well (in_archive); a flag in *)
(* the backing makes the latter durable.  Nodes of abandoned blocks are    *)
(* taken out again.                                                        *)
(***************************************************************************)
EXTENDS JournalDB

Seqs == INSTANCE SequencesExt

VARIABLES
  overlay,    \* counts of the changes not journalled yet
  refs,       \* RefInfo of each node, or Untracked
  latest_era

ownVars == <<overlay, refs, latest_era>>

Clean == overlay = EmptyMemory(Keys)

(* No entry in refs. *)
Untracked == [queue_refs |-> 0, in_archive |-> FALSE]
Tracked(n, archived) == [queue_refs |-> n, in_archive |-> archived]

(* What the operations below read and change for one node: its entry, and
   its value and its flag as the batch will leave them. *)
Cell(k) ==
  [info |-> refs[k], stored |-> k \in batch.nodes, flag |-> k \in batch.already_in]

(* insert_keys for one key; inDb: the backing has it. *)
InsertKey(c, inDb) ==
  IF c.info # Untracked
    THEN [c EXCEPT !.info.queue_refs = c.info.queue_refs + 1]
    ELSE [info |-> Tracked(1, inDb), stored |-> TRUE, flag |-> c.flag \/ inDb]

(* The assertion of insert_keys: no flag is left of a node that is gone. *)
NoStaleFlag(k) == refs[k] = Untracked /\ k \notin db.nodes => k \notin db.already_in

(* Mutant of RemoveKey: the flag stays in the backing. *)
RemoveKeyKeepsFlag(c, from) ==
  CASE c.info = Untracked                          -> [c EXCEPT !.stored = FALSE]
    [] c.info.in_archive /\ from = "Archive"       -> [c EXCEPT !.info.in_archive = FALSE]
    [] c.info.queue_refs > 1 /\ ~(c.info.in_archive /\ from = "Archive")
                                                   -> [c EXCEPT !.info.queue_refs = c.info.queue_refs - 1]
    [] c.info = Tracked(1, TRUE) /\ from = "Queue" -> [c EXCEPT !.info = Untracked]
    [] c.info = Tracked(1, FALSE)                  -> [c EXCEPT !.info = Untracked, !.stored = FALSE]

(* remove_keys for one key. *)
RemoveKey(c, from) ==
  CASE c.info = Untracked                          -> [c EXCEPT !.stored = FALSE]
    [] c.info.in_archive /\ from = "Archive"       -> [c EXCEPT !.info.in_archive = FALSE, !.flag = FALSE]
    [] c.info.queue_refs > 1 /\ ~(c.info.in_archive /\ from = "Archive")
                                                   -> [c EXCEPT !.info.queue_refs = c.info.queue_refs - 1]
    [] c.info = Tracked(1, TRUE) /\ from = "Queue" -> [c EXCEPT !.info = Untracked, !.flag = FALSE]
    [] c.info = Tracked(1, FALSE)                  -> [c EXCEPT !.info = Untracked, !.stored = FALSE]

(* Mutant of Finalise: a node that other blocks insert too is forgotten. *)
FinaliseAll(c) == [c EXCEPT !.info = IF c.info.in_archive THEN c.info ELSE Untracked]

(* An insertion of the canonical block moves from the queue to the archive. *)
Finalise(c) ==
  CASE c.info = Untracked \/ c.info.in_archive -> c
    [] c.info = Tracked(1, FALSE)              -> [c EXCEPT !.info = Untracked]
    [] OTHER -> [c EXCEPT !.info = Tracked(c.info.queue_refs - 1, TRUE), !.flag = TRUE]

(* One record of the era whose canonical block is id. *)
ApplyRecord(c, k, r, id) ==
  LET enacted == IF k \in r.deletions THEN RemoveKey(c, "Archive") ELSE c
  IN CASE r.id = id /\ k \in r.insertions    -> Finalise(enacted)
       [] r.id = id /\ k \notin r.insertions -> enacted
       [] r.id # id /\ k \in r.insertions    -> RemoveKey(c, "Queue")
       [] OTHER                              -> c

(* The nodes change as cells says; the journal and its latest era change too. *)
Apply(cells, journal, latest) ==
  /\ refs' = [k \in Keys |-> cells[k].info]
  /\ latest_era' = latest
  /\ batch' = [nodes      |-> {k \in Keys : cells[k].stored},
               journal    |-> journal,
               latest     |-> latest,
               already_in |-> {k \in Keys : cells[k].flag}]

(* read_refs: the insertions of the records, and the flags. *)
ReadRefs(b) ==
  LET places == {p \in ErasRead(b) \X Indexes : p[2] < Len(StoredRecords(b.journal[p[1]]))}
      inserting(k) == {p \in places : k \in b.journal[p[1]][p[2]].insertions}
  IN [k \in Keys |-> IF inserting(k) = {} THEN Untracked
                     ELSE Tracked(Cardinality(inserting(k)), k \in b.already_in)]

Init ==
  /\ ClientInit
  /\ pc = "idle"
  /\ db = EmptyBacking({})
  /\ batch = db
  /\ overlay = EmptyMemory(Keys)
  /\ refs = ReadRefs(db)
  /\ latest_era = db.latest

------------------------------------------------------------------------------
Insert(k) ==
  /\ pc = "idle"
  /\ AddNode(k)
  /\ overlay' = Emplace(overlay, k)
  /\ UNCHANGED <<pc, batch, db, refs, latest_era>>

Remove(k) ==
  /\ pc = "idle"
  /\ DropNode(k)
  /\ overlay' = RemoveRef(overlay, k)
  /\ UNCHANGED <<pc, batch, db, refs, latest_era>>

SwitchTo(b) ==
  /\ Clean
  /\ Switched(b)
  /\ UNCHANGED ownVars

(* The answer of get. *)
Found(k) == Contains(overlay, k) \/ k \in db.nodes

JournalUnder(id) ==
  LET b      == Append(tip, id)
      now    == Era(b)
      ins    == Inserted(overlay)
      record == Record(b, ins, Removed(overlay))
  IN /\ pc = "idle"
     /\ AddBlock(b)
     /\ Apply([k \in Keys |-> IF k \in ins THEN InsertKey(Cell(k), k \in db.nodes) ELSE Cell(k)],
              [batch.journal EXCEPT ![now][FreeIndex(now)] = record],
              Latest(latest_era, now))
     /\ overlay' = EmptyMemory(Keys)
     /\ pc' = IF \A k \in ins : NoStaleFlag(k) THEN "batch" ELSE "panic"
     /\ UNCHANGED db

(* The records are looked up in the backing: the era must be written. *)
MarkCanonical(c) ==
  LET records == StoredRecords(db.journal[Era(c)])
      applied(k) == Seqs!FoldLeft(LAMBDA cell, r : ApplyRecord(cell, k, r, c), Cell(k), records)
  IN /\ pc \in {"idle", "batch", "marked"}
     /\ CanonicalNext(c, Clean)
     /\ EraWritten(Era(c))
     /\ AddCanonical(c, {})
     /\ Apply([k \in Keys |-> applied(k)], WithoutEra(batch.journal, Era(c)), latest_era)
     /\ pc' = "marked"
     /\ UNCHANGED <<db, overlay>>

WriteBatch ==
  /\ Written("idle")
  /\ UNCHANGED ownVars

(* inject fails if a node to insert is there or one to remove is not. *)
Injectable == Inserted(overlay) \cap db.nodes = {} /\ Removed(overlay) \subseteq db.nodes

Inject ==
  /\ Injectable
  /\ Injected([db EXCEPT !.nodes = (db.nodes \cup Inserted(overlay)) \ Removed(overlay)])
  /\ overlay' = EmptyMemory(Keys)
  /\ UNCHANGED <<refs, latest_era>>

(* The process ends at any point and the database is opened again. *)
Reopen ==
  /\ Opened
  /\ overlay' = EmptyMemory(Keys)
  /\ refs' = ReadRefs(db)
  /\ latest_era' = db.latest
------------------------------------------------------------------------------
(* Once a batch is written, and after every restart, no node of a block that
   may still become canonical is missing. *)
LiveReadable == pc \in {"batch", "marked"} \/ NodesFound({k \in Keys : Found(k)})

(* can_reconstruct_refs: between commits the counts and the archive flags in
   memory are those a new process would read. *)
RefsReconstruct == pc = "idle" => ReadRefs(db) = refs /\ db.latest = latest_era

(* Between commits the backing has exactly the nodes of the canonical state and
   those that a block in the journal inserts: nothing of an abandoned block
   stays, and no insertion is still needed once a later block undid it. *)
BackingExact ==
  pc = "idle" =>
    db.nodes = views[canon] \cup {k \in Keys : refs[k] # Untracked}

(* insert_keys never meets a flag that outlived its journal record, and inject
   never fails on a state that a trie can have built. *)
AssertionsHold == pc # "panic" /\ (pc = "idle" /\ Journalled = {Genesis} => Injectable)
==============================================================================
