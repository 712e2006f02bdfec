----------------------------- MODULE RefCountedDB ----------------------------
(***************************************************************************)
(* RefCountedDB over OverlayDB (parity-journaldb/src/refcounteddb.rs and   *)
(* overlaydb.rs).  Nodes are stored with a reference count.  An insertion  *)
(* counts at once, in the overlay in memory; a removal is only listed, and *)
(* counts when its block becomes canonical.  The insertions of abandoned   *)
(* blocks are taken back.  The overlay is added to the counts on disk by   *)
(* mark_canonical and not by journal_under.                                *)
(***************************************************************************)
EXTENDS JournalDB

Sets == INSTANCE FiniteSetsExt

CONSTANTS
  MaxListed    \* bound: insertions of one node in one block

VARIABLES
  forward,     \* the overlay of OverlayDB: changes of the counts on disk
  inserts,     \* how often each node was inserted since the last block
  removes,     \* how often each node was removed since the last block
  latest_era

ownVars == <<forward, inserts, removes, latest_era>>

None == EmptyMemory(Keys)
Clean == inserts = None /\ removes = None

Init ==
  /\ ClientInit
  /\ pc = "idle"
  /\ db = EmptyBacking(None)
  /\ batch = db
  /\ forward = None
  /\ inserts = None
  /\ removes = None
  /\ latest_era = db.latest

------------------------------------------------------------------------------
(* OverlayDB: get, and commit_to_batch with its error.  The counts are those
   of the backing, not of the batch. *)

Found(k) ==
  \/ Contains(forward, k)
  \/ db.nodes[k] > 0 /\ db.nodes[k] + forward[k] > 0

CommitFails(overlay) == \E k \in Keys : db.nodes[k] + overlay[k] < 0

CommitToBatch(overlay) ==
  [k \in Keys |-> IF overlay[k] = 0 THEN batch.nodes[k] ELSE db.nodes[k] + overlay[k]]

------------------------------------------------------------------------------
(* Bound: a state is built only where it can still become a block. *)
Journable ==
  /\ Cardinality(Journalled) <= MaxBlocks
  /\ \E id \in Ids : Append(tip, id) \in Blocks \ Journalled

Insert(k) ==
  /\ pc = "idle"
  /\ Journable
  /\ inserts[k] < MaxListed
  /\ AddNode(k)
  /\ forward' = Emplace(forward, k)
  /\ inserts' = [inserts EXCEPT ![k] = inserts[k] + 1]
  /\ UNCHANGED <<pc, batch, db, removes, latest_era>>

Remove(k) ==
  /\ pc = "idle"
  /\ Journable
  /\ DropNode(k)
  /\ removes' = [removes EXCEPT ![k] = removes[k] + 1]
  /\ UNCHANGED <<pc, batch, db, forward, inserts, latest_era>>

SwitchTo(b) ==
  /\ Clean
  /\ Switched(b)
  /\ UNCHANGED ownVars

JournalUnder(id) ==
  LET b      == Append(tip, id)
      now    == Era(b)
      record == Record(b, inserts, removes)
  IN /\ pc = "idle"
     /\ AddBlock(b)
     /\ batch' = [batch EXCEPT !.journal[now][FreeIndex(now)] = record,
                               !.latest = Latest(latest_era, now)]
     /\ latest_era' = Latest(latest_era, now)
     /\ inserts' = None
     /\ removes' = None
     /\ pc' = "batch"
     /\ UNCHANGED <<db, forward>>

(* What a record takes back: the removals of the canonical block count now,
   the insertions of the others no more. *)
Undone(r, c) == IF r.id = c THEN r.deletions ELSE r.insertions

(* The era must be written, and so must the batch of an earlier mark, whose
   counts commit_to_batch would not see. *)
MarkCanonical(c) ==
  LET read    == StoredRecords(db.journal[Era(c)])
      records == {read[i] : i \in DOMAIN read}
      overlay == [k \in Keys |->
                    forward[k] - Sets!MapThenSumSet(LAMBDA r : Undone(r, c)[k], records)]
  IN /\ pc \in {"idle", "batch"}
     /\ CanonicalNext(c, Clean)
     /\ EraWritten(Era(c))
     /\ AddCanonical(c, {})
     /\ batch' = [batch EXCEPT !.nodes = CommitToBatch(overlay),
                               !.journal = WithoutEra(batch.journal, Era(c))]
     /\ forward' = None
     /\ pc' = IF CommitFails(overlay) THEN "error" ELSE "marked"
     /\ UNCHANGED <<db, inserts, removes, latest_era>>

WriteBatch ==
  /\ Written("idle")
  /\ UNCHANGED ownVars

Inject ==
  LET overlay == [k \in Keys |-> forward[k] - removes[k]]
  IN /\ ~CommitFails(overlay)
     /\ Injected([db EXCEPT !.nodes = CommitToBatch(overlay)])
     /\ forward' = None
     /\ inserts' = None
     /\ removes' = None
     /\ UNCHANGED latest_era

(* Only when nothing is in memory alone: the insertions of journalled blocks
   are lost with a process that ends before the next mark_canonical. *)
Reopen ==
  /\ pc = "idle" /\ Clean /\ forward = None
  /\ Opened
  /\ latest_era' = db.latest
  /\ UNCHANGED <<forward, inserts, removes>>
------------------------------------------------------------------------------
(* Unless a mark waits to be written, no node of a block that may still become
   canonical is missing. *)
LiveReadable == pc \in {"marked", "error"} \/ NodesFound({k \in Keys : Found(k)})

(* Between commits the count of a node, on disk and in memory together, is the
   number of insertions in the journal and in the state being built, and one
   more if the canonical state has the node. *)
CountsExact ==
  pc = "idle" =>
    \A k \in Keys :
      db.nodes[k] + forward[k] =
        (IF k \in views[canon] THEN 1 ELSE 0) + inserts[k]
          + Sets!MapThenSumSet(
              LAMBDA p : IF db.journal[p[1]][p[2]] = NoRecord THEN 0
                           ELSE db.journal[p[1]][p[2]].insertions[k],
              Eras \X Indexes)

(* commit_to_batch never finds a node with fewer references than it removes. *)
CountsSuffice == pc # "error"
==============================================================================
