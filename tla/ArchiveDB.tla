------------------------------ MODULE ArchiveDB ------------------------------
(***************************************************************************)
(* ArchiveDB (parity-journaldb/src/archivedb.rs): insertions go to the     *)
(* backing when a block is journalled, nothing is ever removed.            *)
(***************************************************************************)
EXTENDS JournalDB

VARIABLES
  overlay,     \* counts of the changes not journalled yet
  latest_era

ownVars == <<overlay, latest_era>>

Clean == overlay = EmptyMemory(Keys)

Init ==
  /\ ClientInit
  /\ pc = "idle"
  /\ db = EmptyBacking({})
  /\ batch = db
  /\ overlay = EmptyMemory(Keys)
  /\ latest_era = db.latest

Insert(k) ==
  /\ pc = "idle"
  /\ AddNode(k)
  /\ overlay' = Emplace(overlay, k)
  /\ UNCHANGED <<pc, batch, db, latest_era>>

Remove(k) ==
  /\ pc = "idle"
  /\ DropNode(k)
  /\ overlay' = RemoveRef(overlay, k)
  /\ UNCHANGED <<pc, batch, db, latest_era>>

SwitchTo(b) ==
  /\ Clean
  /\ Switched(b)
  /\ UNCHANGED ownVars

Found(k) == Contains(overlay, k) \/ k \in db.nodes

Archived == batch.nodes \cup Inserted(overlay)

JournalUnder(id) ==
  LET b == Append(tip, id)
  IN /\ pc = "idle"
     /\ AddBlock(b)
     /\ batch' = [batch EXCEPT !.nodes = Archived, !.latest = Latest(latest_era, Era(b))]
     /\ latest_era' = Latest(latest_era, Era(b))
     /\ overlay' = EmptyMemory(Keys)
     /\ pc' = "batch"
     /\ UNCHANGED db

(* Keeps everything; only the client moves on. *)
MarkCanonical(c) ==
  /\ pc \in {"idle", "batch"}
  /\ CanonicalNext(c, Clean)
  /\ AddCanonical(c, {})
  /\ pc' = "batch"
  /\ UNCHANGED <<batch, db, overlay, latest_era>>

WriteBatch ==
  /\ Written("idle")
  /\ UNCHANGED ownVars

(* inject fails if a node to insert is there or one to remove is not. *)
Injectable == Inserted(overlay) \cap db.nodes = {} /\ Removed(overlay) \subseteq db.nodes

Inject ==
  /\ Injectable
  /\ Injected([db EXCEPT !.nodes = (db.nodes \cup Inserted(overlay)) \ Removed(overlay)])
  /\ overlay' = EmptyMemory(Keys)
  /\ UNCHANGED latest_era

(* The process ends at any point and the database is opened again. *)
Reopen ==
  /\ Opened
  /\ overlay' = EmptyMemory(Keys)
  /\ latest_era' = db.latest
------------------------------------------------------------------------------
(* "the states of any block the node has ever processed will be accessible":
   of abandoned blocks too, once their batch is written. *)
EveryStateReadable ==
  pc = "batch" \/ \A b \in Journalled : \A k \in views[b] : k \in db.nodes
==============================================================================
