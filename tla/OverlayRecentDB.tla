--------------------------- MODULE OverlayRecentDB ---------------------------
(***************************************************************************)
(* OverlayRecentDB (parity-journaldb/src/overlayrecentdb.rs), the journal  *)
(* database under the MPT store.  Changes of a block stay in memory, and   *)
(* in the journal on disk, until the block is marked canonical; the nodes  *)
(* of abandoned blocks never reach the disk.                               *)
(*                                                                         *)
(* Clones share the journal overlay and the read cache, so a read may come *)
(* between any two steps of a commit; each call is one step.               *)
(***************************************************************************)
EXTENDS JournalDB

CONSTANTS
  Uncached    \* no entry in read_cache

VARIABLES
  transaction_overlay,  \* counts of the changes not journalled yet
  overlay,              \* the JournalOverlay
  read_cache            \* whether the backing had a node, or Uncached

dbVars == <<pc, transaction_overlay, overlay, read_cache, batch, db>>

Clean == transaction_overlay = EmptyMemory(Keys)
EmptyCache == [k \in Keys |-> Uncached]

------------------------------------------------------------------------------
(* read_overlay *)

(* How often the records of a journal insert node k. *)
References(journal, k) ==
  Cardinality({ei \in Eras \X (1..MaxBlocks) :
                 ei[2] <= Len(journal[ei[1]]) /\ k \in journal[ei[1]][ei[2]].insertions})

ReadOverlay(b) ==
  LET eras    == ErasRead(b)
      journal == [e \in Eras |-> IF e \in eras THEN StoredRecords(b.journal[e]) ELSE << >>]
      counts  == [k \in Keys |-> References(journal, k)]
  IN [backing_overlay |-> counts,
      pending_overlay |-> {},
      journal         |-> journal,
      latest_era      |-> b.latest,
      earliest_era    |-> IF eras = {} THEN NoEra
                          ELSE CHOOSE e \in eras : \A f \in eras : e <= f,
      cumulative_size |-> Cardinality(Inserted(counts))]

Init ==
  /\ ClientInit
  /\ pc = "idle"
  /\ transaction_overlay = EmptyMemory(Keys)
  /\ db = EmptyBacking({})
  /\ overlay = ReadOverlay(db)
  /\ read_cache = EmptyCache
  /\ batch = db

------------------------------------------------------------------------------
Insert(k) ==
  /\ pc = "idle"
  /\ AddNode(k)
  /\ transaction_overlay' = Emplace(transaction_overlay, k)
  /\ UNCHANGED <<pc, overlay, read_cache, batch, db>>

Remove(k) ==
  /\ pc = "idle"
  /\ DropNode(k)
  /\ transaction_overlay' = RemoveRef(transaction_overlay, k)
  /\ UNCHANGED <<pc, overlay, read_cache, batch, db>>

SwitchTo(b) ==
  /\ Clean
  /\ Switched(b)
  /\ UNCHANGED <<transaction_overlay, overlay, read_cache>>

(* What the lookups of get before the backing say of k. *)
InOverlays(k) ==
  \/ Contains(transaction_overlay, k)
  \/ Contains(overlay.backing_overlay, k)
  \/ k \in overlay.pending_overlay

(* The answer of get. *)
Found(k) ==
  \/ InOverlays(k)
  \/ IF read_cache[k] = Uncached THEN k \in db.nodes ELSE read_cache[k]

(* A get that reaches the backing leaves its answer in the read cache. *)
Get(k) ==
  /\ ~InOverlays(k)
  /\ read_cache[k] = Uncached
  /\ read_cache' = [read_cache EXCEPT ![k] = k \in db.nodes]
  /\ UNCHANGED <<clientVars, pc, transaction_overlay, overlay, batch, db>>

------------------------------------------------------------------------------
JournalUnder(id) ==
  LET b       == Append(tip, id)
      now     == Era(b)
      ins     == Inserted(transaction_overlay)
      record  == Record(b, ins, Removed(transaction_overlay))
      latest  == Latest(overlay.latest_era, now)
      earlier == overlay.earliest_era = NoEra \/ now < overlay.earliest_era
      index   == Len(overlay.journal[now])
  IN /\ pc = "idle"
     /\ AddBlock(b)
     /\ overlay' =
          [backing_overlay |-> EmplaceAll(overlay.backing_overlay, ins),
           pending_overlay |-> {},
           journal         |-> [overlay.journal EXCEPT ![now] = Append(overlay.journal[now], record)],
           latest_era      |-> latest,
           earliest_era    |-> IF earlier THEN now ELSE overlay.earliest_era,
           cumulative_size |-> overlay.cumulative_size
                                 + Cardinality(ins \ Inserted(overlay.backing_overlay))]
     /\ batch' = [batch EXCEPT !.journal[now][index] = record,
                               !.latest = latest]
     /\ transaction_overlay' = EmptyMemory(Keys)
     /\ pc' = "batch"
     /\ UNCHANGED <<read_cache, db>>

------------------------------------------------------------------------------
(* mark_canonical *)

Records(c) == {overlay.journal[Era(c)][i] : i \in DOMAIN overlay.journal[Era(c)]}
CanonRecords(c) == {r \in Records(c) : r.id = c}
LostRecords(c) == {r \in Records(c) : r.id # c}

(* How many records of the era insert each key: so often it is purged. *)
Dropped(c) == [k \in Keys |-> Cardinality({r \in Records(c) : k \in r.insertions})]

(* Mutant of CanonInsertions: looked up after the overlay was updated. *)
CanonInsertionsAfterPurge(c) ==
  {k \in UNION {r.insertions : r \in CanonRecords(c)} :
     Contains(PurgeAll(overlay.backing_overlay, Dropped(c)), k)}

CanonInsertions(c) ==
  {k \in UNION {r.insertions : r \in CanonRecords(c)} : Contains(overlay.backing_overlay, k)}

(* Removals take effect unless a block in the history inserts the key again. *)
CanonDeletions(c) ==
  {k \in UNION {r.deletions : r \in CanonRecords(c)} :
     ~Contains(PurgeAll(overlay.backing_overlay, Dropped(c)), k)}

MarkCanonical(c) ==
  LET journal == [overlay.journal EXCEPT ![Era(c)] = << >>]
  IN /\ pc \in {"idle", "batch"}
     /\ CanonicalNext(c, Clean)
     /\ AddCanonical(c, UNION {r.insertions : r \in LostRecords(c)})
     /\ overlay' =
          [backing_overlay |-> PurgeAll(overlay.backing_overlay, Dropped(c)),
           pending_overlay |-> overlay.pending_overlay \cup CanonInsertions(c),
           journal         |-> journal,
           latest_era      |-> overlay.latest_era,
           earliest_era    |-> IF \E e \in Eras : journal[e] # << >>
                                 THEN Era(c) + 1 ELSE overlay.earliest_era,
           cumulative_size |-> overlay.cumulative_size
                                 - Cardinality(PurgedBy(overlay.backing_overlay, Dropped(c)))]
     /\ batch' =
          [batch EXCEPT
             !.nodes = (batch.nodes \cup CanonInsertions(c)) \ CanonDeletions(c),
             !.journal[Era(c)] =
               [i \in Indexes |-> IF i < Len(overlay.journal[Era(c)])
                                    THEN NoRecord ELSE batch.journal[Era(c)][i]]]
     /\ read_cache' = EmptyCache
     /\ pc' = "batch"
     /\ UNCHANGED <<transaction_overlay, db>>

(* backing().write(batch), then flush. *)
WriteBatch ==
  /\ Written("written")
  /\ UNCHANGED <<transaction_overlay, overlay, read_cache>>

Flush ==
  /\ pc = "written"
  /\ overlay' = [overlay EXCEPT !.pending_overlay = {}]
  /\ pc' = "idle"
  /\ UNCHANGED <<clientVars, transaction_overlay, read_cache, batch, db>>

(* Only into a database that was not read: inject leaves the read cache as it is,
   and what it remembers would be stale. *)
Inject ==
  /\ read_cache = EmptyCache
  /\ Injected([db EXCEPT !.nodes = (db.nodes \cup Inserted(transaction_overlay))
                                     \ Removed(transaction_overlay)])
  /\ transaction_overlay' = EmptyMemory(Keys)
  /\ UNCHANGED <<overlay, read_cache>>

(* The process ends at any point and the database is opened again. *)
Reopen ==
  /\ Opened
  /\ transaction_overlay' = EmptyMemory(Keys)
  /\ overlay' = ReadOverlay(db)
  /\ read_cache' = EmptyCache

------------------------------------------------------------------------------
(* Every node of the state being built, and of every block that may still
   become canonical, can be read at every step of a commit, after every
   restart, and whatever was read before. *)
LiveReadable == NodesFound({k \in Keys : Found(k)})

(* can_reconstruct_refs: between commits the overlay in memory is the one a
   new process would read from the journal. *)
OverlayReconstructs ==
  pc = "idle" =>
    LET read == ReadOverlay(db)
    IN overlay = [read EXCEPT !.earliest_era = overlay.earliest_era]

(* Once the history is empty the backing has the nodes of the canonical state,
   and beyond them only nodes that an abandoned block had inserted. *)
BackingPruned ==
  (pc = "idle" /\ \A e \in Eras : overlay.journal[e] = << >>) =>
    /\ views[canon] \subseteq db.nodes
    /\ db.nodes \ views[canon] \subseteq stray
==============================================================================
