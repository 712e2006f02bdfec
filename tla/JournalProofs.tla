----------------------------- MODULE JournalProofs -----------------------------
(***************************************************************************)
(* Proofs about the journal databases, for every set of nodes, every       *)
(* number of blocks and every way they fork: for each of the four behind   *)
(* the trait JournalDB an inductive invariant that says what the backing,  *)
(* the batch and the memory hold, given the blocks that are journalled;    *)
(* then what all four promise their client.                                *)
(***************************************************************************)
EXTENDS JournalDatabases, NumberLemmas

-------------------------------------------------------------------------------
(* The invariant: what a backing holds, given the blocks journalled in it *)

(* The block of length n on the path to b, and the one b was built on. *)
Ancestor(b, n) == [i \in 1..n |-> b[i]]
Parent(b) == Ancestor(b, Len(b) - 1)

(* The blocks journalled with the views v, and those above c. *)
Known(v) == {b \in Blocks : v[b] # NoView}
Above(v, c) == {b \in Known(v) : Len(b) > Len(c)}

(* What a block adds to the state it was built on and takes from it. *)
Added(v, b) == v[b] \ v[Parent(b)]
Taken(v, b) == v[Parent(b)] \ v[b]
RecordOf(v, b) == Record(b, Added(v, b), Taken(v, b))

(* The blocks above c that add node k. *)
Adding(v, c, k) == {b \in Above(v, c) : k \in Added(v, b)}

ViewsOK(v, c) ==
  /\ v \in [Blocks -> (SUBSET Keys) \cup {NoView}]
  /\ \A b \in Known(v) : \A n \in 0..Len(b) : Ancestor(b, n) \in Known(v)
  /\ IsFiniteSet(Known(v))
  /\ c \in Known(v)

(* One record for each block above c, from index 0 of its era without a gap. *)
JournalOK(j, v, c) ==
  /\ j \in [Eras -> [Indexes -> {RecordOf(v, b) : b \in Above(v, c)} \cup {NoRecord}]]
  /\ \A e \in Eras, i \in Indexes : j[e][i] # NoRecord => Era(j[e][i].id) = e
  /\ \A b \in Above(v, c) : \E i \in Indexes : j[Era(b)][i] = RecordOf(v, b)
  /\ \A e \in Eras : \A i, n \in Indexes : j[e][i] # NoRecord /\ j[e][i] = j[e][n] => i = n
  /\ \A e \in Eras : \A i, n \in Indexes : j[e][i] # NoRecord /\ n < i => j[e][n] # NoRecord

(* The latest era is that of some block and of none after it. *)
LatestOK(l, v) ==
  /\ l # NoEra => l \in Eras /\ \E b \in Known(v) : Era(b) = l
  /\ \A b \in Known(v) : Len(b) > 0 => l # NoEra /\ Era(b) <= l

(* The nodes of c are there, and beyond them only strays s and what a block above
   c adds. *)
NodesOK(nodes, v, c, s) ==
  /\ v[c] \subseteq nodes
  /\ \A k \in nodes : k \in v[c] \/ k \in s \/ Adding(v, c, k) # {}

BackingOK(b, v, c) ==
  /\ b = [nodes |-> b.nodes, journal |-> b.journal, latest |-> b.latest, already_in |-> b.already_in]
  /\ ViewsOK(v, c)
  /\ JournalOK(b.journal, v, c)
  /\ LatestOK(b.latest, v)

-------------------------------------------------------------------------------
(* The client, whichever the database *)

(* What memory counts: the changes of the state being built since its tip. *)
Change(w, v) == [k \in Keys |-> (IF k \in w THEN 1 ELSE 0) - (IF k \in v THEN 1 ELSE 0)]

ClientOK ==
  /\ tip \in Known(views) /\ Extends(tip, canon)
  /\ work \subseteq Keys
  /\ memory = Change(work, views[tip])
  /\ kept = [views |-> kept.views, canon |-> kept.canon, stray |-> kept.stray]

(* Nothing waits to be written. *)
InStep ==
  /\ batch = db
  /\ kept = [views |-> views, canon |-> canon, stray |-> stray]

-------------------------------------------------------------------------------
(* OverlayRecentDB *)

(* How many blocks add each node, and the nodes that some block adds. *)
Counts(v, c) == [k \in Keys |-> Cardinality(Adding(v, c, k))]
AddedNodes(v, c) == {k \in Keys : Adding(v, c, k) # {}}

Stored(j) == [e \in Eras |-> StoredRecords(j[e])]

(* The overlay for the blocks above c, with the journal j of a backing. *)
OverlayFor(v, c, j, latest, pending, earliest) ==
  [backing_overlay |-> Counts(v, c),
   pending_overlay |-> pending,
   journal         |-> Stored(j),
   latest_era      |-> latest,
   earliest_era    |-> earliest,
   cumulative_size |-> Cardinality(AddedNodes(v, c))]

OverlayOK ==
  overlay = OverlayFor(views, canon, batch.journal, batch.latest,
                       overlay.pending_overlay, overlay.earliest_era)

CacheOK ==
  /\ read_cache \in [Keys -> {Uncached, TRUE, FALSE}]
  /\ \A k \in Keys : read_cache[k] = FALSE => k \notin batch.nodes

OverlayRecentInv ==
  /\ pc \in {"idle", "batch", "written"}
  /\ ClientOK
  /\ BackingOK(batch, views, canon)
  /\ NodesOK(batch.nodes, views, canon, stray)
  /\ BackingOK(db, kept.views, kept.canon)
  /\ NodesOK(db.nodes, kept.views, kept.canon, kept.stray)
  /\ pc # "batch" => InStep
  /\ pc = "idle" => overlay.pending_overlay = {}
  /\ batch.nodes \subseteq db.nodes \cup overlay.pending_overlay
  /\ OverlayOK
  /\ CacheOK

-------------------------------------------------------------------------------
(* Blocks and their ancestors *)

LEMMA BlockFacts ==
  ASSUME NEW b \in Blocks
  PROVE  /\ b \in Seq(Ids) /\ Len(b) \in 0..MaxEra /\ Len(b) \in Nat
         /\ b \in [1..Len(b) -> Ids]
<1>1. PICK n \in 0..MaxEra : b \in [1..n -> Ids]
  BY DEF Blocks
<1>2. n \in Nat
  BY ClientConstants
<1>3. b \in Seq(Ids)
  BY <1>1, <1>2
<1>4. Len(b) = n
  BY <1>1, <1>2
<1> QED
  BY <1>1, <1>2, <1>3, <1>4

LEMMA IsBlock ==
  ASSUME NEW n \in 0..MaxEra, NEW b \in [1..n -> Ids]
  PROVE  b \in Blocks /\ Len(b) = n
<1>1. b \in Blocks
  BY DEF Blocks
<1>2. n \in Nat
  BY ClientConstants
<1> QED
  BY <1>1, <1>2

(* The ancestors of a block are blocks, and theirs are its own. *)
LEMMA AncestorFacts ==
  ASSUME NEW b \in Blocks, NEW n \in 0..Len(b)
  PROVE  /\ Ancestor(b, n) \in Blocks
         /\ Len(Ancestor(b, n)) = n
         /\ \A m \in 0..n : Ancestor(Ancestor(b, n), m) = Ancestor(b, m)
         /\ SubSeq(b, 1, n) = Ancestor(b, n)
<1>1. b \in Seq(Ids) /\ Len(b) \in 0..MaxEra /\ Len(b) \in Nat /\ b \in [1..Len(b) -> Ids]
  BY BlockFacts
<1>2. n \in 0..MaxEra /\ n \in Nat /\ n <= Len(b)
  BY <1>1, ClientConstants
<1>3. Ancestor(b, n) \in [1..n -> Ids]
  BY <1>1, <1>2 DEF Ancestor
<1>4. Ancestor(b, n) \in Blocks /\ Len(Ancestor(b, n)) = n
  BY <1>2, <1>3, IsBlock
<1>5. \A m \in 0..n : Ancestor(Ancestor(b, n), m) = Ancestor(b, m)
  BY <1>2 DEF Ancestor
<1>6. SubSeq(b, 1, n) = Ancestor(b, n)
  BY <1>1, <1>2 DEF Ancestor
<1> QED
  BY <1>4, <1>5, <1>6

LEMMA OwnAncestor ==
  ASSUME NEW b \in Blocks
  PROVE  Ancestor(b, Len(b)) = b /\ Ancestor(b, 0) = Genesis
<1>1. Ancestor(b, Len(b)) = b
  BY BlockFacts DEF Ancestor
<1>2. Ancestor(b, 0) = Genesis
  BY DEF Ancestor, Genesis
<1> QED
  BY <1>1, <1>2

LEMMA ExtendsAncestor ==
  ASSUME NEW b \in Blocks, NEW c \in Blocks
  PROVE  Extends(b, c) <=> Len(c) <= Len(b) /\ Ancestor(b, Len(c)) = c
<1>1. Len(b) \in Nat /\ Len(c) \in Nat
  BY BlockFacts
<1>2. CASE Len(c) <= Len(b)
  <2>1. Len(c) \in 0..Len(b)
    BY <1>1, <1>2
  <2>2. SubSeq(b, 1, Len(c)) = Ancestor(b, Len(c))
    BY <2>1, AncestorFacts
  <2> QED
    BY <1>2, <2>2 DEF Extends
<1>3. CASE ~(Len(c) <= Len(b))
  BY <1>3 DEF Extends
<1> QED
  BY <1>2, <1>3

LEMMA ParentFacts ==
  ASSUME NEW b \in Blocks, Len(b) > 0
  PROVE  /\ Parent(b) \in Blocks /\ Len(Parent(b)) = Len(b) - 1
         /\ \A n \in 0..(Len(b) - 1) : Ancestor(Parent(b), n) = Ancestor(b, n)
<1>1. Len(b) \in Nat
  BY BlockFacts
<1>2. Len(b) - 1 \in 0..Len(b)
  BY <1>1
<1> QED
  BY <1>2, AncestorFacts DEF Parent

(* The block journalled on a tip. *)
LEMMA ChildFacts ==
  ASSUME NEW t \in Blocks, NEW id \in Ids, NEW b, b = Append(t, id), b \in Blocks
  PROVE  /\ Len(b) = Len(t) + 1 /\ Len(b) > 0 /\ Era(b) = Len(t) /\ Era(b) \in Eras
         /\ Parent(b) = t
         /\ \A n \in 0..Len(t) : Ancestor(b, n) = Ancestor(t, n)
<1>1. t \in Seq(Ids) /\ Len(t) \in Nat /\ Len(b) \in 0..MaxEra
  BY BlockFacts
<1>2. Len(b) = Len(t) + 1 /\ \A i \in 1..Len(t) : b[i] = t[i]
  BY <1>1
<1>3. Len(b) > 0 /\ Era(b) = Len(t) /\ Era(b) \in Eras
  BY <1>1, <1>2, ClientConstants DEF Era, Eras
<1>4. \A n \in 0..Len(t) : Ancestor(b, n) = Ancestor(t, n)
  BY <1>1, <1>2 DEF Ancestor
<1>5. Parent(b) = t
  <2>1. Len(b) - 1 = Len(t) /\ Len(t) \in 0..Len(t)
    BY <1>1, <1>2
  <2>2. Ancestor(b, Len(t)) = Ancestor(t, Len(t))
    BY <1>4, <2>1
  <2> QED
    BY <2>1, <2>2, OwnAncestor DEF Parent
<1> QED
  BY <1>2, <1>3, <1>4, <1>5

LEMMA EraFacts ==
  ASSUME NEW b \in Blocks, Len(b) > 0
  PROVE  Era(b) \in Eras /\ Era(b) + 1 = Len(b) /\ Era(b) \in Nat
<1>1. Len(b) \in 0..MaxEra /\ Len(b) \in Nat
  BY BlockFacts
<1> QED
  BY <1>1, ClientConstants DEF Era, Eras

-------------------------------------------------------------------------------
(* The records of an era *)

(* The records read end where the first one is missing. *)
LEMMA StoredIs ==
  ASSUME NEW r, NEW n \in 0..MaxBlocks, \A i \in Indexes : i < n <=> r[i] # NoRecord
  PROVE  /\ StoredRecords(r) = [i \in 1..n |-> r[i - 1]]
         /\ Len(StoredRecords(r)) = n /\ n \in Nat
<1> DEFINE P(m) == /\ \A i \in 0..(m - 1) : r[i] # NoRecord
                   /\ m = MaxBlocks \/ r[m] = NoRecord
<1>1. n \in Nat /\ n <= MaxBlocks /\ MaxBlocks \in Nat
  BY ClientConstants
<1>2. P(n)
  <2>1. ASSUME NEW i \in 0..(n - 1) PROVE r[i] # NoRecord
    BY <1>1 DEF Indexes
  <2>2. n = MaxBlocks \/ (n \in Indexes /\ ~(n < n))
    BY <1>1 DEF Indexes
  <2> QED
    BY <2>1, <2>2
<1>3. \A m \in 0..MaxBlocks : P(m) => m = n
  <2> SUFFICES ASSUME NEW m \in 0..MaxBlocks, P(m), m # n PROVE FALSE
    OBVIOUS
  <2>0. m \in Nat /\ m <= MaxBlocks
    BY <1>1
  <2>1. CASE m < n
    <3>1. m \in Indexes /\ m # MaxBlocks
      BY <1>1, <2>0, <2>1 DEF Indexes
    <3> QED
      BY <2>1, <3>1
  <2>2. CASE n < m
    <3>1. n \in Indexes /\ n \in 0..(m - 1) /\ ~(n < n)
      BY <1>1, <2>0, <2>2 DEF Indexes
    <3> QED
      BY <3>1
  <2> QED
    BY <1>1, <2>0, <2>1, <2>2
<1>4. n = CHOOSE m \in 0..MaxBlocks : P(m)
  <2> HIDE DEF P
  <2> QED
    BY <1>2, <1>3
<1>5. StoredRecords(r) = [i \in 1..n |-> r[i - 1]]
  BY <1>4 DEF StoredRecords
<1> QED
  BY <1>1, <1>5

LEMMA StoredFacts ==
  ASSUME NEW r, \A i, n \in Indexes : r[i] # NoRecord /\ n < i => r[n] # NoRecord
  PROVE  \E n \in 0..MaxBlocks :
           /\ \A i \in Indexes : i < n <=> r[i] # NoRecord
           /\ StoredRecords(r) = [i \in 1..n |-> r[i - 1]]
           /\ Len(StoredRecords(r)) = n /\ n \in Nat
<1>1. PICK T : T = {m \in 0..MaxBlocks : m = MaxBlocks \/ r[m] = NoRecord}
  OBVIOUS
<1>2. MaxBlocks \in T /\ T \in SUBSET Nat
  BY <1>1, ClientConstants
<1>3. PICK n \in T : \A m \in T : n <= m
  BY <1>2, LeastNat
<1>4. n \in Nat /\ n \in 0..MaxBlocks /\ (n = MaxBlocks \/ r[n] = NoRecord)
  BY <1>1, <1>2
<1>5. ASSUME NEW i \in Indexes
      PROVE  i < n <=> r[i] # NoRecord
  <2>1. i \in Nat /\ i < MaxBlocks /\ i \in 0..MaxBlocks
    BY ClientConstants DEF Indexes
  <2>2. CASE i < n
    <3>1. i \notin T
      BY <1>3, <1>4, <2>1, <2>2
    <3> QED
      BY <1>1, <2>1, <2>2, <3>1
  <2>3. CASE ~(i < n)
    <3>1. n \in Indexes /\ r[n] = NoRecord
      BY <1>4, <2>1, <2>3, ClientConstants DEF Indexes
    <3>2. n = i \/ n < i
      BY <1>4, <2>1, <2>3
    <3> QED
      BY <2>3, <3>1, <3>2
  <2> QED
    BY <2>2, <2>3
<1> QED
  BY <1>4, <1>5, StoredIs

(* A record at the first free index is appended. *)
LEMMA StoredAppend ==
  ASSUME NEW V, NEW r \in [Indexes -> V], NEW n \in Indexes, NEW x, x # NoRecord,
         \A i \in Indexes : i < n <=> r[i] # NoRecord
  PROVE  /\ StoredRecords([r EXCEPT ![n] = x]) = Append(StoredRecords(r), x)
         /\ \A i \in Indexes : i < n + 1 <=> [r EXCEPT ![n] = x][i] # NoRecord
<1>1. n \in Nat /\ n \in 0..MaxBlocks /\ n + 1 \in 0..MaxBlocks
  BY ClientConstants DEF Indexes
<1>2. PICK s : s = [r EXCEPT ![n] = x]
  OBVIOUS
<1>3. s[n] = x /\ \A i \in Indexes : i # n => s[i] = r[i]
  BY <1>2
<1>4. \A i \in Indexes : i < n + 1 <=> s[i] # NoRecord
  <2> SUFFICES ASSUME NEW i \in Indexes PROVE i < n + 1 <=> s[i] # NoRecord
    OBVIOUS
  <2>1. i \in Nat
    BY DEF Indexes
  <2>2. i < n + 1 <=> i = n \/ i < n
    BY <1>1, <2>1
  <2> QED
    BY <1>3, <2>2
<1>5. StoredRecords(s) = [i \in 1..(n + 1) |-> s[i - 1]]
  BY <1>1, <1>4, StoredIs
<1>6. StoredRecords(r) = [i \in 1..n |-> r[i - 1]] /\ Len(StoredRecords(r)) = n
  BY <1>1, StoredIs
<1>7. Append(StoredRecords(r), x) = [i \in 1..(n + 1) |-> s[i - 1]]
  <2>1. PICK t : t = StoredRecords(r)
    OBVIOUS
  <2>2. t \in Seq(V)
    <3>1. \A i \in 1..n : i - 1 \in Indexes
      BY <1>1, ClientConstants DEF Indexes
    <3>2. t \in [1..n -> V]
      BY <1>6, <2>1, <3>1
    <3> QED
      BY <1>1, <3>2
  <2>3. Append(t, x) = [i \in 1..(n + 1) |-> IF i = n + 1 THEN x ELSE t[i]]
    BY <1>1, <1>6, <2>1, <2>2
  <2>4. \A i \in 1..(n + 1) : (IF i = n + 1 THEN x ELSE t[i]) = s[i - 1]
    <3> SUFFICES ASSUME NEW i \in 1..(n + 1) PROVE (IF i = n + 1 THEN x ELSE t[i]) = s[i - 1]
      OBVIOUS
    <3>1. CASE i = n + 1
      BY <1>1, <1>3, <3>1
    <3>2. CASE i # n + 1
      <4>1. i \in 1..n /\ i - 1 \in Indexes /\ i - 1 # n
        BY <1>1, <3>2, ClientConstants DEF Indexes
      <4>2. t[i] = r[i - 1]
        BY <1>6, <2>1, <4>1
      <4> QED
        BY <1>3, <3>2, <4>1, <4>2
    <3> QED
      BY <3>1, <3>2
  <2> QED
    BY <2>1, <2>3, <2>4
<1> QED
  BY <1>2, <1>4, <1>5, <1>7

LEMMA StoredNothing ==
  ASSUME NEW r, \A i \in Indexes : r[i] = NoRecord
  PROVE  StoredRecords(r) = << >>
<1>1. 0 \in 0..MaxBlocks /\ \A i \in Indexes : ~(i < 0)
  BY ClientConstants DEF Indexes
<1>2. StoredRecords(r) = [i \in 1..0 |-> r[i - 1]]
  BY <1>1, StoredIs
<1> QED
  BY <1>2

-------------------------------------------------------------------------------
(* Blocks and their records *)

LEMMA KnownFacts ==
  ASSUME NEW v, NEW c, ViewsOK(v, c), NEW b \in Known(v)
  PROVE  /\ b \in Blocks /\ Len(b) \in Nat /\ v[b] \subseteq Keys /\ v[b] # NoView
         /\ Len(b) > 0 => /\ Parent(b) \in Known(v) /\ Parent(b) \in Blocks
                          /\ v[Parent(b)] \subseteq Keys
<1>1. \A a \in Known(v) : a \in Blocks /\ v[a] # NoView /\ v[a] \subseteq Keys
  <2>1. v \in [Blocks -> (SUBSET Keys) \cup {NoView}]
    BY DEF ViewsOK
  <2>2. ASSUME NEW a \in Known(v)
        PROVE  a \in Blocks /\ v[a] # NoView /\ v[a] \subseteq Keys
    <3>1. a \in Blocks /\ v[a] # NoView
      BY DEF Known
    <3>2. v[a] \in SUBSET Keys
      BY <2>1, <3>1
    <3> QED
      BY <3>1, <3>2
  <2> QED
    BY <2>2
<1>2. b \in Blocks /\ Len(b) \in Nat
  BY <1>1, BlockFacts
<1>3. ASSUME Len(b) > 0 PROVE Parent(b) \in Known(v)
  <2>1. Len(b) - 1 \in 0..Len(b)
    BY <1>2, <1>3
  <2> QED
    BY <2>1 DEF ViewsOK, Parent
<1> QED
  BY <1>1, <1>2, <1>3

LEMMA AboveFacts ==
  ASSUME NEW v, NEW c, ViewsOK(v, c), NEW b \in Above(v, c)
  PROVE  /\ b \in Known(v) /\ b \in Blocks /\ Len(b) \in Nat /\ Len(c) \in Nat /\ c \in Blocks
         /\ Len(b) > Len(c) /\ Len(b) > 0
         /\ Era(b) \in Eras /\ Era(b) + 1 = Len(b)
         /\ Parent(b) \in Known(v)
         /\ RecordOf(v, b).id = b
         /\ RecordOf(v, b).insertions = Added(v, b) /\ RecordOf(v, b).deletions = Taken(v, b)
         /\ RecordOf(v, b) # NoRecord
<1>1. b \in Known(v) /\ Len(b) > Len(c) /\ c \in Known(v)
  BY DEF Above, ViewsOK
<1>2. b \in Blocks /\ Len(b) \in Nat /\ c \in Blocks /\ Len(c) \in Nat /\ v[b] \subseteq Keys
  BY <1>1, KnownFacts
<1>3. Len(b) > 0
  BY <1>1, <1>2
<1>4. Parent(b) \in Known(v) /\ v[Parent(b)] \subseteq Keys
  BY <1>1, <1>3, KnownFacts
<1>5. Era(b) \in Eras /\ Era(b) + 1 = Len(b)
  BY <1>2, <1>3, EraFacts
<1>6. RecordOf(v, b) \in [id : Blocks, insertions : SUBSET Keys, deletions : SUBSET Keys]
  BY <1>2, <1>4 DEF RecordOf, Record, Added, Taken
<1> QED
  BY <1>1, <1>2, <1>3, <1>4, <1>5, <1>6, JournalConstants DEF RecordOf, Record

(* Where the journal has a record, it is that of a block of the era. *)
LEMMA JournalFacts ==
  ASSUME NEW v, NEW c, ViewsOK(v, c), NEW j, JournalOK(j, v, c), NEW e \in Eras, NEW i \in Indexes
  PROVE  j[e][i] = NoRecord \/ \E b \in Above(v, c) : j[e][i] = RecordOf(v, b) /\ Era(b) = e
<1> SUFFICES ASSUME j[e][i] # NoRecord
             PROVE  \E b \in Above(v, c) : j[e][i] = RecordOf(v, b) /\ Era(b) = e
  OBVIOUS
<1>1. j[e][i] \in {RecordOf(v, b) : b \in Above(v, c)} \cup {NoRecord}
  BY DEF JournalOK
<1>2. PICK b \in Above(v, c) : j[e][i] = RecordOf(v, b)
  BY <1>1
<1>3. Era(j[e][i].id) = e
  BY DEF JournalOK
<1> QED
  BY <1>2, <1>3, AboveFacts

(* The records read for an era are those of its blocks. *)
RecordsIn(s) == {s[i] : i \in DOMAIN s}
RecordsAt(v, c, e) == {RecordOf(v, b) : b \in {x \in Above(v, c) : Era(x) = e}}

LEMMA EraRecords ==
  ASSUME NEW v, NEW c, ViewsOK(v, c), NEW j, JournalOK(j, v, c), NEW e \in Eras
  PROVE  RecordsIn(StoredRecords(j[e])) = RecordsAt(v, c, e)
<1> USE DEF RecordsIn, RecordsAt
<1>1. \A i, n \in Indexes : j[e][i] # NoRecord /\ n < i => j[e][n] # NoRecord
  BY DEF JournalOK
<1>2. PICK n \in 0..MaxBlocks :
        /\ \A i \in Indexes : i < n <=> j[e][i] # NoRecord
        /\ StoredRecords(j[e]) = [i \in 1..n |-> j[e][i - 1]] /\ n \in Nat
  BY <1>1, StoredFacts
<1>3. PICK s : s = StoredRecords(j[e])
  OBVIOUS
<1>4. DOMAIN s = 1..n /\ \A i \in 1..n : s[i] = j[e][i - 1]
  BY <1>2, <1>3
<1>5. ASSUME NEW i \in DOMAIN s
      PROVE  \E b \in Above(v, c) : s[i] = RecordOf(v, b) /\ Era(b) = e
  <2>1. i \in 1..n
    BY <1>4
  <2>2. i - 1 \in Indexes /\ i - 1 < n
    BY <1>2, <2>1, ClientConstants DEF Indexes
  <2>3. j[e][i - 1] # NoRecord
    BY <1>2, <2>2
  <2>4. \E b \in Above(v, c) : j[e][i - 1] = RecordOf(v, b) /\ Era(b) = e
    BY <2>2, <2>3, JournalFacts
  <2> QED
    BY <1>4, <2>1, <2>4
<1>6. ASSUME NEW b \in Above(v, c), Era(b) = e
      PROVE  \E i \in DOMAIN s : s[i] = RecordOf(v, b)
  <2>1. PICK i \in Indexes : j[e][i] = RecordOf(v, b)
    BY <1>6 DEF JournalOK
  <2>2. i < n
    BY <1>2, <2>1, AboveFacts
  <2>3. i + 1 \in 1..n /\ (i + 1) - 1 = i
    BY <1>2, <2>2 DEF Indexes
  <2> QED
    BY <1>4, <2>1, <2>3
<1> QED
  BY <1>3, <1>5, <1>6

(* An era without blocks has no records. *)
LEMMA EmptyEra ==
  ASSUME NEW v, NEW c, ViewsOK(v, c), NEW j, JournalOK(j, v, c), NEW e \in Eras,
         \A b \in Above(v, c) : Era(b) # e
  PROVE  StoredRecords(j[e]) = << >> /\ \A i \in Indexes : j[e][i] = NoRecord
<1>1. \A i \in Indexes : j[e][i] = NoRecord
  BY JournalFacts
<1> QED
  BY <1>1, StoredNothing

(* An era with a block has a record at index 0. *)
LEMMA FirstRecord ==
  ASSUME NEW v, NEW c, ViewsOK(v, c), NEW j, JournalOK(j, v, c), NEW b \in Above(v, c)
  PROVE  j[Era(b)][0] # NoRecord
<1>1. Era(b) \in Eras /\ RecordOf(v, b) # NoRecord
  BY AboveFacts
<1>2. PICK i \in Indexes : j[Era(b)][i] = RecordOf(v, b)
  BY DEF JournalOK
<1>3. 0 \in Indexes /\ (i = 0 \/ 0 < i)
  BY ClientConstants DEF Indexes
<1>4. 0 < i => j[Era(b)][0] # NoRecord
  BY <1>1, <1>2, <1>3 DEF JournalOK
<1> QED
  BY <1>1, <1>2, <1>3, <1>4

(* A new process reads every record: no era of a block is behind a gap. *)
LEMMA ReadsAll ==
  ASSUME NEW v, NEW c, NEW b, BackingOK(b, v, c), NEW e \in Eras
  PROVE  e \notin ErasRead(b) => StoredRecords(b.journal[e]) = << >>
<1>1. ViewsOK(v, c) /\ JournalOK(b.journal, v, c) /\ LatestOK(b.latest, v)
  BY DEF BackingOK
<1> SUFFICES ASSUME NEW a \in Above(v, c), Era(a) = e
             PROVE  e \in ErasRead(b)
  BY <1>1, EmptyEra
<1>2. a \in Known(v) /\ Len(a) > 0 /\ Len(a) > Len(c) /\ Len(c) \in Nat /\ Len(a) \in Nat /\ e + 1 = Len(a)
  BY <1>1, AboveFacts
<1>3. b.latest # NoEra /\ e <= b.latest /\ b.latest \in Eras
  BY <1>1, <1>2 DEF LatestOK
<1>4. PICK x \in Known(v) : Era(x) = b.latest
  BY <1>1, <1>3 DEF LatestOK
<1>5. x \in Blocks /\ Len(x) \in Nat
  BY <1>1, KnownFacts
<1>6. ASSUME NEW f \in e..b.latest
      PROVE  b.journal[f][0] # NoRecord
  <2>1. f \in Nat /\ f + 1 \in 0..Len(x) /\ f + 1 > Len(c) /\ (f + 1) - 1 = f
    BY <1>2, <1>3, <1>4, <1>5, ClientConstants DEF Era, Eras
  <2>2. Ancestor(x, f + 1) \in Known(v) /\ Len(Ancestor(x, f + 1)) = f + 1
    BY <1>1, <1>5, <2>1, AncestorFacts DEF ViewsOK
  <2>3. Ancestor(x, f + 1) \in Above(v, c) /\ Era(Ancestor(x, f + 1)) = f
    BY <2>1, <2>2 DEF Above, Era
  <2> QED
    BY <1>1, <2>3, FirstRecord
<1> QED
  BY <1>3, <1>6 DEF ErasRead

-------------------------------------------------------------------------------
(* Counting the blocks that add a node *)

LEMMA SameSize ==
  ASSUME NEW S, NEW T, IsFiniteSet(S), NEW f \in [S -> T],
         \A x, y \in S : f[x] = f[y] => x = y,
         \A t \in T : \E x \in S : f[x] = t
  PROVE  IsFiniteSet(T) /\ Cardinality(T) = Cardinality(S)
<1>1. f \in Bijection(S, T)
  BY DEF Bijection, Injection, Surjection, IsInjective
<1>2. ExistsBijection(S, T)
  BY <1>1 DEF ExistsBijection
<1> QED
  BY <1>2, FS_Bijection

LEMMA AddingFinite ==
  ASSUME NEW v, NEW c, ViewsOK(v, c), NEW k
  PROVE  /\ IsFiniteSet(Adding(v, c, k)) /\ Cardinality(Adding(v, c, k)) \in Nat
         /\ Cardinality(Adding(v, c, k)) > 0 <=> Adding(v, c, k) # {}
<1>1. IsFiniteSet(Known(v)) /\ Adding(v, c, k) \in SUBSET Known(v)
  BY DEF ViewsOK, Adding, Above
<1>2. IsFiniteSet(Adding(v, c, k))
  BY <1>1, FS_Subset
<1>3. PICK n : n = Cardinality(Adding(v, c, k))
  OBVIOUS
<1>4. n \in Nat /\ (n = 0 <=> Adding(v, c, k) = {})
  BY <1>2, <1>3, FS_CardinalityType, FS_EmptySet
<1>5. n > 0 <=> Adding(v, c, k) # {}
  BY <1>4
<1> QED
  BY <1>2, <1>3, <1>4, <1>5

LEMMA SameCardinality == \A S : OverlayRecent!Cardinality(S) = Cardinality(S)
BY Zenon DEF OverlayRecent!Cardinality, Cardinality

(* read_overlay counts each block that adds the node once. *)
LEMMA ReferencesCount ==
  ASSUME NEW v, NEW c, ViewsOK(v, c), NEW j, JournalOK(j, v, c), NEW k,
         NEW s, s = [e \in Eras |-> StoredRecords(j[e])]
  PROVE  OverlayRecent!References(s, k) = Cardinality(Adding(v, c, k))
<1>1. PICK P : P = {ei \in Eras \X (1..MaxBlocks) :
                      ei[2] <= Len(s[ei[1]]) /\ k \in s[ei[1]][ei[2]].insertions}
  OBVIOUS
<1>2. OverlayRecent!References(s, k) = Cardinality(P)
  BY <1>1, SameCardinality DEF OverlayRecent!References, OverlayRecent!Eras, Eras
<1>3. IsFiniteSet(P)
  <2>1. IsFiniteSet(Eras) /\ IsFiniteSet(1..MaxBlocks)
    BY ClientConstants, FS_Interval DEF Eras
  <2>2. IsFiniteSet(Eras \X (1..MaxBlocks))
    BY <2>1, FS_Product
  <2>3. P \in SUBSET (Eras \X (1..MaxBlocks))
    BY <1>1
  <2> QED
    BY <2>2, <2>3, FS_Subset
<1>4. ASSUME NEW e \in Eras
      PROVE  \E n \in 0..MaxBlocks :
               /\ \A i \in Indexes : i < n <=> j[e][i] # NoRecord
               /\ Len(s[e]) = n /\ n \in Nat
               /\ \A i \in 1..n : s[e][i] = j[e][i - 1]
  <2>1. \A i, n \in Indexes : j[e][i] # NoRecord /\ n < i => j[e][n] # NoRecord
    BY DEF JournalOK
  <2>2. s[e] = StoredRecords(j[e])
    OBVIOUS
  <2>3. PICK n \in 0..MaxBlocks :
          /\ \A i \in Indexes : i < n <=> j[e][i] # NoRecord
          /\ StoredRecords(j[e]) = [i \in 1..n |-> j[e][i - 1]]
          /\ Len(StoredRecords(j[e])) = n /\ n \in Nat
    BY <2>1, StoredFacts
  <2>4. \A i \in 1..n : s[e][i] = j[e][i - 1]
    BY <2>2, <2>3
  <2> QED
    BY <2>2, <2>3, <2>4
<1>5. PICK f : f = [ei \in P |-> j[ei[1]][ei[2] - 1].id]
  OBVIOUS
<1>6. ASSUME NEW ei \in P
      PROVE  /\ ei[1] \in Eras /\ ei[2] \in 1..MaxBlocks /\ ei = <<ei[1], ei[2]>> /\ ei[2] - 1 \in Indexes
             /\ f[ei] \in Adding(v, c, k)
             /\ j[ei[1]][ei[2] - 1] = RecordOf(v, f[ei]) /\ Era(f[ei]) = ei[1]
  <2>1. PICK e \in Eras, n \in 1..MaxBlocks :
          ei = <<e, n>> /\ n <= Len(s[e]) /\ k \in s[e][n].insertions
    BY <1>1
  <2>2. PICK m \in 0..MaxBlocks :
          /\ \A i \in Indexes : i < m <=> j[e][i] # NoRecord
          /\ Len(s[e]) = m /\ m \in Nat
          /\ \A i \in 1..m : s[e][i] = j[e][i - 1]
    BY <1>4
  <2>3. n \in 1..m /\ n - 1 \in Indexes /\ n - 1 < m
    BY <2>1, <2>2, ClientConstants DEF Indexes
  <2>4. j[e][n - 1] # NoRecord /\ s[e][n] = j[e][n - 1]
    BY <2>2, <2>3
  <2>5. PICK b \in Above(v, c) : j[e][n - 1] = RecordOf(v, b) /\ Era(b) = e
    BY <2>3, <2>4, JournalFacts
  <2>6. f[ei] = b
    <3>1. RecordOf(v, b).id = b
      BY AboveFacts
    <3> QED
      BY <1>5, <2>1, <2>5, <3>1
  <2>7. b \in Adding(v, c, k)
    BY <2>1, <2>4, <2>5, AboveFacts DEF Adding
  <2> QED
    BY <2>1, <2>3, <2>5, <2>6, <2>7
<1>7. f \in [P -> Adding(v, c, k)]
  BY <1>5, <1>6
<1>8. ASSUME NEW x \in P, NEW y \in P, f[x] = f[y]
      PROVE  x = y
  <2>1. x[1] = y[1] /\ j[x[1]][x[2] - 1] = j[x[1]][y[2] - 1] /\ x[1] \in Eras
    BY <1>6, <1>8
  <2>2. x[2] - 1 \in Indexes /\ y[2] - 1 \in Indexes /\ x[2] \in 1..MaxBlocks /\ y[2] \in 1..MaxBlocks
    BY <1>6
  <2>3. j[x[1]][x[2] - 1] # NoRecord
    <3>1. f[x] \in Above(v, c)
      BY <1>6 DEF Adding
    <3>2. RecordOf(v, f[x]) # NoRecord
      BY <3>1, AboveFacts
    <3> QED
      BY <1>6, <3>2
  <2>4. x[2] - 1 = y[2] - 1
    BY <2>1, <2>2, <2>3 DEF JournalOK
  <2>5. x[2] = y[2]
    BY <2>2, <2>4, ClientConstants
  <2>6. x = <<x[1], x[2]>> /\ y = <<y[1], y[2]>>
    BY <1>6
  <2> QED
    BY <2>1, <2>5, <2>6, Zenon
<1>9. ASSUME NEW b \in Adding(v, c, k)
      PROVE  \E x \in P : f[x] = b
  <2>1. b \in Above(v, c) /\ k \in Added(v, b)
    BY DEF Adding
  <2>2. /\ Era(b) \in Eras /\ RecordOf(v, b) # NoRecord /\ RecordOf(v, b).id = b
        /\ RecordOf(v, b).insertions = Added(v, b)
    BY <2>1, AboveFacts
  <2>3. PICK i \in Indexes : j[Era(b)][i] = RecordOf(v, b)
    BY <2>1 DEF JournalOK
  <2>4. PICK m \in 0..MaxBlocks :
          /\ \A n \in Indexes : n < m <=> j[Era(b)][n] # NoRecord
          /\ Len(s[Era(b)]) = m /\ m \in Nat
          /\ \A n \in 1..m : s[Era(b)][n] = j[Era(b)][n - 1]
    BY <1>4, <2>2
  <2>5. i < m
    BY <2>2, <2>3, <2>4
  <2>6. i + 1 \in 1..m /\ i + 1 \in 1..MaxBlocks /\ (i + 1) - 1 = i /\ i + 1 <= m
    BY <2>4, <2>5, ClientConstants DEF Indexes
  <2>7. s[Era(b)][i + 1] = RecordOf(v, b)
    BY <2>3, <2>4, <2>6
  <2>8. PICK x : x = <<Era(b), i + 1>>
    OBVIOUS
  <2>9. x \in P
    BY <1>1, <2>1, <2>2, <2>4, <2>6, <2>7, <2>8
  <2>10. f[x] = b
    BY <1>5, <2>2, <2>3, <2>6, <2>8, <2>9
  <2> QED
    BY <2>9, <2>10
<1>10. Cardinality(Adding(v, c, k)) = Cardinality(P)
  BY <1>3, <1>7, <1>8, <1>9, SameSize
<1> QED
  BY <1>2, <1>10

(* So often a node is purged from the overlay: once for each block of the era. *)
Inserting(R, k) == {r \in R : k \in r.insertions}
AddingAt(v, c, k, e) == {b \in Adding(v, c, k) : Era(b) = e}

LEMMA PurgeCount ==
  ASSUME NEW v, NEW c, ViewsOK(v, c), NEW e, NEW k, NEW R, R = RecordsAt(v, c, e)
  PROVE  /\ Cardinality(Inserting(R, k)) = Cardinality(AddingAt(v, c, k, e))
         /\ IsFiniteSet(AddingAt(v, c, k, e))
<1> USE DEF RecordsAt, Inserting, AddingAt
<1>1. PICK S : S = {b \in Adding(v, c, k) : Era(b) = e}
  OBVIOUS
<1>2. PICK T : T = {r \in R : k \in r.insertions}
  OBVIOUS
<1>3. IsFiniteSet(S)
  <2>1. IsFiniteSet(Adding(v, c, k)) /\ S \in SUBSET Adding(v, c, k)
    BY <1>1, AddingFinite
  <2> QED
    BY <2>1, FS_Subset
<1>4. PICK f : f = [b \in S |-> RecordOf(v, b)]
  OBVIOUS
<1>5. \A b \in S : b \in Above(v, c) /\ Era(b) = e /\ k \in Added(v, b)
  BY <1>1 DEF Adding
<1>6. \A b \in S : f[b] \in T /\ f[b].id = b
  <2> SUFFICES ASSUME NEW b \in S PROVE f[b] \in T /\ f[b].id = b
    OBVIOUS
  <2>1. b \in Above(v, c) /\ Era(b) = e /\ k \in Added(v, b)
    BY <1>5
  <2>2. RecordOf(v, b).id = b /\ RecordOf(v, b).insertions = Added(v, b)
    BY <2>1, AboveFacts
  <2> QED
    BY <1>2, <1>4, <2>1, <2>2
<1>7. ASSUME NEW t \in T
      PROVE  \E b \in S : f[b] = t
  <2>1. PICK b \in Above(v, c) : t = RecordOf(v, b) /\ Era(b) = e /\ k \in t.insertions
    BY <1>2
  <2>2. k \in Added(v, b)
    BY <2>1, AboveFacts
  <2>3. b \in S
    BY <1>1, <2>1, <2>2 DEF Adding
  <2> QED
    BY <1>4, <2>1, <2>3
<1>8. f \in [S -> T] /\ \A x, y \in S : f[x] = f[y] => x = y
  <2>1. f \in [S -> T]
    BY <1>4, <1>6
  <2>2. \A x, y \in S : f[x] = f[y] => x = y
    BY <1>6
  <2> QED
    BY <2>1, <2>2
<1>9. Cardinality(T) = Cardinality(S)
  BY <1>3, <1>7, <1>8, SameSize
<1> QED
  BY <1>1, <1>2, <1>3, <1>9

-------------------------------------------------------------------------------
(* What every block on the way from c needs *)

(* A node of a block above c is a node of c, or some block above c adds it. *)
LEMMA Covered ==
  ASSUME NEW v, NEW c, ViewsOK(v, c), NEW b \in Known(v), Extends(b, c), NEW k \in v[b]
  PROVE  k \in v[c] \/ Adding(v, c, k) # {}
<1>1. c \in Known(v) /\ c \in Blocks /\ b \in Blocks /\ Len(b) \in Nat /\ Len(c) \in Nat
  BY KnownFacts DEF ViewsOK
<1>2. Len(c) <= Len(b) /\ Ancestor(b, Len(c)) = c
  BY <1>1, ExtendsAncestor
<1>3. PICK l \in Nat : l = Len(b) - Len(c)
  BY <1>1, <1>2
<1>4. PICK S : S = {m \in 0..l : k \in v[Ancestor(b, Len(c) + m)] => k \in v[c] \/ Adding(v, c, k) # {}}
  OBVIOUS
<1>5. 0 \in S
  BY <1>1, <1>2, <1>4
<1>6. ASSUME NEW m \in 1..l, m - 1 \in S
      PROVE  m \in S
  <2>1. PICK n \in Nat : n = Len(c) + m /\ n \in 0..Len(b) /\ n > Len(c) /\ n - 1 = Len(c) + (m - 1)
                         /\ n - 1 \in 0..n
    BY <1>1, <1>3
  <2>2. PICK a : a = Ancestor(b, n)
    OBVIOUS
  <2>3. a \in Known(v) /\ a \in Blocks /\ Len(a) = n
    BY <1>1, <2>1, <2>2, AncestorFacts DEF ViewsOK
  <2>4. a \in Above(v, c)
    BY <2>1, <2>3 DEF Above
  <2>5. Parent(a) = Ancestor(b, n - 1)
    <3>1. \A i \in 0..n : Ancestor(Ancestor(b, n), i) = Ancestor(b, i)
      BY <1>1, <2>1, AncestorFacts
    <3>2. Ancestor(a, n - 1) = Ancestor(b, n - 1)
      BY <2>1, <2>2, <3>1
    <3> QED
      BY <2>3, <3>2 DEF Parent
  <2>6. ASSUME k \in v[a]
        PROVE  k \in v[c] \/ Adding(v, c, k) # {}
    <3>1. CASE k \in v[Parent(a)]
      BY <1>4, <1>6, <2>1, <2>5, <3>1
    <3>2. CASE k \notin v[Parent(a)]
      <4>1. a \in Adding(v, c, k)
        BY <2>4, <2>6, <3>2 DEF Adding, Added
      <4> QED
        BY <4>1
    <3> QED
      BY <3>1, <3>2
  <2> QED
    BY <1>4, <2>1, <2>2, <2>6
<1>7. \A m \in 0..l : m \in S
  BY <1>5, <1>6, InductionTo
<1>8. l \in S /\ Len(c) + l = Len(b)
  BY <1>1, <1>3, <1>7
<1> QED
  BY <1>1, <1>4, <1>8, OwnAncestor

-------------------------------------------------------------------------------
(* A block is journalled *)

(* u are the views v with block b, of state w, built on t. *)
ExtendedBy(u, v, c, t, w, b) ==
  /\ ViewsOK(u, c)
  /\ Known(u) = Known(v) \cup {b} /\ b \notin Known(v)
  /\ Above(u, c) = Above(v, c) \cup {b}
  /\ u[b] = w /\ Parent(b) = t /\ Len(b) = Len(t) + 1 /\ Era(b) \in Eras
  /\ \A a \in Known(v) : u[a] = v[a]
  /\ \A a \in Above(v, c) : Added(u, a) = Added(v, a) /\ RecordOf(u, a) = RecordOf(v, a)
  /\ RecordOf(u, b) = Record(b, w \ v[t], v[t] \ w)
  /\ \A k : /\ Adding(u, c, k) = IF k \in w \ v[t] THEN Adding(v, c, k) \cup {b} ELSE Adding(v, c, k)
            /\ b \notin Adding(v, c, k)

LEMMA NewBlock ==
  ASSUME NEW v, NEW c, ViewsOK(v, c), NEW t \in Known(v), Len(t) >= Len(c), NEW w \in SUBSET Keys,
         NEW id \in Ids, NEW b \in Blocks, b = Append(t, id), v[b] = NoView,
         NEW u, u = [v EXCEPT ![b] = w]
  PROVE  ExtendedBy(u, v, c, t, w, b)
<1>1. /\ v \in [Blocks -> (SUBSET Keys) \cup {NoView}] /\ IsFiniteSet(Known(v)) /\ c \in Known(v)
      /\ \A a \in Known(v) : \A n \in 0..Len(a) : Ancestor(a, n) \in Known(v)
  BY DEF ViewsOK
<1>2. t \in Blocks /\ Len(t) \in Nat /\ c \in Blocks /\ Len(c) \in Nat
  BY <1>1, KnownFacts
<1>3. /\ Len(b) = Len(t) + 1 /\ Len(b) > 0 /\ Era(b) \in Eras /\ Parent(b) = t
      /\ \A n \in 0..Len(t) : Ancestor(b, n) = Ancestor(t, n)
  BY <1>2, ChildFacts
<1>4. u \in [Blocks -> (SUBSET Keys) \cup {NoView}] /\ u[b] = w /\ \A a \in Blocks : a # b => u[a] = v[a]
  BY <1>1
<1>5. w # NoView /\ b \notin Known(v)
  BY ClientConstants DEF Known
<1>6. Known(u) = Known(v) \cup {b}
  BY <1>4, <1>5 DEF Known
<1>7. \A a \in Known(v) : u[a] = v[a]
  BY <1>4, <1>5, KnownFacts
<1>8. ViewsOK(u, c)
  <2>1. IsFiniteSet(Known(u))
    <3>1. IsFiniteSet(Known(v) \cup {b})
      BY <1>1, FS_AddElement
    <3> QED
      BY <1>6, <3>1
  <2>2. ASSUME NEW n \in 0..Len(b)
        PROVE  Ancestor(b, n) \in Known(u)
    <3>1. CASE n = Len(b)
      BY <1>6, <3>1, OwnAncestor
    <3>2. CASE n # Len(b)
      <4>1. n \in 0..Len(t)
        BY <1>2, <1>3, <3>2
      <4> QED
        BY <1>1, <1>3, <1>6, <4>1
    <3> QED
      BY <3>1, <3>2
  <2>3. \A a \in Known(u) : \A n \in 0..Len(a) : Ancestor(a, n) \in Known(u)
    BY <1>1, <1>6, <2>2
  <2> QED
    BY <1>1, <1>4, <1>6, <2>1, <2>3 DEF ViewsOK
<1>9. Above(u, c) = Above(v, c) \cup {b}
  <2>1. Len(b) > Len(c)
    BY <1>2, <1>3
  <2> QED
    BY <1>6, <2>1 DEF Above
<1>10. \A a \in Above(v, c) : Added(u, a) = Added(v, a) /\ RecordOf(u, a) = RecordOf(v, a)
  <2> SUFFICES ASSUME NEW a \in Above(v, c)
               PROVE  Added(u, a) = Added(v, a) /\ RecordOf(u, a) = RecordOf(v, a)
    OBVIOUS
  <2>1. a \in Known(v) /\ Parent(a) \in Known(v)
    BY AboveFacts
  <2>2. u[a] = v[a] /\ u[Parent(a)] = v[Parent(a)]
    BY <1>7, <2>1
  <2> QED
    BY <2>2 DEF Added, Taken, RecordOf
<1>11. Added(u, b) = w \ v[t] /\ RecordOf(u, b) = Record(b, w \ v[t], v[t] \ w)
  <2>1. u[t] = v[t]
    BY <1>7
  <2> QED
    BY <1>3, <1>4, <2>1 DEF Added, Taken, RecordOf
<1>12. ASSUME NEW k
       PROVE  /\ Adding(u, c, k) = IF k \in w \ v[t] THEN Adding(v, c, k) \cup {b} ELSE Adding(v, c, k)
              /\ b \notin Adding(v, c, k)
  <2>1. b \notin Above(v, c)
    BY <1>5 DEF Above
  <2> QED
    BY <1>9, <1>10, <1>11, <2>1 DEF Adding
<1> QED
  BY <1>3, <1>4, <1>5, <1>6, <1>7, <1>8, <1>9, <1>10, <1>11, <1>12 DEF ExtendedBy

(* The era of a block that may still be journalled has a free index. *)
LEMMA IndexFree ==
  ASSUME NEW v, NEW c, ViewsOK(v, c), NEW j, JournalOK(j, v, c), NEW e \in Eras,
         Cardinality(Known(v)) <= MaxBlocks
  PROVE  /\ Len(StoredRecords(j[e])) \in Indexes
         /\ \A i \in Indexes : i < Len(StoredRecords(j[e])) <=> j[e][i] # NoRecord
<1>1. \A i, n \in Indexes : j[e][i] # NoRecord /\ n < i => j[e][n] # NoRecord
  BY DEF JournalOK
<1>2. PICK n \in 0..MaxBlocks :
        /\ \A i \in Indexes : i < n <=> j[e][i] # NoRecord
        /\ Len(StoredRecords(j[e])) = n /\ n \in Nat
  BY <1>1, StoredFacts
<1>3. PICK T : T = Known(v) \ {Genesis}
  OBVIOUS
<1>4. c \in Known(v) /\ c \in Blocks /\ Len(c) \in Nat /\ Genesis \in Known(v) /\ IsFiniteSet(Known(v))
  <2>1. c \in Known(v) /\ IsFiniteSet(Known(v))
    BY DEF ViewsOK
  <2>2. c \in Blocks /\ Len(c) \in Nat
    BY <2>1, KnownFacts
  <2>3. Ancestor(c, 0) \in Known(v)
    BY <2>1, <2>2 DEF ViewsOK
  <2> QED
    BY <2>1, <2>2, <2>3, OwnAncestor
<1>5. IsFiniteSet(T) /\ Cardinality(T) = Cardinality(Known(v)) - 1 /\ Cardinality(Known(v)) \in Nat
  BY <1>3, <1>4, FS_RemoveElement, FS_CardinalityType
<1>6. PICK f : f = [i \in 0..(n - 1) |-> j[e][i].id]
  OBVIOUS
<1>7. ASSUME NEW i \in 0..(n - 1)
      PROVE  i \in Indexes /\ j[e][i] # NoRecord /\ f[i] \in T /\ j[e][i] = RecordOf(v, f[i])
  <2>1. i \in Indexes /\ j[e][i] # NoRecord
    BY <1>2, ClientConstants DEF Indexes
  <2>2. PICK b \in Above(v, c) : j[e][i] = RecordOf(v, b)
    BY <2>1, JournalFacts
  <2>3. b \in Known(v) /\ Len(b) > 0 /\ RecordOf(v, b).id = b
    BY AboveFacts
  <2>4. b # Genesis
    <3>1. Len(Genesis) = 0
      BY DEF Genesis
    <3> QED
      BY <2>3, <3>1
  <2> QED
    BY <1>3, <1>6, <2>1, <2>2, <2>3, <2>4
<1>8. f \in Injection(0..(n - 1), T)
  <2>1. f \in [0..(n - 1) -> T]
    BY <1>6, <1>7
  <2>2. ASSUME NEW x \in 0..(n - 1), NEW y \in 0..(n - 1), f[x] = f[y]
        PROVE  x = y
    <3>1. j[e][x] = j[e][y] /\ j[e][x] # NoRecord /\ x \in Indexes /\ y \in Indexes
      BY <1>7, <2>2
    <3> QED
      BY <3>1 DEF JournalOK
  <2> QED
    BY <2>1, <2>2 DEF Injection, IsInjective
<1>9. Cardinality(0..(n - 1)) <= Cardinality(T)
  BY <1>5, <1>8, FS_Injection
<1>10. Cardinality(0..(n - 1)) = n
  BY <1>2, FS_Interval
<1>11. n <= MaxBlocks - 1
  BY <1>2, <1>5, <1>9, <1>10, ClientConstants
<1>12. n \in Indexes
  BY <1>2, <1>11 DEF Indexes
<1> QED
  BY <1>2, <1>12

(* Its record goes to the first free index of its era. *)
FirstFree(n, j, e) == \A i \in Indexes : i < n <=> j[e][i] # NoRecord
Put(j, e, n, r) == [j EXCEPT ![e] = [j[e] EXCEPT ![n] = r]]
Appended(k, j, e, r) == Stored(k) = [Stored(j) EXCEPT ![e] = Append(Stored(j)[e], r)]

LEMMA NewRecord ==
  ASSUME NEW v, NEW c, ViewsOK(v, c), NEW j, JournalOK(j, v, c),
         NEW u, NEW t, NEW w, NEW b, ExtendedBy(u, v, c, t, w, b),
         NEW n \in Indexes, FirstFree(n, j, Era(b)),
         NEW k, k = Put(j, Era(b), n, RecordOf(u, b))
  PROVE  JournalOK(k, u, c) /\ Appended(k, j, Era(b), RecordOf(u, b))
<1> USE DEF FirstFree, Put, Appended
<1>1. /\ ViewsOK(u, c) /\ b \in Above(u, c) /\ b \notin Above(v, c)
      /\ Above(u, c) = Above(v, c) \cup {b}
      /\ \A a \in Above(v, c) : RecordOf(u, a) = RecordOf(v, a)
  BY DEF ExtendedBy, Above
<1>2. PICK V : V = {RecordOf(u, a) : a \in Above(u, c)} \cup {NoRecord}
  OBVIOUS
<1>3. PICK now \in Eras : now = Era(b)
  BY <1>1, AboveFacts
<1>4. PICK r : r = RecordOf(u, b)
  OBVIOUS
<1>5. r # NoRecord /\ r.id = b /\ r \in V
  BY <1>1, <1>2, <1>4, AboveFacts
<1>6. j \in [Eras -> [Indexes -> V]]
  <2>1. j \in [Eras -> [Indexes -> {RecordOf(v, a) : a \in Above(v, c)} \cup {NoRecord}]]
    BY DEF JournalOK
  <2>2. {RecordOf(v, a) : a \in Above(v, c)} \cup {NoRecord} \subseteq V
    BY <1>1, <1>2
  <2> QED
    BY <2>1, <2>2
<1>7. k = [j EXCEPT ![now] = [j[now] EXCEPT ![n] = r]]
  BY <1>3, <1>4
<1>8. /\ k \in [Eras -> [Indexes -> V]] /\ k[now][n] = r
      /\ \A e \in Eras, i \in Indexes : ~(e = now /\ i = n) => k[e][i] = j[e][i]
      /\ \A e \in Eras : e # now => k[e] = j[e]
      /\ k[now] = [j[now] EXCEPT ![n] = r]
  <2>1. PICK q : q = [j[now] EXCEPT ![n] = r]
    OBVIOUS
  <2>2. j[now] \in [Indexes -> V]
    BY <1>6
  <2>3. q \in [Indexes -> V] /\ q[n] = r /\ \A i \in Indexes : i # n => q[i] = j[now][i]
    BY <1>5, <2>1, <2>2
  <2>4. k = [j EXCEPT ![now] = q]
    BY <1>7, <2>1
  <2>5. k \in [Eras -> [Indexes -> V]] /\ k[now] = q /\ \A e \in Eras : e # now => k[e] = j[e]
    BY <1>6, <2>3, <2>4
  <2>6. ASSUME NEW e \in Eras, NEW i \in Indexes, ~(e = now /\ i = n)
        PROVE  k[e][i] = j[e][i]
    BY <2>3, <2>5, <2>6
  <2> QED
    BY <2>1, <2>3, <2>5, <2>6
<1>9. \A i \in Indexes : j[now][i] # r
  <2> SUFFICES ASSUME NEW i \in Indexes, j[now][i] = r PROVE FALSE
    OBVIOUS
  <2>1. PICK a \in Above(v, c) : j[now][i] = RecordOf(v, a)
    BY <1>5, JournalFacts
  <2>2. a = b
    BY <1>5, <2>1, AboveFacts
  <2> QED
    BY <1>1, <2>2
<1>10. \A i \in Indexes : i < n <=> j[now][i] # NoRecord
  BY <1>3
<1>11. j[now] \in [Indexes -> V]
  BY <1>6
<1>12. /\ StoredRecords(k[now]) = Append(StoredRecords(j[now]), r)
       /\ \A i \in Indexes : i < n + 1 <=> k[now][i] # NoRecord
  <2>1. /\ StoredRecords([j[now] EXCEPT ![n] = r]) = Append(StoredRecords(j[now]), r)
        /\ \A i \in Indexes : i < n + 1 <=> [j[now] EXCEPT ![n] = r][i] # NoRecord
    BY <1>5, <1>10, <1>11, StoredAppend
  <2> QED
    BY <1>8, <2>1
<1>13. JournalOK(k, u, c)
  <2>1. ASSUME NEW e \in Eras, NEW i \in Indexes, k[e][i] # NoRecord
        PROVE  Era(k[e][i].id) = e
    <3>1. CASE e = now /\ i = n
      BY <1>3, <1>5, <1>8, <3>1
    <3>2. CASE ~(e = now /\ i = n)
      BY <1>8, <2>1, <3>2 DEF JournalOK
    <3> QED
      BY <3>1, <3>2
  <2>2. ASSUME NEW a \in Above(u, c)
        PROVE  \E i \in Indexes : k[Era(a)][i] = RecordOf(u, a)
    <3>1. CASE a = b
      BY <1>3, <1>4, <1>8, <3>1
    <3>2. CASE a # b
      <4>1. a \in Above(v, c)
        BY <1>1, <3>2
      <4>2. PICK i \in Indexes : j[Era(a)][i] = RecordOf(v, a)
        BY <4>1 DEF JournalOK
      <4>3. Era(a) \in Eras /\ RecordOf(v, a) # NoRecord /\ RecordOf(u, a) = RecordOf(v, a)
        BY <1>1, <4>1, AboveFacts
      <4>4. j[now][n] = NoRecord
        <5>1. ~(n < n)
          BY DEF Indexes
        <5> QED
          BY <1>10, <5>1
      <4>5. ~(Era(a) = now /\ i = n)
        BY <4>2, <4>3, <4>4
      <4> QED
        BY <1>8, <4>2, <4>3, <4>5
    <3> QED
      BY <3>1, <3>2
  <2>3. ASSUME NEW e \in Eras, NEW i \in Indexes, NEW m \in Indexes, k[e][i] # NoRecord, k[e][i] = k[e][m]
        PROVE  i = m
    <3>1. CASE e # now
      BY <1>8, <2>3, <3>1 DEF JournalOK
    <3>2. CASE e = now
      <4>1. CASE i = n /\ m # n
        BY <1>8, <1>9, <2>3, <3>2, <4>1
      <4>2. CASE i # n /\ m = n
        BY <1>8, <1>9, <2>3, <3>2, <4>2
      <4>3. CASE i # n /\ m # n
        BY <1>8, <2>3, <3>2, <4>3 DEF JournalOK
      <4> QED
        BY <4>1, <4>2, <4>3
    <3> QED
      BY <3>1, <3>2
  <2>4. ASSUME NEW e \in Eras, NEW i \in Indexes, NEW m \in Indexes, k[e][i] # NoRecord, m < i
        PROVE  k[e][m] # NoRecord
    <3>1. CASE e # now
      BY <1>8, <2>4, <3>1 DEF JournalOK
    <3>2. CASE e = now
      <4>1. i < n + 1
        BY <1>12, <2>4, <3>2
      <4>2. m < n + 1
        BY <2>4, <4>1 DEF Indexes
      <4> QED
        BY <1>12, <3>2, <4>2
    <3> QED
      BY <3>1, <3>2
  <2> QED
    BY <1>2, <1>8, <2>1, <2>2, <2>3, <2>4 DEF JournalOK
<1>14. Stored(k) = [Stored(j) EXCEPT ![now] = Append(Stored(j)[now], r)]
  <2>1. \A e \in Eras : StoredRecords(k[e]) =
                          IF e = now THEN Append(StoredRecords(j[now]), r) ELSE StoredRecords(j[e])
    BY <1>8, <1>12
  <2> QED
    BY <2>1 DEF Stored
<1> QED
  BY <1>3, <1>4, <1>13, <1>14

LEMMA NewLatest ==
  ASSUME NEW v, NEW c, ViewsOK(v, c), NEW l, LatestOK(l, v),
         NEW b \in Blocks, Len(b) > 0, NEW u, Known(u) = Known(v) \cup {b}
  PROVE  LatestOK(Latest(l, Era(b)), u)
<1>1. PICK now \in Eras : now = Era(b) /\ now \in Nat
  BY EraFacts
<1>2. now # NoEra
  BY JournalConstants
<1>3. CASE l = NoEra
  <2>1. \A a \in Known(v) : ~(Len(a) > 0)
    BY <1>3 DEF LatestOK
  <2>2. Latest(l, Era(b)) = now
    BY <1>1, <1>3 DEF Latest
  <2> QED
    BY <1>1, <1>2, <2>1, <2>2 DEF LatestOK
<1>4. CASE l # NoEra
  <2>1. l \in Eras /\ l \in Nat
    BY <1>4 DEF LatestOK, Eras
  <2>2. PICK m : m = Latest(l, Era(b))
    OBVIOUS
  <2>3. m = (IF now > l THEN now ELSE l)
    BY <1>1, <1>4, <2>2 DEF Latest
  <2>4. m \in Eras /\ m # NoEra /\ now <= m /\ l <= m /\ m \in Nat
    BY <1>1, <1>2, <1>4, <2>1, <2>3
  <2>5. \E a \in Known(u) : Era(a) = m
    BY <1>1, <1>4, <2>3 DEF LatestOK
  <2>6. ASSUME NEW a \in Known(u), Len(a) > 0
        PROVE  Era(a) <= m
    <3>1. CASE a = b
      BY <1>1, <2>4, <3>1
    <3>2. CASE a # b
      <4>1. a \in Known(v)
        BY <3>2
      <4>2. Era(a) <= l /\ Era(a) \in Int
        BY <2>6, <4>1, KnownFacts DEF LatestOK, Era
      <4> QED
        BY <2>1, <2>4, <4>2
    <3> QED
      BY <3>1, <3>2
  <2> QED
    BY <2>2, <2>4, <2>5, <2>6 DEF LatestOK
<1> QED
  BY <1>3, <1>4

-------------------------------------------------------------------------------
(* A block becomes canonical *)

LEMMA NextCanonical ==
  ASSUME NEW v, NEW c, ViewsOK(v, c), NEW d \in Known(v), Extends(d, c), Len(d) = Len(c) + 1
  PROVE  /\ ViewsOK(v, d)
         /\ d \in Above(v, c) /\ Parent(d) = c /\ Era(d) \in Eras
         /\ Above(v, d) = {b \in Above(v, c) : Era(b) # Era(d)}
         /\ \A k : Adding(v, d, k) = {b \in Adding(v, c, k) : Era(b) # Era(d)}
<1>1. c \in Known(v) /\ c \in Blocks /\ d \in Blocks /\ Len(c) \in Nat /\ Len(d) \in Nat
  BY KnownFacts DEF ViewsOK
<1>2. ViewsOK(v, d)
  BY DEF ViewsOK
<1>3. d \in Above(v, c)
  BY <1>1 DEF Above
<1>4. Parent(d) = c
  <2>1. Ancestor(d, Len(c)) = c /\ Len(d) - 1 = Len(c)
    BY <1>1, ExtendsAncestor
  <2> QED
    BY <2>1 DEF Parent
<1>5. Above(v, d) = {b \in Above(v, c) : Era(b) # Era(d)}
  <2>1. ASSUME NEW b \in Known(v)
        PROVE  Len(b) > Len(d) <=> Len(b) > Len(c) /\ Era(b) # Era(d)
    <3>1. Len(b) \in Nat
      BY KnownFacts
    <3> QED
      BY <1>1, <3>1 DEF Era
  <2> QED
    BY <2>1 DEF Above
<1>6. \A k : Adding(v, d, k) = {b \in Adding(v, c, k) : Era(b) # Era(d)}
  BY <1>5 DEF Adding
<1> QED
  BY <1>2, <1>3, <1>4, <1>5, <1>6, AboveFacts

(* The records of its era leave the journal. *)
AboveBut(v, c, e) == {b \in Above(v, c) : Era(b) # e}
Erased(k, j, e) == k = [j EXCEPT ![e] = [i \in Indexes |-> NoRecord]]

LEMMA EraErased ==
  ASSUME NEW v, NEW c, ViewsOK(v, c), NEW j, JournalOK(j, v, c), NEW d, ViewsOK(v, d),
         NEW e \in Eras, Above(v, d) = AboveBut(v, c, e), NEW k, Erased(k, j, e)
  PROVE  JournalOK(k, v, d) /\ Stored(k) = [Stored(j) EXCEPT ![e] = << >>]
<1> USE DEF AboveBut, Erased
<1>1. PICK V : V = {RecordOf(v, b) : b \in Above(v, d)} \cup {NoRecord}
  OBVIOUS
<1>2. j \in [Eras -> [Indexes -> {RecordOf(v, b) : b \in Above(v, c)} \cup {NoRecord}]]
  BY DEF JournalOK
<1>3. /\ \A i \in Indexes : k[e][i] = NoRecord
      /\ \A f \in Eras : f # e => k[f] = j[f]
      /\ k = [f \in Eras |-> IF f = e THEN [i \in Indexes |-> NoRecord] ELSE j[f]]
  BY <1>2
<1>4. ASSUME NEW f \in Eras, f # e
      PROVE  j[f] \in [Indexes -> V]
  <2>1. j[f] \in [Indexes -> {RecordOf(v, b) : b \in Above(v, c)} \cup {NoRecord}]
    BY <1>2
  <2>2. ASSUME NEW i \in Indexes
        PROVE  j[f][i] \in V
    <3>1. CASE j[f][i] = NoRecord
      BY <1>1, <3>1
    <3>2. CASE j[f][i] # NoRecord
      <4>1. PICK b \in Above(v, c) : j[f][i] = RecordOf(v, b) /\ Era(b) = f
        BY <3>2, JournalFacts
      <4> QED
        BY <1>1, <1>4, <4>1
    <3> QED
      BY <3>1, <3>2
  <2> QED
    BY <2>1, <2>2
<1>5. k \in [Eras -> [Indexes -> V]]
  <2>1. NoRecord \in V
    BY <1>1
  <2>2. [i \in Indexes |-> NoRecord] \in [Indexes -> V]
    BY <2>1
  <2> QED
    BY <1>3, <1>4, <2>2
<1>6. ASSUME NEW f \in Eras, NEW i \in Indexes, k[f][i] # NoRecord
      PROVE  f # e /\ k[f] = j[f]
  BY <1>3, <1>6
<1>7. ASSUME NEW b \in Above(v, d)
      PROVE  \E i \in Indexes : k[Era(b)][i] = RecordOf(v, b)
  <2>1. b \in Above(v, c) /\ Era(b) # e
    OBVIOUS
  <2>2. PICK i \in Indexes : j[Era(b)][i] = RecordOf(v, b)
    BY <2>1 DEF JournalOK
  <2>3. Era(b) \in Eras
    BY AboveFacts
  <2> QED
    BY <1>3, <2>1, <2>2, <2>3
<1>8. JournalOK(k, v, d)
  <2>1. \A f \in Eras, i \in Indexes : k[f][i] # NoRecord => Era(k[f][i].id) = f
    BY <1>6 DEF JournalOK
  <2>2. \A f \in Eras : \A i, n \in Indexes : k[f][i] # NoRecord /\ k[f][i] = k[f][n] => i = n
    BY <1>6 DEF JournalOK
  <2>3. \A f \in Eras : \A i, n \in Indexes : k[f][i] # NoRecord /\ n < i => k[f][n] # NoRecord
    BY <1>6 DEF JournalOK
  <2> QED
    BY <1>1, <1>5, <1>7, <2>1, <2>2, <2>3 DEF JournalOK
<1>9. StoredRecords(k[e]) = << >>
  BY <1>3, StoredNothing
<1>10. Stored(k) = [Stored(j) EXCEPT ![e] = << >>]
  <2>1. \A f \in Eras : StoredRecords(k[f]) = IF f = e THEN << >> ELSE StoredRecords(j[f])
    BY <1>3, <1>9
  <2> QED
    BY <2>1 DEF Stored
<1> QED
  BY <1>8, <1>10

-------------------------------------------------------------------------------
(* OverlayRecentDB: its operations in the terms of the lemmas above *)

LEMMA SameOperators ==
  /\ OverlayRecent!Blocks = Blocks /\ OverlayRecent!Eras = Eras /\ OverlayRecent!Indexes = Indexes
  /\ \A b : OverlayRecent!Era(b) = Era(b)
  /\ \A b, c : OverlayRecent!Extends(b, c) = Extends(b, c)
  /\ \A r : OverlayRecent!StoredRecords(r) = StoredRecords(r)
  /\ \A b : OverlayRecent!ErasRead(b) = ErasRead(b)
  /\ \A b, i, d : OverlayRecent!Record(b, i, d) = Record(b, i, d)
  /\ \A l, n : OverlayRecent!Latest(l, n) = Latest(l, n)
  /\ OverlayRecent!Journalled = Known(views)
  /\ \A k : OverlayRecent!EmptyMemory(k) = EmptyMemory(k)
<1>1. OverlayRecent!Blocks = Blocks /\ OverlayRecent!Eras = Eras /\ OverlayRecent!Indexes = Indexes
  BY DEF OverlayRecent!Blocks, Blocks, OverlayRecent!Eras, Eras, OverlayRecent!Indexes, Indexes
<1>2. \A r : OverlayRecent!StoredRecords(r) = StoredRecords(r)
  BY Zenon DEF OverlayRecent!StoredRecords, StoredRecords
<1>3. \A b : OverlayRecent!ErasRead(b) = ErasRead(b)
  BY <1>1, Zenon DEF OverlayRecent!ErasRead, ErasRead
<1>4. OverlayRecent!Journalled = Known(views)
  BY <1>1, Zenon DEF OverlayRecent!Journalled, Known
<1>5. \A b, c : OverlayRecent!Extends(b, c) = Extends(b, c)
  BY Zenon DEF OverlayRecent!Extends, Extends
<1> QED
  BY <1>1, <1>2, <1>3, <1>4, <1>5
  DEF OverlayRecent!Era, Era, OverlayRecent!Record, Record, OverlayRecent!Latest, Latest,
      OverlayRecent!EmptyMemory, EmptyMemory

LEMMA InsertIs ==
  ASSUME NEW k \in Keys, OverlayRecent!Insert(k)
  PROVE  /\ pc = "idle" /\ k \notin work /\ work' = work \cup {k}
         /\ memory' = [memory EXCEPT ![k] = memory[k] + 1]
         /\ UNCHANGED <<views, canon, tip, stray, kept, pc, overlay, read_cache, batch, db>>
BY DEF OverlayRecent!Insert, OverlayRecent!AddNode, OverlayRecent!Emplace

LEMMA RemoveIs ==
  ASSUME NEW k \in Keys, OverlayRecent!Remove(k)
  PROVE  /\ pc = "idle" /\ k \in work /\ work' = work \ {k}
         /\ memory' = [memory EXCEPT ![k] = memory[k] - 1]
         /\ UNCHANGED <<views, canon, tip, stray, kept, pc, overlay, read_cache, batch, db>>
BY DEF OverlayRecent!Remove, OverlayRecent!DropNode, OverlayRecent!RemoveRef

LEMMA SwitchToIs ==
  ASSUME NEW b \in Blocks, OverlayRecent!SwitchTo(b)
  PROVE  /\ memory = EmptyMemory(Keys)
         /\ b \in Known(views) /\ Extends(b, canon) /\ tip' = b /\ work' = views[b]
         /\ UNCHANGED <<views, canon, stray, kept, pc, memory, overlay, read_cache, batch, db>>
<1>1. /\ OverlayRecent!Clean /\ OverlayRecent!Switched(b) /\ UNCHANGED <<memory, overlay, read_cache>>
  BY DEF OverlayRecent!SwitchTo
<1>2. OverlayRecent!Checkout(b) /\ UNCHANGED <<pc, batch, db>>
  BY <1>1 DEF OverlayRecent!Switched
<1>3. b \in OverlayRecent!Live /\ tip' = b /\ work' = views[b] /\ UNCHANGED <<views, canon, stray, kept>>
  BY <1>2 DEF OverlayRecent!Checkout
<1> QED
  BY <1>1, <1>2, <1>3, SameOperators DEF OverlayRecent!Live, OverlayRecent!Clean

LEMMA GetIs ==
  ASSUME NEW k \in Keys, OverlayRecent!Get(k)
  PROVE  /\ k \notin overlay.pending_overlay
         /\ read_cache' = [read_cache EXCEPT ![k] = (k \in db.nodes)]
         /\ UNCHANGED <<views, canon, tip, work, stray, kept, pc, memory, overlay, batch, db>>
BY DEF OverlayRecent!Get, OverlayRecent!InOverlays, OverlayRecent!clientVars

LEMMA JournalUnderIs ==
  ASSUME NEW id \in Ids, OverlayRecent!JournalUnder(id)
  PROVE  \E b, ins, r, l :
           /\ b \in Blocks /\ b = Append(tip, id) /\ ins = {k \in DOMAIN memory : memory[k] > 0}
           /\ r = Record(b, ins, {k \in DOMAIN memory : memory[k] < 0})
           /\ l = Latest(overlay.latest_era, Era(b))
           /\ pc = "idle" /\ views[b] = NoView /\ Cardinality(Known(views)) <= MaxBlocks
           /\ views' = [views EXCEPT ![b] = work] /\ tip' = b
           /\ overlay' =
                [backing_overlay |-> [k \in DOMAIN overlay.backing_overlay |->
                                        IF k \in ins THEN overlay.backing_overlay[k] + 1
                                        ELSE overlay.backing_overlay[k]],
                 pending_overlay |-> {},
                 journal         |-> [overlay.journal EXCEPT
                                        ![Era(b)] = Append(overlay.journal[Era(b)], r)],
                 latest_era      |-> l,
                 earliest_era    |-> overlay'.earliest_era,
                 cumulative_size |-> overlay.cumulative_size
                   + Cardinality(ins \ {k \in DOMAIN overlay.backing_overlay : overlay.backing_overlay[k] > 0})]
           /\ batch' = [batch EXCEPT !.journal[Era(b)][Len(overlay.journal[Era(b)])] = r, !.latest = l]
           /\ memory' = EmptyMemory(Keys) /\ pc' = "batch"
           /\ UNCHANGED <<canon, work, stray, kept, read_cache, db>>
<1>1. PICK b : b = Append(tip, id)
  OBVIOUS
<1>2. PICK now : now = Era(b)
  OBVIOUS
<1>3. PICK ins : ins = {k \in DOMAIN memory : memory[k] > 0}
  OBVIOUS
<1>4. PICK r : r = Record(b, ins, {k \in DOMAIN memory : memory[k] < 0})
  OBVIOUS
<1>5. PICK l : l = Latest(overlay.latest_era, now)
  OBVIOUS
<1>6. /\ OverlayRecent!Inserted(memory) = ins
      /\ OverlayRecent!Record(b, OverlayRecent!Inserted(memory), OverlayRecent!Removed(memory)) = r
      /\ OverlayRecent!Latest(overlay.latest_era, now) = l
      /\ OverlayRecent!Era(b) = now
  BY <1>1, <1>2, <1>3, <1>4, <1>5, SameOperators DEF OverlayRecent!Inserted, OverlayRecent!Removed
<1>7. /\ pc = "idle" /\ OverlayRecent!AddBlock(b)
      /\ memory' = OverlayRecent!EmptyMemory(Keys) /\ pc' = "batch" /\ UNCHANGED <<read_cache, db>>
      /\ batch' = [batch EXCEPT !.journal[now][Len(overlay.journal[now])] = r, !.latest = l]
  BY <1>1, <1>6, Zenon DEF OverlayRecent!JournalUnder
<1>8. overlay' =
        [backing_overlay |-> OverlayRecent!EmplaceAll(overlay.backing_overlay, ins),
         pending_overlay |-> {},
         journal         |-> [overlay.journal EXCEPT ![now] = Append(overlay.journal[now], r)],
         latest_era      |-> l,
         earliest_era    |-> overlay'.earliest_era,
         cumulative_size |-> overlay.cumulative_size
                               + OverlayRecent!Cardinality(ins \ OverlayRecent!Inserted(overlay.backing_overlay))]
  <2>1. PICK x : overlay' =
        [backing_overlay |-> OverlayRecent!EmplaceAll(overlay.backing_overlay, ins),
         pending_overlay |-> {},
         journal         |-> [overlay.journal EXCEPT ![now] = Append(overlay.journal[now], r)],
         latest_era      |-> l,
         earliest_era    |-> x,
         cumulative_size |-> overlay.cumulative_size
                               + OverlayRecent!Cardinality(ins \ OverlayRecent!Inserted(overlay.backing_overlay))]
    BY <1>1, <1>6, Zenon DEF OverlayRecent!JournalUnder
  <2> QED
    BY <2>1
<1>9. /\ b \in Blocks /\ views[b] = NoView /\ Cardinality(Known(views)) <= MaxBlocks
      /\ views' = [views EXCEPT ![b] = work] /\ tip' = b /\ UNCHANGED <<canon, work, stray, kept>>
  BY <1>7, SameOperators, SameCardinality DEF OverlayRecent!AddBlock
<1>10. /\ memory' = EmptyMemory(Keys)
       /\ OverlayRecent!Cardinality(ins \ OverlayRecent!Inserted(overlay.backing_overlay)) =
            Cardinality(ins \ {k \in DOMAIN overlay.backing_overlay : overlay.backing_overlay[k] > 0})
       /\ OverlayRecent!EmplaceAll(overlay.backing_overlay, ins) =
            [k \in DOMAIN overlay.backing_overlay |->
               IF k \in ins THEN overlay.backing_overlay[k] + 1 ELSE overlay.backing_overlay[k]]
  BY <1>7, SameOperators, SameCardinality DEF OverlayRecent!Inserted, OverlayRecent!EmplaceAll
<1>11. /\ b = Append(tip, id) /\ ins = {k \in DOMAIN memory : memory[k] > 0}
       /\ r = Record(b, ins, {k \in DOMAIN memory : memory[k] < 0})
       /\ l = Latest(overlay.latest_era, Era(b))
  BY <1>1, <1>2, <1>3, <1>4, <1>5
<1> QED
  BY <1>2, <1>7, <1>8, <1>9, <1>10, <1>11, Zenon

(* mark_canonical, with the records of the era and what it does with their nodes. *)
Marking(c, R, canonical, drop, purged, ins, del) ==
  /\ R = {overlay.journal[Era(c)][i] : i \in DOMAIN overlay.journal[Era(c)]}
  /\ canonical = {r \in R : r.id = c}
  /\ drop = [k \in Keys |-> Cardinality({r \in R : k \in r.insertions})]
  /\ purged = [k \in DOMAIN overlay.backing_overlay |-> overlay.backing_overlay[k] - drop[k]]
  /\ ins = {k \in UNION {r.insertions : r \in canonical} : overlay.backing_overlay[k] > 0}
  /\ del = {k \in UNION {r.deletions : r \in canonical} : ~(purged[k] > 0)}
  /\ pc \in {"idle", "batch"}
  /\ c \in Known(views) /\ Extends(c, canon) /\ Len(c) = Len(canon) + 1
  /\ memory = EmptyMemory(Keys) \/ Extends(tip, c)
  /\ canon' = c
  /\ stray' = stray \cup UNION {r.insertions : r \in {x \in R : x.id # c}}
  /\ tip' = IF Extends(tip, c) THEN tip ELSE c
  /\ work' = IF Extends(tip, c) THEN work ELSE views[c]
  /\ overlay' =
       [backing_overlay |-> purged,
        pending_overlay |-> overlay.pending_overlay \cup ins,
        journal         |-> [overlay.journal EXCEPT ![Era(c)] = << >>],
        latest_era      |-> overlay.latest_era,
        earliest_era    |-> overlay'.earliest_era,
        cumulative_size |-> overlay.cumulative_size
          - Cardinality({k \in DOMAIN overlay.backing_overlay :
                           overlay.backing_overlay[k] > 0 /\ overlay.backing_overlay[k] - drop[k] <= 0})]
  /\ batch' =
       [batch EXCEPT
          !.nodes = (batch.nodes \cup ins) \ del,
          !.journal[Era(c)] =
            [i \in Indexes |-> IF i < Len(overlay.journal[Era(c)])
                                 THEN NoRecord ELSE batch.journal[Era(c)][i]]]
  /\ read_cache' = [k \in Keys |-> Uncached] /\ pc' = "batch"
  /\ UNCHANGED <<views, kept, memory, db>>

LEMMA MarkCanonicalIs ==
  ASSUME NEW c \in Blocks, OverlayRecent!MarkCanonical(c)
  PROVE  \E R, canonical, drop, purged, ins, del : Marking(c, R, canonical, drop, purged, ins, del)
<1>1. OverlayRecent!Era(c) = Era(c)
  BY SameOperators
<1>2. PICK R : R = {overlay.journal[Era(c)][i] : i \in DOMAIN overlay.journal[Era(c)]}
  OBVIOUS
<1>3. PICK canonical : canonical = {r \in R : r.id = c}
  OBVIOUS
<1>4. PICK drop : drop = [k \in Keys |-> Cardinality({r \in R : k \in r.insertions})]
  OBVIOUS
<1>5. PICK purged : purged = [k \in DOMAIN overlay.backing_overlay |-> overlay.backing_overlay[k] - drop[k]]
  OBVIOUS
<1>6. PICK ins : ins = {k \in UNION {r.insertions : r \in canonical} : overlay.backing_overlay[k] > 0}
  OBVIOUS
<1>7. PICK del : del = {k \in UNION {r.deletions : r \in canonical} : ~(purged[k] > 0)}
  OBVIOUS
<1>8. OverlayRecent!Records(c) = R
  BY <1>1, <1>2, Zenon DEF OverlayRecent!Records
<1>9. OverlayRecent!CanonRecords(c) = canonical /\ OverlayRecent!LostRecords(c) = {x \in R : x.id # c}
  BY <1>3, <1>8, Zenon DEF OverlayRecent!CanonRecords, OverlayRecent!LostRecords
<1>10. OverlayRecent!Dropped(c) = drop
  <2>1. \A k : OverlayRecent!Cardinality({r \in R : k \in r.insertions}) = Cardinality({r \in R : k \in r.insertions})
    BY SameCardinality
  <2>2. OverlayRecent!Dropped(c) = [k \in Keys |-> OverlayRecent!Cardinality({r \in R : k \in r.insertions})]
    BY <1>8, Zenon DEF OverlayRecent!Dropped
  <2> QED
    BY <1>4, <2>1, <2>2
<1>11. OverlayRecent!PurgeAll(overlay.backing_overlay, OverlayRecent!Dropped(c)) = purged
  BY <1>5, <1>10, Zenon DEF OverlayRecent!PurgeAll
<1>12. OverlayRecent!CanonInsertions(c) = ins /\ OverlayRecent!CanonDeletions(c) = del
  BY <1>6, <1>7, <1>9, <1>11, Zenon
  DEF OverlayRecent!CanonInsertions, OverlayRecent!CanonDeletions, OverlayRecent!Contains
<1>13. OverlayRecent!PurgedBy(overlay.backing_overlay, OverlayRecent!Dropped(c)) =
         {k \in DOMAIN overlay.backing_overlay :
            overlay.backing_overlay[k] > 0 /\ overlay.backing_overlay[k] - drop[k] <= 0}
  BY <1>10, Zenon DEF OverlayRecent!PurgedBy
<1>14. /\ pc \in {"idle", "batch"} /\ OverlayRecent!CanonicalNext(c, OverlayRecent!Clean)
       /\ OverlayRecent!AddCanonical(c, UNION {r.insertions : r \in OverlayRecent!LostRecords(c)})
       /\ read_cache' = OverlayRecent!EmptyCache /\ pc' = "batch" /\ UNCHANGED <<memory, db>>
  BY Zenon DEF OverlayRecent!MarkCanonical
<1>15. batch' =
         [batch EXCEPT
            !.nodes = (batch.nodes \cup ins) \ del,
            !.journal[Era(c)] =
              [i \in OverlayRecent!Indexes |-> IF i < Len(overlay.journal[Era(c)])
                                   THEN NoRecord ELSE batch.journal[Era(c)][i]]]
  BY <1>1, <1>12, Zenon DEF OverlayRecent!MarkCanonical
<1>16. \E x : overlay' =
         [backing_overlay |-> purged,
          pending_overlay |-> overlay.pending_overlay \cup ins,
          journal         |-> [overlay.journal EXCEPT ![Era(c)] = << >>],
          latest_era      |-> overlay.latest_era,
          earliest_era    |-> x,
          cumulative_size |-> overlay.cumulative_size
            - OverlayRecent!Cardinality(OverlayRecent!PurgedBy(overlay.backing_overlay, OverlayRecent!Dropped(c)))]
  BY <1>1, <1>11, <1>12, Zenon DEF OverlayRecent!MarkCanonical
<1>17. overlay' =
         [backing_overlay |-> purged,
          pending_overlay |-> overlay.pending_overlay \cup ins,
          journal         |-> [overlay.journal EXCEPT ![Era(c)] = << >>],
          latest_era      |-> overlay.latest_era,
          earliest_era    |-> overlay'.earliest_era,
          cumulative_size |-> overlay.cumulative_size
            - Cardinality({k \in DOMAIN overlay.backing_overlay :
                             overlay.backing_overlay[k] > 0 /\ overlay.backing_overlay[k] - drop[k] <= 0})]
  <2>1. PICK x : overlay' =
         [backing_overlay |-> purged,
          pending_overlay |-> overlay.pending_overlay \cup ins,
          journal         |-> [overlay.journal EXCEPT ![Era(c)] = << >>],
          latest_era      |-> overlay.latest_era,
          earliest_era    |-> x,
          cumulative_size |-> overlay.cumulative_size
            - Cardinality({k \in DOMAIN overlay.backing_overlay :
                             overlay.backing_overlay[k] > 0 /\ overlay.backing_overlay[k] - drop[k] <= 0})]
    BY <1>13, <1>16, SameCardinality, Zenon
  <2> QED
    BY <2>1
<1>18. /\ c \in Known(views) /\ Extends(c, canon) /\ Len(c) = Len(canon) + 1
       /\ memory = EmptyMemory(Keys) \/ Extends(tip, c)
  <2>1. c \in OverlayRecent!Live /\ Len(c) = Len(canon) + 1 /\ (OverlayRecent!Clean \/ OverlayRecent!Extends(tip, c))
    BY <1>14, Zenon DEF OverlayRecent!CanonicalNext
  <2> QED
    BY <2>1, SameOperators DEF OverlayRecent!Live, OverlayRecent!Clean
<1>19. /\ canon' = c
       /\ stray' = stray \cup UNION {r.insertions : r \in {x \in R : x.id # c}}
       /\ tip' = IF Extends(tip, c) THEN tip ELSE c
       /\ work' = IF Extends(tip, c) THEN work ELSE views[c]
       /\ UNCHANGED <<views, kept>>
  BY <1>9, <1>14, SameOperators, Zenon DEF OverlayRecent!AddCanonical
<1>20. read_cache' = [k \in Keys |-> Uncached]
  BY <1>14 DEF OverlayRecent!EmptyCache
<1>21. Marking(c, R, canonical, drop, purged, ins, del)
  <2>1. OverlayRecent!Indexes = Indexes
    BY SameOperators
  <2>2. batch' =
          [batch EXCEPT
             !.nodes = (batch.nodes \cup ins) \ del,
             !.journal[Era(c)] =
               [i \in Indexes |-> IF i < Len(overlay.journal[Era(c)])
                                    THEN NoRecord ELSE batch.journal[Era(c)][i]]]
    BY <1>15, <2>1, Zenon
  <2> QED
    BY <1>2, <1>3, <1>4, <1>5, <1>6, <1>7, <1>14, <1>17, <1>18, <1>19, <1>20, <2>2, Zenon DEF Marking
<1> QED
  BY <1>21

LEMMA WriteBatchIs ==
  ASSUME OverlayRecent!WriteBatch
  PROVE  /\ pc = "batch" \/ pc = "marked"
         /\ kept' = [views |-> views, canon |-> canon, stray |-> stray]
         /\ db' = batch /\ pc' = "written"
         /\ UNCHANGED <<views, canon, tip, work, stray, batch, memory, overlay, read_cache>>
BY DEF OverlayRecent!WriteBatch, OverlayRecent!Written, OverlayRecent!Persisted

LEMMA FlushIs ==
  ASSUME OverlayRecent!Flush
  PROVE  /\ pc = "written" /\ pc' = "idle"
         /\ overlay' = [overlay EXCEPT !.pending_overlay = {}]
         /\ UNCHANGED <<views, canon, tip, work, stray, kept, batch, db, memory, read_cache>>
BY DEF OverlayRecent!Flush, OverlayRecent!clientVars

LEMMA InjectIs ==
  ASSUME OverlayRecent!Inject
  PROVE  /\ read_cache = [k \in Keys |-> Uncached] /\ pc = "idle" /\ Known(views) = {Genesis}
         /\ views' = [views EXCEPT ![Genesis] = work]
         /\ kept' = [kept EXCEPT !.views = views']
         /\ db' = [db EXCEPT !.nodes = (db.nodes \cup {k \in DOMAIN memory : memory[k] > 0})
                                         \ {k \in DOMAIN memory : memory[k] < 0}]
         /\ batch' = db'
         /\ memory' = EmptyMemory(Keys)
         /\ UNCHANGED <<canon, tip, work, stray, pc, overlay, read_cache>>
<1>1. OverlayRecent!Genesis = Genesis
  BY DEF OverlayRecent!Genesis, Genesis
<1>2. PICK new : new = [db EXCEPT !.nodes = (db.nodes \cup {k \in DOMAIN memory : memory[k] > 0})
                                              \ {k \in DOMAIN memory : memory[k] < 0}]
  OBVIOUS
<1>3. /\ read_cache = OverlayRecent!EmptyCache /\ OverlayRecent!Injected(new)
      /\ memory' = OverlayRecent!EmptyMemory(Keys) /\ UNCHANGED <<overlay, read_cache>>
  BY <1>2 DEF OverlayRecent!Inject, OverlayRecent!Inserted, OverlayRecent!Removed
<1>4. /\ pc = "idle" /\ OverlayRecent!Journalled = {Genesis}
      /\ views' = [views EXCEPT ![Genesis] = work]
      /\ kept' = [kept EXCEPT !.views = views'] /\ db' = new /\ batch' = new
      /\ UNCHANGED <<canon, tip, work, stray, pc>>
  BY <1>1, <1>3 DEF OverlayRecent!Injected
<1> QED
  BY <1>2, <1>3, <1>4, SameOperators DEF OverlayRecent!EmptyCache

LEMMA ReopenIs ==
  ASSUME OverlayRecent!Reopen
  PROVE  /\ views' = kept.views /\ canon' = kept.canon /\ stray' = kept.stray
         /\ tip' = kept.canon /\ work' = kept.views[kept.canon]
         /\ pc' = "idle" /\ batch' = db
         /\ memory' = EmptyMemory(Keys)
         /\ overlay' = OverlayRecent!ReadOverlay(db)
         /\ read_cache' = [k \in Keys |-> Uncached]
         /\ UNCHANGED <<kept, db>>
BY SameOperators DEF OverlayRecent!Reopen, OverlayRecent!Opened, OverlayRecent!ClientReopen,
   OverlayRecent!EmptyCache

-------------------------------------------------------------------------------
(* OverlayRecentDB: the invariant is kept *)

(* What read_overlay makes of a backing. *)
LEMMA ReadOverlayIs ==
  ASSUME NEW b, NEW v, NEW c, BackingOK(b, v, c)
  PROVE  \E x : OverlayRecent!ReadOverlay(b) = OverlayFor(v, c, b.journal, b.latest, {}, x)
<1>1. ViewsOK(v, c) /\ JournalOK(b.journal, v, c)
  BY DEF BackingOK
<1>2. PICK j : j = [e \in Eras |-> StoredRecords(b.journal[e])]
  OBVIOUS
<1>3. [e \in OverlayRecent!Eras |-> IF e \in OverlayRecent!ErasRead(b)
                                      THEN OverlayRecent!StoredRecords(b.journal[e]) ELSE << >>] = j
  <2>1. \A e \in Eras : (IF e \in ErasRead(b) THEN StoredRecords(b.journal[e]) ELSE << >>) = StoredRecords(b.journal[e])
    BY ReadsAll
  <2> QED
    BY <1>2, <2>1, SameOperators
<1>4. PICK n : n = [k \in Keys |-> Cardinality(Adding(v, c, k))]
  OBVIOUS
<1>5. [k \in Keys |-> OverlayRecent!References(j, k)] = n
  <2>1. \A k \in Keys : OverlayRecent!References(j, k) = Cardinality(Adding(v, c, k))
    BY <1>1, <1>2, ReferencesCount
  <2> QED
    BY <1>4, <2>1
<1>6. OverlayRecent!Cardinality(OverlayRecent!Inserted(n)) = Cardinality({k \in Keys : Adding(v, c, k) # {}})
  <2>1. OverlayRecent!Inserted(n) = {k \in Keys : Adding(v, c, k) # {}}
    BY <1>1, <1>4, AddingFinite DEF OverlayRecent!Inserted
  <2> QED
    BY <2>1, SameCardinality
<1>7. \E x : OverlayRecent!ReadOverlay(b) =
           [backing_overlay |-> n,
            pending_overlay |-> {},
            journal         |-> j,
            latest_era      |-> b.latest,
            earliest_era    |-> x,
            cumulative_size |-> OverlayRecent!Cardinality(OverlayRecent!Inserted(n))]
  BY <1>3, <1>5, Zenon DEF OverlayRecent!ReadOverlay
<1> QED
  BY <1>2, <1>4, <1>6, <1>7, Zenon DEF OverlayFor, Counts, AddedNodes, Stored

LEMMA NothingChanges ==
  ASSUME NEW w
  PROVE  Change(w, w) = EmptyMemory(Keys)
BY DEF Change, EmptyMemory

(* The changes are the insertions and removals of the record to come. *)
LEMMA ChangeFacts ==
  ASSUME NEW w \in SUBSET Keys, NEW v \in SUBSET Keys
  PROVE  /\ {k \in DOMAIN Change(w, v) : Change(w, v)[k] > 0} = w \ v
         /\ {k \in DOMAIN Change(w, v) : Change(w, v)[k] < 0} = v \ w
         /\ Change(w, v) = EmptyMemory(Keys) => w = v
<1>1. \A k \in Keys : Change(w, v)[k] = (IF k \in w THEN 1 ELSE 0) - (IF k \in v THEN 1 ELSE 0)
  BY DEF Change
<1>2. DOMAIN Change(w, v) = Keys
  BY DEF Change
<1>3. {k \in DOMAIN Change(w, v) : Change(w, v)[k] > 0} = w \ v
  BY <1>1, <1>2
<1>4. {k \in DOMAIN Change(w, v) : Change(w, v)[k] < 0} = v \ w
  BY <1>1, <1>2
<1>5. ASSUME Change(w, v) = EmptyMemory(Keys) PROVE w = v
  <2>1. \A k \in Keys : Change(w, v)[k] = 0
    BY <1>5 DEF EmptyMemory
  <2>2. \A k \in Keys : k \in w <=> k \in v
    BY <1>1, <2>1
  <2> QED
    BY <2>2
<1> QED
  BY <1>3, <1>4, <1>5

LEMMA ChangeInsert ==
  ASSUME NEW w \in SUBSET Keys, NEW v, NEW k \in Keys, k \notin w
  PROVE  Change(w \cup {k}, v) = [Change(w, v) EXCEPT ![k] = Change(w, v)[k] + 1]
<1>1. DOMAIN Change(w, v) = Keys
      /\ \A x \in Keys : Change(w, v)[x] = (IF x \in w THEN 1 ELSE 0) - (IF x \in v THEN 1 ELSE 0)
  BY DEF Change
<1>2. [Change(w, v) EXCEPT ![k] = Change(w, v)[k] + 1] =
        [x \in Keys |-> IF x = k THEN Change(w, v)[k] + 1 ELSE Change(w, v)[x]]
  BY <1>1 DEF Change
<1>3. \A x \in Keys : (IF x \in w \cup {k} THEN 1 ELSE 0) - (IF x \in v THEN 1 ELSE 0) =
                        IF x = k THEN Change(w, v)[k] + 1 ELSE Change(w, v)[x]
  BY <1>1
<1> QED
  BY <1>2, <1>3 DEF Change

LEMMA ChangeRemove ==
  ASSUME NEW w \in SUBSET Keys, NEW v, NEW k \in Keys, k \in w
  PROVE  Change(w \ {k}, v) = [Change(w, v) EXCEPT ![k] = Change(w, v)[k] - 1]
<1>1. DOMAIN Change(w, v) = Keys
      /\ \A x \in Keys : Change(w, v)[x] = (IF x \in w THEN 1 ELSE 0) - (IF x \in v THEN 1 ELSE 0)
  BY DEF Change
<1>2. [Change(w, v) EXCEPT ![k] = Change(w, v)[k] - 1] =
        [x \in Keys |-> IF x = k THEN Change(w, v)[k] - 1 ELSE Change(w, v)[x]]
  BY <1>1 DEF Change
<1>3. \A x \in Keys : (IF x \in w \ {k} THEN 1 ELSE 0) - (IF x \in v THEN 1 ELSE 0) =
                        IF x = k THEN Change(w, v)[k] - 1 ELSE Change(w, v)[x]
  BY <1>1
<1> QED
  BY <1>2, <1>3 DEF Change

LEMMA TipFacts ==
  ASSUME ClientOK, ViewsOK(views, canon)
  PROVE  views[tip] \in SUBSET Keys /\ work \in SUBSET Keys /\ tip \in Blocks
         /\ canon \in Known(views) /\ canon \in Blocks /\ views[canon] \in SUBSET Keys
         /\ memory = Change(work, views[tip])
<1>1. tip \in Known(views) /\ work \subseteq Keys /\ memory = Change(work, views[tip])
  BY DEF ClientOK
<1>2. canon \in Known(views)
  BY DEF ViewsOK
<1> QED
  BY <1>1, <1>2, KnownFacts

LEMMA InsertKeeps ==
  ASSUME OverlayRecentInv, NEW k \in Keys, OverlayRecent!Insert(k)
  PROVE  OverlayRecentInv'
<1>1. /\ k \notin work /\ work' = work \cup {k}
      /\ memory' = [memory EXCEPT ![k] = memory[k] + 1]
      /\ UNCHANGED <<views, canon, tip, stray, kept, pc, overlay, read_cache, batch, db>>
  BY InsertIs
<1>2. ViewsOK(views, canon) /\ ClientOK
  BY DEF OverlayRecentInv, BackingOK
<1>3. memory' = Change(work \cup {k}, views[tip])
  <2>1. PICK w \in SUBSET Keys, v \in SUBSET Keys : w = work /\ v = views[tip] /\ memory = Change(w, v)
    BY <1>2, TipFacts
  <2>2. Change(w \cup {k}, v) = [Change(w, v) EXCEPT ![k] = Change(w, v)[k] + 1]
    BY <1>1, <2>1, ChangeInsert
  <2> QED
    BY <1>1, <2>1, <2>2
<1>4. ClientOK'
  BY <1>1, <1>2, <1>3 DEF ClientOK
<1> QED
  BY <1>1, <1>4 DEF OverlayRecentInv, InStep, OverlayOK, CacheOK

LEMMA RemoveKeeps ==
  ASSUME OverlayRecentInv, NEW k \in Keys, OverlayRecent!Remove(k)
  PROVE  OverlayRecentInv'
<1>1. /\ k \in work /\ work' = work \ {k}
      /\ memory' = [memory EXCEPT ![k] = memory[k] - 1]
      /\ UNCHANGED <<views, canon, tip, stray, kept, pc, overlay, read_cache, batch, db>>
  BY RemoveIs
<1>2. ViewsOK(views, canon) /\ ClientOK
  BY DEF OverlayRecentInv, BackingOK
<1>3. memory' = Change(work \ {k}, views[tip])
  <2>1. PICK w \in SUBSET Keys, v \in SUBSET Keys : w = work /\ v = views[tip] /\ memory = Change(w, v)
    BY <1>2, TipFacts
  <2>2. Change(w \ {k}, v) = [Change(w, v) EXCEPT ![k] = Change(w, v)[k] - 1]
    BY <1>1, <2>1, ChangeRemove
  <2> QED
    BY <1>1, <2>1, <2>2
<1>4. ClientOK'
  BY <1>1, <1>2, <1>3 DEF ClientOK
<1> QED
  BY <1>1, <1>4 DEF OverlayRecentInv, InStep, OverlayOK, CacheOK

LEMMA SwitchToKeeps ==
  ASSUME OverlayRecentInv, NEW b \in Blocks, OverlayRecent!SwitchTo(b)
  PROVE  OverlayRecentInv'
<1>1. /\ memory = EmptyMemory(Keys)
      /\ b \in Known(views) /\ Extends(b, canon) /\ tip' = b /\ work' = views[b]
      /\ UNCHANGED <<views, canon, stray, kept, pc, memory, overlay, read_cache, batch, db>>
  BY SwitchToIs
<1>2. ViewsOK(views, canon) /\ ClientOK
  BY DEF OverlayRecentInv, BackingOK
<1>3. memory = Change(views[b], views[b])
  BY <1>1, NothingChanges
<1>4. views[b] \subseteq Keys
  BY <1>1, <1>2, KnownFacts
<1>5. ClientOK'
  BY <1>1, <1>2, <1>3, <1>4 DEF ClientOK
<1> QED
  BY <1>1, <1>5 DEF OverlayRecentInv, InStep, OverlayOK, CacheOK

(* A get leaves FALSE in the cache only for a node the batch lacks as well. *)
LEMMA GetKeeps ==
  ASSUME OverlayRecentInv, NEW k \in Keys, OverlayRecent!Get(k)
  PROVE  OverlayRecentInv'
<1>1. /\ k \notin overlay.pending_overlay
      /\ read_cache' = [read_cache EXCEPT ![k] = (k \in db.nodes)]
      /\ UNCHANGED <<views, canon, tip, work, stray, kept, pc, memory, overlay, batch, db>>
  BY GetIs
<1>2. CacheOK /\ batch.nodes \subseteq db.nodes \cup overlay.pending_overlay
  BY DEF OverlayRecentInv
<1>3. CASE k \in db.nodes
  <2>1. read_cache' = [read_cache EXCEPT ![k] = TRUE]
    BY <1>1, <1>3, Zenon
  <2> QED
    BY <1>1, <1>2, <2>1 DEF CacheOK, OverlayRecentInv, ClientOK, InStep, OverlayOK
<1>4. CASE k \notin db.nodes
  <2>1. read_cache' = [read_cache EXCEPT ![k] = FALSE]
    <3>1. (k \in db.nodes) = FALSE
      BY <1>4
    <3> QED
      BY <1>1, <3>1, Zenon
  <2>2. k \notin batch.nodes
    BY <1>1, <1>2, <1>4
  <2> QED
    BY <1>1, <1>2, <2>1, <2>2 DEF CacheOK, OverlayRecentInv, ClientOK, InStep, OverlayOK
<1> QED
  BY <1>3, <1>4

LEMMA WriteBatchKeeps ==
  ASSUME OverlayRecentInv, OverlayRecent!WriteBatch
  PROVE  OverlayRecentInv'
<1>1. /\ kept' = [views |-> views, canon |-> canon, stray |-> stray]
      /\ db' = batch /\ pc' = "written"
      /\ UNCHANGED <<views, canon, tip, work, stray, batch, memory, overlay, read_cache>>
  BY WriteBatchIs
<1>2. kept'.views = views /\ kept'.canon = canon /\ kept'.stray = stray
  BY <1>1
<1>3. ClientOK' /\ InStep'
  BY <1>1, <1>2 DEF OverlayRecentInv, ClientOK, InStep
<1>4. OverlayOK' /\ CacheOK'
  BY <1>1 DEF OverlayRecentInv, OverlayOK, CacheOK
<1>5. BackingOK(batch, views, canon) /\ NodesOK(batch.nodes, views, canon, stray)
  BY DEF OverlayRecentInv
<1> QED
  BY <1>1, <1>2, <1>3, <1>4, <1>5 DEF OverlayRecentInv

LEMMA FlushKeeps ==
  ASSUME OverlayRecentInv, OverlayRecent!Flush
  PROVE  OverlayRecentInv'
<1>1. /\ pc = "written" /\ pc' = "idle"
      /\ overlay' = [overlay EXCEPT !.pending_overlay = {}]
      /\ UNCHANGED <<views, canon, tip, work, stray, kept, batch, db, memory, read_cache>>
  BY FlushIs
<1>2. OverlayOK /\ InStep
  BY <1>1 DEF OverlayRecentInv
<1>3. OverlayOK' /\ overlay'.pending_overlay = {}
  <2>1. PICK p, x : overlay = OverlayFor(views, canon, batch.journal, batch.latest, p, x)
    BY <1>2 DEF OverlayOK
  <2>2. overlay' = OverlayFor(views, canon, batch.journal, batch.latest, {}, x)
    BY <1>1, <2>1 DEF OverlayFor
  <2>3. overlay'.pending_overlay = {} /\ overlay'.earliest_era = x
    BY <2>2 DEF OverlayFor
  <2> QED
    BY <1>1, <2>2, <2>3 DEF OverlayOK
<1>4. batch'.nodes \subseteq db'.nodes
  BY <1>1, <1>2 DEF InStep
<1> QED
  BY <1>1, <1>3, <1>4 DEF OverlayRecentInv, ClientOK, InStep, CacheOK

LEMMA ReopenKeeps ==
  ASSUME OverlayRecentInv, OverlayRecent!Reopen
  PROVE  OverlayRecentInv'
<1>1. /\ views' = kept.views /\ canon' = kept.canon /\ stray' = kept.stray
      /\ tip' = kept.canon /\ work' = kept.views[kept.canon]
      /\ pc' = "idle" /\ batch' = db
      /\ memory' = EmptyMemory(Keys)
      /\ overlay' = OverlayRecent!ReadOverlay(db)
      /\ read_cache' = [k \in Keys |-> Uncached]
      /\ UNCHANGED <<kept, db>>
  BY ReopenIs
<1>2. /\ BackingOK(db, kept.views, kept.canon) /\ NodesOK(db.nodes, kept.views, kept.canon, kept.stray)
      /\ ClientOK
  BY DEF OverlayRecentInv
<1>3. PICK v, c : v = kept.views /\ c = kept.canon
  OBVIOUS
<1>4. ViewsOK(v, c) /\ BackingOK(db, v, c)
  BY <1>2, <1>3 DEF BackingOK
<1>5. c \in Known(v) /\ v[c] \subseteq Keys /\ Extends(c, c)
  <2>1. c \in Known(v)
    BY <1>4 DEF ViewsOK
  <2>2. c \in Blocks /\ Len(c) \in Nat /\ v[c] \subseteq Keys
    BY <1>4, <2>1, KnownFacts
  <2>3. Extends(c, c)
    BY <2>2, ExtendsAncestor, OwnAncestor
  <2> QED
    BY <2>1, <2>2, <2>3
<1>6. ClientOK'
  <2>1. EmptyMemory(Keys) = Change(v[c], v[c])
    BY NothingChanges
  <2> QED
    BY <1>1, <1>2, <1>3, <1>5, <2>1 DEF ClientOK
<1>7. OverlayOK' /\ overlay'.pending_overlay = {}
  <2>1. PICK x : overlay' = OverlayFor(v, c, db.journal, db.latest, {}, x)
    BY <1>1, <1>4, ReadOverlayIs
  <2>2. overlay'.pending_overlay = {} /\ overlay'.earliest_era = x
    BY <2>1 DEF OverlayFor
  <2> QED
    BY <1>1, <1>3, <2>1, <2>2 DEF OverlayOK
<1>8. CacheOK'
  BY <1>1, DatabaseConstants DEF CacheOK
<1>9. InStep'
  BY <1>1, <1>2 DEF InStep, ClientOK
<1> QED
  BY <1>1, <1>2, <1>6, <1>7, <1>8, <1>9 DEF OverlayRecentInv

LEMMA BackingIs ==
  ASSUME NEW b, NEW v, NEW c, BackingOK(b, v, c)
  PROVE  \E V, n, l, a, j :
           /\ j \in [Eras -> [Indexes -> V]]
           /\ b = [nodes |-> n, journal |-> j, latest |-> l, already_in |-> a]
           /\ b.nodes = n /\ b.journal = j /\ b.latest = l /\ b.already_in = a
<1>1. b = [nodes |-> b.nodes, journal |-> b.journal, latest |-> b.latest, already_in |-> b.already_in]
  BY DEF BackingOK
<1>2. PICK V : b.journal \in [Eras -> [Indexes -> V]]
  BY DEF BackingOK, JournalOK
<1> QED
  BY <1>1, <1>2

LEMMA UnionSize ==
  ASSUME NEW X, NEW Y, IsFiniteSet(X), IsFiniteSet(Y)
  PROVE  Cardinality(X \cup Y) = Cardinality(X) + Cardinality(Y \ X)
<1>1. IsFiniteSet(Y \ X) /\ X \cap (Y \ X) = {} /\ X \cup (Y \ X) = X \cup Y
  BY FS_Difference
<1>2. Cardinality(X \cup (Y \ X)) = Cardinality(X) + Cardinality(Y \ X) - Cardinality(X \cap (Y \ X))
  BY <1>1, FS_Union
<1>3. Cardinality(X) \in Nat /\ Cardinality(Y \ X) \in Nat /\ Cardinality(X \cap (Y \ X)) = 0
  BY <1>1, FS_CardinalityType, FS_EmptySet
<1> QED
  BY <1>1, <1>2, <1>3

LEMMA PartSize ==
  ASSUME NEW X, NEW Y, IsFiniteSet(X), Y \subseteq X
  PROVE  /\ Cardinality(X \ Y) = Cardinality(X) - Cardinality(Y)
         /\ Cardinality(X) \in Nat /\ Cardinality(Y) \in Nat /\ Cardinality(X \ Y) \in Nat
<1>1. X \cap Y = Y
  OBVIOUS
<1>2. Cardinality(X \ Y) = Cardinality(X) - Cardinality(X \cap Y) /\ IsFiniteSet(X \ Y)
  BY FS_Difference
<1>3. IsFiniteSet(Y)
  BY FS_Subset
<1> QED
  BY <1>1, <1>2, <1>3, FS_CardinalityType

Counted(u, v, c, n, ins) ==
  /\ [k \in DOMAIN n |-> IF k \in ins THEN n[k] + 1 ELSE n[k]] = Counts(u, c)
  /\ Cardinality(AddedNodes(u, c)) =
       Cardinality(AddedNodes(v, c)) + Cardinality(ins \ {k \in DOMAIN n : n[k] > 0})

LEMMA NewCounts ==
  ASSUME NEW v, NEW c, ViewsOK(v, c), NEW u, NEW t, NEW w, NEW b, ExtendedBy(u, v, c, t, w, b),
         NEW ins \in SUBSET Keys, ins = w \ v[t], NEW n, n = Counts(v, c)
  PROVE  Counted(u, v, c, n, ins)
<1> USE DEF Counted
<1>1. \A k : /\ Adding(u, c, k) = IF k \in ins THEN Adding(v, c, k) \cup {b} ELSE Adding(v, c, k)
            /\ b \notin Adding(v, c, k)
  BY DEF ExtendedBy
<1>2. DOMAIN n = Keys /\ \A k \in Keys : n[k] = Cardinality(Adding(v, c, k))
  BY DEF Counts
<1>3. ASSUME NEW k \in Keys
      PROVE  (IF k \in ins THEN n[k] + 1 ELSE n[k]) = Cardinality(Adding(u, c, k))
  <2>1. IsFiniteSet(Adding(v, c, k)) /\ b \notin Adding(v, c, k)
    BY <1>1, AddingFinite
  <2>2. Cardinality(Adding(v, c, k) \cup {b}) = Cardinality(Adding(v, c, k)) + 1
    BY <2>1, FS_AddElement
  <2>3. CASE k \in ins
    <3>1. Adding(u, c, k) = Adding(v, c, k) \cup {b}
      BY <1>1, <2>3
    <3> QED
      BY <1>2, <2>2, <2>3, <3>1
  <2>4. CASE k \notin ins
    <3>1. Adding(u, c, k) = Adding(v, c, k)
      BY <1>1, <2>4
    <3> QED
      BY <1>2, <2>4, <3>1
  <2> QED
    BY <2>3, <2>4
<1>4. PICK X : X = AddedNodes(v, c) /\ X = {k \in Keys : Adding(v, c, k) # {}}
  BY DEF AddedNodes
<1>5. {k \in DOMAIN n : n[k] > 0} = X
  BY <1>2, <1>4, AddingFinite
<1>6. AddedNodes(u, c) = X \cup ins
  BY <1>1, <1>4 DEF AddedNodes
<1>7. IsFiniteSet(X) /\ IsFiniteSet(ins)
  <2>1. IsFiniteSet(Keys) /\ X \in SUBSET Keys
    BY <1>4, ClientConstants
  <2> QED
    BY <2>1, FS_Subset
<1>8. Cardinality(X \cup ins) = Cardinality(X) + Cardinality(ins \ X)
  BY <1>7, UnionSize
<1> QED
  BY <1>2, <1>3, <1>4, <1>5, <1>6, <1>8 DEF Counts

LEMMA JournalUnderKeeps ==
  ASSUME OverlayRecentInv, NEW id \in Ids, OverlayRecent!JournalUnder(id)
  PROVE  OverlayRecentInv'
<1>1. PICK b, ins, r, l :
           /\ b \in Blocks /\ b = Append(tip, id) /\ ins = {k \in DOMAIN memory : memory[k] > 0}
           /\ r = Record(b, ins, {k \in DOMAIN memory : memory[k] < 0})
           /\ l = Latest(overlay.latest_era, Era(b))
           /\ pc = "idle" /\ views[b] = NoView /\ Cardinality(Known(views)) <= MaxBlocks
           /\ views' = [views EXCEPT ![b] = work] /\ tip' = b
           /\ overlay' =
                [backing_overlay |-> [k \in DOMAIN overlay.backing_overlay |->
                                        IF k \in ins THEN overlay.backing_overlay[k] + 1
                                        ELSE overlay.backing_overlay[k]],
                 pending_overlay |-> {},
                 journal         |-> [overlay.journal EXCEPT
                                        ![Era(b)] = Append(overlay.journal[Era(b)], r)],
                 latest_era      |-> l,
                 earliest_era    |-> overlay'.earliest_era,
                 cumulative_size |-> overlay.cumulative_size
                   + Cardinality(ins \ {k \in DOMAIN overlay.backing_overlay : overlay.backing_overlay[k] > 0})]
           /\ batch' = [batch EXCEPT !.journal[Era(b)][Len(overlay.journal[Era(b)])] = r, !.latest = l]
           /\ memory' = EmptyMemory(Keys) /\ pc' = "batch"
           /\ UNCHANGED <<canon, work, stray, kept, read_cache, db>>
  BY JournalUnderIs
<1>block. b \in Blocks
  BY <1>1
<1> USE <1>block
<1>2. PICK v, c, t, w, u : v = views /\ c = canon /\ t = tip /\ w = work /\ u = [v EXCEPT ![b] = w]
  OBVIOUS
<1>3. views' = u
  BY <1>1, <1>2
<1>4. ClientOK /\ BackingOK(batch, v, c) /\ ViewsOK(v, c) /\ JournalOK(batch.journal, v, c) /\ LatestOK(batch.latest, v)
  BY <1>2 DEF OverlayRecentInv, BackingOK
<1>5. /\ w \in SUBSET Keys /\ v[t] \in SUBSET Keys /\ t \in Known(v) /\ Extends(t, c) /\ t \in Blocks /\ c \in Blocks
      /\ memory = Change(w, v[t])
  BY <1>2, <1>4, TipFacts DEF ClientOK
<1>6. Len(c) \in 0..Len(t) /\ Len(t) >= Len(c) /\ Ancestor(t, Len(c)) = c
  BY <1>5, ExtendsAncestor, BlockFacts
<1>a. ExtendedBy(u, v, c, t, w, b)
  <2>1. b = Append(t, id) /\ v[b] = NoView /\ u = [v EXCEPT ![b] = w]
    BY <1>1, <1>2
  <2> QED
    BY <1>4, <1>5, <1>6, <2>1, NewBlock
<1>7. /\ ViewsOK(u, c) /\ Known(u) = Known(v) \cup {b}
      /\ u[b] = w /\ Len(b) = Len(t) + 1 /\ Era(b) \in Eras
      /\ \A a \in Known(v) : u[a] = v[a]
      /\ RecordOf(u, b) = Record(b, w \ v[t], v[t] \ w)
      /\ \A k : Adding(v, c, k) \subseteq Adding(u, c, k)
  BY <1>a DEF ExtendedBy
<1>8. ins = w \ v[t] /\ r = RecordOf(u, b)
  <2>1. /\ {k \in DOMAIN Change(w, v[t]) : Change(w, v[t])[k] > 0} = w \ v[t]
        /\ {k \in DOMAIN Change(w, v[t]) : Change(w, v[t])[k] < 0} = v[t] \ w
    BY <1>5, ChangeFacts
  <2> QED
    BY <1>1, <1>5, <1>7, <2>1
<1>9. PICK V, nodes, old, flags, j :
        /\ j \in [Eras -> [Indexes -> V]]
        /\ batch = [nodes |-> nodes, journal |-> j, latest |-> old, already_in |-> flags]
        /\ batch.nodes = nodes /\ batch.journal = j /\ batch.latest = old
  BY <1>4, BackingIs
<1>10. PICK x, p : overlay = OverlayFor(v, c, j, old, p, x)
  BY <1>2, <1>9 DEF OverlayRecentInv, OverlayOK
<1>b. /\ overlay.backing_overlay = Counts(v, c) /\ overlay.journal = Stored(j) /\ overlay.latest_era = old
      /\ overlay.cumulative_size = Cardinality(AddedNodes(v, c))
  BY <1>10 DEF OverlayFor
<1>11. PICK now \in Eras : now = Era(b)
  BY <1>7
<1>12. PICK i \in Indexes : i = Len(StoredRecords(j[now])) /\ \A m \in Indexes : m < i <=> j[now][m] # NoRecord
  BY <1>1, <1>2, <1>4, <1>9, IndexFree
<1>13. PICK q : q = [j EXCEPT ![now] = [j[now] EXCEPT ![i] = r]]
  OBVIOUS
<1>14. batch' = [nodes |-> nodes, journal |-> q, latest |-> l, already_in |-> flags]
  <2>1. overlay.journal[Era(b)] = StoredRecords(j[now])
    BY <1>b, <1>11 DEF Stored
  <2>2. batch' = [batch EXCEPT !.journal[now][i] = r, !.latest = l]
    BY <1>1, <1>11, <1>12, <2>1
  <2> QED
    BY <1>9, <1>13, <2>2
<1>15. batch'.nodes = nodes /\ batch'.journal = q /\ batch'.latest = l /\ batch'.already_in = flags
  BY <1>14
<1>16. JournalOK(q, u, c) /\ Stored(q) = [Stored(j) EXCEPT ![now] = Append(Stored(j)[now], r)]
  <2>1. q = Put(j, Era(b), i, RecordOf(u, b))
    BY <1>8, <1>11, <1>13 DEF Put
  <2>2. FirstFree(i, j, Era(b))
    BY <1>11, <1>12 DEF FirstFree
  <2>3. JournalOK(j, v, c)
    BY <1>4, <1>9
  <2>4. JournalOK(q, u, c) /\ Appended(q, j, Era(b), RecordOf(u, b))
    <3>1. ViewsOK(v, c) /\ i \in Indexes
      BY <1>4, <1>12
    <3> QED
      BY <1>a, <2>1, <2>2, <2>3, <3>1, NewRecord
  <2> QED
    BY <1>8, <1>11, <2>4 DEF Appended
<1>17. l = Latest(old, Era(b)) /\ LatestOK(l, u)
  <2>1. l = Latest(old, Era(b))
    BY <1>1, <1>b
  <2>2. Len(b) > 0
    BY <1>5, <1>7, BlockFacts
  <2> QED
    BY <1>4, <1>7, <1>9, <2>1, <2>2, NewLatest
<1>18. BackingOK(batch, views, canon)'
  BY <1>1, <1>2, <1>3, <1>7, <1>14, <1>15, <1>16, <1>17 DEF BackingOK
<1>19. NodesOK(batch.nodes, views, canon, stray)'
  <2>1. c \in Known(v) /\ u[c] = v[c]
    BY <1>4, <1>7 DEF ViewsOK
  <2>2. NodesOK(nodes, v, c, stray)
    BY <1>2, <1>9 DEF OverlayRecentInv
  <2>3. NodesOK(nodes, u, c, stray)
    BY <1>7, <2>1, <2>2 DEF NodesOK
  <2> QED
    BY <1>1, <1>2, <1>3, <1>15, <2>3
<1>20. ClientOK'
  <2>1. Change(w, u[b]) = EmptyMemory(Keys)
    BY <1>7, NothingChanges
  <2>2. Extends(b, c)
    <3>1. \A m \in 0..Len(t) : Ancestor(b, m) = Ancestor(t, m)
      <4>1. b = Append(t, id)
        BY <1>1, <1>2
      <4> QED
        BY <1>5, <4>1, ChildFacts
    <3>2. Len(c) <= Len(b)
      BY <1>5, <1>6, <1>7, BlockFacts
    <3> QED
      BY <1>5, <1>6, <3>1, <3>2, ExtendsAncestor
  <2>3. kept = [views |-> kept.views, canon |-> kept.canon, stray |-> kept.stray]
    BY <1>4 DEF ClientOK
  <2> QED
    BY <1>1, <1>2, <1>3, <1>5, <1>7, <2>1, <2>2, <2>3 DEF ClientOK
<1>21. OverlayOK'
  <2>1. PICK n : n = Counts(v, c)
    OBVIOUS
  <2>2. ins \in SUBSET Keys
    BY <1>5, <1>8
  <2>3. Counted(u, v, c, n, ins)
    <3>1. ViewsOK(v, c) /\ ins = w \ v[t]
      BY <1>4, <1>8
    <3> QED
      BY <1>a, <2>1, <2>2, <3>1, NewCounts
  <2>4. overlay' = OverlayFor(u, c, q, l, {}, overlay'.earliest_era)
    BY <1>1, <1>b, <1>11, <1>16, <2>1, <2>3 DEF OverlayFor, Counted
  <2>5. overlay'.pending_overlay = {}
    BY <2>4 DEF OverlayFor
  <2> QED
    BY <1>1, <1>2, <1>3, <1>15, <2>4, <2>5 DEF OverlayOK
<1>22. CacheOK'
  BY <1>1, <1>9, <1>15 DEF OverlayRecentInv, CacheOK
<1>23. batch'.nodes \subseteq db'.nodes
  BY <1>1, <1>9, <1>15 DEF OverlayRecentInv, InStep
<1>24. BackingOK(db, kept.views, kept.canon)' /\ NodesOK(db.nodes, kept.views, kept.canon, kept.stray)'
  BY <1>1 DEF OverlayRecentInv
<1> QED
  BY <1>1, <1>18, <1>19, <1>20, <1>21, <1>22, <1>23, <1>24 DEF OverlayRecentInv

(* The records of the era of a block d that becomes canonical: its own, and those
   of the blocks that lost. *)
LEMMA EraOfCanonical ==
  ASSUME NEW v, NEW c, ViewsOK(v, c), NEW d \in Known(v), Extends(d, c), Len(d) = Len(c) + 1,
         NEW R, R = RecordsAt(v, c, Era(d))
  PROVE  /\ UNION {r.insertions : r \in {x \in R : x.id = d}} = Added(v, d)
         /\ UNION {r.deletions : r \in {x \in R : x.id = d}} = Taken(v, d)
         /\ \A k : \A b \in Adding(v, c, k) :
              Era(b) = Era(d) /\ b # d => k \in UNION {r.insertions : r \in {x \in R : x.id # d}}
<1> USE DEF RecordsAt
<1>1. d \in Above(v, c)
  BY NextCanonical
<1>2. {x \in R : x.id = d} = {RecordOf(v, d)}
  <2>1. RecordOf(v, d) \in R
    BY <1>1
  <2>2. \A b \in Above(v, c) : RecordOf(v, b).id = b
    BY AboveFacts
  <2> QED
    BY <1>1, <2>1, <2>2
<1>3. RecordOf(v, d).insertions = Added(v, d) /\ RecordOf(v, d).deletions = Taken(v, d)
  BY <1>1, AboveFacts
<1>4. ASSUME NEW k, NEW b \in Adding(v, c, k), Era(b) = Era(d), b # d
      PROVE  k \in UNION {r.insertions : r \in {x \in R : x.id # d}}
  <2>1. b \in Above(v, c) /\ k \in Added(v, b)
    BY DEF Adding
  <2>2. RecordOf(v, b).id = b /\ RecordOf(v, b).insertions = Added(v, b)
    BY <2>1, AboveFacts
  <2>3. RecordOf(v, b) \in {x \in R : x.id # d}
    BY <1>4, <2>1, <2>2
  <2> QED
    BY <2>1, <2>2, <2>3
<1> QED
  BY <1>2, <1>3, <1>4

(* Purging the insertions of its era leaves the counts of the blocks above it. *)
Purged(v, c, d, n, drop) ==
  /\ [k \in DOMAIN n |-> n[k] - drop[k]] = Counts(v, d)
  /\ Cardinality(AddedNodes(v, d)) =
       Cardinality(AddedNodes(v, c)) - Cardinality({k \in DOMAIN n : n[k] > 0 /\ n[k] - drop[k] <= 0})

LEMMA EraPurged ==
  ASSUME NEW v, NEW c, ViewsOK(v, c), NEW d \in Known(v), Extends(d, c), Len(d) = Len(c) + 1,
         NEW R, R = RecordsAt(v, c, Era(d)),
         NEW drop, drop = [k \in Keys |-> Cardinality({r \in R : k \in r.insertions})],
         NEW n, n = Counts(v, c)
  PROVE  Purged(v, c, d, n, drop)
<1>1. ViewsOK(v, d) /\ \A k : Adding(v, d, k) = {b \in Adding(v, c, k) : Era(b) # Era(d)}
  BY NextCanonical
<1>2. DOMAIN n = Keys /\ \A k \in Keys : n[k] = Cardinality(Adding(v, c, k))
  BY DEF Counts
<1>3. ASSUME NEW k \in Keys
      PROVE  n[k] - drop[k] = Cardinality(Adding(v, d, k))
  <2>1. PICK X, Y : X = Adding(v, c, k) /\ Y = AddingAt(v, c, k, Era(d))
    OBVIOUS
  <2>2. drop[k] = Cardinality(Inserting(R, k))
    BY DEF Inserting
  <2>3. Cardinality(Inserting(R, k)) = Cardinality(Y)
    BY <2>1, PurgeCount
  <2>4. IsFiniteSet(X) /\ Y \subseteq X
    BY <2>1, AddingFinite DEF AddingAt
  <2>5. Adding(v, d, k) = X \ Y
    BY <1>1, <2>1 DEF AddingAt
  <2>6. Cardinality(X \ Y) = Cardinality(X) - Cardinality(Y)
    BY <2>4, PartSize
  <2> QED
    BY <1>2, <2>1, <2>2, <2>3, <2>5, <2>6
<1>4. [k \in DOMAIN n |-> n[k] - drop[k]] = Counts(v, d)
  BY <1>2, <1>3 DEF Counts
<1>5. PICK X, Y : X = AddedNodes(v, c) /\ Y = {k \in DOMAIN n : n[k] > 0 /\ n[k] - drop[k] <= 0}
  OBVIOUS
<1>6. \A k \in Keys : /\ n[k] \in Nat /\ n[k] - drop[k] \in Nat
                      /\ n[k] > 0 <=> Adding(v, c, k) # {}
                      /\ n[k] - drop[k] > 0 <=> Adding(v, d, k) # {}
  BY <1>1, <1>2, <1>3, AddingFinite
<1>7. \A k \in Keys : Adding(v, d, k) # {} => Adding(v, c, k) # {}
  BY <1>1
<1>8. Y = {k \in Keys : Adding(v, c, k) # {} /\ Adding(v, d, k) = {}}
  <2>1. ASSUME NEW k \in Keys
        PROVE  n[k] > 0 /\ n[k] - drop[k] <= 0 <=> Adding(v, c, k) # {} /\ Adding(v, d, k) = {}
    <3>1. PICK m : m = n[k] - drop[k]
      OBVIOUS
    <3>2. m \in Nat /\ (m > 0 <=> Adding(v, d, k) # {}) /\ (n[k] > 0 <=> Adding(v, c, k) # {})
      BY <1>6, <3>1
    <3>3. m <= 0 <=> ~(m > 0)
      BY <3>2
    <3> QED
      BY <3>1, <3>2, <3>3
  <2> QED
    BY <1>2, <1>5, <2>1
<1>9. Y \subseteq X /\ AddedNodes(v, d) = X \ Y /\ X \in SUBSET Keys
  BY <1>5, <1>7, <1>8 DEF AddedNodes
<1>10. IsFiniteSet(X)
  BY <1>9, FS_Subset, ClientConstants
<1>11. Cardinality(X \ Y) = Cardinality(X) - Cardinality(Y)
  BY <1>9, <1>10, PartSize
<1> QED
  BY <1>4, <1>5, <1>9, <1>11 DEF Purged

(* The nodes that the blocks of the era of d other than d add are lost. *)
TakesStrays(lost, v, c, d) ==
  \A k : \A b \in Adding(v, c, k) : Era(b) = Era(d) /\ b # d => k \in lost

(* With its insertions, and without its removals that no block above it brings
   back, the nodes are those of d. *)
LEMMA CanonicalNodes ==
  ASSUME NEW v, NEW c, ViewsOK(v, c), NEW d \in Known(v), Extends(d, c), Len(d) = Len(c) + 1,
         NEW nodes, NEW s, NodesOK(nodes, v, c, s), NEW lost, TakesStrays(lost, v, c, d)
  PROVE  NodesOK((nodes \cup Added(v, d)) \ {k \in Taken(v, d) : Adding(v, d, k) = {}}, v, d, s \cup lost)
<1>1. Parent(d) = c /\ \A k : Adding(v, d, k) = {b \in Adding(v, c, k) : Era(b) # Era(d)}
  BY NextCanonical
<1>2. Added(v, d) = v[d] \ v[c] /\ Taken(v, d) = v[c] \ v[d]
  BY <1>1 DEF Added, Taken
<1>3. v[c] \subseteq nodes
  BY DEF NodesOK
<1>4. PICK new : new = (nodes \cup Added(v, d)) \ {k \in Taken(v, d) : Adding(v, d, k) = {}}
  OBVIOUS
<1>5. v[d] \subseteq new
  BY <1>2, <1>3, <1>4
<1>6. ASSUME NEW k \in new
      PROVE  k \in v[d] \/ k \in s \cup lost \/ Adding(v, d, k) # {}
  <2>1. CASE k \in Added(v, d)
    BY <1>2, <2>1
  <2>2. CASE k \in v[c]
    BY <1>2, <1>4, <2>2
  <2>3. CASE Adding(v, c, k) # {}
    <3>1. PICK b : b \in Adding(v, c, k)
      BY <2>3
    <3>2. CASE Era(b) # Era(d)
      BY <1>1, <3>1, <3>2
    <3>3. CASE Era(b) = Era(d) /\ b # d
      BY <3>1, <3>3 DEF TakesStrays
    <3>4. CASE b = d
      BY <1>2, <3>1, <3>4 DEF Adding
    <3> QED
      BY <3>2, <3>3, <3>4
  <2> QED
    BY <1>4, <2>1, <2>2, <2>3 DEF NodesOK
<1> QED
  BY <1>4, <1>5, <1>6 DEF NodesOK

LEMMA MarkCanonicalKeeps ==
  ASSUME OverlayRecentInv, NEW d \in Blocks, OverlayRecent!MarkCanonical(d)
  PROVE  OverlayRecentInv'
<1>1. PICK R, canonical, drop, purged, ins, del : Marking(d, R, canonical, drop, purged, ins, del)
  BY MarkCanonicalIs
<1>2. PICK v, c, t, w, s : v = views /\ c = canon /\ t = tip /\ w = work /\ s = stray
  OBVIOUS
<1>3. /\ d \in Known(v) /\ Extends(d, c) /\ Len(d) = Len(c) + 1
      /\ views' = v /\ canon' = d /\ pc' = "batch" /\ memory' = memory /\ kept' = kept /\ db' = db
      /\ memory = EmptyMemory(Keys) \/ Extends(t, d)
  BY <1>1, <1>2 DEF Marking
<1>4. /\ ClientOK /\ BackingOK(batch, v, c) /\ ViewsOK(v, c) /\ JournalOK(batch.journal, v, c)
      /\ LatestOK(batch.latest, v) /\ NodesOK(batch.nodes, v, c, s)
  BY <1>2 DEF OverlayRecentInv, BackingOK
<1>5. /\ ViewsOK(v, d) /\ d \in Above(v, c) /\ Era(d) \in Eras
      /\ Above(v, d) = {b \in Above(v, c) : Era(b) # Era(d)}
  BY <1>3, <1>4, NextCanonical
<1>6. PICK V, nodes, old, flags, j :
        /\ j \in [Eras -> [Indexes -> V]]
        /\ batch = [nodes |-> nodes, journal |-> j, latest |-> old, already_in |-> flags]
        /\ batch.nodes = nodes /\ batch.journal = j /\ batch.latest = old
  BY <1>4, BackingIs
<1>7. JournalOK(j, v, c) /\ LatestOK(old, v) /\ NodesOK(nodes, v, c, s)
  BY <1>4, <1>6
<1>8. PICK x, p : overlay = OverlayFor(v, c, j, old, p, x)
  BY <1>2, <1>6 DEF OverlayRecentInv, OverlayOK
<1>9. /\ overlay.backing_overlay = Counts(v, c) /\ overlay.journal = Stored(j) /\ overlay.latest_era = old
      /\ overlay.cumulative_size = Cardinality(AddedNodes(v, c)) /\ overlay.pending_overlay = p
  BY <1>8 DEF OverlayFor
<1>10. PICK e \in Eras : e = Era(d)
  BY <1>5
<1>11. overlay.journal[Era(d)] = StoredRecords(j[e])
  BY <1>9, <1>10 DEF Stored
<1>12. R = RecordsAt(v, c, Era(d))
  <2>1. PICK seq : seq = StoredRecords(j[e])
    OBVIOUS
  <2>2. R = RecordsIn(seq)
    BY <1>1, <1>11, <2>1 DEF Marking, RecordsIn
  <2>3. RecordsIn(seq) = RecordsAt(v, c, e)
    BY <1>4, <1>7, <2>1, EraRecords
  <2> QED
    BY <1>10, <2>2, <2>3
<1>13. PICK n : n = Counts(v, c)
  OBVIOUS
<1>14. /\ drop = [k \in Keys |-> Cardinality({r \in R : k \in r.insertions})]
       /\ purged = [k \in DOMAIN n |-> n[k] - drop[k]]
       /\ canonical = {r \in R : r.id = d}
       /\ ins = {k \in UNION {r.insertions : r \in canonical} : n[k] > 0}
       /\ del = {k \in UNION {r.deletions : r \in canonical} : ~(purged[k] > 0)}
  BY <1>1, <1>9, <1>13 DEF Marking
<1>15. Purged(v, c, d, n, drop)
  BY <1>3, <1>4, <1>12, <1>13, <1>14, EraPurged
<1>16. PICK lost : lost = UNION {r.insertions : r \in {y \in R : y.id # d}}
  OBVIOUS
<1>17. /\ UNION {r.insertions : r \in canonical} = Added(v, d)
       /\ UNION {r.deletions : r \in canonical} = Taken(v, d)
       /\ TakesStrays(lost, v, c, d)
  BY <1>3, <1>4, <1>12, <1>14, <1>16, EraOfCanonical DEF TakesStrays
<1>18. ins = Added(v, d)
  <2>1. v[d] \subseteq Keys
    BY <1>3, <1>4, KnownFacts
  <2>2. ASSUME NEW k \in Added(v, d) PROVE n[k] > 0
    <3>1. k \in Keys /\ d \in Adding(v, c, k)
      BY <1>5, <2>1 DEF Added, Adding
    <3>2. Cardinality(Adding(v, c, k)) > 0
      BY <1>4, <3>1, AddingFinite
    <3> QED
      BY <1>13, <3>1, <3>2 DEF Counts
  <2> QED
    BY <1>14, <1>17, <2>2
<1>19. purged = Counts(v, d)
  BY <1>14, <1>15 DEF Purged
<1>20. del = {k \in Taken(v, d) : Adding(v, d, k) = {}}
  <2>1. Taken(v, d) \subseteq Keys
    <3>1. Parent(d) = c /\ c \in Known(v)
      BY <1>3, <1>4, NextCanonical DEF ViewsOK
    <3>2. v[c] \subseteq Keys
      BY <1>4, <3>1, KnownFacts
    <3> QED
      BY <3>1, <3>2 DEF Taken
  <2>2. ASSUME NEW k \in Keys PROVE purged[k] > 0 <=> Adding(v, d, k) # {}
    BY <1>5, <1>19, AddingFinite DEF Counts
  <2> QED
    BY <1>14, <1>17, <2>1, <2>2
<1>21. PICK q : q = [j EXCEPT ![e] = [i \in Indexes |-> NoRecord]]
  OBVIOUS
<1>22. JournalOK(q, v, d) /\ Stored(q) = [Stored(j) EXCEPT ![e] = << >>]
  <2>1. Above(v, d) = AboveBut(v, c, e) /\ Erased(q, j, e)
    BY <1>5, <1>10, <1>21 DEF AboveBut, Erased
  <2>2. ViewsOK(v, c) /\ ViewsOK(v, d) /\ JournalOK(j, v, c) /\ e \in Eras
    BY <1>4, <1>5, <1>7, <1>10
  <2> QED
    BY <2>1, <2>2, EraErased
<1>23. PICK new : new = (nodes \cup ins) \ del
  OBVIOUS
<1>24. batch' = [nodes |-> new, journal |-> q, latest |-> old, already_in |-> flags]
  <2>1. PICK blank : blank = [i \in Indexes |-> IF i < Len(StoredRecords(j[e])) THEN NoRecord ELSE j[e][i]]
    OBVIOUS
  <2>2. batch' = [batch EXCEPT !.nodes = new, !.journal[e] = blank]
    BY <1>1, <1>6, <1>10, <1>11, <1>23, <2>1 DEF Marking
  <2>3. blank = [i \in Indexes |-> NoRecord]
    <3>1. PICK m \in 0..MaxBlocks :
            (\A i \in Indexes : i < m <=> j[e][i] # NoRecord) /\ Len(StoredRecords(j[e])) = m
      <4>1. \A i, m \in Indexes : j[e][i] # NoRecord /\ m < i => j[e][m] # NoRecord
        BY <1>7 DEF JournalOK
      <4> QED
        BY <4>1, StoredFacts
    <3> QED
      BY <2>1, <3>1
  <2> QED
    BY <1>6, <1>21, <2>2, <2>3
<1>25. batch'.nodes = new /\ batch'.journal = q /\ batch'.latest = old /\ batch'.already_in = flags
  BY <1>24
<1>26. BackingOK(batch, views, canon)'
  BY <1>3, <1>5, <1>7, <1>22, <1>24, <1>25 DEF BackingOK
<1>27. stray' = s \cup lost
  BY <1>1, <1>2, <1>16 DEF Marking
<1>28. NodesOK(batch.nodes, views, canon, stray)'
  <2>1. NodesOK((nodes \cup Added(v, d)) \ {k \in Taken(v, d) : Adding(v, d, k) = {}}, v, d, s \cup lost)
    BY <1>3, <1>4, <1>7, <1>17, CanonicalNodes
  <2>2. NodesOK(new, v, d, s \cup lost)
    BY <1>18, <1>20, <1>23, <2>1
  <2> QED
    BY <1>3, <1>25, <1>27, <2>2
<1>29. overlay' = OverlayFor(v, d, q, old, p \cup ins, overlay'.earliest_era)
  <2>1. Cardinality(AddedNodes(v, d)) =
          Cardinality(AddedNodes(v, c)) - Cardinality({k \in DOMAIN n : n[k] > 0 /\ n[k] - drop[k] <= 0})
    BY <1>15 DEF Purged
  <2> QED
    BY <1>1, <1>9, <1>10, <1>13, <1>19, <1>22, <2>1 DEF Marking, OverlayFor
<1>30. overlay'.pending_overlay = p \cup ins
  BY <1>29 DEF OverlayFor
<1>31. OverlayOK'
  BY <1>3, <1>25, <1>29, <1>30 DEF OverlayOK
<1>32. batch'.nodes \subseteq db'.nodes \cup overlay'.pending_overlay
  <2>1. nodes \subseteq db.nodes \cup p
    BY <1>6, <1>9 DEF OverlayRecentInv
  <2> QED
    BY <1>3, <1>23, <1>25, <1>30, <2>1
<1>33. CacheOK'
  <2>1. read_cache' = [k \in Keys |-> Uncached] /\ Uncached # FALSE
    BY <1>1, DatabaseConstants DEF Marking
  <2> QED
    BY <2>1 DEF CacheOK
<1>34. ClientOK'
  <2>1. tip' = (IF Extends(t, d) THEN t ELSE d) /\ work' = IF Extends(t, d) THEN w ELSE v[d]
    BY <1>1, <1>2 DEF Marking
  <2>2. t \in Known(v) /\ w \subseteq Keys /\ memory = Change(w, v[t])
        /\ kept = [views |-> kept.views, canon |-> kept.canon, stray |-> kept.stray]
    BY <1>2, <1>4 DEF ClientOK
  <2>3. CASE Extends(t, d)
    BY <1>3, <2>1, <2>2, <2>3 DEF ClientOK
  <2>4. CASE ~Extends(t, d)
    <3>1. tip' = d /\ work' = v[d] /\ memory = EmptyMemory(Keys)
      BY <1>3, <2>1, <2>4
    <3>2. Extends(d, d)
      BY BlockFacts, OwnAncestor, ExtendsAncestor
    <3>3. v[d] \subseteq Keys
      BY <1>3, <1>4, KnownFacts
    <3>4. Change(v[d], v[d]) = EmptyMemory(Keys)
      BY NothingChanges
    <3> QED
      BY <1>3, <2>2, <3>1, <3>2, <3>3, <3>4 DEF ClientOK
  <2> QED
    BY <2>3, <2>4
<1>35. BackingOK(db, kept.views, kept.canon)' /\ NodesOK(db.nodes, kept.views, kept.canon, kept.stray)'
  BY <1>3 DEF OverlayRecentInv
<1> QED
  BY <1>3, <1>26, <1>28, <1>31, <1>32, <1>33, <1>34, <1>35 DEF OverlayRecentInv

(* Before there is any block the genesis state may be replaced by another. *)
Replaced(u, v, c, w) ==
  /\ ViewsOK(u, c) /\ Known(u) = {Genesis} /\ u[c] = w /\ u[Genesis] = w /\ c = Genesis
  /\ \A k : Adding(u, c, k) = {} /\ Adding(v, c, k) = {}
  /\ \A j : JournalOK(j, v, c) => JournalOK(j, u, c)
  /\ \A l : LatestOK(l, v) => LatestOK(l, u)

LEMMA GenesisReplaced ==
  ASSUME NEW v, NEW c, ViewsOK(v, c), Known(v) = {Genesis}, NEW w \in SUBSET Keys,
         NEW u, u = [v EXCEPT ![Genesis] = w]
  PROVE  Replaced(u, v, c, w)
<1>1. c = Genesis /\ Genesis \in Blocks /\ Len(Genesis) = 0
  <2>1. Genesis \in Known(v) /\ c = Genesis
    BY DEF ViewsOK
  <2> QED
    BY <2>1 DEF Known, Genesis
<1>2. u \in [Blocks -> (SUBSET Keys) \cup {NoView}] /\ u[Genesis] = w /\ w # NoView
      /\ \A b \in Blocks : b # Genesis => u[b] = v[b]
  BY <1>1, ClientConstants DEF ViewsOK
<1>3. Known(u) = {Genesis}
  BY <1>1, <1>2 DEF Known
<1>4. ViewsOK(u, c)
  BY <1>1, <1>2, <1>3 DEF ViewsOK
<1>5. Above(u, c) = {} /\ Above(v, c) = {}
  <2>1. ~(Len(Genesis) > Len(Genesis))
    BY <1>1
  <2> QED
    BY <1>1, <1>3, <2>1 DEF Above
<1>6. \A k : Adding(u, c, k) = {} /\ Adding(v, c, k) = {}
  BY <1>5 DEF Adding
<1>7. ASSUME NEW j, JournalOK(j, v, c) PROVE JournalOK(j, u, c)
  <2>1. {RecordOf(v, b) : b \in Above(v, c)} = {} /\ {RecordOf(u, b) : b \in Above(u, c)} = {}
    BY <1>5
  <2> QED
    BY <1>5, <1>7, <2>1 DEF JournalOK
<1>8. \A l : LatestOK(l, v) => LatestOK(l, u)
  BY <1>3 DEF LatestOK
<1> QED
  BY <1>1, <1>2, <1>3, <1>4, <1>6, <1>7, <1>8 DEF Replaced

LEMMA InjectKeeps ==
  ASSUME OverlayRecentInv, OverlayRecent!Inject
  PROVE  OverlayRecentInv'
<1>1. /\ read_cache = [k \in Keys |-> Uncached] /\ pc = "idle" /\ Known(views) = {Genesis}
      /\ views' = [views EXCEPT ![Genesis] = work]
      /\ kept' = [kept EXCEPT !.views = views']
      /\ db' = [db EXCEPT !.nodes = (db.nodes \cup {k \in DOMAIN memory : memory[k] > 0})
                                      \ {k \in DOMAIN memory : memory[k] < 0}]
      /\ batch' = db'
      /\ memory' = EmptyMemory(Keys)
      /\ UNCHANGED <<canon, tip, work, stray, pc, overlay, read_cache>>
  BY InjectIs
<1>2. PICK v, c, w, s, u : v = views /\ c = canon /\ w = work /\ s = stray /\ u = [v EXCEPT ![Genesis] = w]
  OBVIOUS
<1>3. /\ ClientOK /\ BackingOK(batch, v, c) /\ ViewsOK(v, c) /\ NodesOK(batch.nodes, v, c, s)
      /\ batch = db /\ overlay.pending_overlay = {}
  BY <1>1, <1>2 DEF OverlayRecentInv, BackingOK, InStep
<1>4. kept = [views |-> v, canon |-> c, stray |-> s]
  BY <1>1, <1>2 DEF OverlayRecentInv, InStep
<1>5. w \in SUBSET Keys /\ v[tip] \in SUBSET Keys /\ tip \in Known(v) /\ memory = Change(w, v[tip])
  BY <1>2, <1>3, TipFacts DEF ClientOK
<1>6. Known(v) = {Genesis} /\ tip = Genesis
  BY <1>1, <1>2, <1>5
<1>7. Replaced(u, v, c, w)
  BY <1>2, <1>3, <1>5, <1>6, GenesisReplaced
<1>8. ViewsOK(u, c) /\ Known(u) = {Genesis} /\ c = Genesis /\ u[Genesis] = w
  BY <1>7 DEF Replaced
<1>9. PICK V, nodes, old, flags, j :
        /\ batch = [nodes |-> nodes, journal |-> j, latest |-> old, already_in |-> flags]
        /\ batch.nodes = nodes /\ batch.journal = j /\ batch.latest = old
  BY <1>3, BackingIs
<1>10. JournalOK(j, u, c) /\ LatestOK(old, u)
  BY <1>3, <1>7, <1>9 DEF Replaced, BackingOK
<1>11. PICK new : new = (nodes \cup (w \ v[c])) \ (v[c] \ w)
  OBVIOUS
<1>12. batch' = [nodes |-> new, journal |-> j, latest |-> old, already_in |-> flags] /\ db' = batch'
  <2>1. /\ {k \in DOMAIN memory : memory[k] > 0} = w \ v[c]
        /\ {k \in DOMAIN memory : memory[k] < 0} = v[c] \ w
    <3>1. PICK a \in SUBSET Keys : a = v[c] /\ memory = Change(w, a)
      BY <1>5, <1>6, <1>8
    <3>2. /\ {k \in DOMAIN Change(w, a) : Change(w, a)[k] > 0} = w \ a
          /\ {k \in DOMAIN Change(w, a) : Change(w, a)[k] < 0} = a \ w
      BY <1>5, ChangeFacts
    <3> QED
      BY <3>1, <3>2
  <2>2. db' = [batch EXCEPT !.nodes = new]
    BY <1>1, <1>3, <1>9, <1>11, <2>1
  <2> QED
    BY <1>1, <1>9, <2>2
<1>13. batch'.nodes = new /\ batch'.journal = j /\ batch'.latest = old /\ batch'.already_in = flags
  BY <1>12
<1>14. views' = u /\ canon' = c /\ stray' = s /\ tip' = Genesis /\ work' = w
  BY <1>1, <1>2, <1>6
<1>15. kept' = [views |-> u, canon |-> c, stray |-> s]
  BY <1>1, <1>4, <1>14
<1>16. BackingOK(batch', u, c)
  BY <1>8, <1>10, <1>12, <1>13 DEF BackingOK
<1>17. NodesOK(batch'.nodes, u, c, s)
  <2>1. NodesOK(nodes, v, c, s) /\ u[c] = w
    BY <1>3, <1>8, <1>9
  <2>2. \A k : Adding(u, c, k) = {} /\ Adding(v, c, k) = {}
    BY <1>7 DEF Replaced
  <2> QED
    BY <1>11, <1>13, <2>1, <2>2 DEF NodesOK
<1>18. ClientOK'
  <2>1. Change(w, u[Genesis]) = EmptyMemory(Keys)
    BY <1>8, NothingChanges
  <2>2. Genesis \in Known(u) /\ Extends(Genesis, c)
    <3>1. Genesis \in Blocks
      BY <1>8 DEF Known
    <3> QED
      BY <1>8, <3>1, BlockFacts, OwnAncestor, ExtendsAncestor
  <2>3. kept'.views = u /\ kept'.canon = c /\ kept'.stray = s
    BY <1>15
  <2> QED
    BY <1>1, <1>5, <1>14, <1>15, <2>1, <2>2, <2>3 DEF ClientOK
<1>19. OverlayOK'
  <2>1. PICK x, p : overlay = OverlayFor(v, c, j, old, p, x)
    BY <1>2, <1>9 DEF OverlayRecentInv, OverlayOK
  <2>2. Counts(u, c) = Counts(v, c) /\ AddedNodes(u, c) = AddedNodes(v, c)
    BY <1>7 DEF Counts, AddedNodes, Replaced
  <2>3. overlay = OverlayFor(u, c, j, old, p, x)
    BY <2>1, <2>2 DEF OverlayFor
  <2>4. overlay.pending_overlay = p /\ overlay.earliest_era = x
    BY <2>3 DEF OverlayFor
  <2> QED
    BY <1>1, <1>13, <1>14, <2>3, <2>4 DEF OverlayOK
<1>20. CacheOK'
  <2>1. read_cache' = [k \in Keys |-> Uncached] /\ Uncached # FALSE
    BY <1>1, DatabaseConstants
  <2> QED
    BY <2>1 DEF CacheOK
<1>21. pc' = "idle" /\ overlay' = overlay
  BY <1>1
<1>22. kept'.views = u /\ kept'.canon = c /\ kept'.stray = s
  BY <1>15
<1>23. InStep'
  BY <1>12, <1>14, <1>15 DEF InStep
<1>24. BackingOK(batch, views, canon)' /\ NodesOK(batch.nodes, views, canon, stray)'
  BY <1>14, <1>16, <1>17
<1>25. BackingOK(db, kept.views, kept.canon)' /\ NodesOK(db.nodes, kept.views, kept.canon, kept.stray)'
  BY <1>12, <1>16, <1>17, <1>22
<1> QED
  BY <1>3, <1>12, <1>18, <1>19, <1>20, <1>21, <1>23, <1>24, <1>25 DEF OverlayRecentInv

LEMMA GenesisIsBlock == Genesis \in Blocks /\ Len(Genesis) = 0
<1>1. 0 \in 0..MaxEra
  BY ClientConstants
<1>2. Genesis \in [1..0 -> Ids]
  BY DEF Genesis
<1> QED
  BY <1>1, <1>2, IsBlock

(* A new database: no block, no node, no record. *)
NewViews == [b \in Blocks |-> IF b = Genesis THEN {} ELSE NoView]

LEMMA NewDatabase ==
  /\ BackingOK(EmptyBacking({}), NewViews, Genesis)
  /\ NodesOK({}, NewViews, Genesis, {})
  /\ Known(NewViews) = {Genesis} /\ NewViews[Genesis] = {}
<1>1. PICK v : v = NewViews
  OBVIOUS
<1>2. v \in [Blocks -> (SUBSET Keys) \cup {NoView}] /\ v[Genesis] = {} /\ {} # NoView
      /\ \A b \in Blocks : b # Genesis => v[b] = NoView
  BY <1>1, GenesisIsBlock, ClientConstants DEF NewViews
<1>3. Known(v) = {Genesis}
  BY <1>2, GenesisIsBlock DEF Known
<1>4. ViewsOK(v, Genesis)
  <2>1. \A n \in 0..Len(Genesis) : Ancestor(Genesis, n) = Genesis
    BY GenesisIsBlock, OwnAncestor
  <2>2. IsFiniteSet({Genesis})
    BY FS_Singleton
  <2> QED
    BY <1>2, <1>3, <2>1, <2>2 DEF ViewsOK
<1>5. Above(v, Genesis) = {}
  <2>1. ~(Len(Genesis) > Len(Genesis))
    BY GenesisIsBlock
  <2> QED
    BY <1>3, <2>1 DEF Above
<1>6. PICK j : j = [e \in Eras |-> [i \in Indexes |-> NoRecord]]
  OBVIOUS
<1>7. JournalOK(j, v, Genesis)
  BY <1>5, <1>6 DEF JournalOK
<1>8. LatestOK(NoEra, v)
  <2>1. ~(Len(Genesis) > 0)
    BY GenesisIsBlock
  <2> QED
    BY <1>3, <2>1 DEF LatestOK
<1>9. EmptyBacking({}) = [nodes |-> {}, journal |-> j, latest |-> NoEra, already_in |-> {}]
  BY <1>6 DEF EmptyBacking
<1>10. BackingOK(EmptyBacking({}), v, Genesis)
  BY <1>4, <1>7, <1>8, <1>9 DEF BackingOK
<1>11. NodesOK({}, v, Genesis, {})
  BY <1>2 DEF NodesOK
<1> QED
  BY <1>1, <1>2, <1>3, <1>10, <1>11

LEMMA OverlayRecentStarts ==
  ASSUME OverlayRecent!Init
  PROVE  OverlayRecentInv
<1>1. /\ views = NewViews /\ canon = Genesis /\ tip = Genesis /\ work = {} /\ stray = {}
      /\ kept = [views |-> views, canon |-> canon, stray |-> stray]
      /\ pc = "idle" /\ memory = EmptyMemory(Keys)
      /\ db = EmptyBacking({}) /\ overlay = OverlayRecent!ReadOverlay(db) /\ batch = db
      /\ read_cache = [k \in Keys |-> Uncached]
  BY SameOperators DEF OverlayRecent!Init, OverlayRecent!ClientInit, OverlayRecent!Genesis, Genesis, NewViews,
     OverlayRecent!EmptyBacking, EmptyBacking, OverlayRecent!EmptyCache
<1>2. BackingOK(batch, views, canon) /\ NodesOK(batch.nodes, views, canon, stray)
  <2>1. batch.nodes = {}
    BY <1>1 DEF EmptyBacking
  <2> QED
    BY <1>1, <2>1, NewDatabase
<1>3. InStep
  BY <1>1 DEF InStep
<1>4. ClientOK
  <2>1. Genesis \in Known(views) /\ views[Genesis] = {}
    BY <1>1, NewDatabase
  <2>2. Extends(Genesis, Genesis)
    BY GenesisIsBlock, OwnAncestor, ExtendsAncestor
  <2>3. Change({}, {}) = EmptyMemory(Keys)
    BY NothingChanges
  <2> QED
    BY <1>1, <2>1, <2>2, <2>3 DEF ClientOK
<1>5. OverlayOK /\ overlay.pending_overlay = {}
  <2>1. PICK v, c, b : v = views /\ c = canon /\ b = batch
    OBVIOUS
  <2>2. PICK x : OverlayRecent!ReadOverlay(b) = OverlayFor(v, c, b.journal, b.latest, {}, x)
    BY <1>2, <2>1, ReadOverlayIs
  <2>3. overlay = OverlayFor(v, c, b.journal, b.latest, {}, x)
    BY <1>1, <2>1, <2>2
  <2>4. overlay.pending_overlay = {} /\ overlay.earliest_era = x
    BY <2>3 DEF OverlayFor
  <2> QED
    BY <2>1, <2>3, <2>4 DEF OverlayOK
<1>6. CacheOK
  <2>1. Uncached # FALSE
    BY DatabaseConstants
  <2> QED
    BY <1>1, <2>1 DEF CacheOK
<1> QED
  BY <1>1, <1>2, <1>3, <1>4, <1>5, <1>6 DEF OverlayRecentInv, InStep

LEMMA OverlayRecentStutters ==
  ASSUME OverlayRecentInv, UNCHANGED vars
  PROVE  OverlayRecentInv'
BY DEF OverlayRecentInv, vars, clientVars, ClientOK, InStep, OverlayOK, CacheOK

(* Every operation of OverlayRecentDB keeps its invariant. *)
THEOREM OverlayRecentInductive == Spec => [](algorithm = "OverlayRecent" => OverlayRecentInv)
<1>1. Init => (algorithm = "OverlayRecent" => OverlayRecentInv)
  BY OverlayRecentStarts DEF Init
<1>2. ASSUME algorithm = "OverlayRecent" => OverlayRecentInv, [Next]_vars, algorithm' = "OverlayRecent"
      PROVE  OverlayRecentInv'
  <2>1. CASE UNCHANGED vars
    <3>1. OverlayRecentInv
      BY <1>2, <2>1 DEF vars
    <3> QED
      BY <2>1, <3>1, OverlayRecentStutters
  <2>2. CASE Next
    <3>1. NextOverlayRecent
      BY <1>2, <2>2 DEF Next, NextOverlayRecent, NextEarlyMerge, NextRefCounted, NextArchive,
         NotOverlayRecent, NotEarlyMerge, NotRefCounted, NotArchive
    <3>2. OverlayRecentInv
      BY <1>2, <3>1 DEF NextOverlayRecent
    <3> QED
      BY <3>1, <3>2, InsertKeeps, RemoveKeeps, GetKeeps, SwitchToKeeps, JournalUnderKeeps, MarkCanonicalKeeps,
         WriteBatchKeeps, FlushKeeps, InjectKeeps, ReopenKeeps DEF NextOverlayRecent
  <2> QED
    BY <1>2, <2>1, <2>2
<1>3. (algorithm = "OverlayRecent" => OverlayRecentInv) /\ [Next]_vars
        => (algorithm = "OverlayRecent" => OverlayRecentInv)'
  BY <1>2
<1> QED
  BY <1>1, <1>3, PTL DEF Spec

-------------------------------------------------------------------------------
(* OverlayRecentDB: what the invariant gives *)

(* get finds what the batch has, what a block above the canonical one adds, and
   what was inserted since the tip. *)
LEMMA FoundWhere ==
  ASSUME OverlayRecentInv, NEW k \in Keys,
         k \in batch.nodes \/ Adding(views, canon, k) # {} \/ memory[k] > 0
  PROVE  OverlayRecent!Found(k)
<1>1. CASE memory[k] > 0
  BY <1>1 DEF OverlayRecent!Found, OverlayRecent!InOverlays, OverlayRecent!Contains
<1>2. CASE Adding(views, canon, k) # {}
  <2>1. PICK v, c : v = views /\ c = canon
    OBVIOUS
  <2>2. ViewsOK(v, c) /\ Adding(v, c, k) # {}
    BY <1>2, <2>1 DEF OverlayRecentInv, BackingOK
  <2>3. Cardinality(Adding(v, c, k)) > 0
    BY <2>2, AddingFinite
  <2>4. overlay.backing_overlay = Counts(v, c)
    BY <2>1 DEF OverlayRecentInv, OverlayOK, OverlayFor
  <2>5. overlay.backing_overlay[k] > 0
    BY <2>3, <2>4 DEF Counts
  <2> QED
    BY <2>5 DEF OverlayRecent!Found, OverlayRecent!InOverlays, OverlayRecent!Contains
<1>3. CASE k \in batch.nodes
  <2>1. k \in db.nodes \/ k \in overlay.pending_overlay
    BY <1>3 DEF OverlayRecentInv
  <2>2. read_cache[k] \in {Uncached, TRUE, FALSE} /\ read_cache[k] # FALSE
    BY <1>3 DEF OverlayRecentInv, CacheOK
  <2>3. CASE read_cache[k] = Uncached
    BY <2>1, <2>3 DEF OverlayRecent!Found, OverlayRecent!InOverlays
  <2>4. CASE read_cache[k] = TRUE
    <3>1. read_cache[k] # Uncached
      BY <2>4, DatabaseConstants
    <3> QED
      BY <2>4, <3>1, Zenon DEF OverlayRecent!Found
  <2> QED
    BY <2>2, <2>3, <2>4
<1> QED
  BY <1>1, <1>2, <1>3

LEMMA OverlayRecentReadable ==
  ASSUME OverlayRecentInv
  PROVE  OverlayRecent!LiveReadable
<1>1. ViewsOK(views, canon) /\ ClientOK /\ views[canon] \subseteq batch.nodes
  BY DEF OverlayRecentInv, BackingOK, NodesOK
<1>2. ASSUME NEW b \in Known(views), Extends(b, canon), NEW k \in views[b]
      PROVE  k \in Keys /\ OverlayRecent!Found(k)
  <2>1. PICK v, c : v = views /\ c = canon
    OBVIOUS
  <2>2. ViewsOK(v, c) /\ b \in Known(v) /\ Extends(b, c) /\ k \in v[b]
    BY <1>1, <1>2, <2>1
  <2>3. k \in Keys /\ (k \in v[c] \/ Adding(v, c, k) # {})
    BY <2>2, KnownFacts, Covered
  <2> QED
    BY <1>1, <2>1, <2>3, FoundWhere
<1>3. ASSUME NEW k \in work
      PROVE  k \in Keys /\ OverlayRecent!Found(k)
  <2>1. k \in Keys /\ tip \in Known(views) /\ Extends(tip, canon) /\ memory = Change(work, views[tip])
    BY <1>1 DEF ClientOK
  <2>2. CASE k \in views[tip]
    BY <1>2, <2>1, <2>2
  <2>3. CASE k \notin views[tip]
    <3>1. memory[k] > 0
      BY <2>1, <2>3 DEF Change
    <3> QED
      BY <2>1, <3>1, FoundWhere
  <2> QED
    BY <2>2, <2>3
<1>4. \A b \in OverlayRecent!Live : b \in Known(views) /\ Extends(b, canon)
  BY SameOperators DEF OverlayRecent!Live
<1> QED
  BY <1>2, <1>3, <1>4 DEF OverlayRecent!LiveReadable, OverlayRecent!NodesFound

LEMMA OverlayRecentReconstructs ==
  ASSUME OverlayRecentInv
  PROVE  OverlayRecent!OverlayReconstructs
<1> SUFFICES ASSUME pc = "idle"
             PROVE  overlay = [OverlayRecent!ReadOverlay(db) EXCEPT !.earliest_era = overlay.earliest_era]
  BY DEF OverlayRecent!OverlayReconstructs
<1>1. PICK b, v, c : b = db /\ v = views /\ c = canon
  OBVIOUS
<1>2. BackingOK(b, v, c) /\ overlay.pending_overlay = {}
  BY <1>1 DEF OverlayRecentInv, InStep
<1>3. PICK x : OverlayRecent!ReadOverlay(b) = OverlayFor(v, c, b.journal, b.latest, {}, x)
  BY <1>2, ReadOverlayIs
<1>4. PICK y : y = overlay.earliest_era
  OBVIOUS
<1>5. overlay = OverlayFor(v, c, b.journal, b.latest, {}, y)
  BY <1>1, <1>2, <1>4 DEF OverlayRecentInv, OverlayOK, InStep
<1>6. OverlayFor(v, c, b.journal, b.latest, {}, y)
        = [OverlayFor(v, c, b.journal, b.latest, {}, x) EXCEPT !.earliest_era = y]
  BY DEF OverlayFor
<1> QED
  BY <1>1, <1>3, <1>4, <1>5, <1>6

LEMMA OverlayRecentPruned ==
  ASSUME OverlayRecentInv
  PROVE  OverlayRecent!BackingPruned
<1> SUFFICES ASSUME pc = "idle", \A e \in Eras : overlay.journal[e] = << >>
             PROVE  views[canon] \subseteq db.nodes /\ db.nodes \ views[canon] \subseteq stray
  BY SameOperators DEF OverlayRecent!BackingPruned
<1>1. PICK b, v, c : b = db /\ v = views /\ c = canon
  OBVIOUS
<1>2. BackingOK(b, v, c) /\ NodesOK(b.nodes, v, c, stray)
  BY <1>1 DEF OverlayRecentInv, InStep
<1>3. PICK j : j = b.journal
  OBVIOUS
<1>4. overlay.journal = Stored(j)
  BY <1>1, <1>3 DEF OverlayRecentInv, OverlayOK, OverlayFor, InStep
<1>5. ViewsOK(v, c) /\ JournalOK(j, v, c)
  BY <1>2, <1>3 DEF BackingOK
<1>6. Above(v, c) = {}
  <2> SUFFICES ASSUME NEW a \in Above(v, c) PROVE FALSE
    OBVIOUS
  <2>1. PICK e \in Eras : e = Era(a)
    BY <1>5, AboveFacts
  <2>2. PICK s : s = StoredRecords(j[e])
    OBVIOUS
  <2>3. RecordsIn(s) = RecordsAt(v, c, e)
    BY <1>5, <2>1, <2>2, EraRecords
  <2>4. s = << >>
    BY <1>4, <2>1, <2>2 DEF Stored
  <2>5. DOMAIN s = {}
    BY <2>4
  <2> QED
    BY <2>1, <2>3, <2>5 DEF RecordsIn, RecordsAt
<1>7. \A k : Adding(v, c, k) = {}
  BY <1>6 DEF Adding
<1> QED
  BY <1>1, <1>2, <1>7 DEF NodesOK

-------------------------------------------------------------------------------
(* The client's part of each operation, whichever the database *)

LEMMA ClientInserts ==
  ASSUME ViewsOK(views, canon), ClientOK, NEW k \in Keys, k \notin work, work' = work \cup {k},
         memory' = [memory EXCEPT ![k] = memory[k] + 1], UNCHANGED <<views, canon, tip, kept>>
  PROVE  ClientOK'
<1>1. memory' = Change(work \cup {k}, views[tip])
  <2>1. PICK w \in SUBSET Keys, v \in SUBSET Keys : w = work /\ v = views[tip] /\ memory = Change(w, v)
    BY TipFacts
  <2>2. Change(w \cup {k}, v) = [Change(w, v) EXCEPT ![k] = Change(w, v)[k] + 1]
    BY <2>1, ChangeInsert
  <2> QED
    BY <2>1, <2>2
<1> QED
  BY <1>1 DEF ClientOK

LEMMA ClientRemoves ==
  ASSUME ViewsOK(views, canon), ClientOK, NEW k \in Keys, k \in work, work' = work \ {k},
         memory' = [memory EXCEPT ![k] = memory[k] - 1], UNCHANGED <<views, canon, tip, kept>>
  PROVE  ClientOK'
<1>1. memory' = Change(work \ {k}, views[tip])
  <2>1. PICK w \in SUBSET Keys, v \in SUBSET Keys : w = work /\ v = views[tip] /\ memory = Change(w, v)
    BY TipFacts
  <2>2. Change(w \ {k}, v) = [Change(w, v) EXCEPT ![k] = Change(w, v)[k] - 1]
    BY <2>1, ChangeRemove
  <2> QED
    BY <2>1, <2>2
<1> QED
  BY <1>1 DEF ClientOK

LEMMA ClientSwitches ==
  ASSUME ViewsOK(views, canon), ClientOK, NEW b, b \in Known(views), Extends(b, canon),
         tip' = b, work' = views[b], memory = EmptyMemory(Keys), UNCHANGED <<views, canon, kept, memory>>
  PROVE  ClientOK'
<1>1. memory = Change(views[b], views[b])
  BY NothingChanges
<1>2. views[b] \subseteq Keys
  BY KnownFacts
<1> QED
  BY <1>1, <1>2 DEF ClientOK

LEMMA ClientJournals ==
  ASSUME ViewsOK(views, canon), ClientOK, NEW id \in Ids, NEW b \in Blocks, b = Append(tip, id),
         views[b] = NoView, views' = [views EXCEPT ![b] = work], tip' = b,
         memory' = EmptyMemory(Keys), UNCHANGED <<canon, work, kept>>
  PROVE  ClientOK' /\ ExtendedBy(views', views, canon, tip, work, b)
<1>1. PICK v, c, t, w, u : v = views /\ c = canon /\ t = tip /\ w = work /\ u = [v EXCEPT ![b] = w]
  OBVIOUS
<1>2. /\ w \in SUBSET Keys /\ t \in Known(v) /\ Extends(t, c) /\ t \in Blocks /\ c \in Blocks /\ ViewsOK(v, c)
  BY <1>1, TipFacts DEF ClientOK
<1>3. Len(c) \in 0..Len(t) /\ Len(t) >= Len(c) /\ Ancestor(t, Len(c)) = c
  BY <1>2, ExtendsAncestor, BlockFacts
<1>4. b = Append(t, id) /\ v[b] = NoView
  BY <1>1
<1>5. ExtendedBy(u, v, c, t, w, b)
  BY <1>1, <1>2, <1>3, <1>4, NewBlock
<1>6. views' = u /\ Known(u) = Known(v) \cup {b} /\ u[b] = w /\ Len(b) = Len(t) + 1
  BY <1>1, <1>5 DEF ExtendedBy
<1>7. Change(w, u[b]) = EmptyMemory(Keys)
  BY <1>6, NothingChanges
<1>8. Extends(b, c)
  <2>1. \A m \in 0..Len(t) : Ancestor(b, m) = Ancestor(t, m)
    <3>1. b = Append(t, id) /\ t \in Blocks
      BY <1>2, <1>4
    <3> QED
      BY <3>1, ChildFacts
  <2>2. Len(c) <= Len(b)
    BY <1>2, <1>3, <1>6, BlockFacts
  <2> QED
    BY <1>2, <1>3, <2>1, <2>2, ExtendsAncestor
<1>9. ClientOK'
  <2>1. kept = [views |-> kept.views, canon |-> kept.canon, stray |-> kept.stray]
    BY DEF ClientOK
  <2> QED
    BY <1>1, <1>2, <1>6, <1>7, <1>8, <2>1 DEF ClientOK
<1> QED
  BY <1>1, <1>5, <1>6, <1>9

LEMMA ClientMarks ==
  ASSUME ViewsOK(views, canon), ClientOK, NEW d \in Blocks, d \in Known(views),
         memory = EmptyMemory(Keys) \/ Extends(tip, d), canon' = d,
         tip' = IF Extends(tip, d) THEN tip ELSE d,
         work' = IF Extends(tip, d) THEN work ELSE views[d],
         UNCHANGED <<views, kept, memory>>
  PROVE  ClientOK'
<1>1. CASE Extends(tip, d)
  BY <1>1 DEF ClientOK
<1>2. CASE ~Extends(tip, d)
  <2>1. tip' = d /\ work' = views[d] /\ memory = EmptyMemory(Keys)
    BY <1>2
  <2>2. Extends(d, d)
    BY BlockFacts, OwnAncestor, ExtendsAncestor
  <2>3. views[d] \subseteq Keys
    BY KnownFacts
  <2>4. Change(views[d], views[d]) = EmptyMemory(Keys)
    BY NothingChanges
  <2> QED
    BY <2>1, <2>2, <2>3, <2>4 DEF ClientOK
<1> QED
  BY <1>1, <1>2

LEMMA ClientReopens ==
  ASSUME ViewsOK(kept.views, kept.canon), ClientOK,
         views' = kept.views, canon' = kept.canon, stray' = kept.stray, tip' = kept.canon,
         work' = kept.views[kept.canon], memory' = EmptyMemory(Keys), batch' = db, UNCHANGED <<kept, db>>
  PROVE  ClientOK' /\ InStep'
<1>1. PICK v, c : v = kept.views /\ c = kept.canon
  OBVIOUS
<1>2. ViewsOK(v, c) /\ c \in Known(v)
  BY <1>1 DEF ViewsOK
<1>3. c \in Blocks /\ Len(c) \in Nat /\ v[c] \subseteq Keys
  BY <1>2, KnownFacts
<1>4. Extends(c, c)
  BY <1>3, ExtendsAncestor, OwnAncestor
<1>5. EmptyMemory(Keys) = Change(v[c], v[c])
  BY NothingChanges
<1>6. ClientOK'
  BY <1>1, <1>2, <1>3, <1>4, <1>5 DEF ClientOK
<1>7. InStep'
  BY DEF InStep, ClientOK
<1> QED
  BY <1>6, <1>7

(* inject, into the genesis state. *)
LEMMA ClientInjects ==
  ASSUME ViewsOK(views, canon), ClientOK, kept = [views |-> views, canon |-> canon, stray |-> stray],
         Known(views) = {Genesis}, views' = [views EXCEPT ![Genesis] = work],
         kept' = [kept EXCEPT !.views = views'], memory' = EmptyMemory(Keys),
         UNCHANGED <<canon, tip, work, stray>>
  PROVE  /\ ClientOK' /\ Replaced(views', views, canon, work)
         /\ kept' = [views |-> views', canon |-> canon', stray |-> stray']
         /\ tip = canon /\ work \in SUBSET Keys /\ views[canon] \in SUBSET Keys
<1>1. PICK v, c, w, u : v = views /\ c = canon /\ w = work /\ u = [v EXCEPT ![Genesis] = w]
  OBVIOUS
<1>2. w \in SUBSET Keys /\ tip \in Known(v) /\ ViewsOK(v, c) /\ Known(v) = {Genesis} /\ v[c] \in SUBSET Keys
  BY <1>1, TipFacts DEF ClientOK
<1>3. Replaced(u, v, c, w)
  BY <1>1, <1>2, GenesisReplaced
<1>4. ViewsOK(u, c) /\ Known(u) = {Genesis} /\ c = Genesis /\ u[Genesis] = w /\ views' = u /\ tip = Genesis
  BY <1>1, <1>2, <1>3 DEF Replaced
<1>5. kept' = [views |-> u, canon |-> c, stray |-> stray]
  BY <1>1, <1>4
<1>6. ClientOK'
  <2>1. Change(w, u[Genesis]) = EmptyMemory(Keys)
    BY <1>4, NothingChanges
  <2>2. Genesis \in Known(u) /\ Extends(Genesis, c)
    BY <1>4, GenesisIsBlock, OwnAncestor, ExtendsAncestor
  <2>3. kept'.views = u /\ kept'.canon = c /\ kept'.stray = stray
    BY <1>5
  <2> QED
    BY <1>1, <1>2, <1>4, <1>5, <2>1, <2>2, <2>3 DEF ClientOK
<1> QED
  BY <1>1, <1>2, <1>3, <1>4, <1>5, <1>6

-------------------------------------------------------------------------------
(* ArchiveDB *)

(* The backing has every node of every block. *)
Holds(b, v) ==
  /\ b = [nodes |-> b.nodes, journal |-> b.journal, latest |-> b.latest, already_in |-> b.already_in]
  /\ \A x \in Known(v) : v[x] \subseteq b.nodes

ArchiveInv ==
  /\ pc \in {"idle", "batch"}
  /\ ClientOK
  /\ ViewsOK(views, canon) /\ Holds(batch, views)
  /\ ViewsOK(kept.views, kept.canon) /\ Holds(db, kept.views)
  /\ pc = "idle" => InStep

LEMMA SameInArchive ==
  /\ Archive!Blocks = Blocks
  /\ \A b, c : Archive!Extends(b, c) = Extends(b, c)
  /\ Archive!Journalled = Known(views)
  /\ \A k : Archive!EmptyMemory(k) = EmptyMemory(k)
  /\ Archive!Genesis = Genesis
<1>1. Archive!Blocks = Blocks
  BY DEF Archive!Blocks, Blocks
<1>2. Archive!Journalled = Known(views)
  BY <1>1, Zenon DEF Archive!Journalled, Known
<1>3. \A b, c : Archive!Extends(b, c) = Extends(b, c)
  BY Zenon DEF Archive!Extends, Extends
<1> QED
  BY <1>1, <1>2, <1>3 DEF Archive!EmptyMemory, EmptyMemory, Archive!Genesis, Genesis

LEMMA ArchiveInserts ==
  ASSUME ArchiveInv, NEW k \in Keys, Archive!Insert(k)
  PROVE  ArchiveInv'
<1>1. /\ k \notin work /\ work' = work \cup {k}
      /\ memory' = [memory EXCEPT ![k] = memory[k] + 1]
      /\ UNCHANGED <<views, canon, tip, stray, kept, pc, batch, db>>
  BY DEF Archive!Insert, Archive!AddNode, Archive!Emplace
<1>2. ClientOK'
  BY <1>1, ClientInserts DEF ArchiveInv
<1> QED
  BY <1>1, <1>2 DEF ArchiveInv, InStep

LEMMA ArchiveRemoves ==
  ASSUME ArchiveInv, NEW k \in Keys, Archive!Remove(k)
  PROVE  ArchiveInv'
<1>1. /\ k \in work /\ work' = work \ {k}
      /\ memory' = [memory EXCEPT ![k] = memory[k] - 1]
      /\ UNCHANGED <<views, canon, tip, stray, kept, pc, batch, db>>
  BY DEF Archive!Remove, Archive!DropNode, Archive!RemoveRef
<1>2. ClientOK'
  BY <1>1, ClientRemoves DEF ArchiveInv
<1> QED
  BY <1>1, <1>2 DEF ArchiveInv, InStep

LEMMA ArchiveSwitches ==
  ASSUME ArchiveInv, NEW b \in Blocks, Archive!SwitchTo(b)
  PROVE  ArchiveInv'
<1>1. /\ Archive!Clean /\ Archive!Switched(b) /\ UNCHANGED <<memory, latest_era>>
  BY DEF Archive!SwitchTo, Archive!ownVars
<1>2. Archive!Checkout(b) /\ UNCHANGED <<pc, batch, db>>
  BY <1>1 DEF Archive!Switched
<1>3. b \in Archive!Live /\ tip' = b /\ work' = views[b] /\ UNCHANGED <<views, canon, stray, kept>>
  BY <1>2 DEF Archive!Checkout
<1>4. b \in Known(views) /\ Extends(b, canon) /\ memory = EmptyMemory(Keys)
  BY <1>1, <1>3, SameInArchive DEF Archive!Live, Archive!Clean
<1>5. ClientOK'
  BY <1>1, <1>3, <1>4, ClientSwitches DEF ArchiveInv
<1> QED
  BY <1>1, <1>2, <1>3, <1>5 DEF ArchiveInv, InStep

LEMMA ArchiveJournals ==
  ASSUME ArchiveInv, NEW id \in Ids, Archive!JournalUnder(id)
  PROVE  ArchiveInv'
<1>1. PICK b : b = Append(tip, id)
  OBVIOUS
<1>2. /\ pc = "idle" /\ Archive!AddBlock(b) /\ pc' = "batch" /\ UNCHANGED db
      /\ memory' = Archive!EmptyMemory(Keys)
  BY <1>1, Zenon DEF Archive!JournalUnder
<1>3. PICK l : batch' = [batch EXCEPT !.nodes = batch.nodes \cup {k \in DOMAIN memory : memory[k] > 0}, !.latest = l]
  BY Zenon DEF Archive!JournalUnder, Archive!Archived, Archive!Inserted
<1>4. /\ b \in Blocks /\ views[b] = NoView /\ views' = [views EXCEPT ![b] = work] /\ tip' = b
      /\ UNCHANGED <<canon, work, stray, kept>>
  BY <1>2, SameInArchive DEF Archive!AddBlock
<1>5. memory' = EmptyMemory(Keys) /\ ClientOK /\ ViewsOK(views, canon) /\ Holds(batch, views)
  BY <1>2, SameInArchive DEF ArchiveInv
<1>6. ClientOK' /\ ExtendedBy(views', views, canon, tip, work, b)
  BY <1>1, <1>4, <1>5, ClientJournals
<1>7. PICK v, u, t, w, c : v = views /\ u = views' /\ t = tip /\ w = work /\ c = canon
  OBVIOUS
<1>8. ViewsOK(u, c) /\ Known(u) = Known(v) \cup {b} /\ u[b] = w /\ \A a \in Known(v) : u[a] = v[a]
  BY <1>6, <1>7 DEF ExtendedBy
<1>9. t \in Known(v) /\ {k \in DOMAIN memory : memory[k] > 0} = w \ v[t]
  <2>1. PICK x \in SUBSET Keys, y \in SUBSET Keys : x = w /\ y = v[t] /\ memory = Change(x, y) /\ t \in Known(v)
    BY <1>5, <1>7, TipFacts DEF ClientOK
  <2>2. {k \in DOMAIN Change(x, y) : Change(x, y)[k] > 0} = x \ y
    BY ChangeFacts
  <2> QED
    BY <2>1, <2>2
<1>10. PICK nodes, j, old, flags : batch = [nodes |-> nodes, journal |-> j, latest |-> old, already_in |-> flags]
  BY <1>5 DEF Holds
<1>11. /\ batch' = [nodes |-> nodes \cup (w \ v[t]), journal |-> j, latest |-> l, already_in |-> flags]
       /\ batch.nodes = nodes
  BY <1>3, <1>9, <1>10
<1>12. Holds(batch, views)'
  <2>1. \A x \in Known(v) : v[x] \subseteq nodes
    BY <1>5, <1>7, <1>11 DEF Holds
  <2>2. \A x \in Known(u) : u[x] \subseteq nodes \cup (w \ v[t])
    BY <1>8, <1>9, <2>1
  <2> QED
    BY <1>7, <1>11, <2>2 DEF Holds
<1>13. ViewsOK(views, canon)' /\ ViewsOK(kept.views, kept.canon)' /\ Holds(db, kept.views)'
  BY <1>2, <1>4, <1>7, <1>8 DEF ArchiveInv
<1> QED
  BY <1>2, <1>6, <1>12, <1>13 DEF ArchiveInv

LEMMA ArchiveMarks ==
  ASSUME ArchiveInv, NEW d \in Blocks, Archive!MarkCanonical(d)
  PROVE  ArchiveInv'
<1>1. /\ Archive!CanonicalNext(d, Archive!Clean) /\ Archive!AddCanonical(d, {}) /\ pc' = "batch"
      /\ UNCHANGED <<batch, db, memory>>
  BY DEF Archive!MarkCanonical
<1>2. /\ d \in Archive!Live /\ Len(d) = Len(canon) + 1 /\ (Archive!Clean \/ Archive!Extends(tip, d))
  BY <1>1, Zenon DEF Archive!CanonicalNext
<1>3. /\ d \in Known(views) /\ Extends(d, canon) /\ (memory = EmptyMemory(Keys) \/ Extends(tip, d))
  BY <1>2, SameInArchive DEF Archive!Live, Archive!Clean
<1>4. /\ canon' = d /\ tip' = IF Extends(tip, d) THEN tip ELSE d
      /\ work' = IF Extends(tip, d) THEN work ELSE views[d]
      /\ UNCHANGED <<views, kept>>
  BY <1>1, SameInArchive, Zenon DEF Archive!AddCanonical
<1>5. ClientOK'
  BY <1>1, <1>3, <1>4, ClientMarks DEF ArchiveInv
<1>6. ViewsOK(views, canon)'
  BY <1>3, <1>4 DEF ArchiveInv, ViewsOK
<1> QED
  BY <1>1, <1>4, <1>5, <1>6 DEF ArchiveInv

LEMMA ArchiveWrites ==
  ASSUME ArchiveInv, Archive!WriteBatch
  PROVE  ArchiveInv'
<1>1. /\ kept' = [views |-> views, canon |-> canon, stray |-> stray]
      /\ db' = batch /\ pc' = "idle"
      /\ UNCHANGED <<views, canon, tip, work, stray, batch, memory>>
  BY DEF Archive!WriteBatch, Archive!Written, Archive!Persisted, Archive!ownVars
<1>2. kept'.views = views /\ kept'.canon = canon /\ kept'.stray = stray
  BY <1>1
<1>3. ClientOK' /\ InStep'
  BY <1>1, <1>2 DEF ArchiveInv, ClientOK, InStep
<1> QED
  BY <1>1, <1>2, <1>3 DEF ArchiveInv

LEMMA ArchiveInjects ==
  ASSUME ArchiveInv, Archive!Inject
  PROVE  ArchiveInv'
<1>1. PICK new : new = [db EXCEPT !.nodes = (db.nodes \cup {k \in DOMAIN memory : memory[k] > 0})
                                              \ {k \in DOMAIN memory : memory[k] < 0}]
  OBVIOUS
<1>2. Archive!Injected(new) /\ memory' = Archive!EmptyMemory(Keys)
  BY <1>1 DEF Archive!Inject, Archive!Inserted, Archive!Removed
<1>3. /\ pc = "idle" /\ Known(views) = {Genesis}
      /\ views' = [views EXCEPT ![Genesis] = work]
      /\ kept' = [kept EXCEPT !.views = views'] /\ db' = new /\ batch' = new
      /\ UNCHANGED <<canon, tip, work, stray, pc>> /\ memory' = EmptyMemory(Keys)
  BY <1>2, SameInArchive DEF Archive!Injected
<1>4. /\ ViewsOK(views, canon) /\ ClientOK /\ InStep /\ Holds(batch, views)
      /\ kept = [views |-> views, canon |-> canon, stray |-> stray]
  BY <1>3 DEF ArchiveInv, InStep
<1>5. /\ ClientOK' /\ Replaced(views', views, canon, work)
      /\ kept' = [views |-> views', canon |-> canon', stray |-> stray']
      /\ tip = canon /\ work \in SUBSET Keys /\ views[canon] \in SUBSET Keys
  BY <1>3, <1>4, ClientInjects
<1>6. PICK u, v, c, w : u = views' /\ v = views /\ c = canon /\ w = work
  OBVIOUS
<1>7. ViewsOK(u, c) /\ Known(u) = {Genesis} /\ u[Genesis] = w /\ c = Genesis
  BY <1>5, <1>6 DEF Replaced
<1>8. /\ {k \in DOMAIN memory : memory[k] > 0} = w \ v[c]
      /\ {k \in DOMAIN memory : memory[k] < 0} = v[c] \ w
  <2>1. PICK x \in SUBSET Keys, y \in SUBSET Keys : x = w /\ y = v[c] /\ memory = Change(x, y)
    BY <1>4, <1>5, <1>6 DEF ClientOK
  <2>2. /\ {k \in DOMAIN Change(x, y) : Change(x, y)[k] > 0} = x \ y
        /\ {k \in DOMAIN Change(x, y) : Change(x, y)[k] < 0} = y \ x
    BY ChangeFacts
  <2> QED
    BY <2>1, <2>2
<1>9. PICK nodes, j, old, flags : db = [nodes |-> nodes, journal |-> j, latest |-> old, already_in |-> flags]
  BY <1>4 DEF Holds, InStep
<1>10. /\ new = [nodes |-> (nodes \cup (w \ v[c])) \ (v[c] \ w), journal |-> j, latest |-> old, already_in |-> flags]
       /\ db.nodes = nodes
  BY <1>1, <1>8, <1>9
<1>11. Holds(new, u)
  <2>1. v[c] \subseteq nodes
    BY <1>4, <1>6, <1>10 DEF Holds, InStep, ViewsOK
  <2> QED
    BY <1>7, <1>10, <2>1 DEF Holds
<1>12. kept'.views = u /\ kept'.canon = c /\ InStep'
  <2>1. canon' = c /\ batch' = db'
    BY <1>3, <1>6
  <2>2. kept' = [views |-> u, canon |-> c, stray |-> stray']
    BY <1>5, <1>6, <2>1
  <2>3. kept'.views = u /\ kept'.canon = c
    BY <2>2
  <2>4. InStep'
    BY <1>5, <2>1 DEF InStep
  <2> QED
    BY <2>3, <2>4
<1>13. ViewsOK(views, canon)' /\ ViewsOK(kept.views, kept.canon)'
  BY <1>3, <1>6, <1>7, <1>12
<1>14. Holds(batch, views)' /\ Holds(db, kept.views)'
  BY <1>3, <1>6, <1>11, <1>12
<1> QED
  BY <1>3, <1>5, <1>12, <1>13, <1>14 DEF ArchiveInv

LEMMA ArchiveReopens ==
  ASSUME ArchiveInv, Archive!Reopen
  PROVE  ArchiveInv'
<1>1. /\ views' = kept.views /\ canon' = kept.canon /\ stray' = kept.stray
      /\ tip' = kept.canon /\ work' = kept.views[kept.canon]
      /\ pc' = "idle" /\ batch' = db /\ memory' = EmptyMemory(Keys)
      /\ UNCHANGED <<kept, db>>
  BY SameInArchive DEF Archive!Reopen, Archive!Opened, Archive!ClientReopen
<1>2. ClientOK' /\ InStep'
  BY <1>1, ClientReopens DEF ArchiveInv
<1> QED
  BY <1>1, <1>2 DEF ArchiveInv

LEMMA ArchiveStarts ==
  ASSUME Archive!Init
  PROVE  ArchiveInv
<1>1. /\ views = NewViews /\ canon = Genesis /\ tip = Genesis /\ work = {} /\ stray = {}
      /\ kept = [views |-> views, canon |-> canon, stray |-> stray]
      /\ pc = "idle" /\ memory = EmptyMemory(Keys) /\ db = EmptyBacking({}) /\ batch = db
  BY SameInArchive DEF Archive!Init, Archive!ClientInit, NewViews, Archive!EmptyBacking, EmptyBacking,
     Archive!Eras, Eras, Archive!Indexes, Indexes
<1>2. ViewsOK(views, canon)
  BY <1>1, NewDatabase DEF BackingOK
<1>3. Holds(batch, views)
  BY <1>1, NewDatabase DEF Holds, EmptyBacking
<1>4. ClientOK
  <2>1. Genesis \in Known(views) /\ views[Genesis] = {}
    BY <1>1, NewDatabase
  <2>2. Extends(Genesis, Genesis)
    BY GenesisIsBlock, OwnAncestor, ExtendsAncestor
  <2>3. Change({}, {}) = EmptyMemory(Keys)
    BY NothingChanges
  <2> QED
    BY <1>1, <2>1, <2>2, <2>3 DEF ClientOK
<1>5. InStep
  BY <1>1 DEF InStep
<1> QED
  BY <1>1, <1>2, <1>3, <1>4, <1>5 DEF ArchiveInv

LEMMA ArchiveStutters ==
  ASSUME ArchiveInv, UNCHANGED vars
  PROVE  ArchiveInv'
BY DEF ArchiveInv, vars, clientVars, ClientOK, InStep

(* Every operation of ArchiveDB keeps its invariant. *)
THEOREM ArchiveInductive == Spec => [](algorithm = "Archive" => ArchiveInv)
<1>1. Init => (algorithm = "Archive" => ArchiveInv)
  BY ArchiveStarts DEF Init
<1>2. ASSUME algorithm = "Archive" => ArchiveInv, [Next]_vars, algorithm' = "Archive"
      PROVE  ArchiveInv'
  <2>1. CASE UNCHANGED vars
    <3>1. ArchiveInv
      BY <1>2, <2>1 DEF vars
    <3> QED
      BY <2>1, <3>1, ArchiveStutters
  <2>2. CASE Next
    <3>1. NextArchive
      BY <1>2, <2>2 DEF Next, NextOverlayRecent, NextEarlyMerge, NextRefCounted, NextArchive,
         NotOverlayRecent, NotEarlyMerge, NotRefCounted, NotArchive
    <3>2. ArchiveInv
      BY <1>2, <3>1 DEF NextArchive
    <3> QED
      BY <3>1, <3>2, ArchiveInserts, ArchiveRemoves, ArchiveSwitches, ArchiveJournals, ArchiveMarks,
         ArchiveWrites, ArchiveInjects, ArchiveReopens DEF NextArchive
  <2> QED
    BY <1>2, <2>1, <2>2
<1>3. (algorithm = "Archive" => ArchiveInv) /\ [Next]_vars => (algorithm = "Archive" => ArchiveInv)'
  BY <1>2
<1> QED
  BY <1>1, <1>3, PTL DEF Spec

LEMMA ArchiveReadable ==
  ASSUME ArchiveInv
  PROVE  Archive!EveryStateReadable
<1>1. CASE pc = "batch"
  BY <1>1 DEF Archive!EveryStateReadable
<1>2. CASE pc = "idle"
  BY <1>2, SameInArchive DEF ArchiveInv, InStep, Holds, Archive!EveryStateReadable
<1> QED
  BY <1>1, <1>2 DEF ArchiveInv

-------------------------------------------------------------------------------
(* EarlyMergeDB *)

(* What refs has for a node that n blocks of the journal insert and that the
   canonical state has (a) or not; and what the batch has of it. *)
Info(n, a) == IF n = 0 THEN EarlyMerge!Untracked ELSE EarlyMerge!Tracked(n, a)
CellOf(n, a, stored, flag) ==
  [info |-> [queue_refs |-> n, in_archive |-> a], stored |-> stored, flag |-> flag]
CellFor(n, a) == IF n = 0 THEN CellOf(0, FALSE, a, FALSE) ELSE CellOf(n, a, TRUE, a)

Refs(v, c) == [k \in Keys |-> Info(Cardinality(Adding(v, c, k)), k \in v[c])]

(* The nodes of a backing, and their flags. *)
Merged(b, v, c) ==
  /\ b.nodes = {k \in Keys : k \in v[c] \/ Adding(v, c, k) # {}}
  /\ b.already_in = {k \in Keys : k \in v[c] /\ Adding(v, c, k) # {}}

EarlyMergeInv ==
  /\ pc \in {"idle", "batch", "marked"}
  /\ ClientOK
  /\ BackingOK(batch, views, canon) /\ Merged(batch, views, canon)
  /\ BackingOK(db, kept.views, kept.canon) /\ Merged(db, kept.views, kept.canon)
  /\ refs = Refs(views, canon) /\ latest_era = batch.latest
  /\ pc = "idle" => InStep

(* One node and one record *)

(* What remove_keys, the canonical block and insert_keys make of one node. *)
LEMMA QueueRemovesArchived ==
  ASSUME NEW n \in Nat, n > 1
  PROVE  EarlyMerge!RemoveKey(CellOf(n, TRUE, TRUE, TRUE), "Queue") = CellOf(n - 1, TRUE, TRUE, TRUE)
<1> USE DEF EarlyMerge!Untracked, EarlyMerge!Tracked
<1>1. PICK c : c = [info |-> [queue_refs |-> n, in_archive |-> TRUE], stored |-> TRUE, flag |-> TRUE]
  OBVIOUS
<1>2. /\ c.info # EarlyMerge!Untracked
      /\ c.info # EarlyMerge!Tracked(1, TRUE)
      /\ c.info # EarlyMerge!Tracked(1, FALSE)
      /\ c.info.queue_refs = n
      /\ c.info.in_archive
  BY <1>1
<1>3. EarlyMerge!RemoveKey(c, "Queue") = [c EXCEPT !.info.queue_refs = n - 1]
  BY <1>2 DEF EarlyMerge!RemoveKey
<1>4. PICK d : d = [c EXCEPT !.info.queue_refs = n - 1]
  OBVIOUS
<1>5. d = [info |-> [queue_refs |-> n - 1, in_archive |-> TRUE], stored |-> TRUE, flag |-> TRUE]
  BY <1>1, <1>4
<1> QED
  BY <1>1, <1>3, <1>4, <1>5, Zenon DEF CellOf

LEMMA QueueRemovesQueued ==
  ASSUME NEW n \in Nat, n > 1
  PROVE  EarlyMerge!RemoveKey(CellOf(n, FALSE, TRUE, FALSE), "Queue") = CellOf(n - 1, FALSE, TRUE, FALSE)
<1> USE DEF EarlyMerge!Untracked, EarlyMerge!Tracked
<1>1. PICK c : c = [info |-> [queue_refs |-> n, in_archive |-> FALSE], stored |-> TRUE, flag |-> FALSE]
  OBVIOUS
<1>2. /\ c.info # EarlyMerge!Untracked
      /\ c.info # EarlyMerge!Tracked(1, TRUE)
      /\ c.info # EarlyMerge!Tracked(1, FALSE)
      /\ c.info.queue_refs = n
      /\ ~c.info.in_archive
  BY <1>1
<1>3. EarlyMerge!RemoveKey(c, "Queue") = [c EXCEPT !.info.queue_refs = n - 1]
  BY <1>2 DEF EarlyMerge!RemoveKey
<1>4. PICK d : d = [c EXCEPT !.info.queue_refs = n - 1]
  OBVIOUS
<1>5. d = [info |-> [queue_refs |-> n - 1, in_archive |-> FALSE], stored |-> TRUE, flag |-> FALSE]
  BY <1>1, <1>4
<1> QED
  BY <1>1, <1>3, <1>4, <1>5, Zenon DEF CellOf

LEMMA QueueLeaves ==
  EarlyMerge!RemoveKey(CellOf(1, TRUE, TRUE, TRUE), "Queue") = CellOf(0, FALSE, TRUE, FALSE)
<1> USE DEF EarlyMerge!Untracked, EarlyMerge!Tracked
<1>1. PICK c : c = [info |-> [queue_refs |-> 1, in_archive |-> TRUE], stored |-> TRUE, flag |-> TRUE]
  OBVIOUS
<1>2. /\ c.info # EarlyMerge!Untracked
      /\ c.info = EarlyMerge!Tracked(1, TRUE)
      /\ c.info # EarlyMerge!Tracked(1, FALSE)
      /\ c.info.queue_refs = 1
      /\ c.info.in_archive
  BY <1>1
<1>3. EarlyMerge!RemoveKey(c, "Queue") = [c EXCEPT !.info = EarlyMerge!Untracked, !.flag = FALSE]
  BY <1>2 DEF EarlyMerge!RemoveKey
<1>4. PICK d : d = [c EXCEPT !.info = EarlyMerge!Untracked, !.flag = FALSE]
  OBVIOUS
<1>5. d = [info |-> [queue_refs |-> 0, in_archive |-> FALSE], stored |-> TRUE, flag |-> FALSE]
  BY <1>1, <1>4
<1> QED
  BY <1>1, <1>3, <1>4, <1>5, Zenon DEF CellOf

LEMMA QueueDrops ==
  EarlyMerge!RemoveKey(CellOf(1, FALSE, TRUE, FALSE), "Queue") = CellOf(0, FALSE, FALSE, FALSE)
<1> USE DEF EarlyMerge!Untracked, EarlyMerge!Tracked
<1>1. PICK c : c = [info |-> [queue_refs |-> 1, in_archive |-> FALSE], stored |-> TRUE, flag |-> FALSE]
  OBVIOUS
<1>2. /\ c.info # EarlyMerge!Untracked
      /\ c.info # EarlyMerge!Tracked(1, TRUE)
      /\ c.info = EarlyMerge!Tracked(1, FALSE)
      /\ c.info.queue_refs = 1
      /\ ~c.info.in_archive
  BY <1>1
<1>3. EarlyMerge!RemoveKey(c, "Queue") = [c EXCEPT !.info = EarlyMerge!Untracked, !.stored = FALSE]
  BY <1>2 DEF EarlyMerge!RemoveKey
<1>4. PICK d : d = [c EXCEPT !.info = EarlyMerge!Untracked, !.stored = FALSE]
  OBVIOUS
<1>5. d = [info |-> [queue_refs |-> 0, in_archive |-> FALSE], stored |-> FALSE, flag |-> FALSE]
  BY <1>1, <1>4
<1> QED
  BY <1>1, <1>3, <1>4, <1>5, Zenon DEF CellOf

LEMMA ArchiveForgets ==
  ASSUME NEW n \in Nat, n # 0
  PROVE  EarlyMerge!RemoveKey(CellOf(n, TRUE, TRUE, TRUE), "Archive") = CellOf(n, FALSE, TRUE, FALSE)
<1> USE DEF EarlyMerge!Untracked, EarlyMerge!Tracked
<1>1. PICK c : c = [info |-> [queue_refs |-> n, in_archive |-> TRUE], stored |-> TRUE, flag |-> TRUE]
  OBVIOUS
<1>2. /\ c.info # EarlyMerge!Untracked /\ c.info # EarlyMerge!Tracked(1, FALSE)
      /\ c.info.queue_refs = n /\ c.info.in_archive
  BY <1>1
<1>3. EarlyMerge!RemoveKey(c, "Archive") = [c EXCEPT !.info.in_archive = FALSE, !.flag = FALSE]
  BY <1>2 DEF EarlyMerge!RemoveKey
<1>4. PICK d : d = [c EXCEPT !.info.in_archive = FALSE, !.flag = FALSE]
  OBVIOUS
<1>5. d = [info |-> [queue_refs |-> n, in_archive |-> FALSE], stored |-> TRUE, flag |-> FALSE]
  BY <1>1, <1>4
<1> QED
  BY <1>1, <1>3, <1>4, <1>5, Zenon DEF CellOf

LEMMA ArchiveDrops ==
  EarlyMerge!RemoveKey(CellOf(0, FALSE, TRUE, FALSE), "Archive") = CellOf(0, FALSE, FALSE, FALSE)
<1> USE DEF EarlyMerge!Untracked, EarlyMerge!Tracked
<1>1. PICK c : c = [info |-> [queue_refs |-> 0, in_archive |-> FALSE], stored |-> TRUE, flag |-> FALSE]
  OBVIOUS
<1>2. /\ c.info = EarlyMerge!Untracked
      /\ c.info # EarlyMerge!Tracked(1, TRUE)
      /\ c.info # EarlyMerge!Tracked(1, FALSE)
      /\ c.info.queue_refs = 0
      /\ ~c.info.in_archive
  BY <1>1
<1>3. EarlyMerge!RemoveKey(c, "Archive") = [c EXCEPT !.stored = FALSE]
  BY <1>2 DEF EarlyMerge!RemoveKey
<1>4. PICK d : d = [c EXCEPT !.stored = FALSE]
  OBVIOUS
<1>5. d = [info |-> [queue_refs |-> 0, in_archive |-> FALSE], stored |-> FALSE, flag |-> FALSE]
  BY <1>1, <1>4
<1> QED
  BY <1>1, <1>3, <1>4, <1>5, Zenon DEF CellOf

LEMMA CanonicalShares ==
  ASSUME NEW n \in Nat, n > 1
  PROVE  EarlyMerge!Finalise(CellOf(n, FALSE, TRUE, FALSE)) = CellOf(n - 1, TRUE, TRUE, TRUE)
<1> USE DEF EarlyMerge!Untracked, EarlyMerge!Tracked
<1>1. PICK c : c = [info |-> [queue_refs |-> n, in_archive |-> FALSE], stored |-> TRUE, flag |-> FALSE]
  OBVIOUS
<1>2. /\ c.info # EarlyMerge!Untracked
      /\ c.info # EarlyMerge!Tracked(1, TRUE)
      /\ c.info # EarlyMerge!Tracked(1, FALSE)
      /\ c.info.queue_refs = n
      /\ ~c.info.in_archive
  BY <1>1
<1>3. EarlyMerge!Finalise(c) = [c EXCEPT !.info = EarlyMerge!Tracked(n - 1, TRUE), !.flag = TRUE]
  BY <1>2 DEF EarlyMerge!Finalise
<1>4. PICK d : d = [c EXCEPT !.info = EarlyMerge!Tracked(n - 1, TRUE), !.flag = TRUE]
  OBVIOUS
<1>5. d = [info |-> [queue_refs |-> n - 1, in_archive |-> TRUE], stored |-> TRUE, flag |-> TRUE]
  BY <1>1, <1>4
<1> QED
  BY <1>1, <1>3, <1>4, <1>5, Zenon DEF CellOf

LEMMA CanonicalTakes ==
  EarlyMerge!Finalise(CellOf(1, FALSE, TRUE, FALSE)) = CellOf(0, FALSE, TRUE, FALSE)
<1> USE DEF EarlyMerge!Untracked, EarlyMerge!Tracked
<1>1. PICK c : c = [info |-> [queue_refs |-> 1, in_archive |-> FALSE], stored |-> TRUE, flag |-> FALSE]
  OBVIOUS
<1>2. /\ c.info # EarlyMerge!Untracked
      /\ c.info # EarlyMerge!Tracked(1, TRUE)
      /\ c.info = EarlyMerge!Tracked(1, FALSE)
      /\ c.info.queue_refs = 1
      /\ ~c.info.in_archive
  BY <1>1
<1>3. EarlyMerge!Finalise(c) = [c EXCEPT !.info = EarlyMerge!Untracked]
  BY <1>2 DEF EarlyMerge!Finalise
<1>4. PICK d : d = [c EXCEPT !.info = EarlyMerge!Untracked]
  OBVIOUS
<1>5. d = [info |-> [queue_refs |-> 0, in_archive |-> FALSE], stored |-> TRUE, flag |-> FALSE]
  BY <1>1, <1>4
<1> QED
  BY <1>1, <1>3, <1>4, <1>5, Zenon DEF CellOf

LEMMA InsertCountsArchived ==
  ASSUME NEW n \in Nat, n # 0, NEW in
  PROVE  EarlyMerge!InsertKey(CellOf(n, TRUE, TRUE, TRUE), in) = CellOf(n + 1, TRUE, TRUE, TRUE)
<1> USE DEF EarlyMerge!Untracked, EarlyMerge!Tracked
<1>1. PICK c : c = [info |-> [queue_refs |-> n, in_archive |-> TRUE], stored |-> TRUE, flag |-> TRUE]
  OBVIOUS
<1>2. c.info # EarlyMerge!Untracked /\ c.info.queue_refs = n
  BY <1>1
<1>3. EarlyMerge!InsertKey(c, in) = [c EXCEPT !.info.queue_refs = n + 1]
  BY <1>2 DEF EarlyMerge!InsertKey
<1>4. PICK d : d = [c EXCEPT !.info.queue_refs = n + 1]
  OBVIOUS
<1>5. d = [info |-> [queue_refs |-> n + 1, in_archive |-> TRUE], stored |-> TRUE, flag |-> TRUE]
  BY <1>1, <1>4
<1> QED
  BY <1>1, <1>3, <1>4, <1>5, Zenon DEF CellOf

LEMMA InsertCountsQueued ==
  ASSUME NEW n \in Nat, n # 0, NEW in
  PROVE  EarlyMerge!InsertKey(CellOf(n, FALSE, TRUE, FALSE), in) = CellOf(n + 1, FALSE, TRUE, FALSE)
<1> USE DEF EarlyMerge!Untracked, EarlyMerge!Tracked
<1>1. PICK c : c = [info |-> [queue_refs |-> n, in_archive |-> FALSE], stored |-> TRUE, flag |-> FALSE]
  OBVIOUS
<1>2. c.info # EarlyMerge!Untracked /\ c.info.queue_refs = n
  BY <1>1
<1>3. EarlyMerge!InsertKey(c, in) = [c EXCEPT !.info.queue_refs = n + 1]
  BY <1>2 DEF EarlyMerge!InsertKey
<1>4. PICK d : d = [c EXCEPT !.info.queue_refs = n + 1]
  OBVIOUS
<1>5. d = [info |-> [queue_refs |-> n + 1, in_archive |-> FALSE], stored |-> TRUE, flag |-> FALSE]
  BY <1>1, <1>4
<1> QED
  BY <1>1, <1>3, <1>4, <1>5, Zenon DEF CellOf

LEMMA InsertTracksArchived ==
  EarlyMerge!InsertKey(CellOf(0, FALSE, TRUE, FALSE), TRUE) = CellOf(1, TRUE, TRUE, TRUE)
<1> USE DEF EarlyMerge!Untracked, EarlyMerge!Tracked
<1>1. PICK c : c = [info |-> [queue_refs |-> 0, in_archive |-> FALSE], stored |-> TRUE, flag |-> FALSE]
  OBVIOUS
<1>2. c.info = EarlyMerge!Untracked /\ c.flag = FALSE
  BY <1>1
<1>3. EarlyMerge!InsertKey(c, TRUE) = [info |-> EarlyMerge!Tracked(1, TRUE), stored |-> TRUE, flag |-> TRUE]
  BY <1>2 DEF EarlyMerge!InsertKey
<1>4. PICK d : d = [info |-> EarlyMerge!Tracked(1, TRUE), stored |-> TRUE, flag |-> TRUE]
  OBVIOUS
<1>5. d = [info |-> [queue_refs |-> 1, in_archive |-> TRUE], stored |-> TRUE, flag |-> TRUE]
  BY <1>1, <1>4
<1> QED
  BY <1>1, <1>3, <1>4, <1>5, Zenon DEF CellOf

LEMMA InsertTracksNew ==
  EarlyMerge!InsertKey(CellOf(0, FALSE, FALSE, FALSE), FALSE) = CellOf(1, FALSE, TRUE, FALSE)
<1> USE DEF EarlyMerge!Untracked, EarlyMerge!Tracked
<1>1. PICK c : c = [info |-> [queue_refs |-> 0, in_archive |-> FALSE], stored |-> FALSE, flag |-> FALSE]
  OBVIOUS
<1>2. c.info = EarlyMerge!Untracked /\ c.flag = FALSE
  BY <1>1
<1>3. EarlyMerge!InsertKey(c, FALSE) = [info |-> EarlyMerge!Tracked(1, FALSE), stored |-> TRUE, flag |-> FALSE]
  BY <1>2 DEF EarlyMerge!InsertKey
<1>4. PICK d : d = [info |-> EarlyMerge!Tracked(1, FALSE), stored |-> TRUE, flag |-> FALSE]
  OBVIOUS
<1>5. d = [info |-> [queue_refs |-> 1, in_archive |-> FALSE], stored |-> TRUE, flag |-> FALSE]
  BY <1>1, <1>4
<1> QED
  BY <1>1, <1>3, <1>4, <1>5, Zenon DEF CellOf

LEMMA CellCases ==
  ASSUME NEW n, NEW a
  PROVE  /\ n = 0 => CellFor(n, a) = CellOf(0, FALSE, a, FALSE)
         /\ n # 0 => CellFor(n, a) = CellOf(n, a, TRUE, a)
BY Zenon DEF CellFor

LEMMA QueueRemoves ==
  ASSUME NEW n \in Nat, n # 0, NEW a \in BOOLEAN
  PROVE  EarlyMerge!RemoveKey(CellFor(n, a), "Queue") = CellFor(n - 1, a)
<1>1. CASE n > 1
  <2>1. n - 1 # 0
    BY <1>1
  <2>2. CASE a = TRUE
    BY <1>1, <2>1, <2>2, CellCases, QueueRemovesArchived, Zenon
  <2>3. CASE a = FALSE
    BY <1>1, <2>1, <2>3, CellCases, QueueRemovesQueued, Zenon
  <2> QED
    BY <2>2, <2>3
<1>2. CASE n = 1
  <2>1. n - 1 = 0
    BY <1>2
  <2>2. CASE a = TRUE
    BY <1>2, <2>1, <2>2, CellCases, QueueLeaves, Zenon
  <2>3. CASE a = FALSE
    BY <1>2, <2>1, <2>3, CellCases, QueueDrops, Zenon
  <2> QED
    BY <2>2, <2>3
<1>3. n > 1 \/ n = 1
  OBVIOUS
<1> QED
  BY <1>1, <1>2, <1>3

LEMMA ArchiveRemovesKey ==
  ASSUME NEW n \in Nat
  PROVE  EarlyMerge!RemoveKey(CellFor(n, TRUE), "Archive") = CellFor(n, FALSE)
<1>1. CASE n # 0
  BY <1>1, CellCases, ArchiveForgets, Zenon
<1>2. CASE n = 0
  BY <1>2, CellCases, ArchiveDrops, Zenon
<1> QED
  BY <1>1, <1>2

LEMMA CanonicalInserts ==
  ASSUME NEW n \in Nat, n # 0
  PROVE  EarlyMerge!Finalise(CellFor(n, FALSE)) = CellFor(n - 1, TRUE)
<1>1. CASE n > 1
  <2>1. n - 1 # 0
    BY <1>1
  <2> QED
    BY <1>1, <2>1, CellCases, CanonicalShares, Zenon
<1>2. CASE n = 1
  <2>1. n - 1 = 0
    BY <1>2
  <2> QED
    BY <1>2, <2>1, CellCases, CanonicalTakes, Zenon
<1>3. n > 1 \/ n = 1
  OBVIOUS
<1> QED
  BY <1>1, <1>2, <1>3

LEMMA InsertionCounts ==
  ASSUME NEW n \in Nat, NEW a \in BOOLEAN, NEW in \in BOOLEAN, n = 0 => in = a
  PROVE  EarlyMerge!InsertKey(CellFor(n, a), in) = CellFor(n + 1, a)
<1>1. n + 1 # 0 /\ (n = 0 => n + 1 = 1)
  OBVIOUS
<1>2. CASE n # 0 /\ a = TRUE
  BY <1>1, <1>2, CellCases, InsertCountsArchived, Zenon
<1>3. CASE n # 0 /\ a = FALSE
  BY <1>1, <1>3, CellCases, InsertCountsQueued, Zenon
<1>4. CASE n = 0 /\ a = TRUE
  BY <1>1, <1>4, CellCases, InsertTracksArchived, Zenon
<1>5. CASE n = 0 /\ a = FALSE
  BY <1>1, <1>5, CellCases, InsertTracksNew, Zenon
<1> QED
  BY <1>2, <1>3, <1>4, <1>5, Zenon

(* A record of the era of the canonical block id: m of the n insertions stay, and the
   canonical state has the node or not before (a) and after it (b). *)
Fits(n, a, k, r, id, m, b) ==
  /\ k \in r.insertions => n # 0 /\ m = n - 1
  /\ k \notin r.insertions => m = n
  /\ k \in r.insertions => k \notin r.deletions
  /\ r.id # id => b = a
  /\ r.id = id /\ k \in r.insertions => a = FALSE /\ b = TRUE
  /\ r.id = id /\ k \in r.deletions => a = TRUE /\ b = FALSE
  /\ r.id = id /\ k \notin r.insertions /\ k \notin r.deletions => b = a

LEMMA RecordApplied ==
  ASSUME NEW n \in Nat, NEW a \in BOOLEAN, NEW k, NEW r, NEW id, NEW m, NEW b \in BOOLEAN,
         Fits(n, a, k, r, id, m, b)
  PROVE  EarlyMerge!ApplyRecord(CellFor(n, a), k, r, id) = CellFor(m, b)
<1> USE DEF Fits
<1> USE DEF EarlyMerge!ApplyRecord
<1>1. CASE r.id = id /\ k \in r.insertions
  <2>0. k \notin r.deletions
    BY <1>1
  <2>1. EarlyMerge!ApplyRecord(CellFor(n, a), k, r, id) = EarlyMerge!Finalise(CellFor(n, a))
    BY <1>1, <2>0
  <2> QED
    BY <1>1, <2>1, CanonicalInserts, Zenon
<1>2. CASE r.id = id /\ k \in r.deletions
  <2>0. k \notin r.insertions
    BY <1>2
  <2>1. EarlyMerge!ApplyRecord(CellFor(n, a), k, r, id) = EarlyMerge!RemoveKey(CellFor(n, a), "Archive")
    BY <1>2, <2>0
  <2> QED
    BY <1>2, <2>0, <2>1, ArchiveRemovesKey, Zenon
<1>3. CASE r.id = id /\ k \notin r.insertions /\ k \notin r.deletions
  <2>1. EarlyMerge!ApplyRecord(CellFor(n, a), k, r, id) = CellFor(n, a)
    BY <1>3
  <2> QED
    BY <1>3, <2>1, Zenon
<1>4. CASE r.id # id /\ k \in r.insertions
  <2>1. EarlyMerge!ApplyRecord(CellFor(n, a), k, r, id) = EarlyMerge!RemoveKey(CellFor(n, a), "Queue")
    BY <1>4
  <2> QED
    BY <1>4, <2>1, QueueRemoves, Zenon
<1>5. CASE r.id # id /\ k \notin r.insertions
  <2>1. EarlyMerge!ApplyRecord(CellFor(n, a), k, r, id) = CellFor(n, a)
    BY <1>5
  <2> QED
    BY <1>5, <2>1, Zenon
<1> QED
  BY <1>1, <1>2, <1>3, <1>4, <1>5, Zenon

-------------------------------------------------------------------------------
(* The records of an era, one after another *)

(* The fold of the library: F has the result for each set of places, the greatest
   place last. *)
Greatest(t) == CHOOSE x \in t : \A y \in t : x >= y
FoldTerm(F, base, k, s, c, t) ==
  IF t = {} THEN base ELSE EarlyMerge!ApplyRecord(F[t \ {Greatest(t)}], k, s[Greatest(t)], c)
FoldStep(F, base, k, s, c, S) == F = [t \in SUBSET S |-> FoldTerm(F, base, k, s, c, t)]

LEMMA GreatestIs ==
  ASSUME NEW m \in Nat, NEW t \in SUBSET (1..m), t # {}
  PROVE  Greatest(t) \in t /\ t \ {Greatest(t)} \in SUBSET (1..(m - 1))
<1>1. t \subseteq 0..m
  OBVIOUS
<1>2. PICK x \in t : \A y \in t : y <= x
  BY <1>1, GreatestNat
<1>3. \A y \in t : x >= y
  BY <1>1, <1>2
<1>4. Greatest(t) \in t /\ \A y \in t : Greatest(t) >= y
  BY <1>3 DEF Greatest
<1>5. ASSUME NEW y \in t \ {Greatest(t)} PROVE y \in 1..(m - 1)
  <2>1. PICK g \in 1..m : g = Greatest(t)
    BY <1>4
  <2>2. y \in 1..m /\ g >= y /\ g # y
    BY <1>4, <2>1
  <2> QED
    BY <2>1, <2>2
<1> QED
  BY <1>4, <1>5

LEMMA GreatestUpTo ==
  ASSUME NEW i \in Nat, i > 0
  PROVE  1..i # {} /\ Greatest(1..i) = i /\ (1..i) \ {Greatest(1..i)} = 1..(i - 1)
<1>1. i \in 1..i /\ \A y \in 1..i : i >= y
  OBVIOUS
<1>2. Greatest(1..i) \in 1..i /\ \A y \in 1..i : Greatest(1..i) >= y
  BY <1>1 DEF Greatest
<1>3. Greatest(1..i) = i
  <2>1. PICK g \in 1..i : g = Greatest(1..i)
    BY <1>2
  <2>2. g >= i /\ g <= i
    BY <1>1, <1>2, <2>1
  <2> QED
    BY <2>1, <2>2
<1>4. (1..i) \ {i} = 1..(i - 1)
  OBVIOUS
<1> QED
  BY <1>1, <1>3, <1>4

LEMMA FoldExists ==
  ASSUME NEW base, NEW k, NEW s, NEW c, NEW n \in Nat
  PROVE  \E F : FoldStep(F, base, k, s, c, 1..n)
<1>1. PICK T : T = {m \in 0..n : \E F : FoldStep(F, base, k, s, c, 1..m)}
  OBVIOUS
<1>2. 0 \in T
  <2>1. PICK F : F = [t \in SUBSET (1..0) |-> base]
    OBVIOUS
  <2>2. \A t \in SUBSET (1..0) : FoldTerm(F, base, k, s, c, t) = base
    <3>1. \A t \in SUBSET (1..0) : t = {}
      OBVIOUS
    <3> QED
      BY <3>1 DEF FoldTerm
  <2>3. F = [t \in SUBSET (1..0) |-> FoldTerm(F, base, k, s, c, t)]
    BY <2>1, <2>2
  <2> QED
    BY <1>1, <2>3 DEF FoldStep
<1>3. ASSUME NEW m \in 1..n, m - 1 \in T PROVE m \in T
  <2>1. PICK H : FoldStep(H, base, k, s, c, 1..(m - 1))
    BY <1>1, <1>3
  <2>2. \A t \in SUBSET (1..(m - 1)) : H[t] = FoldTerm(H, base, k, s, c, t)
    BY <2>1 DEF FoldStep
  <2>3. PICK F : F = [t \in SUBSET (1..m) |-> FoldTerm(H, base, k, s, c, t)]
    OBVIOUS
  <2>4. \A t \in SUBSET (1..(m - 1)) : F[t] = H[t]
    <3>1. \A t \in SUBSET (1..(m - 1)) : t \in SUBSET (1..m)
      OBVIOUS
    <3> QED
      BY <2>2, <2>3, <3>1
  <2>5. ASSUME NEW t \in SUBSET (1..m)
        PROVE  FoldTerm(H, base, k, s, c, t) = FoldTerm(F, base, k, s, c, t)
    <3>1. CASE t = {}
      BY <3>1 DEF FoldTerm
    <3>2. CASE t # {}
      <4>1. t \ {Greatest(t)} \in SUBSET (1..(m - 1))
        BY <3>2, GreatestIs
      <4>2. F[t \ {Greatest(t)}] = H[t \ {Greatest(t)}]
        BY <2>4, <4>1
      <4> QED
        BY <4>2 DEF FoldTerm
    <3> QED
      BY <3>1, <3>2
  <2>6. F = [t \in SUBSET (1..m) |-> FoldTerm(F, base, k, s, c, t)]
    BY <2>3, <2>5
  <2>7. m \in 0..n
    OBVIOUS
  <2> QED
    BY <1>1, <2>6, <2>7 DEF FoldStep
<1>4. \A m \in 0..n : m \in T
  BY <1>2, <1>3, InductionTo
<1> QED
  BY <1>1, <1>4

(* So the fold applies s[1], then s[2], up to the last record. *)
Folded(base, k, s, c) ==
  EarlyMerge!Seqs!FoldLeft(LAMBDA cell, r : EarlyMerge!ApplyRecord(cell, k, r, c), base, s)

IsFold(G, base, k, s, c, n) ==
  /\ G[0] = base /\ Folded(base, k, s, c) = G[n]
  /\ \A i \in 1..n : G[i] = EarlyMerge!ApplyRecord(G[i - 1], k, s[i], c)

LEMMA FoldIs ==
  ASSUME NEW base, NEW k, NEW s, NEW c, NEW n \in Nat, DOMAIN s = 1..n
  PROVE  \E G : IsFold(G, base, k, s, c, n)
<1>1. PICK F : F = CHOOSE H : FoldStep(H, base, k, s, c, 1..n)
  OBVIOUS
<1>2. FoldStep(F, base, k, s, c, 1..n)
  BY <1>1, FoldExists
<1>3. Folded(base, k, s, c) = F[1..n]
  BY <1>1 DEF Folded, EarlyMerge!Seqs!FoldLeft, EarlyMerge!Seqs!MapThenFoldSet, EarlyMerge!Seqs!Max,
     FoldStep, FoldTerm, Greatest
<1>4. PICK G : G = [i \in 0..n |-> F[1..i]]
  OBVIOUS
<1>5. G[0] = base
  <2>1. 1..0 = {} /\ {} \in SUBSET (1..n) /\ 0 \in 0..n
    OBVIOUS
  <2>2. F[{}] = FoldTerm(F, base, k, s, c, {})
    BY <1>2, <2>1 DEF FoldStep
  <2> QED
    BY <1>4, <2>1, <2>2 DEF FoldTerm
<1>6. ASSUME NEW i \in 1..n
      PROVE  G[i] = EarlyMerge!ApplyRecord(G[i - 1], k, s[i], c)
  <2>1. 1..i \in SUBSET (1..n) /\ i \in 0..n /\ i - 1 \in 0..n /\ i > 0 /\ i \in Nat
    OBVIOUS
  <2>2. 1..i # {} /\ Greatest(1..i) = i /\ (1..i) \ {Greatest(1..i)} = 1..(i - 1)
    BY <2>1, GreatestUpTo
  <2>3. F[1..i] = FoldTerm(F, base, k, s, c, 1..i)
    BY <1>2, <2>1 DEF FoldStep
  <2>4. FoldTerm(F, base, k, s, c, 1..i) = EarlyMerge!ApplyRecord(F[1..(i - 1)], k, s[i], c)
    BY <2>2, Zenon DEF FoldTerm
  <2>5. G[i] = F[1..i] /\ G[i - 1] = F[1..(i - 1)]
    BY <1>4, <2>1
  <2> QED
    BY <2>3, <2>4, <2>5, Zenon
<1>7. G[n] = F[1..n]
  BY <1>4
<1> QED
  BY <1>3, <1>5, <1>6, <1>7 DEF IsFold

(* The records of the era of d: one for each of its blocks, none twice. *)
LEMMA EraInOrder ==
  ASSUME NEW v, NEW c, ViewsOK(v, c), NEW j, JournalOK(j, v, c), NEW e \in Eras,
         NEW s, s = StoredRecords(j[e])
  PROVE  \E n \in Nat :
           /\ DOMAIN s = 1..n
           /\ \A i \in 1..n : /\ s[i].id \in Above(v, c) /\ Era(s[i].id) = e
                              /\ s[i].insertions = Added(v, s[i].id)
                              /\ s[i].deletions = Taken(v, s[i].id)
           /\ \A i, m \in 1..n : s[i].id = s[m].id => i = m
           /\ \A b \in Above(v, c) : Era(b) = e => \E i \in 1..n : s[i].id = b
<1>1. \A i, n \in Indexes : j[e][i] # NoRecord /\ n < i => j[e][n] # NoRecord
  BY DEF JournalOK
<1>2. PICK n \in 0..MaxBlocks :
        /\ \A i \in Indexes : i < n <=> j[e][i] # NoRecord
        /\ StoredRecords(j[e]) = [i \in 1..n |-> j[e][i - 1]] /\ n \in Nat
  BY <1>1, StoredFacts
<1>3. DOMAIN s = 1..n /\ \A i \in 1..n : s[i] = j[e][i - 1]
  BY <1>2
<1>4. \A i \in 1..n : i - 1 \in Indexes /\ i - 1 < n
  BY <1>2, ClientConstants DEF Indexes
<1>5. ASSUME NEW i \in 1..n
      PROVE  /\ s[i].id \in Above(v, c) /\ Era(s[i].id) = e /\ s[i] # NoRecord
             /\ s[i] = RecordOf(v, s[i].id)
  <2>1. i - 1 \in Indexes /\ j[e][i - 1] # NoRecord /\ s[i] = j[e][i - 1]
    BY <1>2, <1>3, <1>4
  <2>2. PICK b \in Above(v, c) : j[e][i - 1] = RecordOf(v, b) /\ Era(b) = e
    BY <2>1, JournalFacts
  <2>3. RecordOf(v, b).id = b
    BY AboveFacts
  <2> QED
    BY <2>1, <2>2, <2>3
<1>6. ASSUME NEW i \in 1..n
      PROVE  s[i].insertions = Added(v, s[i].id) /\ s[i].deletions = Taken(v, s[i].id)
  BY <1>5, AboveFacts
<1>7. ASSUME NEW i \in 1..n, NEW m \in 1..n, s[i].id = s[m].id
      PROVE  i = m
  <2>1. s[i] = s[m] /\ s[i] # NoRecord
    BY <1>5, <1>7
  <2>2. i - 1 \in Indexes /\ m - 1 \in Indexes /\ j[e][i - 1] = j[e][m - 1] /\ j[e][i - 1] # NoRecord
    BY <1>3, <1>4, <2>1
  <2>3. i - 1 = m - 1
    BY <2>2 DEF JournalOK
  <2> QED
    BY <1>2, <2>3
<1>8. ASSUME NEW b \in Above(v, c), Era(b) = e
      PROVE  \E i \in 1..n : s[i].id = b
  <2>1. PICK i \in Indexes : j[e][i] = RecordOf(v, b)
    BY <1>8 DEF JournalOK
  <2>2. RecordOf(v, b) # NoRecord /\ RecordOf(v, b).id = b
    BY AboveFacts
  <2>3. i < n
    BY <1>2, <2>1, <2>2
  <2>4. i + 1 \in 1..n /\ (i + 1) - 1 = i
    BY <1>2, <2>3 DEF Indexes
  <2> QED
    BY <1>3, <2>1, <2>2, <2>4
<1> QED
  BY <1>2, <1>3, <1>5, <1>6, <1>7, <1>8

(* They leave of a node what the blocks above d and the state of d say. *)
LEMMA EraApplied ==
  ASSUME NEW v, NEW c, ViewsOK(v, c), NEW j, JournalOK(j, v, c),
         NEW d \in Known(v), Extends(d, c), Len(d) = Len(c) + 1,
         NEW s, s = StoredRecords(j[Era(d)]), NEW k,
         NEW a \in BOOLEAN, a <=> k \in v[c], NEW z \in BOOLEAN, z <=> k \in v[d]
  PROVE  Folded(CellFor(Cardinality(Adding(v, c, k)), a), k, s, d)
           = CellFor(Cardinality(Adding(v, d, k)), z)
<1>1. /\ d \in Above(v, c) /\ Parent(d) = c /\ Era(d) \in Eras
      /\ Adding(v, d, k) = {b \in Adding(v, c, k) : Era(b) # Era(d)}
  BY NextCanonical
<1>2. PICK n \in Nat :
        /\ DOMAIN s = 1..n
        /\ \A i \in 1..n : /\ s[i].id \in Above(v, c) /\ Era(s[i].id) = Era(d)
                           /\ s[i].insertions = Added(v, s[i].id)
                           /\ s[i].deletions = Taken(v, s[i].id)
        /\ \A i, m \in 1..n : s[i].id = s[m].id => i = m
        /\ \A b \in Above(v, c) : Era(b) = Era(d) => \E i \in 1..n : s[i].id = b
  BY <1>1, EraInOrder
<1>3. PICK base : base = CellFor(Cardinality(Adding(v, c, k)), a)
  OBVIOUS
<1>4. PICK G : /\ G[0] = base /\ Folded(base, k, s, d) = G[n]
               /\ \A i \in 1..n : G[i] = EarlyMerge!ApplyRecord(G[i - 1], k, s[i], d)
  <2>1. DOMAIN s = 1..n
    BY <1>2
  <2>2. \E G : IsFold(G, base, k, s, d, n)
    BY <2>1, FoldIs
  <2> QED
    BY <2>2 DEF IsFold
<1>5. PICK done : done = [i \in 0..n |-> {s[x].id : x \in 1..i}]
  OBVIOUS
<1>6. PICK left : left = [i \in 0..n |-> Adding(v, c, k) \ done[i]]
  OBVIOUS
<1>7. PICK A : A = [i \in 0..n |-> IF d \in done[i] THEN z ELSE a]
  OBVIOUS
<1>8. \A i \in 0..n : IsFiniteSet(left[i]) /\ Cardinality(left[i]) \in Nat /\ A[i] \in BOOLEAN
  <2> SUFFICES ASSUME NEW i \in 0..n
               PROVE  IsFiniteSet(left[i]) /\ Cardinality(left[i]) \in Nat /\ A[i] \in BOOLEAN
    OBVIOUS
  <2>1. IsFiniteSet(Adding(v, c, k)) /\ left[i] \in SUBSET Adding(v, c, k)
    BY <1>6, AddingFinite
  <2>2. IsFiniteSet(left[i])
    BY <2>1, FS_Subset
  <2>3. A[i] \in BOOLEAN
    BY <1>7
  <2> QED
    BY <2>2, <2>3, FS_CardinalityType
<1>9. PICK T : T = {i \in 0..n : G[i] = CellFor(Cardinality(left[i]), A[i])}
  OBVIOUS
<1>10. 0 \in T
  <2>1. 0 \in 0..n /\ done[0] = {}
    BY <1>5
  <2>2. left[0] = Adding(v, c, k) /\ A[0] = a
    BY <1>6, <1>7, <2>1
  <2> QED
    BY <1>3, <1>4, <1>9, <2>1, <2>2, Zenon
<1>11. ASSUME NEW i \in 1..n, i - 1 \in T
       PROVE  i \in T
  <2>1. PICK b, r : r = s[i] /\ b = s[i].id
    OBVIOUS
  <2>2. i \in 0..n /\ i - 1 \in 0..n
    BY <1>2
  <2>3. /\ b \in Above(v, c) /\ r.id = b /\ r.insertions = Added(v, b) /\ r.deletions = Taken(v, b)
    BY <1>2, <2>1
  <2>4. b \notin done[i - 1] /\ done[i] = done[i - 1] \cup {b}
    <3>1. done[i] = {s[x].id : x \in 1..i} /\ done[i - 1] = {s[x].id : x \in 1..(i - 1)}
      BY <1>5, <2>2
    <3>2. 1..i = 1..(i - 1) \cup {i}
      OBVIOUS
    <3>3. \A x \in 1..(i - 1) : x \in 1..n /\ x # i
      OBVIOUS
    <3>4. \A x \in 1..(i - 1) : s[x].id # b
      BY <1>2, <2>1, <3>3
    <3> QED
      BY <2>1, <3>1, <3>2, <3>4
  <2>5. left[i] = left[i - 1] \ {b}
    BY <1>6, <2>2, <2>4
  <2>6. k \in r.insertions <=> b \in left[i - 1]
    BY <1>6, <2>2, <2>3, <2>4 DEF Adding
  <2>7. PICK m \in Nat : m = Cardinality(left[i - 1])
    BY <1>8, <2>2
  <2>8. k \in r.insertions => m # 0 /\ Cardinality(left[i]) = m - 1
    <3>1. ASSUME b \in left[i - 1]
          PROVE  m # 0 /\ Cardinality(left[i]) = m - 1
      <4>1. Cardinality(left[i - 1] \ {b}) = Cardinality(left[i - 1]) - 1
        BY <1>8, <2>2, <3>1, FS_RemoveElement
      <4>2. m # 0
        BY <1>8, <2>2, <2>7, <3>1, FS_EmptySet
      <4> QED
        BY <2>5, <2>7, <4>1, <4>2
    <3> QED
      BY <2>6, <3>1
  <2>9. k \notin r.insertions => Cardinality(left[i]) = m
    <3>1. b \notin left[i - 1] => left[i] = left[i - 1]
      BY <2>5
    <3> QED
      BY <2>6, <2>7, <3>1
  <2>10. PICK p, q \in BOOLEAN : p = A[i - 1] /\ q = A[i]
    BY <1>8, <2>2
  <2>11. k \in r.insertions => k \notin r.deletions
    BY <2>3 DEF Added, Taken
  <2>12. b # d => q = p
    BY <1>7, <2>2, <2>4, <2>10
  <2>13. b = d => p = a /\ q = z
    BY <1>7, <2>2, <2>4, <2>10
  <2>14. b = d => r.insertions = v[d] \ v[c] /\ r.deletions = v[c] \ v[d]
    BY <1>1, <2>3 DEF Added, Taken
  <2>15. r.id = d /\ k \in r.insertions => p = FALSE /\ q = TRUE
    BY <2>3, <2>13, <2>14
  <2>16. r.id = d /\ k \in r.deletions => p = TRUE /\ q = FALSE
    BY <2>3, <2>13, <2>14
  <2>17. r.id = d /\ k \notin r.insertions /\ k \notin r.deletions => q = p
    BY <2>3, <2>13, <2>14
  <2>18. PICK l : l = Cardinality(left[i])
    OBVIOUS
  <2>19. EarlyMerge!ApplyRecord(CellFor(m, p), k, r, d) = CellFor(l, q)
    <3>1. (k \in r.insertions => m # 0 /\ l = m - 1) /\ (k \notin r.insertions => l = m)
      BY <2>8, <2>9, <2>18
    <3>2. r.id # d => q = p
      BY <2>3, <2>12
    <3>3. Fits(m, p, k, r, d, l, q)
      BY <2>11, <2>15, <2>16, <2>17, <3>1, <3>2, Zenon DEF Fits
    <3>4. ASSUME NEW x \in BOOLEAN, NEW y \in BOOLEAN, Fits(m, x, k, r, d, l, y)
          PROVE  EarlyMerge!ApplyRecord(CellFor(m, x), k, r, d) = CellFor(l, y)
      <4>1. m \in Nat
        BY <2>7
      <4> QED
        BY <3>4, <4>1, RecordApplied
    <3> QED
      BY <3>3, <3>4, Zenon
  <2>20. G[i - 1] = CellFor(m, p)
    BY <1>9, <1>11, <2>7, <2>10, Zenon
  <2>21. G[i] = EarlyMerge!ApplyRecord(G[i - 1], k, r, d)
    BY <1>4, <2>1
  <2>22. G[i] = CellFor(Cardinality(left[i]), A[i])
    BY <2>10, <2>18, <2>19, <2>20, <2>21, Zenon
  <2> QED
    BY <1>9, <2>2, <2>22
<1>12. n \in T
  <2>1. \A i \in 0..n : i \in T
    BY <1>10, <1>11, InductionTo
  <2> QED
    BY <2>1
<1>13. n \in 0..n /\ done[n] = {b \in Above(v, c) : Era(b) = Era(d)}
  <2>1. n \in 0..n
    OBVIOUS
  <2>2. done[n] = {s[x].id : x \in 1..n}
    BY <1>5, <2>1
  <2> QED
    BY <1>2, <2>1, <2>2
<1>14. left[n] = Adding(v, d, k) /\ A[n] = z
  <2>1. Adding(v, c, k) \subseteq Above(v, c)
    BY DEF Adding
  <2>2. left[n] = Adding(v, d, k)
    BY <1>1, <1>6, <1>13, <2>1
  <2> QED
    BY <1>1, <1>7, <1>13, <2>2
<1> QED
  BY <1>3, <1>4, <1>9, <1>12, <1>14, Zenon

-------------------------------------------------------------------------------
(* EarlyMergeDB: its state in the terms of the lemmas above *)

LEMMA SameInMerge ==
  /\ EarlyMerge!Blocks = Blocks /\ EarlyMerge!Eras = Eras /\ EarlyMerge!Indexes = Indexes
  /\ \A b : EarlyMerge!Era(b) = Era(b)
  /\ \A b, c : EarlyMerge!Extends(b, c) = Extends(b, c)
  /\ \A r : EarlyMerge!StoredRecords(r) = StoredRecords(r)
  /\ \A b : EarlyMerge!ErasRead(b) = ErasRead(b)
  /\ \A b, i, d : EarlyMerge!Record(b, i, d) = Record(b, i, d)
  /\ \A l, n : EarlyMerge!Latest(l, n) = Latest(l, n)
  /\ EarlyMerge!Journalled = Known(views)
  /\ \A k : EarlyMerge!EmptyMemory(k) = EmptyMemory(k)
  /\ EarlyMerge!Genesis = Genesis
  /\ \A S : EarlyMerge!Cardinality(S) = Cardinality(S)
<1>1. EarlyMerge!Blocks = Blocks /\ EarlyMerge!Eras = Eras /\ EarlyMerge!Indexes = Indexes
  BY DEF EarlyMerge!Blocks, Blocks, EarlyMerge!Eras, Eras, EarlyMerge!Indexes, Indexes
<1>2. \A r : EarlyMerge!StoredRecords(r) = StoredRecords(r)
  BY Zenon DEF EarlyMerge!StoredRecords, StoredRecords
<1>3. \A b : EarlyMerge!ErasRead(b) = ErasRead(b)
  BY <1>1, Zenon DEF EarlyMerge!ErasRead, ErasRead
<1>4. EarlyMerge!Journalled = Known(views)
  BY <1>1, Zenon DEF EarlyMerge!Journalled, Known
<1>5. \A b, c : EarlyMerge!Extends(b, c) = Extends(b, c)
  BY Zenon DEF EarlyMerge!Extends, Extends
<1>6. \A S : EarlyMerge!Cardinality(S) = Cardinality(S)
  BY Zenon DEF EarlyMerge!Cardinality, Cardinality
<1> QED
  BY <1>1, <1>2, <1>3, <1>4, <1>5, <1>6
  DEF EarlyMerge!Era, Era, EarlyMerge!Record, Record, EarlyMerge!Latest, Latest,
      EarlyMerge!EmptyMemory, EmptyMemory, EarlyMerge!Genesis, Genesis

(* What refs, the batch and its flags say of a node is what CellFor says. *)
LEMMA CellIs ==
  ASSUME NEW v, NEW c, ViewsOK(v, c), NEW k \in Keys, NEW b, Merged(b, v, c), NEW f, f = Refs(v, c),
         NEW a \in BOOLEAN, a <=> k \in v[c]
  PROVE  [info |-> f[k], stored |-> k \in b.nodes, flag |-> k \in b.already_in]
           = CellFor(Cardinality(Adding(v, c, k)), a)
<1>1. PICK n \in Nat : n = Cardinality(Adding(v, c, k)) /\ (n # 0 <=> Adding(v, c, k) # {})
  BY AddingFinite
<1>2. /\ k \in b.nodes <=> k \in v[c] \/ n # 0
      /\ k \in b.already_in <=> k \in v[c] /\ n # 0
  BY <1>1 DEF Merged
<1>3. f[k] = Info(n, k \in v[c])
  BY <1>1, Zenon DEF Refs
<1>4. CASE k \in v[c]
  <2>1. a = TRUE /\ (k \in v[c]) = TRUE
    BY <1>4
  <2>2. CASE n = 0
    <3>1. (k \in b.nodes) = TRUE /\ (k \in b.already_in) = FALSE
      BY <1>2, <1>4, <2>2
    <3>2. f[k] = [queue_refs |-> 0, in_archive |-> FALSE]
      BY <1>3, <2>2, Zenon DEF Info, EarlyMerge!Untracked
    <3> QED
      BY <1>1, <2>1, <2>2, <3>1, <3>2, Zenon DEF CellFor, CellOf
  <2>3. CASE n # 0
    <3>1. (k \in b.nodes) = TRUE /\ (k \in b.already_in) = TRUE
      BY <1>2, <1>4, <2>3
    <3>2. f[k] = [queue_refs |-> n, in_archive |-> TRUE]
      BY <1>3, <2>1, <2>3, Zenon DEF Info, EarlyMerge!Tracked
    <3> QED
      BY <1>1, <2>1, <2>3, <3>1, <3>2, Zenon DEF CellFor, CellOf
  <2> QED
    BY <2>2, <2>3
<1>5. CASE k \notin v[c]
  <2>1. a = FALSE /\ (k \in v[c]) = FALSE
    BY <1>5
  <2>2. CASE n = 0
    <3>1. (k \in b.nodes) = FALSE /\ (k \in b.already_in) = FALSE
      BY <1>2, <1>5, <2>2
    <3>2. f[k] = [queue_refs |-> 0, in_archive |-> FALSE]
      BY <1>3, <2>2, Zenon DEF Info, EarlyMerge!Untracked
    <3> QED
      BY <1>1, <2>1, <2>2, <3>1, <3>2, Zenon DEF CellFor, CellOf
  <2>3. CASE n # 0
    <3>1. (k \in b.nodes) = TRUE /\ (k \in b.already_in) = FALSE
      BY <1>2, <1>5, <2>3
    <3>2. f[k] = [queue_refs |-> n, in_archive |-> FALSE]
      BY <1>3, <2>1, <2>3, Zenon DEF Info, EarlyMerge!Tracked
    <3> QED
      BY <1>1, <2>1, <2>3, <3>1, <3>2, Zenon DEF CellFor, CellOf
  <2> QED
    BY <2>2, <2>3
<1> QED
  BY <1>4, <1>5

LEMMA CellFields ==
  ASSUME NEW n, NEW a \in BOOLEAN, NEW x, x = CellFor(n, a)
  PROVE  /\ x.info = Info(n, a)
         /\ x.stored <=> n # 0 \/ a
         /\ x.flag <=> n # 0 /\ a
<1>1. CASE n = 0
  <2>1. x = [info |-> [queue_refs |-> 0, in_archive |-> FALSE], stored |-> a, flag |-> FALSE]
    BY <1>1, Zenon DEF CellFor, CellOf
  <2>2. x.info = [queue_refs |-> 0, in_archive |-> FALSE] /\ x.stored = a /\ x.flag = FALSE
    BY <2>1
  <2>3. x.info = Info(n, a)
    BY <1>1, <2>2, Zenon DEF Info, EarlyMerge!Untracked
  <2> QED
    BY <1>1, <2>2, <2>3
<1>2. CASE n # 0
  <2>1. x = [info |-> [queue_refs |-> n, in_archive |-> a], stored |-> TRUE, flag |-> a]
    BY <1>2, Zenon DEF CellFor, CellOf
  <2>2. x.info = [queue_refs |-> n, in_archive |-> a] /\ x.stored = TRUE /\ x.flag = a
    BY <2>1
  <2>3. x.info = Info(n, a)
    BY <1>2, <2>2, Zenon DEF Info, EarlyMerge!Tracked
  <2> QED
    BY <1>2, <2>2, <2>3
<1> QED
  BY <1>1, <1>2

(* An operation that leaves the cells of views u and canonical block d leaves the
   references and the nodes of them. *)
CellsFor(cells, u, d) ==
  \A k \in Keys : \A a \in BOOLEAN :
    (a <=> k \in u[d]) => cells[k] = CellFor(Cardinality(Adding(u, d, k)), a)

LEMMA CellsApplied ==
  ASSUME NEW u, NEW d, ViewsOK(u, d), NEW cells, CellsFor(cells, u, d), NEW j, NEW l,
         EarlyMerge!Apply(cells, j, l)
  PROVE  /\ refs' = Refs(u, d) /\ latest_era' = l /\ Merged(batch', u, d)
         /\ batch' = [nodes |-> batch'.nodes, journal |-> j, latest |-> l, already_in |-> batch'.already_in]
         /\ batch'.journal = j /\ batch'.latest = l
<1>1. /\ refs' = [k \in Keys |-> cells[k].info] /\ latest_era' = l
      /\ batch' = [nodes |-> {k \in Keys : cells[k].stored}, journal |-> j, latest |-> l,
                   already_in |-> {k \in Keys : cells[k].flag}]
  BY DEF EarlyMerge!Apply
<1>2. ASSUME NEW k \in Keys
      PROVE  /\ cells[k].info = Info(Cardinality(Adding(u, d, k)), k \in u[d])
             /\ cells[k].stored <=> k \in u[d] \/ Adding(u, d, k) # {}
             /\ cells[k].flag <=> k \in u[d] /\ Adding(u, d, k) # {}
  <2>1. PICK n \in Nat : n = Cardinality(Adding(u, d, k)) /\ (n # 0 <=> Adding(u, d, k) # {})
    BY AddingFinite
  <2>2. PICK a \in BOOLEAN : a = (k \in u[d])
    <3>1. (k \in u[d]) \in BOOLEAN
      OBVIOUS
    <3> QED
      BY <3>1
  <2>3. a <=> k \in u[d]
    BY <2>2
  <2>4. cells[k] = CellFor(n, a)
    BY <2>1, <2>3, Zenon DEF CellsFor
  <2>5. PICK x : x = cells[k]
    OBVIOUS
  <2>6. /\ x.info = Info(n, a)
        /\ x.stored <=> n # 0 \/ a
        /\ x.flag <=> n # 0 /\ a
    <3>1. x = CellFor(n, a)
      BY <2>4, <2>5
    <3>2. \A p \in BOOLEAN : x = CellFor(n, p) => /\ x.info = Info(n, p)
                                                  /\ x.stored <=> n # 0 \/ p
                                                  /\ x.flag <=> n # 0 /\ p
      BY CellFields
    <3> QED
      BY <3>1, <3>2, Zenon
  <2>7. cells[k].info = Info(Cardinality(Adding(u, d, k)), k \in u[d])
    BY <2>1, <2>2, <2>5, <2>6, Zenon
  <2>8. cells[k].stored <=> k \in u[d] \/ Adding(u, d, k) # {}
    BY <2>1, <2>3, <2>5, <2>6
  <2>9. cells[k].flag <=> k \in u[d] /\ Adding(u, d, k) # {}
    BY <2>1, <2>3, <2>5, <2>6
  <2> QED
    BY <2>7, <2>8, <2>9
<1>3. refs' = Refs(u, d)
  BY <1>1, <1>2, Zenon DEF Refs
<1>4. /\ batch'.nodes = {k \in Keys : cells[k].stored} /\ batch'.already_in = {k \in Keys : cells[k].flag}
      /\ batch'.journal = j /\ batch'.latest = l
  BY <1>1
<1>5. Merged(batch', u, d)
  BY <1>2, <1>4 DEF Merged
<1> QED
  BY <1>1, <1>3, <1>4, <1>5

(* The references that a new process reads are those of the blocks above c. *)
LEMMA ReadRefsIs ==
  ASSUME NEW b, NEW v, NEW c, BackingOK(b, v, c), Merged(b, v, c)
  PROVE  EarlyMerge!ReadRefs(b) = Refs(v, c)
<1>1. ViewsOK(v, c) /\ JournalOK(b.journal, v, c)
  BY DEF BackingOK
<1>2. PICK j : j = b.journal
  OBVIOUS
<1>3. PICK places : places = {p \in ErasRead(b) \X Indexes : p[2] < Len(StoredRecords(j[p[1]]))}
  OBVIOUS
<1>4. PICK P : P = [k \in Keys |-> {p \in places : k \in j[p[1]][p[2]].insertions}]
  OBVIOUS
<1>5. EarlyMerge!ReadRefs(b)
        = [k \in Keys |-> IF P[k] = {} THEN EarlyMerge!Untracked
                          ELSE EarlyMerge!Tracked(Cardinality(P[k]), k \in b.already_in)]
  <2>1. places = {p \in EarlyMerge!ErasRead(b) \X EarlyMerge!Indexes :
                    p[2] < Len(EarlyMerge!StoredRecords(b.journal[p[1]]))}
    BY <1>2, <1>3, SameInMerge
  <2>2. \A k \in Keys : P[k] = {p \in places : k \in b.journal[p[1]][p[2]].insertions}
    BY <1>2, <1>4
  <2>3. EarlyMerge!ReadRefs(b)
          = [k \in Keys |-> IF {p \in places : k \in b.journal[p[1]][p[2]].insertions} = {} THEN EarlyMerge!Untracked
                            ELSE EarlyMerge!Tracked(
                                   EarlyMerge!Cardinality({p \in places : k \in b.journal[p[1]][p[2]].insertions}),
                                   k \in b.already_in)]
    BY <2>1, Zenon DEF EarlyMerge!ReadRefs
  <2> QED
    BY <2>2, <2>3, SameInMerge, Zenon
<1>6. ASSUME NEW e \in Eras, NEW i \in Indexes
      PROVE  i < Len(StoredRecords(j[e])) <=> j[e][i] # NoRecord
  <2>1. \A x, n \in Indexes : j[e][x] # NoRecord /\ n < x => j[e][n] # NoRecord
    BY <1>1, <1>2 DEF JournalOK
  <2>2. PICK n \in 0..MaxBlocks :
          /\ \A x \in Indexes : x < n <=> j[e][x] # NoRecord
          /\ Len(StoredRecords(j[e])) = n
    BY <2>1, StoredFacts
  <2> QED
    BY <2>2
<1>7. ASSUME NEW k \in Keys
      PROVE  /\ Cardinality(P[k]) = Cardinality(Adding(v, c, k))
             /\ P[k] = {} <=> Adding(v, c, k) = {}
  <2>1. PICK Q : Q = P[k] /\ Q = {p \in places : k \in j[p[1]][p[2]].insertions}
    BY <1>4
  <2>2. PICK f : f = [p \in Q |-> j[p[1]][p[2]].id]
    OBVIOUS
  <2>3. ASSUME NEW p \in Q
        PROVE  /\ p[1] \in Eras /\ p[2] \in Indexes /\ p = <<p[1], p[2]>>
               /\ j[p[1]][p[2]] # NoRecord
               /\ f[p] \in Adding(v, c, k) /\ j[p[1]][p[2]] = RecordOf(v, f[p]) /\ Era(f[p]) = p[1]
    <3>1. PICK e \in ErasRead(b), i \in Indexes :
            p = <<e, i>> /\ i < Len(StoredRecords(j[e])) /\ k \in j[e][i].insertions
      BY <1>3, <2>1
    <3>2. e \in Eras
      BY DEF ErasRead
    <3>3. j[e][i] # NoRecord
      BY <1>6, <3>1, <3>2
    <3>4. PICK a \in Above(v, c) : j[e][i] = RecordOf(v, a) /\ Era(a) = e
      BY <1>1, <1>2, <3>2, <3>3, JournalFacts
    <3>5. RecordOf(v, a).id = a /\ RecordOf(v, a).insertions = Added(v, a)
      BY <1>1, AboveFacts
    <3>6. f[p] = a /\ p[1] = e /\ p[2] = i
      BY <2>2, <3>1, <3>4, <3>5
    <3>7. a \in Adding(v, c, k)
      BY <3>1, <3>4, <3>5 DEF Adding
    <3> QED
      BY <3>1, <3>2, <3>3, <3>4, <3>6, <3>7
  <2>4. f \in [Q -> Adding(v, c, k)]
    BY <2>2, <2>3
  <2>5. ASSUME NEW x \in Q, NEW y \in Q, f[x] = f[y]
        PROVE  x = y
    <3>1. x[1] = y[1] /\ j[x[1]][x[2]] = j[x[1]][y[2]] /\ x[1] \in Eras
      BY <2>3, <2>5
    <3>2. x[2] \in Indexes /\ y[2] \in Indexes /\ j[x[1]][x[2]] # NoRecord
      BY <2>3
    <3>3. x[2] = y[2]
      BY <1>1, <1>2, <3>1, <3>2 DEF JournalOK
    <3>4. x = <<x[1], x[2]>> /\ y = <<y[1], y[2]>>
      BY <2>3
    <3> QED
      BY <3>1, <3>3, <3>4, Zenon
  <2>6. ASSUME NEW a \in Adding(v, c, k)
        PROVE  \E x \in Q : f[x] = a
    <3>1. a \in Above(v, c) /\ k \in Added(v, a)
      BY DEF Adding
    <3>2. /\ Era(a) \in Eras /\ RecordOf(v, a) # NoRecord /\ RecordOf(v, a).id = a
          /\ RecordOf(v, a).insertions = Added(v, a)
      BY <1>1, <3>1, AboveFacts
    <3>3. PICK i \in Indexes : j[Era(a)][i] = RecordOf(v, a)
      BY <1>1, <1>2, <3>1 DEF JournalOK
    <3>4. i < Len(StoredRecords(j[Era(a)]))
      BY <1>6, <3>2, <3>3
    <3>5. Era(a) \in ErasRead(b)
      <4> SUFFICES ASSUME Era(a) \notin ErasRead(b) PROVE FALSE
        OBVIOUS
      <4>1. StoredRecords(j[Era(a)]) = << >>
        BY <1>2, <3>2, ReadsAll
      <4>2. i \in Nat /\ i < 0
        BY <3>4, <4>1 DEF Indexes
      <4> QED
        BY <4>2
    <3>6. PICK x : x = <<Era(a), i>>
      OBVIOUS
    <3>7. x \in Q
      BY <1>3, <2>1, <3>1, <3>2, <3>3, <3>4, <3>5, <3>6
    <3>8. f[x] = a
      BY <2>2, <3>2, <3>3, <3>6, <3>7
    <3> QED
      BY <3>7, <3>8
  <2>7. IsFiniteSet(Q)
    <3>1. IsFiniteSet(Eras) /\ IsFiniteSet(Indexes)
      BY ClientConstants, FS_Interval DEF Eras, Indexes
    <3>2. IsFiniteSet(Eras \X Indexes)
      BY <3>1, FS_Product
    <3>3. Q \in SUBSET (Eras \X Indexes)
      BY <2>3
    <3> QED
      BY <3>2, <3>3, FS_Subset
  <2>8. Cardinality(Adding(v, c, k)) = Cardinality(Q)
    BY <2>4, <2>5, <2>6, <2>7, SameSize
  <2>9. Q = {} <=> Adding(v, c, k) = {}
    BY <2>4, <2>6
  <2> QED
    BY <2>1, <2>8, <2>9
<1>8. ASSUME NEW k \in Keys
      PROVE  (IF P[k] = {} THEN EarlyMerge!Untracked
              ELSE EarlyMerge!Tracked(Cardinality(P[k]), k \in b.already_in))
               = Info(Cardinality(Adding(v, c, k)), k \in v[c])
  <2>1. PICK n \in Nat : n = Cardinality(Adding(v, c, k)) /\ (n # 0 <=> Adding(v, c, k) # {})
    BY <1>1, AddingFinite
  <2>2. CASE n = 0
    BY <1>7, <2>1, <2>2, Zenon DEF Info
  <2>3. CASE n # 0
    <3>1. k \in b.already_in <=> k \in v[c]
      BY <2>1, <2>3 DEF Merged
    <3>2. (k \in b.already_in) = (k \in v[c])
      BY <3>1
    <3> QED
      BY <1>7, <2>1, <2>3, <3>2, Zenon DEF Info
  <2> QED
    BY <2>2, <2>3
<1> QED
  BY <1>5, <1>8, Zenon DEF Refs

-------------------------------------------------------------------------------
(* EarlyMergeDB: the invariant is kept *)

LEMMA MergeInserts ==
  ASSUME EarlyMergeInv, NEW k \in Keys, EarlyMerge!Insert(k)
  PROVE  EarlyMergeInv'
<1>1. /\ k \notin work /\ work' = work \cup {k}
      /\ memory' = [memory EXCEPT ![k] = memory[k] + 1]
      /\ UNCHANGED <<views, canon, tip, stray, kept, pc, batch, db, refs, latest_era>>
  BY DEF EarlyMerge!Insert, EarlyMerge!AddNode, EarlyMerge!Emplace
<1>2. ClientOK'
  BY <1>1, ClientInserts DEF EarlyMergeInv, BackingOK
<1> QED
  BY <1>1, <1>2 DEF EarlyMergeInv, InStep

LEMMA MergeRemoves ==
  ASSUME EarlyMergeInv, NEW k \in Keys, EarlyMerge!Remove(k)
  PROVE  EarlyMergeInv'
<1>1. /\ k \in work /\ work' = work \ {k}
      /\ memory' = [memory EXCEPT ![k] = memory[k] - 1]
      /\ UNCHANGED <<views, canon, tip, stray, kept, pc, batch, db, refs, latest_era>>
  BY DEF EarlyMerge!Remove, EarlyMerge!DropNode, EarlyMerge!RemoveRef
<1>2. ClientOK'
  BY <1>1, ClientRemoves DEF EarlyMergeInv, BackingOK
<1> QED
  BY <1>1, <1>2 DEF EarlyMergeInv, InStep

LEMMA MergeSwitches ==
  ASSUME EarlyMergeInv, NEW b \in Blocks, EarlyMerge!SwitchTo(b)
  PROVE  EarlyMergeInv'
<1>1. /\ EarlyMerge!Clean /\ EarlyMerge!Switched(b) /\ UNCHANGED <<memory, refs, latest_era>>
  BY DEF EarlyMerge!SwitchTo, EarlyMerge!ownVars
<1>2. EarlyMerge!Checkout(b) /\ UNCHANGED <<pc, batch, db>>
  BY <1>1 DEF EarlyMerge!Switched
<1>3. b \in EarlyMerge!Live /\ tip' = b /\ work' = views[b] /\ UNCHANGED <<views, canon, stray, kept>>
  BY <1>2 DEF EarlyMerge!Checkout
<1>4. b \in Known(views) /\ Extends(b, canon) /\ memory = EmptyMemory(Keys)
  BY <1>1, <1>3, SameInMerge DEF EarlyMerge!Live, EarlyMerge!Clean
<1>5. ClientOK'
  BY <1>1, <1>3, <1>4, ClientSwitches DEF EarlyMergeInv, BackingOK
<1> QED
  BY <1>1, <1>2, <1>3, <1>5 DEF EarlyMergeInv, InStep

LEMMA MergeWrites ==
  ASSUME EarlyMergeInv, EarlyMerge!WriteBatch
  PROVE  EarlyMergeInv'
<1>1. /\ kept' = [views |-> views, canon |-> canon, stray |-> stray]
      /\ db' = batch /\ pc' = "idle"
      /\ UNCHANGED <<views, canon, tip, work, stray, batch, memory, refs, latest_era>>
  BY DEF EarlyMerge!WriteBatch, EarlyMerge!Written, EarlyMerge!Persisted, EarlyMerge!ownVars
<1>2. kept'.views = views /\ kept'.canon = canon /\ kept'.stray = stray
  BY <1>1
<1>3. ClientOK' /\ InStep'
  BY <1>1, <1>2 DEF EarlyMergeInv, ClientOK, InStep
<1> QED
  BY <1>1, <1>2, <1>3 DEF EarlyMergeInv

LEMMA MergeReopens ==
  ASSUME EarlyMergeInv, EarlyMerge!Reopen
  PROVE  EarlyMergeInv'
<1>1. /\ views' = kept.views /\ canon' = kept.canon /\ stray' = kept.stray
      /\ tip' = kept.canon /\ work' = kept.views[kept.canon]
      /\ pc' = "idle" /\ batch' = db /\ memory' = EmptyMemory(Keys)
      /\ refs' = EarlyMerge!ReadRefs(db) /\ latest_era' = db.latest
      /\ UNCHANGED <<kept, db>>
  BY SameInMerge DEF EarlyMerge!Reopen, EarlyMerge!Opened, EarlyMerge!ClientReopen
<1>2. ClientOK' /\ InStep'
  BY <1>1, ClientReopens DEF EarlyMergeInv, BackingOK
<1>3. refs' = Refs(kept.views, kept.canon)
  BY <1>1, ReadRefsIs DEF EarlyMergeInv
<1> QED
  BY <1>1, <1>2, <1>3 DEF EarlyMergeInv

LEMMA MergeInjects ==
  ASSUME EarlyMergeInv, EarlyMerge!Inject
  PROVE  EarlyMergeInv'
<1>1. PICK new : new = [db EXCEPT !.nodes = (db.nodes \cup {k \in DOMAIN memory : memory[k] > 0})
                                              \ {k \in DOMAIN memory : memory[k] < 0}]
  OBVIOUS
<1>2. EarlyMerge!Injected(new) /\ memory' = EarlyMerge!EmptyMemory(Keys) /\ UNCHANGED <<refs, latest_era>>
  BY <1>1 DEF EarlyMerge!Inject, EarlyMerge!Inserted, EarlyMerge!Removed
<1>3. /\ pc = "idle" /\ Known(views) = {Genesis}
      /\ views' = [views EXCEPT ![Genesis] = work]
      /\ kept' = [kept EXCEPT !.views = views'] /\ db' = new /\ batch' = new
      /\ UNCHANGED <<canon, tip, work, stray, pc>> /\ memory' = EmptyMemory(Keys)
  BY <1>2, SameInMerge DEF EarlyMerge!Injected
<1>4. /\ ViewsOK(views, canon) /\ ClientOK /\ InStep /\ BackingOK(batch, views, canon)
      /\ Merged(batch, views, canon)
      /\ kept = [views |-> views, canon |-> canon, stray |-> stray]
  BY <1>3 DEF EarlyMergeInv, InStep, BackingOK
<1>5. /\ ClientOK' /\ Replaced(views', views, canon, work)
      /\ kept' = [views |-> views', canon |-> canon', stray |-> stray']
      /\ tip = canon /\ work \in SUBSET Keys /\ views[canon] \in SUBSET Keys
  BY <1>3, <1>4, ClientInjects
<1>6. PICK u, v, c, w : u = views' /\ v = views /\ c = canon /\ w = work
  OBVIOUS
<1>7. /\ ViewsOK(u, c) /\ u[c] = w
      /\ \A k : Adding(u, c, k) = {} /\ Adding(v, c, k) = {}
      /\ \A j : JournalOK(j, v, c) => JournalOK(j, u, c)
      /\ \A l : LatestOK(l, v) => LatestOK(l, u)
  BY <1>5, <1>6 DEF Replaced
<1>8. /\ {k \in DOMAIN memory : memory[k] > 0} = w \ v[c]
      /\ {k \in DOMAIN memory : memory[k] < 0} = v[c] \ w
  <2>1. PICK x \in SUBSET Keys, y \in SUBSET Keys : x = w /\ y = v[c] /\ memory = Change(x, y)
    BY <1>4, <1>5, <1>6 DEF ClientOK
  <2>2. /\ {k \in DOMAIN Change(x, y) : Change(x, y)[k] > 0} = x \ y
        /\ {k \in DOMAIN Change(x, y) : Change(x, y)[k] < 0} = y \ x
    BY ChangeFacts
  <2> QED
    BY <2>1, <2>2
<1>9. PICK V, nodes, old, flags, j :
        /\ j \in [Eras -> [Indexes -> V]]
        /\ batch = [nodes |-> nodes, journal |-> j, latest |-> old, already_in |-> flags]
        /\ batch.nodes = nodes /\ batch.journal = j /\ batch.latest = old /\ batch.already_in = flags
  BY <1>4, BackingIs
<1>10. /\ new = [nodes |-> (nodes \cup (w \ v[c])) \ (v[c] \ w), journal |-> j, latest |-> old, already_in |-> flags]
       /\ db = batch
  <2>1. db = batch
    BY <1>4 DEF InStep
  <2>2. new = [db EXCEPT !.nodes = (nodes \cup (w \ v[c])) \ (v[c] \ w)]
    BY <1>1, <1>8, <1>9, <2>1
  <2>3. db = [nodes |-> nodes, journal |-> j, latest |-> old, already_in |-> flags]
    BY <1>9, <2>1
  <2> QED
    BY <2>1, <2>2, <2>3
<1>11. nodes = v[c] /\ flags = {} /\ w \in SUBSET Keys
  BY <1>4, <1>5, <1>6, <1>7, <1>9 DEF Merged
<1>12. new = [nodes |-> w, journal |-> j, latest |-> old, already_in |-> {}]
  <2>1. (nodes \cup (w \ v[c])) \ (v[c] \ w) = w
    BY <1>11
  <2> QED
    BY <1>10, <1>11, <2>1
<1>13. new.nodes = w /\ new.journal = j /\ new.latest = old /\ new.already_in = {}
  BY <1>12
<1>14. BackingOK(new, u, c)
  <2>1. JournalOK(j, u, c) /\ LatestOK(old, u)
    BY <1>4, <1>6, <1>7, <1>9 DEF BackingOK
  <2> QED
    BY <1>7, <1>12, <1>13, <2>1 DEF BackingOK
<1>15. Merged(new, u, c)
  BY <1>7, <1>11, <1>13 DEF Merged
<1>16. Refs(u, c) = Refs(v, c)
  <2>1. \A k \in Keys : Info(Cardinality(Adding(u, c, k)), k \in u[c]) = Info(Cardinality(Adding(v, c, k)), k \in v[c])
    <3>1. Cardinality({}) = 0
      BY FS_EmptySet
    <3> QED
      BY <1>7, <3>1, Zenon DEF Info
  <2> QED
    BY <2>1, Zenon DEF Refs
<1>17. kept'.views = u /\ kept'.canon = c /\ InStep'
  <2>1. canon' = c /\ batch' = db'
    BY <1>3, <1>6
  <2>2. kept' = [views |-> u, canon |-> c, stray |-> stray']
    BY <1>5, <1>6, <2>1
  <2>3. kept'.views = u /\ kept'.canon = c
    BY <2>2
  <2>4. InStep'
    BY <1>5, <2>1 DEF InStep
  <2> QED
    BY <2>3, <2>4
<1>18. /\ BackingOK(batch, views, canon)' /\ Merged(batch, views, canon)'
       /\ BackingOK(db, kept.views, kept.canon)' /\ Merged(db, kept.views, kept.canon)'
  BY <1>3, <1>6, <1>14, <1>15, <1>17
<1>19. refs' = Refs(views, canon)' /\ latest_era' = batch'.latest
  BY <1>2, <1>3, <1>6, <1>9, <1>13, <1>16 DEF EarlyMergeInv
<1>20. pc' = "idle"
  BY <1>3
<1> QED
  BY <1>5, <1>17, <1>18, <1>19, <1>20 DEF EarlyMergeInv

LEMMA MergeStarts ==
  ASSUME EarlyMerge!Init
  PROVE  EarlyMergeInv
<1>1. /\ views = NewViews /\ canon = Genesis /\ tip = Genesis /\ work = {} /\ stray = {}
      /\ kept = [views |-> views, canon |-> canon, stray |-> stray]
      /\ pc = "idle" /\ memory = EmptyMemory(Keys) /\ db = EmptyBacking({}) /\ batch = db
      /\ refs = EarlyMerge!ReadRefs(db) /\ latest_era = db.latest
  BY SameInMerge DEF EarlyMerge!Init, EarlyMerge!ClientInit, NewViews, EarlyMerge!EmptyBacking, EmptyBacking
<1>2. BackingOK(batch, views, canon)
  BY <1>1, NewDatabase
<1>3. Merged(batch, views, canon)
  <2>1. PICK v : v = NewViews /\ Known(v) = {Genesis} /\ v[Genesis] = {}
    BY NewDatabase
  <2>2. \A k : Adding(v, Genesis, k) = {}
    BY <2>1, GenesisIsBlock DEF Adding, Above
  <2>3. batch.nodes = {} /\ batch.already_in = {}
    BY <1>1 DEF EmptyBacking
  <2> QED
    BY <1>1, <2>1, <2>2, <2>3 DEF Merged
<1>4. ClientOK
  <2>1. Genesis \in Known(views) /\ views[Genesis] = {}
    BY <1>1, NewDatabase
  <2>2. Extends(Genesis, Genesis)
    BY GenesisIsBlock, OwnAncestor, ExtendsAncestor
  <2>3. Change({}, {}) = EmptyMemory(Keys)
    BY NothingChanges
  <2> QED
    BY <1>1, <2>1, <2>2, <2>3 DEF ClientOK
<1>5. InStep /\ kept.views = views /\ kept.canon = canon
  BY <1>1 DEF InStep
<1>6. refs = Refs(views, canon)
  BY <1>1, <1>2, <1>3, ReadRefsIs
<1> QED
  BY <1>1, <1>2, <1>3, <1>4, <1>5, <1>6 DEF EarlyMergeInv

LEMMA MergeStutters ==
  ASSUME EarlyMergeInv, UNCHANGED vars
  PROVE  EarlyMergeInv'
BY DEF EarlyMergeInv, vars, clientVars, ClientOK, InStep

(* The block journalled inserts the nodes of its record. *)
InsertedCell(f, bk, ins, k) ==
  IF k \in ins
    THEN EarlyMerge!InsertKey([info |-> f[k], stored |-> k \in bk.nodes, flag |-> k \in bk.already_in],
                              k \in bk.nodes)
    ELSE [info |-> f[k], stored |-> k \in bk.nodes, flag |-> k \in bk.already_in]

MadeOf(cells, f, bk, ins) == \A k \in Keys : cells[k] = InsertedCell(f, bk, ins, k)

LEMMA CellsJournalled ==
  ASSUME NEW v, NEW c, ViewsOK(v, c), NEW u, NEW t, NEW w, NEW b, ExtendedBy(u, v, c, t, w, b),
         NEW bk, Merged(bk, v, c), NEW f, f = Refs(v, c), NEW ins, ins = w \ v[t],
         NEW cells, MadeOf(cells, f, bk, ins)
  PROVE  CellsFor(cells, u, c)
<1>1. c \in Known(v) /\ u[c] = v[c]
  BY DEF ExtendedBy, ViewsOK
<1>2. ASSUME NEW k \in Keys, NEW a \in BOOLEAN, a <=> k \in u[c]
      PROVE  cells[k] = CellFor(Cardinality(Adding(u, c, k)), a)
  <2>1. PICK n \in Nat : n = Cardinality(Adding(v, c, k)) /\ (n # 0 <=> Adding(v, c, k) # {})
    BY AddingFinite
  <2>2. PICK cell : cell = [info |-> f[k], stored |-> k \in bk.nodes, flag |-> k \in bk.already_in]
    OBVIOUS
  <2>3. cell = CellFor(n, a)
    <3>1. \A p \in BOOLEAN : (p <=> k \in v[c]) =>
            [info |-> f[k], stored |-> k \in bk.nodes, flag |-> k \in bk.already_in]
              = CellFor(Cardinality(Adding(v, c, k)), p)
      BY CellIs
    <3>2. a <=> k \in v[c]
      BY <1>1, <1>2
    <3> QED
      BY <2>1, <2>2, <3>1, <3>2, Zenon
  <2>4. CASE k \in ins
    <3>1. Adding(u, c, k) = Adding(v, c, k) \cup {b} /\ b \notin Adding(v, c, k)
      BY <2>4 DEF ExtendedBy
    <3>2. Cardinality(Adding(u, c, k)) = n + 1
      BY <2>1, <3>1, AddingFinite, FS_AddElement
    <3>3. PICK in \in BOOLEAN : in = (k \in bk.nodes)
      <4>1. (k \in bk.nodes) \in BOOLEAN
        OBVIOUS
      <4> QED
        BY <4>1
    <3>4. n = 0 => in = a
      BY <1>1, <1>2, <2>1, <3>3 DEF Merged
    <3>5. \A p, q \in BOOLEAN : (n = 0 => q = p) => EarlyMerge!InsertKey(CellFor(n, p), q) = CellFor(n + 1, p)
      BY InsertionCounts
    <3>6. EarlyMerge!InsertKey(cell, in) = CellFor(n + 1, a)
      BY <2>3, <3>4, <3>5, Zenon
    <3>7. cells[k] = EarlyMerge!InsertKey(cell, in)
      BY <2>2, <2>4, <3>3, Zenon DEF InsertedCell, MadeOf
    <3> QED
      BY <3>2, <3>6, <3>7, Zenon
  <2>5. CASE k \notin ins
    <3>1. Adding(u, c, k) = Adding(v, c, k)
      BY <2>5 DEF ExtendedBy
    <3>2. cells[k] = cell
      BY <2>2, <2>5, Zenon DEF InsertedCell, MadeOf
    <3> QED
      BY <2>1, <2>3, <3>1, <3>2, Zenon
  <2> QED
    BY <2>4, <2>5
<1> QED
  BY <1>2 DEF CellsFor

LEMMA MergeJournals ==
  ASSUME EarlyMergeInv, NEW id \in Ids, EarlyMerge!JournalUnder(id)
  PROVE  EarlyMergeInv'
<1>1. PICK b : b = Append(tip, id)
  OBVIOUS
<1>2. PICK now : now = Era(b)
  OBVIOUS
<1>3. PICK ins : ins = {k \in DOMAIN memory : memory[k] > 0}
  OBVIOUS
<1>4. PICK r : r = Record(b, ins, {k \in DOMAIN memory : memory[k] < 0})
  OBVIOUS
<1>5. PICK l : l = Latest(latest_era, now)
  OBVIOUS
<1>6. PICK cells : cells = [k \in Keys |-> IF k \in ins THEN EarlyMerge!InsertKey(EarlyMerge!Cell(k), k \in db.nodes)
                                           ELSE EarlyMerge!Cell(k)]
  OBVIOUS
<1>7. PICK q : q = [batch.journal EXCEPT ![now][Len(StoredRecords(db.journal[now]))] = r]
  OBVIOUS
<1>8. /\ EarlyMerge!Inserted(memory) = ins
      /\ EarlyMerge!Record(b, EarlyMerge!Inserted(memory), EarlyMerge!Removed(memory)) = r
      /\ EarlyMerge!Latest(latest_era, now) = l
      /\ EarlyMerge!Era(b) = now
      /\ EarlyMerge!FreeIndex(now) = Len(StoredRecords(db.journal[now]))
  BY <1>1, <1>2, <1>3, <1>4, <1>5, SameInMerge DEF EarlyMerge!Inserted, EarlyMerge!Removed, EarlyMerge!FreeIndex
<1>9. /\ pc = "idle" /\ EarlyMerge!AddBlock(b) /\ EarlyMerge!Apply(cells, q, l)
      /\ memory' = EarlyMerge!EmptyMemory(Keys) /\ UNCHANGED db
      /\ pc' = IF \A k \in ins : EarlyMerge!NoStaleFlag(k) THEN "batch" ELSE "panic"
  BY <1>1, <1>6, <1>7, <1>8, Zenon DEF EarlyMerge!JournalUnder
<1>10. /\ b \in Blocks /\ views[b] = NoView /\ Cardinality(Known(views)) <= MaxBlocks
       /\ views' = [views EXCEPT ![b] = work] /\ tip' = b /\ UNCHANGED <<canon, work, stray, kept>>
       /\ memory' = EmptyMemory(Keys)
  BY <1>9, SameInMerge DEF EarlyMerge!AddBlock
<1>11. /\ ClientOK /\ BackingOK(batch, views, canon) /\ Merged(batch, views, canon) /\ InStep /\ db = batch
       /\ refs = Refs(views, canon) /\ latest_era = batch.latest
  BY <1>9 DEF EarlyMergeInv, InStep
<1>12. ViewsOK(views, canon)
  BY <1>11 DEF BackingOK
<1>13. ClientOK' /\ ExtendedBy(views', views, canon, tip, work, b)
  BY <1>1, <1>10, <1>11, <1>12, ClientJournals
<1>14. PICK v, u, t, w, c : v = views /\ u = views' /\ t = tip /\ w = work /\ c = canon
  OBVIOUS
<1>15. /\ ExtendedBy(u, v, c, t, w, b) /\ ViewsOK(v, c) /\ ViewsOK(u, c) /\ Known(u) = Known(v) \cup {b}
       /\ Len(b) = Len(t) + 1 /\ Era(b) \in Eras
       /\ RecordOf(u, b) = Record(b, w \ v[t], v[t] \ w)
  BY <1>12, <1>13, <1>14 DEF ExtendedBy
<1>16. ins = w \ v[t] /\ r = RecordOf(u, b) /\ t \in Blocks
  <2>1. PICK x \in SUBSET Keys, y \in SUBSET Keys : x = w /\ y = v[t] /\ memory = Change(x, y) /\ t \in Blocks
    BY <1>11, <1>12, <1>14, TipFacts
  <2>2. /\ {k \in DOMAIN Change(x, y) : Change(x, y)[k] > 0} = x \ y
        /\ {k \in DOMAIN Change(x, y) : Change(x, y)[k] < 0} = y \ x
    BY ChangeFacts
  <2> QED
    BY <1>3, <1>4, <1>15, <2>1, <2>2
<1>17. PICK V, nodes, old, flags, j :
        /\ j \in [Eras -> [Indexes -> V]]
        /\ batch = [nodes |-> nodes, journal |-> j, latest |-> old, already_in |-> flags]
        /\ batch.nodes = nodes /\ batch.journal = j /\ batch.latest = old
  BY <1>11, BackingIs
<1>18. JournalOK(j, v, c) /\ LatestOK(old, v)
  BY <1>11, <1>14, <1>17 DEF BackingOK
<1>19. PICK i \in Indexes : i = Len(StoredRecords(j[now])) /\ \A m \in Indexes : m < i <=> j[now][m] # NoRecord
  BY <1>2, <1>10, <1>14, <1>15, <1>18, IndexFree
<1>20. q = [j EXCEPT ![now] = [j[now] EXCEPT ![i] = r]]
  <2>1. q = [j EXCEPT ![now][i] = r]
    BY <1>7, <1>11, <1>17, <1>19
  <2> QED
    BY <1>2, <1>15, <1>17, <1>19, <2>1
<1>21. JournalOK(q, u, c)
  <2>1. q = Put(j, Era(b), i, RecordOf(u, b))
    BY <1>2, <1>16, <1>20 DEF Put
  <2>2. FirstFree(i, j, Era(b))
    BY <1>2, <1>19 DEF FirstFree
  <2>3. ViewsOK(v, c) /\ ExtendedBy(u, v, c, t, w, b) /\ i \in Indexes
    BY <1>15, <1>19
  <2> QED
    BY <1>18, <2>1, <2>2, <2>3, NewRecord
<1>22. LatestOK(l, u)
  <2>1. l = Latest(old, Era(b))
    BY <1>2, <1>5, <1>11, <1>17
  <2>2. Len(b) > 0 /\ b \in Blocks
    BY <1>10, <1>15, <1>16, BlockFacts
  <2> QED
    BY <1>15, <1>18, <2>1, <2>2, NewLatest
<1>23. CellsFor(cells, u, c)
  <2>1. PICK f, bk : f = refs /\ bk = batch
    OBVIOUS
  <2>2. \A k \in Keys : cells[k] = InsertedCell(f, bk, ins, k)
    BY <1>6, <1>11, <2>1, Zenon DEF EarlyMerge!Cell, InsertedCell
  <2>3. Merged(bk, v, c) /\ f = Refs(v, c)
    BY <1>11, <1>14, <2>1
  <2>4. ins = w \ v[t] /\ ViewsOK(v, c) /\ ExtendedBy(u, v, c, t, w, b)
    BY <1>15, <1>16
  <2>5. MadeOf(cells, f, bk, ins)
    BY <2>2 DEF MadeOf
  <2> QED
    BY <2>3, <2>4, <2>5, CellsJournalled
<1>24. /\ refs' = Refs(u, c) /\ latest_era' = l /\ Merged(batch', u, c)
       /\ batch' = [nodes |-> batch'.nodes, journal |-> q, latest |-> l, already_in |-> batch'.already_in]
       /\ batch'.journal = q /\ batch'.latest = l
  BY <1>9, <1>15, <1>23, CellsApplied
<1>25. BackingOK(batch', u, c)
  BY <1>15, <1>21, <1>22, <1>24 DEF BackingOK
<1>26. pc' = "batch"
  <2>1. \A k \in ins : EarlyMerge!NoStaleFlag(k)
    BY <1>11 DEF EarlyMerge!NoStaleFlag, Merged
  <2> QED
    BY <1>9, <2>1
<1>27. views' = u /\ canon' = c
  BY <1>10, <1>14
<1>28. BackingOK(db, kept.views, kept.canon)' /\ Merged(db, kept.views, kept.canon)'
  BY <1>9, <1>10 DEF EarlyMergeInv
<1> QED
  BY <1>13, <1>24, <1>25, <1>26, <1>27, <1>28 DEF EarlyMergeInv

LEMMA MergeMarks ==
  ASSUME EarlyMergeInv, NEW d \in Blocks, EarlyMerge!MarkCanonical(d)
  PROVE  EarlyMergeInv'
<1>1. PICK e : e = Era(d)
  OBVIOUS
<1>2. PICK s : s = StoredRecords(db.journal[e])
  OBVIOUS
<1>3. PICK cells : cells = [k \in Keys |-> Folded(EarlyMerge!Cell(k), k, s, d)]
  OBVIOUS
<1>4. PICK q : q = [batch.journal EXCEPT ![e] = [i \in Indexes |-> NoRecord]]
  OBVIOUS
<1>5. /\ EarlyMerge!Era(d) = e /\ EarlyMerge!StoredRecords(db.journal[e]) = s
      /\ EarlyMerge!WithoutEra(batch.journal, e) = q
  BY <1>1, <1>2, <1>4, SameInMerge DEF EarlyMerge!WithoutEra
<1>6. /\ EarlyMerge!CanonicalNext(d, EarlyMerge!Clean) /\ EarlyMerge!AddCanonical(d, {})
      /\ batch.journal[e] = db.journal[e]
      /\ EarlyMerge!Apply(cells, q, latest_era) /\ pc' = "marked" /\ UNCHANGED <<db, memory>>
  BY <1>3, <1>5, Zenon DEF EarlyMerge!MarkCanonical, EarlyMerge!EraWritten, Folded
<1>7. /\ d \in EarlyMerge!Live /\ Len(d) = Len(canon) + 1 /\ (EarlyMerge!Clean \/ EarlyMerge!Extends(tip, d))
  BY <1>6, Zenon DEF EarlyMerge!CanonicalNext
<1>8. /\ d \in Known(views) /\ Extends(d, canon) /\ (memory = EmptyMemory(Keys) \/ Extends(tip, d))
  BY <1>7, SameInMerge DEF EarlyMerge!Live, EarlyMerge!Clean
<1>9. /\ canon' = d /\ tip' = IF Extends(tip, d) THEN tip ELSE d
      /\ work' = IF Extends(tip, d) THEN work ELSE views[d]
      /\ UNCHANGED <<views, kept>>
  BY <1>6, SameInMerge, Zenon DEF EarlyMerge!AddCanonical
<1>10. ViewsOK(views, canon) /\ ClientOK /\ BackingOK(batch, views, canon) /\ Merged(batch, views, canon)
       /\ refs = Refs(views, canon) /\ latest_era = batch.latest
  BY DEF EarlyMergeInv, BackingOK
<1>11. ClientOK'
  BY <1>6, <1>8, <1>9, <1>10, ClientMarks
<1>12. PICK v, c, f, bk : v = views /\ c = canon /\ f = refs /\ bk = batch
  OBVIOUS
<1>13. /\ ViewsOK(v, c) /\ d \in Known(v) /\ Extends(d, c) /\ Len(d) = Len(c) + 1
       /\ JournalOK(bk.journal, v, c) /\ LatestOK(bk.latest, v) /\ Merged(bk, v, c) /\ f = Refs(v, c)
       /\ s = StoredRecords(bk.journal[Era(d)])
  BY <1>1, <1>2, <1>6, <1>7, <1>8, <1>10, <1>12 DEF BackingOK
<1>14. /\ ViewsOK(v, d) /\ Era(d) \in Eras /\ Above(v, d) = AboveBut(v, c, Era(d))
  BY <1>13, NextCanonical DEF AboveBut
<1>15. JournalOK(q, v, d)
  <2>1. PICK j : j = bk.journal
    OBVIOUS
  <2>2. Erased(q, j, Era(d)) /\ JournalOK(j, v, c)
    BY <1>1, <1>4, <1>12, <1>13, <2>1 DEF Erased
  <2> QED
    BY <1>13, <1>14, <2>2, EraErased
<1>16. CellsFor(cells, v, d)
  <2>1. ASSUME NEW k \in Keys, NEW z \in BOOLEAN, z <=> k \in v[d]
        PROVE  cells[k] = CellFor(Cardinality(Adding(v, d, k)), z)
    <3>1. PICK a \in BOOLEAN : a = (k \in v[c])
      <4>1. (k \in v[c]) \in BOOLEAN
        OBVIOUS
      <4> QED
        BY <4>1
    <3>2. a <=> k \in v[c]
      BY <3>1
    <3>3. \A p \in BOOLEAN : (p <=> k \in v[c]) =>
            [info |-> f[k], stored |-> k \in bk.nodes, flag |-> k \in bk.already_in]
              = CellFor(Cardinality(Adding(v, c, k)), p)
      BY <1>13, CellIs
    <3>4. EarlyMerge!Cell(k) = CellFor(Cardinality(Adding(v, c, k)), a)
      BY <1>12, <3>2, <3>3, Zenon DEF EarlyMerge!Cell
    <3>5. PICK j : j = bk.journal
      OBVIOUS
    <3>6. JournalOK(j, v, c) /\ s = StoredRecords(j[Era(d)])
      BY <1>13, <3>5
    <3>7. \A p, y \in BOOLEAN : (p <=> k \in v[c]) /\ (y <=> k \in v[d]) =>
            Folded(CellFor(Cardinality(Adding(v, c, k)), p), k, s, d) = CellFor(Cardinality(Adding(v, d, k)), y)
      BY <1>13, <3>6, EraApplied
    <3>8. cells[k] = Folded(EarlyMerge!Cell(k), k, s, d)
      BY <1>3, Zenon
    <3> QED
      BY <2>1, <3>2, <3>4, <3>7, <3>8, Zenon
  <2> QED
    BY <2>1 DEF CellsFor
<1>17. PICK l : l = latest_era
  OBVIOUS
<1>18. /\ refs' = Refs(v, d) /\ latest_era' = l /\ Merged(batch', v, d)
       /\ batch' = [nodes |-> batch'.nodes, journal |-> q, latest |-> l, already_in |-> batch'.already_in]
       /\ batch'.journal = q /\ batch'.latest = l
  BY <1>6, <1>14, <1>16, <1>17, CellsApplied
<1>19. LatestOK(l, v)
  BY <1>10, <1>12, <1>13, <1>17
<1>20. BackingOK(batch', v, d)
  BY <1>14, <1>15, <1>18, <1>19 DEF BackingOK
<1>21. views' = v /\ canon' = d
  BY <1>9, <1>12
<1>22. BackingOK(db, kept.views, kept.canon)' /\ Merged(db, kept.views, kept.canon)'
  BY <1>6, <1>9 DEF EarlyMergeInv
<1>23. pc' = "marked"
  BY <1>6
<1> QED
  BY <1>11, <1>18, <1>20, <1>21, <1>22, <1>23 DEF EarlyMergeInv

(* The counts, the flags and the nodes of EarlyMergeDB, in memory, in the batch
   and on disk, are those of the blocks that are journalled above the canonical
   one, at every step. *)
THEOREM EarlyMergeInductive == Spec => [](algorithm = "EarlyMerge" => EarlyMergeInv)
<1>1. Init => (algorithm = "EarlyMerge" => EarlyMergeInv)
  BY MergeStarts DEF Init
<1>2. ASSUME algorithm = "EarlyMerge" => EarlyMergeInv, [Next]_vars, algorithm' = "EarlyMerge"
      PROVE  EarlyMergeInv'
  <2>1. CASE UNCHANGED vars
    <3>1. EarlyMergeInv
      BY <1>2, <2>1 DEF vars
    <3> QED
      BY <2>1, <3>1, MergeStutters
  <2>2. CASE Next
    <3>1. NextEarlyMerge
      BY <1>2, <2>2 DEF Next, NextOverlayRecent, NextEarlyMerge, NextRefCounted, NextArchive,
         NotOverlayRecent, NotEarlyMerge, NotRefCounted, NotArchive
    <3>2. EarlyMergeInv
      BY <1>2, <3>1 DEF NextEarlyMerge
    <3> QED
      BY <3>1, <3>2, MergeInserts, MergeRemoves, MergeSwitches, MergeJournals, MergeMarks,
         MergeWrites, MergeInjects, MergeReopens DEF NextEarlyMerge
  <2> QED
    BY <1>2, <2>1, <2>2
<1>3. (algorithm = "EarlyMerge" => EarlyMergeInv) /\ [Next]_vars => (algorithm = "EarlyMerge" => EarlyMergeInv)'
  BY <1>2
<1> QED
  BY <1>1, <1>3, PTL DEF Spec

-------------------------------------------------------------------------------
(* EarlyMergeDB: what the invariant gives *)

LEMMA EarlyMergeReadable ==
  ASSUME EarlyMergeInv
  PROVE  EarlyMerge!LiveReadable
<1> SUFFICES ASSUME pc = "idle" PROVE EarlyMerge!NodesFound({k \in Keys : EarlyMerge!Found(k)})
  BY DEF EarlyMergeInv, EarlyMerge!LiveReadable
<1>1. ViewsOK(views, canon) /\ ClientOK /\ Merged(batch, views, canon) /\ db = batch
  BY DEF EarlyMergeInv, BackingOK, InStep
<1>2. ASSUME NEW b \in Known(views), Extends(b, canon), NEW k \in views[b]
      PROVE  k \in Keys /\ EarlyMerge!Found(k)
  <2>1. PICK v, c : v = views /\ c = canon
    OBVIOUS
  <2>2. ViewsOK(v, c) /\ b \in Known(v) /\ Extends(b, c) /\ k \in v[b]
    BY <1>1, <1>2, <2>1
  <2>3. k \in Keys /\ (k \in v[c] \/ Adding(v, c, k) # {})
    BY <2>2, KnownFacts, Covered
  <2>4. k \in db.nodes
    BY <1>1, <2>1, <2>3 DEF Merged
  <2> QED
    BY <2>3, <2>4 DEF EarlyMerge!Found
<1>3. ASSUME NEW k \in work
      PROVE  k \in Keys /\ EarlyMerge!Found(k)
  <2>1. k \in Keys /\ tip \in Known(views) /\ Extends(tip, canon) /\ memory = Change(work, views[tip])
    BY <1>1 DEF ClientOK
  <2>2. CASE k \in views[tip]
    BY <1>2, <2>1, <2>2
  <2>3. CASE k \notin views[tip]
    <3>1. memory[k] > 0
      BY <2>1, <2>3 DEF Change
    <3> QED
      BY <2>1, <3>1 DEF EarlyMerge!Found, EarlyMerge!Contains
  <2> QED
    BY <2>2, <2>3
<1>4. \A b \in EarlyMerge!Live : b \in Known(views) /\ Extends(b, canon)
  BY SameInMerge DEF EarlyMerge!Live
<1> QED
  BY <1>2, <1>3, <1>4 DEF EarlyMerge!NodesFound

LEMMA EarlyMergeReconstructs ==
  ASSUME EarlyMergeInv
  PROVE  EarlyMerge!RefsReconstruct
<1> SUFFICES ASSUME pc = "idle" PROVE EarlyMerge!ReadRefs(db) = refs /\ db.latest = latest_era
  BY DEF EarlyMerge!RefsReconstruct
<1>1. PICK b, v, c : b = db /\ v = views /\ c = canon
  OBVIOUS
<1>2. BackingOK(b, v, c) /\ Merged(b, v, c) /\ refs = Refs(v, c) /\ latest_era = b.latest
  BY <1>1 DEF EarlyMergeInv, InStep
<1> QED
  BY <1>1, <1>2, ReadRefsIs

LEMMA EarlyMergePruned ==
  ASSUME EarlyMergeInv
  PROVE  EarlyMerge!BackingExact
<1> SUFFICES ASSUME pc = "idle"
             PROVE  db.nodes = views[canon] \cup {k \in Keys : refs[k] # EarlyMerge!Untracked}
  BY DEF EarlyMerge!BackingExact
<1>1. PICK b, v, c : b = db /\ v = views /\ c = canon
  OBVIOUS
<1>2. ViewsOK(v, c) /\ Merged(b, v, c) /\ refs = Refs(v, c)
  BY <1>1 DEF EarlyMergeInv, InStep, BackingOK
<1>3. v[c] \in SUBSET Keys
  BY <1>2, KnownFacts DEF ViewsOK
<1>4. ASSUME NEW k \in Keys PROVE refs[k] # EarlyMerge!Untracked <=> Adding(v, c, k) # {}
  <2>1. PICK n \in Nat : n = Cardinality(Adding(v, c, k)) /\ (n # 0 <=> Adding(v, c, k) # {})
    BY <1>2, AddingFinite
  <2>2. refs[k] = Info(n, k \in v[c])
    BY <1>2, <2>1, Zenon DEF Refs
  <2>3. n # 0 => EarlyMerge!Tracked(n, k \in v[c]) # EarlyMerge!Untracked
    <3>1. EarlyMerge!Tracked(n, k \in v[c]).queue_refs = n /\ EarlyMerge!Untracked.queue_refs = 0
      BY Zenon DEF EarlyMerge!Tracked, EarlyMerge!Untracked
    <3> QED
      BY <3>1, Zenon
  <2> QED
    BY <2>1, <2>2, <2>3, Zenon DEF Info
<1>5. b.nodes = v[c] \cup {k \in Keys : refs[k] # EarlyMerge!Untracked}
  BY <1>2, <1>3, <1>4 DEF Merged
<1> QED
  BY <1>1, <1>5

LEMMA EarlyMergeNeverFails ==
  ASSUME EarlyMergeInv
  PROVE  EarlyMerge!AssertionsHold
<1>1. pc # "panic"
  BY DEF EarlyMergeInv
<1>2. ASSUME pc = "idle", Known(views) = {Genesis} PROVE EarlyMerge!Injectable
  <2>1. /\ ViewsOK(views, canon) /\ ClientOK /\ Merged(db, views, canon)
    BY <1>2 DEF EarlyMergeInv, InStep, BackingOK
  <2>2. tip = Genesis /\ canon = Genesis
    BY <1>2, <2>1 DEF ViewsOK, ClientOK
  <2>3. PICK x \in SUBSET Keys, y \in SUBSET Keys : x = work /\ y = views[canon] /\ memory = Change(x, y)
    BY <2>1, <2>2, TipFacts
  <2>4. /\ {k \in DOMAIN Change(x, y) : Change(x, y)[k] > 0} = x \ y
        /\ {k \in DOMAIN Change(x, y) : Change(x, y)[k] < 0} = y \ x
    BY ChangeFacts
  <2>5. \A k : Adding(views, canon, k) = {}
    BY <1>2, <2>2, GenesisIsBlock DEF Adding, Above
  <2>6. db.nodes = y
    BY <2>1, <2>3, <2>5 DEF Merged
  <2>7. EarlyMerge!Inserted(memory) = x \ y /\ EarlyMerge!Removed(memory) = y \ x
    BY <2>3, <2>4 DEF EarlyMerge!Inserted, EarlyMerge!Removed
  <2> QED
    BY <2>6, <2>7 DEF EarlyMerge!Injectable
<1> QED
  BY <1>1, <1>2, SameInMerge DEF EarlyMerge!AssertionsHold

-------------------------------------------------------------------------------
(* RefCountedDB *)

(* Its records count how often each node was inserted and removed; the journal
   with the record that another database would have for each block. *)
CountedRecords == [id : Blocks, insertions : [Keys -> Nat], deletions : [Keys -> Nat]]
Plain(j, v) ==
  [e \in Eras |-> [i \in Indexes |-> IF j[e][i] = NoRecord THEN NoRecord ELSE RecordOf(v, j[e][i].id)]]

(* The insertions less the removals are the change of the block's state. *)
Net(r, v) == \A k \in Keys : r.insertions[k] - r.deletions[k] = Change(v[r.id], v[Parent(r.id)])[k]

CountedOK(j, v, c) ==
  /\ j \in [Eras -> [Indexes -> CountedRecords \cup {NoRecord}]]
  /\ JournalOK(Plain(j, v), v, c)
  /\ \A e \in Eras, i \in Indexes : j[e][i] # NoRecord => j[e][i].id \in Above(v, c) /\ Net(j[e][i], v)

(* The insertions of a node that the journal lists. *)
Positions == Eras \X Indexes
ListedAt(j, k) == [p \in Positions |-> IF j[p[1]][p[2]] = NoRecord THEN 0 ELSE j[p[1]][p[2]].insertions[k]]
Listed(j, k) == SumOver(ListedAt(j, k), Positions)

Has(v, c, k) == IF k \in v[c] THEN 1 ELSE 0

Building ==
  /\ tip \in Known(views) /\ Extends(tip, canon)
  /\ work \subseteq Keys
  /\ inserts \in [Keys -> Nat] /\ removes \in [Keys -> Nat]
  /\ \A k \in Keys : inserts[k] - removes[k] = Change(work, views[tip])[k]
  /\ kept = [views |-> kept.views, canon |-> kept.canon, stray |-> kept.stray]

(* Each node is counted as often as it must be. *)
Balanced(n, m, v, c, i, j) == \A k \in Keys : n[k] + m[k] = Has(v, c, k) + i[k] + Listed(j, k)

RefCountedInv ==
  /\ pc \in {"idle", "batch", "marked"}
  /\ Building
  /\ ViewsOK(views, canon) /\ CountedOK(batch.journal, views, canon)
  /\ batch = [nodes |-> batch.nodes, journal |-> batch.journal, latest |-> batch.latest,
              already_in |-> batch.already_in]
  /\ batch.nodes \in [Keys -> Int] /\ memory \in [Keys -> Int]
  /\ Balanced(batch.nodes, memory, views, canon, inserts, batch.journal)
  /\ pc # "marked" => db.nodes = batch.nodes
  /\ pc = "idle" => InStep

LEMMA PositionsFinite == IsFiniteSet(Positions)
<1>1. IsFiniteSet(Eras) /\ IsFiniteSet(Indexes)
  <2>1. 0 \in Int /\ MaxEra - 1 \in Int /\ MaxBlocks - 1 \in Int
    BY ClientConstants
  <2> QED
    BY <2>1, FS_Interval DEF Eras, Indexes
<1> QED
  BY <1>1, FS_Product DEF Positions

LEMMA CountedFacts ==
  ASSUME NEW v, NEW c, ViewsOK(v, c), NEW j, CountedOK(j, v, c), NEW e \in Eras, NEW i \in Indexes,
         j[e][i] # NoRecord
  PROVE  /\ j[e][i].id \in Above(v, c) /\ Era(j[e][i].id) = e
         /\ j[e][i] \in CountedRecords
         /\ j[e][i].insertions \in [Keys -> Nat] /\ j[e][i].deletions \in [Keys -> Nat]
         /\ Net(j[e][i], v)
<1>1. PICK x \in Above(v, c) : x = j[e][i].id
  BY DEF CountedOK
<1>2. Plain(j, v)[e][i] = RecordOf(v, x)
  BY <1>1 DEF Plain
<1>3. j[e][i] \in CountedRecords /\ Net(j[e][i], v)
  BY DEF CountedOK
<1>4. Era(x) = e
  <2>1. JournalOK(Plain(j, v), v, c)
    BY DEF CountedOK
  <2>2. RecordOf(v, x) # NoRecord /\ RecordOf(v, x).id = x
    BY AboveFacts
  <2> QED
    BY <1>2, <2>1, <2>2 DEF JournalOK
<1> QED
  BY <1>1, <1>3, <1>4 DEF CountedRecords

(* Two records of one block are at one place, and every block has one. *)
LEMMA CountedOnce ==
  ASSUME NEW v, NEW c, ViewsOK(v, c), NEW j, CountedOK(j, v, c), NEW e \in Eras,
         NEW i \in Indexes, NEW n \in Indexes, j[e][i] # NoRecord, j[e][n] # NoRecord,
         j[e][i].id = j[e][n].id
  PROVE  i = n
<1>1. PICK x \in Above(v, c) : x = j[e][i].id
  BY CountedFacts
<1>2. PICK p : p = Plain(j, v)
  OBVIOUS
<1>3. p[e][i] = RecordOf(v, x) /\ p[e][n] = RecordOf(v, x)
  BY <1>1, <1>2 DEF Plain
<1>4. RecordOf(v, x) # NoRecord
  BY AboveFacts
<1>5. JournalOK(p, v, c)
  BY <1>2 DEF CountedOK
<1> QED
  BY <1>3, <1>4, <1>5 DEF JournalOK

LEMMA CountedBlock ==
  ASSUME NEW v, NEW c, ViewsOK(v, c), NEW j, CountedOK(j, v, c), NEW b \in Above(v, c)
  PROVE  \E i \in Indexes : j[Era(b)][i] # NoRecord /\ j[Era(b)][i].id = b
<1>1. PICK e \in Eras : e = Era(b) /\ RecordOf(v, b) # NoRecord /\ RecordOf(v, b).id = b
  BY AboveFacts
<1>2. PICK p : p = Plain(j, v)
  OBVIOUS
<1>3. JournalOK(p, v, c)
  BY <1>2 DEF CountedOK
<1>4. PICK i \in Indexes : p[e][i] = RecordOf(v, b)
  BY <1>1, <1>3 DEF JournalOK
<1>5. p[e][i] = IF j[e][i] = NoRecord THEN NoRecord ELSE RecordOf(v, j[e][i].id)
  BY <1>2 DEF Plain
<1>6. j[e][i] # NoRecord
  BY <1>1, <1>4, <1>5
<1>7. j[e][i].id \in Above(v, c)
  BY <1>6, CountedFacts
<1>8. RecordOf(v, j[e][i].id).id = j[e][i].id
  BY <1>7, AboveFacts
<1> QED
  BY <1>1, <1>4, <1>5, <1>6, <1>8

(* The records of an era are those before its first free index. *)
EraLength(n, r) ==
  /\ \A i \in Indexes : i < n <=> r[i] # NoRecord
  /\ StoredRecords(r) = [i \in 1..n |-> r[i - 1]]
  /\ Len(StoredRecords(r)) = n /\ n \in Nat

LEMMA CountedStored ==
  ASSUME NEW v, NEW c, ViewsOK(v, c), NEW j, CountedOK(j, v, c), NEW e \in Eras
  PROVE  \E n \in 0..MaxBlocks : EraLength(n, j[e])
<1>1. PICK p : p = Plain(j, v)
  OBVIOUS
<1>2. JournalOK(p, v, c)
  BY <1>1 DEF CountedOK
<1>3. \A i \in Indexes : j[e][i] # NoRecord <=> p[e][i] # NoRecord
  <2> SUFFICES ASSUME NEW i \in Indexes PROVE j[e][i] # NoRecord <=> p[e][i] # NoRecord
    OBVIOUS
  <2>1. p[e][i] = IF j[e][i] = NoRecord THEN NoRecord ELSE RecordOf(v, j[e][i].id)
    BY <1>1 DEF Plain
  <2>2. j[e][i] # NoRecord => RecordOf(v, j[e][i].id) # NoRecord
    <3>1. j[e][i] # NoRecord => j[e][i].id \in Above(v, c)
      BY CountedFacts
    <3>2. \A x \in Above(v, c) : RecordOf(v, x) # NoRecord
      BY AboveFacts
    <3> QED
      BY <3>1, <3>2
  <2> QED
    BY <2>1, <2>2
<1>4. \A i, n \in Indexes : p[e][i] # NoRecord /\ n < i => p[e][n] # NoRecord
  BY <1>2 DEF JournalOK
<1>5. \A i, n \in Indexes : j[e][i] # NoRecord /\ n < i => j[e][n] # NoRecord
  BY <1>3, <1>4
<1> QED
  BY <1>5, StoredFacts DEF EraLength

LEMMA ListedType ==
  ASSUME NEW v, NEW c, ViewsOK(v, c), NEW j, CountedOK(j, v, c), NEW k \in Keys
  PROVE  /\ ListedAt(j, k) \in [Positions -> Nat]
         /\ Listed(j, k) \in Nat /\ \A p \in Positions : ListedAt(j, k)[p] <= Listed(j, k)
<1>1. ListedAt(j, k) \in [Positions -> Nat]
  <2>1. ASSUME NEW p \in Positions, j[p[1]][p[2]] # NoRecord
        PROVE  j[p[1]][p[2]].insertions[k] \in Nat
    <3>1. PICK e \in Eras, i \in Indexes : p[1] = e /\ p[2] = i
      BY DEF Positions
    <3>2. j[e][i].insertions \in [Keys -> Nat]
      BY <2>1, <3>1, CountedFacts
    <3> QED
      BY <3>1, <3>2
  <2> QED
    BY <2>1 DEF ListedAt
<1>2. PICK g \in [Positions -> Nat] : g = ListedAt(j, k)
  BY <1>1
<1> QED
  BY <1>1, <1>2, PositionsFinite, SumOfNaturals DEF Listed

(* A block is journalled: its record is listed too. *)
LEMMA CountedAppended ==
  ASSUME NEW v, NEW c, ViewsOK(v, c), NEW j, CountedOK(j, v, c),
         NEW u, NEW t, NEW w, NEW b, ExtendedBy(u, v, c, t, w, b),
         NEW n \in Indexes, FirstFree(n, j, Era(b)),
         NEW r \in CountedRecords, r.id = b, Net(r, u),
         NEW q, q = Put(j, Era(b), n, r)
  PROVE  CountedOK(q, u, c) /\ \A k \in Keys : Listed(q, k) = Listed(j, k) + r.insertions[k]
<1>1. PICK now \in Eras : now = Era(b)
  BY DEF ExtendedBy
<1>2. r # NoRecord /\ r.insertions \in [Keys -> Nat] /\ b \in Above(u, c) /\ b \notin Above(v, c)
  BY JournalConstants DEF CountedRecords, ExtendedBy, Above
<1>3. PICK C : C = CountedRecords \cup {NoRecord}
  OBVIOUS
<1>4. j \in [Eras -> [Indexes -> C]] /\ r \in C
  BY <1>3 DEF CountedOK
<1>5. q = [j EXCEPT ![now] = [j[now] EXCEPT ![n] = r]]
  BY <1>1 DEF Put
<1>6. /\ q \in [Eras -> [Indexes -> C]]
      /\ \A e \in Eras : \A i \in Indexes : q[e][i] = IF e = now /\ i = n THEN r ELSE j[e][i]
  BY <1>4, <1>5
<1>7. j[now][n] = NoRecord
  <2>1. ~(n < n)
    BY ClientConstants DEF Indexes
  <2> QED
    BY <1>1, <2>1 DEF FirstFree
<1>8. ASSUME NEW a \in Above(v, c)
      PROVE  a # b /\ a \in Above(u, c) /\ RecordOf(u, a) = RecordOf(v, a) /\ u[a] = v[a] /\ u[Parent(a)] = v[Parent(a)]
  <2>1. a \in Known(v) /\ Parent(a) \in Known(v)
    BY AboveFacts
  <2> QED
    BY <1>2, <2>1 DEF ExtendedBy
<1>9. PICK p, y : p = Plain(j, v) /\ y = Plain(q, u)
  OBVIOUS
<1>10. JournalOK(p, v, c)
  BY <1>9 DEF CountedOK
<1>11. ASSUME NEW e \in Eras, NEW i \in Indexes
       PROVE  /\ p[e][i] = IF j[e][i] = NoRecord THEN NoRecord ELSE RecordOf(v, j[e][i].id)
              /\ y[e][i] = IF e = now /\ i = n THEN RecordOf(u, b) ELSE p[e][i]
              /\ p[e][i] = NoRecord <=> j[e][i] = NoRecord
  <2>1. /\ p[e][i] = IF j[e][i] = NoRecord THEN NoRecord ELSE RecordOf(v, j[e][i].id)
        /\ y[e][i] = IF q[e][i] = NoRecord THEN NoRecord ELSE RecordOf(u, q[e][i].id)
    BY <1>9 DEF Plain
  <2>2. j[e][i] # NoRecord => j[e][i].id \in Above(v, c)
    BY CountedFacts
  <2>3. \A x \in Above(v, c) : RecordOf(v, x) # NoRecord
    BY AboveFacts
  <2>4. CASE e = now /\ i = n
    BY <1>2, <1>6, <2>1, <2>2, <2>3, <2>4
  <2>5. CASE ~(e = now /\ i = n)
    <3>1. q[e][i] = j[e][i]
      BY <1>6, <2>5
    <3> QED
      BY <1>8, <2>1, <2>2, <2>3, <2>5, <3>1
  <2> QED
    BY <2>4, <2>5
<1>12. y = Put(p, now, n, RecordOf(u, b))
  <2>1. /\ y = [e \in Eras |-> [i \in Indexes |-> y[e][i]]]
        /\ p = [e \in Eras |-> [i \in Indexes |-> p[e][i]]]
    BY <1>9 DEF Plain
  <2>2. y[now] = [p[now] EXCEPT ![n] = RecordOf(u, b)]
    <3>1. p[now] = [i \in Indexes |-> p[now][i]] /\ y[now] = [i \in Indexes |-> y[now][i]]
      BY <2>1
    <3>2. [p[now] EXCEPT ![n] = RecordOf(u, b)] = [i \in Indexes |-> IF i = n THEN RecordOf(u, b) ELSE p[now][i]]
      BY <3>1
    <3>3. \A i \in Indexes : y[now][i] = IF i = n THEN RecordOf(u, b) ELSE p[now][i]
      BY <1>11
    <3> QED
      BY <3>1, <3>2, <3>3
  <2>3. \A e \in Eras : e # now => y[e] = p[e]
    <3> SUFFICES ASSUME NEW e \in Eras, e # now PROVE y[e] = p[e]
      OBVIOUS
    <3>1. y[e] = [i \in Indexes |-> y[e][i]] /\ p[e] = [i \in Indexes |-> p[e][i]]
      BY <2>1
    <3>2. \A i \in Indexes : y[e][i] = p[e][i]
      BY <1>11
    <3> QED
      BY <3>1, <3>2
  <2>4. Put(p, now, n, RecordOf(u, b)) = [e \in Eras |-> IF e = now THEN [p[now] EXCEPT ![n] = RecordOf(u, b)] ELSE p[e]]
    BY <2>1 DEF Put
  <2>5. y = [e \in Eras |-> y[e]]
    BY <2>1
  <2> QED
    BY <2>2, <2>3, <2>4, <2>5
<1>13. JournalOK(y, u, c)
  <2>1. FirstFree(n, p, Era(b))
    BY <1>1, <1>11 DEF FirstFree
  <2>2. y = Put(p, Era(b), n, RecordOf(u, b))
    BY <1>1, <1>12
  <2> QED
    BY <1>10, <2>1, <2>2, NewRecord
<1>14. ASSUME NEW e \in Eras, NEW i \in Indexes, q[e][i] # NoRecord
       PROVE  q[e][i].id \in Above(u, c) /\ Net(q[e][i], u)
  <2>1. CASE e = now /\ i = n
    BY <1>2, <1>6, <2>1
  <2>2. CASE ~(e = now /\ i = n)
    <3>1. PICK s : s = j[e][i] /\ s = q[e][i]
      BY <1>6, <2>2
    <3>2. s.id \in Above(v, c) /\ Net(s, v)
      <4>1. j[e][i] # NoRecord
        BY <1>14, <3>1
      <4>2. j[e][i].id \in Above(v, c) /\ Net(j[e][i], v)
        BY <4>1, CountedFacts
      <4> QED
        BY <3>1, <4>2, Zenon
    <3>3. u[s.id] = v[s.id] /\ u[Parent(s.id)] = v[Parent(s.id)] /\ s.id \in Above(u, c)
      BY <1>8, <3>2
    <3> QED
      BY <3>1, <3>2, <3>3 DEF Net
  <2> QED
    BY <2>1, <2>2
<1>15. CountedOK(q, u, c)
  BY <1>3, <1>6, <1>9, <1>13, <1>14 DEF CountedOK
<1>16. ASSUME NEW k \in Keys PROVE Listed(q, k) = Listed(j, k) + r.insertions[k]
  <2>1. PICK g, h, x : g = ListedAt(q, k) /\ h = ListedAt(j, k) /\ x = <<now, n>>
    OBVIOUS
  <2>2. ViewsOK(u, c)
    BY DEF ExtendedBy
  <2>3. g \in [Positions -> Nat] /\ h \in [Positions -> Nat] /\ x \in Positions
    BY <1>15, <2>1, <2>2, ListedType DEF Positions
  <2>4. g \in [Positions -> Int] /\ h \in [Positions -> Int]
    BY <2>3
  <2>5. ASSUME NEW e \in Eras, NEW i \in Indexes
        PROVE  /\ g[<<e, i>>] = IF q[e][i] = NoRecord THEN 0 ELSE q[e][i].insertions[k]
               /\ h[<<e, i>>] = IF j[e][i] = NoRecord THEN 0 ELSE j[e][i].insertions[k]
    <3>1. <<e, i>> \in Positions
      BY DEF Positions
    <3> QED
      BY <2>1, <3>1 DEF ListedAt
  <2>6. \A y1 \in Positions : y1 # x => g[y1] = h[y1]
    <3> SUFFICES ASSUME NEW z \in Positions, z # x PROVE g[z] = h[z]
      OBVIOUS
    <3>1. PICK e \in Eras, i \in Indexes : z = <<e, i>>
      BY DEF Positions
    <3>2. ~(e = now /\ i = n)
      BY <2>1, <3>1
    <3> QED
      BY <1>6, <2>5, <3>1, <3>2
  <2>7. g[x] = r.insertions[k] /\ h[x] = 0 /\ r.insertions[k] \in Nat
    BY <1>2, <1>6, <1>7, <2>1, <2>5
  <2>8. SumOver(g, Positions) = SumOver(h, Positions) + (g[x] - h[x])
    <3>1. SameBut(x, g, h, Positions)
      BY <2>6 DEF SameBut
    <3> QED
      BY <2>3, <2>4, <3>1, PositionsFinite, SumOneChanged
  <2>9. Listed(q, k) = SumOver(g, Positions) /\ Listed(j, k) = SumOver(h, Positions)
    BY <2>1 DEF Listed
  <2> QED
    BY <2>7, <2>8, <2>9
<1> QED
  BY <1>15, <1>16

(* An era is erased. *)
LEMMA CountedErased ==
  ASSUME NEW v, NEW c, ViewsOK(v, c), NEW j, CountedOK(j, v, c), NEW d, ViewsOK(v, d),
         NEW e \in Eras, Above(v, d) = AboveBut(v, c, e), NEW q, Erased(q, j, e)
  PROVE  CountedOK(q, v, d)
<1>1. PICK C : C = CountedRecords \cup {NoRecord}
  OBVIOUS
<1>2. j \in [Eras -> [Indexes -> C]] /\ NoRecord \in C
  BY <1>1 DEF CountedOK
<1>3. q = [f \in Eras |-> IF f = e THEN [i \in Indexes |-> NoRecord] ELSE j[f]]
  BY <1>2 DEF Erased
<1>4. q \in [Eras -> [Indexes -> C]]
  <2>1. [i \in Indexes |-> NoRecord] \in [Indexes -> C]
    BY <1>2
  <2> QED
    BY <1>2, <1>3, <2>1
<1>5. \A f \in Eras : \A i \in Indexes : q[f][i] = IF f = e THEN NoRecord ELSE j[f][i]
  BY <1>3
<1>6. PICK p, y : p = Plain(j, v) /\ y = Plain(q, v)
  OBVIOUS
<1>7. y = [p EXCEPT ![e] = [i \in Indexes |-> NoRecord]]
  <2>1. ASSUME NEW f \in Eras
        PROVE  y[f] = IF f = e THEN [i \in Indexes |-> NoRecord] ELSE p[f]
    <3>1. /\ y[f] = [i \in Indexes |-> IF q[f][i] = NoRecord THEN NoRecord ELSE RecordOf(v, q[f][i].id)]
          /\ p[f] = [i \in Indexes |-> IF j[f][i] = NoRecord THEN NoRecord ELSE RecordOf(v, j[f][i].id)]
      BY <1>6 DEF Plain
    <3> QED
      BY <1>5, <3>1
  <2>2. y = [f \in Eras |-> y[f]] /\ p = [f \in Eras |-> p[f]]
    BY <1>6 DEF Plain
  <2>3. [p EXCEPT ![e] = [i \in Indexes |-> NoRecord]] = [f \in Eras |-> IF f = e THEN [i \in Indexes |-> NoRecord] ELSE p[f]]
    BY <2>2
  <2> QED
    BY <2>1, <2>2, <2>3
<1>8. JournalOK(y, v, d)
  <2>1. JournalOK(p, v, c) /\ Erased(y, p, e)
    BY <1>6, <1>7 DEF CountedOK, Erased
  <2>2. \A z : Erased(z, p, e) => JournalOK(z, v, d)
    BY <2>1, EraErased
  <2> QED
    BY <2>1, <2>2
<1>9. ASSUME NEW f \in Eras, NEW i \in Indexes, q[f][i] # NoRecord
      PROVE  q[f][i].id \in Above(v, d) /\ Net(q[f][i], v)
  <2>1. f # e /\ q[f][i] = j[f][i]
    BY <1>5, <1>9
  <2>2. j[f][i].id \in Above(v, c) /\ Era(j[f][i].id) = f /\ Net(j[f][i], v)
    <3>1. j[f][i] # NoRecord
      BY <1>9, <2>1
    <3>2. j[f][i].id \in Above(v, c) /\ Net(j[f][i], v)
      BY <3>1, CountedFacts
    <3>3. Era(j[f][i].id) = f
      BY <3>1, CountedFacts
    <3> QED
      BY <3>2, <3>3
  <2> QED
    BY <2>1, <2>2 DEF AboveBut
<1> QED
  BY <1>1, <1>4, <1>6, <1>8, <1>9 DEF CountedOK

(* What the records of an era take back of node k when block d of it becomes
   canonical: its removals, and the insertions of the others. *)
UndoneIn(d, k, R) == SumOver([r \in R |-> (IF r.id = d THEN r.deletions ELSE r.insertions)[k]], R)

(* The journal loses what the records inserted; that and the change of the
   canonical state is what they take back. *)
LEMMA EraListed ==
  ASSUME NEW v, NEW c, ViewsOK(v, c), NEW j, CountedOK(j, v, c),
         NEW d \in Known(v), Extends(d, c), Len(d) = Len(c) + 1,
         NEW q, Erased(q, j, Era(d)), NEW k \in Keys,
         NEW R, R = RecordsIn(StoredRecords(j[Era(d)]))
  PROVE  /\ IsFiniteSet(R) /\ \A r \in R : r.insertions \in [Keys -> Nat] /\ r.deletions \in [Keys -> Nat]
         /\ UndoneIn(d, k, R) \in Int /\ Listed(q, k) \in Nat
         /\ UndoneIn(d, k, R) = (Listed(j, k) - Listed(q, k)) + (Has(v, c, k) - Has(v, d, k))
<1>1. PICK e \in Eras : e = Era(d)
  BY NextCanonical
<1>2. /\ ViewsOK(v, d) /\ d \in Above(v, c) /\ Parent(d) = c
      /\ Above(v, d) = AboveBut(v, c, e)
  BY <1>1, NextCanonical DEF AboveBut
<1>3. CountedOK(q, v, d)
  BY <1>1, <1>2, CountedErased
<1>4. PICK n \in 0..MaxBlocks : EraLength(n, j[e])
  BY CountedStored
<1>5. /\ \A i \in Indexes : i < n <=> j[e][i] # NoRecord
      /\ StoredRecords(j[e]) = [i \in 1..n |-> j[e][i - 1]] /\ n \in Nat
  BY <1>4 DEF EraLength
<1>6. PICK I : I = {i \in Indexes : j[e][i] # NoRecord} /\ IsFiniteSet(I) /\ R = {j[e][i] : i \in I}
  <2>1. PICK s : s = StoredRecords(j[e]) /\ DOMAIN s = 1..n /\ (\A i \in 1..n : s[i] = j[e][i - 1]) /\ R = RecordsIn(s)
    BY <1>1, <1>5
  <2>2. PICK I : I = {i \in Indexes : j[e][i] # NoRecord}
    OBVIOUS
  <2>3. ASSUME NEW x \in R PROVE \E i \in I : x = j[e][i]
    <3>1. PICK m \in 1..n : x = j[e][m - 1]
      BY <2>1 DEF RecordsIn
    <3>2. m - 1 \in Indexes /\ m - 1 < n
      BY <1>5, ClientConstants DEF Indexes
    <3> QED
      BY <1>5, <2>2, <3>1, <3>2
  <2>4. ASSUME NEW i \in I PROVE j[e][i] \in R
    <3>1. i \in Indexes /\ i < n
      BY <1>5, <2>2
    <3>2. i + 1 \in 1..n /\ (i + 1) - 1 = i
      BY <1>5, <3>1 DEF Indexes
    <3> QED
      BY <2>1, <3>2 DEF RecordsIn
  <2>5. IsFiniteSet(I)
    <3>1. IsFiniteSet(Indexes)
      BY ClientConstants, FS_Interval DEF Indexes
    <3> QED
      BY <2>2, <3>1, FS_Subset
  <2> QED
    BY <2>2, <2>3, <2>4, <2>5
<1>7. ASSUME NEW i \in I
      PROVE  /\ i \in Indexes /\ j[e][i].id \in Above(v, c) /\ j[e][i] \in CountedRecords /\ Net(j[e][i], v)
             /\ j[e][i].insertions \in [Keys -> Nat] /\ j[e][i].deletions \in [Keys -> Nat]
  BY <1>6, CountedFacts
<1>8. ASSUME NEW i \in I, NEW m \in I, j[e][i].id = j[e][m].id PROVE i = m
  BY <1>6, <1>8, CountedOnce
<1>9. IsFiniteSet(R) /\ \A r \in R : r.insertions \in [Keys -> Nat] /\ r.deletions \in [Keys -> Nat]
  <2>1. IsFiniteSet(R)
    <3>1. PICK F : F = [i \in I |-> j[e][i]]
      OBVIOUS
    <3>2. F \in Surjection(I, R)
      BY <1>6, <3>1 DEF Surjection
    <3> QED
      BY <1>6, <3>2, FS_Surjection
  <2> QED
    BY <1>6, <1>7, <2>1
<1>10. PICK h \in [R -> Int] : \A r \in R : h[r] = r.insertions[k]
  <2>1. \A r \in R : r.insertions[k] \in Int
    BY <1>9
  <2>2. [r \in R |-> r.insertions[k]] \in [R -> Int]
    BY <2>1
  <2> QED
    BY <2>2
<1>11. PICK f \in [R -> Positions] : \A r \in R : \E i \in I : r = j[e][i] /\ f[r] = <<e, i>>
  <2>1. PICK f : f = [r \in R |-> <<e, CHOOSE i \in I : r = j[e][i]>>]
    OBVIOUS
  <2>2. ASSUME NEW r \in R PROVE f[r] \in Positions /\ \E i \in I : r = j[e][i] /\ f[r] = <<e, i>>
    <3>1. PICK m : m = CHOOSE i \in I : r = j[e][i]
      OBVIOUS
    <3>2. m \in I /\ r = j[e][m]
      BY <1>6, <3>1
    <3>3. f[r] = <<e, m>> /\ m \in Indexes
      BY <1>6, <2>1, <3>1, <3>2
    <3> QED
      BY <3>2, <3>3 DEF Positions
  <2>3. f \in [R -> Positions]
    BY <2>1, <2>2
  <2> QED
    BY <2>2, <2>3
<1>12. PICK g \in [Positions -> Int], x \in [Positions -> Int] : g = ListedAt(j, k) /\ x = ListedAt(q, k)
  <2>1. ListedAt(j, k) \in [Positions -> Nat] /\ ListedAt(q, k) \in [Positions -> Nat]
    BY <1>2, <1>3, ListedType
  <2> QED
    BY <2>1
<1>13. PICK y \in [Positions -> Int] : \A p \in Positions : y[p] = g[p] - x[p]
  <2>1. [p \in Positions |-> g[p] - x[p]] \in [Positions -> Int]
    OBVIOUS
  <2> QED
    BY <2>1
<1>14. ASSUME NEW m \in Eras, NEW i \in Indexes
       PROVE  /\ <<m, i>> \in Positions
              /\ y[<<m, i>>] = IF m = e /\ j[e][i] # NoRecord THEN j[e][i].insertions[k] ELSE 0
  <2>1. <<m, i>> \in Positions
    BY DEF Positions
  <2>2. /\ g[<<m, i>>] = IF j[m][i] = NoRecord THEN 0 ELSE j[m][i].insertions[k]
        /\ x[<<m, i>>] = IF q[m][i] = NoRecord THEN 0 ELSE q[m][i].insertions[k]
    BY <1>12, <2>1 DEF ListedAt
  <2>3. q[m][i] = IF m = e THEN NoRecord ELSE j[m][i]
    <3>1. j \in [Eras -> [Indexes -> CountedRecords \cup {NoRecord}]]
      BY DEF CountedOK
    <3> QED
      BY <1>1, <3>1 DEF Erased
  <2>4. g[<<m, i>>] \in Int /\ x[<<m, i>>] \in Int /\ y[<<m, i>>] = g[<<m, i>>] - x[<<m, i>>]
    BY <1>13, <2>1
  <2>5. m # e => g[<<m, i>>] = x[<<m, i>>]
    BY <2>2, <2>3
  <2>6. m = e => x[<<m, i>>] = 0
    BY <2>2, <2>3
  <2> QED
    BY <2>1, <2>2, <2>4, <2>5, <2>6
<1>15. SumOver(y, Positions) = SumOver(h, R)
  <2>1. \A r, s \in R : f[r] = f[s] => r = s
    <3> SUFFICES ASSUME NEW r \in R, NEW s \in R, f[r] = f[s] PROVE r = s
      OBVIOUS
    <3>1. PICK i \in I : r = j[e][i] /\ f[r] = <<e, i>>
      BY <1>11
    <3>2. PICK m \in I : s = j[e][m] /\ f[s] = <<e, m>>
      BY <1>11
    <3>3. i = m
      BY <3>1, <3>2
    <3> QED
      BY <3>1, <3>2, <3>3
  <2>2. ASSUME NEW r \in R PROVE h[r] = y[f[r]]
    <3>1. PICK i \in I : r = j[e][i] /\ f[r] = <<e, i>>
      BY <1>11
    <3>2. i \in Indexes /\ j[e][i] # NoRecord
      BY <1>6
    <3>3. y[<<e, i>>] = j[e][i].insertions[k]
      BY <1>14, <3>2
    <3> QED
      BY <1>10, <3>1, <3>3
  <2>3. ASSUME NEW p \in Positions, y[p] # 0 PROVE \E r \in R : f[r] = p
    <3>1. PICK m \in Eras, i \in Indexes : p = <<m, i>>
      BY DEF Positions
    <3>2. m = e /\ j[e][i] # NoRecord
      BY <1>14, <2>3, <3>1
    <3>3. i \in I /\ j[e][i] \in R
      BY <1>6, <3>2
    <3>4. PICK o \in I : j[e][i] = j[e][o] /\ f[j[e][i]] = <<e, o>>
      BY <1>11, <3>3
    <3>5. i = o
      BY <1>8, <3>3, <3>4
    <3> QED
      BY <3>1, <3>2, <3>3, <3>4, <3>5
  <2> QED
    <3>1. \A r \in R : h[r] = y[f[r]]
      BY <2>2
    <3>2. \A p \in Positions : y[p] # 0 => \E r \in R : f[r] = p
      BY <2>3
    <3>3. IsFiniteSet(R) /\ IsFiniteSet(Positions)
      BY <1>9, PositionsFinite
    <3>4. Mirrors(f, R, Positions, h, y)
      BY <2>1, <3>1, <3>2, <3>3 DEF Mirrors
    <3> QED
      BY <3>4, SumOfImage
<1>16. SumOver(y, Positions) = Listed(j, k) - Listed(q, k)
  <2>1. IsFiniteSet(Positions)
    BY PositionsFinite
  <2>2. SumOver(y, Positions) = SumOver(g, Positions) - SumOver(x, Positions)
    <3>1. IsDifference(y, g, x, Positions)
      BY <1>13 DEF IsDifference
    <3> QED
      BY <2>1, <3>1, SumOfDifference
  <2> QED
    BY <1>12, <2>2 DEF Listed
<1>17. PICK o \in I : j[e][o].id = d
  <2>1. PICK o \in Indexes : j[e][o] # NoRecord /\ j[e][o].id = d
    <3>1. \E i \in Indexes : j[Era(d)][i] # NoRecord /\ j[Era(d)][i].id = d
      BY <1>2, CountedBlock
    <3> QED
      BY <1>1, <3>1
  <2> QED
    BY <1>6, <2>1
<1>18. PICK z \in R : z = j[e][o] /\ z.id = d /\ Net(z, v)
  BY <1>6, <1>7, <1>17
<1>19. PICK w \in [R -> Int] : /\ UndoneIn(d, k, R) = SumOver(w, R)
                               /\ \A r \in R : w[r] = (IF r.id = d THEN r.deletions ELSE r.insertions)[k]
  <2>1. \A r \in R : (IF r.id = d THEN r.deletions ELSE r.insertions)[k] \in Int
    BY <1>9
  <2>2. [r \in R |-> (IF r.id = d THEN r.deletions ELSE r.insertions)[k]] \in [R -> Int]
    BY <2>1
  <2> QED
    BY <2>2 DEF UndoneIn
<1>20. ASSUME NEW r \in R, r # z PROVE w[r] = h[r]
  <2>1. PICK i \in I : r = j[e][i]
    BY <1>6
  <2>2. r.id # d
    BY <1>8, <1>17, <1>18, <1>20, <2>1
  <2> QED
    BY <1>10, <1>19, <2>2
<1>21. SumOver(w, R) = SumOver(h, R) + (w[z] - h[z])
  <2>1. IsFiniteSet(R) /\ SameBut(z, w, h, R)
    BY <1>9, <1>20 DEF SameBut
  <2> QED
    BY <2>1, SumOneChanged
<1>22. w[z] - h[z] = Has(v, c, k) - Has(v, d, k)
  <2>1. z.insertions[k] - z.deletions[k] = Change(v[d], v[c])[k]
    BY <1>2, <1>18 DEF Net
  <2>2. Change(v[d], v[c])[k] = Has(v, d, k) - Has(v, c, k)
    BY DEF Change, Has
  <2>3. w[z] = z.deletions[k] /\ h[z] = z.insertions[k] /\ z.deletions[k] \in Nat /\ z.insertions[k] \in Nat
    BY <1>9, <1>10, <1>18, <1>19
  <2>4. Has(v, d, k) \in Int /\ Has(v, c, k) \in Int
    BY DEF Has
  <2>5. PICK l \in Nat, m \in Nat, a \in Int, b \in Int :
          l = z.deletions[k] /\ m = z.insertions[k] /\ a = Has(v, d, k) /\ b = Has(v, c, k)
    BY <2>3, <2>4
  <2>6. m - l = a - b
    BY <2>1, <2>2, <2>5
  <2>7. w[z] - h[z] = l - m
    BY <2>3, <2>5
  <2>8. l - m = b - a
    <3>1. \A i, n1, o1, p1 \in Int : n1 - i = o1 - p1 => i - n1 = p1 - o1
      OBVIOUS
    <3> QED
      BY <2>6, <3>1
  <2> QED
    BY <2>5, <2>7, <2>8, Zenon
<1>23. Listed(j, k) \in Nat /\ Listed(q, k) \in Nat /\ Has(v, d, k) \in Int /\ Has(v, c, k) \in Int
  BY <1>2, <1>3, ListedType DEF Has
<1>24. UndoneIn(d, k, R) = (Listed(j, k) - Listed(q, k)) + (Has(v, c, k) - Has(v, d, k))
  BY <1>15, <1>16, <1>19, <1>21, <1>22
<1>25. UndoneIn(d, k, R) \in Int
  BY <1>23, <1>24
<1> QED
  BY <1>9, <1>23, <1>24, <1>25

LEMMA SameInCounts ==
  /\ RefCounted!Blocks = Blocks /\ RefCounted!Eras = Eras /\ RefCounted!Indexes = Indexes
  /\ \A b : RefCounted!Era(b) = Era(b)
  /\ \A b, c : RefCounted!Extends(b, c) = Extends(b, c)
  /\ \A r : RefCounted!StoredRecords(r) = StoredRecords(r)
  /\ \A b, i, d : RefCounted!Record(b, i, d) = Record(b, i, d)
  /\ \A l, n : RefCounted!Latest(l, n) = Latest(l, n)
  /\ RefCounted!Journalled = Known(views)
  /\ \A k : RefCounted!EmptyMemory(k) = EmptyMemory(k)
  /\ RefCounted!None = EmptyMemory(Keys)
  /\ RefCounted!Genesis = Genesis
  /\ \A S : RefCounted!Cardinality(S) = Cardinality(S)
<1>1. RefCounted!Blocks = Blocks /\ RefCounted!Eras = Eras /\ RefCounted!Indexes = Indexes
  BY DEF RefCounted!Blocks, Blocks, RefCounted!Eras, Eras, RefCounted!Indexes, Indexes
<1>2. \A r : RefCounted!StoredRecords(r) = StoredRecords(r)
  BY Zenon DEF RefCounted!StoredRecords, StoredRecords
<1>3. RefCounted!Journalled = Known(views)
  BY <1>1, Zenon DEF RefCounted!Journalled, Known
<1>4. \A b, c : RefCounted!Extends(b, c) = Extends(b, c)
  BY Zenon DEF RefCounted!Extends, Extends
<1>5. \A S : RefCounted!Cardinality(S) = Cardinality(S)
  BY Zenon DEF RefCounted!Cardinality, Cardinality
<1> QED
  BY <1>1, <1>2, <1>3, <1>4, <1>5
  DEF RefCounted!Era, Era, RefCounted!Record, Record, RefCounted!Latest, Latest,
      RefCounted!EmptyMemory, EmptyMemory, RefCounted!Genesis, Genesis, RefCounted!None

(* What MarkCanonical subtracts is the sum above, by the fold of the library. *)
LEMMA UndoneIs ==
  ASSUME NEW R, IsFiniteSet(R), NEW d, NEW k \in Keys,
         \A r \in R : r.insertions \in [Keys -> Nat] /\ r.deletions \in [Keys -> Nat]
  PROVE  RefCounted!Sets!MapThenSumSet(LAMBDA r : RefCounted!Undone(r, d)[k], R) = UndoneIn(d, k, R)
<1>1. PICK g : g = [r \in R |-> (IF r.id = d THEN r.deletions ELSE r.insertions)[k]]
  OBVIOUS
<1>2. g \in [R -> Int] /\ UndoneIn(d, k, R) = SumOver(g, R)
  BY <1>1 DEF UndoneIn
<1> DEFINE Step(H) == H = [s \in SUBSET R |->
               IF s = {} THEN 0 ELSE RefCounted!Undone(SumElement(s), d)[k] + H[s \ {SumElement(s)}]]
<1>3. RefCounted!Sets!MapThenSumSet(LAMBDA r : RefCounted!Undone(r, d)[k], R) = (CHOOSE H : Step(H))[R]
  BY DEF RefCounted!Sets!MapThenSumSet, RefCounted!Sets!MapThenFoldSet, SumElement
<1>4. ASSUME NEW H PROVE Step(H) <=> SumStep(H, g, R)
  <2>1. ASSUME NEW s \in SUBSET R PROVE s # {} => g[SumElement(s)] = RefCounted!Undone(SumElement(s), d)[k]
    <3>1. s # {} => SumElement(s) \in R
      BY DEF SumElement
    <3> QED
      BY <1>1, <3>1 DEF RefCounted!Undone
  <2>2. [s \in SUBSET R |-> IF s = {} THEN 0 ELSE RefCounted!Undone(SumElement(s), d)[k] + H[s \ {SumElement(s)}]]
          = [s \in SUBSET R |-> SumTerm(H, g, s)]
    BY <2>1 DEF SumTerm
  <2> QED
    BY <2>2 DEF SumStep
<1>5. \E H \in [SUBSET R -> Int] : SumStep(H, g, R)
  BY <1>2, SumExists
<1>6. PICK G : G = CHOOSE H : Step(H)
  OBVIOUS
<1>7. SumStep(G, g, R)
  <2> HIDE DEF Step
  <2> QED
    BY <1>4, <1>5, <1>6
<1>8. PICK K : K = CHOOSE H : SumStep(H, g, R)
  OBVIOUS
<1>9. SumStep(K, g, R)
  <2>1. \E H : SumStep(H, g, R)
    BY <1>5
  <2> QED
    BY <1>8, <2>1
<1>10. \A s \in SUBSET R : G[s] = K[s]
  BY <1>2, <1>7, <1>9, SumUnique
<1>11. G[R] = K[R]
  BY <1>10
<1> QED
  <2>1. SumOver(g, R) = K[R]
    BY <1>8 DEF SumOver
  <2> QED
    BY <1>2, <1>3, <1>6, <1>11, <2>1

LEMMA BuildingFacts ==
  ASSUME ViewsOK(views, canon), Building
  PROVE  views[tip] \in SUBSET Keys /\ work \in SUBSET Keys /\ tip \in Blocks
         /\ canon \in Known(views) /\ canon \in Blocks /\ views[canon] \in SUBSET Keys
         /\ inserts \in [Keys -> Nat] /\ removes \in [Keys -> Nat]
         /\ \A k \in Keys : inserts[k] - removes[k] = Change(work, views[tip])[k]
<1>1. /\ tip \in Known(views) /\ work \subseteq Keys /\ inserts \in [Keys -> Nat] /\ removes \in [Keys -> Nat]
      /\ \A k \in Keys : inserts[k] - removes[k] = Change(work, views[tip])[k]
  BY DEF Building
<1>2. canon \in Known(views)
  BY DEF ViewsOK
<1> QED
  BY <1>1, <1>2, KnownFacts

LEMMA EmptyIs == EmptyMemory(Keys) \in [Keys -> Nat] /\ \A k \in Keys : EmptyMemory(Keys)[k] = 0
BY DEF EmptyMemory

(* A trie without uncommitted changes is at the state of its tip. *)
LEMMA NothingBuilt ==
  ASSUME NEW w, NEW i, NEW r, i = EmptyMemory(Keys), r = EmptyMemory(Keys)
  PROVE  i \in [Keys -> Nat] /\ r \in [Keys -> Nat] /\ \A k \in Keys : i[k] - r[k] = Change(w, w)[k]
<1>1. Change(w, w) = EmptyMemory(Keys)
  BY NothingChanges
<1> QED
  BY <1>1, EmptyIs

LEMMA BuildingInserts ==
  ASSUME ViewsOK(views, canon), Building, NEW k \in Keys, k \notin work, work' = work \cup {k},
         inserts' = [inserts EXCEPT ![k] = inserts[k] + 1], UNCHANGED <<views, canon, tip, kept, removes>>
  PROVE  Building'
<1>1. PICK w \in SUBSET Keys, v \in SUBSET Keys, i \in [Keys -> Nat], r \in [Keys -> Nat] :
        w = work /\ v = views[tip] /\ i = inserts /\ r = removes
  BY BuildingFacts
<1>2. \A x \in Keys : i[x] - r[x] = Change(w, v)[x]
  BY <1>1, BuildingFacts
<1>3. Change(w \cup {k}, v) = [Change(w, v) EXCEPT ![k] = Change(w, v)[k] + 1]
  BY <1>1, ChangeInsert
<1>4. inserts' = [i EXCEPT ![k] = i[k] + 1] /\ inserts' \in [Keys -> Nat] /\ DOMAIN Change(w, v) = Keys
  BY <1>1 DEF Change
<1>5. ASSUME NEW x \in Keys PROVE inserts'[x] - removes'[x] = Change(w \cup {k}, v)[x]
  <2>1. i[x] \in Nat /\ r[x] \in Nat
    OBVIOUS
  <2>2. inserts'[x] = (IF x = k THEN i[x] + 1 ELSE i[x]) /\ removes'[x] = r[x]
    BY <1>1, <1>4
  <2>3. Change(w \cup {k}, v)[x] = IF x = k THEN Change(w, v)[x] + 1 ELSE Change(w, v)[x]
    BY <1>3, <1>4
  <2>4. i[x] - r[x] = Change(w, v)[x]
    BY <1>2
  <2> QED
    BY <2>1, <2>2, <2>3, <2>4
<1>6. work' \subseteq Keys /\ inserts' \in [Keys -> Nat] /\ removes' \in [Keys -> Nat]
      /\ \A x \in Keys : inserts'[x] - removes'[x] = Change(work', views'[tip'])[x]
  BY <1>1, <1>4, <1>5
<1>7. tip' \in Known(views') /\ Extends(tip', canon')
      /\ kept' = [views |-> kept'.views, canon |-> kept'.canon, stray |-> kept'.stray]
  BY DEF Building
<1> QED
  BY <1>6, <1>7 DEF Building

LEMMA BuildingRemoves ==
  ASSUME ViewsOK(views, canon), Building, NEW k \in Keys, k \in work, work' = work \ {k},
         removes' = [removes EXCEPT ![k] = removes[k] + 1], UNCHANGED <<views, canon, tip, kept, inserts>>
  PROVE  Building'
<1>1. PICK w \in SUBSET Keys, v \in SUBSET Keys, i \in [Keys -> Nat], r \in [Keys -> Nat] :
        w = work /\ v = views[tip] /\ i = inserts /\ r = removes
  BY BuildingFacts
<1>2. \A x \in Keys : i[x] - r[x] = Change(w, v)[x]
  BY <1>1, BuildingFacts
<1>3. Change(w \ {k}, v) = [Change(w, v) EXCEPT ![k] = Change(w, v)[k] - 1]
  BY <1>1, ChangeRemove
<1>4. removes' = [r EXCEPT ![k] = r[k] + 1] /\ removes' \in [Keys -> Nat] /\ DOMAIN Change(w, v) = Keys
  BY <1>1 DEF Change
<1>5. ASSUME NEW x \in Keys PROVE inserts'[x] - removes'[x] = Change(w \ {k}, v)[x]
  <2>1. i[x] \in Nat /\ r[x] \in Nat
    OBVIOUS
  <2>2. removes'[x] = (IF x = k THEN r[x] + 1 ELSE r[x]) /\ inserts'[x] = i[x]
    BY <1>1, <1>4
  <2>3. Change(w \ {k}, v)[x] = IF x = k THEN Change(w, v)[x] - 1 ELSE Change(w, v)[x]
    BY <1>3, <1>4
  <2>4. i[x] - r[x] = Change(w, v)[x]
    BY <1>2
  <2> QED
    BY <2>1, <2>2, <2>3, <2>4
<1>6. work' \subseteq Keys /\ inserts' \in [Keys -> Nat] /\ removes' \in [Keys -> Nat]
      /\ \A x \in Keys : inserts'[x] - removes'[x] = Change(work', views'[tip'])[x]
  BY <1>1, <1>4, <1>5
<1>7. tip' \in Known(views') /\ Extends(tip', canon')
      /\ kept' = [views |-> kept'.views, canon |-> kept'.canon, stray |-> kept'.stray]
  BY DEF Building
<1> QED
  BY <1>6, <1>7 DEF Building

LEMMA BuildingSwitches ==
  ASSUME ViewsOK(views, canon), Building, NEW b, b \in Known(views), Extends(b, canon),
         tip' = b, work' = views[b], inserts = EmptyMemory(Keys), removes = EmptyMemory(Keys),
         UNCHANGED <<views, canon, kept, inserts, removes>>
  PROVE  Building'
<1>1. inserts \in [Keys -> Nat] /\ removes \in [Keys -> Nat]
      /\ \A k \in Keys : inserts[k] - removes[k] = Change(views[b], views[b])[k]
  BY NothingBuilt
<1>2. views[b] \subseteq Keys
  BY KnownFacts
<1> QED
  BY <1>1, <1>2 DEF Building

LEMMA BuildingJournals ==
  ASSUME ViewsOK(views, canon), Building, NEW id \in Ids, NEW b \in Blocks, b = Append(tip, id),
         views[b] = NoView, views' = [views EXCEPT ![b] = work], tip' = b,
         inserts' = EmptyMemory(Keys), removes' = EmptyMemory(Keys), UNCHANGED <<canon, work, kept>>
  PROVE  Building' /\ ExtendedBy(views', views, canon, tip, work, b)
<1>1. PICK v, c, t, w, u : v = views /\ c = canon /\ t = tip /\ w = work /\ u = [v EXCEPT ![b] = w]
  OBVIOUS
<1>2. /\ w \in SUBSET Keys /\ t \in Known(v) /\ Extends(t, c) /\ t \in Blocks /\ c \in Blocks /\ ViewsOK(v, c)
  BY <1>1, BuildingFacts DEF Building
<1>3. Len(c) \in 0..Len(t) /\ Len(t) >= Len(c) /\ Ancestor(t, Len(c)) = c
  BY <1>2, ExtendsAncestor, BlockFacts
<1>4. b = Append(t, id) /\ v[b] = NoView
  BY <1>1
<1>5. ExtendedBy(u, v, c, t, w, b)
  BY <1>1, <1>2, <1>3, <1>4, NewBlock
<1>6. views' = u /\ Known(u) = Known(v) \cup {b} /\ u[b] = w /\ Len(b) = Len(t) + 1
  BY <1>1, <1>5 DEF ExtendedBy
<1>7. inserts' \in [Keys -> Nat] /\ removes' \in [Keys -> Nat]
      /\ \A k \in Keys : inserts'[k] - removes'[k] = Change(w, u[b])[k]
  BY <1>6, NothingBuilt
<1>8. Extends(b, c)
  <2>1. \A m \in 0..Len(t) : Ancestor(b, m) = Ancestor(t, m)
    <3>1. b = Append(t, id) /\ t \in Blocks
      BY <1>2, <1>4
    <3> QED
      BY <3>1, ChildFacts
  <2>2. Len(c) <= Len(b)
    BY <1>2, <1>3, <1>6, BlockFacts
  <2> QED
    BY <1>2, <1>3, <2>1, <2>2, ExtendsAncestor
<1>9. Building'
  <2>1. kept = [views |-> kept.views, canon |-> kept.canon, stray |-> kept.stray]
    BY DEF Building
  <2> QED
    BY <1>1, <1>2, <1>6, <1>7, <1>8, <2>1 DEF Building
<1> QED
  BY <1>1, <1>5, <1>6, <1>9

LEMMA BuildingMarks ==
  ASSUME ViewsOK(views, canon), Building, NEW d \in Blocks, d \in Known(views),
         (inserts = EmptyMemory(Keys) /\ removes = EmptyMemory(Keys)) \/ Extends(tip, d), canon' = d,
         tip' = IF Extends(tip, d) THEN tip ELSE d,
         work' = IF Extends(tip, d) THEN work ELSE views[d],
         UNCHANGED <<views, kept, inserts, removes>>
  PROVE  Building'
<1>1. CASE Extends(tip, d)
  BY <1>1 DEF Building
<1>2. CASE ~Extends(tip, d)
  <2>1. tip' = d /\ work' = views[d] /\ inserts = EmptyMemory(Keys) /\ removes = EmptyMemory(Keys)
    BY <1>2
  <2>2. Extends(d, d)
    BY BlockFacts, OwnAncestor, ExtendsAncestor
  <2>3. views[d] \subseteq Keys
    BY KnownFacts
  <2>4. inserts \in [Keys -> Nat] /\ removes \in [Keys -> Nat]
        /\ \A k \in Keys : inserts[k] - removes[k] = Change(views[d], views[d])[k]
    BY <2>1, NothingBuilt
  <2> QED
    BY <2>1, <2>2, <2>3, <2>4 DEF Building
<1> QED
  BY <1>1, <1>2

LEMMA BuildingInjects ==
  ASSUME ViewsOK(views, canon), Building, kept = [views |-> views, canon |-> canon, stray |-> stray],
         Known(views) = {Genesis}, views' = [views EXCEPT ![Genesis] = work],
         kept' = [kept EXCEPT !.views = views'],
         inserts' = EmptyMemory(Keys), removes' = EmptyMemory(Keys),
         UNCHANGED <<canon, tip, work, stray>>
  PROVE  /\ Building' /\ Replaced(views', views, canon, work)
         /\ kept' = [views |-> views', canon |-> canon', stray |-> stray']
         /\ tip = canon /\ work \in SUBSET Keys /\ views[canon] \in SUBSET Keys
<1>1. PICK v, c, w, u : v = views /\ c = canon /\ w = work /\ u = [v EXCEPT ![Genesis] = w]
  OBVIOUS
<1>2. w \in SUBSET Keys /\ tip \in Known(v) /\ ViewsOK(v, c) /\ Known(v) = {Genesis} /\ v[c] \in SUBSET Keys
  BY <1>1, BuildingFacts DEF Building
<1>3. Replaced(u, v, c, w)
  BY <1>1, <1>2, GenesisReplaced
<1>4. ViewsOK(u, c) /\ Known(u) = {Genesis} /\ c = Genesis /\ u[Genesis] = w /\ views' = u /\ tip = Genesis
  BY <1>1, <1>2, <1>3 DEF Replaced
<1>5. kept' = [views |-> u, canon |-> c, stray |-> stray]
  BY <1>1, <1>4
<1>6. Building'
  <2>1. inserts' \in [Keys -> Nat] /\ removes' \in [Keys -> Nat]
        /\ \A k \in Keys : inserts'[k] - removes'[k] = Change(w, u[Genesis])[k]
    BY <1>4, NothingBuilt
  <2>2. Genesis \in Known(u) /\ Extends(Genesis, c)
    BY <1>4, GenesisIsBlock, OwnAncestor, ExtendsAncestor
  <2>3. kept'.views = u /\ kept'.canon = c /\ kept'.stray = stray
    BY <1>5
  <2> QED
    BY <1>1, <1>2, <1>4, <1>5, <2>1, <2>2, <2>3 DEF Building
<1> QED
  BY <1>1, <1>2, <1>3, <1>4, <1>5, <1>6

LEMMA CountsInserts ==
  ASSUME RefCountedInv, NEW k \in Keys, RefCounted!Insert(k)
  PROVE  RefCountedInv'
<1>1. /\ k \notin work /\ work' = work \cup {k}
      /\ memory' = [memory EXCEPT ![k] = memory[k] + 1]
      /\ inserts' = [inserts EXCEPT ![k] = inserts[k] + 1]
      /\ UNCHANGED <<views, canon, tip, stray, kept, pc, batch, db, removes>>
  BY DEF RefCounted!Insert, RefCounted!AddNode, RefCounted!Emplace
<1>2. ViewsOK(views, canon) /\ Building
  BY DEF RefCountedInv
<1>3. Building'
  BY <1>1, <1>2, BuildingInserts
<1>4. PICK n \in [Keys -> Int], m \in [Keys -> Int], i \in [Keys -> Nat] :
        n = batch.nodes /\ m = memory /\ i = inserts
  BY BuildingFacts, <1>2 DEF RefCountedInv
<1>5. PICK v, c, j : v = views /\ c = canon /\ j = batch.journal
  OBVIOUS
<1>6. Balanced(n, m, v, c, i, j) /\ ViewsOK(v, c) /\ CountedOK(j, v, c)
  BY <1>4, <1>5 DEF RefCountedInv
<1>7. memory' = [m EXCEPT ![k] = m[k] + 1] /\ memory' \in [Keys -> Int] /\ inserts' = [i EXCEPT ![k] = i[k] + 1]
  BY <1>1, <1>4
<1>8. ASSUME NEW x \in Keys PROVE n[x] + memory'[x] = Has(v, c, x) + inserts'[x] + Listed(j, x)
  <2>1. n[x] \in Int /\ m[x] \in Int /\ i[x] \in Int /\ Has(v, c, x) \in Int /\ Listed(j, x) \in Int
    BY <1>6, ListedType DEF Has
  <2>2. n[x] + m[x] = Has(v, c, x) + i[x] + Listed(j, x)
    BY <1>6 DEF Balanced
  <2>3. memory'[x] = (IF x = k THEN m[x] + 1 ELSE m[x]) /\ inserts'[x] = (IF x = k THEN i[x] + 1 ELSE i[x])
    BY <1>7
  <2> QED
    BY <2>1, <2>2, <2>3
<1> QED
  BY <1>1, <1>3, <1>4, <1>5, <1>7, <1>8 DEF RefCountedInv, Balanced, InStep

LEMMA CountsRemoves ==
  ASSUME RefCountedInv, NEW k \in Keys, RefCounted!Remove(k)
  PROVE  RefCountedInv'
<1>1. /\ k \in work /\ work' = work \ {k}
      /\ removes' = [removes EXCEPT ![k] = removes[k] + 1]
      /\ UNCHANGED <<views, canon, tip, stray, kept, pc, batch, db, inserts, memory>>
  BY DEF RefCounted!Remove, RefCounted!DropNode
<1>2. Building'
  BY <1>1, BuildingRemoves DEF RefCountedInv
<1> QED
  BY <1>1, <1>2 DEF RefCountedInv, InStep

LEMMA CountsSwitches ==
  ASSUME RefCountedInv, NEW b \in Blocks, RefCounted!SwitchTo(b)
  PROVE  RefCountedInv'
<1>1. /\ RefCounted!Clean /\ RefCounted!Switched(b) /\ UNCHANGED <<memory, inserts, removes>>
  BY DEF RefCounted!SwitchTo, RefCounted!ownVars
<1>2. RefCounted!Checkout(b) /\ UNCHANGED <<pc, batch, db>>
  BY <1>1 DEF RefCounted!Switched
<1>3. b \in RefCounted!Live /\ tip' = b /\ work' = views[b] /\ UNCHANGED <<views, canon, stray, kept>>
  BY <1>2 DEF RefCounted!Checkout
<1>4. b \in Known(views) /\ Extends(b, canon) /\ inserts = EmptyMemory(Keys) /\ removes = EmptyMemory(Keys)
  BY <1>1, <1>3, SameInCounts DEF RefCounted!Live, RefCounted!Clean
<1>5. Building'
  BY <1>1, <1>3, <1>4, BuildingSwitches DEF RefCountedInv
<1> QED
  BY <1>1, <1>2, <1>3, <1>5 DEF RefCountedInv, InStep

LEMMA CountsWrites ==
  ASSUME RefCountedInv, RefCounted!WriteBatch
  PROVE  RefCountedInv'
<1>1. /\ kept' = [views |-> views, canon |-> canon, stray |-> stray]
      /\ db' = batch /\ pc' = "idle"
      /\ UNCHANGED <<views, canon, tip, work, stray, batch, memory, inserts, removes>>
  BY DEF RefCounted!WriteBatch, RefCounted!Written, RefCounted!Persisted, RefCounted!ownVars
<1>2. kept'.views = views /\ kept'.canon = canon /\ kept'.stray = stray
  BY <1>1
<1>3. Building' /\ InStep'
  BY <1>1, <1>2 DEF RefCountedInv, Building, InStep
<1> QED
  BY <1>1, <1>3 DEF RefCountedInv

LEMMA CountsReopens ==
  ASSUME RefCountedInv, RefCounted!Reopen
  PROVE  RefCountedInv'
<1>1. /\ views' = kept.views /\ canon' = kept.canon /\ stray' = kept.stray
      /\ tip' = kept.canon /\ work' = kept.views[kept.canon]
      /\ pc = "idle" /\ pc' = "idle" /\ batch' = db /\ inserts = EmptyMemory(Keys) /\ removes = EmptyMemory(Keys)
      /\ UNCHANGED <<kept, db, memory, inserts, removes>>
  BY SameInCounts DEF RefCounted!Reopen, RefCounted!Opened, RefCounted!ClientReopen, RefCounted!Clean
<1>2. batch = db /\ kept = [views |-> views, canon |-> canon, stray |-> stray]
  BY <1>1 DEF RefCountedInv, InStep
<1>3. kept.views = views /\ kept.canon = canon /\ kept.stray = stray
  BY <1>2
<1>4. UNCHANGED <<views, canon, stray, batch>> /\ tip' = canon /\ work' = views[canon]
  BY <1>1, <1>2, <1>3
<1>5. canon \in Known(views) /\ canon \in Blocks
  BY BuildingFacts DEF RefCountedInv
<1>6. Extends(canon, canon)
  BY <1>5, BlockFacts, OwnAncestor, ExtendsAncestor
<1>7. Building'
  BY <1>1, <1>4, <1>5, <1>6, BuildingSwitches DEF RefCountedInv
<1> QED
  BY <1>1, <1>2, <1>4, <1>7 DEF RefCountedInv, InStep

LEMMA CountsStutters ==
  ASSUME RefCountedInv, UNCHANGED vars
  PROVE  RefCountedInv'
BY DEF RefCountedInv, vars, clientVars, Building, InStep

LEMMA ListedNothing ==
  ASSUME NEW j, \A e \in Eras, i \in Indexes : j[e][i] = NoRecord, NEW k
  PROVE  Listed(j, k) = 0
<1>1. PICK g : g = ListedAt(j, k)
  OBVIOUS
<1>2. g \in [Positions -> Nat] /\ \A p \in Positions : g[p] = 0
  <2>1. \A p \in Positions : j[p[1]][p[2]] = NoRecord
    BY DEF Positions
  <2> QED
    BY <1>1, <2>1 DEF ListedAt
<1>3. g \in [Positions -> Int] /\ IsDifference(g, g, g, Positions)
  BY <1>2 DEF IsDifference
<1>4. SumOver(g, Positions) \in Nat
  BY <1>2, PositionsFinite, SumOfNaturals
<1>5. SumOver(g, Positions) = SumOver(g, Positions) - SumOver(g, Positions)
  BY <1>3, PositionsFinite, SumOfDifference
<1> QED
  BY <1>1, <1>4, <1>5 DEF Listed

LEMMA CountsStarts ==
  ASSUME RefCounted!Init
  PROVE  RefCountedInv
<1>1. /\ views = NewViews /\ canon = Genesis /\ tip = Genesis /\ work = {} /\ stray = {}
      /\ kept = [views |-> views, canon |-> canon, stray |-> stray]
      /\ pc = "idle" /\ memory = EmptyMemory(Keys) /\ db = EmptyBacking(EmptyMemory(Keys)) /\ batch = db
      /\ inserts = EmptyMemory(Keys) /\ removes = EmptyMemory(Keys)
  BY SameInCounts DEF RefCounted!Init, RefCounted!ClientInit, NewViews, RefCounted!EmptyBacking, EmptyBacking
<1>2. PICK v : v = NewViews /\ ViewsOK(v, Genesis) /\ Known(v) = {Genesis} /\ v[Genesis] = {}
  BY NewDatabase DEF BackingOK
<1>3. PICK j : j = [e \in Eras |-> [i \in Indexes |-> NoRecord]]
  OBVIOUS
<1>4. JournalOK(j, v, Genesis)
  <2>1. BackingOK(EmptyBacking({}), v, Genesis)
    BY <1>2, NewDatabase
  <2>2. EmptyBacking({}).journal = j
    BY <1>3 DEF EmptyBacking
  <2> QED
    BY <2>1, <2>2 DEF BackingOK
<1>5. \A e \in Eras, i \in Indexes : j[e][i] = NoRecord
  BY <1>3
<1>6. CountedOK(j, v, Genesis)
  <2>1. Plain(j, v) = j
    BY <1>3, <1>5 DEF Plain
  <2>2. j \in [Eras -> [Indexes -> CountedRecords \cup {NoRecord}]]
    BY <1>3
  <2> QED
    BY <1>4, <1>5, <2>1, <2>2 DEF CountedOK
<1>7. batch = [nodes |-> EmptyMemory(Keys), journal |-> j, latest |-> NoEra, already_in |-> {}]
  BY <1>1, <1>3 DEF EmptyBacking
<1>8. batch.nodes = EmptyMemory(Keys) /\ batch.journal = j /\ batch.latest = NoEra /\ batch.already_in = {}
  BY <1>7
<1>9. Building
  <2>1. Genesis \in Known(views) /\ views[Genesis] = {}
    BY <1>1, <1>2
  <2>2. Extends(Genesis, Genesis)
    BY GenesisIsBlock, OwnAncestor, ExtendsAncestor
  <2>3. inserts \in [Keys -> Nat] /\ removes \in [Keys -> Nat]
        /\ \A k \in Keys : inserts[k] - removes[k] = Change({}, {})[k]
    BY <1>1, NothingBuilt
  <2> QED
    BY <1>1, <2>1, <2>2, <2>3 DEF Building
<1>10. ASSUME NEW k \in Keys PROVE EmptyMemory(Keys)[k] + EmptyMemory(Keys)[k] =
                                 Has(v, Genesis, k) + EmptyMemory(Keys)[k] + Listed(j, k)
  <2>1. Listed(j, k) = 0 /\ Has(v, Genesis, k) = 0 /\ EmptyMemory(Keys)[k] = 0
    BY <1>2, <1>5, ListedNothing, EmptyIs DEF Has
  <2> QED
    BY <2>1
<1>11. EmptyMemory(Keys) \in [Keys -> Int]
  BY DEF EmptyMemory
<1>12. InStep
  BY <1>1 DEF InStep
<1> QED
  BY <1>1, <1>2, <1>6, <1>7, <1>8, <1>9, <1>10, <1>11, <1>12 DEF RefCountedInv, Balanced

(* The era of a block that may be journalled has a free index. *)
LEMMA CountedFree ==
  ASSUME NEW v, NEW c, ViewsOK(v, c), NEW j, CountedOK(j, v, c), NEW e \in Eras,
         Cardinality(Known(v)) <= MaxBlocks
  PROVE  /\ Len(StoredRecords(j[e])) \in Indexes
         /\ \A i \in Indexes : i < Len(StoredRecords(j[e])) <=> j[e][i] # NoRecord
<1>1. PICK p : p = Plain(j, v) /\ JournalOK(p, v, c)
  BY DEF CountedOK
<1>2. \A i \in Indexes : j[e][i] # NoRecord <=> p[e][i] # NoRecord
  <2> SUFFICES ASSUME NEW i \in Indexes PROVE j[e][i] # NoRecord <=> p[e][i] # NoRecord
    OBVIOUS
  <2>1. p[e][i] = IF j[e][i] = NoRecord THEN NoRecord ELSE RecordOf(v, j[e][i].id)
    BY <1>1 DEF Plain
  <2>2. j[e][i] # NoRecord => RecordOf(v, j[e][i].id) # NoRecord
    <3>1. j[e][i] # NoRecord => j[e][i].id \in Above(v, c)
      BY CountedFacts
    <3>2. \A x \in Above(v, c) : RecordOf(v, x) # NoRecord
      BY AboveFacts
    <3> QED
      BY <3>1, <3>2
  <2> QED
    BY <2>1, <2>2
<1>3. PICK m \in Indexes : \A i \in Indexes : i < m <=> p[e][i] # NoRecord
  BY <1>1, IndexFree
<1>4. PICK n \in 0..MaxBlocks : EraLength(n, j[e])
  BY CountedStored
<1>5. n \in Nat /\ Len(StoredRecords(j[e])) = n /\ \A i \in Indexes : i < n <=> j[e][i] # NoRecord
  BY <1>4 DEF EraLength
<1>6. \A i \in Indexes : i < n <=> i < m
  BY <1>2, <1>3, <1>5
<1>7. n = m
  <2>1. m \in 0..(MaxBlocks - 1) /\ MaxBlocks \in Nat
    BY ClientConstants DEF Indexes
  <2>2. \A i \in 0..(MaxBlocks - 1) : i < n <=> i < m
    BY <1>6 DEF Indexes
  <2>3. ~(n > m)
    BY <1>5, <2>1, <2>2
  <2>4. ~(n < m)
    <3>1. n < m => n \in 0..(MaxBlocks - 1)
      BY <1>5, <2>1
    <3> QED
      BY <1>5, <2>1, <2>2, <3>1
  <2> QED
    BY <1>5, <2>1, <2>3, <2>4
<1> QED
  BY <1>3, <1>5, <1>7

LEMMA CountsJournals ==
  ASSUME RefCountedInv, NEW id \in Ids, RefCounted!JournalUnder(id)
  PROVE  RefCountedInv'
<1>1. PICK b : b = Append(tip, id)
  OBVIOUS
<1>2. PICK now : now = Era(b)
  OBVIOUS
<1>3. PICK r : r = Record(b, inserts, removes)
  OBVIOUS
<1>4. PICK l : l = Latest(latest_era, now)
  OBVIOUS
<1>5. /\ RefCounted!Record(b, inserts, removes) = r
      /\ RefCounted!Latest(latest_era, now) = l
      /\ RefCounted!Era(b) = now
      /\ RefCounted!FreeIndex(now) = Len(StoredRecords(db.journal[now]))
      /\ RefCounted!None = EmptyMemory(Keys)
  BY <1>1, <1>2, <1>3, <1>4, SameInCounts DEF RefCounted!FreeIndex
<1>6. /\ pc = "idle" /\ RefCounted!AddBlock(b)
      /\ batch' = [batch EXCEPT !.journal[now][Len(StoredRecords(db.journal[now]))] = r, !.latest = l]
      /\ inserts' = EmptyMemory(Keys) /\ removes' = EmptyMemory(Keys) /\ pc' = "batch"
      /\ UNCHANGED <<db, memory>>
  BY <1>1, <1>5, Zenon DEF RefCounted!JournalUnder
<1>7. /\ b \in Blocks /\ views[b] = NoView /\ Cardinality(Known(views)) <= MaxBlocks
      /\ views' = [views EXCEPT ![b] = work] /\ tip' = b /\ UNCHANGED <<canon, work, stray, kept>>
  BY <1>6, SameInCounts DEF RefCounted!AddBlock
<1>8. ViewsOK(views, canon) /\ Building /\ db = batch
  BY <1>6 DEF RefCountedInv, InStep
<1>9. Building' /\ ExtendedBy(views', views, canon, tip, work, b)
  BY <1>1, <1>6, <1>7, <1>8, BuildingJournals
<1>10. PICK n \in [Keys -> Int], m \in [Keys -> Int], i \in [Keys -> Nat], d \in [Keys -> Nat] :
         n = batch.nodes /\ m = memory /\ i = inserts /\ d = removes
  <2>1. batch.nodes \in [Keys -> Int] /\ memory \in [Keys -> Int]
    BY DEF RefCountedInv
  <2>2. inserts \in [Keys -> Nat] /\ removes \in [Keys -> Nat]
    BY <1>8 DEF Building
  <2> QED
    BY <2>1, <2>2, Zenon
<1>11. PICK v, u, t, w, c, j : v = views /\ u = views' /\ t = tip /\ w = work /\ c = canon /\ j = batch.journal
  OBVIOUS
<1>12. /\ v = views /\ u = views' /\ t = tip /\ w = work /\ c = canon /\ j = batch.journal
       /\ n = batch.nodes /\ m = memory /\ i = inserts /\ d = removes
  BY <1>10, <1>11
<1>13. /\ ExtendedBy(u, v, c, t, w, b) /\ ViewsOK(v, c) /\ ViewsOK(u, c) /\ Era(b) \in Eras
       /\ u[b] = w /\ Parent(b) = t /\ u[t] = v[t] /\ u[c] = v[c]
       /\ CountedOK(j, v, c) /\ Balanced(n, m, v, c, i, j)
  <2>1. t \in Known(v) /\ c \in Known(v)
    BY <1>8, <1>12 DEF Building, ViewsOK
  <2>2. CountedOK(j, v, c) /\ Balanced(n, m, v, c, i, j)
    BY <1>12 DEF RefCountedInv, Balanced
  <2> QED
    BY <1>8, <1>9, <1>12, <2>1, <2>2 DEF ExtendedBy
<1>14. \A k \in Keys : i[k] - d[k] = Change(w, v[t])[k]
  BY <1>8, <1>12 DEF Building
<1>15. r \in CountedRecords /\ r.id = b /\ r.insertions = i /\ Net(r, u)
  <2>1. r = [id |-> b, insertions |-> i, deletions |-> d]
    BY <1>3, <1>12 DEF Record
  <2>2. r.id = b /\ r.insertions = i /\ r.deletions = d /\ r \in CountedRecords
    BY <1>7, <2>1 DEF CountedRecords
  <2>3. \A k \in Keys : r.insertions[k] - r.deletions[k] = Change(u[r.id], u[Parent(r.id)])[k]
    BY <1>13, <1>14, <2>2
  <2> QED
    BY <2>2, <2>3 DEF Net
<1>16. PICK o \in Indexes : o = Len(StoredRecords(j[now])) /\ FirstFree(o, j, Era(b))
  <2>1. /\ Len(StoredRecords(j[now])) \in Indexes
        /\ \A x \in Indexes : x < Len(StoredRecords(j[now])) <=> j[now][x] # NoRecord
    BY <1>2, <1>7, <1>12, <1>13, CountedFree
  <2> QED
    BY <1>2, <2>1 DEF FirstFree
<1>17. PICK q : q = Put(j, Era(b), o, r)
  OBVIOUS
<1>18. batch = [nodes |-> n, journal |-> j, latest |-> batch.latest, already_in |-> batch.already_in]
  BY <1>12 DEF RefCountedInv
<1>19. batch' = [nodes |-> n, journal |-> q, latest |-> l, already_in |-> batch.already_in]
  <2>1. batch' = [batch EXCEPT !.journal[now][o] = r, !.latest = l]
    BY <1>6, <1>8, <1>12, <1>16
  <2>2. q = [j EXCEPT ![now][o] = r]
    <3>1. j \in [Eras -> [Indexes -> CountedRecords \cup {NoRecord}]]
      BY <1>13 DEF CountedOK
    <3> QED
      BY <1>2, <1>13, <1>17, <3>1 DEF Put
  <2>3. PICK x, y : batch.latest = x /\ batch.already_in = y
    OBVIOUS
  <2>4. batch = [nodes |-> n, journal |-> j, latest |-> x, already_in |-> y]
    BY <1>18, <2>3
  <2>5. batch' = [nodes |-> n, journal |-> [j EXCEPT ![now][o] = r], latest |-> l, already_in |-> y]
    BY <2>1, <2>4
  <2> QED
    BY <2>2, <2>3, <2>5
<1>20. batch'.nodes = n /\ batch'.journal = q /\ batch'.latest = l /\ batch'.already_in = batch.already_in
  BY <1>19
<1>21. CountedOK(q, u, c) /\ \A k \in Keys : Listed(q, k) = Listed(j, k) + i[k]
  BY <1>13, <1>15, <1>16, <1>17, CountedAppended
<1>22. ASSUME NEW k \in Keys
       PROVE  n[k] + m[k] = Has(u, c, k) + EmptyMemory(Keys)[k] + Listed(q, k)
  <2>1. n[k] \in Int /\ m[k] \in Int /\ i[k] \in Int /\ Has(v, c, k) \in Int /\ Listed(j, k) \in Int
    BY <1>13, ListedType DEF Has
  <2>2. n[k] + m[k] = Has(v, c, k) + i[k] + Listed(j, k)
    BY <1>13 DEF Balanced
  <2>3. Has(u, c, k) = Has(v, c, k) /\ EmptyMemory(Keys)[k] = 0
    BY <1>13, EmptyIs DEF Has
  <2>4. Listed(q, k) = Listed(j, k) + i[k]
    BY <1>21
  <2> QED
    BY <2>1, <2>2, <2>3, <2>4
<1>23. views' = u /\ canon' = c /\ memory' = m
  BY <1>6, <1>7, <1>12
<1>24. batch' = [nodes |-> batch'.nodes, journal |-> batch'.journal, latest |-> batch'.latest,
                 already_in |-> batch'.already_in]
  BY <1>19, <1>20
<1>25. db'.nodes = batch'.nodes /\ pc' = "batch" /\ inserts' = EmptyMemory(Keys)
  BY <1>6, <1>8, <1>12, <1>20
<1> QED
  BY <1>9, <1>13, <1>20, <1>21, <1>22, <1>23, <1>24, <1>25 DEF RefCountedInv, Balanced

(* What commit_to_batch writes, and that it never fails. *)
LEMMA CountsCommitted ==
  ASSUME NEW n \in [Keys -> Int], n = batch.nodes, n = db.nodes, NEW o \in [Keys -> Int]
  PROVE  /\ RefCounted!CommitToBatch(o) = [k \in Keys |-> n[k] + o[k]]
         /\ RefCounted!CommitFails(o) <=> \E k \in Keys : n[k] + o[k] < 0
<1>1. RefCounted!CommitToBatch(o) = [k \in Keys |-> IF o[k] = 0 THEN n[k] ELSE n[k] + o[k]]
  BY DEF RefCounted!CommitToBatch
<1>2. \A k \in Keys : (IF o[k] = 0 THEN n[k] ELSE n[k] + o[k]) = n[k] + o[k]
  OBVIOUS
<1>3. RefCounted!CommitFails(o) <=> \E k \in Keys : n[k] + o[k] < 0
  BY DEF RefCounted!CommitFails
<1> QED
  BY <1>1, <1>2, <1>3

LEMMA CountsMarks ==
  ASSUME RefCountedInv, NEW d \in Blocks, RefCounted!MarkCanonical(d)
  PROVE  RefCountedInv'
<1>1. PICK e : e = Era(d)
  OBVIOUS
<1>2. PICK s : s = StoredRecords(db.journal[e])
  OBVIOUS
<1>3. PICK R : R = {s[x] : x \in DOMAIN s}
  OBVIOUS
<1>4. PICK o : o = [k \in Keys |-> memory[k] - RefCounted!Sets!MapThenSumSet(LAMBDA r : RefCounted!Undone(r, d)[k], R)]
  OBVIOUS
<1>5. PICK q : q = [batch.journal EXCEPT ![e] = [x \in Indexes |-> NoRecord]]
  OBVIOUS
<1>6. /\ RefCounted!Era(d) = e /\ RefCounted!StoredRecords(db.journal[e]) = s
      /\ RefCounted!WithoutEra(batch.journal, e) = q /\ RefCounted!None = EmptyMemory(Keys)
  BY <1>1, <1>2, <1>5, SameInCounts DEF RefCounted!WithoutEra
<1>7. /\ pc \in {"idle", "batch"}
      /\ RefCounted!CanonicalNext(d, RefCounted!Clean) /\ RefCounted!AddCanonical(d, {})
      /\ batch.journal[e] = db.journal[e]
      /\ batch' = [batch EXCEPT !.nodes = RefCounted!CommitToBatch(o), !.journal = q]
      /\ memory' = EmptyMemory(Keys)
      /\ pc' = IF RefCounted!CommitFails(o) THEN "error" ELSE "marked"
      /\ UNCHANGED <<db, inserts, removes>>
  BY <1>3, <1>4, <1>6, Zenon DEF RefCounted!MarkCanonical, RefCounted!EraWritten
<1>8. /\ d \in RefCounted!Live /\ Len(d) = Len(canon) + 1 /\ (RefCounted!Clean \/ RefCounted!Extends(tip, d))
  BY <1>7, Zenon DEF RefCounted!CanonicalNext
<1>9. /\ d \in Known(views) /\ Extends(d, canon)
      /\ (inserts = EmptyMemory(Keys) /\ removes = EmptyMemory(Keys)) \/ Extends(tip, d)
  BY <1>8, SameInCounts DEF RefCounted!Live, RefCounted!Clean
<1>10. /\ canon' = d /\ tip' = IF Extends(tip, d) THEN tip ELSE d
       /\ work' = IF Extends(tip, d) THEN work ELSE views[d]
       /\ UNCHANGED <<views, kept>>
  BY <1>7, SameInCounts, Zenon DEF RefCounted!AddCanonical
<1>11. Building'
  BY <1>7, <1>9, <1>10, BuildingMarks DEF RefCountedInv
<1>12. PICK n \in [Keys -> Int], m \in [Keys -> Int], i \in [Keys -> Nat] : n = batch.nodes /\ m = memory /\ i = inserts
  <2>1. batch.nodes \in [Keys -> Int] /\ memory \in [Keys -> Int] /\ Building
    BY DEF RefCountedInv
  <2>2. inserts \in [Keys -> Nat]
    BY <2>1 DEF Building
  <2> QED
    BY <2>1, <2>2, Zenon
<1>13. PICK v, c, j : v = views /\ c = canon /\ j = batch.journal
  OBVIOUS
<1>14. /\ ViewsOK(v, c) /\ d \in Known(v) /\ Extends(d, c) /\ Len(d) = Len(c) + 1
       /\ CountedOK(j, v, c) /\ Balanced(n, m, v, c, i, j)
       /\ s = StoredRecords(j[Era(d)]) /\ R = RecordsIn(StoredRecords(j[Era(d)]))
       /\ Erased(q, j, Era(d)) /\ n = db.nodes
  <2>1. ViewsOK(v, c) /\ CountedOK(j, v, c) /\ Balanced(n, m, v, c, i, j)
    BY <1>12, <1>13 DEF RefCountedInv, Balanced
  <2>2. n = db.nodes
    BY <1>7, <1>12 DEF RefCountedInv
  <2>3. s = StoredRecords(j[Era(d)])
    BY <1>1, <1>2, <1>7, <1>13
  <2>4. R = RecordsIn(s)
    BY <1>3 DEF RecordsIn
  <2> QED
    BY <1>1, <1>5, <1>8, <1>9, <1>13, <2>1, <2>2, <2>3, <2>4 DEF Erased
<1>15. ASSUME NEW k \in Keys
       PROVE  /\ Listed(q, k) \in Nat /\ UndoneIn(d, k, R) \in Int
              /\ UndoneIn(d, k, R) = (Listed(j, k) - Listed(q, k)) + (Has(v, c, k) - Has(v, d, k))
              /\ RefCounted!Sets!MapThenSumSet(LAMBDA r : RefCounted!Undone(r, d)[k], R) = UndoneIn(d, k, R)
  <2>1. /\ IsFiniteSet(R) /\ \A r \in R : r.insertions \in [Keys -> Nat] /\ r.deletions \in [Keys -> Nat]
        /\ UndoneIn(d, k, R) \in Int /\ Listed(q, k) \in Nat
        /\ UndoneIn(d, k, R) = (Listed(j, k) - Listed(q, k)) + (Has(v, c, k) - Has(v, d, k))
    BY <1>14, EraListed
  <2>2. RefCounted!Sets!MapThenSumSet(LAMBDA r : RefCounted!Undone(r, d)[k], R) = UndoneIn(d, k, R)
    BY <2>1, UndoneIs
  <2> QED
    BY <2>1, <2>2
<1>16. ASSUME NEW k \in Keys PROVE o[k] = m[k] - UndoneIn(d, k, R) /\ o[k] \in Int
  <2>1. o[k] = memory[k] - RefCounted!Sets!MapThenSumSet(LAMBDA r : RefCounted!Undone(r, d)[k], R)
    BY <1>4
  <2>2. RefCounted!Sets!MapThenSumSet(LAMBDA r : RefCounted!Undone(r, d)[k], R) = UndoneIn(d, k, R)
    BY <1>15
  <2>3. m[k] \in Int /\ UndoneIn(d, k, R) \in Int
    BY <1>15
  <2> QED
    BY <1>12, <2>1, <2>2, <2>3
<1>17. o \in [Keys -> Int] /\ \A k \in Keys : o[k] = m[k] - UndoneIn(d, k, R)
  <2>1. o = [k \in Keys |-> o[k]]
    BY <1>4
  <2> QED
    BY <1>16, <2>1
<1>18. ASSUME NEW k \in Keys PROVE n[k] + o[k] = Has(v, d, k) + i[k] + Listed(q, k) /\ n[k] + o[k] >= 0
  <2>1. /\ n[k] \in Int /\ m[k] \in Int /\ i[k] \in Nat /\ Has(v, c, k) \in Nat /\ Has(v, d, k) \in Nat
        /\ Listed(j, k) \in Nat /\ Listed(q, k) \in Nat
    BY <1>14, <1>15, ListedType DEF Has
  <2>2. n[k] + m[k] = Has(v, c, k) + i[k] + Listed(j, k)
    BY <1>14 DEF Balanced
  <2>3. o[k] = m[k] - ((Listed(j, k) - Listed(q, k)) + (Has(v, c, k) - Has(v, d, k)))
    BY <1>15, <1>17
  <2> QED
    BY <2>1, <2>2, <2>3
<1>19. RefCounted!CommitToBatch(o) = [k \in Keys |-> n[k] + o[k]] /\ pc' = "marked"
  <2>1. /\ RefCounted!CommitToBatch(o) = [k \in Keys |-> n[k] + o[k]]
        /\ RefCounted!CommitFails(o) <=> \E k \in Keys : n[k] + o[k] < 0
    BY <1>12, <1>14, <1>17, CountsCommitted
  <2>2. ~ \E k \in Keys : n[k] + o[k] < 0
    <3> SUFFICES ASSUME NEW k \in Keys PROVE ~(n[k] + o[k] < 0)
      OBVIOUS
    <3>1. n[k] + o[k] \in Int
      BY <1>17
    <3> QED
      BY <1>18, <3>1
  <2> QED
    BY <1>7, <2>1, <2>2
<1>20. PICK z \in [Keys -> Int] : z = [k \in Keys |-> n[k] + o[k]]
  <2>1. \A k \in Keys : n[k] + o[k] \in Int
    BY <1>17
  <2> QED
    BY <2>1
<1>21. /\ batch' = [nodes |-> z, journal |-> q, latest |-> batch.latest, already_in |-> batch.already_in]
       /\ batch'.nodes = z /\ batch'.journal = q
       /\ batch'.latest = batch.latest /\ batch'.already_in = batch.already_in
  <2>1. PICK x, y : batch.latest = x /\ batch.already_in = y
    OBVIOUS
  <2>2. batch = [nodes |-> n, journal |-> j, latest |-> x, already_in |-> y]
    BY <1>12, <1>13, <2>1 DEF RefCountedInv
  <2>3. batch' = [nodes |-> z, journal |-> q, latest |-> x, already_in |-> y]
    BY <1>7, <1>19, <1>20, <2>2
  <2> QED
    BY <2>1, <2>3
<1>22. ViewsOK(v, d) /\ CountedOK(q, v, d)
  <2>1. ViewsOK(v, d) /\ Era(d) \in Eras /\ Above(v, d) = AboveBut(v, c, Era(d))
    BY <1>14, NextCanonical DEF AboveBut
  <2> QED
    BY <1>14, <2>1, CountedErased
<1>23. ASSUME NEW k \in Keys PROVE z[k] + EmptyMemory(Keys)[k] = Has(v, d, k) + i[k] + Listed(q, k)
  <2>1. z[k] = n[k] + o[k] /\ n[k] + o[k] = Has(v, d, k) + i[k] + Listed(q, k) /\ EmptyMemory(Keys)[k] = 0 /\ z[k] \in Int
    BY <1>18, <1>20, EmptyIs
  <2> QED
    BY <2>1
<1>24. views' = v /\ canon' = d /\ inserts' = i /\ EmptyMemory(Keys) \in [Keys -> Int]
  BY <1>7, <1>10, <1>12, <1>13 DEF EmptyMemory
<1>25. batch' = [nodes |-> batch'.nodes, journal |-> batch'.journal, latest |-> batch'.latest,
                 already_in |-> batch'.already_in]
  BY <1>21
<1> QED
  BY <1>7, <1>11, <1>19, <1>20, <1>21, <1>22, <1>23, <1>24, <1>25 DEF RefCountedInv, Balanced

LEMMA CountsInjects ==
  ASSUME RefCountedInv, RefCounted!Inject
  PROVE  RefCountedInv'
<1>1. PICK o : o = [k \in Keys |-> memory[k] - removes[k]]
  OBVIOUS
<1>2. PICK new : new = [db EXCEPT !.nodes = RefCounted!CommitToBatch(o)]
  OBVIOUS
<1>3. /\ RefCounted!Injected(new) /\ memory' = EmptyMemory(Keys)
      /\ inserts' = EmptyMemory(Keys) /\ removes' = EmptyMemory(Keys)
  BY <1>1, <1>2, SameInCounts DEF RefCounted!Inject
<1>4. /\ pc = "idle" /\ Known(views) = {Genesis}
      /\ views' = [views EXCEPT ![Genesis] = work]
      /\ kept' = [kept EXCEPT !.views = views'] /\ db' = new /\ batch' = new
      /\ UNCHANGED <<canon, tip, work, stray, pc>>
  BY <1>3, SameInCounts DEF RefCounted!Injected
<1>5. /\ ViewsOK(views, canon) /\ Building /\ db = batch
      /\ kept = [views |-> views, canon |-> canon, stray |-> stray]
  BY <1>4 DEF RefCountedInv, InStep
<1>6. /\ Building' /\ Replaced(views', views, canon, work)
      /\ kept' = [views |-> views', canon |-> canon', stray |-> stray']
      /\ tip = canon /\ work \in SUBSET Keys /\ views[canon] \in SUBSET Keys
  BY <1>3, <1>4, <1>5, BuildingInjects
<1>7. PICK n \in [Keys -> Int], m \in [Keys -> Int], i \in [Keys -> Nat], d \in [Keys -> Nat] :
        n = batch.nodes /\ m = memory /\ i = inserts /\ d = removes
  <2>1. batch.nodes \in [Keys -> Int] /\ memory \in [Keys -> Int]
    BY DEF RefCountedInv
  <2>2. inserts \in [Keys -> Nat] /\ removes \in [Keys -> Nat]
    BY <1>5 DEF Building
  <2> QED
    BY <2>1, <2>2, Zenon
<1>8. PICK v, u, c, w, j : v = views /\ u = views' /\ c = canon /\ w = work /\ j = batch.journal
  OBVIOUS
<1>9. /\ ViewsOK(v, c) /\ ViewsOK(u, c) /\ u[c] = w /\ c = Genesis /\ Known(u) = {Genesis} /\ Known(v) = {Genesis}
      /\ \A x : JournalOK(x, v, c) => JournalOK(x, u, c)
      /\ CountedOK(j, v, c) /\ Balanced(n, m, v, c, i, j)
  <2>1. CountedOK(j, v, c) /\ Balanced(n, m, v, c, i, j)
    BY <1>7, <1>8 DEF RefCountedInv, Balanced
  <2> QED
    BY <1>4, <1>5, <1>6, <1>8, <2>1 DEF Replaced
<1>10. Above(v, c) = {}
  BY <1>9, GenesisIsBlock DEF Above
<1>11. \A e \in Eras, x \in Indexes : j[e][x] = NoRecord
  BY <1>9, <1>10 DEF CountedOK
<1>12. CountedOK(j, u, c)
  <2>1. Plain(j, u) = Plain(j, v)
    BY <1>11 DEF Plain
  <2> QED
    BY <1>9, <1>11, <2>1 DEF CountedOK
<1>13. o \in [Keys -> Int] /\ \A k \in Keys : o[k] = m[k] - d[k]
  <2>1. o = [k \in Keys |-> m[k] - d[k]]
    BY <1>1, <1>7
  <2>2. \A k \in Keys : m[k] - d[k] \in Int
    OBVIOUS
  <2> QED
    BY <2>1, <2>2
<1>14. PICK z \in [Keys -> Int] : z = [k \in Keys |-> n[k] + o[k]] /\ z = RefCounted!CommitToBatch(o)
  <2>1. RefCounted!CommitToBatch(o) = [k \in Keys |-> n[k] + o[k]]
    BY <1>5, <1>7, <1>13, CountsCommitted
  <2>2. \A k \in Keys : n[k] + o[k] \in Int
    BY <1>13
  <2>3. [k \in Keys |-> n[k] + o[k]] \in [Keys -> Int]
    BY <2>2
  <2> QED
    BY <2>1, <2>3
<1>15. /\ new = [nodes |-> z, journal |-> j, latest |-> batch.latest, already_in |-> batch.already_in]
       /\ new.nodes = z /\ new.journal = j /\ new.latest = batch.latest /\ new.already_in = batch.already_in
  <2>1. PICK x, y : batch.latest = x /\ batch.already_in = y
    OBVIOUS
  <2>2. batch = [nodes |-> n, journal |-> j, latest |-> x, already_in |-> y]
    BY <1>7, <1>8, <2>1 DEF RefCountedInv
  <2>3. new = [nodes |-> z, journal |-> j, latest |-> x, already_in |-> y]
    BY <1>2, <1>5, <1>14, <2>2
  <2> QED
    BY <2>1, <2>3
<1>16. ASSUME NEW k \in Keys
       PROVE  z[k] + EmptyMemory(Keys)[k] = Has(u, c, k) + EmptyMemory(Keys)[k] + Listed(j, k)
  <2>1. n[k] \in Int /\ m[k] \in Int /\ i[k] \in Nat /\ d[k] \in Nat /\ EmptyMemory(Keys)[k] = 0 /\ Listed(j, k) = 0
    BY <1>11, ListedNothing, EmptyIs
  <2>2. n[k] + m[k] = Has(v, c, k) + i[k] + Listed(j, k)
    BY <1>9 DEF Balanced
  <2>3. i[k] - d[k] = Change(w, v[c])[k]
    BY <1>5, <1>6, <1>7, <1>8 DEF Building
  <2>4. Change(w, v[c])[k] = Has(u, c, k) - Has(v, c, k)
    BY <1>9 DEF Change, Has
  <2>5. z[k] = n[k] + (m[k] - d[k])
    BY <1>13, <1>14
  <2>6. Has(v, c, k) \in Int /\ Has(u, c, k) \in Int
    BY DEF Has
  <2> QED
    BY <2>1, <2>2, <2>3, <2>4, <2>5, <2>6
<1>17. InStep'
  <2>1. canon' = c /\ batch' = db'
    BY <1>4, <1>8
  <2> QED
    BY <1>6, <2>1 DEF InStep
<1>18. views' = u /\ canon' = c /\ batch' = new /\ db' = new /\ pc' = "idle" /\ EmptyMemory(Keys) \in [Keys -> Int]
  BY <1>4, <1>8 DEF EmptyMemory
<1>19. new = [nodes |-> new.nodes, journal |-> new.journal, latest |-> new.latest, already_in |-> new.already_in]
  BY <1>15
<1> QED
  BY <1>3, <1>6, <1>9, <1>12, <1>15, <1>16, <1>17, <1>18, <1>19 DEF RefCountedInv, Balanced

(* The counts of RefCountedDB, on disk or in the batch and in memory together, are
   those of the canonical state, of the records of the journal and of the state
   being built, at every step. *)
THEOREM RefCountedInductive == Spec => [](algorithm = "RefCounted" => RefCountedInv)
<1>1. Init => (algorithm = "RefCounted" => RefCountedInv)
  BY CountsStarts DEF Init
<1>2. ASSUME algorithm = "RefCounted" => RefCountedInv, [Next]_vars, algorithm' = "RefCounted"
      PROVE  RefCountedInv'
  <2>1. CASE UNCHANGED vars
    <3>1. RefCountedInv
      BY <1>2, <2>1 DEF vars
    <3> QED
      BY <2>1, <3>1, CountsStutters
  <2>2. CASE Next
    <3>1. NextRefCounted
      BY <1>2, <2>2 DEF Next, NextOverlayRecent, NextEarlyMerge, NextRefCounted, NextArchive,
         NotOverlayRecent, NotEarlyMerge, NotRefCounted, NotArchive
    <3>2. RefCountedInv
      BY <1>2, <3>1 DEF NextRefCounted
    <3> QED
      BY <3>1, <3>2, CountsInserts, CountsRemoves, CountsSwitches, CountsJournals, CountsMarks,
         CountsWrites, CountsInjects, CountsReopens DEF NextRefCounted
  <2> QED
    BY <1>2, <2>1, <2>2
<1>3. (algorithm = "RefCounted" => RefCountedInv) /\ [Next]_vars => (algorithm = "RefCounted" => RefCountedInv)'
  BY <1>2
<1> QED
  BY <1>1, <1>3, PTL DEF Spec

-------------------------------------------------------------------------------
(* RefCountedDB: what the invariant gives *)

(* What CountsExact adds up, by the fold of the library. *)
LEMMA ListedIs ==
  ASSUME NEW v, NEW c, ViewsOK(v, c), CountedOK(db.journal, v, c), NEW k \in Keys
  PROVE  RefCounted!Sets!MapThenSumSet(
           LAMBDA p : IF db.journal[p[1]][p[2]] = NoRecord THEN 0 ELSE db.journal[p[1]][p[2]].insertions[k],
           Positions) = Listed(db.journal, k)
<1>1. PICK j : j = db.journal /\ CountedOK(j, v, c)
  OBVIOUS
<1>2. PICK g : g = ListedAt(j, k)
  OBVIOUS
<1>3. g \in [Positions -> Int] /\ IsFiniteSet(Positions) /\ Listed(db.journal, k) = SumOver(g, Positions)
  <2>1. g \in [Positions -> Nat]
    BY <1>1, <1>2, ListedType
  <2> QED
    BY <1>1, <1>2, <2>1, PositionsFinite DEF Listed
<1> DEFINE Step(H) == H = [s \in SUBSET Positions |->
               IF s = {} THEN 0
               ELSE (IF db.journal[SumElement(s)[1]][SumElement(s)[2]] = NoRecord THEN 0
                     ELSE db.journal[SumElement(s)[1]][SumElement(s)[2]].insertions[k]) + H[s \ {SumElement(s)}]]
<1>4. RefCounted!Sets!MapThenSumSet(
        LAMBDA p : IF db.journal[p[1]][p[2]] = NoRecord THEN 0 ELSE db.journal[p[1]][p[2]].insertions[k],
        Positions) = (CHOOSE H : Step(H))[Positions]
  BY DEF RefCounted!Sets!MapThenSumSet, RefCounted!Sets!MapThenFoldSet, SumElement
<1>5. ASSUME NEW H PROVE Step(H) <=> SumStep(H, g, Positions)
  <2>1. ASSUME NEW s \in SUBSET Positions, s # {}
        PROVE  g[SumElement(s)] = IF db.journal[SumElement(s)[1]][SumElement(s)[2]] = NoRecord THEN 0
                                  ELSE db.journal[SumElement(s)[1]][SumElement(s)[2]].insertions[k]
    <3>1. SumElement(s) \in Positions
      BY <2>1 DEF SumElement
    <3> QED
      BY <1>1, <1>2, <3>1 DEF ListedAt
  <2>2. [s \in SUBSET Positions |->
               IF s = {} THEN 0
               ELSE (IF db.journal[SumElement(s)[1]][SumElement(s)[2]] = NoRecord THEN 0
                     ELSE db.journal[SumElement(s)[1]][SumElement(s)[2]].insertions[k]) + H[s \ {SumElement(s)}]]
          = [s \in SUBSET Positions |-> SumTerm(H, g, s)]
    BY <2>1 DEF SumTerm
  <2> QED
    BY <2>2 DEF SumStep
<1>6. \E H \in [SUBSET Positions -> Int] : SumStep(H, g, Positions)
  BY <1>3, SumExists
<1>7. PICK G : G = CHOOSE H : Step(H)
  OBVIOUS
<1>8. SumStep(G, g, Positions)
  <2> HIDE DEF Step
  <2> QED
    BY <1>5, <1>6, <1>7
<1>9. PICK K : K = CHOOSE H : SumStep(H, g, Positions)
  OBVIOUS
<1>10. SumStep(K, g, Positions)
  <2>1. \E H : SumStep(H, g, Positions)
    BY <1>6
  <2> QED
    BY <1>9, <2>1
<1>11. \A s \in SUBSET Positions : G[s] = K[s]
  BY <1>3, <1>8, <1>10, SumUnique
<1>12. G[Positions] = K[Positions]
  BY <1>11
<1> QED
  <2>1. SumOver(g, Positions) = K[Positions]
    BY <1>9 DEF SumOver
  <2> HIDE DEF Step
  <2> QED
    BY <1>3, <1>4, <1>7, <1>12, <2>1

LEMMA RefCountedExact ==
  ASSUME RefCountedInv
  PROVE  RefCounted!CountsExact
<1> SUFFICES ASSUME pc = "idle", NEW k \in Keys
             PROVE  db.nodes[k] + memory[k] =
                      (IF k \in views[canon] THEN 1 ELSE 0) + inserts[k]
                        + RefCounted!Sets!MapThenSumSet(
                            LAMBDA p : IF db.journal[p[1]][p[2]] = NoRecord THEN 0
                                         ELSE db.journal[p[1]][p[2]].insertions[k],
                            Positions)
  BY SameInCounts DEF RefCounted!CountsExact, Positions
<1>1. db = batch
  BY DEF RefCountedInv, InStep
<1>2. PICK v, c : v = views /\ c = canon /\ ViewsOK(v, c) /\ CountedOK(db.journal, v, c)
  BY <1>1 DEF RefCountedInv
<1>3. RefCounted!Sets!MapThenSumSet(
        LAMBDA p : IF db.journal[p[1]][p[2]] = NoRecord THEN 0 ELSE db.journal[p[1]][p[2]].insertions[k],
        Positions) = Listed(db.journal, k)
  BY <1>2, ListedIs
<1>4. db.nodes[k] + memory[k] = Has(views, canon, k) + inserts[k] + Listed(db.journal, k)
  BY <1>1 DEF RefCountedInv, Balanced
<1>5. Has(views, canon, k) = IF k \in views[canon] THEN 1 ELSE 0
  BY DEF Has
<1> QED
  BY <1>3, <1>4, <1>5

(* A block that adds a node has a record that inserts it. *)
LEMMA AddedIsListed ==
  ASSUME NEW v, NEW c, ViewsOK(v, c), NEW j, CountedOK(j, v, c), NEW k \in Keys, Adding(v, c, k) # {}
  PROVE  Listed(j, k) >= 1
<1>1. PICK b \in Above(v, c) : k \in v[b] /\ k \notin v[Parent(b)]
  BY DEF Adding, Added
<1>2. PICK e \in Eras, i \in Indexes : j[e][i] # NoRecord /\ j[e][i].id = b
  <2>1. Era(b) \in Eras
    BY AboveFacts
  <2> QED
    BY <2>1, CountedBlock
<1>3. PICK r : r = j[e][i] /\ r.insertions \in [Keys -> Nat] /\ r.deletions \in [Keys -> Nat] /\ Net(r, v) /\ r.id = b
  BY <1>2, CountedFacts
<1>4. r.insertions[k] >= 1
  <2>1. r.insertions[k] - r.deletions[k] = Change(v[b], v[Parent(b)])[k]
    BY <1>3 DEF Net
  <2>2. Change(v[b], v[Parent(b)])[k] = 1
    BY <1>1 DEF Change
  <2>3. r.insertions[k] \in Nat /\ r.deletions[k] \in Nat
    BY <1>3
  <2> QED
    BY <2>1, <2>2, <2>3
<1>5. PICK g \in [Positions -> Nat] : g = ListedAt(j, k) /\ \A p \in Positions : g[p] <= Listed(j, k)
  BY ListedType
<1>6. <<e, i>> \in Positions
  BY DEF Positions
<1>7. g[<<e, i>>] = r.insertions[k] /\ g[<<e, i>>] <= Listed(j, k)
  BY <1>2, <1>3, <1>5, <1>6 DEF ListedAt
<1>8. Listed(j, k) \in Nat /\ r.insertions[k] \in Nat
  BY <1>3, ListedType
<1> QED
  BY <1>4, <1>7, <1>8

LEMMA RefCountedReadable ==
  ASSUME RefCountedInv
  PROVE  RefCounted!LiveReadable
<1> SUFFICES ASSUME pc # "marked" PROVE RefCounted!NodesFound({k \in Keys : RefCounted!Found(k)})
  BY DEF RefCounted!LiveReadable
<1>1. /\ ViewsOK(views, canon) /\ Building /\ CountedOK(batch.journal, views, canon)
      /\ db.nodes = batch.nodes /\ batch.nodes \in [Keys -> Int] /\ memory \in [Keys -> Int]
  BY DEF RefCountedInv
<1>2. ASSUME NEW k \in Keys, Has(views, canon, k) >= 1 \/ inserts[k] >= 1 \/ Listed(batch.journal, k) >= 1
      PROVE  RefCounted!Found(k)
  <2>1. PICK h \in Nat, i \in Nat, l \in Nat, n \in Int, m \in Int :
          /\ h = Has(views, canon, k) /\ i = inserts[k] /\ l = Listed(batch.journal, k)
          /\ n = db.nodes[k] /\ m = memory[k]
    <3>1. Has(views, canon, k) \in Nat
      BY DEF Has
    <3>2. inserts[k] \in Nat
      BY <1>1 DEF Building
    <3>3. Listed(batch.journal, k) \in Nat
      BY <1>1, ListedType
    <3>4. db.nodes[k] \in Int /\ memory[k] \in Int
      BY <1>1
    <3> QED
      BY <3>1, <3>2, <3>3, <3>4, Zenon
  <2>2. batch.nodes[k] + memory[k] = Has(views, canon, k) + inserts[k] + Listed(batch.journal, k)
    BY DEF RefCountedInv, Balanced
  <2>3. n + m = h + i + l
    BY <1>1, <2>1, <2>2
  <2>4. h >= 1 \/ i >= 1 \/ l >= 1
    BY <1>2, <2>1
  <2>5. m > 0 \/ (n > 0 /\ n + m > 0)
    BY <2>3, <2>4
  <2> QED
    BY <2>1, <2>5 DEF RefCounted!Found, RefCounted!Contains
<1>3. ASSUME NEW b \in Known(views), Extends(b, canon), NEW k \in views[b]
      PROVE  k \in Keys /\ RefCounted!Found(k)
  <2>1. PICK v, c, j : v = views /\ c = canon /\ j = batch.journal
    OBVIOUS
  <2>2. ViewsOK(v, c) /\ b \in Known(v) /\ Extends(b, c) /\ k \in v[b] /\ CountedOK(j, v, c)
    BY <1>1, <1>3, <2>1
  <2>3. k \in Keys /\ (k \in v[c] \/ Adding(v, c, k) # {})
    BY <2>2, KnownFacts, Covered
  <2>4. Has(v, c, k) >= 1 \/ Listed(j, k) >= 1
    BY <2>2, <2>3, AddedIsListed DEF Has
  <2> QED
    BY <1>2, <2>1, <2>3, <2>4
<1>4. ASSUME NEW k \in work
      PROVE  k \in Keys /\ RefCounted!Found(k)
  <2>1. k \in Keys /\ tip \in Known(views) /\ Extends(tip, canon)
        /\ inserts[k] - removes[k] = Change(work, views[tip])[k] /\ inserts[k] \in Nat /\ removes[k] \in Nat
    BY <1>1 DEF Building
  <2>2. CASE k \in views[tip]
    BY <1>3, <2>1, <2>2
  <2>3. CASE k \notin views[tip]
    <3>1. Change(work, views[tip])[k] = 1
      BY <2>1, <2>3 DEF Change
    <3>2. inserts[k] >= 1
      BY <2>1, <3>1
    <3> QED
      BY <1>2, <2>1, <3>2
  <2> QED
    BY <2>2, <2>3
<1>5. \A b \in RefCounted!Live : b \in Known(views) /\ Extends(b, canon)
  BY SameInCounts DEF RefCounted!Live
<1> QED
  BY <1>3, <1>4, <1>5 DEF RefCounted!NodesFound

LEMMA RefCountedNeverFails ==
  ASSUME RefCountedInv
  PROVE  RefCounted!CountsSuffice
BY DEF RefCountedInv, RefCounted!CountsSuffice

-------------------------------------------------------------------------------
(* The properties of the runs *)

LEMMA OneOfFour == Spec => [](algorithm \in {"OverlayRecent", "EarlyMerge", "RefCounted", "Archive"})
<1>1. Init => algorithm \in {"OverlayRecent", "EarlyMerge", "RefCounted", "Archive"}
  BY DEF Init
<1>2. algorithm \in {"OverlayRecent", "EarlyMerge", "RefCounted", "Archive"} /\ [Next]_vars
      => (algorithm \in {"OverlayRecent", "EarlyMerge", "RefCounted", "Archive"})'
  BY DEF Next, vars, NextOverlayRecent, NextEarlyMerge, NextRefCounted, NextArchive,
         NotOverlayRecent, NotEarlyMerge, NotRefCounted, NotArchive
<1> QED
  BY <1>1, <1>2, PTL DEF Spec

(* None of the four databases loses a node of a block that may still become
   canonical: at every step of a commit of OverlayRecentDB, ArchiveDB and, but for
   the wait between a mark and the write of its batch, RefCountedDB, between two
   commits of EarlyMergeDB, after every restart that the model has, whatever the
   forks, and whatever the read cache holds. *)
THEOREM NothingIsLost == Spec => []LiveReadable
<1>1. /\ algorithm \in {"OverlayRecent", "EarlyMerge", "RefCounted", "Archive"}
      /\ algorithm = "OverlayRecent" => OverlayRecentInv
      /\ algorithm = "EarlyMerge" => EarlyMergeInv
      /\ algorithm = "RefCounted" => RefCountedInv
      /\ algorithm = "Archive" => ArchiveInv
      => LiveReadable
  BY OverlayRecentReadable, EarlyMergeReadable, RefCountedReadable, ArchiveReadable DEF LiveReadable
<1> QED
  BY <1>1, OneOfFour, OverlayRecentInductive, EarlyMergeInductive, RefCountedInductive, ArchiveInductive, PTL

(* Between two commits the overlay in memory of OverlayRecentDB is the one that
   read_overlay would make of the backing, and the counts and archive flags in
   memory of EarlyMergeDB are those that read_refs would make of it. *)
THEOREM MemoryIsReconstructed == Spec => []Reconstructs
<1>1. /\ algorithm = "OverlayRecent" => OverlayRecentInv
      /\ algorithm = "EarlyMerge" => EarlyMergeInv
      => Reconstructs
  BY OverlayRecentReconstructs, EarlyMergeReconstructs DEF Reconstructs
<1> QED
  BY <1>1, OverlayRecentInductive, EarlyMergeInductive, PTL

(* When its journal is empty, OverlayRecentDB has on disk the canonical state and
   beyond it only what abandoned blocks had inserted; EarlyMergeDB has, whatever
   its journal, exactly the canonical state and what blocks of the journal insert;
   RefCountedDB counts a node as often as the canonical state, the records of its
   journal and the state being built use it. *)
THEOREM BackingIsPruned == Spec => []BackingExact
<1>1. /\ algorithm = "OverlayRecent" => OverlayRecentInv
      /\ algorithm = "EarlyMerge" => EarlyMergeInv
      /\ algorithm = "RefCounted" => RefCountedInv
      => BackingExact
  BY OverlayRecentPruned, EarlyMergePruned, RefCountedExact DEF BackingExact
<1> QED
  BY <1>1, OverlayRecentInductive, EarlyMergeInductive, RefCountedInductive, PTL

(* insert_keys of EarlyMergeDB never meets a flag that outlived its record, and
   inject never meets a node that is there already or one that is missing;
   commit_to_batch of RefCountedDB never finds fewer references than it removes. *)
THEOREM AssertionsNeverFail == Spec => []NothingFails
<1>1. /\ algorithm = "EarlyMerge" => EarlyMergeInv
      /\ algorithm = "RefCounted" => RefCountedInv
      => NothingFails
  BY EarlyMergeNeverFails, RefCountedNeverFails DEF NothingFails
<1> QED
  BY <1>1, EarlyMergeInductive, RefCountedInductive, PTL
==============================================================================
