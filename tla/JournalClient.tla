---------------------------- MODULE JournalClient ----------------------------
(***************************************************************************)
(* The use a state trie makes of a JournalDB (parity-journaldb): blocks    *)
(* that fork, each with the set of trie nodes its state needs.  A block is *)
(* named by the ids on its path from the genesis state, so that its era is *)
(* the length of its name.  The trie inserts a node only when its state    *)
(* lacks it and removes one only when its state has it; blocks are marked  *)
(* canonical in the order of their eras, each below the one before.        *)
(***************************************************************************)
EXTENDS Integers, Sequences, FiniteSets

CONSTANTS
  Keys,       \* hashes of trie nodes
  Ids,        \* tells apart the blocks journalled on one parent
  MaxEra,     \* bound: eras
  MaxBlocks,  \* bound: journalled blocks
  NoView      \* the block was never journalled

ASSUME ClientConstants ==
  /\ MaxEra \in Nat \ {0}
  /\ MaxBlocks \in Nat \ {0}
  /\ IsFiniteSet(Keys)
  /\ \A nodes \in SUBSET Keys : NoView # nodes

VARIABLES
  views,    \* nodes each journalled block needs
  canon,    \* the latest canonical block
  tip,      \* the block the trie is being changed from
  work,     \* nodes of the state being built
  stray,    \* nodes that abandoned blocks had inserted
  kept      \* what of the above is known to be in the database

clientVars == <<views, canon, tip, work, stray, kept>>

Genesis == << >>
Blocks == UNION {[1..n -> Ids] : n \in 0..MaxEra}
Eras == 0..(MaxEra - 1)
Era(b) == Len(b) - 1

Journalled == {b \in Blocks : views[b] # NoView}
Extends(b, c) == Len(c) <= Len(b) /\ SubSeq(b, 1, Len(c)) = c

(* The blocks whose state must stay available. *)
Live == {b \in Journalled : Extends(b, canon)}

ClientInit ==
  /\ views = [b \in Blocks |-> IF b = Genesis THEN {} ELSE NoView]
  /\ canon = Genesis
  /\ tip = Genesis
  /\ work = {}
  /\ stray = {}
  /\ kept = [views |-> views, canon |-> canon, stray |-> stray]

(* The trie adds or drops a node. *)
AddNode(k) ==
  /\ k \notin work
  /\ work' = work \cup {k}
  /\ UNCHANGED <<views, canon, tip, stray, kept>>

DropNode(k) ==
  /\ k \in work
  /\ work' = work \ {k}
  /\ UNCHANGED <<views, canon, tip, stray, kept>>

(* Without uncommitted changes, another live block is built on. *)
Checkout(b) ==
  /\ b \in Live
  /\ tip' = b
  /\ work' = views[b]
  /\ UNCHANGED <<views, canon, stray, kept>>

(* The state built becomes block b. *)
AddBlock(b) ==
  /\ b \in Blocks
  /\ views[b] = NoView
  /\ Cardinality(Journalled) <= MaxBlocks
  /\ views' = [views EXCEPT ![b] = work]
  /\ tip' = b
  /\ UNCHANGED <<canon, work, stray, kept>>

(* May block b be marked canonical, with or without uncommitted changes? *)
CanonicalNext(b, clean) ==
  /\ b \in Live
  /\ Len(b) = Len(canon) + 1
  /\ clean \/ Extends(tip, b)

(* Block b is canonical; blocks that lost took the nodes lost with them. *)
AddCanonical(b, lost) ==
  /\ canon' = b
  /\ stray' = stray \cup lost
  /\ tip' = IF Extends(tip, b) THEN tip ELSE b
  /\ work' = IF Extends(tip, b) THEN work ELSE views[b]
  /\ UNCHANGED <<views, kept>>

(* The database holds everything done so far. *)
Persisted ==
  /\ kept' = [views |-> views, canon |-> canon, stray |-> stray]
  /\ UNCHANGED <<views, canon, tip, work, stray>>

(* A new process finds what the database holds. *)
ClientReopen ==
  /\ views' = kept.views
  /\ canon' = kept.canon
  /\ stray' = kept.stray
  /\ tip' = kept.canon
  /\ work' = kept.views[kept.canon]
  /\ UNCHANGED kept
==============================================================================
