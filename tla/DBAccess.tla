------------------------------ MODULE DBAccess -------------------------------
(***************************************************************************)
(* DBAccess (lvmt-db/src/storage/access.rs): a write-back cache over one   *)
(* prefix of a database column, here with the tree layout, which places    *)
(* node (depth, index) at position 2^depth + index.  Only entries marked   *)
(* dirty are written by flush_cache, which then drops the whole cache.     *)
(***************************************************************************)
EXTENDS Integers

CONSTANTS
  Depths,   \* depth of the tree that is laid out
  Values,   \* values of a node
  Default,  \* V::default(), what a node that was never stored reads as
  Vacant,   \* no entry: in the cache, or in the column
  NoRead    \* nothing was read yet

ASSUME AccessConstants ==
  /\ Depths \in Nat
  /\ Default \in Values
  /\ Vacant \notin Values \cup [val : Values, dirty : BOOLEAN]

VARIABLES
  cache,    \* entries [val, dirty], or Vacant
  db,       \* the column: position -> stored value, or Vacant
  read      \* the key and the value of the latest get, or NoRead

vars == <<cache, db, read>>

Nodes == UNION {[depth : {d}, index : 0..(2^d - 1)] : d \in 0..Depths}
Positions == 1..(2^(Depths + 1) - 1)

(* Mutant of Position: the depth is ignored. *)
PositionNoDepth(k) == 1 + k.index

(* FlattenTree::position. *)
Position(k) == 2^k.depth + k.index

(* The value ensure_cached loads for a key that is not cached. *)
Loaded(k) == IF db[Position(k)] = Vacant THEN Default ELSE db[Position(k)]

(* The cache entry after ensure_cached. *)
EnsureCached(k) ==
  IF cache[k] = Vacant THEN [val |-> Loaded(k), dirty |-> FALSE] ELSE cache[k]

EmptyCache == [k \in Nodes |-> Vacant]

Init ==
  /\ cache = EmptyCache
  /\ db = [p \in Positions |-> Vacant]
  /\ read = NoRead

Get(k) ==
  /\ cache' = [cache EXCEPT ![k] = EnsureCached(k)]
  /\ read' = [key |-> k, val |-> EnsureCached(k).val]
  /\ UNCHANGED db

(* Mutant of GetMut: the entry is not marked. *)
GetMutClean(k, v) ==
  /\ cache' = [cache EXCEPT ![k] = [val |-> v, dirty |-> EnsureCached(k).dirty]]
  /\ UNCHANGED <<db, read>>

(* get_mut, and what the caller leaves behind the reference. *)
GetMut(k, v) ==
  /\ cache' = [cache EXCEPT ![k] = [val |-> v, dirty |-> TRUE]]
  /\ UNCHANGED <<db, read>>

(* Used by StaticMerkleTree::dump; same effect without the load. *)
Set(k, v) ==
  /\ cache' = [cache EXCEPT ![k] = [val |-> v, dirty |-> TRUE]]
  /\ UNCHANGED <<db, read>>

FlushCache ==
  /\ db' = [p \in Positions |->
              IF \E k \in Nodes : Position(k) = p /\ cache[k] # Vacant /\ cache[k].dirty
                THEN cache[CHOOSE k \in Nodes : Position(k) = p /\ cache[k] # Vacant
                                                 /\ cache[k].dirty].val
                ELSE db[p]]
  /\ cache' = EmptyCache
  /\ UNCHANGED read

(* The process ends, or the tree is dropped: a new DBAccess starts empty. *)
Reopen ==
  /\ cache' = EmptyCache
  /\ read' = NoRead
  /\ UNCHANGED db

Next ==
  \/ \E k \in Nodes : Get(k)
  \/ \E k \in Nodes, v \in Values : GetMut(k, v)
  \/ \E k \in Nodes, v \in Values : Set(k, v)
  \/ FlushCache
  \/ Reopen

Spec == Init /\ [][Next]_vars
------------------------------------------------------------------------------
Map == INSTANCE CachedMap WITH
  Keys    <- Nodes,
  view    <- [k \in Nodes |-> EnsureCached(k).val],
  durable <- [k \in Nodes |-> Loaded(k)]

(* The cache, its dirty flags and the layout do not show: a DBAccess is a
   volatile map over a durable one. *)
ImplementsCachedMap == Map!Spec
==============================================================================
