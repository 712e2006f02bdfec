--------------------------- MODULE DBAccessProofs ----------------------------
(***************************************************************************)
(* DBAccess is a volatile map over a durable one, for a tree of any depth. *)
(* The layout must not place two nodes at one position: that is a fact     *)
(* about powers of two.                                                    *)
(***************************************************************************)
EXTENDS DBAccess, NumberLemmas

------------------------------------------------------------------------------
(* The layout. *)

(* The fields of a node. *)
LEMMA NodeFields ==
  ASSUME NEW k \in Nodes
  PROVE  /\ k = [depth |-> k.depth, index |-> k.index]
         /\ k.depth \in 0..Depths
         /\ 2^k.depth \in Nat /\ 2^k.depth >= 1
         /\ k.index \in 0..(2^k.depth - 1)
<1>1. PICK d \in 0..Depths : k \in [depth : {d}, index : 0..(2^d - 1)]
  BY DEF Nodes
<1>2. d \in Nat /\ k.depth = d
  BY <1>1, AccessConstants
<1> QED BY <1>1, <1>2, PowerPositive

(* FlattenTree::position places the nodes of a depth above those of the
   shallower ones. *)
LEMMA PositionBounds ==
  ASSUME NEW k \in Nodes
  PROVE  /\ Position(k) \in Nat
         /\ 2^k.depth <= Position(k)
         /\ Position(k) < 2^(k.depth + 1)
<1>1. k.depth \in Nat /\ 2^k.depth \in Nat /\ k.index \in 0..(2^k.depth - 1)
  BY NodeFields, AccessConstants
<1>2. 2^(k.depth + 1) = 2^k.depth + 2^k.depth
  BY <1>1, PowerDoubles
<1> DEFINE p == 2^k.depth
<1>3. Position(k) = p + k.index
  BY DEF Position
<1> HIDE DEF p
<1>4. p \in Nat /\ k.index \in 0..(p - 1)
  BY <1>1 DEF p
<1>5. Position(k) \in Nat /\ p <= Position(k) /\ Position(k) < p + p
  BY <1>3, <1>4
<1> QED BY <1>2, <1>5 DEF p

(* Every node has a position of the column. *)
LEMMA PositionType ==
  ASSUME NEW k \in Nodes
  PROVE  Position(k) \in Positions
<1>1. k.depth \in Nat /\ k.depth + 1 <= Depths + 1 /\ Depths + 1 \in Nat /\ k.depth + 1 \in Nat
  BY NodeFields, AccessConstants
<1>2. 2^k.depth \in Nat /\ 2^k.depth >= 1
  BY NodeFields
<1>3. 2^(k.depth + 1) <= 2^(Depths + 1)
  BY <1>1, PowerMonotone
<1>4. 2^(k.depth + 1) \in Nat /\ 2^(Depths + 1) \in Nat
  BY <1>1, PowerPositive
<1> QED BY <1>2, <1>3, <1>4, PositionBounds DEF Positions

(* No two nodes share a position: flush_cache never writes one over another. *)
LEMMA PositionInjective ==
  ASSUME NEW j \in Nodes, NEW k \in Nodes, Position(j) = Position(k)
  PROVE  j = k
<1>1. ASSUME NEW a \in Nodes, NEW b \in Nodes, a.depth < b.depth
      PROVE  Position(a) < Position(b)
  <2>1. a.depth \in Nat /\ b.depth \in Nat /\ a.depth + 1 \in Nat /\ a.depth + 1 <= b.depth
    BY <1>1, NodeFields, AccessConstants
  <2>2. 2^(a.depth + 1) <= 2^b.depth
    BY <2>1, PowerMonotone
  <2>3. 2^(a.depth + 1) \in Nat /\ 2^b.depth \in Nat
    BY <2>1, PowerPositive
  <2>4. Position(a) \in Nat /\ Position(a) < 2^(a.depth + 1)
    BY PositionBounds
  <2>5. Position(b) \in Nat /\ 2^b.depth <= Position(b)
    BY PositionBounds
  <2> QED BY <2>2, <2>3, <2>4, <2>5
<1>2. Position(j) \in Nat /\ Position(k) \in Nat
  BY PositionBounds
<1>3. ~(j.depth < k.depth) /\ ~(k.depth < j.depth)
  BY <1>1, <1>2
<1>4. j.depth = k.depth
  BY <1>3, NodeFields, AccessConstants
<1>5. j.index = k.index
  BY <1>4, NodeFields DEF Position
<1> QED BY <1>4, <1>5, NodeFields

------------------------------------------------------------------------------
(* The cache. *)

Entry == [val : Values, dirty : BOOLEAN]

AccessType ==
  /\ cache \in [Nodes -> Entry \cup {Vacant}]
  /\ db \in [Positions -> Values \cup {Vacant}]
  /\ read \in [key : Nodes, val : Values] \cup {NoRead}

(* A cached entry that is not dirty is what the database holds, or the flush
   would lose an update. *)
CleanEntriesStored ==
  \A k \in Nodes : cache[k] # Vacant /\ ~cache[k].dirty => cache[k].val = Loaded(k)

AccessInv == AccessType /\ CleanEntriesStored

(* The marker of a missing entry is neither a value nor an entry. *)
LEMMA VacantIsNoEntry == Vacant \notin Entry /\ Vacant \notin Values /\ Default \in Values
BY AccessConstants DEF Entry

(* What get_mut and set leave in the cache. *)
LEMMA MarkedEntry ==
  ASSUME NEW v \in Values
  PROVE  [val |-> v, dirty |-> TRUE] \in Entry
<1>1. TRUE \in BOOLEAN
  OBVIOUS
<1> QED BY <1>1 DEF Entry

(* What ensure_cached loads is a value, and what it leaves is an entry. *)
LEMMA LoadTypes ==
  ASSUME AccessType, NEW k \in Nodes
  PROVE  /\ Loaded(k) \in Values
         /\ EnsureCached(k) \in Entry
         /\ EnsureCached(k).val \in Values
<1>1. Loaded(k) \in Values
  BY PositionType, VacantIsNoEntry DEF AccessType, Loaded
<1>2. EnsureCached(k) \in Entry
  BY <1>1 DEF AccessType, EnsureCached, Entry
<1> QED BY <1>1, <1>2 DEF Entry

(* An entry that is not marked dirty, or is not there, stands for what the
   database holds. *)
LEMMA CleanView ==
  ASSUME AccessInv, NEW k \in Nodes, cache[k] = Vacant \/ ~cache[k].dirty
  PROVE  EnsureCached(k).val = Loaded(k)
BY DEF AccessInv, CleanEntriesStored, EnsureCached

(* flush_cache: a marked entry is what the database holds afterwards, and a
   node without one keeps what it had. *)
LEMMA FlushedNode ==
  ASSUME AccessInv, FlushCache, NEW k \in Nodes
  PROVE  Loaded(k)' = EnsureCached(k).val
<1> DEFINE Written(j, p) == Position(j) = p /\ cache[j] # Vacant /\ cache[j].dirty
<1>1. db'[Position(k)] = IF \E j \in Nodes : Written(j, Position(k))
                           THEN cache[CHOOSE j \in Nodes : Written(j, Position(k))].val
                           ELSE db[Position(k)]
  BY PositionType DEF FlushCache
<1>2. \A j \in Nodes : Written(j, Position(k)) => j = k
  BY PositionInjective
<1>3. CASE Written(k, Position(k))
  <2>1. (CHOOSE j \in Nodes : Written(j, Position(k))) = k
    BY <1>2, <1>3
  <2>2. db'[Position(k)] = cache[k].val
    BY <1>1, <1>3, <2>1
  <2>3. cache[k].val \in Values /\ cache[k] # Vacant
    BY <1>3 DEF AccessInv, AccessType, Entry
  <2> QED BY <2>2, <2>3, VacantIsNoEntry DEF Loaded, EnsureCached
<1>4. CASE ~Written(k, Position(k))
  <2>1. db'[Position(k)] = db[Position(k)]
    BY <1>1, <1>2, <1>4
  <2>2. Loaded(k)' = Loaded(k)
    BY <2>1 DEF Loaded
  <2> QED BY <1>4, <2>2, CleanView
<1> QED BY <1>3, <1>4

(* flush_cache writes values to the column. *)
LEMMA FlushedColumn ==
  ASSUME AccessInv, FlushCache
  PROVE  db' \in [Positions -> Values \cup {Vacant}]
<1> DEFINE Written(j, p) == Position(j) = p /\ cache[j] # Vacant /\ cache[j].dirty
<1>1. ASSUME NEW p \in Positions, \E j \in Nodes : Written(j, p)
      PROVE  cache[CHOOSE j \in Nodes : Written(j, p)].val \in Values
  <2> DEFINE j == CHOOSE i \in Nodes : Written(i, p)
  <2>1. j \in Nodes /\ cache[j] # Vacant
    BY <1>1
  <2> HIDE DEF j
  <2>2. cache[j].val \in Values
    BY <2>1 DEF AccessInv, AccessType, Entry
  <2> QED BY <2>2 DEF j
<1>2. \A p \in Positions : db[p] \in Values \cup {Vacant}
  BY DEF AccessInv, AccessType
<1> QED BY <1>1, <1>2 DEF FlushCache

------------------------------------------------------------------------------

(* A new DBAccess over an empty column. *)
LEMMA AccessInit == Init => AccessInv
BY DEF Init, AccessInv, AccessType, CleanEntriesStored, EmptyCache

(* Every operation keeps the types and the clean entries. *)
LEMMA AccessNext == AccessInv /\ [Next]_vars => AccessInv'
<1> SUFFICES ASSUME AccessInv, [Next]_vars
             PROVE  AccessInv'
  OBVIOUS
<1> USE VacantIsNoEntry
<1>1. ASSUME NEW k \in Nodes, Get(k)
      PROVE  AccessInv'
  <2>1. EnsureCached(k) \in Entry /\ EnsureCached(k).val \in Values
    BY LoadTypes DEF AccessInv
  <2>2. AccessType'
    BY <1>1, <2>1 DEF AccessInv, AccessType, Get
  <2>3. ASSUME NEW j \in Nodes, cache'[j] # Vacant, ~cache'[j].dirty
        PROVE  cache'[j].val = Loaded(j)'
    <3>1. Loaded(j)' = Loaded(j)
      BY <1>1 DEF Get, Loaded
    <3>2. cache'[j] = IF j = k THEN EnsureCached(k) ELSE cache[j]
      BY <1>1 DEF AccessInv, AccessType, Get
    <3> QED BY <2>3, <3>1, <3>2 DEF AccessInv, CleanEntriesStored, EnsureCached
  <2> QED BY <2>2, <2>3 DEF AccessInv, CleanEntriesStored
<1>2. ASSUME NEW k \in Nodes, NEW v \in Values, GetMut(k, v) \/ Set(k, v)
      PROVE  AccessInv'
  <2>1. AccessType'
    BY <1>2, MarkedEntry DEF AccessInv, AccessType, GetMut, Set
  <2>2. ASSUME NEW j \in Nodes, cache'[j] # Vacant, ~cache'[j].dirty
        PROVE  cache'[j].val = Loaded(j)'
    <3>1. Loaded(j)' = Loaded(j)
      BY <1>2 DEF GetMut, Set, Loaded
    <3>2. cache'[j] = IF j = k THEN [val |-> v, dirty |-> TRUE] ELSE cache[j]
      BY <1>2 DEF AccessInv, AccessType, GetMut, Set
    <3> QED BY <2>2, <3>1, <3>2 DEF AccessInv, CleanEntriesStored
  <2> QED BY <2>1, <2>2 DEF AccessInv, CleanEntriesStored
<1>3. CASE FlushCache
  <2>1. cache' = EmptyCache /\ read' = read
    BY <1>3 DEF FlushCache
  <2> QED BY <1>3, <2>1, FlushedColumn DEF AccessInv, AccessType, CleanEntriesStored, EmptyCache
<1>4. CASE Reopen
  BY <1>4 DEF AccessInv, AccessType, CleanEntriesStored, EmptyCache, Reopen
<1>5. CASE UNCHANGED vars
  BY <1>5 DEF AccessInv, AccessType, CleanEntriesStored, Loaded, vars
<1> QED BY <1>1, <1>2, <1>3, <1>4, <1>5 DEF Next

(* A cached entry that get_mut and set did not mark is what the database holds,
   in a tree of any depth, so flush_cache may leave it out. *)
THEOREM CleanEntries == Spec => []CleanEntriesStored
<1>1. AccessInv => CleanEntriesStored
  BY DEF AccessInv
<1> QED BY <1>1, AccessInit, AccessNext, PTL DEF Spec

------------------------------------------------------------------------------
(* The refinement. *)

View == [k \in Nodes |-> EnsureCached(k).val]
Stored == [k \in Nodes |-> Loaded(k)]

(* An empty column reads as default values everywhere. *)
LEMMA MapInit == Init => Map!Init
<1> SUFFICES ASSUME Init PROVE Map!Init
  OBVIOUS
<1>1. ASSUME NEW k \in Nodes
      PROVE  Loaded(k) = Default /\ EnsureCached(k).val = Default
  BY <1>1, PositionType DEF Init, Loaded, EnsureCached, EmptyCache
<1> QED BY <1>1 DEF Map!Init, Init

(* Every operation of DBAccess is an operation of the map, or changes nothing
   that shows: get reads, get_mut and set write, flush_cache makes the view
   durable although only marked entries are written, and a new DBAccess starts
   from what is stored. *)
LEMMA MapNext ==
  AccessInv /\ [Next]_vars => [Map!Next]_<<View, Stored, read>>
<1> SUFFICES ASSUME AccessInv, [Next]_vars
             PROVE  [Map!Next]_<<View, Stored, read>>
  OBVIOUS
<1> USE VacantIsNoEntry
<1>1. ASSUME NEW k \in Nodes, Get(k)
      PROVE  Map!Read(k)
  <2>1. EnsureCached(k) \in Entry
    BY LoadTypes DEF AccessInv
  <2>2. ASSUME NEW j \in Nodes
        PROVE  Loaded(j)' = Loaded(j) /\ EnsureCached(j)' = EnsureCached(j)
    <3>1. Loaded(j)' = Loaded(j)
      BY <1>1 DEF Get, Loaded
    <3>2. cache'[j] = IF j = k THEN EnsureCached(k) ELSE cache[j]
      BY <1>1 DEF AccessInv, AccessType, Get
    <3> QED BY <2>1, <3>1, <3>2 DEF EnsureCached
  <2> QED BY <1>1, <2>2 DEF Map!Read, Get
<1>2. ASSUME NEW k \in Nodes, NEW v \in Values, GetMut(k, v) \/ Set(k, v)
      PROVE  Map!Write(k, v)
  <2>1. ASSUME NEW j \in Nodes
        PROVE  /\ Loaded(j)' = Loaded(j)
               /\ EnsureCached(j)'.val = IF j = k THEN v ELSE EnsureCached(j).val
    <3>1. Loaded(j)' = Loaded(j)
      BY <1>2 DEF GetMut, Set, Loaded
    <3>2. cache'[j] = IF j = k THEN [val |-> v, dirty |-> TRUE] ELSE cache[j]
      BY <1>2 DEF AccessInv, AccessType, GetMut, Set
    <3>3. [val |-> v, dirty |-> TRUE] # Vacant
      BY MarkedEntry
    <3> QED BY <3>1, <3>2, <3>3 DEF EnsureCached
  <2> QED BY <1>2, <2>1 DEF Map!Write, GetMut, Set
<1>3. ASSUME FlushCache
      PROVE  Map!Flush
  <2>1. ASSUME NEW j \in Nodes
        PROVE  /\ Loaded(j)' = EnsureCached(j).val
               /\ EnsureCached(j)'.val = EnsureCached(j).val
    <3>1. Loaded(j)' = EnsureCached(j).val
      BY <1>3, FlushedNode
    <3>2. cache'[j] = Vacant
      BY <1>3 DEF FlushCache, EmptyCache
    <3> QED BY <3>1, <3>2 DEF EnsureCached
  <2> QED BY <1>3, <2>1 DEF Map!Flush, FlushCache
<1>4. ASSUME Reopen
      PROVE  Map!Drop
  <2>1. ASSUME NEW j \in Nodes
        PROVE  Loaded(j)' = Loaded(j) /\ EnsureCached(j)'.val = Loaded(j)
    BY <1>4 DEF Reopen, EmptyCache, EnsureCached, Loaded
  <2> QED BY <1>4, <2>1 DEF Map!Drop, Reopen
<1>5. CASE UNCHANGED vars
  <2>1. \A j \in Nodes : Loaded(j)' = Loaded(j) /\ EnsureCached(j)' = EnsureCached(j)
    BY <1>5 DEF vars, Loaded, EnsureCached
  <2> QED BY <1>5, <2>1 DEF vars, View, Stored
<1> QED BY <1>1, <1>2, <1>3, <1>4, <1>5 DEF Next, Map!Next

(* A DBAccess over a tree layout of any depth, with any values, is a volatile
   map over a durable one: its cache, its dirty flags and its layout do not
   show. *)
THEOREM AccessIsCachedMap == Spec => ImplementsCachedMap
<1>1. Spec => []AccessInv
  BY AccessInit, AccessNext, PTL DEF Spec
<1>2. AccessInv /\ [Next]_vars => [Map!Next]_<<View, Stored, read>>
  BY MapNext
<1> QED BY <1>1, <1>2, MapInit, PTL DEF Spec, ImplementsCachedMap, Map!Spec, View, Stored

==============================================================================
