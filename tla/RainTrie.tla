------------------------------ MODULE RainTrie -------------------------------
(***************************************************************************)
(* MerklePatriciaTree<N> (rainblock-trie), the store behind RainMpt.  The  *)
(* N topmost levels of the trie live in memory only and are written by     *)
(* flush_all; commit writes the levels below and drops them from memory.   *)
(* Nodes are stored under their hash; a node whose encoding is shorter     *)
(* than a hash is embedded in its parent instead.                          *)
(*                                                                         *)
(* A hash stands for the content it is computed from (Content below), and  *)
(* the weak pointers that exile_nodes and loaded_node hold are marks on    *)
(* the nodes: both die when make_mut moves the node.                       *)
(***************************************************************************)
EXTENDS Integers, Sequences, FiniteSets

Seqs == INSTANCE SequencesExt
Fold == INSTANCE FiniteSetsExt

CONSTANTS
  Keys,        \* keys, as nibble lists of even length
  ValueSize,   \* the values and their lengths in bytes
  ValuesOf,    \* what a key may be set to
  Depths,      \* the values of N that are checked
  MaxSet,      \* bound: keys that have a value
  MaxChanged,  \* bound: keys whose value is not the committed one
  DelAfterLoad,\* may keys be deleted below which a search has loaded nodes?
  Absent       \* no value

ASSUME RainConstants ==
  /\ \A k \in Keys : Len(k) > 0 /\ Len(k) % 2 = 0
  /\ Depths \subseteq Nat \ {0}
  /\ \A v \in DOMAIN ValueSize : v # Absent /\ ValueSize[v] \in Nat \ {0}
  /\ ValuesOf \in [Keys -> SUBSET DOMAIN ValueSize]

VARIABLES
  N,          \* TOP_LAYER_DEPTH
  root,       \* the trie in memory
  del_ops,    \* hashes of stored nodes that were changed
  nodes,      \* the hashes under which the database has a node
  root_key,   \* the hash under ROOT_KEY
  map,        \* what was put, and
  committed,  \* what of it was committed
  saved,      \* has flush_all written the top levels since the last commit?
  pc          \* "clean" or "dirty", or "panic" after a failed load

vars == <<N, root, del_ops, nodes, root_key, map, committed, saved, pc>>

(* Values of different keys differ. *)
Value(k, v) == <<k, v>>
NoValue == << << >>, Absent >>

------------------------------------------------------------------------------
(* TrieNode and TrieNodeExt.  A child is a node or a Ref; a Null child is not
   in the domain of kids; an extension has its child at 0. *)

Null == [kind |-> "null"]
NoKids == [i \in {} |-> Null]
Node(kind, key, value, kids, commit) ==
  [kind |-> kind, key |-> key, value |-> value, kids |-> kids, commit |-> commit, weak |-> {}]
Leaf(key, value) == Node("leaf", key, value, NoKids, "Working")
Branch(value, kids) == Node("branch", << >>, value, kids, "Working")
Extension(key, child) == Node("ext", key, NoValue, [i \in {0} |-> child], "Working")
Ref(digest) == [kind |-> "ref", digest |-> digest]

(* What the hash of a node depends on. *)
RECURSIVE Content(_)
Content(n) ==
  CASE n.kind = "null" -> Null
    [] n.kind = "ref"  -> n.digest
    [] OTHER ->
       [kind |-> n.kind, key |-> n.key, value |-> n.value,
        kids |-> [i \in DOMAIN n.kids |-> Content(n.kids[i])]]

(* The length of a string in RLP, and of a node in the encoding of its parent. *)
StringSize(n) == IF n = 1 THEN 1 ELSE n + 1
ContentValueSize(c) == IF c.value = NoValue THEN 1 ELSE StringSize(ValueSize[c.value[2]])

RECURSIVE Size(_)
Size(c) ==
  LET embedded(d) == IF Size(d) < 32 THEN Size(d) ELSE 33
      kids == Fold!MapThenSumSet(LAMBDA i : embedded(c.kids[i]), DOMAIN c.kids)
      key  == StringSize(Len(c.key) \div 2 + 1)
  IN 1 + CASE c.kind = "leaf"   -> key + ContentValueSize(c)
           [] c.kind = "ext"    -> key + kids
           [] c.kind = "branch" -> 16 - Cardinality(DOMAIN c.kids) + kids + ContentValueSize(c)

Small(c) == Size(c) < 32

(* A node as it is decoded: embedded children with it, the others as hashes. *)
RECURSIVE Decoded(_, _), DecodedChild(_)
Decoded(c, commit) ==
  Node(c.kind, c.key, c.value, [i \in DOMAIN c.kids |-> DecodedChild(c.kids[i])], commit)
DecodedChild(c) == IF Small(c) THEN Decoded(c, "Light") ELSE Ref(c)

(* owned_or_load and loaded_mut, and the hash they look up in the database. *)
Loaded(child) == IF child.kind = "ref" THEN Decoded(child.digest, "Committed") ELSE child
LoadOf(child) == IF child.kind = "ref" THEN {child.digest} ELSE {}

(* make_mut, and the hash it adds to del_ops. *)
MakeMut(n) == [n EXCEPT !.commit = "Working", !.weak = {}]
DelOf(n) == IF n.commit = "Committed" THEN {Content(n)} ELSE {}

With(n, i, child) == [n EXCEPT !.kids = [j \in DOMAIN n.kids \cup {i} |->
                                           IF j = i THEN child ELSE n.kids[j]]]
Without(n, i) == [n EXCEPT !.kids = [j \in DOMAIN n.kids \ {i} |-> n.kids[j]]]

CommonPrefix(a, b) == Seqs!LongestCommonPrefix({a, b})
Rest(s, n) == SubSeq(s, n + 1, Len(s))

------------------------------------------------------------------------------
(* TrieNode::next: the position of the child that follows for a rest r of a
   key, if there is one, and what is left of r below it. *)
HasNext(n, r) ==
  \/ n.kind = "branch" /\ r # << >> /\ r[1] \in DOMAIN n.kids
  \/ n.kind = "ext" /\ Seqs!IsPrefix(n.key, r)
NextPos(n, r) == IF n.kind = "branch" THEN r[1] ELSE 0
NextRest(n, r) == Rest(r, IF n.kind = "branch" THEN 1 ELSE Len(n.key))
Matches(n, r) == (n.kind = "branch" /\ r = << >>) \/ (n.kind = "leaf" /\ n.key = r)

(* search from n, at depth d - 1, for r: where it ends, what it leaves in memory
   and what it loads.  A node below which something was loaded that is not
   part of the top levels is to be truncated. *)
RECURSIVE Search(_, _, _)
Search(n, r, d) ==
  IF ~HasNext(n, r)
    THEN [matched |-> Matches(n, r), value |-> n.value, node |-> n, load |-> {}]
    ELSE LET i    == NextPos(n, r)
             s    == Search(Loaded(n.kids[i]), NextRest(n, r), d + 1)
             mark == IF n.kids[i].kind = "ref" /\ d >= N THEN {"loaded"} ELSE {}
         IN [s EXCEPT !.node = [With(n, i, s.node) EXCEPT !.weak = n.weak \cup mark],
                      !.load = s.load \cup LoadOf(n.kids[i])]

------------------------------------------------------------------------------
(* put *)

(* Mutant of Exile: only the node itself. *)
ExileTop(n, d) ==
  IF n.kind # "ref" /\ d = N THEN [n EXCEPT !.weak = n.weak \cup {"exiled"}] ELSE n

(* Marks the nodes that leave the top levels when n moves to depth d. *)
RECURSIVE Exile(_, _)
Exile(n, d) ==
  CASE n.kind = "ref" \/ d > N -> n
    [] n.kind # "ref" /\ d = N -> [n EXCEPT !.weak = n.weak \cup {"exiled"}]
    [] n.kind # "ref" /\ d < N -> [n EXCEPT !.kids = [i \in DOMAIN n.kids |-> Exile(n.kids[i], d + 1)]]

(* A new leaf, or the value of a new branch. *)
WithRest(n, r, value) ==
  IF r = << >> THEN [n EXCEPT !.value = value] ELSE With(n, r[1], Leaf(Tail(r), value))

(* A branch, below an extension if there is a common prefix. *)
Prefixed(prefix, branch) == IF prefix = << >> THEN branch ELSE Extension(prefix, branch)

InsertOnLeaf(n, r, value) ==
  LET p == Len(CommonPrefix(n.key, r))
      b == WithRest(Branch(NoValue, NoKids), Rest(r, p), value)
  IN Prefixed(SubSeq(r, 1, p), WithRest(b, Rest(n.key, p), n.value))

InsertOnExtension(n, r, value, d) ==
  LET p    == Len(CommonPrefix(n.key, r))
      rest == Rest(n.key, p + 1)
      moved == IF rest = << >> THEN n.kids[0]
               ELSE Extension(rest, Exile(Loaded(n.kids[0]), d + 2))
      b    == With(Branch(NoValue, NoKids), n.key[p + 1], Exile(moved, d + 2))
  IN Prefixed(SubSeq(n.key, 1, p), WithRest(b, Rest(r, p), value))

(* From n at depth d, all of whose path is made mutable. *)
RECURSIVE Insert(_, _, _, _)
Insert(n, r, value, d) ==
  CASE HasNext(n, r) ->
         LET i == NextPos(n, r)
             s == Insert(Loaded(n.kids[i]), NextRest(n, r), value, d + 1)
         IN [node |-> With(MakeMut(n), i, s.node),
             del  |-> DelOf(n) \cup s.del, load |-> LoadOf(n.kids[i]) \cup s.load]
    [] Matches(n, r) ->
         [node |-> [MakeMut(n) EXCEPT !.value = value], del |-> DelOf(n), load |-> {}]
    [] OTHER ->
         [node |-> CASE n.kind = "branch" -> WithRest(MakeMut(n), r, value)
                     [] n.kind = "ext"    -> InsertOnExtension(n, r, value, d)
                     [] n.kind = "leaf"   -> InsertOnLeaf(n, r, value),
          del  |-> DelOf(n),
          load |-> IF n.kind = "ext" /\ Len(CommonPrefix(n.key, r)) + 1 < Len(n.key)
                     THEN LoadOf(n.kids[0]) ELSE {}]

------------------------------------------------------------------------------
(* del *)

Removed(n, del, load) == [node |-> n, del |-> del, load |-> load]

(* Mutant of Connected: the node below is joined and not deleted. *)
ConnectedNotDeleted(n, del, load) ==
  LET i     == CHOOSE i \in DOMAIN n.kids : TRUE
      child == Loaded(n.kids[i])
      more  == load \cup LoadOf(n.kids[i])
  IN IF child.kind = "branch" THEN Removed(Extension(<<i>>, child), del, more)
     ELSE Removed([MakeMut(child) EXCEPT !.key = <<i>> \o child.key], del, more)

(* drop_single_child_branch: a branch without a value and with one child. *)
Connected(n, del, load) ==
  LET i     == CHOOSE i \in DOMAIN n.kids : TRUE
      child == Loaded(n.kids[i])
      more  == load \cup LoadOf(n.kids[i])
  IN IF child.kind = "branch" THEN Removed(Extension(<<i>>, child), del, more)
     ELSE Removed([MakeMut(child) EXCEPT !.key = <<i>> \o child.key],
                  del \cup DelOf(child), more)

(* What becomes of a branch that lost a value or a child. *)
Collapsed(n, del, load) ==
  CASE n.value = NoValue /\ Cardinality(DOMAIN n.kids) = 1 -> Connected(n, del, load)
    [] n.value # NoValue /\ DOMAIN n.kids = {} -> Removed(Leaf(<< >>, n.value), del, load)
    [] OTHER -> Removed(n, del, load)

(* Mutant of Joined: an extension is left above a leaf or an extension. *)
JoinedNot(n, s) == With(MakeMut(n), 0, s.node)

(* push_non_branch_to_stack below an extension. *)
Joined(n, s) ==
  IF s.node.kind = "branch" THEN With(MakeMut(n), 0, s.node)
  ELSE [s.node EXCEPT !.key = n.key \o s.node.key]

(* remove from n the key that the search for r matched; Null if n goes. *)
RECURSIVE Remove(_, _)
Remove(n, r) ==
  LET i    == NextPos(n, r)
      s    == Remove(Loaded(n.kids[i]), NextRest(n, r))
      del  == DelOf(n) \cup s.del
      load == LoadOf(n.kids[i]) \cup s.load
  IN CASE HasNext(n, r) /\ s.node = Null -> Collapsed(Without(MakeMut(n), i), del, load)
       [] HasNext(n, r) /\ s.node # Null /\ n.kind = "ext" -> Removed(Joined(n, s), del, load)
       [] HasNext(n, r) /\ s.node # Null /\ n.kind = "branch" ->
            Removed(With(MakeMut(n), i, s.node), del, load)
       [] ~HasNext(n, r) /\ n.kind = "leaf" -> Removed(Null, DelOf(n), {})
       [] ~HasNext(n, r) /\ n.kind = "branch" ->
            Collapsed([MakeMut(n) EXCEPT !.value = NoValue], DelOf(n), {})

------------------------------------------------------------------------------
(* commit and flush_all *)

(* Mutant of TruncatedChild: embedded children are dropped as well. *)
TruncatedChildAll(child) == Ref(Content(child))

TruncatedChild(child) == IF Small(Content(child)) THEN child ELSE Ref(Content(child))

Truncated(n) == [n EXCEPT !.kids = [i \in DOMAIN n.kids |-> TruncatedChild(n.kids[i])]]

(* The state a node is in once it is encoded. *)
Encoded(n, d) == IF d = 0 \/ ~Small(Content(n)) THEN "Committed" ELSE "Light"

(* The bottom layer: what is left in memory of n at depth d. *)
RECURSIVE CommitBottom(_, _)
CommitBottom(n, d) ==
  IF n.kind = "ref" \/ n.commit # "Working" THEN n
  ELSE LET kept == [n EXCEPT !.kids = [i \in DOMAIN n.kids |-> CommitBottom(n.kids[i], d + 1)],
                             !.commit = Encoded(n, d)]
       IN IF d = N - 1 THEN Truncated(kept) ELSE kept

(* The hashes it puts. *)
RECURSIVE BottomPuts(_, _)
BottomPuts(n, d) ==
  IF n.kind = "ref" \/ n.commit # "Working" THEN {}
  ELSE UNION {BottomPuts(n.kids[i], d + 1) : i \in DOMAIN n.kids}
         \cup IF d >= N /\ Encoded(n, d) = "Committed" THEN {Content(n)} ELSE {}

(* The top layer, and the hashes it puts. *)
RECURSIVE CommitTop(_, _)
CommitTop(n, d) ==
  IF n.kind = "ref" \/ d >= N THEN n
  ELSE [n EXCEPT !.kids = [i \in DOMAIN n.kids |-> CommitTop(n.kids[i], d + 1)],
                 !.commit = Encoded(n, d)]

RECURSIVE TopPuts(_, _)
TopPuts(n, d) ==
  IF n.kind = "ref" \/ d >= N THEN {}
  ELSE UNION {TopPuts(n.kids[i], d + 1) : i \in DOMAIN n.kids}
         \cup IF Encoded(n, d) = "Committed" THEN {Content(n)} ELSE {}

(* Nodes that are still there when exile_nodes is drained. *)
RECURSIVE Exiled(_)
Exiled(n) ==
  IF n.kind = "ref" THEN {}
  ELSE UNION {Exiled(n.kids[i]) : i \in DOMAIN n.kids}
         \cup IF "exiled" \in n.weak THEN {Content(n)} ELSE {}

(* loaded_node is drained: those still there are truncated. *)
RECURSIVE Unloaded(_)
Unloaded(n) ==
  IF n.kind = "ref" THEN n
  ELSE LET kept == IF "loaded" \in n.weak THEN Truncated(n) ELSE n
       IN [kept EXCEPT !.weak = {},
                       !.kids = [i \in DOMAIN kept.kids |-> Unloaded(kept.kids[i])]]

(* new: the top levels are read, from depth d on. *)
RECURSIVE LoadChildren(_, _)
LoadChildren(n, d) ==
  IF d >= N - 1 THEN n
  ELSE [n EXCEPT !.kids = [i \in DOMAIN n.kids |-> LoadChildren(Loaded(n.kids[i]), d + 1)]]

(* The hashes it reads for them. *)
RECURSIVE Loads(_, _)
Loads(c, d) ==
  (IF d = 0 \/ ~Small(c) THEN {c} ELSE {})
    \cup IF d >= N - 1 THEN {} ELSE UNION {Loads(c.kids[i], d + 1) : i \in DOMAIN c.kids}

------------------------------------------------------------------------------
Init ==
  /\ N \in Depths
  /\ root = Null
  /\ del_ops = {}
  /\ nodes = {}
  /\ root_key = Null
  /\ map = [k \in Keys |-> Absent]
  /\ committed = map
  /\ saved = TRUE
  /\ pc = "clean"

(* The trie in memory changes; a hash that is not found ends the process. *)
InMemory(new, del, load, next) ==
  /\ pc # "panic"
  /\ root' = new
  /\ del_ops' = del_ops \cup del
  /\ pc' = IF load \subseteq nodes THEN next ELSE "panic"
  /\ UNCHANGED <<N, nodes, root_key, committed, saved>>

Changeable(k) == Cardinality({j \in Keys \ {k} : map[j] # committed[j]}) < MaxChanged

(* A search that changes nothing: get, a put of the value that is there, a
   deletion of a key that is not. *)
Found(s) == InMemory(s.node, {}, s.load, pc) /\ UNCHANGED map

Get(k) ==
  /\ root # Null
  /\ Found(Search(root, k, 1))

Put(k, v) ==
  LET s == Search(root, k, 1)
      t == Insert(root, k, Value(k, v), 0)
  IN /\ Changeable(k)
     /\ Cardinality({j \in Keys \ {k} : map[j] # Absent}) < MaxSet
     /\ CASE root = Null ->
               InMemory(Leaf(k, Value(k, v)), {}, {}, "dirty") /\ map' = [map EXCEPT ![k] = v]
          [] root # Null /\ s.matched /\ s.value = Value(k, v) -> Found(s)
          [] OTHER -> InMemory(t.node, t.del, t.load, "dirty") /\ map' = [map EXCEPT ![k] = v]

(* A node that was changed in this epoch has since had a child loaded. *)
RECURSIVE ChangedAndLoaded(_)
ChangedAndLoaded(n) ==
  /\ n.kind # "ref"
  /\ \/ n.commit = "Working" /\ "loaded" \in n.weak
     \/ \E i \in DOMAIN n.kids : ChangedAndLoaded(n.kids[i])

(* put of the empty value. *)
Del(k) ==
  LET s == Search(root, k, 1)
      t == Remove(root, k)
  IN /\ root # Null
     /\ Changeable(k)
     /\ DelAfterLoad \/ ~ChangedAndLoaded(root)
     /\ IF s.matched THEN InMemory(t.node, t.del, t.load, "dirty") /\ map' = [map EXCEPT ![k] = Absent]
        ELSE Found(s)

Commit ==
  LET puts == Exiled(root) \cup BottomPuts(root, 0)
  IN /\ pc # "panic"
     /\ pc' = "clean"
     /\ committed' = map
     /\ saved' = FALSE
     /\ del_ops' = {}
     /\ IF root = Null
          THEN root' = Null /\ nodes' = nodes \ del_ops /\ root_key' = Null
          ELSE /\ root' = Unloaded(CommitBottom(root, 0))
               /\ nodes' = (nodes \ del_ops) \cup puts
               /\ root_key' = Content(root)
     /\ UNCHANGED <<N, map>>

(* Called after a commit. *)
FlushAll ==
  /\ pc = "clean"
  /\ ~saved
  /\ saved' = TRUE
  /\ IF root = Null THEN UNCHANGED <<root, nodes>>
     ELSE root' = CommitTop(root, 0) /\ nodes' = nodes \cup TopPuts(root, 0)
  /\ UNCHANGED <<N, del_ops, root_key, map, committed, pc>>

(* A new process opens a database that flush_all has written. *)
Reopen ==
  /\ saved
  /\ root' = IF root_key = Null THEN Null ELSE LoadChildren(Decoded(root_key, "Committed"), 0)
  /\ del_ops' = {}
  /\ map' = committed
  /\ pc' = IF root_key = Null \/ Loads(root_key, 0) \subseteq nodes THEN "clean" ELSE "panic"
  /\ UNCHANGED <<N, nodes, root_key, committed, saved>>

Next ==
  \/ \E k \in Keys : Get(k)
  \/ \E k \in Keys : \E v \in ValuesOf[k] : Put(k, v)
  \/ \E k \in Keys : Del(k)
  \/ Commit
  \/ FlushAll
  \/ Reopen

Spec == Init /\ [][Next]_vars
------------------------------------------------------------------------------
(* The trie of a set of pairs of a rest of a key and a value. *)
RECURSIVE Reference(_)
Reference(pairs) ==
  LET node(kind, key, value, kids) == [kind |-> kind, key |-> key, value |-> value, kids |-> kids]
      only   == CHOOSE p \in pairs : TRUE
      prefix == Seqs!LongestCommonPrefix({p[1] : p \in pairs})
      below(m, ps) == {<<Rest(p[1], m), p[2]>> : p \in ps}
      here   == {p \in pairs : p[1] = << >>}
      firsts == {p[1][1] : p \in pairs \ here}
  IN CASE Cardinality(pairs) = 1 -> node("leaf", only[1], only[2], NoKids)
       [] Cardinality(pairs) > 1 /\ prefix # << >> ->
            node("ext", prefix, NoValue, [i \in {0} |-> Reference(below(Len(prefix), pairs))])
       [] Cardinality(pairs) > 1 /\ prefix = << >> ->
            node("branch", << >>, IF here = {} THEN NoValue ELSE (CHOOSE p \in here : TRUE)[2],
                 [i \in firsts |-> Reference(below(1, {p \in pairs \ here : p[1][1] = i}))])

ReferenceOf(m) ==
  LET set == {k \in Keys : m[k] # Absent}
  IN IF set = {} THEN Null ELSE Reference({<<k, Value(k, m[k])>> : k \in set})

(* The nodes of a trie that are stored under their hash, with their depths. *)
RECURSIVE Hashed(_, _)
Hashed(c, d) ==
  IF c = Null THEN {}
  ELSE UNION {Hashed(c.kids[i], d + 1) : i \in DOMAIN c.kids}
         \cup IF d = 0 \/ ~Small(c) THEN {<<c, d>>} ELSE {}

(* The hashes that the trie in memory refers to. *)
RECURSIVE Refs(_)
Refs(n) ==
  CASE n.kind = "null" -> {}
    [] n.kind = "ref"  -> {n.digest}
    [] OTHER           -> UNION {Refs(n.kids[i]) : i \in DOMAIN n.kids}

(* The root hash depends on what is stored and not on the order of the puts,
   deletions, commits and restarts that led there: the trie is the smallest one
   for its keys. *)
Canonical == pc # "panic" => Content(root) = ReferenceOf(map)

(* Everything below a hash in memory is in the database: no get, put or
   deletion meets "Hash not found". *)
Readable ==
  /\ pc # "panic"
  /\ \A h \in Refs(root) : {p[1] : p \in Hashed(h, 1)} \subseteq nodes

(* After a commit the levels below N are in the database, whether or not they are
   still in memory and however often they moved; after flush_all all of the
   committed trie is. *)
Durable ==
  /\ root_key = ReferenceOf(committed)
  /\ \A p \in Hashed(root_key, 0) : p[2] >= N \/ saved => p[1] \in nodes

(* The database has no node that the committed trie lacks, except for nodes that
   are embedded there. *)
NoGarbage == nodes \subseteq {p[1] : p \in Hashed(root_key, 0)} \cup {c \in nodes : Small(c)}
==============================================================================
