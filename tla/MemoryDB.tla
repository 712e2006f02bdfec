------------------------------ MODULE MemoryDB -------------------------------
(***************************************************************************)
(* MemoryDB (parity-journaldb/memory-db): a map of nodes with signed       *)
(* reference counts.  Nodes are stored under their hash, so a key stands   *)
(* for its value too; an entry with count 0 behaves like a vacant one.     *)
(***************************************************************************)
EXTENDS Integers

EmptyMemory(keys) == [k \in keys |-> 0]

Contains(m, k) == m[k] > 0
Emplace(m, k) == [m EXCEPT ![k] = m[k] + 1]
RemoveRef(m, k) == [m EXCEPT ![k] = m[k] - 1]

(* The keys a drained transaction overlay inserts and removes. *)
Inserted(m) == {k \in DOMAIN m : m[k] > 0}
Removed(m) == {k \in DOMAIN m : m[k] < 0}

(* One emplace, or n[k] calls of remove_and_purge, for many keys at once. *)
EmplaceAll(m, keys) == [k \in DOMAIN m |-> IF k \in keys THEN m[k] + 1 ELSE m[k]]
PurgeAll(m, n) == [k \in DOMAIN m |-> m[k] - n[k]]

(* The keys whose entry remove_and_purge took out on the way. *)
PurgedBy(m, n) == {k \in DOMAIN m : m[k] > 0 /\ m[k] - n[k] <= 0}
==============================================================================
