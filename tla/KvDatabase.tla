----------------------------- MODULE KvDatabase ------------------------------
(***************************************************************************)
(* The backends behind kvdb::KeyValueDB.  "rocksdb" is Database of         *)
(* cfx-kvdb-rocksdb: buffered writes go to an overlay that get consults    *)
(* first; flush swaps it with the map flushing, writes that to RocksDB as  *)
(* one batch and clears it.  "parity" (WrappedDataBase) and "mdbx"         *)
(* (MdbxDatabase) keep buffered writes in a list that get does not see,    *)
(* and their flush takes no lock: they serve one flushing thread.  A get   *)
(* of "mdbx" fails if that flush commits the transaction under its cursor. *)
(*                                                                         *)
(* The threads' calls interleave between any two lock operations.  A value *)
(* is the position of its write in log, so that newer values are larger.   *)
(***************************************************************************)
EXTENDS Integers, Sequences, FiniteSets

Sets == INSTANCE FiniteSetsExt

CONSTANTS
  Threads,
  Buffered,    \* keys that are written with write_buffered
  Direct,      \* keys that are written with write
  Kinds,       \* the backends that are checked
  MaxWrites,   \* bound: writes
  Unbuffered,  \* no entry in a map of pending writes
  Lost,        \* a write that a process took with it
  Failed,      \* the answer of a get that ends in an error
  NoThread

ASSUME KvConstants ==
  /\ Buffered \cap Direct = {}
  /\ Buffered \cup Direct # {}
  /\ Kinds \subseteq {"rocksdb", "parity", "mdbx"}
  /\ MaxWrites \in Nat
  /\ Unbuffered \notin Nat
  /\ Lost \notin Buffered \cup Direct
  /\ Failed \notin Nat
  /\ NoThread \notin Threads

Keys == Buffered \cup Direct

VARIABLES
  kind,
  overlay,        \* pending writes: overlay, buffered_transactions or buffer
  flushing,       \* writes that a flush has taken
  flushing_lock,  \* the thread that holds it
  db,             \* what is on disk
  log,            \* the key of each write, in the order of the writes
  promised,       \* per key, the write that a completed flush made durable
  pc,             \* per thread, where its call is
  key,            \* the key it reads or writes
  start,          \* per thread and key, the oldest value its call may return or leave on disk
  result          \* what its get answers

dbVars == <<overlay, flushing, flushing_lock, db>>
vars == <<kind, dbVars, log, promised, pc, key, start, result>>

Nothing == [k \in Keys |-> Unbuffered]
Zero == [k \in Keys |-> 0]

(* key of a thread that has no use for it. *)
AnyKey == CHOOSE k \in Keys : TRUE

(* The last write of a key. *)
Last(k) == Sets!Max({i \in DOMAIN log : log[i] = k} \cup {0})

(* Guards of "rocksdb" that are held between two steps. *)
OverlayReaders == {t \in Threads : pc[t] \in {"get_flushing", "get_db"}}
OverlayWriters == {t \in Threads : pc[t] = "swap"}
FlushingReaders == {t \in Threads : pc[t] = "get_db"}
OverlayFree == OverlayReaders = {} /\ OverlayWriters = {}

Init ==
  /\ kind \in Kinds
  /\ overlay = Nothing
  /\ flushing = Nothing
  /\ flushing_lock = NoThread
  /\ db = Zero
  /\ log = << >>
  /\ promised = Zero
  /\ pc = [t \in Threads |-> "idle"]
  /\ key = [t \in Threads |-> AnyKey]
  /\ start = [t \in Threads |-> Zero]
  /\ result = [t \in Threads |-> 0]

Goes(t, next) == pc' = [pc EXCEPT ![t] = next]

(* Is there room for another write within the bound? *)
Writable == Len(log) + Cardinality({t \in Threads : pc[t] = "write_db"}) < MaxWrites

------------------------------------------------------------------------------
(* get *)

(* A get must not be older than the writes before the call; where buffered
   writes are invisible, than the last flush.  In mdbx the call takes a cursor
   of the open transaction and gives the lock back. *)
GetCall(t, k) ==
  /\ pc[t] = "idle"
  /\ key' = [key EXCEPT ![t] = k]
  /\ start' = [start EXCEPT ![t][k] = IF kind = "rocksdb" THEN Last(k) ELSE promised[k]]
  /\ Goes(t, CASE kind = "rocksdb" -> "get_overlay"
                [] kind = "parity" -> "get_db"
                [] kind = "mdbx" -> "get_txn")
  /\ UNCHANGED <<kind, dbVars, log, promised, result>>

(* Looks in a map; goes on to next if the key is not there. *)
LookUp(t, pending, next) ==
  /\ IF pending[key[t]] = Unbuffered
       THEN Goes(t, next) /\ UNCHANGED result
       ELSE Goes(t, "return") /\ result' = [result EXCEPT ![t] = pending[key[t]]]
  /\ UNCHANGED <<kind, dbVars, log, promised, key, start>>

(* Mutant of GetOverlay: goes on to the disk. *)
GetOverlayOnly(t) ==
  /\ pc[t] = "get_overlay"
  /\ OverlayWriters = {}
  /\ LookUp(t, overlay, "get_db")

GetOverlay(t) ==
  /\ pc[t] = "get_overlay"
  /\ OverlayWriters = {}
  /\ LookUp(t, overlay, "get_flushing")

GetFlushing(t) ==
  /\ pc[t] = "get_flushing"
  /\ LookUp(t, flushing, "get_db")

Answers(t, value) ==
  /\ result' = [result EXCEPT ![t] = value]
  /\ Goes(t, "return")
  /\ UNCHANGED <<kind, dbVars, log, promised, key, start>>

GetDb(t) ==
  /\ pc[t] = "get_db"
  /\ Answers(t, db[key[t]])

(* The cursor shows what a flush has put into the transaction and has not
   committed yet. *)
GetTxn(t) ==
  /\ pc[t] = "get_txn"
  /\ Answers(t, IF flushing[key[t]] # Unbuffered THEN flushing[key[t]] ELSE db[key[t]])

(* set_key with the cursor of a transaction that has ended. *)
GetEnded(t) ==
  /\ pc[t] = "get_ended"
  /\ Answers(t, Failed)

GetReturn(t) ==
  /\ pc[t] = "return"
  /\ Goes(t, "idle")
  /\ start' = [start EXCEPT ![t] = Zero]
  /\ result' = [result EXCEPT ![t] = 0]
  /\ key' = [key EXCEPT ![t] = AnyKey]
  /\ UNCHANGED <<kind, dbVars, log, promised>>

------------------------------------------------------------------------------
(* write_buffered and write *)

Buffer(t, k) ==
  /\ pc[t] = "idle"
  /\ k \in Buffered
  /\ Writable
  /\ log' = Append(log, k)
  /\ overlay' = [overlay EXCEPT ![k] = Len(log')]
  /\ UNCHANGED <<kind, flushing, flushing_lock, db, promised, pc, key, start, result>>

WriteBuffered(t, k) == kind = "rocksdb" /\ OverlayFree /\ Buffer(t, k)

(* Of a list of operations only the last one on a key matters. *)
Extend(t, k) == kind = "parity" /\ Buffer(t, k)
Push(t, k) == kind = "mdbx" /\ Buffer(t, k)

WriteCall(t, k) ==
  /\ pc[t] = "idle"
  /\ kind = "rocksdb"
  /\ k \in Direct
  /\ Writable
  /\ OverlayFree
  /\ overlay' = [overlay EXCEPT ![k] = Unbuffered]
  /\ key' = [key EXCEPT ![t] = k]
  /\ Goes(t, "write_db")
  /\ UNCHANGED <<kind, flushing, flushing_lock, db, log, promised, start, result>>

WriteDb(t) ==
  /\ pc[t] = "write_db"
  /\ log' = Append(log, key[t])
  /\ db' = [db EXCEPT ![key[t]] = Len(log')]
  /\ promised' = [promised EXCEPT ![key[t]] = Len(log')]
  /\ Goes(t, "idle")
  /\ key' = [key EXCEPT ![t] = AnyKey]
  /\ UNCHANGED <<kind, overlay, flushing, flushing_lock, start, result>>

------------------------------------------------------------------------------
(* flush of "rocksdb" *)

(* What a flush will have made durable when it returns. *)
Asked(t) == start' = [start EXCEPT ![t] = [k \in Keys |-> Last(k)]]

FlushCall(t) ==
  /\ pc[t] = "idle"
  /\ kind = "rocksdb"
  /\ Asked(t)
  /\ Goes(t, "lock")
  /\ UNCHANGED <<kind, dbVars, log, promised, key, result>>

(* What is on disk is at least what the call found written. *)
Promise(t) ==
  /\ promised' = [k \in Keys |-> IF promised[k] > start[t][k] THEN promised[k] ELSE start[t][k]]
  /\ start' = [start EXCEPT ![t] = Zero]

(* Mutant of FlushLock: leaves the work to the thread that has the lock. *)
FlushLockSkips(t) ==
  /\ pc[t] = "lock"
  /\ IF flushing_lock = NoThread
       THEN flushing_lock' = t /\ Goes(t, "take_overlay") /\ UNCHANGED <<promised, start>>
       ELSE Promise(t) /\ Goes(t, "idle") /\ UNCHANGED flushing_lock
  /\ UNCHANGED <<kind, overlay, flushing, db, log, key, result>>

FlushLock(t) ==
  /\ pc[t] = "lock"
  /\ flushing_lock = NoThread
  /\ flushing_lock' = t
  /\ Goes(t, "take_overlay")
  /\ UNCHANGED <<kind, overlay, flushing, db, log, promised, key, start, result>>

(* The two write guards of the swap, one after the other. *)
TakeOverlay(t) ==
  /\ pc[t] = "take_overlay"
  /\ OverlayFree
  /\ Goes(t, "swap")
  /\ UNCHANGED <<kind, dbVars, log, promised, key, start, result>>

Swap(t) ==
  /\ pc[t] = "swap"
  /\ FlushingReaders = {}
  /\ overlay' = flushing
  /\ flushing' = overlay
  /\ Goes(t, "write_batch")
  /\ UNCHANGED <<kind, flushing_lock, db, log, promised, key, start, result>>

OnDisk == [k \in Keys |-> IF flushing[k] = Unbuffered THEN db[k] ELSE flushing[k]]

(* Mutant of WriteBatch: one write to the disk for each key. *)
WriteBatchByKey(t) ==
  /\ pc[t] = "write_batch"
  /\ \/ /\ \E k \in Keys : /\ flushing[k] \notin {Unbuffered, db[k]}
                            /\ db' = [db EXCEPT ![k] = flushing[k]]
        /\ UNCHANGED pc
     \/ /\ \A k \in Keys : flushing[k] \in {Unbuffered, db[k]}
        /\ Goes(t, "clear")
        /\ UNCHANGED db
  /\ UNCHANGED <<kind, overlay, flushing, flushing_lock, log, promised, key, start, result>>

WriteBatch(t) ==
  /\ pc[t] = "write_batch"
  /\ db' = OnDisk
  /\ Goes(t, "clear")
  /\ UNCHANGED <<kind, overlay, flushing, flushing_lock, log, promised, key, start, result>>

(* Mutant of FlushClear: the lock is kept. *)
FlushClearKeepsLock(t) ==
  /\ pc[t] = "clear"
  /\ FlushingReaders = {}
  /\ flushing' = Nothing
  /\ Promise(t)
  /\ Goes(t, "idle")
  /\ UNCHANGED <<kind, overlay, flushing_lock, db, log, key, result>>

FlushClear(t) ==
  /\ pc[t] = "clear"
  /\ FlushingReaders = {}
  /\ flushing' = Nothing
  /\ flushing_lock' = NoThread
  /\ Promise(t)
  /\ Goes(t, "idle")
  /\ UNCHANGED <<kind, overlay, db, log, key, result>>

------------------------------------------------------------------------------
(* flush of "parity" and "mdbx" *)

(* All that is buffered goes to the transaction. *)
Taken(t, next) ==
  /\ pc[t] = "idle"
  /\ \A u \in Threads : pc[u] # next
  /\ Asked(t)
  /\ flushing' = overlay
  /\ overlay' = Nothing
  /\ Goes(t, next)
  /\ UNCHANGED <<kind, flushing_lock, db, log, promised, key, result>>

Committed(t) ==
  /\ db' = OnDisk
  /\ flushing' = Nothing
  /\ Promise(t)
  /\ UNCHANGED <<kind, overlay, flushing_lock, log, key, result>>

TakeTransactions(t) == kind = "parity" /\ Taken(t, "write_taken")
WriteTaken(t) == pc[t] = "write_taken" /\ Committed(t) /\ Goes(t, "idle")

PutTxn(t) == kind = "mdbx" /\ Taken(t, "commit_txn")

(* commit waits for no get: the cursors that are out belong to a transaction that
   has ended now. *)
CommitTxn(t) ==
  /\ pc[t] = "commit_txn"
  /\ Committed(t)
  /\ pc' = [u \in Threads |-> IF u = t THEN "idle"
                              ELSE IF pc[u] = "get_txn" THEN "get_ended"
                              ELSE pc[u]]

------------------------------------------------------------------------------
(* The process ends, and another one opens what is on disk. *)
Restart ==
  /\ overlay' = Nothing
  /\ flushing' = Nothing
  /\ flushing_lock' = NoThread
  /\ log' = [i \in DOMAIN log |-> IF log[i] # Lost /\ i > db[log[i]] THEN Lost ELSE log[i]]
  /\ pc' = [t \in Threads |-> "idle"]
  /\ start' = [t \in Threads |-> Zero]
  /\ result' = [t \in Threads |-> 0]
  /\ key' = [t \in Threads |-> AnyKey]
  /\ UNCHANGED <<kind, db, promised>>

Step(t) ==
  \/ GetOverlay(t) \/ GetFlushing(t) \/ GetDb(t) \/ GetTxn(t) \/ GetEnded(t)
  \/ GetReturn(t)
  \/ WriteDb(t)
  \/ FlushLock(t) \/ TakeOverlay(t) \/ Swap(t) \/ WriteBatch(t) \/ FlushClear(t)
  \/ WriteTaken(t) \/ CommitTxn(t)

Next ==
  \/ \E t \in Threads, k \in Keys :
       GetCall(t, k) \/ WriteBuffered(t, k) \/ Extend(t, k) \/ Push(t, k) \/ WriteCall(t, k)
  \/ \E t \in Threads : FlushCall(t) \/ TakeTransactions(t) \/ PutTxn(t) \/ Step(t)
  \/ Restart

(* The locks of parking_lot are fair: a waiting writer keeps new readers out. *)
Spec == Init /\ [][Next]_vars /\ \A t \in Threads : SF_vars(Step(t))
------------------------------------------------------------------------------
(* What a get may miss.  In "rocksdb", nothing that was written before the call,
   although flushes move it from the overlay to flushing to the disk meanwhile.
   In "parity" and "mdbx", whose get sees no buffered write, nothing that a flush
   had made durable when the get was called; what was only buffered by then it may
   miss.  And only a get of "mdbx" can fail, when another thread commits the
   transaction its cursor is in. *)
ReadsFresh ==
  \A t \in Threads : pc[t] = "return" =>
    IF result[t] = Failed THEN kind = "mdbx" ELSE result[t] >= start[t][key[t]]

(* What was written before a flush that has returned is on disk, or a newer value
   is: also when another thread did the flushing, and after a restart. *)
Durable == \A k \in Keys : db[k] >= promised[k]

(* Buffered writes reach the disk in their order: no write is there without all
   the earlier ones, wherever the process ends. *)
PrefixDurable ==
  \A j, k \in Buffered : \A i \in DOMAIN log : log[i] = k /\ i < db[j] => i <= db[k]

(* Every call returns: the locks of get, write and flush never wait in a circle. *)
CallsReturn == \A t \in Threads : pc[t] # "idle" ~> pc[t] = "idle"
==============================================================================
