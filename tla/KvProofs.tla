------------------------------ MODULE KvProofs -------------------------------
(***************************************************************************)
(* What a get of the backends answers and what a flush leaves on disk, for *)
(* any number of threads, keys and writes.                                 *)
(***************************************************************************)
EXTENDS KvDatabase, NumberLemmas

------------------------------------------------------------------------------
(* The inductive invariant. *)

Pcs == {"idle", "return", "get_overlay", "get_flushing", "get_db", "get_txn", "get_ended",
        "write_db", "lock", "take_overlay", "swap", "write_batch", "clear", "write_taken", "commit_txn"}

(* Calls that hold flushing_lock. *)
Holding == {"take_overlay", "swap", "write_batch", "clear"}

(* Flushes that have taken what was pending. *)
InFlight == {"write_batch", "clear", "write_taken", "commit_txn"}

KvType ==
  /\ kind \in {"rocksdb", "parity", "mdbx"}
  /\ overlay \in [Keys -> Nat \cup {Unbuffered}]
  /\ flushing \in [Keys -> Nat \cup {Unbuffered}]
  /\ flushing_lock \in Threads \cup {NoThread}
  /\ db \in [Keys -> Nat]
  /\ log \in Seq(Keys \cup {Lost})
  /\ promised \in [Keys -> Nat]
  /\ pc \in [Threads -> Pcs]
  /\ key \in [Threads -> Keys]
  /\ start \in [Threads -> [Keys -> Nat]]
  /\ result \in [Threads -> Nat \cup {Failed}]

(* Which calls a backend has. *)
CallsOfKind ==
  \A t \in Threads :
    /\ pc[t] \in {"get_overlay", "get_flushing", "write_db", "lock"} \cup Holding => kind = "rocksdb"
    /\ pc[t] = "write_taken" => kind = "parity"
    /\ pc[t] \in {"get_txn", "get_ended", "commit_txn"} => kind = "mdbx"
    /\ pc[t] = "get_db" => kind \in {"rocksdb", "parity"}
    /\ pc[t] = "write_db" => key[t] \in Direct

(* Only one flush is under way, nothing is in flushing without it, and the swap
   waits for the readers of the overlay. *)
OneFlush ==
  /\ \A t \in Threads : pc[t] \in Holding => flushing_lock = t
  /\ \A t, u \in Threads : pc[t] \in InFlight /\ pc[u] \in InFlight => t = u
  /\ (\A t \in Threads : pc[t] \notin InFlight) => flushing = Nothing
  /\ \A t, u \in Threads : pc[t] = "swap" => pc[u] \notin {"get_flushing", "get_db"}

(* A value is a write of its key. *)
IsWriteOf(v, k) == v \in DOMAIN log /\ log[v] = k

(* What is on disk once the flush under way has written its batch. *)
Coming(k) == IF flushing[k] = Unbuffered THEN db[k] ELSE flushing[k]

(* The latest value of a key, wherever it is. *)
Newest(k) == IF overlay[k] = Unbuffered THEN Coming(k) ELSE overlay[k]

Contents ==
  \A k \in Keys :
    /\ overlay[k] # Unbuffered => IsWriteOf(overlay[k], k) /\ k \in Buffered
    /\ flushing[k] # Unbuffered => IsWriteOf(flushing[k], k) /\ k \in Buffered /\ db[k] <= flushing[k]
    /\ db[k] # 0 => IsWriteOf(db[k], k)
    /\ Newest(k) = Last(k)

(* Nothing is lost by clearing what is on disk. *)
Cleared ==
  \A t \in Threads : pc[t] = "clear" => \A k \in Keys : flushing[k] \in {Unbuffered, db[k]}

(* A get that went past a map keeps its guard: the key is still not there. *)
Passed ==
  kind = "rocksdb" =>
    \A t \in Threads :
      /\ pc[t] \in {"get_flushing", "get_db"} => overlay[key[t]] = Unbuffered
      /\ pc[t] = "get_db" => flushing[key[t]] = Unbuffered

(* What a call found written is not lost on the way to the disk. *)
Kept ==
  \A t \in Threads :
    /\ \A k \in Keys : start[t][k] <= Last(k)
    /\ pc[t] \in {"write_batch", "write_taken", "commit_txn"} =>
         \A k \in Keys : start[t][k] <= Coming(k)
    /\ pc[t] = "clear" => \A k \in Keys : start[t][k] <= db[k]
    /\ pc[t] \in {"get_db", "get_txn"} /\ kind # "rocksdb" => start[t][key[t]] <= db[key[t]]

(* PrefixDurable holds again once the flush under way has written its batch. *)
PrefixComing ==
  \A j, k \in Buffered : \A i \in DOMAIN log : log[i] = k /\ i < Coming(j) => i <= Coming(k)

KvInv ==
  /\ KvType
  /\ CallsOfKind
  /\ OneFlush
  /\ Contents
  /\ Cleared
  /\ Passed
  /\ Kept
  /\ ReadsFresh
  /\ Durable
  /\ PrefixDurable
  /\ PrefixComing

------------------------------------------------------------------------------
(* The last write of a key. *)

(* Every key of a column that exists. *)
LEMMA KeyFacts == AnyKey \in Keys /\ Buffered \subseteq Keys /\ Direct \subseteq Keys
BY KvConstants DEF AnyKey, Keys

(* A set of positions below a bound has a greatest one. *)
LEMMA GreatestPosition ==
  ASSUME NEW N \in Nat, NEW W, W \subseteq 0..N, W # {}
  PROVE  \E m \in W : \A j \in W : m >= j
<1>1. PICK m \in W : \A j \in W : j <= m
  BY GreatestNat
<1>2. m \in Int /\ \A j \in W : j \in Int
  OBVIOUS
<1> QED BY <1>1, <1>2

LastIn(s, k) == Sets!Max({i \in DOMAIN s : s[i] = k} \cup {0})

(* It is the greatest position at which the log has the key. *)
LEMMA LastInFacts ==
  ASSUME NEW S, NEW s \in Seq(S), NEW k
  PROVE  /\ LastIn(s, k) \in 0..Len(s)
         /\ \A i \in DOMAIN s : s[i] = k => i <= LastIn(s, k)
         /\ LastIn(s, k) # 0 => LastIn(s, k) \in DOMAIN s /\ s[LastIn(s, k)] = k
<1> DEFINE W == {i \in DOMAIN s : s[i] = k} \cup {0}
<1>1. Len(s) \in Nat /\ DOMAIN s = 1..Len(s)
  OBVIOUS
<1>2. W \subseteq 0..Len(s) /\ W # {}
  BY <1>1
<1>3. \E m \in W : \A j \in W : m >= j
  BY <1>1, <1>2, GreatestPosition
<1>4. LastIn(s, k) = CHOOSE m \in W : \A j \in W : m >= j
  BY DEF LastIn, Sets!Max
<1>5. LastIn(s, k) \in W /\ \A j \in W : LastIn(s, k) >= j
  BY <1>3, <1>4
<1>6. \A j \in W : j \in 0..Len(s)
  BY <1>2
<1> QED BY <1>1, <1>5, <1>6

(* There is only one such position. *)
LEMMA LastInUnique ==
  ASSUME NEW S, NEW s \in Seq(S), NEW k, NEW m \in Nat,
         \A i \in DOMAIN s : s[i] = k => i <= m,
         m # 0 => m \in DOMAIN s /\ s[m] = k
  PROVE  LastIn(s, k) = m
<1>1. Len(s) \in Nat /\ DOMAIN s = 1..Len(s)
  OBVIOUS
<1>2. /\ LastIn(s, k) \in 0..Len(s)
      /\ \A i \in DOMAIN s : s[i] = k => i <= LastIn(s, k)
      /\ LastIn(s, k) # 0 => LastIn(s, k) \in DOMAIN s /\ s[LastIn(s, k)] = k
  BY LastInFacts
<1> QED BY <1>1, <1>2

(* The same of the log of the writes. *)
LEMMA LastFacts ==
  ASSUME log \in Seq(Keys \cup {Lost}), NEW k
  PROVE  /\ Last(k) \in 0..Len(log)
         /\ Last(k) \in Nat
         /\ \A i \in DOMAIN log : log[i] = k => i <= Last(k)
         /\ Last(k) # 0 => Last(k) \in DOMAIN log /\ log[Last(k)] = k
<1>1. Last(k) = LastIn(log, k)
  BY DEF Last, LastIn
<1> QED BY <1>1, LastInFacts

(* A write is the last one of its key, and of no other. *)
LEMMA LastAppend ==
  ASSUME log \in Seq(Keys \cup {Lost}), NEW k \in Keys, log' = Append(log, k)
  PROVE  /\ log' \in Seq(Keys \cup {Lost})
         /\ Len(log) \in Nat
         /\ Len(log') = Len(log) + 1
         /\ DOMAIN log \subseteq DOMAIN log'
         /\ \A i \in DOMAIN log' : i \in DOMAIN log \/ i = Len(log) + 1
         /\ Len(log) + 1 \in DOMAIN log'
         /\ log'[Len(log) + 1] = k
         /\ \A i \in DOMAIN log : log'[i] = log[i] /\ i <= Len(log)
         /\ Last(k)' = Len(log) + 1
         /\ \A j \in Keys : j # k => Last(j)' = Last(j)
<1>1. Len(log) \in Nat /\ DOMAIN log = 1..Len(log)
  OBVIOUS
<1>2. /\ log' \in Seq(Keys \cup {Lost})
      /\ Len(log') = Len(log) + 1
      /\ DOMAIN log' = 1..(Len(log) + 1)
      /\ log'[Len(log) + 1] = k
      /\ \A i \in DOMAIN log : log'[i] = log[i]
  BY <1>1
<1>3. /\ DOMAIN log \subseteq DOMAIN log'
      /\ Len(log) + 1 \in DOMAIN log'
      /\ \A i \in DOMAIN log' : i \in DOMAIN log \/ i = Len(log) + 1
      /\ \A i \in DOMAIN log : i <= Len(log)
  BY <1>1, <1>2
<1>4. Last(k)' = Len(log) + 1
  <2> DEFINE m == Len(log) + 1
  <2>1. \A i \in DOMAIN log' : log'[i] = k => i <= m
    BY <1>1, <1>2
  <2>2. m \in Nat /\ m \in DOMAIN log' /\ log'[m] = k
    BY <1>1, <1>2, <1>3
  <2> HIDE DEF m
  <2>3. LastIn(log', k) = m
    BY <1>2, <2>1, <2>2, LastInUnique
  <2> QED BY <2>3 DEF Last, LastIn, m
<1>5. ASSUME NEW j \in Keys, j # k
      PROVE  Last(j)' = Last(j)
  <2>1. /\ Last(j) \in Nat
        /\ \A i \in DOMAIN log : log[i] = j => i <= Last(j)
        /\ Last(j) # 0 => Last(j) \in DOMAIN log /\ log[Last(j)] = j
    BY LastFacts
  <2>2. \A i \in DOMAIN log' : log'[i] = j => i <= Last(j)
    BY <1>2, <1>3, <1>5, <2>1
  <2>3. Last(j) # 0 => Last(j) \in DOMAIN log' /\ log'[Last(j)] = j
    BY <1>2, <1>3, <2>1
  <2>4. LastIn(log', j) = Last(j)
    BY <1>2, <2>1, <2>2, <2>3, LastInUnique
  <2> QED BY <2>4 DEF Last, LastIn
<1> QED BY <1>1, <1>2, <1>3, <1>4, <1>5

------------------------------------------------------------------------------
(* What the invariant says of the values of a key. *)

(* The disk, the map flushing and the overlay hold a key's writes in their order,
   and the newest of them is the last write. *)
LEMMA ValueOrder ==
  ASSUME KvInv, NEW k \in Keys
  PROVE  /\ Last(k) \in Nat
         /\ db[k] \in Nat
         /\ Coming(k) \in Nat
         /\ db[k] <= Coming(k)
         /\ Coming(k) <= Last(k)
         /\ overlay[k] = Unbuffered => Coming(k) = Last(k)
         /\ overlay[k] # Unbuffered => overlay[k] = Last(k)
<1>1. /\ log \in Seq(Keys \cup {Lost})
      /\ db[k] \in Nat
      /\ flushing[k] \in Nat \cup {Unbuffered}
  BY DEF KvInv, KvType
<1>2. /\ Last(k) \in Nat
      /\ \A i \in DOMAIN log : log[i] = k => i <= Last(k)
  BY <1>1, LastFacts
<1>3. /\ flushing[k] # Unbuffered => IsWriteOf(flushing[k], k) /\ db[k] <= flushing[k]
      /\ db[k] # 0 => IsWriteOf(db[k], k)
      /\ Newest(k) = Last(k)
  BY DEF KvInv, Contents
<1>4. db[k] <= Last(k)
  BY <1>1, <1>2, <1>3 DEF IsWriteOf
<1>5. flushing[k] # Unbuffered => flushing[k] <= Last(k)
  BY <1>2, <1>3 DEF IsWriteOf
<1>6. Coming(k) \in Nat /\ db[k] <= Coming(k) /\ Coming(k) <= Last(k)
  BY <1>1, <1>3, <1>4, <1>5 DEF Coming
<1> QED BY <1>1, <1>2, <1>3, <1>6 DEF Newest

(* Steps that leave the maps, the disk and the log alone. *)
LEMMA SameValues ==
  ASSUME UNCHANGED <<overlay, flushing, db, log>>
  PROVE  /\ \A k \in Keys : Last(k)' = Last(k) /\ Coming(k)' = Coming(k)
         /\ Contents => Contents'
         /\ PrefixDurable => PrefixDurable'
         /\ PrefixComing => PrefixComing'
<1>1. \A k \in Keys : Last(k)' = Last(k)
  BY DEF Last
<1>2. \A k : Coming(k)' = Coming(k) /\ Newest(k)' = Newest(k)
  BY DEF Coming, Newest
<1>3. \A v, k : IsWriteOf(v, k)' = IsWriteOf(v, k)
  BY DEF IsWriteOf
<1>4. Contents => Contents'
  BY <1>1, <1>2, <1>3 DEF Contents
<1>5. PrefixDurable => PrefixDurable'
  BY DEF PrefixDurable
<1>6. PrefixComing => PrefixComing'
  BY <1>2 DEF PrefixComing
<1> QED BY <1>1, <1>2, <1>4, <1>5, <1>6

(* Steps of a call that change neither the store nor what was promised. *)
LEMMA QuietStep ==
  ASSUME KvInv, UNCHANGED <<kind, overlay, flushing, db, log, promised>>
  PROVE  /\ Contents'
         /\ Durable'
         /\ PrefixDurable'
         /\ PrefixComing'
         /\ \A k \in Keys : Last(k)' = Last(k) /\ Coming(k)' = Coming(k)
BY SameValues DEF KvInv, Durable

------------------------------------------------------------------------------
(* get *)

(* A call starts with the oldest value it may answer. *)
LEMMA GetCallStep ==
  ASSUME KvInv, NEW t \in Threads, NEW k \in Keys, GetCall(t, k)
  PROVE  KvInv'
<1>1. UNCHANGED <<kind, overlay, flushing, flushing_lock, db, log, promised, result>>
  BY DEF GetCall, dbVars
<1>2. /\ pc \in [Threads -> Pcs] /\ key \in [Threads -> Keys] /\ start \in [Threads -> [Keys -> Nat]]
      /\ kind \in {"rocksdb", "parity", "mdbx"}
      /\ db \in [Keys -> Nat] /\ promised \in [Keys -> Nat]
  BY DEF KvInv, KvType
<1> DEFINE oldest == IF kind = "rocksdb" THEN Last(k) ELSE promised[k]
<1>3. oldest \in Nat /\ oldest <= Last(k) /\ (kind # "rocksdb" => oldest <= db[k])
  <2>1. promised[k] \in Nat /\ promised[k] <= db[k]
    BY <1>2 DEF KvInv, Durable
  <2> QED BY <2>1, ValueOrder
<1>4. start' = [start EXCEPT ![t][k] = oldest]
  BY DEF GetCall
<1> HIDE DEF oldest
<1>5. /\ start' \in [Threads -> [Keys -> Nat]]
      /\ \A u \in Threads : u # t => start'[u] = start[u]
      /\ start'[t][k] = oldest
      /\ \A j \in Keys : start'[t][j] = start[t][j] \/ j = k
  BY <1>2, <1>3, <1>4
<1>6. /\ pc[t] = "idle"
      /\ pc' \in [Threads -> Pcs]
      /\ pc'[t] \in {"get_overlay", "get_db", "get_txn"}
      /\ pc'[t] = "get_overlay" <=> kind = "rocksdb"
      /\ pc'[t] = "get_db" <=> kind = "parity"
      /\ pc'[t] = "get_txn" <=> kind = "mdbx"
      /\ \A u \in Threads : u # t => pc'[u] = pc[u]
  BY <1>2 DEF GetCall, Goes, Pcs
<1>7. /\ key' \in [Threads -> Keys]
      /\ key'[t] = k
      /\ \A u \in Threads : u # t => key'[u] = key[u]
  BY <1>2 DEF GetCall
<1>8. KvType'
  BY <1>1, <1>5, <1>6, <1>7 DEF KvInv, KvType
<1>9. CallsOfKind'
  BY <1>1, <1>6, <1>7 DEF KvInv, CallsOfKind, Holding
<1>10. OneFlush'
  BY <1>1, <1>6 DEF KvInv, OneFlush, CallsOfKind, Holding, InFlight, Nothing
<1>11. Cleared' /\ Passed'
  BY <1>1, <1>6, <1>7 DEF KvInv, Cleared, Passed
<1>12. /\ Contents' /\ Durable' /\ PrefixDurable' /\ PrefixComing'
       /\ \A j \in Keys : Last(j)' = Last(j) /\ Coming(j)' = Coming(j)
  BY <1>1, QuietStep
<1>13. Kept'
  <2>1. ASSUME NEW u \in Threads, NEW j \in Keys
        PROVE  start'[u][j] <= Last(j)'
    <3>1. start[u][j] <= Last(j)
      BY DEF KvInv, Kept
    <3> QED BY <1>3, <1>5, <1>12, <3>1
  <2>2. ASSUME NEW u \in Threads
        PROVE  /\ pc'[u] \in {"write_batch", "write_taken", "commit_txn"} =>
                    \A j \in Keys : start'[u][j] <= Coming(j)'
               /\ pc'[u] = "clear" => \A j \in Keys : start'[u][j] <= db'[j]
               /\ pc'[u] \in {"get_db", "get_txn"} /\ kind' # "rocksdb" =>
                    start'[u][key'[u]] <= db'[key'[u]]
    <3>1. CASE u = t
      BY <1>1, <1>3, <1>5, <1>6, <1>7, <3>1
    <3>2. CASE u # t
      BY <1>1, <1>5, <1>6, <1>7, <1>12, <3>2 DEF KvInv, Kept
    <3> QED BY <3>1, <3>2
  <2> QED BY <2>1, <2>2 DEF Kept
<1>14. ReadsFresh'
  BY <1>1, <1>5, <1>6, <1>7 DEF KvInv, ReadsFresh
<1> QED BY <1>8, <1>9, <1>10, <1>11, <1>12, <1>13, <1>14 DEF KvInv

(* A get that goes on to the next map keeps the guards it has; one that returns has
   an answer that is not too old, or has failed as only those of mdbx do. *)
LEMMA GetMoves ==
  ASSUME KvInv, NEW t \in Threads, NEW next, Goes(t, next),
         UNCHANGED <<kind, overlay, flushing, flushing_lock, db, log, promised, key, start>>,
         pc[t] \in {"get_overlay", "get_flushing", "get_db", "get_txn", "get_ended"},
         result' \in [Threads -> Nat \cup {Failed}],
         \A u \in Threads : u # t => result'[u] = result[u],
         \/ next = "return" /\ result'[t] # Failed /\ result'[t] >= start[t][key[t]]
         \/ next = "return" /\ result'[t] = Failed /\ kind = "mdbx"
         \/ next = "get_flushing" /\ kind = "rocksdb" /\ overlay[key[t]] = Unbuffered
              /\ \A u \in Threads : pc[u] # "swap"
         \/ next = "get_db" /\ kind = "rocksdb" /\ overlay[key[t]] = Unbuffered
              /\ flushing[key[t]] = Unbuffered /\ \A u \in Threads : pc[u] # "swap"
  PROVE  KvInv'
<1>1. pc \in [Threads -> Pcs] /\ next \in {"return", "get_flushing", "get_db"}
  BY DEF KvInv, KvType
<1>2. /\ pc' \in [Threads -> Pcs]
      /\ pc'[t] = next
      /\ \A u \in Threads : u # t => pc'[u] = pc[u]
  BY <1>1 DEF Goes, Pcs
<1>3. KvType'
  BY <1>2 DEF KvInv, KvType
<1>4. CallsOfKind'
  BY <1>1, <1>2 DEF KvInv, CallsOfKind, Holding
<1>5. OneFlush'
  <2>1. next \notin Holding /\ next \notin InFlight /\ pc[t] \notin InFlight
    BY <1>1 DEF Holding, InFlight
  <2>2. \A u, w \in Threads : pc'[u] = "swap" => pc'[w] \notin {"get_flushing", "get_db"}
    BY <1>1, <1>2 DEF KvInv, OneFlush
  <2>3. flushing' = Nothing <=> flushing = Nothing
    OBVIOUS
  <2> QED BY <1>2, <2>1, <2>2, <2>3 DEF KvInv, OneFlush
<1>6. Cleared' /\ Passed'
  BY <1>1, <1>2 DEF KvInv, Cleared, Passed
<1>7. /\ Contents' /\ Durable' /\ PrefixDurable' /\ PrefixComing'
      /\ \A j \in Keys : Last(j)' = Last(j) /\ Coming(j)' = Coming(j)
  BY QuietStep
<1>8. Kept'
  BY <1>1, <1>2, <1>7 DEF KvInv, Kept
<1>9. ReadsFresh'
  BY <1>1, <1>2 DEF KvInv, ReadsFresh
<1> QED BY <1>3, <1>4, <1>5, <1>6, <1>7, <1>8, <1>9 DEF KvInv

(* The newest value answers any call. *)
LEMMA LastIsFresh ==
  ASSUME KvInv, NEW t \in Threads
  PROVE  /\ key[t] \in Keys
         /\ start[t][key[t]] \in Nat
         /\ start[t][key[t]] <= Last(key[t])
BY DEF KvInv, KvType, Kept

(* A value is not an error. *)
LEMMA ValueIsNotFailed == \A v \in Nat : v # Failed
BY KvConstants

(* get looks in the overlay, whose entry is the newest value. *)
LEMMA GetOverlayStep ==
  ASSUME KvInv, NEW t \in Threads, GetOverlay(t)
  PROVE  KvInv'
<1>1. /\ pc[t] = "get_overlay"
      /\ \A u \in Threads : pc[u] # "swap"
      /\ UNCHANGED <<kind, overlay, flushing, flushing_lock, db, log, promised, key, start>>
  BY DEF GetOverlay, LookUp, OverlayWriters, dbVars
<1>2. kind = "rocksdb"
  BY <1>1 DEF KvInv, CallsOfKind
<1>3. result \in [Threads -> Nat \cup {Failed}]
  BY DEF KvInv, KvType
<1>4. CASE overlay[key[t]] = Unbuffered
  <2>1. Goes(t, "get_flushing") /\ result' = result
    BY <1>4 DEF GetOverlay, LookUp
  <2> QED BY <1>1, <1>2, <1>3, <1>4, <2>1, GetMoves
<1>5. CASE overlay[key[t]] # Unbuffered
  <2>1. Goes(t, "return") /\ result' = [result EXCEPT ![t] = overlay[key[t]]]
    BY <1>5 DEF GetOverlay, LookUp
  <2>2. overlay[key[t]] \in Nat /\ overlay[key[t]] >= start[t][key[t]]
    BY <1>5, LastIsFresh, ValueOrder
  <2>3. /\ result' \in [Threads -> Nat \cup {Failed}]
        /\ result'[t] = overlay[key[t]]
        /\ \A u \in Threads : u # t => result'[u] = result[u]
    BY <1>3, <2>1, <2>2
  <2> QED BY <1>1, <2>1, <2>2, <2>3, ValueIsNotFailed, GetMoves
<1> QED BY <1>4, <1>5

(* get looks in flushing, whose entry is the newest value while the overlay has none. *)
LEMMA GetFlushingStep ==
  ASSUME KvInv, NEW t \in Threads, GetFlushing(t)
  PROVE  KvInv'
<1>1. /\ pc[t] = "get_flushing"
      /\ UNCHANGED <<kind, overlay, flushing, flushing_lock, db, log, promised, key, start>>
  BY DEF GetFlushing, LookUp, dbVars
<1>2. kind = "rocksdb" /\ overlay[key[t]] = Unbuffered /\ \A u \in Threads : pc[u] # "swap"
  BY <1>1 DEF KvInv, CallsOfKind, OneFlush, Passed
<1>3. result \in [Threads -> Nat \cup {Failed}]
  BY DEF KvInv, KvType
<1>4. CASE flushing[key[t]] = Unbuffered
  <2>1. Goes(t, "get_db") /\ result' = result
    BY <1>4 DEF GetFlushing, LookUp
  <2> QED BY <1>1, <1>2, <1>3, <1>4, <2>1, GetMoves
<1>5. CASE flushing[key[t]] # Unbuffered
  <2>1. Goes(t, "return") /\ result' = [result EXCEPT ![t] = flushing[key[t]]]
    BY <1>5 DEF GetFlushing, LookUp
  <2>2. flushing[key[t]] = Coming(key[t])
    BY <1>5 DEF Coming
  <2>3. flushing[key[t]] \in Nat /\ flushing[key[t]] >= start[t][key[t]]
    BY <1>2, <2>2, LastIsFresh, ValueOrder
  <2>4. /\ result' \in [Threads -> Nat \cup {Failed}]
        /\ result'[t] = flushing[key[t]]
        /\ \A u \in Threads : u # t => result'[u] = result[u]
    BY <1>3, <2>1, <2>3
  <2> QED BY <1>1, <2>1, <2>3, <2>4, ValueIsNotFailed, GetMoves
<1> QED BY <1>4, <1>5

(* What is on disk answers a get that found nothing pending; where pending writes are
   invisible, it is no older than the last flush. *)
LEMMA GetDbStep ==
  ASSUME KvInv, NEW t \in Threads, GetDb(t)
  PROVE  KvInv'
<1>1. /\ pc[t] = "get_db"
      /\ Goes(t, "return")
      /\ result' = [result EXCEPT ![t] = db[key[t]]]
      /\ UNCHANGED <<kind, overlay, flushing, flushing_lock, db, log, promised, key, start>>
  BY DEF GetDb, Answers, dbVars
<1>2. result \in [Threads -> Nat \cup {Failed}]
  BY DEF KvInv, KvType
<1>3. db[key[t]] \in Nat /\ db[key[t]] >= start[t][key[t]]
  <2>1. CASE kind = "rocksdb"
    <3>1. overlay[key[t]] = Unbuffered /\ flushing[key[t]] = Unbuffered
      BY <1>1, <2>1 DEF KvInv, Passed
    <3>2. db[key[t]] = Coming(key[t])
      BY <3>1 DEF Coming
    <3> QED BY <3>1, <3>2, LastIsFresh, ValueOrder
  <2>2. CASE kind # "rocksdb"
    <3>1. start[t][key[t]] <= db[key[t]]
      BY <1>1, <2>2 DEF KvInv, Kept
    <3> QED BY <3>1, LastIsFresh, ValueOrder
  <2> QED BY <2>1, <2>2
<1>4. /\ result' \in [Threads -> Nat \cup {Failed}]
      /\ result'[t] = db[key[t]]
      /\ \A u \in Threads : u # t => result'[u] = result[u]
  BY <1>1, <1>2, <1>3
<1> QED BY <1>1, <1>3, <1>4, ValueIsNotFailed, GetMoves

(* The open transaction of mdbx shows what a flush has put there, which is newer. *)
LEMMA GetTxnStep ==
  ASSUME KvInv, NEW t \in Threads, GetTxn(t)
  PROVE  KvInv'
<1>1. /\ pc[t] = "get_txn"
      /\ Goes(t, "return")
      /\ result' = [result EXCEPT ![t] = Coming(key[t])]
      /\ UNCHANGED <<kind, overlay, flushing, flushing_lock, db, log, promised, key, start>>
  BY DEF GetTxn, Answers, dbVars, Coming
<1>2. result \in [Threads -> Nat \cup {Failed}]
  BY DEF KvInv, KvType
<1>3. Coming(key[t]) \in Nat /\ Coming(key[t]) >= start[t][key[t]]
  <2>1. start[t][key[t]] <= db[key[t]]
    BY <1>1 DEF KvInv, Kept, CallsOfKind
  <2> QED BY <2>1, LastIsFresh, ValueOrder
<1>4. /\ result' \in [Threads -> Nat \cup {Failed}]
      /\ result'[t] = Coming(key[t])
      /\ \A u \in Threads : u # t => result'[u] = result[u]
  BY <1>1, <1>2, <1>3
<1> QED BY <1>1, <1>3, <1>4, ValueIsNotFailed, GetMoves

(* A get whose transaction has ended fails. *)
LEMMA GetEndedStep ==
  ASSUME KvInv, NEW t \in Threads, GetEnded(t)
  PROVE  KvInv'
<1>1. /\ pc[t] = "get_ended"
      /\ Goes(t, "return")
      /\ result' = [result EXCEPT ![t] = Failed]
      /\ UNCHANGED <<kind, overlay, flushing, flushing_lock, db, log, promised, key, start>>
  BY DEF GetEnded, Answers, dbVars
<1>2. result \in [Threads -> Nat \cup {Failed}] /\ kind = "mdbx"
  BY <1>1 DEF KvInv, KvType, CallsOfKind
<1>3. /\ result' \in [Threads -> Nat \cup {Failed}]
      /\ result'[t] = Failed
      /\ \A u \in Threads : u # t => result'[u] = result[u]
  BY <1>1, <1>2
<1> QED BY <1>1, <1>2, <1>3, GetMoves

(* get returns, and its thread asks for nothing any more. *)
LEMMA GetReturnStep ==
  ASSUME KvInv, NEW t \in Threads, GetReturn(t)
  PROVE  KvInv'
<1>1. /\ pc[t] = "return"
      /\ UNCHANGED <<kind, overlay, flushing, flushing_lock, db, log, promised>>
  BY DEF GetReturn, dbVars
<1>2. /\ pc \in [Threads -> Pcs] /\ key \in [Threads -> Keys]
      /\ start \in [Threads -> [Keys -> Nat]] /\ result \in [Threads -> Nat \cup {Failed}]
      /\ Zero \in [Keys -> Nat] /\ \A k \in Keys : Zero[k] = 0
  BY DEF KvInv, KvType, Zero
<1>3. /\ pc' \in [Threads -> Pcs]
      /\ pc'[t] = "idle"
      /\ \A u \in Threads : u # t => pc'[u] = pc[u]
  BY <1>2 DEF GetReturn, Goes, Pcs
<1>4. /\ start' \in [Threads -> [Keys -> Nat]] /\ result' \in [Threads -> Nat \cup {Failed}]
      /\ key' \in [Threads -> Keys]
      /\ start'[t] = Zero
      /\ \A u \in Threads : u # t => start'[u] = start[u] /\ key'[u] = key[u] /\ result'[u] = result[u]
  BY <1>2, KeyFacts DEF GetReturn
<1>5. KvType'
  BY <1>1, <1>3, <1>4 DEF KvInv, KvType
<1>6. CallsOfKind'
  BY <1>1, <1>3, <1>4 DEF KvInv, CallsOfKind, Holding
<1>7. OneFlush'
  BY <1>1, <1>3 DEF KvInv, OneFlush, Holding, InFlight, Nothing
<1>8. Cleared' /\ Passed'
  BY <1>1, <1>3, <1>4 DEF KvInv, Cleared, Passed
<1>9. /\ Contents' /\ Durable' /\ PrefixDurable' /\ PrefixComing'
      /\ \A j \in Keys : Last(j)' = Last(j) /\ Coming(j)' = Coming(j)
  BY <1>1, QuietStep
<1>10. Kept'
  <2>1. \A j \in Keys : Zero[j] <= Last(j)
    BY <1>2, ValueOrder
  <2> QED BY <1>1, <1>3, <1>4, <1>9, <2>1 DEF KvInv, Kept
<1>11. ReadsFresh'
  BY <1>1, <1>3, <1>4 DEF KvInv, ReadsFresh
<1> QED BY <1>5, <1>6, <1>7, <1>8, <1>9, <1>10, <1>11 DEF KvInv

------------------------------------------------------------------------------
(* write_buffered and write *)

(* Steps that leave the calls of all threads where they are. *)
LEMMA CallsStay ==
  ASSUME KvInv, UNCHANGED <<kind, flushing, flushing_lock, pc, key, start, result>>
  PROVE  CallsOfKind' /\ OneFlush' /\ ReadsFresh'
BY DEF KvInv, CallsOfKind, OneFlush, ReadsFresh, Nothing

(* A write that is appended to the log makes no earlier value newer than it was, and
   leaves every value a write of its key. *)
LEMMA LogGrows ==
  ASSUME KvInv, NEW k \in Keys, log' = Append(log, k)
  PROVE  /\ log' \in Seq(Keys \cup {Lost})
         /\ \A v, j : IsWriteOf(v, j) => IsWriteOf(v, j)' /\ v <= Len(log)
         /\ \A j \in Keys : /\ Last(j)' \in Nat
                            /\ Last(j) <= Last(j)'
                            /\ db[j] <= Len(log)
                            /\ Coming(j) <= Len(log)
<1>1. log \in Seq(Keys \cup {Lost})
  BY DEF KvInv, KvType
<1>2. /\ log' \in Seq(Keys \cup {Lost})
      /\ Len(log) \in Nat
      /\ DOMAIN log \subseteq DOMAIN log'
      /\ \A i \in DOMAIN log : log'[i] = log[i] /\ i <= Len(log)
      /\ Last(k)' = Len(log) + 1
      /\ \A j \in Keys : j # k => Last(j)' = Last(j)
  BY <1>1, LastAppend
<1>3. \A v, j : IsWriteOf(v, j) => IsWriteOf(v, j)' /\ v <= Len(log)
  BY <1>2 DEF IsWriteOf
<1>4. ASSUME NEW j \in Keys
      PROVE  Last(j)' \in Nat /\ Last(j) <= Last(j)' /\ db[j] <= Len(log) /\ Coming(j) <= Len(log)
  <2>1. Last(j) \in Nat /\ Last(j) <= Len(log)
    BY <1>1, <1>2, LastFacts
  <2>2. db[j] \in Nat /\ Coming(j) \in Nat /\ db[j] <= Last(j) /\ Coming(j) <= Last(j)
    BY ValueOrder
  <2> QED BY <1>2, <2>1, <2>2
<1> QED BY <1>2, <1>3, <1>4

(* A write to the pending writes of a backend: the readers of "rocksdb" are away. *)
LEMMA BufferStep ==
  ASSUME KvInv, NEW t \in Threads, NEW k \in Keys, Buffer(t, k),
         kind = "rocksdb" => OverlayFree
  PROVE  KvInv'
<1>1. /\ k \in Buffered
      /\ log' = Append(log, k)
      /\ overlay' = [overlay EXCEPT ![k] = Len(log')]
      /\ UNCHANGED <<kind, flushing, flushing_lock, db, promised, pc, key, start, result>>
  BY DEF Buffer
<1>2. /\ log \in Seq(Keys \cup {Lost})
      /\ overlay \in [Keys -> Nat \cup {Unbuffered}]
      /\ Unbuffered \notin Nat
  BY KvConstants DEF KvInv, KvType
<1>3. /\ log' \in Seq(Keys \cup {Lost})
      /\ Len(log) \in Nat
      /\ Len(log') = Len(log) + 1
      /\ \A i \in DOMAIN log' : i \in DOMAIN log \/ i = Len(log) + 1
      /\ Len(log) + 1 \in DOMAIN log'
      /\ log'[Len(log) + 1] = k
      /\ \A i \in DOMAIN log : log'[i] = log[i] /\ i <= Len(log)
      /\ Last(k)' = Len(log) + 1
      /\ \A j \in Keys : j # k => Last(j)' = Last(j)
  BY <1>1, <1>2, LastAppend
<1>4. /\ \A v, j : IsWriteOf(v, j) => IsWriteOf(v, j)'
      /\ \A j \in Keys : /\ Last(j)' \in Nat
                         /\ Last(j) <= Last(j)'
                         /\ db[j] <= Len(log)
                         /\ Coming(j) <= Len(log)
  BY <1>1, LogGrows
<1>5. /\ overlay' \in [Keys -> Nat \cup {Unbuffered}]
      /\ overlay'[k] = Len(log) + 1
      /\ \A j \in Keys : j # k => overlay'[j] = overlay[j]
  BY <1>1, <1>2, <1>3
<1>6. \A j : Coming(j)' = Coming(j)
  BY <1>1 DEF Coming
<1>7. KvType'
  BY <1>1, <1>3, <1>5 DEF KvInv, KvType
<1>8. CallsOfKind' /\ OneFlush' /\ ReadsFresh'
  BY <1>1, CallsStay
<1>9. Contents'
  <2>1. ASSUME NEW j \in Keys
        PROVE  /\ overlay'[j] # Unbuffered => IsWriteOf(overlay[j], j)' /\ j \in Buffered
               /\ Newest(j)' = Last(j)'
    <3>1. CASE j = k
      BY <1>1, <1>2, <1>3, <1>5, <3>1 DEF IsWriteOf, Newest
    <3>2. CASE j # k
      BY <1>3, <1>4, <1>5, <1>6, <3>2 DEF KvInv, Contents, Newest
    <3> QED BY <3>1, <3>2
  <2>2. ASSUME NEW j \in Keys
        PROVE  /\ flushing'[j] # Unbuffered =>
                    IsWriteOf(flushing[j], j)' /\ j \in Buffered /\ db'[j] <= flushing'[j]
               /\ db'[j] # 0 => IsWriteOf(db[j], j)'
    BY <1>1, <1>4 DEF KvInv, Contents
  <2> QED BY <2>1, <2>2 DEF Contents
<1>10. Cleared'
  BY <1>1 DEF KvInv, Cleared
<1>11. Passed'
  BY <1>1 DEF KvInv, Passed, OverlayFree, OverlayReaders
<1>12. Kept'
  <2>1. ASSUME NEW u \in Threads, NEW j \in Keys
        PROVE  start[u][j] <= Last(j)'
    <3>1. start[u][j] \in Nat /\ start[u][j] <= Last(j) /\ Last(j) \in Nat
      BY ValueOrder DEF KvInv, KvType, Kept
    <3> QED BY <1>4, <3>1
  <2> QED BY <1>1, <1>6, <2>1 DEF KvInv, Kept
<1>13. Durable'
  BY <1>1 DEF KvInv, Durable
<1>14. PrefixDurable' /\ PrefixComing'
  <2> SUFFICES ASSUME NEW j \in Buffered, NEW l \in Buffered, NEW i \in DOMAIN log', log'[i] = l
               PROVE  /\ i < db[j] => i <= db[l]
                      /\ i < Coming(j) => i <= Coming(l)
    BY <1>1, <1>6 DEF PrefixDurable, PrefixComing
  <2>1. CASE i \in DOMAIN log
    BY <1>3, <2>1 DEF KvInv, PrefixDurable, PrefixComing
  <2>2. CASE i = Len(log) + 1
    <3>1. j \in Keys /\ db[j] \in Nat /\ Coming(j) \in Nat /\ db[j] <= Len(log) /\ Coming(j) <= Len(log)
      BY <1>4, KeyFacts, ValueOrder
    <3> QED BY <1>3, <2>2, <3>1
  <2> QED BY <1>3, <2>1, <2>2
<1> QED BY <1>7, <1>8, <1>9, <1>10, <1>11, <1>12, <1>13, <1>14 DEF KvInv

(* A key that is written directly is never pending. *)
LEMMA DirectNotPending ==
  ASSUME KvInv, NEW k \in Direct
  PROVE  k \in Keys /\ k \notin Buffered /\ overlay[k] = Unbuffered /\ flushing[k] = Unbuffered
BY KvConstants DEF KvInv, Contents, Keys

(* write removes a pending write of its key; there is none. *)
LEMMA WriteCallStep ==
  ASSUME KvInv, NEW t \in Threads, NEW k \in Keys, WriteCall(t, k)
  PROVE  KvInv'
<1>1. /\ pc[t] = "idle" /\ kind = "rocksdb" /\ k \in Direct
      /\ overlay' = [overlay EXCEPT ![k] = Unbuffered]
      /\ key' = [key EXCEPT ![t] = k]
      /\ UNCHANGED <<kind, flushing, flushing_lock, db, log, promised, start, result>>
  BY DEF WriteCall
<1>2. overlay \in [Keys -> Nat \cup {Unbuffered}] /\ pc \in [Threads -> Pcs] /\ key \in [Threads -> Keys]
  BY DEF KvInv, KvType
<1>3. overlay' = overlay
  BY <1>1, <1>2, DirectNotPending
<1>4. /\ pc' \in [Threads -> Pcs]
      /\ pc'[t] = "write_db"
      /\ \A u \in Threads : u # t => pc'[u] = pc[u]
  BY <1>2 DEF WriteCall, Goes, Pcs
<1>5. /\ key' \in [Threads -> Keys]
      /\ key'[t] = k
      /\ \A u \in Threads : u # t => key'[u] = key[u]
  BY <1>1, <1>2
<1>6. KvType'
  BY <1>1, <1>3, <1>4, <1>5 DEF KvInv, KvType
<1>7. CallsOfKind'
  BY <1>1, <1>4, <1>5 DEF KvInv, CallsOfKind, Holding
<1>8. OneFlush'
  BY <1>1, <1>4 DEF KvInv, OneFlush, Holding, InFlight, Nothing
<1>9. Cleared' /\ Passed'
  BY <1>1, <1>3, <1>4, <1>5 DEF KvInv, Cleared, Passed
<1>10. /\ Contents' /\ Durable' /\ PrefixDurable' /\ PrefixComing'
       /\ \A j \in Keys : Last(j)' = Last(j) /\ Coming(j)' = Coming(j)
  BY <1>1, <1>3, QuietStep
<1>11. Kept'
  BY <1>1, <1>4, <1>5, <1>10 DEF KvInv, Kept
<1>12. ReadsFresh'
  BY <1>1, <1>4, <1>5 DEF KvInv, ReadsFresh
<1> QED BY <1>6, <1>7, <1>8, <1>9, <1>10, <1>11, <1>12 DEF KvInv

(* A direct write is on disk when it returns, whatever a flush does meanwhile. *)
LEMMA WriteDbStep ==
  ASSUME KvInv, NEW t \in Threads, WriteDb(t)
  PROVE  KvInv'
<1>0. PICK k \in Keys : k = key[t]
  BY DEF KvInv, KvType
<1>1. /\ pc[t] = "write_db" /\ k \in Direct /\ kind = "rocksdb"
      /\ log' = Append(log, k)
      /\ db' = [db EXCEPT ![k] = Len(log')]
      /\ promised' = [promised EXCEPT ![k] = Len(log')]
      /\ key' = [key EXCEPT ![t] = AnyKey]
      /\ UNCHANGED <<kind, overlay, flushing, flushing_lock, start, result>>
  BY <1>0 DEF WriteDb, KvInv, CallsOfKind
<1>2. /\ log \in Seq(Keys \cup {Lost}) /\ pc \in [Threads -> Pcs] /\ key \in [Threads -> Keys]
      /\ db \in [Keys -> Nat] /\ promised \in [Keys -> Nat]
  BY DEF KvInv, KvType
<1>3. /\ pc' \in [Threads -> Pcs]
      /\ pc'[t] = "idle"
      /\ \A u \in Threads : u # t => pc'[u] = pc[u]
  BY <1>2 DEF WriteDb, Goes, Pcs
<1>4. /\ key' \in [Threads -> Keys]
      /\ \A u \in Threads : u # t => key'[u] = key[u]
  BY <1>1, <1>2, KeyFacts
<1>5. k \in Keys /\ k \notin Buffered /\ overlay[k] = Unbuffered /\ flushing[k] = Unbuffered
  BY <1>1, DirectNotPending
<1>6. /\ log' \in Seq(Keys \cup {Lost})
      /\ Len(log) \in Nat
      /\ Len(log') = Len(log) + 1
      /\ \A i \in DOMAIN log' : i \in DOMAIN log \/ i = Len(log) + 1
      /\ Len(log) + 1 \in DOMAIN log'
      /\ log'[Len(log) + 1] = k
      /\ \A i \in DOMAIN log : log'[i] = log[i] /\ i <= Len(log)
      /\ Last(k)' = Len(log) + 1
      /\ \A j \in Keys : j # k => Last(j)' = Last(j)
  BY <1>1, <1>2, <1>5, LastAppend
<1>7. /\ \A v, j : IsWriteOf(v, j) => IsWriteOf(v, j)'
      /\ \A j \in Keys : /\ Last(j)' \in Nat
                         /\ Last(j) <= Last(j)'
                         /\ db[j] <= Len(log)
  BY <1>1, <1>5, LogGrows
<1>8. /\ db' \in [Keys -> Nat]
      /\ promised' \in [Keys -> Nat]
      /\ db'[k] = Len(log) + 1
      /\ promised'[k] = Len(log) + 1
      /\ \A j \in Keys : j # k => db'[j] = db[j] /\ promised'[j] = promised[j]
  BY <1>1, <1>2, <1>5, <1>6
<1>9. /\ Coming(k)' = Len(log) + 1
      /\ \A j \in Keys : j # k => Coming(j)' = Coming(j)
  BY <1>1, <1>5, <1>8 DEF Coming
<1>10. KvType'
  BY <1>1, <1>3, <1>4, <1>6, <1>8 DEF KvInv, KvType
<1>11. CallsOfKind'
  BY <1>1, <1>3, <1>4 DEF KvInv, CallsOfKind, Holding
<1>12. OneFlush'
  BY <1>1, <1>3 DEF KvInv, OneFlush, Holding, InFlight, Nothing
<1>13. Contents'
  <2>1. ASSUME NEW j \in Keys
        PROVE  /\ db'[j] # 0 => IsWriteOf(db[j], j)'
               /\ Newest(j)' = Last(j)'
    <3>1. CASE j = k
      BY <1>1, <1>5, <1>6, <1>8, <1>9, <3>1 DEF IsWriteOf, Newest
    <3>2. CASE j # k
      BY <1>1, <1>6, <1>7, <1>8, <1>9, <3>2 DEF KvInv, Contents, Newest
    <3> QED BY <3>1, <3>2
  <2>2. ASSUME NEW j \in Keys
        PROVE  /\ overlay'[j] # Unbuffered => IsWriteOf(overlay[j], j)' /\ j \in Buffered
               /\ flushing'[j] # Unbuffered =>
                    IsWriteOf(flushing[j], j)' /\ j \in Buffered /\ db'[j] <= flushing'[j]
    BY <1>1, <1>5, <1>7, <1>8 DEF KvInv, Contents
  <2> QED BY <2>1, <2>2 DEF Contents
<1>14. Cleared'
  BY <1>1, <1>3, <1>5, <1>8 DEF KvInv, Cleared
<1>15. Passed'
  BY <1>1, <1>3, <1>4 DEF KvInv, Passed
<1>16. \A j \in Keys : db[j] \in Nat /\ db[j] <= db'[j] /\ Coming(j) \in Nat /\ Coming(j) <= Coming(j)'
  <2>1. ASSUME NEW j \in Keys
        PROVE  /\ db[j] \in Nat /\ db[j] <= Len(log)
               /\ Coming(j) \in Nat /\ (flushing[j] = Unbuffered => Coming(j) = db[j])
    BY <1>7, ValueOrder DEF Coming
  <2> QED BY <1>5, <1>6, <1>8, <1>9, <2>1
<1>17. Kept'
  <2>1. ASSUME NEW u \in Threads, NEW j \in Keys
        PROVE  start[u][j] \in Nat /\ start[u][j] <= Last(j)'
    <3>1. start[u][j] \in Nat /\ start[u][j] <= Last(j) /\ Last(j) \in Nat
      BY ValueOrder DEF KvInv, KvType, Kept
    <3> QED BY <1>7, <3>1
  <2>2. ASSUME NEW u \in Threads, u # t, NEW j \in Keys
        PROVE  /\ pc[u] \in {"write_batch", "write_taken", "commit_txn"} => start[u][j] <= Coming(j)'
               /\ pc[u] = "clear" => start[u][j] <= db'[j]
    <3>1. db'[j] \in Nat /\ Coming(j)' \in Nat
      BY <1>8, <1>9, <1>6, <1>16
    <3> QED BY <1>16, <2>1, <3>1 DEF KvInv, Kept
  <2> QED BY <1>1, <1>3, <2>1, <2>2 DEF Kept
<1>18. ReadsFresh'
  BY <1>1, <1>3, <1>4 DEF KvInv, ReadsFresh
<1>19. Durable'
  BY <1>6, <1>8 DEF KvInv, Durable
<1>20. PrefixDurable' /\ PrefixComing'
  <2> SUFFICES ASSUME NEW j \in Buffered, NEW l \in Buffered, NEW i \in DOMAIN log', log'[i] = l
               PROVE  /\ i < db'[j] => i <= db'[l]
                      /\ i < Coming(j)' => i <= Coming(l)'
    BY DEF PrefixDurable, PrefixComing
  <2>1. i \in DOMAIN log /\ log[i] = l
    BY <1>5, <1>6
  <2>2. /\ db'[j] = db[j] /\ db'[l] = db[l]
        /\ Coming(j)' = Coming(j) /\ Coming(l)' = Coming(l)
    BY <1>5, <1>8, <1>9, KeyFacts
  <2> QED BY <2>1, <2>2 DEF KvInv, PrefixDurable, PrefixComing
<1> QED BY <1>10, <1>11, <1>12, <1>13, <1>14, <1>15, <1>17, <1>18, <1>19, <1>20 DEF KvInv

------------------------------------------------------------------------------
(* flush *)

(* A flush promises the last writes of all keys. *)
LEMMA AskedTypes ==
  ASSUME KvInv, NEW t \in Threads, Asked(t)
  PROVE  /\ start' \in [Threads -> [Keys -> Nat]]
         /\ \A k \in Keys : start'[t][k] = Last(k)
         /\ \A u \in Threads : u # t => start'[u] = start[u]
<1>1. start \in [Threads -> [Keys -> Nat]]
  BY DEF KvInv, KvType
<1>2. [k \in Keys |-> Last(k)] \in [Keys -> Nat]
  BY ValueOrder
<1> QED BY <1>1, <1>2 DEF Asked

(* flush is called. *)
LEMMA FlushCallStep ==
  ASSUME KvInv, NEW t \in Threads, FlushCall(t)
  PROVE  KvInv'
<1>1. /\ pc[t] = "idle" /\ kind = "rocksdb" /\ Asked(t)
      /\ UNCHANGED <<kind, overlay, flushing, flushing_lock, db, log, promised, key, result>>
  BY DEF FlushCall, dbVars
<1>2. /\ pc' \in [Threads -> Pcs]
      /\ pc'[t] = "lock"
      /\ \A u \in Threads : u # t => pc'[u] = pc[u]
  BY DEF KvInv, KvType, FlushCall, Goes, Pcs
<1>3. /\ start' \in [Threads -> [Keys -> Nat]]
      /\ \A k \in Keys : start'[t][k] = Last(k)
      /\ \A u \in Threads : u # t => start'[u] = start[u]
  BY <1>1, AskedTypes
<1>4. KvType'
  BY <1>1, <1>2, <1>3 DEF KvInv, KvType
<1>5. CallsOfKind'
  BY <1>1, <1>2 DEF KvInv, CallsOfKind, Holding
<1>6. OneFlush'
  BY <1>1, <1>2 DEF KvInv, OneFlush, Holding, InFlight, Nothing
<1>7. Cleared' /\ Passed'
  BY <1>1, <1>2 DEF KvInv, Cleared, Passed
<1>8. /\ Contents' /\ Durable' /\ PrefixDurable' /\ PrefixComing'
      /\ \A j \in Keys : Last(j)' = Last(j) /\ Coming(j)' = Coming(j)
  BY <1>1, QuietStep
<1>9. Kept'
  <2>1. \A j \in Keys : Last(j) \in Nat
    BY ValueOrder
  <2> QED BY <1>1, <1>2, <1>3, <1>8, <2>1 DEF KvInv, Kept
<1>10. ReadsFresh'
  BY <1>1, <1>2, <1>3 DEF KvInv, ReadsFresh
<1> QED BY <1>4, <1>5, <1>6, <1>7, <1>8, <1>9, <1>10 DEF KvInv

(* The lock is free: no other flush is under way. *)
LEMMA FlushLockStep ==
  ASSUME KvInv, NEW t \in Threads, FlushLock(t)
  PROVE  KvInv'
<1>1. /\ pc[t] = "lock" /\ flushing_lock = NoThread /\ flushing_lock' = t
      /\ UNCHANGED <<kind, overlay, flushing, db, log, promised, key, start, result>>
  BY DEF FlushLock
<1>2. /\ pc' \in [Threads -> Pcs]
      /\ pc'[t] = "take_overlay"
      /\ \A u \in Threads : u # t => pc'[u] = pc[u]
  BY DEF KvInv, KvType, FlushLock, Goes, Pcs
<1>3. KvType'
  BY <1>1, <1>2 DEF KvInv, KvType
<1>4. CallsOfKind'
  BY <1>1, <1>2 DEF KvInv, CallsOfKind, Holding
<1>5. OneFlush'
  <2>1. \A u \in Threads : u # t => pc'[u] \notin Holding
    BY <1>1, <1>2, KvConstants DEF KvInv, OneFlush
  <2>2. \A u, w \in Threads : pc'[u] = "swap" => pc'[w] \notin {"get_flushing", "get_db"}
    BY <1>2, <2>1 DEF Holding
  <2>3. flushing' = Nothing <=> flushing = Nothing
    BY <1>1
  <2>4. \A u \in Threads : pc'[u] \in InFlight <=> pc[u] \in InFlight
    BY <1>1, <1>2 DEF InFlight
  <2> QED BY <1>1, <2>1, <2>2, <2>3, <2>4 DEF KvInv, OneFlush
<1>6. Cleared' /\ Passed'
  BY <1>1, <1>2 DEF KvInv, Cleared, Passed
<1>7. /\ Contents' /\ Durable' /\ PrefixDurable' /\ PrefixComing'
      /\ \A j \in Keys : Last(j)' = Last(j) /\ Coming(j)' = Coming(j)
  BY <1>1, QuietStep
<1>8. Kept'
  BY <1>1, <1>2, <1>7 DEF KvInv, Kept
<1>9. ReadsFresh'
  BY <1>1, <1>2 DEF KvInv, ReadsFresh
<1> QED BY <1>3, <1>4, <1>5, <1>6, <1>7, <1>8, <1>9 DEF KvInv

(* The write guard of the overlay: its readers are away. *)
LEMMA TakeOverlayStep ==
  ASSUME KvInv, NEW t \in Threads, TakeOverlay(t)
  PROVE  KvInv'
<1>1. /\ pc[t] = "take_overlay"
      /\ \A u \in Threads : pc[u] \notin {"get_flushing", "get_db"}
      /\ UNCHANGED <<kind, overlay, flushing, flushing_lock, db, log, promised, key, start, result>>
  BY DEF TakeOverlay, OverlayFree, OverlayReaders, dbVars
<1>2. /\ pc' \in [Threads -> Pcs]
      /\ pc'[t] = "swap"
      /\ \A u \in Threads : u # t => pc'[u] = pc[u]
  BY DEF KvInv, KvType, TakeOverlay, Goes, Pcs
<1>3. KvType'
  BY <1>1, <1>2 DEF KvInv, KvType
<1>4. CallsOfKind'
  BY <1>1, <1>2 DEF KvInv, CallsOfKind, Holding
<1>5. OneFlush'
  <2>1. \A u \in Threads : pc'[u] \in Holding <=> pc[u] \in Holding
    BY <1>1, <1>2 DEF Holding
  <2>2. \A u, w \in Threads : pc'[u] = "swap" => pc'[w] \notin {"get_flushing", "get_db"}
    BY <1>1, <1>2
  <2>3. flushing' = Nothing <=> flushing = Nothing
    BY <1>1
  <2>4. \A u \in Threads : pc'[u] \in InFlight <=> pc[u] \in InFlight
    BY <1>1, <1>2 DEF InFlight
  <2> QED BY <1>1, <2>1, <2>2, <2>3, <2>4 DEF KvInv, OneFlush
<1>6. Cleared' /\ Passed'
  BY <1>1, <1>2 DEF KvInv, Cleared, Passed
<1>7. /\ Contents' /\ Durable' /\ PrefixDurable' /\ PrefixComing'
      /\ \A j \in Keys : Last(j)' = Last(j) /\ Coming(j)' = Coming(j)
  BY <1>1, QuietStep
<1>8. Kept'
  BY <1>1, <1>2, <1>7 DEF KvInv, Kept
<1>9. ReadsFresh'
  BY <1>1, <1>2 DEF KvInv, ReadsFresh
<1> QED BY <1>3, <1>4, <1>5, <1>6, <1>7, <1>8, <1>9 DEF KvInv

(* When all that is pending moves to an empty flushing, the newest values are those
   that come to the disk next. *)
LEMMA PendingMoves ==
  ASSUME KvInv, flushing = Nothing, flushing' = overlay, overlay' = Nothing,
         UNCHANGED <<kind, db, log, promised>>
  PROVE  /\ \A k \in Keys : Last(k)' = Last(k) /\ Coming(k)' = Last(k) /\ Coming(k) = db[k]
         /\ Contents' /\ Durable' /\ PrefixDurable' /\ PrefixComing'
<1>1. \A k \in Keys : Last(k)' = Last(k)
  BY DEF Last
<1>2. \A k \in Keys : flushing[k] = Unbuffered /\ overlay'[k] = Unbuffered
  BY DEF Nothing
<1>3. \A k \in Keys : Coming(k) = db[k]
  BY <1>2 DEF Coming
<1>4. ASSUME NEW k \in Keys
      PROVE  Coming(k)' = Last(k)
  <2>1. overlay[k] = Unbuffered => db[k] = Last(k)
    BY <1>3, ValueOrder
  <2>2. overlay[k] # Unbuffered => overlay[k] = Last(k)
    BY ValueOrder
  <2> QED BY <2>1, <2>2 DEF Coming
<1>5. Contents'
  <2>1. ASSUME NEW k \in Keys
        PROVE  /\ overlay'[k] = Unbuffered
               /\ flushing'[k] # Unbuffered =>
                    IsWriteOf(flushing[k], k)' /\ k \in Buffered /\ db'[k] <= flushing'[k]
               /\ db'[k] # 0 => IsWriteOf(db[k], k)'
               /\ Newest(k)' = Last(k)'
    <3>1. overlay[k] # Unbuffered => db[k] <= overlay[k]
      BY <1>3, ValueOrder
    <3>2. /\ overlay[k] # Unbuffered => overlay[k] \in DOMAIN log /\ log[overlay[k]] = k /\ k \in Buffered
          /\ db[k] # 0 => db[k] \in DOMAIN log /\ log[db[k]] = k
      BY DEF KvInv, Contents, IsWriteOf
    <3>3. Newest(k)' = Last(k)'
      BY <1>1, <1>2, <1>4 DEF Newest
    <3> QED BY <1>2, <3>1, <3>2, <3>3 DEF IsWriteOf
  <2> QED BY <2>1 DEF Contents
<1>6. Durable' /\ PrefixDurable'
  BY DEF KvInv, Durable, PrefixDurable
<1>7. PrefixComing'
  <2> SUFFICES ASSUME NEW k \in Buffered, NEW i \in DOMAIN log, log[i] = k
               PROVE  i <= Coming(k)'
    BY DEF PrefixComing
  <2>1. k \in Keys
    BY KeyFacts
  <2>2. i <= Last(k)
    BY LastFacts DEF KvInv, KvType
  <2> QED BY <1>4, <2>1, <2>2
<1> QED BY <1>1, <1>3, <1>4, <1>5, <1>6, <1>7

(* When the batch of a flush is on disk, the order of the values is what it was before,
   whether flushing is cleared at once or later. *)
LEMMA BatchWritten ==
  ASSUME KvInv, db' = OnDisk, flushing' = flushing \/ flushing' = Nothing,
         UNCHANGED <<overlay, log>>
  PROVE  /\ db' \in [Keys -> Nat]
         /\ \A k \in Keys : /\ db'[k] = Coming(k)
                            /\ Coming(k)' = Coming(k)
                            /\ Last(k)' = Last(k)
                            /\ db[k] <= db'[k]
                            /\ flushing'[k] \in {Unbuffered, db'[k]}
         /\ Contents' /\ PrefixDurable' /\ PrefixComing'
<1>1. \A k \in Keys : Last(k)' = Last(k)
  BY DEF Last
<1>2. ASSUME NEW k \in Keys
      PROVE  db'[k] = Coming(k) /\ db'[k] \in Nat /\ db[k] <= db'[k]
  <2>1. db'[k] = Coming(k)
    BY DEF OnDisk, Coming
  <2> QED BY <2>1, ValueOrder
<1>3. db' \in [Keys -> Nat]
  BY <1>2 DEF OnDisk
<1>4. ASSUME NEW k \in Keys
      PROVE  Coming(k)' = Coming(k) /\ flushing'[k] \in {Unbuffered, db'[k]}
  <2>1. flushing'[k] = flushing[k] \/ flushing'[k] = Unbuffered
    BY DEF Nothing
  <2> QED BY <1>2, <2>1 DEF Coming
<1>5. ASSUME NEW k \in Keys
      PROVE  /\ overlay'[k] # Unbuffered => IsWriteOf(overlay[k], k)' /\ k \in Buffered
             /\ flushing'[k] # Unbuffered =>
                  IsWriteOf(flushing[k], k)' /\ k \in Buffered /\ db'[k] <= flushing'[k]
             /\ db'[k] # 0 => IsWriteOf(db[k], k)'
             /\ Newest(k)' = Last(k)'
  <2>1. /\ overlay[k] # Unbuffered => overlay[k] \in DOMAIN log /\ log[overlay[k]] = k /\ k \in Buffered
        /\ flushing[k] # Unbuffered =>
             flushing[k] \in DOMAIN log /\ log[flushing[k]] = k /\ k \in Buffered
        /\ db[k] # 0 => db[k] \in DOMAIN log /\ log[db[k]] = k
        /\ Newest(k) = Last(k)
    BY DEF KvInv, Contents, IsWriteOf
  <2>2. flushing'[k] = flushing[k] \/ flushing'[k] = Unbuffered
    BY DEF Nothing
  <2>3. Newest(k)' = Last(k)'
    BY <1>1, <1>4, <2>1 DEF Newest
  <2>4. flushing'[k] # Unbuffered => db'[k] <= flushing'[k]
    BY <1>2, <1>4
  <2>5. db'[k] # 0 => db'[k] \in DOMAIN log /\ log[db'[k]] = k
    BY <1>2, <2>1 DEF Coming
  <2> QED BY <2>1, <2>2, <2>3, <2>4, <2>5 DEF IsWriteOf
<1>6. Contents'
  BY <1>5 DEF Contents
<1>7. PrefixDurable' /\ PrefixComing'
  <2> SUFFICES ASSUME NEW j \in Buffered, NEW k \in Buffered, NEW i \in DOMAIN log, log[i] = k
               PROVE  /\ i < db'[j] => i <= db'[k]
                      /\ i < Coming(j)' => i <= Coming(k)'
    BY DEF PrefixDurable, PrefixComing
  <2>1. i < Coming(j) => i <= Coming(k)
    BY DEF KvInv, PrefixComing
  <2> QED BY <1>2, <1>4, <2>1, KeyFacts
<1> QED BY <1>1, <1>2, <1>3, <1>4, <1>6, <1>7

(* The swap: flushing is empty, because the lock is held and no batch is under way. *)
LEMMA SwapStep ==
  ASSUME KvInv, NEW t \in Threads, Swap(t)
  PROVE  KvInv'
<1>1. /\ pc[t] = "swap" /\ kind = "rocksdb"
      /\ overlay' = flushing /\ flushing' = overlay
      /\ UNCHANGED <<kind, flushing_lock, db, log, promised, key, start, result>>
  BY DEF Swap, KvInv, CallsOfKind, Holding
<1>2. /\ pc' \in [Threads -> Pcs]
      /\ pc'[t] = "write_batch"
      /\ \A u \in Threads : u # t => pc'[u] = pc[u]
  BY DEF KvInv, KvType, Swap, Goes, Pcs
<1>3. \A u \in Threads : pc[u] \notin InFlight
  <2>1. \A u \in Threads : pc[u] \in Holding => u = t
    BY <1>1 DEF KvInv, OneFlush, Holding
  <2> QED BY <1>1, <2>1 DEF KvInv, CallsOfKind, Holding, InFlight
<1>4. flushing = Nothing
  BY <1>3 DEF KvInv, OneFlush
<1>5. /\ \A k \in Keys : Last(k)' = Last(k) /\ Coming(k)' = Last(k)
      /\ Contents' /\ Durable' /\ PrefixDurable' /\ PrefixComing'
  BY <1>1, <1>4, PendingMoves
<1>6. KvType'
  BY <1>1, <1>2 DEF KvInv, KvType
<1>7. CallsOfKind'
  BY <1>1, <1>2 DEF KvInv, CallsOfKind, Holding
<1>8. OneFlush'
  <2>1. \A u \in Threads : pc'[u] \in Holding <=> pc[u] \in Holding
    BY <1>1, <1>2 DEF Holding
  <2>2. pc'[t] \in InFlight /\ \A u \in Threads : pc'[u] \in InFlight => u = t
    BY <1>2, <1>3 DEF InFlight
  <2>3. \A u, w \in Threads : pc'[u] = "swap" => pc'[w] \notin {"get_flushing", "get_db"}
    BY <1>2 DEF KvInv, OneFlush
  <2> QED BY <1>1, <2>1, <2>2, <2>3 DEF KvInv, OneFlush
<1>9. Cleared'
  BY <1>2, <1>3 DEF Cleared, InFlight
<1>10. Passed'
  <2>1. \A u \in Threads : pc'[u] \notin {"get_flushing", "get_db"}
    BY <1>1, <1>2 DEF KvInv, OneFlush
  <2> QED BY <2>1 DEF Passed
<1>11. Kept'
  BY <1>1, <1>2, <1>3, <1>5 DEF KvInv, Kept, InFlight
<1>12. ReadsFresh'
  BY <1>1, <1>2 DEF KvInv, ReadsFresh
<1> QED BY <1>5, <1>6, <1>7, <1>8, <1>9, <1>10, <1>11, <1>12 DEF KvInv

(* The batch of a flush reaches the disk as one write, before flushing is cleared. *)
LEMMA WriteBatchStep ==
  ASSUME KvInv, NEW t \in Threads, WriteBatch(t)
  PROVE  KvInv'
<1>1. /\ pc[t] = "write_batch" /\ kind = "rocksdb"
      /\ db' = OnDisk
      /\ UNCHANGED <<kind, overlay, flushing, flushing_lock, log, promised, key, start, result>>
  BY DEF WriteBatch, KvInv, CallsOfKind, Holding
<1>2. /\ pc' \in [Threads -> Pcs]
      /\ pc'[t] = "clear"
      /\ \A u \in Threads : u # t => pc'[u] = pc[u]
  BY DEF KvInv, KvType, WriteBatch, Goes, Pcs
<1>3. /\ db' \in [Keys -> Nat]
      /\ \A k \in Keys : /\ db'[k] = Coming(k)
                         /\ Coming(k)' = Coming(k)
                         /\ Last(k)' = Last(k)
                         /\ db[k] <= db'[k]
                         /\ flushing'[k] \in {Unbuffered, db'[k]}
      /\ Contents' /\ PrefixDurable' /\ PrefixComing'
  BY <1>1, BatchWritten
<1>4. \A u \in Threads : pc[u] \in InFlight => u = t
  BY <1>1 DEF KvInv, OneFlush, InFlight
<1>5. KvType'
  BY <1>1, <1>2, <1>3 DEF KvInv, KvType
<1>6. CallsOfKind'
  BY <1>1, <1>2 DEF KvInv, CallsOfKind, Holding
<1>7. OneFlush'
  <2>1. \A u \in Threads : pc'[u] \in Holding <=> pc[u] \in Holding
    BY <1>1, <1>2 DEF Holding
  <2>2. \A u \in Threads : pc'[u] \in InFlight <=> pc[u] \in InFlight
    BY <1>1, <1>2 DEF InFlight
  <2>3. \A u, w \in Threads : pc'[u] = "swap" => pc'[w] \notin {"get_flushing", "get_db"}
    BY <1>2 DEF KvInv, OneFlush
  <2>4. flushing' = Nothing <=> flushing = Nothing
    BY <1>1
  <2> QED BY <1>1, <2>1, <2>2, <2>3, <2>4 DEF KvInv, OneFlush
<1>8. Cleared' /\ Passed'
  BY <1>1, <1>2, <1>3 DEF KvInv, Cleared, Passed
<1>9. Kept'
  BY <1>1, <1>2, <1>3, <1>4 DEF KvInv, Kept, InFlight
<1>10. ReadsFresh'
  BY <1>1, <1>2 DEF KvInv, ReadsFresh
<1>11. Durable'
  <2> SUFFICES ASSUME NEW k \in Keys PROVE db'[k] >= promised[k]
    BY <1>1 DEF Durable
  <2>1. promised[k] \in Nat /\ db[k] \in Nat /\ db[k] >= promised[k]
    BY DEF KvInv, KvType, Durable
  <2> QED BY <1>3, <2>1
<1> QED BY <1>3, <1>5, <1>6, <1>7, <1>8, <1>9, <1>10, <1>11 DEF KvInv

(* A flush that returns promises what it found written, which is on disk. *)
LEMMA PromiseKept ==
  ASSUME KvInv, NEW t \in Threads, Promise(t),
         \A k \in Keys : db'[k] \in Nat /\ start[t][k] <= db'[k] /\ db[k] <= db'[k]
  PROVE  /\ Durable'
         /\ promised' \in [Keys -> Nat]
         /\ start' \in [Threads -> [Keys -> Nat]]
         /\ \A k \in Keys : start'[t][k] = 0
         /\ \A u \in Threads : u # t => start'[u] = start[u]
<1>1. ASSUME NEW k \in Keys
      PROVE  /\ promised'[k] \in Nat
             /\ db'[k] >= promised'[k]
  <2>1. start[t][k] \in Nat /\ promised[k] \in Nat /\ db[k] \in Nat /\ db[k] >= promised[k]
    BY DEF KvInv, KvType, Durable
  <2> QED BY <2>1 DEF Promise
<1>2. promised' \in [Keys -> Nat]
  BY <1>1 DEF Promise
<1>3. start \in [Threads -> [Keys -> Nat]] /\ Zero \in [Keys -> Nat]
  BY DEF KvInv, KvType, Zero
<1>4. start' = [start EXCEPT ![t] = Zero] /\ \A k \in Keys : Zero[k] = 0
  BY DEF Promise, Zero
<1> QED BY <1>1, <1>2, <1>3, <1>4 DEF Durable

(* flush clears what is on disk, gives the lock back and returns. *)
LEMMA FlushClearStep ==
  ASSUME KvInv, NEW t \in Threads, FlushClear(t)
  PROVE  KvInv'
<1>1. /\ pc[t] = "clear" /\ kind = "rocksdb" /\ Promise(t)
      /\ flushing' = Nothing /\ flushing_lock' = NoThread
      /\ \A u \in Threads : pc[u] # "get_db"
      /\ UNCHANGED <<kind, overlay, db, log, key, result>>
  BY DEF FlushClear, KvInv, CallsOfKind, Holding, FlushingReaders
<1>2. /\ pc' \in [Threads -> Pcs]
      /\ pc'[t] = "idle"
      /\ \A u \in Threads : u # t => pc'[u] = pc[u]
  BY DEF KvInv, KvType, FlushClear, Goes, Pcs
<1>3. db' = OnDisk
  <2>1. \A k \in Keys : flushing[k] \in {Unbuffered, db[k]}
    BY <1>1 DEF KvInv, Cleared
  <2>2. db \in [Keys -> Nat]
    BY DEF KvInv, KvType
  <2> QED BY <1>1, <2>1, <2>2 DEF OnDisk
<1>4. /\ db' \in [Keys -> Nat]
      /\ \A k \in Keys : /\ db'[k] = Coming(k)
                         /\ Coming(k)' = Coming(k)
                         /\ Last(k)' = Last(k)
                         /\ db[k] <= db'[k]
      /\ Contents' /\ PrefixDurable' /\ PrefixComing'
  BY <1>1, <1>3, BatchWritten
<1>5. \A k \in Keys : db'[k] \in Nat /\ start[t][k] <= db'[k]
  BY <1>1, <1>4 DEF KvInv, Kept
<1>6. /\ Durable'
      /\ promised' \in [Keys -> Nat]
      /\ start' \in [Threads -> [Keys -> Nat]]
      /\ \A k \in Keys : start'[t][k] = 0
      /\ \A u \in Threads : u # t => start'[u] = start[u]
  BY <1>1, <1>4, <1>5, PromiseKept
<1>7. \A u \in Threads : pc'[u] \notin Holding /\ pc'[u] \notin InFlight
  <2>1. \A u \in Threads : pc[u] \in Holding \/ pc[u] \in InFlight => u = t
    BY <1>1 DEF KvInv, OneFlush, Holding, InFlight
  <2> QED BY <1>2, <2>1 DEF Holding, InFlight
<1>8. KvType'
  <2>1. Nothing \in [Keys -> Nat \cup {Unbuffered}]
    BY DEF Nothing
  <2> QED BY <1>1, <1>2, <1>4, <1>6, <2>1 DEF KvInv, KvType
<1>9. CallsOfKind'
  BY <1>1, <1>2 DEF KvInv, CallsOfKind, Holding
<1>10. OneFlush'
  <2>1. Nothing' = Nothing
    BY DEF Nothing
  <2> QED BY <1>1, <1>7, <2>1 DEF OneFlush, Holding
<1>11. Cleared' /\ Passed'
  BY <1>1, <1>2, <1>7 DEF KvInv, Cleared, Passed, InFlight
<1>12. Kept'
  <2>1. \A k \in Keys : Last(k) \in Nat
    BY ValueOrder
  <2> QED BY <1>1, <1>2, <1>4, <1>6, <1>7, <2>1 DEF KvInv, Kept, InFlight
<1>13. ReadsFresh'
  BY <1>1, <1>2, <1>6 DEF KvInv, ReadsFresh
<1> QED BY <1>4, <1>6, <1>8, <1>9, <1>10, <1>11, <1>12, <1>13 DEF KvInv

(* flush of "parity" and "mdbx": the buffered writes move to an empty transaction. *)
LEMMA TakenStep ==
  ASSUME KvInv, NEW t \in Threads, NEW next, Taken(t, next),
         \/ kind = "parity" /\ next = "write_taken"
         \/ kind = "mdbx" /\ next = "commit_txn"
  PROVE  KvInv'
<1>1. /\ pc[t] = "idle" /\ Asked(t)
      /\ \A u \in Threads : pc[u] # next
      /\ flushing' = overlay /\ overlay' = Nothing
      /\ UNCHANGED <<kind, flushing_lock, db, log, promised, key, result>>
  BY DEF Taken
<1>2. /\ pc' \in [Threads -> Pcs]
      /\ pc'[t] = next
      /\ \A u \in Threads : u # t => pc'[u] = pc[u]
  BY DEF KvInv, KvType, Taken, Goes, Pcs
<1>3. \A u \in Threads : pc[u] \notin InFlight /\ pc[u] \notin Holding
  BY <1>1 DEF KvInv, CallsOfKind, Holding, InFlight
<1>4. flushing = Nothing
  BY <1>3 DEF KvInv, OneFlush
<1>5. /\ \A k \in Keys : Last(k)' = Last(k) /\ Coming(k)' = Last(k)
      /\ Contents' /\ Durable' /\ PrefixDurable' /\ PrefixComing'
  BY <1>1, <1>4, PendingMoves
<1>6. /\ start' \in [Threads -> [Keys -> Nat]]
      /\ \A k \in Keys : start'[t][k] = Last(k)
      /\ \A u \in Threads : u # t => start'[u] = start[u]
  BY <1>1, AskedTypes
<1>7. KvType'
  BY <1>1, <1>2, <1>4, <1>6 DEF KvInv, KvType
<1>8. CallsOfKind'
  BY <1>1, <1>2 DEF KvInv, CallsOfKind, Holding
<1>9. OneFlush'
  <2>1. next \in InFlight /\ next \notin Holding /\ next # "swap"
    BY DEF InFlight, Holding
  <2>2. \A u \in Threads : pc'[u] \notin Holding
    BY <1>2, <1>3, <2>1
  <2>3. \A u \in Threads : pc'[u] \in InFlight <=> u = t
    BY <1>2, <1>3, <2>1
  <2> QED BY <2>2, <2>3 DEF OneFlush, Holding
<1>10. Cleared' /\ Passed'
  BY <1>1, <1>2, <1>3 DEF Cleared, Passed, InFlight
<1>11. Kept'
  <2>1. \A k \in Keys : Last(k) \in Nat
    BY ValueOrder
  <2> QED BY <1>1, <1>2, <1>3, <1>5, <1>6, <2>1 DEF KvInv, Kept, InFlight
<1>12. ReadsFresh'
  BY <1>1, <1>2, <1>6 DEF KvInv, ReadsFresh
<1> QED BY <1>5, <1>7, <1>8, <1>9, <1>10, <1>11, <1>12 DEF KvInv

(* The transaction is on disk, and the flush returns; gets of mdbx may lose their
   transaction by it. *)
LEMMA CommittedStep ==
  ASSUME KvInv, NEW t \in Threads, WriteTaken(t) \/ CommitTxn(t)
  PROVE  KvInv'
<1>1. /\ Committed(t) /\ pc[t] \in {"write_taken", "commit_txn"}
      /\ kind # "rocksdb" /\ Promise(t)
      /\ db' = OnDisk /\ flushing' = Nothing
      /\ UNCHANGED <<kind, overlay, flushing_lock, log, key, result>>
  BY DEF WriteTaken, CommitTxn, Committed, KvInv, CallsOfKind
<1>2. /\ pc' \in [Threads -> Pcs]
      /\ pc'[t] = "idle"
      /\ \A u \in Threads : u # t =>
           pc'[u] = pc[u] \/ (pc[u] = "get_txn" /\ pc'[u] = "get_ended")
  <2>1. pc \in [Threads -> Pcs] /\ "idle" \in Pcs /\ "get_ended" \in Pcs
    BY DEF KvInv, KvType, Pcs
  <2>2. CASE WriteTaken(t)
    <3>1. pc' = [pc EXCEPT ![t] = "idle"]
      BY <2>2 DEF WriteTaken, Goes
    <3> QED BY <2>1, <3>1
  <2>3. CASE CommitTxn(t)
    <3>1. pc' = [u \in Threads |-> IF u = t THEN "idle"
                                  ELSE IF pc[u] = "get_txn" THEN "get_ended"
                                  ELSE pc[u]]
      BY <2>3 DEF CommitTxn
    <3> QED BY <2>1, <3>1
  <2> QED BY <2>2, <2>3
<1>3. /\ db' \in [Keys -> Nat]
      /\ \A k \in Keys : /\ db'[k] = Coming(k)
                         /\ Coming(k)' = Coming(k)
                         /\ Last(k)' = Last(k)
                         /\ db[k] <= db'[k]
      /\ Contents' /\ PrefixDurable' /\ PrefixComing'
  BY <1>1, BatchWritten
<1>4. \A k \in Keys : db'[k] \in Nat /\ start[t][k] <= db'[k]
  BY <1>1, <1>3 DEF KvInv, Kept
<1>5. /\ Durable'
      /\ promised' \in [Keys -> Nat]
      /\ start' \in [Threads -> [Keys -> Nat]]
      /\ \A k \in Keys : start'[t][k] = 0
      /\ \A u \in Threads : u # t => start'[u] = start[u]
  BY <1>1, <1>3, <1>4, PromiseKept
<1>6. \A u \in Threads : pc'[u] \notin Holding /\ pc'[u] \notin InFlight
  <2>1. \A u \in Threads : pc[u] \in InFlight => u = t
    BY <1>1 DEF KvInv, OneFlush, InFlight
  <2>2. \A u \in Threads : pc[u] \notin Holding
    BY <1>1 DEF KvInv, CallsOfKind
  <2> QED BY <1>2, <2>1, <2>2 DEF Holding, InFlight
<1>7. KvType'
  <2>1. Nothing \in [Keys -> Nat \cup {Unbuffered}]
    BY DEF Nothing
  <2> QED BY <1>1, <1>2, <1>3, <1>5, <2>1 DEF KvInv, KvType
<1>8. CallsOfKind'
  BY <1>1, <1>2 DEF KvInv, CallsOfKind, Holding
<1>9. OneFlush'
  <2>1. Nothing' = Nothing
    BY DEF Nothing
  <2> QED BY <1>1, <1>6, <2>1 DEF OneFlush, Holding
<1>10. Cleared' /\ Passed'
  BY <1>1, <1>6 DEF Cleared, Passed, InFlight
<1>11. Kept'
  <2>1. ASSUME NEW u \in Threads, NEW k \in Keys
        PROVE  start'[u][k] <= Last(k)'
    BY <1>3, <1>5, ValueOrder DEF KvInv, Kept
  <2>2. ASSUME NEW u \in Threads, pc'[u] \in {"get_db", "get_txn"}
        PROVE  start'[u][key'[u]] <= db'[key'[u]]
    <3>1. u # t /\ pc[u] \in {"get_db", "get_txn"}
      BY <1>2, <2>2
    <3>2. key[u] \in Keys /\ start[u][key[u]] \in Nat /\ db[key[u]] \in Nat
      BY DEF KvInv, KvType
    <3>3. start[u][key[u]] <= db[key[u]]
      BY <1>1, <3>1 DEF KvInv, Kept
    <3> QED BY <1>1, <1>3, <1>5, <3>1, <3>2, <3>3
  <2> QED BY <1>6, <2>1, <2>2 DEF Kept, InFlight
<1>12. ReadsFresh'
  BY <1>1, <1>2, <1>5 DEF KvInv, ReadsFresh
<1> QED BY <1>3, <1>5, <1>7, <1>8, <1>9, <1>10, <1>11, <1>12 DEF KvInv

------------------------------------------------------------------------------
(* The process ends *)

(* What is not on disk is lost: of each key the last write that remains is the one that
   is on disk. *)
LEMMA RestartStep ==
  ASSUME KvInv, Restart
  PROVE  KvInv'
<1>1. /\ overlay' = Nothing /\ flushing' = Nothing /\ flushing_lock' = NoThread
      /\ log' = [i \in DOMAIN log |-> IF log[i] # Lost /\ i > db[log[i]] THEN Lost ELSE log[i]]
      /\ pc' = [t \in Threads |-> "idle"]
      /\ start' = [t \in Threads |-> Zero]
      /\ result' = [t \in Threads |-> 0]
      /\ key' = [t \in Threads |-> AnyKey]
      /\ UNCHANGED <<kind, db, promised>>
  BY DEF Restart
<1>2. /\ log \in Seq(Keys \cup {Lost}) /\ db \in [Keys -> Nat]
      /\ Lost \notin Keys
  BY KvConstants DEF KvInv, KvType, Keys
<1>3. /\ Len(log) \in Nat /\ DOMAIN log = 1..Len(log)
      /\ \A i \in DOMAIN log : log[i] \in Keys \cup {Lost}
  BY <1>2
<1>4. /\ DOMAIN log' = DOMAIN log
      /\ log' \in [1..Len(log) -> Keys \cup {Lost}]
      /\ \A i \in DOMAIN log : log'[i] = IF log[i] # Lost /\ i > db[log[i]] THEN Lost ELSE log[i]
  BY <1>1, <1>3
<1>5. log' \in Seq(Keys \cup {Lost})
  BY <1>3, <1>4
<1>6. \A i \in DOMAIN log : \A k \in Keys : log'[i] = k <=> log[i] = k /\ i <= db[k]
  BY <1>2, <1>3, <1>4
<1>7. \A k \in Keys : db[k] # 0 => db[k] \in DOMAIN log' /\ log'[db[k]] = k
  <2>1. \A k \in Keys : db[k] # 0 => db[k] \in DOMAIN log /\ log[db[k]] = k
    BY DEF KvInv, Contents, IsWriteOf
  <2> QED BY <1>2, <1>4, <1>6, <2>1
<1>8. ASSUME NEW k \in Keys
      PROVE  Last(k)' = db[k]
  <2>1. db[k] \in Nat /\ \A i \in DOMAIN log' : log'[i] = k => i <= db[k]
    BY <1>2, <1>4, <1>6
  <2>2. LastIn(log', k) = db[k]
    BY <1>5, <1>7, <2>1, LastInUnique
  <2> QED BY <2>2 DEF Last, LastIn
<1>9. /\ \A k \in Keys : overlay'[k] = Unbuffered /\ flushing'[k] = Unbuffered
      /\ \A k \in Keys : Coming(k)' = db[k] /\ Newest(k)' = db[k]
  BY <1>1 DEF Nothing, Coming, Newest
<1>10. /\ \A t \in Threads : pc'[t] = "idle"
       /\ \A t \in Threads, k \in Keys : start'[t][k] = 0
  BY <1>1 DEF Zero
<1>11. KvType'
  <2>1. Nothing \in [Keys -> Nat \cup {Unbuffered}] /\ Zero \in [Keys -> Nat] /\ "idle" \in Pcs
    BY DEF Nothing, Zero, Pcs
  <2> QED BY <1>1, <1>5, <2>1, KeyFacts DEF KvInv, KvType
<1>12. CallsOfKind' /\ Cleared' /\ Passed' /\ ReadsFresh'
  BY <1>10 DEF CallsOfKind, Cleared, Passed, ReadsFresh, Holding
<1>13. OneFlush'
  <2>1. Nothing' = Nothing
    BY DEF Nothing
  <2> QED BY <1>1, <1>10, <2>1 DEF OneFlush, Holding, InFlight
<1>14. Contents'
  BY <1>1, <1>7, <1>8, <1>9 DEF Contents, IsWriteOf
<1>15. Kept'
  BY <1>2, <1>8, <1>10 DEF Kept
<1>16. Durable'
  BY <1>1 DEF KvInv, Durable
<1>17. PrefixDurable' /\ PrefixComing'
  <2> SUFFICES ASSUME NEW j \in Buffered, NEW k \in Buffered, NEW i \in DOMAIN log', log'[i] = k
               PROVE  i <= db[k]
    BY <1>1, <1>9, KeyFacts DEF PrefixDurable, PrefixComing
  <2> QED BY <1>4, <1>6, KeyFacts
<1> QED BY <1>11, <1>12, <1>13, <1>14, <1>15, <1>16, <1>17 DEF KvInv

------------------------------------------------------------------------------

(* An empty database satisfies the invariant. *)
LEMMA KvInit == Init => KvInv
<1> SUFFICES ASSUME Init PROVE KvInv
  OBVIOUS
<1>1. /\ \A k \in Keys : overlay[k] = Unbuffered /\ flushing[k] = Unbuffered /\ db[k] = 0
      /\ \A k \in Keys : promised[k] = 0
      /\ \A t \in Threads : pc[t] = "idle"
      /\ \A t \in Threads, k \in Keys : start[t][k] = 0
      /\ log = << >> /\ DOMAIN log = {}
  BY DEF Init, Nothing, Zero
<1>2. KvType
  <2>1. Nothing \in [Keys -> Nat \cup {Unbuffered}] /\ Zero \in [Keys -> Nat] /\ "idle" \in Pcs
    BY DEF Nothing, Zero, Pcs
  <2>2. << >> \in Seq(Keys \cup {Lost})
    OBVIOUS
  <2> QED BY <2>1, <2>2, KeyFacts, KvConstants DEF Init, KvType
<1>3. \A k \in Keys : Last(k) = 0
  <2>1. ASSUME NEW k \in Keys PROVE Last(k) \in Nat /\ (Last(k) # 0 => Last(k) \in DOMAIN log)
    BY <1>2, LastFacts DEF KvType
  <2> QED BY <1>1, <2>1
<1>4. \A k \in Keys : Coming(k) = 0 /\ Newest(k) = 0
  BY <1>1 DEF Coming, Newest
<1>5. CallsOfKind /\ Cleared /\ Passed /\ ReadsFresh
  BY <1>1 DEF CallsOfKind, Cleared, Passed, ReadsFresh, Holding
<1>6. OneFlush
  BY <1>1 DEF Init, OneFlush, Holding, InFlight
<1>7. Contents
  BY <1>1, <1>3, <1>4 DEF Contents
<1>8. Kept /\ Durable
  BY <1>1, <1>3 DEF Kept, Durable
<1>9. PrefixDurable /\ PrefixComing
  BY <1>1 DEF PrefixDurable, PrefixComing
<1> QED BY <1>2, <1>5, <1>6, <1>7, <1>8, <1>9 DEF KvInv

(* Every step of every thread, and the end of the process, keep the invariant. *)
LEMMA KvNext == KvInv /\ [Next]_vars => KvInv'
<1> SUFFICES ASSUME KvInv, [Next]_vars
             PROVE  KvInv'
  OBVIOUS
<1>1. ASSUME NEW t \in Threads, NEW k \in Keys, WriteBuffered(t, k) \/ Extend(t, k) \/ Push(t, k)
      PROVE  KvInv'
  <2>1. Buffer(t, k) /\ (kind = "rocksdb" => OverlayFree)
    BY <1>1 DEF WriteBuffered, Extend, Push
  <2> QED BY <2>1, BufferStep
<1>2. ASSUME NEW t \in Threads, NEW k \in Keys, GetCall(t, k) \/ WriteCall(t, k)
      PROVE  KvInv'
  BY <1>2, GetCallStep, WriteCallStep
<1>3. ASSUME NEW t \in Threads, FlushCall(t) \/ TakeTransactions(t) \/ PutTxn(t)
      PROVE  KvInv'
  <2>1. CASE FlushCall(t)
    BY <2>1, FlushCallStep
  <2>2. CASE TakeTransactions(t)
    <3>1. kind = "parity" /\ Taken(t, "write_taken")
      BY <2>2 DEF TakeTransactions
    <3> QED BY <3>1, TakenStep
  <2>3. CASE PutTxn(t)
    <3>1. kind = "mdbx" /\ Taken(t, "commit_txn")
      BY <2>3 DEF PutTxn
    <3> QED BY <3>1, TakenStep
  <2> QED BY <1>3, <2>1, <2>2, <2>3
<1>4. ASSUME NEW t \in Threads, Step(t)
      PROVE  KvInv'
  <2>1. CASE GetOverlay(t) \/ GetFlushing(t) \/ GetDb(t) \/ GetTxn(t)
            \/ GetEnded(t) \/ GetReturn(t)
    BY <2>1, GetOverlayStep, GetFlushingStep, GetDbStep, GetTxnStep, GetEndedStep,
       GetReturnStep
  <2>2. CASE WriteDb(t)
    BY <2>2, WriteDbStep
  <2>3. CASE FlushLock(t) \/ TakeOverlay(t) \/ Swap(t) \/ WriteBatch(t) \/ FlushClear(t)
    BY <2>3, FlushLockStep, TakeOverlayStep, SwapStep, WriteBatchStep, FlushClearStep
  <2>4. CASE WriteTaken(t) \/ CommitTxn(t)
    BY <2>4, CommittedStep
  <2> QED BY <1>4, <2>1, <2>2, <2>3, <2>4 DEF Step
<1>5. CASE Restart
  BY <1>5, RestartStep
<1>6. CASE UNCHANGED vars
  <2>1. UNCHANGED <<kind, overlay, flushing, flushing_lock, db, log, promised, pc, key, start, result>>
    BY <1>6 DEF vars, dbVars
  <2>2. KvType'
    BY <2>1 DEF KvInv, KvType
  <2>3. CallsOfKind' /\ OneFlush' /\ ReadsFresh'
    BY <2>1, CallsStay
  <2>4. /\ Contents' /\ Durable' /\ PrefixDurable' /\ PrefixComing'
        /\ \A j \in Keys : Last(j)' = Last(j) /\ Coming(j)' = Coming(j)
    BY <2>1, QuietStep
  <2>5. Cleared' /\ Passed' /\ Kept'
    BY <2>1, <2>4 DEF KvInv, Cleared, Passed, Kept
  <2> QED BY <2>2, <2>3, <2>4, <2>5 DEF KvInv
<1> QED BY <1>1, <1>2, <1>3, <1>4, <1>5, <1>6 DEF Next

(* The invariant holds in every reachable state, of any number of threads. *)
LEMMA KvInductive == Spec => []KvInv
BY KvInit, KvNext, PTL DEF Spec

(* A get of rocksdb misses no write that came before the call: while its key moves from
   the overlay to flushing to the disk, the guards it keeps let nothing slip past.  One
   of parity or mdbx misses none that a flush had made durable by then, and only one of
   mdbx may fail. *)
THEOREM GetIsFresh == Spec => []ReadsFresh
<1>1. KvInv => ReadsFresh
  BY DEF KvInv
<1> QED BY <1>1, KvInductive, PTL

(* A flush that has returned has made durable all that was written before it was
   called, whichever thread did the work, and a restart does not undo it. *)
THEOREM FlushIsDurable == Spec => []Durable
<1>1. KvInv => Durable
  BY DEF KvInv
<1> QED BY <1>1, KvInductive, PTL

(* The buffered writes on disk are a prefix of those that were made, at any moment a
   process may end: the swap takes all that is pending, and the batch is one write. *)
THEOREM DiskIsPrefix == Spec => []PrefixDurable
<1>1. KvInv => PrefixDurable
  BY DEF KvInv
<1> QED BY <1>1, KvInductive, PTL
==============================================================================
