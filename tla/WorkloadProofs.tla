---------------------------- MODULE WorkloadProofs ----------------------------
(***************************************************************************)
(* Proofs about a benchmark process, for every set of keys, size of the    *)
(* batches, capacity of the channel and limit on epochs and retries: the   *)
(* random workload reads no key that the warm-up left out, and a real      *)
(* trace is replayed in order and, if nobody stops the run, to its end.    *)
(***************************************************************************)
EXTENDS Workload, NumberLemmas, SequenceTheorems

-------------------------------------------------------------------------------
(* The warm-up iterator *)

(* The iterator ends only when it has handed out every key, the ones of a last
   batch that is not full included. *)
LEMMA WarmupExhausts ==
  ASSUME keys \subseteq Keys, WarmupBatches = {}
  PROVE  keys = {}
<1> SUFFICES ASSUME keys # {} PROVE FALSE
  OBVIOUS
<1>1. IsFiniteSet(keys)
  BY WorkloadConstants, FS_Subset
<1>2. Cardinality(keys) \in Nat
  BY <1>1, FS_CardinalityType
<1>3. BatchSize \in Nat /\ BatchSize # 0
  BY WorkloadConstants
<1>4. CASE Cardinality(keys) <= BatchSize
  BY <1>4 DEF WarmupBatches
<1>5. CASE BatchSize <= Cardinality(keys)
  <2>1. PICK b \in SUBSET keys : Cardinality(b) = BatchSize
    BY <1>1, <1>3, <1>5, SubsetOfSize
  <2>2. b # {}
    BY <1>3, <2>1, FS_EmptySet
  <2>3. Cardinality(b) <= BatchSize
    BY <1>3, <2>1
  <2> QED
    BY <2>1, <2>2, <2>3 DEF WarmupBatches
<1> QED
  BY <1>2, <1>3, <1>4, <1>5

-------------------------------------------------------------------------------
(* The inductive invariant.  The keys that the storage lacks are still with the
   warm-up; a saved warm-up is complete although failed copies came before; and the
   random workload hands out sets of keys only, one in each epoch, because its
   producer outlives the iterator. *)

Phases == {"warmup", "copy", "saved", "start", "next", "done", "panic"}

ProcessOK ==
  /\ driver \in Phases
  /\ ~opts.real_trace => opts.group_size = 1
  /\ keys \subseteq Keys
  /\ picks \in Nat

WarmupOK ==
  /\ driver \in {"warmup", "copy", "saved"} => opts.warmup # "none"
  /\ driver = "warmup" => Keys \subseteq db \cup keys
  /\ driver = "copy" => Keys \subseteq disk
  /\ driver = "saved" => Keys \subseteq warmup_dir
  /\ driver \in {"copy", "saved", "start", "next"} /\ opts.warmup # "none"
       => Keys \subseteq db

PickOK ==
  ~opts.real_trace =>
    /\ channel \in Seq(SUBSET Keys)
    /\ producer = "ended" => ~receiver
    /\ driver = "next" /\ picks = 1 => \E b \in SUBSET Keys : grouped = <<b>>

ReceiverOK ==
  /\ ~receiver => driver \in {"done", "panic"}
  /\ driver \in {"warmup", "copy", "saved", "start"} => picks = 0

WorkloadInv == ProcessOK /\ WarmupOK /\ PickOK /\ ReceiverOK /\ NoEmptyReads

LEMMA WorkloadInit ==
  ASSUME Init
  PROVE  WorkloadInv
<1>1. opts \in Options /\ opts.warmup # "from"
  BY DEF Init
<1>2. ~opts.real_trace => opts.group_size = 1
  BY <1>1 DEF Options
<1>3. driver = IF opts.warmup = "none" THEN "start" ELSE "warmup"
  BY DEF Init
<1>4. /\ keys = Keys /\ producer = "none" /\ channel = << >> /\ receiver = TRUE
      /\ picks = 0 /\ empty_reads = 0
  BY DEF Init
<1>5. ProcessOK
  BY <1>2, <1>3, <1>4 DEF ProcessOK, Phases
<1>6. WarmupOK
  BY <1>3, <1>4 DEF WarmupOK
<1>7. PickOK
  BY <1>3, <1>4 DEF PickOK
<1>8. ReceiverOK /\ NoEmptyReads
  BY <1>4 DEF ReceiverOK, NoEmptyReads
<1> QED
  BY <1>5, <1>6, <1>7, <1>8 DEF WorkloadInv

-------------------------------------------------------------------------------
(* The warm-up and its copy leave the iterator alone. *)
LEMMA WarmupStep ==
  ASSUME WorkloadInv, WarmupEpoch \/ WarmupEnd \/ CopyFails \/ Copy
  PROVE  WorkloadInv'
<1>1. /\ UNCHANGED <<opts, producer, channel, receiver, grouped, picks, empty_reads>>
      /\ driver \in {"warmup", "copy"}
      /\ driver' \in {"warmup", "copy", "saved", "start", "panic"}
      /\ driver' = "panic" \/ picks = 0
      /\ keys' \subseteq keys
  BY DEF WorkloadInv, ReceiverOK, WarmupEpoch, WarmupEnd, CopyFails, Copy,
         producerVars, nextVars, runVars, WarmupBatches
<1>2. opts.warmup # "none"
  BY <1>1 DEF WorkloadInv, WarmupOK
<1>3. ProcessOK'
  BY <1>1 DEF WorkloadInv, ProcessOK, Phases
<1>4. PickOK' /\ ReceiverOK' /\ NoEmptyReads'
  BY <1>1 DEF WorkloadInv, PickOK, ReceiverOK, NoEmptyReads
<1>5. CASE WarmupEpoch
  <2>1. driver = "warmup" /\ driver' = "warmup" /\ opts' = opts
        /\ db' \cup keys' = db \cup keys
    BY <1>5 DEF WarmupEpoch, WarmupBatches
  <2>2. WarmupOK'
    BY <1>2, <2>1 DEF WorkloadInv, WarmupOK
  <2> QED
    BY <1>3, <1>4, <2>2 DEF WorkloadInv
<1>6. CASE WarmupEnd
  <2>1. driver = "warmup" /\ WarmupBatches = {} /\ disk' = db /\ db' = db /\ opts' = opts
        /\ driver' \in {"copy", "start"}
    BY <1>6 DEF WarmupEnd
  <2>2. keys = {}
    BY <2>1, WarmupExhausts DEF WorkloadInv, ProcessOK
  <2>3. Keys \subseteq db
    BY <2>1, <2>2 DEF WorkloadInv, WarmupOK
  <2>4. WarmupOK'
    BY <1>2, <2>1, <2>3 DEF WarmupOK
  <2> QED
    BY <1>3, <1>4, <2>4 DEF WorkloadInv
<1>7. CASE CopyFails \/ Copy
  <2>1. /\ driver = "copy" /\ disk' = disk /\ db' = db /\ opts' = opts
        /\ driver' \in {"copy", "panic", "saved"}
        /\ driver' = "saved" => warmup_dir' = disk
    BY <1>7 DEF CopyFails, Copy
  <2>2. Keys \subseteq disk /\ Keys \subseteq db
    BY <1>2, <2>1 DEF WorkloadInv, WarmupOK
  <2>3. WarmupOK'
    BY <1>2, <2>1, <2>2 DEF WarmupOK
  <2> QED
    BY <1>3, <1>4, <2>3 DEF WorkloadInv
<1> QED
  BY <1>5, <1>6, <1>7

(* A process that starts, from the warm-up of an earlier one or on its tasks. *)
LEMMA StartStep ==
  ASSUME WorkloadInv, RunSaved \/ TasksStart
  PROVE  WorkloadInv'
<1>1. CASE RunSaved
  <2>1. /\ driver = "saved" /\ driver' = "start" /\ db' = warmup_dir
        /\ UNCHANGED <<keys, producer, channel, receiver, grouped, picks, empty_reads>>
    BY <1>1 DEF RunSaved, producerVars, nextVars, runVars
  <2>2. opts' \in Options /\ opts'.warmup = "from" /\ opts'.real_trace = opts.real_trace
    BY <1>1 DEF RunSaved
  <2>3. ~opts'.real_trace => opts'.group_size = 1
    BY <2>2 DEF Options
  <2>4. Keys \subseteq warmup_dir /\ opts.warmup # "none"
    BY <2>1 DEF WorkloadInv, WarmupOK
  <2>5. ProcessOK'
    BY <2>1, <2>3 DEF WorkloadInv, ProcessOK, Phases
  <2>6. WarmupOK'
    BY <2>1, <2>4 DEF WarmupOK
  <2>7. PickOK'
    BY <2>1, <2>2 DEF WorkloadInv, PickOK
  <2>8. ReceiverOK' /\ NoEmptyReads'
    BY <2>1, <2>4 DEF WorkloadInv, ReceiverOK, NoEmptyReads
  <2> QED
    BY <2>5, <2>6, <2>7, <2>8 DEF WorkloadInv
<1>2. CASE TasksStart
  <2>1. /\ driver = "start" /\ driver' = "next" /\ producer' = "running"
        /\ UNCHANGED <<opts, keys, db, channel, receiver, grouped, picks, empty_reads>>
    BY <1>2 DEF TasksStart, warmupVars, nextVars, runVars
  <2>2. picks = 0
    BY <2>1 DEF WorkloadInv, ReceiverOK
  <2>3. ProcessOK' /\ WarmupOK'
    BY <2>1 DEF WorkloadInv, ProcessOK, Phases, WarmupOK
  <2>4. PickOK' /\ ReceiverOK' /\ NoEmptyReads'
    BY <2>1, <2>2 DEF WorkloadInv, PickOK, ReceiverOK, NoEmptyReads
  <2> QED
    BY <2>3, <2>4 DEF WorkloadInv
<1> QED
  BY <1>1, <1>2

(* What the producers leave alone. *)
LEMMA ProducerStep ==
  ASSUME WorkloadInv, Producer
  PROVE  WorkloadInv'
<1>1. UNCHANGED <<opts, driver, keys, db, disk, warmup_dir, receiver, grouped, picks, empty_reads>>
  BY DEF Producer, ProduceBatch, ProduceFile, ProduceEnd, warmupVars, nextVars, runVars
<1>2. ProcessOK' /\ WarmupOK' /\ ReceiverOK' /\ NoEmptyReads'
  BY <1>1 DEF WorkloadInv, ProcessOK, WarmupOK, ReceiverOK, NoEmptyReads
<1>3. PickOK'
  <2>1. CASE opts.real_trace
    BY <1>1, <2>1 DEF PickOK
  <2>2. CASE ~opts.real_trace
    <3>1. PICK b \in Batches :
            Send(b) /\ producer' = IF receiver THEN "running" ELSE "ended"
      BY <2>2 DEF Producer, ProduceBatch, ProduceFile, ProduceEnd
    <3>2. b \in SUBSET Keys
      BY DEF Batches
    <3>3. channel \in Seq(SUBSET Keys)
      BY <2>2 DEF WorkloadInv, PickOK
    <3>4. channel' \in Seq(SUBSET Keys)
      BY <3>1, <3>2, <3>3 DEF Send
    <3>5. producer' = "ended" => ~receiver
      BY <3>1
    <3> QED
      BY <1>1, <3>4, <3>5 DEF WorkloadInv, PickOK
  <2> QED
    BY <2>1, <2>2
<1> QED
  BY <1>2, <1>3 DEF WorkloadInv

(* The iterator: the storage and the warm-up stay, and what the random workload hands
   out is what came through the channel. *)
LEMMA PickStep ==
  ASSUME WorkloadInv, ReceiveBatch \/ ReceiveFile \/ PickBlock \/ PickNone \/ Timeout
  PROVE  WorkloadInv'
<1>1. /\ UNCHANGED <<opts, keys, db, disk, warmup_dir, producer, empty_reads>>
      /\ driver = "next"
      /\ \/ driver' = "next" /\ receiver' = receiver
         \/ driver' = "panic" /\ ~receiver'
      /\ picks' \in {picks, picks + 1}
  <2> USE DEF Picking, warmupVars, producerVars, nextVars, runVars
  <2>1. CASE ReceiveBatch
    BY <2>1 DEF ReceiveBatch
  <2>2. CASE ReceiveFile
    BY <2>2 DEF ReceiveFile
  <2>3. CASE PickBlock
    BY <2>3 DEF PickBlock
  <2>4. CASE PickNone
    BY <2>4 DEF PickNone
  <2>5. CASE Timeout
    BY <2>5 DEF Timeout
  <2> QED
    BY <2>1, <2>2, <2>3, <2>4, <2>5
<1>2. ProcessOK'
  <2>1. picks \in Nat
    BY DEF WorkloadInv, ProcessOK
  <2>2. picks' \in Nat
    BY <1>1, <2>1
  <2> QED
    BY <1>1, <2>2 DEF WorkloadInv, ProcessOK, Phases
<1>3. WarmupOK' /\ ReceiverOK' /\ NoEmptyReads'
  BY <1>1 DEF WorkloadInv, WarmupOK, ReceiverOK, NoEmptyReads
<1>4. PickOK'
  <2>1. CASE opts.real_trace
    BY <1>1, <2>1 DEF PickOK
  <2>2. CASE ~opts.real_trace
    <3>1. channel \in Seq(SUBSET Keys) /\ (producer = "ended" => ~receiver)
      BY <2>2 DEF WorkloadInv, PickOK
    <3>2. receiver
      BY <1>1 DEF WorkloadInv, ReceiverOK
    <3>3. CASE ReceiveBatch
      <4>1. channel # << >> /\ grouped' = <<Head(channel)>> /\ channel' = Tail(channel)
            /\ receiver' = receiver
        BY <3>3 DEF ReceiveBatch
      <4>2. Head(channel) \in SUBSET Keys /\ Tail(channel) \in Seq(SUBSET Keys)
        BY <3>1, <4>1
      <4> QED
        BY <1>1, <3>1, <4>1, <4>2 DEF PickOK
    <3>4. CASE Timeout
      <4>1. driver' = "panic" /\ ~receiver' /\ channel' = channel
        BY <3>4 DEF Timeout, producerVars
      <4> QED
        BY <1>1, <3>1, <4>1 DEF PickOK
    <3>5. ~ReceiveFile /\ ~PickBlock
      BY <2>2 DEF ReceiveFile, PickBlock
    <3>6. ~PickNone
      BY <3>1, <3>2 DEF PickNone
    <3> QED
      BY <3>3, <3>4, <3>5, <3>6
  <2> QED
    BY <2>1, <2>2
<1> QED
  BY <1>2, <1>3, <1>4 DEF WorkloadInv

(* An epoch of the random workload reads keys that the storage has. *)
LEMMA EpochStep ==
  ASSUME WorkloadInv, Epoch
  PROVE  WorkloadInv'
<1>1. /\ UNCHANGED <<opts, driver, keys, disk, warmup_dir, producer, channel, receiver>>
      /\ driver = "next" /\ picks = opts.group_size /\ picks' = 0
  BY DEF Epoch, producerVars
<1>2. db \subseteq db'
  BY DEF Epoch
<1>3. ProcessOK' /\ WarmupOK' /\ ReceiverOK'
  BY <1>1, <1>2 DEF WorkloadInv, ProcessOK, WarmupOK, ReceiverOK
<1>4. PickOK'
  BY <1>1 DEF WorkloadInv, PickOK
<1>5. NoEmptyReads'
  <2>1. CASE opts.real_trace
    BY <1>1, <2>1 DEF Epoch, WorkloadInv, NoEmptyReads
  <2>2. CASE ~opts.real_trace /\ opts.warmup # "none"
    <3>1. picks = 1
      BY <1>1, <2>2 DEF WorkloadInv, ProcessOK
    <3>2. PICK b \in SUBSET Keys : grouped = <<b>>
      BY <1>1, <2>2, <3>1 DEF WorkloadInv, PickOK
    <3>3. Keys \subseteq db
      BY <1>1, <2>2 DEF WorkloadInv, WarmupOK
    <3>4. grouped[1] \ db = {}
      BY <3>2, <3>3
    <3>5. empty_reads' = empty_reads + Cardinality(grouped[1] \ db)
      BY <2>2 DEF Epoch
    <3>6. empty_reads' = empty_reads + 0
      BY <3>4, <3>5, FS_EmptySet
    <3>7. empty_reads = 0
      BY <2>2 DEF WorkloadInv, NoEmptyReads
    <3> QED
      BY <3>6, <3>7 DEF NoEmptyReads
  <2>3. CASE opts.warmup = "none"
    BY <1>1, <2>3 DEF NoEmptyReads
  <2> QED
    BY <2>1, <2>2, <2>3
<1> QED
  BY <1>3, <1>4, <1>5 DEF WorkloadInv

(* The end of the run, and a process that is over. *)
LEMMA EndStep ==
  ASSUME WorkloadInv, End \/ UNCHANGED vars
  PROVE  WorkloadInv'
<1>1. CASE End
  <2>1. /\ UNCHANGED <<opts, keys, db, disk, warmup_dir, producer, channel, picks, empty_reads>>
        /\ driver' = "done" /\ ~receiver'
    BY <1>1 DEF End, warmupVars, producerVars, runVars
  <2>2. ProcessOK' /\ WarmupOK' /\ ReceiverOK' /\ NoEmptyReads'
    BY <2>1 DEF WorkloadInv, ProcessOK, Phases, WarmupOK, ReceiverOK, NoEmptyReads
  <2>3. PickOK'
    BY <2>1 DEF WorkloadInv, PickOK
  <2> QED
    BY <2>2, <2>3 DEF WorkloadInv
<1>2. CASE UNCHANGED vars
  BY <1>2 DEF vars, warmupVars, producerVars, nextVars, runVars, WorkloadInv, ProcessOK,
              WarmupOK, PickOK, ReceiverOK, NoEmptyReads
<1> QED
  BY <1>1, <1>2

(* The inductive invariant of a benchmark process. *)
THEOREM WorkloadInductive == Spec => []WorkloadInv
<1>1. Init => WorkloadInv
  BY WorkloadInit
<1>2. WorkloadInv /\ [Next]_vars => WorkloadInv'
  <2> SUFFICES ASSUME WorkloadInv, [Next]_vars PROVE WorkloadInv'
    OBVIOUS
  <2>1. CASE WarmupEpoch \/ WarmupEnd \/ CopyFails \/ Copy
    BY <2>1, WarmupStep
  <2>2. CASE RunSaved \/ TasksStart
    BY <2>2, StartStep
  <2>3. CASE Producer
    BY <2>3, ProducerStep
  <2>4. CASE ReceiveBatch \/ ReceiveFile \/ PickBlock \/ PickNone \/ Timeout
    BY <2>4, PickStep
  <2>5. CASE Epoch
    BY <2>5, EpochStep
  <2>6. CASE End \/ UNCHANGED vars
    BY <2>6, EndStep
  <2> QED
    BY <2>1, <2>2, <2>3, <2>4, <2>5, <2>6 DEF Next, Driver, Stopped
<1> QED
  BY <1>1, <1>2, PTL DEF Spec

(* After a warm-up, in the same process or saved by another one, the random workload
   finds every key it reads, whatever the sizes of batches, channel and key set. *)
THEOREM WarmKeysAreFound == Spec => []NoEmptyReads
<1>1. WorkloadInv => NoEmptyReads
  BY DEF WorkloadInv
<1> QED
  BY <1>1, WorkloadInductive, PTL

-------------------------------------------------------------------------------
(* The order in which a trace is replayed *)

Block == Nat \X Nat
BlocksOf(trace, f) == [b \in DOMAIN trace[f] |-> <<f, b>>]
Reversed(trace, f) == Seqs!Reverse(BlocksOf(trace, f))

(* What F[m] says: the order of the first m files. *)
IsReplay(F, n, trace) ==
  /\ F \in [0..n -> Seq(Block)]
  /\ F[0] = << >>
  /\ \A m \in 1..n : F[m] = F[m - 1] \o Reversed(trace, m)

LEMMA FileFacts ==
  ASSUME NEW trace \in Seq(Seq(BOOLEAN)), NEW f \in 1..Len(trace)
  PROVE  /\ BlocksOf(trace, f) \in Seq(Block) /\ Reversed(trace, f) \in Seq(Block)
         /\ Len(Reversed(trace, f)) = Len(BlocksOf(trace, f))
         /\ \A i \in 1..Len(BlocksOf(trace, f)) :
              Reversed(trace, f)[i] = BlocksOf(trace, f)[Len(BlocksOf(trace, f)) - i + 1]
<1>1. PICK s \in Seq(BOOLEAN) : s = trace[f]
  OBVIOUS
<1>2. PICK n \in Nat : n = Len(s) /\ DOMAIN s = 1..n
  OBVIOUS
<1>3. PICK q : q = BlocksOf(trace, f)
  OBVIOUS
<1>4. q = [b \in 1..n |-> <<f, b>>] /\ q \in [1..n -> Block] /\ f \in Nat
  BY <1>1, <1>2, <1>3 DEF BlocksOf, Block
<1>5. q \in Seq(Block) /\ Len(q) = n
  BY <1>2, <1>4
<1>6. PICK r : r = Reversed(trace, f)
  OBVIOUS
<1>7. r = [i \in 1..n |-> q[(n - i) + 1]]
  BY <1>3, <1>5, <1>6 DEF Reversed, Seqs!Reverse
<1>8. ASSUME NEW i \in 1..n PROVE (n - i) + 1 \in 1..n
  BY <1>2
<1>9. r \in [1..n -> Block]
  BY <1>4, <1>7, <1>8
<1>10. r \in Seq(Block) /\ Len(r) = n
  <2>1. DOMAIN r = 1..n /\ n \in Nat
    BY <1>9
  <2>2. r \in Seq(Block)
    BY <1>9, <2>1
  <2> QED
    BY <2>1, <2>2
<1>11. \A i \in 1..n : r[i] = q[n - i + 1]
  BY <1>7
<1> QED
  BY <1>3, <1>5, <1>6, <1>10, <1>11

LEMMA ReplayExists ==
  ASSUME NEW trace \in Seq(Seq(BOOLEAN)), NEW l \in 0..Len(trace)
  PROVE  \E F : IsReplay(F, l, trace)
<1>1. PICK S : S = {j \in 0..l : \E F : IsReplay(F, j, trace)}
  OBVIOUS
<1>2. l \in Nat /\ l <= Len(trace) /\ Len(trace) \in Nat
  OBVIOUS
<1>3. 0 \in S
  <2>1. PICK F : F = [m \in 0..0 |-> << >>]
    OBVIOUS
  <2>2. F \in [0..0 -> Seq(Block)] /\ F[0] = << >>
    BY <2>1
  <2>3. IsReplay(F, 0, trace)
    BY <2>2 DEF IsReplay
  <2> QED
    BY <1>1, <1>2, <2>3
<1>4. ASSUME NEW j \in 1..l, j - 1 \in S
      PROVE  j \in S
  <2>0. j \in Nat /\ j - 1 \in Nat /\ j \in 1..Len(trace)
    BY <1>2
  <2>1. PICK F : IsReplay(F, j - 1, trace)
    BY <1>1, <1>4
  <2>2. PICK H : H = [m \in 0..j |-> IF m = j THEN F[j - 1] \o Reversed(trace, j) ELSE F[m]]
    OBVIOUS
  <2>3. Reversed(trace, j) \in Seq(Block) /\ F[j - 1] \in Seq(Block)
    BY <2>0, <2>1, FileFacts DEF IsReplay
  <2>4. F[j - 1] \o Reversed(trace, j) \in Seq(Block)
    BY <2>3
  <2>5. \A m \in 0..(j - 1) : H[m] = F[m] /\ F[m] \in Seq(Block)
    BY <2>0, <2>1, <2>2 DEF IsReplay
  <2>6. H[j] = F[j - 1] \o Reversed(trace, j)
    BY <2>0, <2>2
  <2>7. H \in [0..j -> Seq(Block)]
    BY <2>0, <2>1, <2>2, <2>4 DEF IsReplay
  <2>8. H[0] = << >>
    BY <2>0, <2>1, <2>5 DEF IsReplay
  <2>9. ASSUME NEW m \in 1..j PROVE H[m] = H[m - 1] \o Reversed(trace, m)
    <3>1. CASE m = j
      <4>1. H[j - 1] = F[j - 1]
        BY <2>0, <2>5
      <4> QED
        BY <2>6, <3>1, <4>1
    <3>2. CASE m # j
      <4>1. m \in 1..(j - 1) /\ m \in 0..(j - 1) /\ m - 1 \in 0..(j - 1)
        BY <2>0, <3>2
      <4>2. F[m] = F[m - 1] \o Reversed(trace, m)
        BY <2>1, <4>1 DEF IsReplay
      <4> QED
        BY <2>5, <4>1, <4>2
    <3> QED
      BY <3>1, <3>2
  <2>10. IsReplay(H, j, trace)
    BY <2>7, <2>8, <2>9 DEF IsReplay
  <2> QED
    BY <1>1, <1>2, <2>10
<1>5. \A j \in 0..l : j \in S
  BY <1>2, <1>3, <1>4, InductionTo
<1> QED
  BY <1>1, <1>2, <1>5

(* FlattenSeq puts the files one after another. *)
LEMMA ReplayIs ==
  ASSUME NEW trace \in Seq(Seq(BOOLEAN))
  PROVE  \E F : IsReplay(F, Len(trace), trace) /\ Replay(trace) = F[Len(trace)]
<1>1. PICK n \in Nat : n = Len(trace) /\ DOMAIN trace = 1..n
  OBVIOUS
<1>2. PICK s : s = [f \in 1..n |-> Reversed(trace, f)]
  OBVIOUS
<1>3. Len(s) = n /\ \A f \in 1..n : s[f] = Reversed(trace, f) /\ s[f] \in Seq(Block)
  BY <1>1, <1>2, FileFacts
<1>4. Replay(trace) = Seqs!FlattenSeq(s)
  BY <1>1, <1>2 DEF Replay, Reversed, BlocksOf
<1>5. PICK F : IsReplay(F, n, trace)
  BY <1>1, ReplayExists
<1>6. CASE n = 0
  <2>1. s = << >> /\ F[0] = << >>
    BY <1>2, <1>5, <1>6 DEF IsReplay
  <2>2. Seqs!FlattenSeq(s) = s
    BY <1>3, <1>6 DEF Seqs!FlattenSeq
  <2> QED
    BY <1>1, <1>4, <1>5, <1>6, <2>1, <2>2
<1>7. CASE n # 0
  <2> DEFINE Step(f) == f = [i \in 1..n |-> IF i = 1 THEN s[i] ELSE f[i - 1] \o s[i]]
  <2>0. F[1] = s[1]
    <3>1. 1 \in 1..n /\ 1 - 1 = 0
      BY <1>7
    <3>2. F[1] = F[0] \o Reversed(trace, 1) /\ F[0] = << >>
      BY <1>5, <3>1 DEF IsReplay
    <3>3. s[1] = Reversed(trace, 1) /\ s[1] \in Seq(Block)
      BY <1>3, <3>1
    <3> QED
      BY <3>2, <3>3, ConcatEmptySeq
  <2>1. PICK h : h = [i \in 1..n |-> F[i]]
    OBVIOUS
  <2>2. ASSUME NEW i \in 1..n PROVE h[i] = IF i = 1 THEN s[i] ELSE h[i - 1] \o s[i]
    <3>0. i \in Nat /\ i >= 1 /\ i <= n /\ F[i] = F[i - 1] \o s[i] /\ h[i] = F[i]
      <4>1. s[i] = Reversed(trace, i)
        BY <1>3
      <4>2. F[i] = F[i - 1] \o Reversed(trace, i)
        BY <1>5 DEF IsReplay
      <4>3. i \in Nat /\ i >= 1 /\ i <= n /\ h[i] = F[i]
        BY <1>1, <2>1
      <4> QED
        BY <4>1, <4>2, <4>3
    <3>1. CASE i = 1
      BY <2>0, <3>0, <3>1
    <3>2. CASE i # 1
      <4>1. i - 1 \in 1..n
        BY <3>0, <3>2
      <4> QED
        BY <2>1, <3>0, <3>2, <4>1
    <3> QED
      BY <3>1, <3>2
  <2>3. Step(h)
    BY <2>1, <2>2
  <2>4. PICK g : g = CHOOSE f : Step(f)
    OBVIOUS
  <2>5. Step(g)
    <3> HIDE DEF Step
    <3> QED
      BY <2>3, <2>4
  <2>6. Replay(trace) = g[n]
    BY <1>3, <1>4, <1>7, <2>4 DEF Seqs!FlattenSeq
  <2>7. \A i \in 1..n : g[i] = IF i = 1 THEN s[i] ELSE g[i - 1] \o s[i]
    BY <2>5
  <2>8. PICK S : S = {j \in 0..n : j = 0 \/ g[j] = F[j]}
    OBVIOUS
  <2>9. ASSUME NEW j \in 1..n, j - 1 \in S PROVE j \in S
    <3>0. j \in Nat /\ j >= 1 /\ j <= n /\ F[j] = F[j - 1] \o s[j] /\ s[j] \in Seq(Block)
      <4>1. s[j] = Reversed(trace, j) /\ s[j] \in Seq(Block)
        BY <1>3
      <4>2. F[j] = F[j - 1] \o Reversed(trace, j)
        BY <1>5 DEF IsReplay
      <4>3. j \in Nat /\ j >= 1 /\ j <= n
        BY <1>1
      <4> QED
        BY <4>1, <4>2, <4>3
    <3>1. CASE j = 1
      <4>1. g[j] = s[j] /\ j \in 0..n
        BY <2>7, <3>0, <3>1
      <4> QED
        BY <2>0, <2>8, <3>1, <4>1
    <3>2. CASE j # 1
      <4>1. g[j] = g[j - 1] \o s[j]
        BY <2>7, <3>2
      <4>2. j - 1 # 0 /\ j \in 0..n
        BY <3>0, <3>2
      <4>3. g[j - 1] = F[j - 1]
        BY <2>8, <2>9, <4>2
      <4> QED
        BY <2>8, <3>0, <4>1, <4>2, <4>3
    <3> QED
      BY <3>1, <3>2
  <2>10. 0 \in S
    BY <1>1, <2>8
  <2>11. \A j \in 0..n : j \in S
    BY <2>9, <2>10, InductionTo
  <2>12. g[n] = F[n]
    BY <1>7, <2>8, <2>11
  <2> QED
    BY <1>1, <1>5, <2>6, <2>12
<1> QED
  BY <1>6, <1>7

(* The first files come first. *)
LEMMA FirstFiles ==
  ASSUME NEW trace \in Seq(Seq(BOOLEAN)), NEW F, IsReplay(F, Len(trace), trace), NEW m \in 0..Len(trace)
  PROVE  /\ Len(F[m]) <= Len(F[Len(trace)])
         /\ \A i \in 1..Len(F[m]) : F[Len(trace)][i] = F[m][i]
<1>1. PICK n \in Nat : n = Len(trace)
  OBVIOUS
<1>2. F \in [0..n -> Seq(Block)] /\ m \in 0..n
  BY <1>1 DEF IsReplay
<1>3. PICK S : S = {j \in 0..n : j < m \/ (Len(F[m]) <= Len(F[j]) /\ \A i \in 1..Len(F[m]) : F[j][i] = F[m][i])}
  OBVIOUS
<1>4. 0 \in S
  <2>1. CASE m = 0
    BY <1>2, <1>3, <2>1
  <2>2. CASE m # 0
    BY <1>2, <1>3, <2>2
  <2> QED
    BY <2>1, <2>2
<1>5. ASSUME NEW j \in 1..n, j - 1 \in S PROVE j \in S
  <2>1. CASE j <= m
    <3>1. j < m \/ j = m
      BY <1>2, <2>1
    <3> QED
      BY <1>2, <1>3, <3>1
  <2>2. CASE ~(j <= m)
    <3>1. j \in 0..n /\ j - 1 \in 0..n /\ ~(j - 1 < m)
      BY <1>2, <2>2
    <3>2. Len(F[m]) <= Len(F[j - 1]) /\ \A i \in 1..Len(F[m]) : F[j - 1][i] = F[m][i]
      BY <1>3, <1>5, <3>1
    <3>3. PICK x \in Seq(Block), y \in Seq(Block) : F[j - 1] = x /\ F[j] = x \o y
      BY <1>1, <1>2, <3>1, FileFacts DEF IsReplay
    <3>4. Len(x) \in Nat /\ Len(y) \in Nat /\ Len(F[m]) \in Nat
      BY <1>2
    <3>5. Len(x \o y) = Len(x) + Len(y) /\ \A i \in 1..Len(x) : (x \o y)[i] = x[i]
      OBVIOUS
    <3>6. Len(F[m]) <= Len(F[j])
      BY <3>2, <3>3, <3>4, <3>5
    <3>7. \A i \in 1..Len(F[m]) : F[j][i] = F[m][i]
      BY <3>2, <3>3, <3>4, <3>5
    <3> QED
      BY <1>3, <3>1, <3>6, <3>7
  <2> QED
    BY <2>1, <2>2
<1>6. \A j \in 0..n : j \in S
  BY <1>4, <1>5, InductionTo
<1>7. n \in S /\ ~(n < m)
  BY <1>2, <1>6
<1> QED
  BY <1>1, <1>3, <1>7

(* The order of the first files of a trace, by their number. *)
Files(trace) == CHOOSE F : IsReplay(F, Len(trace), trace) /\ Replay(trace) = F[Len(trace)]

LEMMA FilesFacts ==
  ASSUME NEW trace \in Seq(Seq(BOOLEAN))
  PROVE  IsReplay(Files(trace), Len(trace), trace) /\ Replay(trace) = Files(trace)[Len(trace)]
BY ReplayIs DEF Files

(* Where in that order the blocks are that were replayed, that were picked, and that
   are left of the file received last, which is read from its end. *)
Placed(t, r, g, e) ==
  /\ Len(t) = Len(r) + Len(g) + Len(e)
  /\ \A i \in 1..Len(r) : t[i] = r[i]
  /\ \A i \in 1..Len(g) : t[Len(r) + i] = g[i]
  /\ \A i \in 1..Len(e) : t[Len(r) + Len(g) + i] = e[Len(e) - i + 1]

LEMMA PlacedPick ==
  ASSUME NEW t, NEW r \in Seq(Block), NEW g \in Seq(Block), NEW e \in Seq(Block), e # << >>,
         Placed(t, r, g, e)
  PROVE  /\ Placed(t, r, Append(g, Seqs!Last(e)), Seqs!Front(e))
         /\ Append(g, Seqs!Last(e)) \in Seq(Block) /\ Seqs!Front(e) \in Seq(Block)
         /\ Len(Append(g, Seqs!Last(e))) = Len(g) + 1
<1>1. PICK n \in Nat, a \in Nat, b \in Nat : n = Len(e) /\ a = Len(r) /\ b = Len(g)
  OBVIOUS
<1>2. n > 0 /\ e[n] \in Block
  BY <1>1
<1>3. PICK h, f : h = Append(g, e[n]) /\ f = SubSeq(e, 1, n - 1)
  OBVIOUS
<1>4. /\ h \in Seq(Block) /\ Len(h) = b + 1 /\ h[b + 1] = e[n] /\ \A i \in 1..b : h[i] = g[i]
  BY <1>1, <1>2, <1>3
<1>5. /\ f \in Seq(Block) /\ Len(f) = n - 1 /\ \A i \in 1..(n - 1) : f[i] = e[i]
  BY <1>1, <1>2, <1>3
<1>6. /\ Len(t) = a + b + n
      /\ \A i \in 1..a : t[i] = r[i]
      /\ \A i \in 1..b : t[a + i] = g[i]
      /\ \A i \in 1..n : t[a + b + i] = e[n - i + 1]
  BY <1>1 DEF Placed
<1>7. \A i \in 1..b : t[a + i] = g[i]
  BY <1>1 DEF Placed
<1>8. ASSUME NEW i \in 1..(b + 1) PROVE t[a + i] = h[i]
  <2>1. CASE i \in 1..b
    BY <1>4, <1>7, <2>1
  <2>2. CASE i = b + 1
    <3>1. t[a + b + 1] = e[n - 1 + 1] /\ n - 1 + 1 = n /\ a + i = a + b + 1
      BY <1>2, <1>6, <2>2
    <3> QED
      BY <1>4, <2>2, <3>1
  <2> QED
    BY <2>1, <2>2
<1>9. ASSUME NEW i \in 1..(n - 1) PROVE t[a + (b + 1) + i] = f[(n - 1) - i + 1]
  <2>1. i + 1 \in 1..n /\ a + b + (i + 1) = a + (b + 1) + i /\ n - (i + 1) + 1 = (n - 1) - i + 1
        /\ (n - 1) - i + 1 \in 1..(n - 1)
    BY <1>2
  <2>2. t[a + b + (i + 1)] = e[n - (i + 1) + 1]
    BY <1>6, <2>1
  <2> QED
    BY <1>5, <2>1, <2>2
<1>10. Len(t) = a + (b + 1) + (n - 1)
  BY <1>6
<1>11. Placed(t, r, h, f)
  BY <1>1, <1>4, <1>5, <1>6, <1>8, <1>9, <1>10 DEF Placed
<1> QED
  BY <1>1, <1>3, <1>4, <1>5, <1>11 DEF Seqs!Last, Seqs!Front

LEMMA PlacedReceive ==
  ASSUME NEW trace \in Seq(Seq(BOOLEAN)), NEW m \in 0..Len(trace), m + 1 \in 1..Len(trace),
         NEW r \in Seq(Block), NEW g \in Seq(Block), Placed(Files(trace)[m], r, g, << >>)
  PROVE  /\ Placed(Files(trace)[m + 1], r, g, BlocksOf(trace, m + 1))
         /\ BlocksOf(trace, m + 1) \in Seq(Block)
<1>1. PICK F, n : F = Files(trace) /\ n = Len(trace) /\ n \in Nat /\ IsReplay(F, n, trace)
  <2>1. Len(trace) \in Nat
    OBVIOUS
  <2>2. IsReplay(Files(trace), Len(trace), trace)
    BY FilesFacts
  <2> QED
    BY <2>1, <2>2
<1>2. PICK t \in Seq(Block), x \in Seq(Block), e \in Seq(Block) :
        /\ t = F[m] /\ x = Reversed(trace, m + 1) /\ e = BlocksOf(trace, m + 1) /\ F[m + 1] = t \o x
  <2>1. m \in 0..n /\ m + 1 \in 1..n /\ (m + 1) - 1 = m
    BY <1>1
  <2>2. F[m] \in Seq(Block) /\ F[m + 1] = F[m] \o Reversed(trace, m + 1)
    BY <1>1, <2>1 DEF IsReplay
  <2>3. Reversed(trace, m + 1) \in Seq(Block) /\ BlocksOf(trace, m + 1) \in Seq(Block)
    BY FileFacts
  <2> QED
    BY <2>2, <2>3
<1>3. Len(x) = Len(e) /\ \A i \in 1..Len(e) : x[i] = e[Len(e) - i + 1]
  BY <1>2, FileFacts
<1>4. PICK a \in Nat, b \in Nat, k \in Nat : a = Len(r) /\ b = Len(g) /\ k = Len(e)
  OBVIOUS
<1>5. PICK u : u = t \o x
  OBVIOUS
<1>6. /\ Len(u) = Len(t) + Len(x) /\ \A i \in 1..Len(t) : u[i] = t[i]
      /\ \A i \in 1..Len(x) : u[Len(t) + i] = x[i]
  BY <1>5
<1>7. /\ Len(t) = a + b /\ \A i \in 1..a : t[i] = r[i]
  BY <1>1, <1>2, <1>4 DEF Placed
<1>8. \A i \in 1..b : t[a + i] = g[i]
  BY <1>1, <1>2, <1>4 DEF Placed
<1>9. ASSUME NEW i \in 1..a PROVE u[i] = r[i]
  BY <1>4, <1>6, <1>7
<1>10. ASSUME NEW i \in 1..b PROVE u[a + i] = g[i]
  <2>1. a + i \in 1..Len(t)
    BY <1>4, <1>7
  <2> QED
    BY <1>6, <1>8, <2>1
<1>11. ASSUME NEW i \in 1..k PROVE u[a + b + i] = e[k - i + 1]
  BY <1>3, <1>4, <1>6, <1>7
<1>12. Len(u) = a + b + k
  BY <1>3, <1>4, <1>6, <1>7
<1>13. Placed(u, r, g, e)
  BY <1>4, <1>9, <1>10, <1>11, <1>12 DEF Placed
<1> QED
  BY <1>1, <1>2, <1>5, <1>13

LEMMA PlacedEpoch ==
  ASSUME NEW t, NEW r \in Seq(Block), NEW g \in Seq(Block), NEW e \in Seq(Block), Placed(t, r, g, e)
  PROVE  Placed(t, r \o g, << >>, e) /\ r \o g \in Seq(Block)
<1>1. PICK a \in Nat, b \in Nat, k \in Nat : a = Len(r) /\ b = Len(g) /\ k = Len(e)
  OBVIOUS
<1>2. PICK s : s = r \o g
  OBVIOUS
<1>3. /\ s \in Seq(Block) /\ Len(s) = a + b /\ \A i \in 1..a : s[i] = r[i]
      /\ \A i \in 1..b : s[a + i] = g[i]
  BY <1>1, <1>2
<1>4. \A i \in 1..b : s[a + i] = g[i]
  BY <1>1, <1>2
<1>5. Len(t) = a + b + k /\ (\A i \in 1..a : t[i] = r[i]) /\ (\A i \in 1..b : t[a + i] = g[i])
      /\ (\A i \in 1..k : t[a + b + i] = e[k - i + 1])
  BY <1>1 DEF Placed
<1>6. ASSUME NEW i \in 1..(a + b) PROVE t[i] = s[i]
  <2>1. CASE i <= a
    <3>1. i \in 1..a
      BY <1>1, <2>1
    <3> QED
      BY <1>3, <1>5, <3>1
  <2>2. CASE ~(i <= a)
    <3>1. i - a \in 1..b /\ a + (i - a) = i
      BY <1>1, <2>2
    <3>2. PICK j \in 1..b : a + j = i
      BY <3>1
    <3>3. s[a + j] = g[j]
      BY <1>4
    <3>4. t[a + j] = g[j]
      BY <1>5
    <3> QED
      BY <3>2, <3>3, <3>4
  <2> QED
    BY <2>1, <2>2
<1>7. PICK none : none = << >> /\ Len(none) = 0
  OBVIOUS
<1>8. ASSUME NEW i \in 1..k PROVE t[(a + b) + 0 + i] = e[k - i + 1]
  <2>1. (a + b) + 0 + i = a + b + i
    BY <1>1
  <2> QED
    BY <1>5, <2>1
<1>9. Len(t) = (a + b) + 0 + k /\ 1..0 = {}
  BY <1>1, <1>5
<1>10. Placed(t, s, none, e)
  BY <1>1, <1>3, <1>6, <1>7, <1>8, <1>9 DEF Placed
<1> QED
  BY <1>2, <1>3, <1>7, <1>10

(* What was replayed begins the order of the trace; the blocks picked follow. *)
LEMMA PlacedPrefix ==
  ASSUME NEW trace \in Seq(Seq(BOOLEAN)), NEW m \in 0..Len(trace),
         NEW r \in Seq(Block), NEW g \in Seq(Block), NEW e \in Seq(Block), Placed(Files(trace)[m], r, g, e)
  PROVE  /\ Seqs!IsPrefix(r, Replay(trace))
         /\ Replay(trace) \in Seq(Block)
         /\ Len(r) + Len(g) + Len(e) <= Len(Replay(trace))
         /\ \A i \in 1..Len(g) : Replay(trace)[Len(r) + i] = g[i]
         /\ m = Len(trace) => Len(Replay(trace)) = Len(r) + Len(g) + Len(e)
         /\ m = Len(trace) /\ g = << >> /\ e = << >> => r = Replay(trace)
<1>1. PICK F, n : F = Files(trace) /\ n = Len(trace) /\ n \in Nat /\ IsReplay(F, n, trace) /\ Replay(trace) = F[n]
  <2>1. Len(trace) \in Nat
    OBVIOUS
  <2>2. IsReplay(Files(trace), Len(trace), trace) /\ Replay(trace) = Files(trace)[Len(trace)]
    BY FilesFacts
  <2> QED
    BY <2>1, <2>2
<1>2. PICK t \in Seq(Block), z \in Seq(Block) : t = F[m] /\ z = F[n] /\ z = Replay(trace)
  <2>1. F \in [0..n -> Seq(Block)] /\ m \in 0..n /\ n \in 0..n
    BY <1>1 DEF IsReplay
  <2> QED
    BY <1>1, <2>1
<1>3. Len(t) <= Len(z) /\ \A i \in 1..Len(t) : z[i] = t[i]
  BY <1>1, <1>2, FirstFiles
<1>4. PICK a \in Nat, b \in Nat, k \in Nat : a = Len(r) /\ b = Len(g) /\ k = Len(e)
  OBVIOUS
<1>5. Len(t) = a + b + k /\ (\A i \in 1..a : t[i] = r[i]) /\ (\A i \in 1..b : t[a + i] = g[i])
  BY <1>1, <1>2, <1>4 DEF Placed
<1>6. ASSUME NEW i \in 1..a PROVE z[i] = r[i]
  BY <1>3, <1>4, <1>5
<1>7. ASSUME NEW i \in 1..b PROVE z[a + i] = g[i]
  <2>1. a + i \in 1..Len(t)
    BY <1>4, <1>5
  <2> QED
    BY <1>3, <1>5, <2>1
<1>8. a <= Len(z) /\ a + b + k <= Len(z) /\ Len(z) \in Nat
  BY <1>3, <1>4, <1>5
<1>9. Seqs!IsPrefix(r, z)
  <2>1. PICK x, y : x = SubSeq(r, 1, a) /\ y = SubSeq(z, 1, a)
    OBVIOUS
  <2>2. x = [i \in 1..a |-> r[i]] /\ y = [i \in 1..a |-> z[i]]
    BY <1>4, <1>8, <2>1
  <2>3. x = y
    BY <1>6, <2>2
  <2> QED
    BY <1>4, <1>8, <2>1, <2>3 DEF Seqs!IsPrefix
<1>10. m = n => Len(z) = a + b + k
  BY <1>2, <1>5
<1>11. ASSUME m = n, g = << >>, e = << >> PROVE r = z
  <2>1. Len(z) = a /\ Len(r) = a
    BY <1>4, <1>10, <1>11
  <2> QED
    BY <1>4, <1>6, <2>1, SeqEqual
<1> QED
  BY <1>1, <1>2, <1>4, <1>7, <1>8, <1>9, <1>10, <1>11

-------------------------------------------------------------------------------
(* Where a run is in its trace: the producer reads file ix next, the channel has the
   files before it from m + 1 on, and the first m files have been replayed, picked or
   are what is left to pick. *)
Along(trace, ix, ch, r, g, e) ==
  /\ r \in Seq(Block) /\ g \in Seq(Block) /\ e \in Seq(Block) /\ ch \in Seq(Seq(Block))
  /\ \E m \in 0..Len(trace) :
       /\ ix = m + Len(ch) + 1
       /\ \A i \in 1..Len(ch) : ch[i] = BlocksOf(trace, m + i)
       /\ Placed(Files(trace)[m], r, g, e)

LEMMA AlongStart ==
  ASSUME NEW trace \in Seq(Seq(BOOLEAN))
  PROVE  Along(trace, 1, << >>, << >>, << >>, << >>)
<1>1. PICK none : none = << >> /\ Len(none) = 0 /\ none \in Seq(Block) /\ none \in Seq(Seq(Block))
  <2>1. Len(<< >>) = 0
    OBVIOUS
  <2>2. << >> \in Seq(Block)
    OBVIOUS
  <2>3. << >> \in Seq(Seq(Block))
    OBVIOUS
  <2> QED
    BY <2>1, <2>2, <2>3
<1>2. Files(trace)[0] = none
  BY <1>1, FilesFacts DEF IsReplay
<1>3. 1..0 = {} /\ 0 = 0 + 0 + 0
  OBVIOUS
<1>4. Placed(none, none, none, none)
  BY <1>1, <1>3 DEF Placed
<1>5. 0 \in 0..Len(trace) /\ 1 = 0 + 0 + 1
  OBVIOUS
<1>6. Along(trace, 1, none, none, none, none)
  BY <1>1, <1>2, <1>3, <1>4, <1>5 DEF Along
<1> QED
  BY <1>1, <1>6

LEMMA AlongProduce ==
  ASSUME NEW trace \in Seq(Seq(BOOLEAN)), NEW ix \in 1..Len(trace), NEW ch, NEW r, NEW g, NEW e,
         Along(trace, ix, ch, r, g, e)
  PROVE  Along(trace, ix + 1, Append(ch, BlocksOf(trace, ix)), r, g, e)
<1>1. /\ r \in Seq(Block) /\ g \in Seq(Block) /\ e \in Seq(Block) /\ ch \in Seq(Seq(Block))
  BY DEF Along
<1>2. PICK m \in 0..Len(trace) :
       /\ ix = m + Len(ch) + 1
       /\ \A i \in 1..Len(ch) : ch[i] = BlocksOf(trace, m + i)
       /\ Placed(Files(trace)[m], r, g, e)
  BY DEF Along
<1>3. PICK b \in Seq(Block) : b = BlocksOf(trace, ix)
  BY FileFacts
<1>4. PICK l \in Nat : l = Len(ch)
  BY <1>1
<1>5. PICK d : d = Append(ch, b)
  OBVIOUS
<1>6. /\ d \in Seq(Seq(Block)) /\ Len(d) = l + 1 /\ d[l + 1] = b /\ \A i \in 1..l : d[i] = ch[i]
  BY <1>1, <1>3, <1>4, <1>5
<1>7. ASSUME NEW i \in 1..(l + 1) PROVE d[i] = BlocksOf(trace, m + i)
  <2>1. CASE i = l + 1
    <3>1. m + i = ix
      BY <1>2, <1>4, <2>1
    <3> QED
      BY <1>3, <1>6, <2>1, <3>1
  <2>2. CASE i # l + 1
    <3>1. i \in 1..l
      <4>1. i \in Int /\ 1 <= i /\ i <= l + 1 /\ l \in Nat
        BY <1>4
      <4> QED
        BY <2>2, <4>1
    <3> QED
      BY <1>2, <1>4, <1>6, <3>1
  <2> QED
    BY <2>1, <2>2
<1>8. ix + 1 = m + Len(d) + 1
  BY <1>2, <1>4, <1>6
<1>9. Along(trace, ix + 1, d, r, g, e)
  BY <1>1, <1>2, <1>6, <1>7, <1>8 DEF Along
<1> QED
  BY <1>3, <1>5, <1>9

LEMMA AlongReceive ==
  ASSUME NEW trace \in Seq(Seq(BOOLEAN)), NEW ix \in 1..(Len(trace) + 1), NEW ch, NEW r, NEW g,
         Along(trace, ix, ch, r, g, << >>), ch # << >>
  PROVE  Along(trace, ix, Tail(ch), r, g, Head(ch))
<1>1. /\ r \in Seq(Block) /\ g \in Seq(Block) /\ ch \in Seq(Seq(Block))
  BY DEF Along
<1>2. PICK m \in 0..Len(trace) :
       /\ ix = m + Len(ch) + 1
       /\ \A i \in 1..Len(ch) : ch[i] = BlocksOf(trace, m + i)
       /\ Placed(Files(trace)[m], r, g, << >>)
  BY DEF Along
<1>3. PICK l, h, d : l \in Nat /\ l = Len(ch) /\ h = Head(ch) /\ d = Tail(ch)
  <2>1. Len(ch) \in Nat
    BY <1>1
  <2> QED
    BY <2>1
<1>4. /\ l > 0 /\ h = ch[1] /\ d \in Seq(Seq(Block)) /\ Len(d) = l - 1
      /\ \A i \in 1..(l - 1) : d[i] = ch[i + 1]
  BY <1>1, <1>3
<1>5. PICK n \in Nat : n = Len(trace)
  OBVIOUS
<1>6. m + 1 \in 1..n /\ m + 1 \in 0..n /\ 1 \in 1..l /\ ix = (m + 1) + (l - 1) + 1
  BY <1>2, <1>3, <1>4, <1>5
<1>7. h = BlocksOf(trace, m + 1)
  BY <1>2, <1>3, <1>4, <1>6
<1>8. Placed(Files(trace)[m + 1], r, g, h) /\ h \in Seq(Block)
  BY <1>1, <1>2, <1>5, <1>6, <1>7, PlacedReceive
<1>9. ASSUME NEW i \in 1..(l - 1) PROVE d[i] = BlocksOf(trace, (m + 1) + i)
  <2>1. i + 1 \in 1..l /\ m + (i + 1) = (m + 1) + i
    BY <1>3, <1>4
  <2> QED
    BY <1>2, <1>3, <1>4, <2>1
<1>10. Along(trace, ix, d, r, g, h)
  BY <1>1, <1>4, <1>5, <1>6, <1>8, <1>9 DEF Along
<1> QED
  BY <1>3, <1>10

LEMMA AlongPick ==
  ASSUME NEW trace \in Seq(Seq(BOOLEAN)), NEW ix, NEW ch, NEW r, NEW g, NEW e,
         Along(trace, ix, ch, r, g, e), e # << >>
  PROVE  /\ Along(trace, ix, ch, r, Append(g, Seqs!Last(e)), Seqs!Front(e))
         /\ Len(Append(g, Seqs!Last(e))) = Len(g) + 1
<1>1. /\ r \in Seq(Block) /\ g \in Seq(Block) /\ e \in Seq(Block) /\ ch \in Seq(Seq(Block))
  BY DEF Along
<1>2. PICK m \in 0..Len(trace) :
       /\ ix = m + Len(ch) + 1
       /\ \A i \in 1..Len(ch) : ch[i] = BlocksOf(trace, m + i)
       /\ Placed(Files(trace)[m], r, g, e)
  BY DEF Along
<1>3. /\ Placed(Files(trace)[m], r, Append(g, Seqs!Last(e)), Seqs!Front(e))
      /\ Append(g, Seqs!Last(e)) \in Seq(Block) /\ Seqs!Front(e) \in Seq(Block)
      /\ Len(Append(g, Seqs!Last(e))) = Len(g) + 1
  <2>1. PICK t : t = Files(trace)[m]
    OBVIOUS
  <2>2. Placed(t, r, g, e)
    BY <1>2, <2>1
  <2>3. /\ Placed(t, r, Append(g, Seqs!Last(e)), Seqs!Front(e))
        /\ Append(g, Seqs!Last(e)) \in Seq(Block) /\ Seqs!Front(e) \in Seq(Block)
        /\ Len(Append(g, Seqs!Last(e))) = Len(g) + 1
    <3>1. r \in Seq(Block) /\ g \in Seq(Block) /\ e \in Seq(Block) /\ e # << >>
      BY <1>1
    <3> QED
      BY <2>2, <3>1, PlacedPick
  <2> QED
    BY <2>1, <2>3
<1> QED
  BY <1>1, <1>2, <1>3 DEF Along

LEMMA AlongEpoch ==
  ASSUME NEW trace \in Seq(Seq(BOOLEAN)), NEW ix, NEW ch, NEW r, NEW g, NEW e,
         Along(trace, ix, ch, r, g, e)
  PROVE  Along(trace, ix, ch, r \o g, << >>, e)
<1>1. /\ r \in Seq(Block) /\ g \in Seq(Block) /\ e \in Seq(Block) /\ ch \in Seq(Seq(Block))
  BY DEF Along
<1>2. PICK m \in 0..Len(trace) :
       /\ ix = m + Len(ch) + 1
       /\ \A i \in 1..Len(ch) : ch[i] = BlocksOf(trace, m + i)
       /\ Placed(Files(trace)[m], r, g, e)
  BY DEF Along
<1>3. Placed(Files(trace)[m], r \o g, << >>, e) /\ r \o g \in Seq(Block) /\ << >> \in Seq(Block)
  BY <1>1, <1>2, PlacedEpoch
<1> QED
  BY <1>1, <1>2, <1>3 DEF Along

(* What was replayed begins the order of the trace and what was picked comes next;
   with the last file read and nothing left to pick, that is all of it. *)
LEMMA AlongPrefix ==
  ASSUME NEW trace \in Seq(Seq(BOOLEAN)), NEW ix, NEW ch, NEW r, NEW g, NEW e,
         Along(trace, ix, ch, r, g, e)
  PROVE  /\ Seqs!IsPrefix(r, Replay(trace))
         /\ Replay(trace) \in Seq(Block) /\ r \in Seq(Block) /\ g \in Seq(Block)
         /\ \A i \in 1..Len(g) : Replay(trace)[Len(r) + i] = g[i]
         /\ ix = Len(trace) + 1 /\ ch = << >> /\ e = << >>
              => Len(Replay(trace)) = Len(r) + Len(g) /\ (g = << >> => r = Replay(trace))
<1>1. /\ r \in Seq(Block) /\ g \in Seq(Block) /\ e \in Seq(Block) /\ ch \in Seq(Seq(Block))
  BY DEF Along
<1>2. PICK m \in 0..Len(trace) : ix = m + Len(ch) + 1 /\ Placed(Files(trace)[m], r, g, e)
  BY DEF Along
<1>3. /\ Seqs!IsPrefix(r, Replay(trace))
      /\ Replay(trace) \in Seq(Block)
      /\ \A i \in 1..Len(g) : Replay(trace)[Len(r) + i] = g[i]
      /\ m = Len(trace) => Len(Replay(trace)) = Len(r) + Len(g) + Len(e)
      /\ m = Len(trace) /\ g = << >> /\ e = << >> => r = Replay(trace)
  BY <1>1, <1>2, PlacedPrefix
<1>4. ASSUME ix = Len(trace) + 1, ch = << >>, e = << >>
      PROVE  Len(Replay(trace)) = Len(r) + Len(g) /\ (g = << >> => r = Replay(trace))
  <2>1. Len(ch) = 0 /\ Len(e) = 0 /\ Len(trace) \in Nat /\ Len(r) \in Nat /\ Len(g) \in Nat
    BY <1>1, <1>4
  <2>2. m = Len(trace)
    BY <1>2, <1>4, <2>1
  <2>3. Len(Replay(trace)) = Len(r) + Len(g) + Len(e)
    BY <1>3, <2>2
  <2> QED
    BY <1>3, <1>4, <2>1, <2>2, <2>3
<1> QED
  BY <1>1, <1>3, <1>4

-------------------------------------------------------------------------------
(* The inductive invariant of a run over a real trace: before its tasks start nothing
   has moved; while it picks it is at a place of the trace, and it has picked less
   often than it tried only when producer, channel and events are all at their end. *)

Fresh ==
  /\ idx = 1 /\ producer = "none" /\ channel = << >>
  /\ events = << >> /\ grouped = << >> /\ picks = 0 /\ replayed = << >>

Running ==
  /\ Along(opts.trace, idx, channel, replayed, grouped, events)
  /\ picks <= opts.group_size /\ Len(grouped) <= picks
  /\ Len(grouped) < picks => events = << >> /\ channel = << >> /\ producer = "ended"

TraceOK ==
  /\ idx \in 1..(Len(opts.trace) + 1)
  /\ producer = "ended" => idx = Len(opts.trace) + 1
  /\ driver \in {"warmup", "copy", "saved", "start"} => Fresh
  /\ driver = "next" => Running
  /\ driver \in {"done", "panic"} => Seqs!IsPrefix(replayed, Replay(opts.trace))
  /\ ReplayComplete

TraceInv == opts \in Options /\ (opts.real_trace => TraceOK)

LEMMA OptionsFacts ==
  ASSUME NEW o \in Options
  PROVE  o.trace \in Seq(Seq(BOOLEAN)) /\ o.group_size \in Nat /\ o.group_size >= 1
         /\ Len(o.trace) \in Nat
<1>1. o.trace \in Traces /\ o.group_size \in {1, Group}
  BY DEF Options
<1>2. Traces \subseteq Seq(Seq(BOOLEAN))
  BY WorkloadConstants
<1>3. o.trace \in Seq(Seq(BOOLEAN))
  BY <1>1, <1>2
<1>4. o.group_size \in Nat /\ o.group_size >= 1
  BY <1>1, WorkloadConstants
<1>5. Len(o.trace) \in Nat
  BY <1>3
<1> QED
  BY <1>3, <1>4, <1>5

(* A process that has not started its tasks is at the start of any trace. *)
LEMMA FreshTrace ==
  ASSUME opts \in Options, Fresh, driver # "next", driver # "done"
  PROVE  TraceOK
<1>1. opts.trace \in Seq(Seq(BOOLEAN)) /\ Len(opts.trace) \in Nat
  BY OptionsFacts
<1>2. Along(opts.trace, 1, << >>, << >>, << >>, << >>)
  BY <1>1, AlongStart
<1>3. Seqs!IsPrefix(<< >>, Replay(opts.trace))
  BY <1>1, <1>2, AlongPrefix
<1>4. idx \in 1..(Len(opts.trace) + 1)
  BY <1>1 DEF Fresh
<1>5. producer # "ended" /\ replayed = << >>
  BY DEF Fresh
<1> QED
  BY <1>3, <1>4, <1>5 DEF TraceOK, ReplayComplete

LEMMA TraceInit ==
  ASSUME Init
  PROVE  TraceInv
<1>1. opts \in Options
  BY DEF Init
<1>2. Fresh
  BY DEF Init, Fresh
<1>3. driver # "next" /\ driver # "done"
  BY DEF Init
<1> QED
  BY <1>1, <1>2, <1>3, FreshTrace DEF TraceInv

(* Up to the start of the tasks. *)
LEMMA TraceWarmup ==
  ASSUME TraceInv, opts.real_trace, WarmupEpoch \/ WarmupEnd \/ CopyFails \/ Copy \/ RunSaved
  PROVE  opts' \in Options /\ TraceOK'
<1>1. /\ driver \in {"warmup", "copy", "saved"} /\ driver' # "next" /\ driver' # "done"
      /\ UNCHANGED <<producerVars, nextVars, runVars>> /\ (opts' = opts \/ opts' \in Options)
  BY DEF WarmupEpoch, WarmupEnd, CopyFails, Copy, RunSaved
<1>2. Fresh
  BY <1>1 DEF TraceInv, TraceOK
<1>3. Fresh'
  BY <1>1, <1>2 DEF Fresh, producerVars, nextVars, runVars
<1>4. opts' \in Options
  BY <1>1 DEF TraceInv
<1>5. Seqs!IsPrefix(<< >>, Replay(opts.trace'))
  <2>1. opts.trace' \in Seq(Seq(BOOLEAN))
    BY <1>4, OptionsFacts
  <2>2. Along(opts.trace', 1, << >>, << >>, << >>, << >>)
    BY <2>1, AlongStart
  <2> QED
    BY <2>1, <2>2, AlongPrefix
<1>6. idx' \in 1..(Len(opts.trace') + 1)
  <2>1. idx' = 1 /\ Len(opts.trace') \in Nat
    BY <1>3, <1>4, OptionsFacts DEF Fresh
  <2> QED
    BY <2>1
<1>7. producer' # "ended" /\ replayed' = << >>
  BY <1>3 DEF Fresh
<1> QED
  BY <1>1, <1>3, <1>4, <1>5, <1>6, <1>7 DEF TraceOK, ReplayComplete

LEMMA TraceStart ==
  ASSUME TraceInv, opts.real_trace, TasksStart
  PROVE  opts' \in Options /\ TraceOK'
<1>1. /\ driver = "start" /\ driver' = "next" /\ producer' = "running"
      /\ UNCHANGED <<opts, idx, channel, nextVars, runVars>>
  BY DEF TasksStart
<1>2. Fresh /\ opts \in Options
  BY <1>1 DEF TraceInv, TraceOK
<1>3. opts.trace \in Seq(Seq(BOOLEAN)) /\ opts.group_size \in Nat /\ Len(opts.trace) \in Nat
  BY <1>2, OptionsFacts
<1>4. /\ idx' = 1 /\ channel' = << >> /\ events' = << >> /\ grouped' = << >>
      /\ picks' = 0 /\ replayed' = << >> /\ opts' = opts
  BY <1>1, <1>2 DEF Fresh, nextVars, runVars
<1>5. Along(opts.trace, 1, << >>, << >>, << >>, << >>)
  BY <1>3, AlongStart
<1>6. Len(grouped') = 0 /\ 0 <= opts.group_size /\ 1 \in 1..(Len(opts.trace) + 1)
  BY <1>3, <1>4
<1>7. Running'
  BY <1>4, <1>5, <1>6 DEF Running
<1> QED
  BY <1>1, <1>2, <1>4, <1>6, <1>7 DEF TraceOK, ReplayComplete

(* The producer reads on, also after the run; only while it runs is there a receiver. *)
LEMMA TraceProducer ==
  ASSUME WorkloadInv, TraceInv, opts.real_trace, Producer
  PROVE  opts' \in Options /\ TraceOK'
<1>1. /\ producer = "running" /\ UNCHANGED <<opts, driver, receiver, nextVars, runVars>>
  BY DEF Producer, ProduceBatch, ProduceFile, ProduceEnd
<1>2. TraceOK /\ opts \in Options
  BY DEF TraceInv
<1>3. opts.trace \in Seq(Seq(BOOLEAN)) /\ Len(opts.trace) \in Nat
  BY <1>2, OptionsFacts
<1>4. driver \notin {"warmup", "copy", "saved", "start"}
  BY <1>1, <1>2 DEF TraceOK, Fresh
<1>5. UNCHANGED <<opts, driver, events, grouped, picks, replayed, epoch>>
  BY <1>1 DEF nextVars, runVars
<1>6. ReplayComplete' /\ (driver' \in {"done", "panic"} => Seqs!IsPrefix(replayed', Replay(opts.trace')))
  <2>1. ReplayComplete /\ (driver \in {"done", "panic"} => Seqs!IsPrefix(replayed, Replay(opts.trace)))
    BY <1>2 DEF TraceOK
  <2>2. opts' = opts /\ driver' = driver /\ replayed' = replayed /\ epoch' = epoch
    BY <1>5
  <2>3. ReplayComplete'
    BY <2>1, <2>2 DEF ReplayComplete, AtLimit, HasEvents
  <2> QED
    BY <2>1, <2>2, <2>3
<1>7. CASE ProduceFile
  <2>1. idx <= Len(opts.trace) /\ idx' = idx + 1 /\ producer' = producer /\ Send(BlocksOf(opts.trace, idx))
    BY <1>7 DEF ProduceFile, BlocksOf
  <2>2. idx \in 1..(Len(opts.trace) + 1)
    BY <1>2 DEF TraceOK
  <2>3. idx \in 1..Len(opts.trace) /\ idx' \in 1..(Len(opts.trace) + 1)
    BY <1>3, <2>1, <2>2
  <2>4. ASSUME driver = "next" PROVE Running'
    <3>1. receiver
      BY <2>4 DEF WorkloadInv, ReceiverOK
    <3>2. channel' = Append(channel, BlocksOf(opts.trace, idx))
      BY <2>1, <3>1 DEF Send
    <3>3. Running
      BY <1>2, <2>4 DEF TraceOK
    <3>4. Along(opts.trace, idx, channel, replayed, grouped, events)
      BY <3>3 DEF Running
    <3>5. Along(opts.trace, idx + 1, Append(channel, BlocksOf(opts.trace, idx)), replayed, grouped, events)
      BY <1>3, <2>3, <3>4, AlongProduce
    <3>6. Along(opts.trace', idx', channel', replayed', grouped', events')
      BY <1>5, <2>1, <3>2, <3>5
    <3>7. picks <= opts.group_size /\ Len(grouped) <= picks /\ ~(Len(grouped) < picks)
      BY <1>1, <3>3 DEF Running
    <3> QED
      BY <1>5, <3>6, <3>7 DEF Running
  <2> QED
    BY <1>1, <1>2, <1>4, <1>5, <1>6, <2>1, <2>3, <2>4 DEF TraceOK
<1>8. CASE ProduceEnd
  <2>1. idx > Len(opts.trace) /\ producer' = "ended" /\ idx' = idx /\ channel' = channel
    BY <1>8 DEF ProduceEnd
  <2>2. idx \in 1..(Len(opts.trace) + 1)
    BY <1>2 DEF TraceOK
  <2>3. idx = Len(opts.trace) + 1
    BY <1>3, <2>1, <2>2
  <2>4. ASSUME driver = "next" PROVE Running'
    <3>1. Running
      BY <1>2, <2>4 DEF TraceOK
    <3> QED
      BY <1>5, <2>1, <3>1 DEF Running
  <2> QED
    BY <1>1, <1>2, <1>4, <1>5, <1>6, <2>1, <2>2, <2>3, <2>4 DEF TraceOK
<1> QED
  BY <1>7, <1>8 DEF Producer, ProduceBatch

(* Where the iterator is. *)
LEMMA RunningFacts ==
  ASSUME WorkloadInv, TraceInv, opts.real_trace, driver = "next"
  PROVE  /\ opts \in Options /\ TraceOK /\ Running
         /\ opts.trace \in Seq(Seq(BOOLEAN)) /\ opts.group_size \in Nat /\ opts.group_size >= 1
         /\ Along(opts.trace, idx, channel, replayed, grouped, events)
         /\ picks \in Nat /\ Len(grouped) \in Nat /\ picks <= opts.group_size /\ Len(grouped) <= picks
         /\ idx \in 1..(Len(opts.trace) + 1)
<1>1. opts \in Options /\ TraceOK
  BY DEF TraceInv
<1>2. Running /\ idx \in 1..(Len(opts.trace) + 1)
  BY <1>1 DEF TraceOK
<1>3. opts.trace \in Seq(Seq(BOOLEAN)) /\ opts.group_size \in Nat /\ opts.group_size >= 1
  BY <1>1, OptionsFacts
<1>4. Along(opts.trace, idx, channel, replayed, grouped, events)
      /\ picks <= opts.group_size /\ Len(grouped) <= picks
  BY <1>2 DEF Running
<1>5. grouped \in Seq(Block)
  BY <1>4 DEF Along
<1>6. picks \in Nat /\ Len(grouped) \in Nat
  BY <1>5 DEF WorkloadInv, ProcessOK
<1> QED
  BY <1>1, <1>2, <1>3, <1>4, <1>6

(* One pick after another moves along the trace. *)
LEMMA TracePick ==
  ASSUME WorkloadInv, TraceInv, opts.real_trace, ReceiveFile \/ PickBlock \/ PickNone
  PROVE  opts' \in Options /\ TraceOK'
<1>1. /\ driver = "next" /\ picks < opts.group_size
      /\ UNCHANGED <<opts, driver, producer, idx, replayed>>
  BY DEF ReceiveFile, PickBlock, PickNone, Picking, producerVars, runVars
<1>2. /\ opts \in Options /\ TraceOK /\ Running
      /\ opts.trace \in Seq(Seq(BOOLEAN)) /\ opts.group_size \in Nat
      /\ Along(opts.trace, idx, channel, replayed, grouped, events)
      /\ picks \in Nat /\ Len(grouped) \in Nat /\ Len(grouped) <= picks
      /\ idx \in 1..(Len(opts.trace) + 1)
  BY <1>1, RunningFacts
<1>3. picks + 1 <= opts.group_size
  BY <1>1, <1>2
<1>4. CASE ReceiveFile
  <2>1. events = << >> /\ channel # << >> /\ events' = Head(channel) /\ channel' = Tail(channel)
        /\ grouped' = grouped /\ picks' = picks
    BY <1>4 DEF ReceiveFile
  <2>2. Along(opts.trace, idx, channel, replayed, grouped, << >>)
    BY <1>2, <2>1
  <2>3. Along(opts.trace, idx, Tail(channel), replayed, grouped, Head(channel))
    BY <1>2, <2>1, <2>2, AlongReceive
  <2>4. ~(Len(grouped) < picks)
    BY <1>2, <2>1 DEF Running
  <2>5. Along(opts.trace', idx', channel', replayed', grouped', events')
    BY <1>1, <2>1, <2>3
  <2>6. picks' <= opts.group_size' /\ Len(grouped') <= picks' /\ ~(Len(grouped') < picks')
    BY <1>1, <1>2, <2>1, <2>4
  <2>7. Running'
    BY <2>5, <2>6 DEF Running
  <2> QED
    BY <1>1, <1>2, <2>7 DEF TraceOK, ReplayComplete
<1>5. CASE PickBlock
  <2>1. events # << >> /\ grouped' = Append(grouped, Seqs!Last(events))
        /\ events' = Seqs!Front(events) /\ picks' = picks + 1 /\ channel' = channel
    BY <1>5 DEF PickBlock, producerVars
  <2>2. /\ Along(opts.trace, idx, channel, replayed, Append(grouped, Seqs!Last(events)), Seqs!Front(events))
        /\ Len(Append(grouped, Seqs!Last(events))) = Len(grouped) + 1
    BY <1>2, <2>1, AlongPick
  <2>3. ~(Len(grouped) < picks)
    BY <1>2, <2>1 DEF Running
  <2>4. Along(opts.trace', idx', channel', replayed', grouped', events')
    BY <1>1, <2>1, <2>2
  <2>5. Len(grouped') = Len(grouped) + 1
    BY <2>1, <2>2
  <2>6. picks' <= opts.group_size' /\ Len(grouped') <= picks' /\ ~(Len(grouped') < picks')
    BY <1>1, <1>2, <1>3, <2>1, <2>3, <2>5
  <2>7. Running'
    BY <2>4, <2>6 DEF Running
  <2> QED
    BY <1>1, <1>2, <2>7 DEF TraceOK, ReplayComplete
<1>6. CASE PickNone
  <2>1. events = << >> /\ channel = << >> /\ producer = "ended" /\ picks' = picks + 1
        /\ events' = events /\ channel' = channel /\ grouped' = grouped
    BY <1>6 DEF PickNone, producerVars
  <2>2. picks' <= opts.group_size' /\ Len(grouped') <= picks'
    BY <1>1, <1>2, <1>3, <2>1
  <2>3. Along(opts.trace', idx', channel', replayed', grouped', events')
    BY <1>1, <1>2, <2>1
  <2>4. Running'
    BY <1>1, <2>1, <2>2, <2>3 DEF Running
  <2> QED
    BY <1>1, <1>2, <2>4 DEF TraceOK, ReplayComplete
<1> QED
  BY <1>4, <1>5, <1>6

(* An epoch replays what was picked. *)
LEMMA TraceEpoch ==
  ASSUME WorkloadInv, TraceInv, opts.real_trace, Epoch
  PROVE  opts' \in Options /\ TraceOK'
<1>1. /\ driver = "next" /\ replayed' = replayed \o grouped /\ grouped' = << >> /\ picks' = 0
      /\ UNCHANGED <<opts, driver, producer, idx, channel, events>>
  BY DEF Epoch, producerVars
<1>2. /\ opts \in Options /\ TraceOK /\ Running
      /\ opts.trace \in Seq(Seq(BOOLEAN)) /\ opts.group_size \in Nat
      /\ Along(opts.trace, idx, channel, replayed, grouped, events)
      /\ idx \in 1..(Len(opts.trace) + 1)
  BY <1>1, RunningFacts
<1>3. Along(opts.trace, idx, channel, replayed \o grouped, << >>, events)
  BY <1>2, AlongEpoch
<1>4. Along(opts.trace', idx', channel', replayed', grouped', events')
  BY <1>1, <1>3
<1>5. Len(grouped') = 0 /\ 0 <= opts.group_size /\ ~(0 < 0)
  BY <1>1, <1>2
<1>6. Running'
  BY <1>1, <1>4, <1>5 DEF Running
<1> QED
  BY <1>1, <1>2, <1>6 DEF TraceOK, ReplayComplete

LEMMA TraceTimeout ==
  ASSUME WorkloadInv, TraceInv, opts.real_trace, Timeout
  PROVE  opts' \in Options /\ TraceOK'
<1>1. /\ driver = "next" /\ driver' = "panic" /\ UNCHANGED <<opts, producer, idx, replayed>>
  BY DEF Timeout, Picking, producerVars, runVars
<1>2. /\ opts \in Options /\ TraceOK
      /\ opts.trace \in Seq(Seq(BOOLEAN))
      /\ Along(opts.trace, idx, channel, replayed, grouped, events)
      /\ idx \in 1..(Len(opts.trace) + 1)
  BY <1>1, RunningFacts
<1>3. Seqs!IsPrefix(replayed, Replay(opts.trace))
  BY <1>2, AlongPrefix
<1> QED
  BY <1>1, <1>2, <1>3 DEF TraceOK, ReplayComplete

(* When next returns None before any limit, the trace is at its end or the group has
   no events. *)
LEMMA TraceEnd ==
  ASSUME WorkloadInv, TraceInv, opts.real_trace, End
  PROVE  opts' \in Options /\ TraceOK'
<1>1. /\ driver = "next" /\ driver' = "done" /\ picks = opts.group_size
      /\ Exhausted \/ AtLimit \/ opts.max_time
      /\ UNCHANGED <<opts, producer, idx, replayed, epoch>>
  BY DEF End, producerVars, runVars
<1>2. /\ opts \in Options /\ TraceOK /\ Running
      /\ opts.trace \in Seq(Seq(BOOLEAN)) /\ opts.group_size \in Nat /\ opts.group_size >= 1
      /\ Along(opts.trace, idx, channel, replayed, grouped, events)
      /\ picks \in Nat /\ Len(grouped) \in Nat /\ Len(grouped) <= picks
      /\ idx \in 1..(Len(opts.trace) + 1)
  BY <1>1, RunningFacts
<1>3. PICK z, r, g, gs : /\ gs \in Nat /\ z = Replay(opts.trace) /\ r = replayed
                       /\ g = grouped /\ gs = opts.group_size
  <2>1. opts.group_size \in Nat
    BY <1>2
  <2> QED
    BY <2>1
<1>4. /\ Seqs!IsPrefix(r, z) /\ z \in Seq(Block) /\ r \in Seq(Block) /\ g \in Seq(Block)
      /\ \A i \in 1..Len(g) : z[Len(r) + i] = g[i]
  <2>1. PICK t, ix, ch, e : t = opts.trace /\ ix = idx /\ ch = channel /\ e = events
    OBVIOUS
  <2>2. Along(t, ix, ch, r, g, e) /\ t \in Seq(Seq(BOOLEAN)) /\ z = Replay(t)
    BY <1>2, <1>3, <2>1
  <2>3. /\ Seqs!IsPrefix(r, Replay(t)) /\ Replay(t) \in Seq(Block) /\ r \in Seq(Block) /\ g \in Seq(Block)
        /\ \A i \in 1..Len(g) : Replay(t)[Len(r) + i] = g[i]
    BY <2>2, AlongPrefix
  <2> QED
    BY <2>2, <2>3
<1>5. idx = Len(opts.trace) + 1 /\ channel = << >> /\ events = << >>
         => Len(z) = Len(r) + Len(g) /\ (g = << >> => r = z)
  BY <1>2, <1>3, AlongPrefix
<1>6. Len(g) < gs => Len(z) = Len(r) + Len(g) /\ (g = << >> => r = z)
  <2> SUFFICES ASSUME Len(g) < gs PROVE Len(z) = Len(r) + Len(g) /\ (g = << >> => r = z)
    OBVIOUS
  <2>1. Len(grouped) < picks
    BY <1>1, <1>3
  <2>2. events = << >> /\ channel = << >> /\ producer = "ended"
    BY <1>2, <2>1 DEF Running
  <2>3. idx = Len(opts.trace) + 1
    BY <1>2, <2>2 DEF TraceOK
  <2> QED
    BY <1>5, <2>2, <2>3
<1>7. ASSUME ~AtLimit, ~opts.max_time
      PROVE  \/ replayed = Replay(opts.trace)
             \/ /\ opts.group_size # 1
                /\ \A i \in DOMAIN Replay(opts.trace) :
                     i \in Len(replayed) + 1 .. Len(replayed) + opts.group_size
                       => ~HasEvents(Replay(opts.trace)[i])
  <2>1. Exhausted
    BY <1>1, <1>7
  <2>2. CASE opts.group_size = 1
    <3>1. grouped = << >>
      BY <2>1, <2>2 DEF Exhausted
    <3>2. Len(g) = 0 /\ g = << >> /\ gs = 1
      BY <1>3, <2>2, <3>1
    <3>3. r = z
      BY <1>6, <3>2
    <3> QED
      BY <1>3, <3>3
  <2>3. CASE opts.group_size # 1
    <3>1. \A i \in DOMAIN grouped : ~HasEvents(grouped[i])
      BY <2>1, <2>3 DEF Exhausted
    <3>2. ASSUME NEW i \in DOMAIN z, i \in Len(r) + 1 .. Len(r) + gs PROVE ~HasEvents(z[i])
      <4>1. Len(g) \in Nat /\ Len(r) \in Nat /\ Len(g) <= gs /\ Len(z) \in Nat /\ DOMAIN z = 1..Len(z)
        BY <1>1, <1>2, <1>3, <1>4
      <4>2. i \in Nat /\ i >= Len(r) + 1 /\ i <= Len(r) + gs /\ i <= Len(z)
        BY <3>2, <4>1
      <4>3. i <= Len(r) + Len(g)
        <5>1. CASE Len(g) < gs
          BY <1>6, <4>2, <5>1
        <5>2. CASE ~(Len(g) < gs)
          BY <1>3, <4>1, <4>2, <5>2
        <5> QED
          BY <5>1, <5>2
      <4>4. i - Len(r) \in 1..Len(g) /\ Len(r) + (i - Len(r)) = i
        BY <4>1, <4>2, <4>3
      <4>5. PICK j : j = i - Len(r)
        OBVIOUS
      <4>6. z[i] = g[j] /\ j \in DOMAIN g
        BY <1>4, <4>4, <4>5
      <4> QED
        BY <1>3, <3>1, <4>6
    <3> QED
      BY <1>3, <2>3, <3>2
  <2> QED
    BY <2>2, <2>3
<1>8. ReplayComplete'
  BY <1>1, <1>7 DEF ReplayComplete, AtLimit, HasEvents
<1> QED
  BY <1>1, <1>2, <1>3, <1>4, <1>8 DEF TraceOK

(* The inductive invariant of a run over a real trace. *)
THEOREM TraceInductive == Spec => []TraceInv
<1>1. Init => TraceInv
  BY TraceInit
<1>2. WorkloadInv /\ TraceInv /\ [Next]_vars => TraceInv'
  <2> SUFFICES ASSUME WorkloadInv, TraceInv, [Next]_vars PROVE TraceInv'
    OBVIOUS
  <2>1. CASE UNCHANGED vars
    <3>1. UNCHANGED <<opts, driver, producer, idx, channel, events, grouped, picks, replayed, epoch>>
      BY <2>1 DEF vars, producerVars, nextVars, runVars
    <3> QED
      BY <3>1 DEF TraceInv, TraceOK, Fresh, Running, ReplayComplete, AtLimit, HasEvents
  <2>2. CASE ~opts.real_trace /\ ~UNCHANGED vars
    <3>1. opts' \in Options /\ opts'.real_trace = opts.real_trace
      <4>1. CASE RunSaved
        BY <4>1 DEF RunSaved
      <4>2. CASE ~RunSaved
        <5>1. opts' = opts
          BY <2>2, <4>2 DEF Next, Driver, Producer, Stopped, WarmupEpoch, WarmupEnd, CopyFails, Copy,
             TasksStart, ReceiveBatch, ReceiveFile, PickBlock, PickNone, End, Epoch, Timeout,
             ProduceBatch, ProduceFile, ProduceEnd
        <5> QED
          BY <5>1 DEF TraceInv
      <4> QED
        BY <4>1, <4>2
    <3> QED
      BY <2>2, <3>1 DEF TraceInv
  <2>3. CASE opts.real_trace /\ ~UNCHANGED vars
    <3>1. ~ReceiveBatch
      BY <2>3 DEF ReceiveBatch
    <3>2. \/ WarmupEpoch \/ WarmupEnd \/ CopyFails \/ Copy \/ RunSaved
          \/ TasksStart \/ Producer \/ ReceiveFile \/ PickBlock \/ PickNone
          \/ Epoch \/ Timeout \/ End
      BY <2>3, <3>1 DEF Next, Driver, Stopped
    <3>3. opts' \in Options /\ TraceOK'
      BY <2>3, <3>2, TraceWarmup, TraceStart, TraceProducer, TracePick, TraceEpoch, TraceTimeout, TraceEnd
    <3> QED
      BY <3>3 DEF TraceInv
  <2> QED
    BY <2>1, <2>2, <2>3
<1> QED
  BY <1>1, <1>2, WorkloadInductive, PTL DEF Spec

(* Whatever the traces, the sizes of groups and channel and the interleaving of producer
   and driver: a real trace is replayed in its order, no block twice, none left out. *)
THEOREM TracesAreInOrder == Spec => []ReplayInOrder
<1>1. WorkloadInv /\ TraceInv => ReplayInOrder
  <2> SUFFICES ASSUME WorkloadInv, TraceInv, opts.real_trace
               PROVE  Seqs!IsPrefix(replayed, Replay(opts.trace))
    BY DEF ReplayInOrder
  <2>1. driver \in Phases /\ TraceOK /\ opts \in Options
    BY DEF WorkloadInv, ProcessOK, TraceInv
  <2>2. CASE driver = "next"
    <3>1. opts.trace \in Seq(Seq(BOOLEAN))
          /\ Along(opts.trace, idx, channel, replayed, grouped, events)
      BY <2>2, RunningFacts
    <3> QED
      BY <3>1, AlongPrefix
  <2>3. CASE driver \in {"done", "panic"}
    BY <2>1, <2>3 DEF TraceOK
  <2>4. CASE driver \in {"warmup", "copy", "saved", "start"}
    <3>1. replayed = << >>
      BY <2>1, <2>4 DEF TraceOK, Fresh
    <3>2. opts.trace \in Seq(Seq(BOOLEAN))
      BY <2>1, OptionsFacts
    <3>3. Along(opts.trace, 1, << >>, << >>, << >>, << >>)
      BY <3>2, AlongStart
    <3>4. Seqs!IsPrefix(<< >>, Replay(opts.trace))
      BY <3>2, <3>3, AlongPrefix
    <3> QED
      BY <3>1, <3>4
  <2> QED
    BY <2>1, <2>2, <2>3, <2>4 DEF Phases
<1> QED
  BY <1>1, WorkloadInductive, TraceInductive, PTL

(* A run that ends without a limit has replayed its whole trace, or has met a whole
   group of blocks without events. *)
THEOREM TracesAreComplete == Spec => []ReplayComplete
<1>1. TraceInv => ReplayComplete
  BY DEF TraceInv, TraceOK, ReplayComplete
<1> QED
  BY <1>1, TraceInductive, PTL
==============================================================================
