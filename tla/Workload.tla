------------------------------ MODULE Workload -------------------------------
(***************************************************************************)
(* A benchmark process: the workloads (asb-tasks), each with a producer    *)
(* thread and a bounded channel, and the driver (benchmarks) that warms    *)
(* the storage up, saves or loads the warm-up, and replays epochs.         *)
(*                                                                         *)
(* The storage is the set of keys that a get finds.  A block of a real     *)
(* trace is <<file, position>>; only whether it has events matters.        *)
(***************************************************************************)
EXTENDS Integers, Sequences, FiniteSets

Seqs == INSTANCE SequencesExt

CONSTANTS
  Keys,           \* the keys of the random workload, or of real_trace.init
  BatchSize,      \* epoch_size; the chunks of real_trace.init
  Traces,         \* real traces: per file, per block, whether it has events
  Group,          \* group_size of RAIN and MPT (50)
  RandomChannel,  \* capacity of the random workload's channel (10)
  MaxEpochs,      \* values of --max-epoch; NoLimit for none
  NoLimit,
  RetryLimit      \* attempts to save a warm-up (10)

ASSUME WorkloadConstants ==
  /\ BatchSize \in Nat \ {0} /\ Group \in Nat \ {0, 1}
  /\ RandomChannel \in Nat \ {0} /\ RetryLimit \in Nat \ {0}
  /\ MaxEpochs \subseteq Nat \cup {NoLimit}
  /\ IsFiniteSet(Keys)
  /\ Traces \subseteq Seq(Seq(BOOLEAN))
  \* real_trace.rs takes the last block of a group that it expects to have one
  /\ \A trace \in Traces : \A f \in DOMAIN trace : trace[f] # << >>

VARIABLES
  opts,        \* options of the process
  driver,      \* where run_tasks is
  keys,        \* of the warm-up, not handed out yet
  db,          \* keys that the storage has
  disk,        \* those that flush_all has made durable
  warmup_dir,  \* the saved warm-up
  retry_cnt,
  producer,    \* "none", "running" or "ended"
  idx,         \* file the producer reads next
  channel,
  receiver,    \* is it still there?
  events,      \* TaskProducer: what is left of the group received last
  grouped,     \* what next has picked so far
  picks,       \* how often it has
  epoch,
  replayed,    \* blocks, or batches of keys, in the order of their epochs
  empty_reads

warmupVars == <<keys, db, disk, warmup_dir, retry_cnt>>
producerVars == <<producer, idx, channel>>
nextVars == <<events, grouped, picks>>
runVars == <<epoch, replayed, empty_reads>>
vars == <<opts, driver, warmupVars, producerVars, receiver, nextVars, runVars>>

(* The random workload never ends by itself, so it runs with a limit. *)
Options ==
  {o \in [real_trace : BOOLEAN, trace : Traces, group_size : {1, Group},
          max_epoch : MaxEpochs, max_time : BOOLEAN,
          warmup : {"none", "here", "to", "from"}] :
     /\ ~o.real_trace => o.max_epoch # NoLimit /\ o.group_size = 1
     /\ ~o.real_trace => o.trace = CHOOSE t \in Traces : TRUE}

Init ==
  /\ opts \in {o \in Options : o.warmup # "from"}
  /\ driver = IF opts.warmup = "none" THEN "start" ELSE "warmup"
  /\ keys = Keys
  /\ db = {} /\ disk = {} /\ warmup_dir = {} /\ retry_cnt = 0
  /\ producer = "none" /\ idx = 1 /\ channel = << >> /\ receiver = TRUE
  /\ events = << >> /\ grouped = << >> /\ picks = 0
  /\ epoch = 0 /\ replayed = << >> /\ empty_reads = 0

------------------------------------------------------------------------------
(* Warm-up *)

(* Mutant of WarmupBatches: a last batch that is not full is dropped. *)
WarmupBatchesFull == {b \in SUBSET keys : Cardinality(b) = BatchSize}

(* What the warm-up iterator may return next: the keys are shuffled. *)
WarmupBatches ==
  {b \in SUBSET keys : b # {} /\ (b = keys \/ Cardinality(b) = BatchSize)
                       /\ Cardinality(b) <= BatchSize}

WarmupEpoch ==
  /\ driver = "warmup"
  /\ \E b \in WarmupBatches : keys' = keys \ b /\ db' = db \cup b
  /\ UNCHANGED <<opts, driver, disk, warmup_dir, retry_cnt, producerVars, receiver, nextVars, runVars>>

WarmupEnd ==
  /\ driver = "warmup"
  /\ WarmupBatches = {}
  /\ disk' = db
  /\ IF opts.warmup = "to"
       THEN driver' = "copy" /\ warmup_dir' = {}
       ELSE driver' = "start" /\ UNCHANGED warmup_dir
  /\ UNCHANGED <<opts, keys, db, retry_cnt, producerVars, receiver, nextVars, runVars>>

(* A copy that fails leaves some of the files. *)
CopyFails ==
  /\ driver = "copy"
  /\ \E part \in SUBSET disk : warmup_dir' = warmup_dir \cup part
  /\ retry_cnt' = retry_cnt + 1
  /\ driver' = IF retry_cnt' < RetryLimit THEN "copy" ELSE "panic"
  /\ UNCHANGED <<opts, keys, db, disk, producerVars, receiver, nextVars, runVars>>

Copy ==
  /\ driver = "copy"
  /\ warmup_dir' = disk
  /\ driver' = "saved"
  /\ UNCHANGED <<opts, keys, db, disk, retry_cnt, producerVars, receiver, nextVars, runVars>>

(* Another process starts from the saved warm-up of this workload; nothing else is
   left of the one that saved it. *)
RunSaved ==
  /\ driver = "saved"
  /\ opts' \in {o \in Options : o.warmup = "from" /\ o.real_trace = opts.real_trace}
  /\ driver' = "start"
  /\ db' = warmup_dir
  /\ disk' = warmup_dir
  /\ retry_cnt' = 0
  /\ UNCHANGED <<keys, warmup_dir, producerVars, receiver, nextVars, runVars>>

------------------------------------------------------------------------------
(* The producer threads *)

TasksStart ==
  /\ driver = "start"
  /\ producer' = "running"
  /\ driver' = "next"
  /\ UNCHANGED <<opts, warmupVars, idx, channel, receiver, nextVars, runVars>>

Capacity == IF opts.real_trace THEN 1 ELSE RandomChannel

(* Keys that the random workload may read and then write in one epoch. *)
Batches == {b \in SUBSET Keys : b # {} /\ Cardinality(b) <= BatchSize}

(* Mutant of Send: the thread does not wait for room. *)
SendTries(item) ==
  IF Len(channel) < Capacity THEN channel' = Append(channel, item) ELSE UNCHANGED channel

(* A send waits for room; without a receiver the item is lost. *)
Send(item) ==
  IF receiver
    THEN Len(channel) < Capacity /\ channel' = Append(channel, item)
    ELSE UNCHANGED channel

(* Mutant of ProduceBatch: the result of the send is ignored. *)
ProduceBatchAlways ==
  /\ producer = "running"
  /\ ~opts.real_trace
  /\ \E b \in Batches : Send(b)
  /\ UNCHANGED <<opts, driver, warmupVars, producer, idx, receiver, nextVars, runVars>>

(* The random producer ends at its first failed send. *)
ProduceBatch ==
  /\ producer = "running"
  /\ ~opts.real_trace
  /\ \E b \in Batches : Send(b)
  /\ producer' = IF receiver THEN "running" ELSE "ended"
  /\ UNCHANGED <<opts, driver, warmupVars, idx, receiver, nextVars, runVars>>

(* The other one reads all files whoever listens. *)
ProduceFile ==
  /\ producer = "running"
  /\ opts.real_trace
  /\ idx <= Len(opts.trace)
  /\ Send([b \in DOMAIN opts.trace[idx] |-> <<idx, b>>])
  /\ idx' = idx + 1
  /\ UNCHANGED <<opts, driver, warmupVars, producer, receiver, nextVars, runVars>>

ProduceEnd ==
  /\ producer = "running"
  /\ opts.real_trace
  /\ idx > Len(opts.trace)
  /\ producer' = "ended"
  /\ UNCHANGED <<opts, driver, warmupVars, idx, channel, receiver, nextVars, runVars>>

------------------------------------------------------------------------------
(* next: one pick after another *)

Picking == driver = "next" /\ picks < opts.group_size

(* The random workload hands out what it receives. *)
ReceiveBatch ==
  /\ Picking
  /\ ~opts.real_trace
  /\ channel # << >>
  /\ grouped' = <<Head(channel)>>
  /\ channel' = Tail(channel)
  /\ picks' = picks + 1
  /\ UNCHANGED <<opts, driver, warmupVars, producer, idx, receiver, events, runVars>>

(* pick_next refills events only when there are none left. *)
ReceiveFile ==
  /\ Picking
  /\ opts.real_trace
  /\ events = << >>
  /\ channel # << >>
  /\ events' = Head(channel)
  /\ channel' = Tail(channel)
  /\ UNCHANGED <<opts, driver, warmupVars, producer, idx, receiver, grouped, picks, runVars>>

PickBlock ==
  /\ Picking
  /\ opts.real_trace
  /\ events # << >>
  /\ grouped' = Append(grouped, Seqs!Last(events))
  /\ events' = Seqs!Front(events)
  /\ picks' = picks + 1
  /\ UNCHANGED <<opts, driver, warmupVars, producerVars, receiver, runVars>>

(* Disconnected: the producer has ended and the channel is empty. *)
PickNone ==
  /\ Picking
  /\ events = << >> /\ channel = << >> /\ producer = "ended"
  /\ picks' = picks + 1
  /\ UNCHANGED <<opts, driver, warmupVars, producerVars, receiver, events, grouped, runVars>>

(* The producer takes more than a second. *)
Timeout ==
  /\ Picking
  /\ events = << >> /\ channel = << >> /\ producer = "running"
  /\ driver' = "panic"
  /\ receiver' = FALSE
  /\ UNCHANGED <<opts, warmupVars, producerVars, nextVars, runVars>>

------------------------------------------------------------------------------
(* The loop over the epochs *)

HasEvents(block) == opts.trace[block[1]][block[2]]

(* Mutant of Exhausted: a group that is not full is taken for the end. *)
ExhaustedShort == opts.real_trace /\ Len(grouped) < opts.group_size

(* Does next return None?  A group of blocks without events counts as the end. *)
Exhausted ==
  /\ opts.real_trace
  /\ IF opts.group_size = 1
       THEN grouped = << >>
       ELSE \A i \in DOMAIN grouped : ~HasEvents(grouped[i])

AtLimit == opts.max_epoch # NoLimit /\ epoch + 1 >= opts.max_epoch

(* The iterator is dropped with its receiver. *)
End ==
  /\ driver = "next"
  /\ picks = opts.group_size
  /\ Exhausted \/ AtLimit \/ opts.max_time
  /\ driver' = "done"
  /\ receiver' = FALSE
  /\ grouped' = << >>
  /\ UNCHANGED <<opts, warmupVars, producerVars, events, picks, runVars>>

Epoch ==
  /\ driver = "next"
  /\ picks = opts.group_size
  /\ ~Exhausted /\ ~AtLimit
  /\ IF opts.real_trace
       THEN UNCHANGED <<db, empty_reads>>
       ELSE LET batch == grouped[1]
            IN /\ empty_reads' = empty_reads + Cardinality(batch \ db)
               /\ db' = db \cup batch
  /\ replayed' = replayed \o grouped
  /\ epoch' = epoch + 1
  /\ grouped' = << >>
  /\ picks' = 0
  /\ UNCHANGED <<opts, driver, keys, disk, warmup_dir, retry_cnt, producerVars, receiver, events>>

Driver ==
  \/ WarmupEpoch \/ WarmupEnd \/ CopyFails \/ Copy \/ TasksStart
  \/ ReceiveBatch \/ ReceiveFile \/ PickBlock \/ PickNone
  \/ End \/ Epoch

Producer == ProduceBatch \/ ProduceFile \/ ProduceEnd

(* The process is over. *)
Stopped == driver \in {"done", "panic"} /\ producer # "running" /\ UNCHANGED vars

Next == Driver \/ Timeout \/ Producer \/ RunSaved \/ Stopped

(* Each thread goes on when it can; the driver's wait is not counted on to time out. *)
Spec == Init /\ [][Next]_vars /\ WF_vars(Driver) /\ WF_vars(Producer)
------------------------------------------------------------------------------
(* The order in which a trace is replayed: file by file, each from its last block
   to its first. *)
Replay(trace) ==
  Seqs!FlattenSeq([f \in DOMAIN trace |->
    Seqs!Reverse([b \in DOMAIN trace[f] |-> <<f, b>>])])

(* Whatever the producer, the channel, grouping and refilling do, a real trace is
   replayed in its order, no block twice and none left out. *)
ReplayInOrder == opts.real_trace => Seqs!IsPrefix(replayed, Replay(opts.trace))

(* A run that ends without reaching a limit has replayed the whole trace, unless a
   whole group of blocks had no events. *)
ReplayComplete ==
  driver = "done" /\ opts.real_trace /\ ~AtLimit /\ ~opts.max_time =>
    \/ replayed = Replay(opts.trace)
    \/ /\ opts.group_size # 1
       /\ \A i \in DOMAIN Replay(opts.trace) :
            i \in Len(replayed) + 1 .. Len(replayed) + opts.group_size
              => ~HasEvents(Replay(opts.trace)[i])

(* After a warm-up, in this process or a saved one, every key of the random workload
   is found: no read is empty. *)
NoEmptyReads == opts.warmup # "none" => empty_reads = 0

(* A benchmark ends: driver and producer never wait for each other for good, and the
   producer does not outlive the run. *)
RunEnds ==
  driver \in {"warmup", "start"} ~>
    driver \in {"done", "panic", "saved"} /\ producer # "running"
==============================================================================
