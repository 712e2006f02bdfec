------------------------------ MODULE AuthStore ------------------------------
(***************************************************************************)
(* What an authenticated storage promises its caller (the AuthDB trait and *)
(* the way run.rs and main.rs use it), without trees, caches or proofs:    *)
(*   - set queues a write that no get sees before the commit;              *)
(*   - commit applies the queued writes of the epoch at once, the last     *)
(*     write of a key winning;                                             *)
(*   - get answers from the last commit;                                   *)
(*   - a saved warm-up holds what was committed when it was taken, and a   *)
(*     process started from it sees exactly that.                          *)
(***************************************************************************)
EXTENDS Batch

CONSTANTS Keys, Values, Missing

VARIABLES
  store,    \* what the last commit made visible
  pending,  \* writes of the running epoch, in order: records [key, val]
  answer,   \* what the latest get returned, with its key
  saved     \* the store a new process starts from

storeVars == <<store, pending, answer, saved>>

EmptyStore == [k \in Keys |-> Missing]
NoAnswer == [key |-> Missing, val |-> Missing]

Init ==
  /\ store = EmptyStore
  /\ pending = << >>
  /\ answer = NoAnswer
  /\ saved = EmptyStore

Get(k) ==
  /\ answer' = [key |-> k, val |-> store[k]]
  /\ UNCHANGED <<store, pending, saved>>

Set(k, v) ==
  /\ pending' = Append(pending, [key |-> k, val |-> v])
  /\ UNCHANGED <<store, answer, saved>>

Commit ==
  /\ store' = ApplyBatch(store, pending)
  /\ pending' = << >>
  /\ UNCHANGED <<answer, saved>>

Save ==
  /\ pending = << >>
  /\ saved' = store
  /\ UNCHANGED <<store, pending, answer>>

Restart ==
  /\ store' = saved
  /\ pending' = << >>
  /\ answer' = NoAnswer
  /\ UNCHANGED saved

Next ==
  \/ \E k \in Keys : Get(k)
  \/ \E k \in Keys, v \in Values : Set(k, v)
  \/ Commit
  \/ Save
  \/ Restart

Spec == Init /\ [][Next]_storeVars
==============================================================================
