-------------------------------- MODULE Batch --------------------------------
(***************************************************************************)
(* A write batch: what a backend column holds after a DBTransaction of     *)
(* Insert operations, applied in the order they were pushed.  A batch is a *)
(* sequence of records with the fields key and val.                        *)
(***************************************************************************)
EXTENDS Integers, Sequences

(* The positions of batch ops that write key k. *)
WritesTo(ops, k) == {j \in DOMAIN ops : ops[j].key = k}

(* The column after the batch: the last write of a key wins. *)
ApplyBatch(column, ops) ==
  [k \in DOMAIN column |->
     IF WritesTo(ops, k) = {}
       THEN column[k]
       ELSE ops[CHOOSE m \in WritesTo(ops, k) :
                  \A j \in WritesTo(ops, k) : j <= m].val]
==============================================================================
