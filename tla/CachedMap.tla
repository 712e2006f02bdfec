------------------------------ MODULE CachedMap ------------------------------
(***************************************************************************)
(* What a DBAccess promises its AMT or Merkle tree: a map with a volatile  *)
(* view over a durable copy.  VersionTree and AMTree are written with the  *)
(* view (data, sub, inner) and the durable copy (dbData, dbSub, dbInner).  *)
(***************************************************************************)
CONSTANTS Keys, Values, Default, NoRead

VARIABLES
  view,     \* what get returns for each key
  durable,  \* what is in the database
  read      \* the key and the value of the latest read, or NoRead

Init ==
  /\ durable = [k \in Keys |-> Default]
  /\ view = durable
  /\ read = NoRead

Read(k) ==
  /\ read' = [key |-> k, val |-> view[k]]
  /\ UNCHANGED <<view, durable>>

Write(k, v) ==
  /\ view' = [view EXCEPT ![k] = v]
  /\ UNCHANGED <<durable, read>>

Flush ==
  /\ durable' = view
  /\ UNCHANGED <<view, read>>

(* The view is dropped with whatever was not flushed. *)
Drop ==
  /\ view' = durable
  /\ read' = NoRead
  /\ UNCHANGED durable

Next ==
  \/ \E k \in Keys : Read(k)
  \/ \E k \in Keys, v \in Values : Write(k, v)
  \/ Flush
  \/ Drop

Spec == Init /\ [][Next]_<<view, durable, read>>
==============================================================================
