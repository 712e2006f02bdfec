------------------------------ MODULE MC_LvmtDB ------------------------------
(* LvmtDB on small instances.  Two indices per AMT and one or two slots per
   node make keys collide, so that they are pushed down one or two levels. *)
EXTENDS LvmtDB, TLC

CONSTANTS a, b, c, d, e

(* a and b share the path but for level 2; c parts from them at level 1, d in
   the root tree, and e not before level 3. *)
FullPath == (a :> <<0, 1, 0>>) @@ (b :> <<0, 1, 1>>) @@ (c :> <<0, 0, 0>>)
              @@ (d :> <<1, 0, 0>>) @@ (e :> <<0, 1, 0>>)
MCPath == [k \in Keys |-> SubSeq(FullPath[k], 1, MaxLevel)]
MCIndex == {0, 1}
==============================================================================
