------------------------- MODULE MC_JournalDatabases -------------------------
(* Small instances of the journal databases for TLC. *)
EXTENDS JournalDatabases, TLC

(* Blocks on one parent are only compared for equality. *)
Symmetry == Permutations(Ids)
==============================================================================
