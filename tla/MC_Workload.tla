---------------------------- MODULE MC_Workload ------------------------------
(* Traces without files, with groups that end within a file and across files, and
   with blocks that have no events. *)
EXTENDS Workload

MCTraces ==
  {<< >>,
   << <<TRUE, FALSE, TRUE>>, <<TRUE>> >>,
   << <<FALSE>>, <<TRUE, TRUE>>, <<FALSE, TRUE, TRUE>> >>,
   << <<TRUE, TRUE>>, <<FALSE, FALSE>>, <<TRUE>> >>}
==============================================================================
