---------------------------- MODULE MCSharedLog ----------------------------
(* SharedLog for the two programs, with a bound on the lines of each.      *)
EXTENDS SharedLog

MCProcs    == {"backend", "client"}
MCMaxLines == [p \in MCProcs |-> IF p = "backend" THEN 4 ELSE 1]
=============================================================================
