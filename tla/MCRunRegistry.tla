--------------------------- MODULE MCRunRegistry ----------------------------
(***************************************************************************)
(* Four starts against a registry that keeps two completed runs: enough    *)
(* for two finished workers to be late with their prune, for a start to    *)
(* evict, and for an eviction to hit a run that is neither the first nor   *)
(* the last.                                                               *)
(***************************************************************************)
EXTENDS RunRegistry
=============================================================================
