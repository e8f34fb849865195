---------------------------- MODULE MCRunStream -----------------------------
(***************************************************************************)
(* One run with two progress events, so that a snapshot and the queue can  *)
(* both hold them and their order shows; three stream requests, two of     *)
(* which may break, so that up to two abandoned handlers compete with the  *)
(* live one for the queue; a registry that keeps no completed run, so that *)
(* the run can be evicted under its page, before and after the stream ends.*)
(***************************************************************************)
EXTENDS RunStream
=============================================================================
