--------------------------- MODULE MCUpdateCycle ---------------------------
(***************************************************************************)
(* Instances of UpdateCycle for TLC: two numbers for each kind of name, so  *)
(* that a free one has to be looked for, and every mixture of two events:   *)
(* two requests, or one and a kill, a failing program or a stop file.       *)
(***************************************************************************)
EXTENDS UpdateCycle
=============================================================================
