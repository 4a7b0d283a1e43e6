--------------------------- MODULE MCStringsIndex ---------------------------
(***************************************************************************)
(* Instances of StringsIndex for TLC: strings, each known by its name only, *)
(* and a text long enough for each to be entered and one to be entered      *)
(* again.                                                                   *)
(***************************************************************************)
EXTENDS StringsIndex
=============================================================================
