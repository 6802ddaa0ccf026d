----------------------------- MODULE MCTokenBook -----------------------------
(****************************************************************************)
(* Two prices, so that a side has a best level and one behind it, and three *)
(* versions: a snapshot, a delta that is lost, and one that comes after it. *)
(****************************************************************************)
EXTENDS TokenBook

=============================================================================
