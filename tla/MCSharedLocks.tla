---------------------------- MODULE MCSharedLocks ----------------------------
(***************************************************************************)
(* All five locks of the program, and all tasks or one of each kind.       *)
(***************************************************************************)
EXTENDS SharedLocks

=============================================================================
