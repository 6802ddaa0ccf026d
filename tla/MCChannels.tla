------------------------------ MODULE MCChannels ------------------------------
(***************************************************************************)
(* Channels with room for a few messages and a few windows.                *)
(***************************************************************************)
EXTENDS Channels

=============================================================================
