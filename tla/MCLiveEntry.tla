----------------------------- MODULE MCLiveEntry -----------------------------
(***************************************************************************)
(* A small instance of LiveEntry: windows of two ticks.  In the first tick *)
(* an order may be sent, the second lies exactly at the 30-second limit.   *)
(***************************************************************************)
EXTENDS LiveEntry

=============================================================================
