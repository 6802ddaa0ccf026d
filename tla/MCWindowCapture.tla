--------------------------- MODULE MCWindowCapture ---------------------------
(***************************************************************************)
(* A small instance of WindowCapture: windows of three ticks, of which the *)
(* first two are in time for the opening prices.                           *)
(***************************************************************************)
EXTENDS WindowCapture

=============================================================================
