----------------------------- MODULE MCMarketFeed -----------------------------
(***************************************************************************)
(* Four consecutive windows: enough for windows that are skipped between   *)
(* two that are discovered, and for commands that wait together.           *)
(***************************************************************************)
EXTENDS MarketFeed

=============================================================================
