---------------------------- MODULE MCWifiStack ----------------------------
(***************************************************************************)
(* WifiStack with at most one poll in a wait: one that ends in time, and   *)
(* one that does not; the hook's grace is over as it begins.               *)
(***************************************************************************)
EXTENDS WifiStack
=============================================================================
