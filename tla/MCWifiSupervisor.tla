-------------------------- MODULE MCWifiSupervisor --------------------------
(***************************************************************************)
(* WifiSupervisor for TLC.  Three attempts are a first, a middle and a     *)
(* last one; an interval of three polls has polls inside it, on it and     *)
(* past it.                                                                *)
(***************************************************************************)
EXTENDS WifiSupervisor

=============================================================================
