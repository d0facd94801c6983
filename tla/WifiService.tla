---------------------------- MODULE WifiService ----------------------------
(***************************************************************************)
(* What the WiFi stack promises, without the processes and the commands    *)
(* that implement it: one radio, used by at most one role at a time, and a *)
(* mode that the outside world is told about.                              *)
(*                                                                         *)
(*   mode   what the supervisor is doing; "down" when it is not running    *)
(*   role   who is driving the radio: a station (wpa_supplicant), an       *)
(*          access point (hostapd), or nobody                              *)
(*                                                                         *)
(* The promise is in what is absent: there is no step from "station" to    *)
(* "ap" or back (the radio is always released in between), the station     *)
(* runs only while the client is being tried or watched, the access point  *)
(* is raised only in fallback mode, and the two ways back to TryClient     *)
(* and on to FallbackAp never carry a live station with them.              *)
(***************************************************************************)

VARIABLES mode, role

vars == <<mode, role>>

Modes == {"down", "TryClient", "ClientUp", "FallbackAp"}
Roles == {"idle", "station", "ap"}

Init == mode = "down" /\ role = "idle"

(* The program is started while nothing drives the radio. *)
Launch ==
  /\ mode = "down" /\ role = "idle"
  /\ mode' = "TryClient"
  /\ UNCHANGED role

(* wpa_supplicant takes the radio; the access point is fully down. *)
Join ==
  /\ mode = "TryClient" /\ role = "idle"
  /\ role' = "station"
  /\ UNCHANGED mode

(* hostapd takes the radio; there is no station. *)
Serve ==
  /\ mode = "FallbackAp" /\ role = "idle"
  /\ role' = "ap"
  /\ UNCHANGED mode

(* The daemon driving the radio is stopped, killed, or exits on its own. *)
Release ==
  /\ role # "idle"
  /\ role' = "idle"
  /\ UNCHANGED mode

(* The client attempt succeeded. *)
Connected ==
  /\ mode = "TryClient" /\ role # "ap"
  /\ mode' = "ClientUp"
  /\ UNCHANGED role

(* The connection was lost: the old station is gone before the next try. *)
Lost ==
  /\ mode = "ClientUp" /\ role = "idle"
  /\ mode' = "TryClient"
  /\ UNCHANGED role

(* Every attempt failed, or there is nothing to attempt with. *)
GiveUp ==
  /\ mode = "TryClient" /\ role = "idle"
  /\ mode' = "FallbackAp"
  /\ UNCHANGED role

(* The fallback interval is over: the client gets another try. *)
Retry ==
  /\ mode = "FallbackAp" /\ role # "station"
  /\ mode' = "TryClient"
  /\ UNCHANGED role

(* The program stops: killed, or returning an error. *)
Stop ==
  /\ mode # "down"
  /\ mode' = "down"
  /\ UNCHANGED role

Next ==
  \/ Launch \/ Join \/ Serve \/ Release \/ Connected
  \/ Lost \/ GiveUp \/ Retry \/ Stop

Spec == Init /\ [][Next]_vars

=============================================================================
