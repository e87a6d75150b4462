----------------------------- MODULE MCWifiLink -----------------------------
(* Two callbacks and three commands, so that an accepted command follows a  *)
(* rejected one and a monitor that is running changes its callback; two     *)
(* changes on the air, so that a station loses a network and finds it again; *)
(* one restart, with two commands left to follow it.                         *)
EXTENDS WifiLink
=============================================================================
