---------------------------- MODULE MCWifiClient ----------------------------
(* Instance of WifiClient for TLC: two networks to be moved between, and   *)
(* two stations, so that one can leave while one stays.                    *)
EXTENDS WifiClient
=============================================================================
