------------------------------ MODULE MCPhevApp ------------------------------
(* Instance of PhevApp for TLC.  The cfgs give it two sets of details, one   *)
(* station, the server's real table of 20 handlers, and numbers of files     *)
(* that fill it exactly (10) or overfill it (15, what spiffs.bin holds).     *)
EXTENDS PhevApp
=============================================================================
