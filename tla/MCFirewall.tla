----------------------------- MODULE MCFirewall -----------------------------
(* Instances of Firewall for TLC.                                          *)
EXTENDS Firewall

CONSTANT MaxEvents   (* bound: new teams, commands and lost connections together *)

(* The states TLC explores further.                                        *)
Budget == (registered - 1) + commands + disconnects <= MaxEvents
=============================================================================
