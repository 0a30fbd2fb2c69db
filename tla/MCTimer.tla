------------------------------- MODULE MCTimer -------------------------------
(* Instances of the master timer for TLC.                                    *)
EXTENDS CtfRoute
==============================================================================
