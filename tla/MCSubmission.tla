--------------------------- MODULE MCSubmission -----------------------------
(* Small instances of the flag submission server.                           *)
EXTENDS FlagSubmission

AFlag(team, service, issued, payload) ==
  [team |-> team, service |-> service, round |-> issued, payload |-> payload, mac |-> TRUE]

(* Two stolen flags that share a slot of the cache.                         *)
MCTwoFlags == {AFlag(1, 1, 1, 1), AFlag(1, 1, 1, 3)}
(* A stolen flag of the second tick, and flags that must not count: of the  *)
(* NOP team, forged, made for tests.                                        *)
MCMixedFlags ==
  {AFlag(1, 1, 2, 1), AFlag(3, 1, 1, 1), AFlag(1, 65535, 1, 1),
   [AFlag(1, 1, 1, 1) EXCEPT !.mac = FALSE]}
=============================================================================
