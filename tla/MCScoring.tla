----------------------------- MODULE MCScoring -----------------------------
EXTENDS Scoring

MCFlags == {[team |-> 1, issued |-> 1, payload |-> 0], [team |-> 2, issued |-> 1, payload |-> 0]}
MCWorth == <<10, 7, 6>>
MCDamage == [n \in 0..3 |-> 3 * n]
MCOutcomes == {<<"RECOVERING", "OFFLINE", "SUCCESS">>}
MCAlgorithms == {<<"saarctf", "default">>, <<"playground", "multi">>}
=============================================================================
