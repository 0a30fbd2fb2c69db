---------------------------- MODULE MCScoreboard ----------------------------
EXTENDS Scoreboard
=============================================================================
