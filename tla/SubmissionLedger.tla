-------------------------- MODULE SubmissionLedger --------------------------
(***************************************************************************)
(* What the flag submission server promises, whatever its threads, its     *)
(* cache and its database connections do: a ledger of the pairs of         *)
(* submitting team and flag, to which every pair is added at most once and *)
(* from which nothing is removed; "[OK]" is answered at most once for a    *)
(* pair, exactly when it is added.  A database error may hide an addition  *)
(* from the submitter.                                                     *)
(***************************************************************************)
EXTENDS Naturals

CONSTANT Pairs

VARIABLES
  ledger, (* the pairs that count for the score                            *)
  told    (* how often "[OK]" was answered for a pair                      *)

LedgerInit == ledger = {} /\ told = [p \in Pairs |-> 0]

(* A new pair is recorded and its submitter is told.                       *)
Accept(p) ==
  /\ p \notin ledger
  /\ ledger' = ledger \cup {p}
  /\ told' = [told EXCEPT ![p] = @ + 1]

(* A new pair is recorded, but the submitter is told of an error.          *)
RecordSilently(p) ==
  /\ p \notin ledger
  /\ ledger' = ledger \cup {p}
  /\ UNCHANGED told

LedgerNext == \E p \in Pairs : Accept(p) \/ RecordSilently(p)

LedgerSpec == LedgerInit /\ [][LedgerNext]_<<ledger, told>>
=============================================================================
