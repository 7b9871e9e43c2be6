---------------------------- MODULE MCDailyLedger ----------------------------
(* Small instances of DailyLedger. *)
EXTENDS DailyLedger, TLC

Symmetry == Permutations(Msg) \cup Permutations(Meta)
=============================================================================
