---------------------------- MODULE MCBackupEngine ----------------------------
(***************************************************************************)
(* Small accounts for BackupEngine: two messages, two mailboxes, and a     *)
(* filter that leaves the "junk" keyword out.                              *)
(***************************************************************************)
EXTENDS BackupEngine, TLC

CONSTANTS m1, m2, inbox, work

TwoDays == (m1 :> 1) @@ (m2 :> 2)

At(b, k) == [box |-> b, keyword |-> k]

\* A move, a flag change and an exclusion by the filter.
SmallMeta == {At(inbox, "plain"), At(inbox, "seen"), At(work, "plain"),
              At(work, "junk")}
SmallWanted == {x \in SmallMeta : x.keyword # "junk"}

\* A move and an exclusion by the filter only.
TwoPlaces == {At(inbox, "plain"), At(work, "plain"), At(work, "junk")}
TwoPlacesWanted == {x \in TwoPlaces : x.keyword # "junk"}
JustMoves == {At(inbox, "plain"), At(work, "plain")}
=============================================================================
