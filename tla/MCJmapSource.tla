---------------------------- MODULE MCJmapSource ----------------------------
(* Small instances of JmapSource. *)
EXTENDS JmapSource, TLC

CONSTANTS inbox, work
InboxFirst == inbox :> 1 @@ work :> 2
Symmetry == Permutations(Msg) \cup Permutations(Name)
=============================================================================
