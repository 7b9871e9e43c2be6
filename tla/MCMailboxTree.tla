----------------------------- MODULE MCMailboxTree -----------------------------
(* Three mailboxes, one message, and names that collide in every way: by      *)
(* case, by sanitization, and with the directory of unfiled mail.             *)
EXTENDS MailboxTree

CONSTANT m1
MCBox == {"a", "b", "c"}
MCName == {"x/y", "X_Y", "_unfiled"}
MCSanitized == [n \in MCName |-> IF n = "x/y" THEN "x_y" ELSE n]
MCLower == [s \in {"x_y", "X_Y", "_unfiled"} |-> IF s = "X_Y" THEN "x_y" ELSE s]
MCCollation == [s \in DOMAIN MCLower |-> CASE s = "X_Y" -> 1 [] s = "_unfiled" -> 2 [] OTHER -> 3]
MCPosition == [b \in MCBox |-> CASE b = "a" -> 1 [] b = "b" -> 2 [] OTHER -> 3]
MCRank == [b \in MCBox |-> 5]

Boxes(a, b, c) == [x \in MCBox |-> CASE x = "a" -> a [] x = "b" -> b [] OTHER -> c]
Node(n, p) == [name |-> n, parent |-> p]
MCFilter == {<<"x/y">>, <<"_unfiled", "x/y">>}
Start(tree, in, f, gitStore) ==
    [boxes |-> tree, mail |-> [m \in Msg |-> in], filter |-> f, git |-> gitStore]
MCStarts ==
    {Start(Boxes(Node("x/y", None), Node("X_Y", None), None), {"a"}, MCFilter, TRUE),
     Start(Boxes(Node("x/y", "b"), Node("_unfiled", None), None), {"a"}, None, TRUE),
     Start(Boxes(Node("x/y", "b"), Node("_unfiled", None), None), {"a"}, None, FALSE)}

\* Of what follows the end of calm, where no property but TypeOK says anything, the
\* passes that find edits queued by an interrupted one are explored, from one start.
Explored == calm \/ (git /\ filter = None /\ edits # NoEdits)
===============================================================================
