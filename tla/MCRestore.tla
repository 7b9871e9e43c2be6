------------------------------- MODULE MCRestore -------------------------------
(***************************************************************************)
(* An archive of four mailboxes, two of which differ only in the case of   *)
(* their name, and three messages: one of a mailbox and of a mailbox that  *)
(* is gone, one of a mailbox and its parent, and one whose mailbox is gone *)
(* and whose directory nobody owns.                                        *)
(***************************************************************************)
EXTENDS Restore

MCBox == {"b1", "b2", "b3", "b4"}
MCParent == [b \in MCBox |-> IF b = "b4" THEN "b2" ELSE None]
MCName == [b \in MCBox |-> CASE b = "b1" -> "Inbox" [] b = "b2" -> "Work"
                             [] b = "b3" -> "work" [] b = "b4" -> "Bills"]
MCRole == [b \in MCBox |-> IF b = "b1" THEN "inbox" ELSE None]

MCMsg == {"m1", "m2", "m3"}
MCFiledUnder == [m \in MCMsg |-> CASE m = "m1" -> {"b1", "gone"}
                                   [] m = "m2" -> {"b3", "b4"} [] m = "m3" -> {"gone"}]
MCDirectoryOf == [m \in MCMsg |-> CASE m = "m1" -> "b1" [] m = "m2" -> "b4"
                                    [] m = "m3" -> None]
OwnIds == [m \in MCMsg |-> CASE m = "m1" -> "id1" [] m = "m2" -> "id2" [] m = "m3" -> None]
MCReceived == [m \in MCMsg |-> IF m = "m1" THEN 10 ELSE 20]
MCSize == [m \in MCMsg |-> 5]

LowerCase == {"inbox", "mail", "work", "bills", "work/bills", "unfiled", "restored"}
MCLower == [n \in LowerCase \cup {"Inbox", "Mail", "Work", "WORK", "Bills", "Work/Bills",
                                  "Unfiled", "Restored"} |->
              CASE n \in LowerCase -> n
                [] n = "Inbox" -> "inbox"  [] n = "Mail" -> "mail"
                [] n \in {"Work", "WORK"} -> "work"
                [] n = "Bills" -> "bills" [] n = "Work/Bills" -> "work/bills"
                [] n = "Unfiled" -> "unfiled" [] n = "Restored" -> "restored"]
MCSegments == [n \in DOMAIN MCLower |->
                 CASE n = "Work/Bills" -> <<"Work", "Bills">>
                   [] n = "work/bills" -> <<"work", "bills">> [] OTHER -> <<n>>]

\* A new account that has an inbox of its own; one whose folders are partly
\* there already, with some of the mail, and a name that looks like a path.
MCAccounts ==
    {[boxes |-> <<[name |-> "inbox", parent |-> 0, role |-> "inbox"]>>, mail |-> <<>>],
     [boxes |-> <<[name |-> "Mail", parent |-> 0, role |-> "inbox"],
                  [name |-> "WORK", parent |-> 0, role |-> None],
                  [name |-> "Work/Bills", parent |-> 0, role |-> None]>>,
      mail |-> <<[msg |-> "m1", in |-> {}]>>]}

Intact == {[m \in MCMsg |-> "good"]}
OneDamaged == Intact \cup {[m \in MCMsg |-> IF m = "m2" THEN c ELSE "good"] :
                             c \in {"corrupt", "missing"}}
AnyCase == {None, "restored"}
MCOwnerNames == {"Work"}
=============================================================================
