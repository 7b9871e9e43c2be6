-------------------------------- MODULE Mirror --------------------------------
(***************************************************************************)
(* What a backup store promises about the account it follows, with no word *)
(* about passes, files or checkpoints.  The store files a message under    *)
(* some metadata or not at all, and acknowledges a state of the account.   *)
(* It may touch a message only while that message has a change it has not  *)
(* acknowledged, and it may acknowledge a state only once every change up  *)
(* to that state is filed exactly.                                         *)
(***************************************************************************)
EXTENDS Naturals

CONSTANTS Msg, Meta, None

VARIABLES
    version,  \* the account's state
    expected, \* what the archive should hold of each message, if anything
    changed,  \* the state at which each message last changed
    filed,    \* what the archive holds of each message
    acked     \* the state the store has acknowledged

vars == <<version, expected, changed, filed, acked>>

Init ==
    /\ version \in Nat
    /\ expected \in [Msg -> Meta \cup {None}]
    /\ changed \in [Msg -> 0 .. version]
    /\ filed = [m \in Msg |-> None]
    /\ acked = 0

Change(m) ==
    /\ version' = version + 1
    /\ changed' = [changed EXCEPT ![m] = version + 1]
    /\ \E x \in Meta \cup {None} : expected' = [expected EXCEPT ![m] = x]
    /\ UNCHANGED <<filed, acked>>

File ==
    /\ filed' \in [Msg -> Meta \cup {None}]
    /\ \A m \in Msg : filed'[m] # filed[m] => changed[m] > acked
    /\ UNCHANGED <<version, expected, changed, acked>>

Acknowledge(v) ==
    /\ acked <= v /\ v <= version
    /\ \A m \in Msg : 0 < changed[m] /\ changed[m] <= v => filed[m] = expected[m]
    /\ acked' = v
    /\ UNCHANGED <<version, expected, changed, filed>>

Next == \/ \E m \in Msg : Change(m)
        \/ File
        \/ \E v \in 0 .. version : Acknowledge(v)

Spec == Init /\ [][Next]_vars
=============================================================================
