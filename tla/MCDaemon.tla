------------------------------- MODULE MCDaemon -------------------------------
(***************************************************************************)
(* One change, three transports of which the second is unsupported, and    *)
(* four deadlines of different length.                                     *)
(***************************************************************************)
EXTENDS Daemon

CONSTANTS c1

FirstAndLast == {1, 3}
AfterThePoll == {6}
=============================================================================
