-------------------------------- MODULE Daemon --------------------------------
(***************************************************************************)
(* The loop of `mail-backup run` (engine/stream.rs): full passes, and      *)
(* between them a stream of notifications that are debounced into syncs,   *)
(* with a safety poll, a scheduled refresh, reconnection and shutdown.     *)
(*                                                                         *)
(* What a pass or a sync does is BackupEngine's matter.  Here it brings    *)
(* the archive to what the server told when it began: every change there   *)
(* is, or, from the change feed, those the server recorded in it.  Time    *)
(* counts in steps of the loop's cancellation poll (one second), and only  *)
(* while the loop waits or syncs.                                          *)
(***************************************************************************)
EXTENDS StrategyChain

CONSTANTS
    Change,        \* what may happen to the account
    QuietPeriod, MaxBatchDelay, SafetyPoll, \* of StreamOptions
    ReconnectMin, ReconnectMax,             \* of StreamOptions
    ScheduleIn,    \* how far off the schedule may be; {} if there is none
    MaxFails       \* bound: passes and syncs that do not succeed

ASSUME DelayAssumption ==
    /\ QuietPeriod \in Nat \ {0} /\ MaxBatchDelay \in Nat \ {0}
    /\ SafetyPoll \in Nat \ {0} /\ ScheduleIn \subseteq Nat
    /\ ReconnectMin \in Nat \ {0} /\ ReconnectMax \in Nat
    /\ ReconnectMin <= ReconnectMax /\ MaxFails \in Nat

VARIABLES
    pc,       \* where the loop is
    refresh,  \* the next pass is a refresh
    backoff,  \* the next reconnection delay
    pending,  \* a notification has not been acted on
    deadline, \* what is left until each deadline that is set
    account,  \* changes of the account so far
    fed,      \* those the server recorded in its change feed
    held,     \* those the archive has
    reading,  \* what the pass or sync in progress will have brought
    fails,    \* failures so far
    waited,   \* history: time waited since a notification was received
    idle,     \* history: time waited since the last sync
    linger    \* history: time waited since the shutdown was requested

loop == <<pc, refresh, backoff, pending, deadline>>
mail == <<account, fed, held, reading>>
clock == <<waited, idle, linger>>
vars == <<loop, mail, clock, fails, chain, cancel>>

Deadline == {"quiet", "batch", "poll", "schedule"}

TypeOK ==
    /\ ChainTypeOK
    /\ pc \in {"start", "pass", "check", "wait", "sync", "backoff", "stopped"}
    /\ refresh \in BOOLEAN /\ pending \in BOOLEAN
    /\ backoff \in ReconnectMin .. ReconnectMax
    /\ DOMAIN deadline \subseteq Deadline
    /\ \A d \in DOMAIN deadline : deadline[d] \in Nat
    /\ fed \subseteq account /\ account \subseteq Change
    /\ held \subseteq account /\ reading \subseteq account
    /\ fails \in 0 .. MaxFails
    /\ waited \in Nat /\ idle \in Nat /\ linger \in Nat

\* Changes count from when the archive was first complete.
Init ==
    /\ pc = "start" /\ refresh = FALSE /\ backoff = ReconnectMin
    /\ pending = FALSE /\ deadline = << >>
    /\ account = {} /\ fed = {} /\ held = {} /\ reading = {}
    /\ fails = 0
    /\ waited = 0 /\ idle = 0 /\ linger = 0
    /\ ChainInit

\* ds with deadline d set to n from now.
Arm(d, n, ds) == [x \in DOMAIN ds \cup {d} |-> IF x = d THEN n ELSE ds[x]]
Due(d) == d \in DOMAIN deadline /\ deadline[d] = 0
Clear(ds) == [d \in DOMAIN deadline \ ds |-> deadline[d]]

-----------------------------------------------------------------------------
(* Full passes (run).                                                       *)

Stop ==
    /\ pc \in {"start", "check"} /\ cancel
    /\ pc' = "stopped"
    /\ UNCHANGED <<refresh, backoff, pending, deadline, mail, clock, fails,
                   chain, cancel>>

\* run_refresh, run_backup from the feed, or its fallback to a reconciliation.
BeginPass ==
    /\ pc = "start" /\ ~cancel
    /\ reading' \in IF refresh THEN {account} ELSE {fed, account}
    /\ pc' = "pass" /\ refresh' = FALSE
    /\ UNCHANGED <<backoff, pending, deadline, account, fed, held,
                   clock, fails, chain, cancel>>

NextSchedule ==
    IF ScheduleIn = {} THEN {<< >>}
                       ELSE {Arm("schedule", n, << >>) : n \in ScheduleIn}

\* The pass succeeds, and a new stream is opened.
PassSucceeds ==
    /\ pc = "pass"
    /\ held' = held \cup reading /\ reading' = {}
    /\ backoff' = ReconnectMin
    /\ IF cancel
       THEN pc' = "stopped" /\ UNCHANGED <<generator, deadline>>
       ELSE /\ pc' = "check" /\ Open
            /\ \E at \in NextSchedule : deadline' = Arm("poll", SafetyPoll, at)
    /\ waited' = 0 /\ idle' = 0
    /\ UNCHANGED <<refresh, pending, account, fed, linger, fails,
                   health, drops, cancel>>

\* It saw the cancel flag.
PassInterrupted ==
    /\ pc = "pass" /\ cancel
    /\ pc' = "stopped" /\ reading' = {}
    /\ UNCHANGED <<refresh, backoff, pending, deadline, account, fed, held,
                   clock, fails, chain, cancel>>

PassFails ==
    /\ pc = "pass" /\ fails < MaxFails
    /\ pc' = "backoff" /\ fails' = fails + 1 /\ reading' = {}
    /\ UNCHANGED <<refresh, backoff, pending, deadline, account, fed, held,
                   clock, chain, cancel>>

\* (mutant: the delay grows without bound.)
BackoffEndsUncapped ==
    /\ pc = "backoff"
    /\ pc' = "start"
    /\ backoff' = 2 * backoff
    /\ UNCHANGED <<refresh, pending, deadline, mail, clock, fails, chain, cancel>>

BackoffEnds ==
    /\ pc = "backoff"
    /\ pc' = "start"
    /\ backoff' = IF 2 * backoff < ReconnectMax THEN 2 * backoff ELSE ReconnectMax
    /\ UNCHANGED <<refresh, pending, deadline, mail, clock, fails, chain, cancel>>

-----------------------------------------------------------------------------
(* The stream phase (stream_phase).                                         *)

\* It returns: the stream and what was pending go with it.
Return(where) ==
    /\ pc' = where
    /\ pending' = FALSE /\ deadline' = << >>
    /\ Close

\* (mutant: the refresh is forgotten.)
ScheduleDueForgotten ==
    /\ pc = "check" /\ ~cancel /\ Due("schedule")
    /\ refresh' = FALSE /\ Return("start")
    /\ UNCHANGED <<backoff, account, fed, held, reading, clock, fails, health,
                   drops, cancel>>

ScheduleDue ==
    /\ pc = "check" /\ ~cancel /\ Due("schedule")
    /\ refresh' = TRUE /\ Return("start")
    /\ UNCHANGED <<backoff, account, fed, held, reading, clock, fails, health,
                   drops, cancel>>

BatchDue == pending /\ (Ended \/ Due("quiet") \/ Due("batch"))

BeginSync ==
    /\ pc = "check" /\ ~cancel /\ ~Due("schedule") /\ (BatchDue \/ Due("poll"))
    /\ pc' = "sync" /\ reading' = fed
    /\ deadline' = IF Due("poll") THEN Arm("poll", SafetyPoll, deadline)
                                  ELSE deadline
    /\ UNCHANGED <<refresh, backoff, pending, account, fed, held, clock,
                   fails, chain, cancel>>

\* A sync that saw the cancel flag may have stopped short.
SyncSucceeds ==
    /\ pc = "sync"
    /\ held' \in {held \cup reading} \cup (IF cancel THEN {held} ELSE {})
    /\ reading' = {}
    /\ waited' = 0 /\ idle' = 0
    /\ IF Ended
       THEN Return("backoff")
       ELSE /\ pc' = "wait" /\ pending' = FALSE
            /\ deadline' = Clear({"quiet", "batch"})
            /\ UNCHANGED generator
    /\ UNCHANGED <<refresh, backoff, account, fed, linger, fails, health, drops,
                   cancel>>

\* The server cannot compute the changes (then a full pass follows at once),
\* or the sync fails.
SyncFails ==
    /\ pc = "sync" /\ fails < MaxFails
    /\ fails' = fails + 1 /\ reading' = {}
    /\ \E where \in {"start", "backoff"} : Return(where)
    /\ UNCHANGED <<refresh, backoff, account, fed, held, clock, health, drops,
                   cancel>>

NothingDue == ~cancel /\ ~Due("schedule") /\ ~BatchDue /\ ~Due("poll")

Disconnected ==
    /\ pc = "check" /\ NothingDue /\ Ended
    /\ Return("backoff")
    /\ UNCHANGED <<refresh, backoff, account, fed, held, reading, clock, fails,
                   health, drops, cancel>>

Wait ==
    /\ pc = "check" /\ NothingDue /\ ~Ended
    /\ pc' = "wait"
    /\ UNCHANGED <<refresh, backoff, pending, deadline, mail, clock, fails,
                   chain, cancel>>

\* (mutant: each notification moves the deadline of the batch.)
NotifiedAnew ==
    /\ pc = "wait" /\ phase = "open" /\ ~cancel
    /\ pending' = TRUE
    /\ deadline' = Arm("quiet", QuietPeriod, Arm("batch", MaxBatchDelay, deadline))
    /\ pc' = "check"
    /\ UNCHANGED <<refresh, backoff, account, fed, held, reading, clock, fails,
                   chain, cancel>>

\* A notification puts the batch off, but never beyond its own deadline.  The
\* server may push any number of them: late, twice, or never.
Notified ==
    /\ pc = "wait" /\ phase = "open" /\ ~cancel
    /\ pending' = TRUE
    /\ deadline' = Arm("quiet", QuietPeriod,
                       IF "batch" \in DOMAIN deadline THEN deadline
                       ELSE Arm("batch", MaxBatchDelay, deadline))
    /\ pc' = "check"
    /\ UNCHANGED <<refresh, backoff, account, fed, held, reading, clock, fails,
                   chain, cancel>>

\* The stream is polled: it goes on looking for a transport.
StreamChooses ==
    /\ pc = "wait" /\ Choose
    /\ UNCHANGED <<loop, mail, clock, fails, cancel>>

\* It ends or fails, and the loop knows.
StreamEnds ==
    /\ pc = "wait" /\ End
    /\ pc' = "check"
    /\ UNCHANGED <<refresh, backoff, pending, deadline, account, fed, held,
                   reading, clock, fails, cancel>>

-----------------------------------------------------------------------------
(* Time, the account and the user.                                          *)

Left(n) == IF n = 0 THEN 0 ELSE n - 1
Elapse == deadline' = [d \in DOMAIN deadline |-> Left(deadline[d])]
SomeDue == \E d \in DOMAIN deadline : Due(d)

\* (mutant: nothing but a deadline wakes the loop.)
TickUnlessDue ==
    /\ pc = "wait" /\ ~SomeDue
    /\ Elapse
    /\ waited' = (IF pending THEN waited + 1 ELSE 0)
    /\ idle' = idle + 1 /\ linger' = (IF cancel THEN linger + 1 ELSE 0)
    /\ pc' = IF \E d \in DOMAIN deadline : deadline[d] = 1 THEN "check" ELSE "wait"
    /\ UNCHANGED <<refresh, backoff, pending, mail, fails, chain, cancel>>

\* A second passes, and wakes the loop.
Tick ==
    /\ pc = "wait" /\ ~SomeDue
    /\ Elapse
    /\ waited' = (IF pending THEN waited + 1 ELSE 0)
    /\ idle' = idle + 1 /\ linger' = (IF cancel THEN linger + 1 ELSE 0)
    /\ pc' = "check"
    /\ UNCHANGED <<refresh, backoff, pending, mail, fails, chain, cancel>>

\* A deadline has passed already.
Wake ==
    /\ pc = "wait" /\ SomeDue
    /\ pc' = "check"
    /\ UNCHANGED <<refresh, backoff, pending, deadline, mail, clock, fails,
                   chain, cancel>>

\* A second passes during a sync.
TickInSync ==
    /\ pc = "sync" /\ Elapse
    /\ UNCHANGED <<pc, refresh, backoff, pending, mail, clock, fails, chain, cancel>>

\* Something happens to the account; the server may fail to record it in its
\* change feed.
Happens(c) ==
    /\ c \notin account /\ account' = account \cup {c}
    /\ fed' \in {fed, fed \cup {c}}
    /\ UNCHANGED <<loop, held, reading, clock, fails, chain, cancel>>

Cancel ==
    /\ ~cancel /\ cancel' = TRUE
    /\ UNCHANGED <<loop, mail, clock, fails, chain>>

Ages == (LivesLong \/ CooldownEnds) /\ UNCHANGED <<loop, mail, clock, fails, cancel>>

-----------------------------------------------------------------------------
Step ==
    \/ Stop \/ BeginPass \/ PassSucceeds \/ PassInterrupted \/ PassFails
    \/ BackoffEnds \/ ScheduleDue \/ BeginSync \/ SyncSucceeds \/ SyncFails
    \/ Disconnected \/ Wait \/ Wake \/ Notified

Next ==
    \/ Step \/ Tick \/ TickInSync \/ Ages \/ Cancel
    \/ StreamChooses \/ StreamEnds
    \/ \E c \in Change : Happens(c)

Spec == Init /\ [][Next]_vars

\* The loop never blocks for good: passes and syncs return and sleeps end.  A
\* second passes, however many notifications come in it.  Nothing is assumed of
\* the stream or of the server's notifications.
FairSpec == Spec /\ WF_vars(Step) /\ SF_vars(Tick)

-----------------------------------------------------------------------------
(* What the daemon promises.                                                *)

\* While the loop waits, a received notification never waits longer than the
\* batch deadline, however many follow it, and no more time than the safety
\* poll goes by without a sync (stream_phase 322-346).
Prompt == pc = "wait" => waited <= MaxBatchDelay /\ idle <= SafetyPoll

\* A shutdown is seen within one poll of the flag, whatever the stream does,
\* short of the pass or sync in progress (stream_phase 242, 328).
StopsPromptly == linger <= 1

\* Whatever notifications are lost, whatever transports fail and whatever the
\* change feed leaves out, in the end the archive has every change, unless the
\* daemon is told to stop (stream.rs 5-14).
CatchesUp == <>[](cancel \/ held = account)
=============================================================================
