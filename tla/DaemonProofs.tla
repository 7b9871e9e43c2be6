------------------------------ MODULE DaemonProofs ------------------------------
(***************************************************************************)
(* For any number of transports and any thresholds, delays, schedules and  *)
(* failures: the fallback chain gives up only when every supported         *)
(* transport has failed, no notification and no safety poll is late, and a *)
(* shutdown is seen at once.                                               *)
(***************************************************************************)
EXTENDS Daemon, TLAPS

\* The strategy in use is one of the chain's, and there is none before.
CurrentNamed ==
    /\ phase \in {"trying", "open"} => current \in Strategy
    /\ phase = "choosing" => current = 0

\* A strategy is set aside only in the first loop.
DeferredOnce == again => deferred = {}

\* While it chooses, no supported strategy is left out.
NoneForgotten ==
    phase \in {"choosing", "trying"} =>
        Supported \subseteq tried \cup todo \cup deferred \cup {current}

ChainInv ==
    /\ ChainTypeOK /\ CurrentNamed /\ DeferredOnce /\ NoneForgotten
    /\ GivesUpOnlyWhenAllFailed

USE DEF Strategy

\* No strategy has number 0, and 0 is a streak.
LEMMA Zero == 0 \notin Supported /\ 0 \in 0 .. (DemotionThreshold - 1)
BY ChainAssumption

-----------------------------------------------------------------------------
\* The chain as it is made satisfies the invariant (new, 140-146).
LEMMA ChainInitInv == ASSUME ChainInit PROVE ChainInv
<1>1. strikes \in [Strategy -> 0 .. (DemotionThreshold - 1)]
    <2>1. 0 \in 0 .. (DemotionThreshold - 1) BY Zero
    <2> QED BY <2>1 DEF ChainInit
<1>2. 0 \in 0 .. N /\ 0 \in 0 .. MaxDrops BY ChainAssumption
<1> QED
    BY <1>1, <1>2 DEF ChainInit, Closed, ChainInv, ChainTypeOK, CurrentNamed,
        DeferredOnce, NoneForgotten, GivesUpOnlyWhenAllFailed

\* So does a stream just asked for, or dropped (events, 161-163).
LEMMA FreshInv ==
    ASSUME ChainInv, Open \/ Close, UNCHANGED <<health, drops, cancel>>
    PROVE  ChainInv'
<1>1. 0 \in 0 .. N /\ Supported \subseteq Strategy BY ChainAssumption
<1>2. ChainTypeOK'
    <2>1. CASE Open BY <1>1, <2>1 DEF Open, ChainInv, ChainTypeOK, health
    <2>2. CASE Close BY <1>1, <2>2 DEF Close, ChainInv, ChainTypeOK, health
    <2> QED BY <2>1, <2>2
<1>3. CASE Open
    BY <1>1, <1>2, <1>3 DEF Open, ChainInv, CurrentNamed, DeferredOnce,
        NoneForgotten, GivesUpOnlyWhenAllFailed
<1>4. CASE Close
    BY <1>2, <1>4 DEF Close, ChainInv, CurrentNamed, DeferredOnce,
        NoneForgotten, GivesUpOnlyWhenAllFailed
<1> QED BY <1>3, <1>4

\* A strike leaves a streak below the threshold (strike, 328-338).
LEMMA StrikeTyped ==
    ASSUME ChainTypeOK, NEW s \in Strategy, Strike(s)
    PROVE  /\ strikes' \in [Strategy -> 0 .. (DemotionThreshold - 1)]
           /\ cooling' \subseteq Strategy
<1>0. strikes \in [Strategy -> 0 .. (DemotionThreshold - 1)]
      /\ cooling \subseteq Strategy
    BY DEF ChainTypeOK
<1>1. CASE strikes[s] + 1 >= DemotionThreshold
    <2>1. 0 \in 0 .. (DemotionThreshold - 1) BY Zero
    <2>2. /\ strikes' = [strikes EXCEPT ![s] = 0]
          /\ cooling' = cooling \cup {s}
        BY <1>1 DEF Strike
    <2> QED BY <1>0, <2>1, <2>2
<1>2. CASE ~(strikes[s] + 1 >= DemotionThreshold)
    <2>1. strikes[s] \in 0 .. (DemotionThreshold - 1) BY <1>0
    <2>2. strikes[s] + 1 \in 0 .. (DemotionThreshold - 1)
        BY <1>2, <2>1, ChainAssumption
    <2>3. /\ strikes' = [strikes EXCEPT ![s] = strikes[s] + 1]
          /\ cooling' = cooling
        BY <1>2 DEF Strike
    <2> QED BY <1>0, <2>2, <2>3
<1> QED BY <1>1, <1>2

\* Choosing a strategy keeps the invariant (events, 165-210).
LEMMA ChooseInv == ASSUME ChainInv, Choose, UNCHANGED cancel PROVE ChainInv'
<1> USE DEF ChainInv, CurrentNamed, DeferredOnce, NoneForgotten,
        GivesUpOnlyWhenAllFailed
<1>1. CASE Subscribed
    BY <1>1, ChainAssumption DEF Subscribed, ChainTypeOK, health
<1>2. CASE Refused
    <2>1. current \in Strategy BY <1>2 DEF Refused
    <2>2. /\ strikes' \in [Strategy -> 0 .. (DemotionThreshold - 1)]
          /\ cooling' \subseteq Strategy
        BY <1>2, <2>1, StrikeTyped DEF Refused
    <2>3. drops' \in 0 .. MaxDrops
        BY <1>2, ChainAssumption DEF Refused, ChainTypeOK
    <2>4. ChainTypeOK'
        BY <1>2, <2>1, <2>2, <2>3, ChainAssumption DEF Refused, ChainTypeOK
    <2> QED BY <1>2, <2>4 DEF Refused
<1>3. CASE SecondLoop
    BY <1>3, ChainAssumption DEF SecondLoop, ChainTypeOK, health
<1>4. ASSUME NEW s \in Strategy, Skip(s) PROVE ChainInv'
    BY <1>4, ChainAssumption DEF Skip, Consider, ChainTypeOK, health
<1>5. ASSUME NEW s \in Strategy, SetAside(s) PROVE ChainInv'
    BY <1>5, ChainAssumption DEF SetAside, Consider, ChainTypeOK, health
<1>6. ASSUME NEW s \in Strategy, Try(s) PROVE ChainInv'
    BY <1>6, ChainAssumption DEF Try, Consider, ChainTypeOK, health
<1> QED BY <1>1, <1>2, <1>3, <1>4, <1>5, <1>6 DEF Choose

\* So does its end, whichever it is (events, 212-245).
LEMMA EndInv == ASSUME ChainInv, End, UNCHANGED cancel PROVE ChainInv'
<1> USE DEF ChainInv, CurrentNamed, DeferredOnce, NoneForgotten,
        GivesUpOnlyWhenAllFailed, Over
<1>1. CASE GiveUp
    <2>1. 0 \notin Supported BY Zero
    <2>2. /\ phase = "choosing" /\ todo = {} /\ again
          /\ phase' = "gave up" /\ tried' = tried
          /\ UNCHANGED <<again, todo, deferred, current, healthy, drops, strikes,
                         cooling>>
        BY <1>1 DEF GiveUp, health
    <2>3. deferred = {} /\ current = 0 BY <2>2
    <2>4. Supported \subseteq tried BY <2>1, <2>2, <2>3
    <2> QED BY <2>2, <2>3, <2>4 DEF ChainTypeOK
<1>2. CASE Cut
    BY <1>2, ChainAssumption DEF Cut, ChainTypeOK, health
<1>3. CASE Ends
    <2>1. current \in Strategy BY <1>3 DEF Ends
    <2>2. /\ strikes' \in [Strategy -> 0 .. (DemotionThreshold - 1)]
          /\ cooling' \subseteq Strategy
        <3>1. CASE healthy
            <4>1. 0 \in 0 .. (DemotionThreshold - 1) BY Zero
            <4> QED
                BY <1>3, <2>1, <3>1, <4>1 DEF Ends, StreamEnded, ChainTypeOK
        <3>2. CASE ~healthy
            BY <1>3, <2>1, <3>2, StrikeTyped DEF Ends, StreamEnded
        <3> QED BY <3>1, <3>2
    <2>3. drops' \in 0 .. MaxDrops
        BY <1>3, ChainAssumption DEF Ends, ChainTypeOK
    <2> QED BY <1>3, <2>1, <2>2, <2>3 DEF Ends, ChainTypeOK
<1> QED BY <1>1, <1>2, <1>3 DEF End

\* Time changes only ages and cooldowns.
LEMMA AgesInv == ASSUME ChainInv, Ages PROVE ChainInv'
<1> USE DEF ChainInv, ChainTypeOK, CurrentNamed, DeferredOnce, NoneForgotten,
        GivesUpOnlyWhenAllFailed
<1>1. CASE LivesLong
    <2>1. /\ phase = "open" /\ healthy' = TRUE
          /\ UNCHANGED <<strikes, cooling, phase, again, todo, deferred, current,
                         tried, drops, cancel>>
        BY <1>1 DEF Ages, LivesLong, health
    <2> QED BY <2>1
<1>2. CASE CooldownEnds
    <2>1. cooling' \subseteq Strategy BY <1>2 DEF CooldownEnds
    <2>2. UNCHANGED <<strikes, phase, again, todo, deferred, current, healthy,
                      tried, drops, cancel>>
        BY <1>2 DEF Ages, CooldownEnds, generator
    <2> QED BY <2>1, <2>2
<1> QED BY <1>1, <1>2 DEF Ages

-----------------------------------------------------------------------------
\* The invariant of the chain holds whatever the daemon does around it.
THEOREM ChainInvariant == Spec => []ChainInv
<1>1. Init => ChainInv BY ChainInitInv DEF Init
<1>2. ChainInv /\ [Next]_vars => ChainInv'
    <2> SUFFICES ASSUME ChainInv, [Next]_vars PROVE ChainInv'
        OBVIOUS
    <2>0. ASSUME UNCHANGED <<chain, cancel>> PROVE ChainInv'
        BY <2>0 DEF chain, health, generator, ChainInv, ChainTypeOK,
            CurrentNamed, DeferredOnce, NoneForgotten, GivesUpOnlyWhenAllFailed
    <2>1. CASE Stop BY <2>0, <2>1 DEF Stop
    <2>2. CASE BeginPass BY <2>0, <2>2 DEF BeginPass
    <2>3. CASE PassSucceeds
        <3>1. CASE cancel
            BY <2>0, <2>3, <3>1 DEF PassSucceeds, chain
        <3>2. CASE ~cancel
            BY <2>3, <3>2, FreshInv DEF PassSucceeds
        <3> QED BY <3>1, <3>2
    <2>4. CASE PassInterrupted BY <2>0, <2>4 DEF PassInterrupted
    <2>5. CASE PassFails BY <2>0, <2>5 DEF PassFails
    <2>6. CASE BackoffEnds BY <2>0, <2>6 DEF BackoffEnds
    <2>7. CASE ScheduleDue BY <2>7, FreshInv DEF ScheduleDue, Return
    <2>8. CASE BeginSync BY <2>0, <2>8 DEF BeginSync
    <2>9. CASE SyncSucceeds
        <3>1. CASE Ended
            BY <2>9, <3>1, FreshInv DEF SyncSucceeds, Return
        <3>2. CASE ~Ended
            BY <2>0, <2>9, <3>2 DEF SyncSucceeds, chain
        <3> QED BY <3>1, <3>2
    <2>10. CASE SyncFails BY <2>10, FreshInv DEF SyncFails, Return
    <2>11. CASE Disconnected BY <2>11, FreshInv DEF Disconnected, Return
    <2>12. CASE Wait BY <2>0, <2>12 DEF Wait
    <2>13. CASE Wake BY <2>0, <2>13 DEF Wake
    <2>14. CASE Notified BY <2>0, <2>14 DEF Notified
    <2>15. CASE Tick BY <2>0, <2>15 DEF Tick
    <2>16. CASE TickInSync BY <2>0, <2>16 DEF TickInSync
    <2>17. CASE Ages BY <2>17, AgesInv
    <2>18. CASE Cancel
        BY <2>18 DEF Cancel, chain, health, generator, ChainInv, ChainTypeOK,
            CurrentNamed, DeferredOnce, NoneForgotten, GivesUpOnlyWhenAllFailed
    <2>19. CASE StreamChooses BY <2>19, ChooseInv DEF StreamChooses
    <2>20. CASE StreamEnds BY <2>20, EndInv DEF StreamEnds
    <2>21. ASSUME NEW c \in Change, Happens(c) PROVE ChainInv'
        BY <2>0, <2>21 DEF Happens
    <2>22. CASE UNCHANGED vars BY <2>0, <2>22 DEF vars
    <2> QED
        BY <2>1, <2>2, <2>3, <2>4, <2>5, <2>6, <2>7, <2>8, <2>9, <2>10, <2>11,
           <2>12, <2>13, <2>14, <2>15, <2>16, <2>17, <2>18, <2>19, <2>20, <2>21,
           <2>22 DEF Next, Step
<1> QED BY <1>1, <1>2, PTL DEF Spec

\* The daemon goes without notifications only after a subscription by every
\* supported transport has failed (events 155-247).
THEOREM GivesUpLast == Spec => []GivesUpOnlyWhenAllFailed
<1>1. ChainInv => GivesUpOnlyWhenAllFailed BY DEF ChainInv
<1> QED BY <1>1, ChainInvariant, PTL

-----------------------------------------------------------------------------
(* The types of the loop.                                                   *)

LoopTypeOK ==
    /\ pc \in {"start", "pass", "check", "wait", "sync", "backoff", "stopped"}
    /\ refresh \in BOOLEAN /\ pending \in BOOLEAN
    /\ backoff \in ReconnectMin .. ReconnectMax
    /\ fails \in 0 .. MaxFails
    /\ waited \in Nat /\ idle \in Nat /\ linger \in Nat

MailTypeOK ==
    /\ fed \subseteq account /\ account \subseteq Change
    /\ held \subseteq account /\ reading \subseteq account

DeadlineTypeOK ==
    /\ DOMAIN deadline \subseteq Deadline
    /\ \A d \in DOMAIN deadline : deadline[d] \in Nat

\* A doubled delay stays within the bounds (run, 171 and 207).
LEMMA BackoffTyped ==
    ASSUME backoff \in ReconnectMin .. ReconnectMax, BackoffEnds
    PROVE  backoff' \in ReconnectMin .. ReconnectMax
<1>1. backoff \in Nat /\ ReconnectMin \in Nat /\ ReconnectMax \in Nat
    BY DelayAssumption
<1>2. CASE 2 * backoff < ReconnectMax
    BY <1>1, <1>2, DelayAssumption DEF BackoffEnds
<1>3. CASE ~(2 * backoff < ReconnectMax)
    BY <1>1, <1>3, DelayAssumption DEF BackoffEnds
<1> QED BY <1>2, <1>3

\* Every step keeps the types of the loop's own variables and clocks.
LEMMA LoopTyped == ASSUME LoopTypeOK, [Next]_vars PROVE LoopTypeOK'
<1> USE DEF LoopTypeOK
<1>1. CASE BackoffEnds BY <1>1, BackoffTyped DEF BackoffEnds, clock
<1>2. CASE PassSucceeds
    BY <1>2, DelayAssumption DEF PassSucceeds
<1>3. CASE PassFails \/ SyncFails
    <2>1. fails' \in 0 .. MaxFails
        BY <1>3, DelayAssumption DEF PassFails, SyncFails
    <2>2. pc' \in {"start", "backoff"} /\ pending' \in BOOLEAN
        BY <1>3 DEF PassFails, SyncFails, Return
    <2>3. UNCHANGED <<refresh, backoff, waited, idle, linger>>
        BY <1>3 DEF PassFails, SyncFails, clock
    <2> QED BY <2>1, <2>2, <2>3
<1>4. CASE Stop \/ BeginPass \/ PassInterrupted \/ ScheduleDue \/ Disconnected
    BY <1>4 DEF Stop, BeginPass, PassInterrupted, ScheduleDue, Disconnected,
        Return, clock
<1>5. CASE BeginSync \/ Wait \/ Wake \/ Notified
    BY <1>5 DEF BeginSync, Wait, Wake, Notified, clock
<1>6. CASE SyncSucceeds BY <1>6 DEF SyncSucceeds, Return
<1>7. CASE Tick BY <1>7 DEF Tick
<1>8. CASE TickInSync \/ Ages \/ Cancel \/ StreamChooses \/ StreamEnds
    BY <1>8 DEF TickInSync, Ages, Cancel, StreamChooses, StreamEnds, loop, clock
<1>9. CASE \E c \in Change : Happens(c) BY <1>9 DEF Happens, loop, clock
<1>10. CASE UNCHANGED vars BY <1>10 DEF vars, loop, clock
<1> QED
    BY <1>1, <1>2, <1>3, <1>4, <1>5, <1>6, <1>7, <1>8, <1>9, <1>10 DEF Next, Step

\* Every step keeps what is archived or read among what has happened.
LEMMA MailTyped == ASSUME MailTypeOK, [Next]_vars PROVE MailTypeOK'
<1> USE DEF MailTypeOK
<1>1. CASE BeginPass BY <1>1 DEF BeginPass
<1>2. CASE PassSucceeds BY <1>2 DEF PassSucceeds
<1>3. CASE PassInterrupted \/ PassFails \/ SyncFails
    BY <1>3 DEF PassInterrupted, PassFails, SyncFails
<1>4. CASE BeginSync BY <1>4 DEF BeginSync
<1>5. CASE SyncSucceeds BY <1>5 DEF SyncSucceeds
<1>6. CASE Stop \/ BackoffEnds \/ ScheduleDue \/ Disconnected \/ Wait \/ Wake
           \/ Notified
    BY <1>6 DEF Stop, BackoffEnds, ScheduleDue, Disconnected, Wait, Wake, Notified,
        mail
<1>7. CASE Tick \/ TickInSync \/ Ages \/ Cancel \/ StreamChooses \/ StreamEnds
    BY <1>7 DEF Tick, TickInSync, Ages, Cancel, StreamChooses, StreamEnds, mail
<1>8. CASE \E c \in Change : Happens(c) BY <1>8 DEF Happens
<1>9. CASE UNCHANGED vars BY <1>9 DEF vars, mail
<1> QED
    BY <1>1, <1>2, <1>3, <1>4, <1>5, <1>6, <1>7, <1>8, <1>9 DEF Next, Step

\* Setting a deadline, or letting time pass, keeps them natural numbers.
LEMMA DeadlineTyped == ASSUME DeadlineTypeOK, [Next]_vars PROVE DeadlineTypeOK'
<1> USE DEF DeadlineTypeOK, Deadline
<1>1. ASSUME deadline' = << >> PROVE DeadlineTypeOK' BY <1>1
<1>2. CASE PassSucceeds
    <2>1. CASE cancel BY <1>2, <2>1 DEF PassSucceeds
    <2>2. CASE ~cancel
        <3>1. PICK at \in NextSchedule : deadline' = Arm("poll", SafetyPoll, at)
            BY <1>2, <2>2 DEF PassSucceeds
        <3>2. /\ DOMAIN at \subseteq {"schedule"}
              /\ \A d \in DOMAIN at : at[d] \in Nat
            BY <3>1, DelayAssumption DEF NextSchedule, Arm
        <3> QED BY <3>1, <3>2, DelayAssumption DEF Arm
    <2> QED BY <2>1, <2>2
<1>3. CASE BeginSync BY <1>3, DelayAssumption DEF BeginSync, Arm
<1>4. CASE Notified BY <1>4, DelayAssumption DEF Notified, Arm
<1>5. CASE SyncSucceeds
    <2>1. CASE Ended BY <1>1, <1>5, <2>1 DEF SyncSucceeds, Return
    <2>2. CASE ~Ended BY <1>5, <2>2 DEF SyncSucceeds, Clear
    <2> QED BY <2>1, <2>2
<1>6. CASE Tick \/ TickInSync BY <1>6 DEF Tick, TickInSync, Elapse, Left
<1>7. CASE ScheduleDue \/ SyncFails \/ Disconnected
    BY <1>1, <1>7 DEF ScheduleDue, SyncFails, Disconnected, Return
<1>8. CASE Stop \/ BeginPass \/ PassInterrupted \/ PassFails \/ BackoffEnds
    BY <1>8 DEF Stop, BeginPass, PassInterrupted, PassFails, BackoffEnds
<1>9. CASE Wait \/ Wake \/ Ages \/ Cancel \/ StreamChooses \/ StreamEnds
    BY <1>9 DEF Wait, Wake, Ages, Cancel, StreamChooses, StreamEnds, loop
<1>10. CASE \E c \in Change : Happens(c) BY <1>10 DEF Happens, loop
<1>11. CASE UNCHANGED vars BY <1>11 DEF vars, loop
<1> QED
    BY <1>2, <1>3, <1>4, <1>5, <1>6, <1>7, <1>8, <1>9, <1>10, <1>11 DEF Next, Step

\* Every variable of the daemon and its chain keeps its type.
THEOREM DaemonTypes == Spec => []TypeOK
<1> DEFINE Typed == LoopTypeOK /\ MailTypeOK /\ DeadlineTypeOK
<1>1. Init => Typed
    <2> SUFFICES ASSUME Init PROVE Typed
        OBVIOUS
    <2>1. ReconnectMin \in ReconnectMin .. ReconnectMax /\ 0 \in 0 .. MaxFails
        BY DelayAssumption
    <2>2. LoopTypeOK BY <2>1 DEF Init, LoopTypeOK
    <2>3. MailTypeOK /\ DeadlineTypeOK
        BY DEF Init, MailTypeOK, DeadlineTypeOK
    <2> QED BY <2>2, <2>3
<1>2. Typed /\ [Next]_vars => Typed'
    BY LoopTyped, MailTyped, DeadlineTyped
<1>3. Typed /\ ChainInv => TypeOK
    BY DEF ChainInv, TypeOK, LoopTypeOK, MailTypeOK, DeadlineTypeOK
<1> HIDE DEF Typed
<1> QED BY <1>1, <1>2, <1>3, ChainInvariant, PTL DEF Spec

-----------------------------------------------------------------------------
(* Deadlines.                                                               *)

Streaming == pc \in {"check", "wait", "sync"}
Between == pc \in {"start", "pass", "backoff"}

\* A batch deadline is set exactly while a notification is pending, and what
\* is left of it covers the time that the notification may still wait.
BatchInTime ==
    IF pending
    THEN "batch" \in DOMAIN deadline /\ waited + deadline["batch"] <= MaxBatchDelay
    ELSE "batch" \notin DOMAIN deadline /\ waited = 0

\* The next safety poll is always set; a sync in progress may have put it off
\* by a whole period already.
PollInTime ==
    /\ "poll" \in DOMAIN deadline /\ deadline["poll"] <= SafetyPoll
    /\ pc # "sync" => idle + deadline["poll"] <= SafetyPoll

TimeInv ==
    /\ waited \in Nat /\ idle \in Nat
    /\ Between => ~pending
    /\ Streaming =>
        /\ \A d \in DOMAIN deadline : deadline[d] \in Nat
        /\ BatchInTime /\ PollInTime

\* A second brings no deadline that is not yet due below zero.
LEMMA ElapseDown ==
    ASSUME Elapse, NEW d \in DOMAIN deadline, deadline[d] \in Nat
    PROVE  /\ d \in DOMAIN deadline'
           /\ deadline'[d] \in Nat /\ deadline'[d] <= deadline[d]
           /\ deadline[d] # 0 => deadline'[d] = deadline[d] - 1
BY DEF Elapse, Left

\* A new stream phase has all its time left (stream_phase 234-238).
LEMMA OpenInTime ==
    ASSUME TimeInv, PassSucceeds
    PROVE  TimeInv'
<1>1. waited' = 0 /\ idle' = 0 /\ ~pending /\ pending' = pending
    BY DEF PassSucceeds, TimeInv, Between
<1>2. CASE cancel BY <1>1, <1>2 DEF PassSucceeds, TimeInv, Streaming, Between
<1>3. CASE ~cancel
    <2>1. pc' = "check" BY <1>3 DEF PassSucceeds
    <2>2. PICK at \in NextSchedule : deadline' = Arm("poll", SafetyPoll, at)
        BY <1>3 DEF PassSucceeds
    <2>3. /\ DOMAIN at \subseteq {"schedule"}
          /\ \A d \in DOMAIN at : at[d] \in Nat
        BY <2>2, DelayAssumption DEF NextSchedule, Arm
    <2>4. /\ DOMAIN deadline' = {"poll"} \cup DOMAIN at
          /\ deadline'["poll"] = SafetyPoll
          /\ \A d \in DOMAIN at : deadline'[d] \in Nat
        BY <2>2, <2>3, DelayAssumption DEF Arm
    <2> QED
        BY <1>1, <2>1, <2>3, <2>4, DelayAssumption
           DEF TimeInv, Streaming, Between, BatchInTime, PollInTime
<1> QED BY <1>2, <1>3

\* A phase that returns leaves nothing pending (stream_phase).
LEMMA ReturnInTime ==
    ASSUME TimeInv, NEW where \in {"start", "backoff"}, Return(where),
           waited' \in Nat, idle' \in Nat
    PROVE  TimeInv'
BY DEF Return, TimeInv, Streaming, Between

\* A step that touches neither deadlines nor clocks, and does not end a sync.
LEMMA StillInTime ==
    ASSUME TimeInv, UNCHANGED <<pending, deadline, waited, idle>>,
           \/ Between /\ Between'
           \/ Streaming /\ pc # "sync" /\ Streaming'
           \/ pc' = pc \/ pc' = "stopped"
    PROVE  TimeInv'
BY DEF TimeInv, Streaming, Between, BatchInTime, PollInTime

\* A sync begins: if the poll is due, the next is a whole period away.
LEMMA BeginInTime == ASSUME TimeInv, BeginSync PROVE TimeInv'
<1>1. /\ pc = "check" /\ pc' = "sync" /\ UNCHANGED <<pending, waited, idle>>
    BY DEF BeginSync, clock
<1>2. CASE ~Due("poll")
    <2>1. deadline' = deadline BY <1>2 DEF BeginSync
    <2> QED BY <1>1, <2>1 DEF TimeInv, Streaming, Between, BatchInTime, PollInTime
<1>3. CASE Due("poll")
    <2>1. deadline' = Arm("poll", SafetyPoll, deadline) BY <1>3 DEF BeginSync
    <2>2. /\ DOMAIN deadline' = DOMAIN deadline \cup {"poll"}
          /\ deadline'["poll"] = SafetyPoll
          /\ \A d \in DOMAIN deadline \ {"poll"} : deadline'[d] = deadline[d]
        BY <2>1 DEF Arm
    <2> QED
        BY <1>1, <2>2, DelayAssumption
           DEF TimeInv, Streaming, Between, BatchInTime, PollInTime
<1> QED BY <1>2, <1>3

\* A sync that succeeds answers what was pending (stream_phase 302-307).
LEMMA SyncedInTime == ASSUME TimeInv, SyncSucceeds PROVE TimeInv'
<1>1. waited' = 0 /\ idle' = 0 /\ pc = "sync" BY DEF SyncSucceeds
<1>2. CASE Ended
    BY <1>1, <1>2, ReturnInTime DEF SyncSucceeds
<1>3. CASE ~Ended
    <2>1. /\ pc' = "wait" /\ pending' = FALSE
          /\ deadline' = [d \in DOMAIN deadline \ {"quiet", "batch"} |-> deadline[d]]
        BY <1>3 DEF SyncSucceeds, Clear
    <2> QED
        BY <1>1, <2>1 DEF TimeInv, Streaming, Between, BatchInTime, PollInTime
<1> QED BY <1>2, <1>3

\* A notification sets the batch deadline only if none is pending
\* (stream_phase 342-346).
LEMMA NotifiedInTime == ASSUME TimeInv, Notified PROVE TimeInv'
<1>1. /\ pc = "wait" /\ pc' = "check" /\ pending' = TRUE
      /\ UNCHANGED <<waited, idle>>
      /\ deadline' = Arm("quiet", QuietPeriod,
                         IF "batch" \in DOMAIN deadline THEN deadline
                         ELSE Arm("batch", MaxBatchDelay, deadline))
    BY DEF Notified, clock
<1>2. /\ DOMAIN deadline' = DOMAIN deadline \cup {"quiet", "batch"}
      /\ deadline'["quiet"] = QuietPeriod
      /\ "batch" \notin DOMAIN deadline => deadline'["batch"] = MaxBatchDelay
      /\ \A d \in DOMAIN deadline \ {"quiet"} : deadline'[d] = deadline[d]
    BY <1>1 DEF Arm
<1>3. \A d \in DOMAIN deadline' : deadline'[d] \in Nat
    BY <1>1, <1>2, DelayAssumption DEF TimeInv, Streaming, Between
<1> QED
    BY <1>1, <1>2, <1>3, DelayAssumption
       DEF TimeInv, Streaming, Between, BatchInTime, PollInTime

\* A second that passes while the loop waits is one less to each deadline, and
\* passes only if none is due (stream_phase 323-329).
LEMMA TickInTime == ASSUME TimeInv, Tick PROVE TimeInv'
<1>1. /\ pc = "wait" /\ pc' = "check" /\ UNCHANGED pending /\ Elapse
      /\ waited' = (IF pending THEN waited + 1 ELSE 0) /\ idle' = idle + 1
      /\ \A d \in DOMAIN deadline : deadline[d] # 0
    BY DEF Tick, SomeDue, Due
<1>2. \A d \in DOMAIN deadline :
        /\ d \in DOMAIN deadline' /\ deadline'[d] \in Nat
        /\ deadline[d] \in Nat /\ deadline'[d] = deadline[d] - 1
    BY <1>1, ElapseDown DEF TimeInv, Streaming, Between
<1>3. DOMAIN deadline' = DOMAIN deadline BY <1>1 DEF Elapse
<1>4. BatchInTime' BY <1>1, <1>2, <1>3 DEF TimeInv, Streaming, Between, BatchInTime
<1>5. PollInTime'
    BY <1>1, <1>2, <1>3, DelayAssumption DEF TimeInv, Streaming, Between, PollInTime
<1> QED BY <1>1, <1>2, <1>3, <1>4, <1>5 DEF TimeInv, Streaming, Between

\* During a sync, deadlines run down but the clocks of the loop stand still.
LEMMA SyncTickInTime == ASSUME TimeInv, TickInSync PROVE TimeInv'
<1>1. /\ pc = "sync" /\ Elapse /\ UNCHANGED <<pc, pending, waited, idle>>
    BY DEF TickInSync, clock
<1>2. \A d \in DOMAIN deadline :
        /\ d \in DOMAIN deadline' /\ deadline'[d] \in Nat
        /\ deadline[d] \in Nat /\ deadline'[d] <= deadline[d]
    BY <1>1, ElapseDown DEF TimeInv, Streaming, Between
<1>3. DOMAIN deadline' = DOMAIN deadline BY <1>1 DEF Elapse
<1> QED
    BY <1>1, <1>2, <1>3, DelayAssumption
       DEF TimeInv, Streaming, Between, BatchInTime, PollInTime

\* No notification and no safety poll is late, whatever happens meanwhile.
THEOREM TimeInvariant == Spec => []TimeInv
<1>1. Init => TimeInv BY DEF Init, TimeInv, Streaming, Between
<1>2. TimeInv /\ [Next]_vars => TimeInv'
    <2> SUFFICES ASSUME TimeInv, [Next]_vars PROVE TimeInv'
        OBVIOUS
    <2>1. CASE Stop BY <2>1, StillInTime DEF Stop, clock
    <2>2. CASE BeginPass BY <2>2, StillInTime DEF BeginPass, clock, Between
    <2>3. CASE PassSucceeds BY <2>3, OpenInTime
    <2>4. CASE PassInterrupted BY <2>4, StillInTime DEF PassInterrupted, clock
    <2>5. CASE PassFails BY <2>5, StillInTime DEF PassFails, clock, Between
    <2>6. CASE BackoffEnds BY <2>6, StillInTime DEF BackoffEnds, clock, Between
    <2>7. CASE ScheduleDue
        BY <2>7, ReturnInTime DEF ScheduleDue, clock, TimeInv
    <2>8. CASE BeginSync BY <2>8, BeginInTime
    <2>9. CASE SyncSucceeds BY <2>9, SyncedInTime
    <2>10. CASE SyncFails
        BY <2>10, ReturnInTime DEF SyncFails, clock, TimeInv
    <2>11. CASE Disconnected
        BY <2>11, ReturnInTime DEF Disconnected, clock, TimeInv
    <2>12. CASE Wait BY <2>12, StillInTime DEF Wait, clock, Streaming
    <2>13. CASE Wake BY <2>13, StillInTime DEF Wake, clock, Streaming
    <2>14. CASE Notified BY <2>14, NotifiedInTime
    <2>15. CASE Tick BY <2>15, TickInTime
    <2>16. CASE TickInSync BY <2>16, SyncTickInTime
    <2>17. CASE Ages BY <2>17, StillInTime DEF Ages, loop, clock
    <2>18. CASE Cancel BY <2>18, StillInTime DEF Cancel, loop, clock
    <2>19. CASE StreamChooses
        BY <2>19, StillInTime DEF StreamChooses, loop, clock
    <2>20. CASE StreamEnds BY <2>20, StillInTime DEF StreamEnds, clock, Streaming
    <2>21. ASSUME NEW c \in Change, Happens(c) PROVE TimeInv'
        BY <2>21, StillInTime DEF Happens, loop, clock
    <2>22. CASE UNCHANGED vars BY <2>22, StillInTime DEF vars, loop, clock
    <2> QED
        BY <2>1, <2>2, <2>3, <2>4, <2>5, <2>6, <2>7, <2>8, <2>9, <2>10, <2>11,
           <2>12, <2>13, <2>14, <2>15, <2>16, <2>17, <2>18, <2>19, <2>20, <2>21,
           <2>22 DEF Next, Step
<1> QED BY <1>1, <1>2, PTL DEF Spec

\* While the loop waits, no received notification has waited longer than the
\* batch deadline, and no safety poll is overdue (stream_phase 322-346).
THEOREM AlwaysPrompt == Spec => []Prompt
<1>1. TimeInv => Prompt
    BY DelayAssumption
       DEF TimeInv, Streaming, Between, BatchInTime, PollInTime, Prompt
<1> QED BY <1>1, TimeInvariant, PTL

-----------------------------------------------------------------------------
\* The second after a shutdown request is the last one the loop waits for.
StopInv ==
    /\ linger \in {0, 1}
    /\ linger = 1 => cancel /\ pc \in {"check", "stopped"}

\* A shutdown is seen within one poll of the flag, short of the pass or sync in
\* progress (stream_phase 242, 328).
THEOREM AlwaysStopsPromptly == Spec => []StopsPromptly
<1>1. Init => StopInv BY DEF Init, StopInv
<1>2. StopInv /\ [Next]_vars => StopInv'
    <2> SUFFICES ASSUME StopInv, [Next]_vars PROVE StopInv'
        OBVIOUS
    <2> USE DEF StopInv
    <2>1. CASE Tick BY <2>1 DEF Tick
    <2>2. CASE Cancel BY <2>2 DEF Cancel, loop, clock
    <2>3. CASE Stop BY <2>3 DEF Stop, clock
    <2>4. CASE Step /\ ~Stop
        <3>1. UNCHANGED <<linger, cancel>>
            BY <2>4 DEF Step, BeginPass, PassSucceeds, PassInterrupted, PassFails,
                BackoffEnds, ScheduleDue, BeginSync, SyncSucceeds, SyncFails,
                Disconnected, Wait, Wake, Notified, clock
        <3>2. ~(cancel /\ pc \in {"check", "stopped"})
            BY <2>4 DEF Step, BeginPass, PassSucceeds, PassInterrupted, PassFails,
                BackoffEnds, ScheduleDue, BeginSync, SyncSucceeds, SyncFails,
                Disconnected, Wait, Wake, Notified, NothingDue
        <3> QED BY <3>1, <3>2
    <2>5. CASE TickInSync \/ Ages \/ StreamChooses
        BY <2>5 DEF TickInSync, Ages, StreamChooses, loop, clock
    <2>6. CASE StreamEnds BY <2>6 DEF StreamEnds, clock
    <2>7. CASE \E c \in Change : Happens(c) BY <2>7 DEF Happens, loop, clock
    <2>8. CASE UNCHANGED vars BY <2>8 DEF vars, loop, clock
    <2> QED BY <2>1, <2>2, <2>3, <2>4, <2>5, <2>6, <2>7, <2>8 DEF Next
<1>3. StopInv => StopsPromptly BY DEF StopInv, StopsPromptly
<1> QED BY <1>1, <1>2, <1>3, PTL DEF Spec
==============================================================================
