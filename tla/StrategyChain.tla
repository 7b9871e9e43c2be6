----------------------------- MODULE StrategyChain -----------------------------
(***************************************************************************)
(* How the JMAP source obtains a stream of change notifications            *)
(* (sources/jmap/events/mod.rs): it tries its transports in order of       *)
(* preference, setting aside the unsupported and those that failed         *)
(* lately.  Transports are numbered in that order.  The stream is a        *)
(* generator: it advances only while its consumer, the daemon, polls it.   *)
(***************************************************************************)
EXTENDS Naturals, FiniteSets

CONSTANTS
    N,                \* StrategyChain::strategies.len()
    Supported,        \* the strategies the server supports
    DemotionThreshold,
    MaxDrops          \* bound: subscriptions that fail or end

Strategy == 1 .. N

ASSUME ChainAssumption ==
    /\ N \in Nat /\ Supported \subseteq Strategy
    /\ DemotionThreshold \in Nat \ {0} /\ MaxDrops \in Nat

VARIABLES
    strikes,  \* StrategyHealth::consecutive_failures
    cooling,  \* strategies whose cooldown_until is not over
    phase,    \* where the generator is
    again,    \* in the second of its two loops
    todo,     \* strategies still to come in this loop
    deferred, \* cooling_down
    current,  \* index; 0 if none
    healthy,  \* the stream is older than HEALTHY_STREAM_MIN
    tried,    \* history: strategies whose subscription failed since it began
    drops,    \* failures so far
    cancel    \* the daemon's cancel flag

health == <<strikes, cooling>>
generator == <<phase, again, todo, deferred, current, healthy, tried>>
chain == <<health, generator, drops>>

ChainTypeOK ==
    /\ strikes \in [Strategy -> 0 .. (DemotionThreshold - 1)]
    /\ cooling \subseteq Strategy
    /\ phase \in {"closed", "choosing", "trying", "open", "over", "gave up"}
    /\ again \in BOOLEAN /\ healthy \in BOOLEAN /\ cancel \in BOOLEAN
    /\ todo \subseteq Strategy /\ deferred \subseteq Strategy
    /\ tried \subseteq Strategy
    /\ current \in 0 .. N
    /\ drops \in 0 .. MaxDrops

\* The generator is dropped, or not yet made.
Closed ==
    /\ phase = "closed" /\ again = FALSE /\ healthy = FALSE
    /\ todo = {} /\ deferred = {} /\ tried = {} /\ current = 0

ChainInit ==
    /\ strikes = [s \in Strategy |-> 0]
    /\ cooling = {} /\ drops = 0 /\ cancel = FALSE
    /\ Closed

\* The consumer is done with the stream.  Nothing is accounted to its strategy.
Close ==
    /\ phase' = "closed" /\ again' = FALSE /\ healthy' = FALSE
    /\ todo' = {} /\ deferred' = {} /\ tried' = {} /\ current' = 0

\* events
Open ==
    /\ phase' = "choosing" /\ again' = FALSE /\ healthy' = FALSE
    /\ todo' = Strategy /\ deferred' = {} /\ tried' = {} /\ current' = 0

-----------------------------------------------------------------------------
(* Accounting.                                                              *)

Strike(s) ==
    IF strikes[s] + 1 >= DemotionThreshold
    THEN strikes' = [strikes EXCEPT ![s] = 0] /\ cooling' = cooling \cup {s}
    ELSE strikes' = [strikes EXCEPT ![s] = @ + 1] /\ UNCHANGED cooling

StreamEnded ==
    IF healthy
    THEN /\ strikes' = [strikes EXCEPT ![current] = 0]
         /\ cooling' = cooling \ {current}
    ELSE Strike(current)

-----------------------------------------------------------------------------
(* Choosing a strategy.                                                     *)

Preferred(s) == s \in todo /\ \A t \in todo : s <= t

\* The flag is read before each strategy, in either loop.
Consider(s) == phase = "choosing" /\ Preferred(s) /\ ~cancel

Skip(s) ==
    /\ Consider(s) /\ ~again /\ s \notin Supported
    /\ todo' = todo \ {s}
    /\ UNCHANGED <<health, phase, again, deferred, current, healthy, tried, drops>>

SetAside(s) ==
    /\ Consider(s) /\ ~again /\ s \in Supported \cap cooling
    /\ todo' = todo \ {s} /\ deferred' = deferred \cup {s}
    /\ UNCHANGED <<health, phase, again, current, healthy, tried, drops>>

Try(s) ==
    /\ Consider(s) /\ (again \/ s \in Supported \ cooling)
    /\ phase' = "trying" /\ current' = s /\ todo' = todo \ {s}
    /\ UNCHANGED <<health, again, deferred, healthy, tried, drops>>

Subscribed ==
    /\ phase = "trying"
    /\ phase' = "open"
    /\ UNCHANGED <<health, again, todo, deferred, current, healthy, tried, drops>>

\* The subscription fails or times out.
Refused ==
    /\ phase = "trying" /\ drops < MaxDrops
    /\ Strike(current)
    /\ tried' = tried \cup {current} /\ drops' = drops + 1
    /\ phase' = "choosing" /\ current' = 0
    /\ UNCHANGED <<again, todo, deferred, healthy>>

\* (mutant: the strategies that cool down are not retried.)
NoSecondLoop ==
    /\ phase = "choosing" /\ todo = {} /\ ~again
    /\ again' = TRUE /\ todo' = {} /\ deferred' = {}
    /\ UNCHANGED <<health, phase, current, healthy, tried, drops>>

\* None of the others worked: those that cool down are retried anyway.
SecondLoop ==
    /\ phase = "choosing" /\ todo = {} /\ ~again
    /\ again' = TRUE /\ todo' = deferred /\ deferred' = {}
    /\ UNCHANGED <<health, phase, current, healthy, tried, drops>>

Choose ==
    \/ Subscribed \/ Refused \/ SecondLoop
    \/ \E s \in Strategy : Skip(s) \/ SetAside(s) \/ Try(s)

-----------------------------------------------------------------------------
(* The ends of the stream.                                                  *)

Over(how) ==
    /\ phase' = how
    /\ UNCHANGED <<again, todo, deferred, current, healthy, tried>>

\* Every strategy failed, or none is supported: the last error is the stream.
GiveUp ==
    /\ phase = "choosing" /\ todo = {} /\ again
    /\ Over("gave up")
    /\ UNCHANGED <<health, drops>>

\* The cancel flag is seen: before a strategy, or with a notification.
Cut ==
    /\ cancel
    /\ phase = "open" \/ (phase = "choosing" /\ todo # {})
    /\ Over("over")
    /\ UNCHANGED <<health, drops>>

\* The transport's stream ends, or yields an error.
Ends ==
    /\ phase = "open" /\ drops < MaxDrops
    /\ StreamEnded
    /\ drops' = drops + 1
    /\ Over("over")

End == GiveUp \/ Cut \/ Ends

Ended == phase \in {"over", "gave up"}

-----------------------------------------------------------------------------
(* Time.                                                                    *)

LivesLong ==
    /\ phase = "open" /\ ~healthy
    /\ healthy' = TRUE
    /\ UNCHANGED <<health, phase, again, todo, deferred, current, tried, drops>>

CooldownEnds ==
    /\ \E s \in cooling : cooling' = cooling \ {s}
    /\ UNCHANGED <<strikes, generator, drops>>

-----------------------------------------------------------------------------
\* The chain gives up on notifications only after a subscription by every
\* strategy the server supports has failed, however many were cooling down
\* when it began and whenever their cooldowns ended (events 155-247).
GivesUpOnlyWhenAllFailed == phase = "gave up" => Supported \subseteq tried
=============================================================================
