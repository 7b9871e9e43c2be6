----------------------------- MODULE CircuitBreaker -----------------------------
(***************************************************************************)
(* The calls that one mail client makes to its server: each is retried     *)
(* with backoff and all of them share one circuit breaker                  *)
(* (helpers/resilience.rs).  A call is made once; its attempts may overlap *)
(* those of any other call, and its caller may drop it while it waits (the *)
(* downloads of a batch are dropped when one of them fails, engine/mod.rs  *)
(* fetch_raw).                                                             *)
(***************************************************************************)
EXTENDS Naturals

CONSTANTS
    Call,        \* the calls that may be in progress together
    Threshold,   \* CircuitBreaker::threshold
    MaxAttempts, \* RetryPolicy::max_attempts
    Outcome,     \* how the operation of an attempt may end
    Drops        \* whether callers drop calls

\* By default 8 attempts and 10 failures.
ASSUME LimitsAssumption ==
    MaxAttempts \in Nat \ {0, 1} /\ Threshold \in Nat /\ Threshold > MaxAttempts
ASSUME OutcomeAssumption ==
    Outcome \subseteq {"ok", "transient", "fatal"} /\ Drops \in BOOLEAN

VARIABLES
    state,   \* BreakerState; "expired" is Open after its deadline
    streak,  \* consecutive_failures; 0 unless the breaker is closed
    pc,      \* where each call is
    attempt  \* which attempt it is at; above 1 it has a last_error

vars == <<state, streak, pc, attempt>>

Finished == {"ok", "failed", "circuit open", "dropped"}

TypeOK ==
    /\ state \in {"closed", "open", "expired", "half open"}
    /\ streak \in 0 .. (Threshold - 1)
    /\ pc \in [Call -> {"asking", "running", "asleep"} \cup Finished]
    /\ attempt \in [Call -> 1 .. MaxAttempts]

Init ==
    /\ state = "closed" /\ streak = 0
    /\ pc = [c \in Call |-> "asking"]
    /\ attempt = [c \in Call |-> 1]

Goto(c, where) == pc' = [pc EXCEPT ![c] = where]

-----------------------------------------------------------------------------
(* The breaker.                                                             *)

Becomes(where) == state' = where /\ streak' = 0

RecordSuccess == Becomes("closed")

Counted == state = "closed" /\ streak' = streak + 1 /\ UNCHANGED state
Ignored == state \in {"open", "expired"} /\ UNCHANGED <<state, streak>>

\* (mutant: the breaker opens one failure early.)
RecordFailureEarly ==
    \/ streak + 2 < Threshold /\ Counted
    \/ Ignored
    \/ state = "half open" /\ Becomes("open")
    \/ state = "closed" /\ streak + 2 >= Threshold /\ Becomes("open")

\* (mutant: the breaker opens one failure late.)
RecordFailureLate ==
    \/ streak < Threshold /\ Counted
    \/ Ignored
    \/ state = "half open" /\ Becomes("open")
    \/ state = "closed" /\ streak >= Threshold /\ Becomes("open")

RecordFailure ==
    \/ streak + 1 < Threshold /\ Counted
    \/ Ignored
    \/ state = "half open" /\ Becomes("open")
    \/ state = "closed" /\ streak + 1 >= Threshold /\ Becomes("open")

\* The cooldown of an open breaker passes.
CoolDown ==
    /\ state = "open"
    /\ state' = "expired"
    /\ UNCHANGED <<streak, pc, attempt>>

-----------------------------------------------------------------------------
(* retry: each attempt asks the breaker first, and reports back.            *)

Admit(c) ==
    /\ pc[c] = "asking" /\ state = "closed"
    /\ Goto(c, "running")
    /\ UNCHANGED <<state, streak, attempt>>

\* The cooldown has passed: this attempt is the probe.
AdmitProbe(c) ==
    /\ pc[c] = "asking" /\ state = "expired"
    /\ state' = "half open"
    /\ Goto(c, "running")
    /\ UNCHANGED <<streak, attempt>>

\* (mutant: a rejected call waits for the breaker.)
RejectByWaiting(c) ==
    /\ pc[c] = "asking" /\ state \in {"open", "half open"}
    /\ Goto(c, "asking")
    /\ UNCHANGED <<state, streak, attempt>>

\* The breaker rejects: the call fails with its own last error, if it has one.
Reject(c) ==
    /\ pc[c] = "asking" /\ state \in {"open", "half open"}
    /\ Goto(c, IF attempt[c] > 1 THEN "failed" ELSE "circuit open")
    /\ UNCHANGED <<state, streak, attempt>>

Succeed(c) ==
    /\ pc[c] = "running" /\ "ok" \in Outcome
    /\ RecordSuccess
    /\ Goto(c, "ok")
    /\ UNCHANGED attempt

FailTransiently(c) ==
    /\ pc[c] = "running" /\ "transient" \in Outcome
    /\ RecordFailure
    /\ IF attempt[c] < MaxAttempts
       THEN /\ attempt' = [attempt EXCEPT ![c] = @ + 1]
            /\ Goto(c, "asleep")
       ELSE Goto(c, "failed") /\ UNCHANGED attempt

\* An error that says nothing of the server's health is not reported.
FailForGood(c) ==
    /\ pc[c] = "running" /\ "fatal" \in Outcome
    /\ Goto(c, "failed")
    /\ UNCHANGED <<state, streak, attempt>>

\* The backoff delay is over.
Wake(c) ==
    /\ pc[c] = "asleep"
    /\ Goto(c, "asking")
    /\ UNCHANGED <<state, streak, attempt>>

\* The caller drops the call at one of its awaits.
Drop(c) ==
    /\ Drops /\ pc[c] \in {"running", "asleep"}
    /\ Goto(c, "dropped")
    /\ UNCHANGED <<state, streak, attempt>>

-----------------------------------------------------------------------------
Retry(c) ==
    \/ Admit(c) \/ AdmitProbe(c) \/ Reject(c) \/ Wake(c)
    \/ Succeed(c) \/ FailTransiently(c) \/ FailForGood(c)

Next == CoolDown \/ \E c \in Call : Retry(c) \/ Drop(c)

Spec == Init /\ [][Next]_vars

\* Every request returns or times out, and every sleep ends.
FairSpec == Spec /\ \A c \in Call : WF_vars(Retry(c))

-----------------------------------------------------------------------------
(* What the breaker promises.                                               *)

\* An attempt of c has failed transiently.
HasFailed(c) == attempt[c] > 1

\* One unlucky call never opens the breaker on its own (its threshold exceeds
\* the attempts of a call): whoever opens it, another call has failed too.
OpensTogether ==
    state # "closed" => \A c \in Call : \E d \in Call \ {c} : HasFailed(d)

\* Whatever the breaker does, and even if it never closes again, every call
\* returns: no caller waits for a probe that will not come back.
CallsFinish == \A c \in Call : <>(pc[c] \in Finished)

\* A breaker that waits for the outcome of its probe has a probe in flight
\* (BreakerState::HalfOpen).  A probe that is dropped, or that ends with a
\* non-transient error, is not reported: this holds only without such ends.
ProbeInFlight == state = "half open" => \E c \in Call : pc[c] = "running"
=============================================================================
