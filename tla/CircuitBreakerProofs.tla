-------------------------- MODULE CircuitBreakerProofs --------------------------
(***************************************************************************)
(* Theorems about CircuitBreaker, for any number of calls, attempts and    *)
(* failures to tolerate.                                                   *)
(***************************************************************************)
EXTENDS CircuitBreaker, TLAPS

\* What the limits on attempts and failures mean for the ranges.
LEMMA Limits ==
    /\ Threshold \in Nat /\ MaxAttempts \in Nat /\ 1 < MaxAttempts
    /\ MaxAttempts < Threshold
    /\ 0 \in 0 .. (Threshold - 1) /\ 1 \in 1 .. MaxAttempts
  BY LimitsAssumption

\* What the types say of one call and of the streak.
LEMMA Ranges ==
    ASSUME TypeOK, NEW c \in Call
    PROVE  /\ streak \in Nat /\ streak < Threshold
           /\ attempt[c] \in Nat /\ 1 <= attempt[c] /\ attempt[c] <= MaxAttempts
           /\ pc[c] \in {"asking", "running", "asleep"} \cup Finished
  <1>1. streak \in 0 .. (Threshold - 1)
    BY DEF TypeOK
  <1>2. attempt[c] \in 1 .. MaxAttempts
    BY DEF TypeOK
  <1>3. pc[c] \in {"asking", "running", "asleep"} \cup Finished
    BY DEF TypeOK
  <1>4. streak \in Nat /\ streak < Threshold
    BY <1>1, Limits
  <1>5. attempt[c] \in Nat /\ 1 <= attempt[c] /\ attempt[c] <= MaxAttempts
    BY <1>2, Limits
  <1> QED
    BY <1>3, <1>4, <1>5

\* A transient failure leaves a streak below the threshold (record_failure).
LEMMA FailureRange ==
    ASSUME TypeOK, NEW c \in Call, RecordFailure
    PROVE  /\ state' \in {"closed", "open", "expired", "half open"}
           /\ streak' \in 0 .. (Threshold - 1)
  <1>1. state \in {"closed", "open", "expired", "half open"}
    BY DEF TypeOK
  <1>2. streak \in Nat /\ streak < Threshold /\ Threshold \in Nat
        /\ 0 \in 0 .. (Threshold - 1)
    BY Ranges, Limits
  <1>3. CASE streak + 1 < Threshold /\ Counted
    <2>1. streak + 1 \in 0 .. (Threshold - 1)
      BY <1>2, <1>3
    <2> QED
      BY <1>1, <1>3, <2>1 DEF Counted
  <1>4. CASE Ignored
    BY <1>1, <1>4 DEF Ignored, TypeOK
  <1>5. CASE Becomes("open")
    BY <1>2, <1>5 DEF Becomes
  <1> QED
    BY <1>3, <1>4, <1>5 DEF RecordFailure

\* Every variable keeps its type.
LEMMA TypeStep == TypeOK /\ [Next]_vars => TypeOK'
  <1> SUFFICES ASSUME TypeOK, [Next]_vars PROVE TypeOK'
    OBVIOUS
  <1>1. CASE UNCHANGED vars
    BY <1>1 DEF vars, TypeOK
  <1>2. CASE CoolDown
    BY <1>2 DEF CoolDown, TypeOK
  <1>3. ASSUME NEW c \in Call, Retry(c) \/ Drop(c)
        PROVE  TypeOK'
    <2> USE DEF Goto, Finished
    <2>1. CASE Admit(c) \/ Reject(c) \/ FailForGood(c) \/ Wake(c) \/ Drop(c)
      BY <2>1 DEF Admit, Reject, FailForGood, Wake, Drop, TypeOK
    <2>2. CASE AdmitProbe(c)
      BY <2>2 DEF AdmitProbe, TypeOK
    <2>3. CASE Succeed(c)
      BY <2>3, Limits DEF Succeed, RecordSuccess, Becomes, TypeOK
    <2>4. CASE FailTransiently(c)
      <3>1. /\ state' \in {"closed", "open", "expired", "half open"}
            /\ streak' \in 0 .. (Threshold - 1)
        BY <2>4, FailureRange DEF FailTransiently
      <3>2. pc' \in [Call -> {"asking", "running", "asleep"} \cup Finished]
        BY <2>4 DEF FailTransiently, TypeOK
      <3>3. attempt' \in [Call -> 1 .. MaxAttempts]
        <4>1. attempt[c] < MaxAttempts => attempt[c] + 1 \in 1 .. MaxAttempts
          <5>1. attempt[c] \in Nat /\ 1 <= attempt[c] /\ MaxAttempts \in Nat
            BY Ranges, Limits
          <5> QED
            BY <5>1
        <4> QED
          BY <2>4, <4>1 DEF FailTransiently, TypeOK
      <3> QED
        BY <3>1, <3>2, <3>3 DEF TypeOK
    <2> QED
      BY <1>3, <2>1, <2>2, <2>3, <2>4 DEF Retry
  <1> QED
    BY <1>1, <1>2, <1>3 DEF Next

\* The failure streak stays below the threshold, no call makes more attempts
\* than it may, and every other variable keeps its type.
THEOREM BreakerTypes == Spec => []TypeOK
  <1>1. Init => TypeOK
    BY Limits DEF Init, TypeOK, Finished
  <1> QED
    BY <1>1, TypeStep, PTL DEF Spec

-----------------------------------------------------------------------------
(* Who opens the breaker.                                                   *)

Alone(c) == \A d \in Call \ {c} : ~HasFailed(d)

\* The failures that c can have recorded itself.
Recorded(c) == IF pc[c] = "failed" THEN attempt[c] ELSE attempt[c] - 1

\* While no other call has failed, the streak is of c's own making, and it is
\* not long enough to open the breaker.
StreakInv ==
    \A c \in Call : Alone(c) => state = "closed" /\ streak <= Recorded(c)

\* An attempt count never goes down, so a failure is not forgotten.
LEMMA FailureStays ==
    ASSUME TypeOK, [Next]_vars, NEW d \in Call, HasFailed(d)
    PROVE  HasFailed(d)'
  <1>1. ASSUME NEW c \in Call, FailTransiently(c)
        PROVE  HasFailed(d)'
    <2>1. attempt'[d] = attempt[d] \/ attempt'[d] = attempt[d] + 1
      BY <1>1 DEF FailTransiently, TypeOK
    <2> QED
      BY <2>1, Ranges DEF HasFailed
  <1>2. UNCHANGED attempt => HasFailed(d)'
    BY DEF HasFailed
  <1> QED
    BY <1>1, <1>2 DEF Next, vars, CoolDown, Retry, Admit, AdmitProbe, Reject, Wake,
       Succeed, FailForGood, Drop

\* One attempt of c fails, with no help from another call.
LEMMA FailureAlone ==
    ASSUME TypeOK, NEW c \in Call, FailTransiently(c),
           state = "closed", streak <= Recorded(c)
    PROVE  (state = "closed" /\ streak <= Recorded(c))'
  <1>1. /\ streak \in Nat /\ attempt[c] \in Nat /\ 1 <= attempt[c]
        /\ attempt[c] <= MaxAttempts /\ MaxAttempts < Threshold
        /\ MaxAttempts \in Nat /\ Threshold \in Nat
    BY Ranges, Limits
  <1>2. pc[c] = "running" /\ RecordFailure
    BY DEF FailTransiently
  <1>3. streak <= attempt[c] - 1
    BY <1>2 DEF Recorded
  <1>4. streak + 1 < Threshold
    BY <1>1, <1>3
  <1>5. state' = "closed" /\ streak' = streak + 1
    BY <1>1, <1>2, <1>4 DEF RecordFailure, Counted, Ignored
  <1>6. \/ pc'[c] = "asleep" /\ attempt'[c] = attempt[c] + 1
        \/ pc'[c] = "failed" /\ attempt'[c] = attempt[c]
    <2>1. CASE attempt[c] < MaxAttempts
      BY <2>1 DEF FailTransiently, Goto, TypeOK
    <2>2. CASE ~(attempt[c] < MaxAttempts)
      BY <2>2 DEF FailTransiently, Goto, TypeOK
    <2> QED
      BY <2>1, <2>2
  <1> QED
    BY <1>1, <1>3, <1>5, <1>6 DEF Recorded

\* Every step keeps the streak of a call that fails alone of its own making.
LEMMA StreakStep == TypeOK /\ StreakInv /\ [Next]_vars => StreakInv'
  <1> SUFFICES ASSUME TypeOK, StreakInv, [Next]_vars, NEW c \in Call, Alone(c)'
               PROVE  (state = "closed" /\ streak <= Recorded(c))'
    BY DEF StreakInv
  <1>1. Alone(c)
    BY FailureStays DEF Alone
  <1>2. state = "closed" /\ streak <= Recorded(c)
    BY <1>1 DEF StreakInv
  <1>3. streak \in Nat /\ attempt[c] \in Nat /\ 1 <= attempt[c]
    BY Ranges
  <1>4. ASSUME UNCHANGED <<state, streak, attempt>>,
               pc[c] = "failed" => pc'[c] = "failed"
        PROVE  (state = "closed" /\ streak <= Recorded(c))'
    BY <1>2, <1>3, <1>4 DEF Recorded
  <1>5. CASE UNCHANGED vars
    BY <1>4, <1>5 DEF vars
  <1>6. CASE CoolDown
    BY <1>2, <1>6 DEF CoolDown
  <1>7. ASSUME NEW d \in Call, Retry(d) \/ Drop(d)
        PROVE  (state = "closed" /\ streak <= Recorded(c))'
    <2>1. CASE Admit(d) \/ Reject(d) \/ FailForGood(d) \/ Wake(d) \/ Drop(d)
      <3>1. UNCHANGED <<state, streak, attempt>>
        BY <2>1 DEF Admit, Reject, FailForGood, Wake, Drop
      <3>2. pc[d] # "failed" /\ \E w : Goto(d, w)
        BY <2>1 DEF Admit, Reject, FailForGood, Wake, Drop
      <3>3. pc[c] = "failed" => pc'[c] = "failed"
        BY <3>2 DEF Goto, TypeOK
      <3> QED
        BY <1>4, <3>1, <3>3
    <2>2. CASE AdmitProbe(d)
      BY <1>2, <2>2 DEF AdmitProbe
    <2>3. CASE Succeed(d)
      <3>1. state' = "closed" /\ streak' = 0 /\ attempt' = attempt
        BY <2>3 DEF Succeed, RecordSuccess, Becomes
      <3> QED
        BY <1>3, <3>1 DEF Recorded
    <2>4. CASE FailTransiently(d)
      <3>1. CASE d = c
        BY <1>2, <2>4, <3>1, FailureAlone
      <3>2. CASE d # c
        <4>1. ~HasFailed(d) /\ ~HasFailed(d)'
          BY <1>1, <3>2 DEF Alone
        <4>2. attempt[d] = 1 /\ attempt[d] < MaxAttempts
          BY <4>1, Ranges, Limits DEF HasFailed
        <4>3. attempt'[d] = 2
          <5>1. attempt' = [attempt EXCEPT ![d] = attempt[d] + 1]
            BY <2>4, <4>2 DEF FailTransiently
          <5>2. attempt'[d] = attempt[d] + 1
            BY <5>1 DEF TypeOK
          <5> QED
            BY <4>2, <5>2
        <4> QED
          BY <4>1, <4>3 DEF HasFailed
      <3> QED
        BY <3>1, <3>2
    <2> QED
      BY <1>7, <2>1, <2>2, <2>3, <2>4 DEF Retry
  <1> QED
    BY <1>5, <1>6, <1>7 DEF Next

\* No call opens the breaker on its own, whatever the threshold and the number
\* of attempts, as long as the threshold is the larger one: the comment of
\* CircuitBreaker::default.
THEOREM OpenedTogether == Spec => []OpensTogether
  <1>1. Init => TypeOK /\ StreakInv
    BY Limits DEF Init, TypeOK, Finished, StreakInv, Recorded
  <1>2. TypeOK /\ StreakInv /\ [Next]_vars => (TypeOK /\ StreakInv)'
    BY TypeStep, StreakStep
  <1>3. StreakInv => OpensTogether
    BY DEF StreakInv, OpensTogether, Alone
  <1> QED
    BY <1>1, <1>2, <1>3, PTL DEF Spec

-----------------------------------------------------------------------------
(* The probe.                                                               *)

\* A half-open breaker has its probe in flight, if every attempt ends in a
\* success or in a failure that is reported and no caller drops a call: the
\* unreported ends are the only way to lose the probe.
THEOREM ProbeKept ==
    ~Drops /\ "fatal" \notin Outcome => (Spec => []ProbeInFlight)
  <1> SUFFICES ASSUME ~Drops, "fatal" \notin Outcome PROVE Spec => []ProbeInFlight
    OBVIOUS
  <1>1. Init => ProbeInFlight
    BY DEF Init, ProbeInFlight
  <1>2. TypeOK /\ ProbeInFlight /\ [Next]_vars => ProbeInFlight'
    <2> SUFFICES ASSUME TypeOK, ProbeInFlight, [Next]_vars PROVE ProbeInFlight'
      OBVIOUS
    <2> USE DEF ProbeInFlight, Goto
    <2>1. CASE UNCHANGED vars
      BY <2>1 DEF vars
    <2>2. CASE CoolDown
      BY <2>2 DEF CoolDown
    <2>3. ASSUME NEW c \in Call, Retry(c) \/ Drop(c)
          PROVE  ProbeInFlight'
      <3>1. CASE Admit(c) \/ AdmitProbe(c)
        BY <3>1 DEF Admit, AdmitProbe, TypeOK
      <3>2. CASE Reject(c) \/ Wake(c)
        BY <3>2 DEF Reject, Wake, TypeOK
      <3>3. CASE Succeed(c)
        BY <3>3 DEF Succeed, RecordSuccess, Becomes
      <3>4. CASE FailTransiently(c)
        <4>1. state' # "half open"
          BY <3>4 DEF FailTransiently, RecordFailure, Counted, Ignored, Becomes
        <4> QED
          BY <4>1
      <3> QED
        BY <2>3, <3>1, <3>2, <3>3, <3>4 DEF Retry, FailForGood, Drop
    <2> QED
      BY <2>1, <2>2, <2>3 DEF Next
  <1> QED
    BY <1>1, <1>2, BreakerTypes, PTL DEF Spec
=============================================================================
