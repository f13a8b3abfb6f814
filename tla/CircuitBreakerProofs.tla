------------------------ MODULE CircuitBreakerProofs ------------------------
(***************************************************************************)
(* Proofs about CircuitBreaker, for any set of callers, any thresholds and *)
(* any cap: type correctness, the safety invariants of its runs, and the   *)
(* action property.                                                        *)
(***************************************************************************)
EXTENDS CircuitBreaker, TLAPS

USE DEF States, CallStates, knobs, history, metric

\* The types of what _update_metric keeps, and that entering it keeps them.
MetricTypes ==
  /\ gauge \in States
  /\ publishing \in [Threads -> MetricSteps]
  /\ crossed \subseteq Threads
  /\ torn \in BOOLEAN

\* Entering _update_metric keeps those types.
LEMMA UpdateMetricType ==
  ASSUME MetricTypes, NEW p \in Threads, UpdateMetric(p)
  PROVE  MetricTypes'
<1>1. torn' \in BOOLEAN
  BY Zenon DEF MetricTypes, UpdateMetric
<1>2. gauge' \in States /\ crossed' \subseteq Threads
  BY DEF MetricTypes, UpdateMetric
<1>3. publishing' \in [Threads -> MetricSteps]
  BY DEF MetricTypes, UpdateMetric, MetricSteps
<1>4. QED
  BY <1>1, <1>2, <1>3 DEF MetricTypes

\* So do the steps that do not publish,
LEMMA UnchangedMetricType ==
  ASSUME MetricTypes, UNCHANGED metric
  PROVE  MetricTypes'
<1>1. torn' \in BOOLEAN
  BY Zenon DEF MetricTypes
<1>2. QED
  BY <1>1 DEF MetricTypes

\* the look at the state,
LEMMA LookType ==
  ASSUME MetricTypes, NEW p \in Threads, Look(p)
  PROVE  MetricTypes'
<1>1. torn' \in BOOLEAN
  BY Zenon DEF MetricTypes, Look
<1>2. gauge' \in States /\ crossed' \subseteq Threads
  BY DEF MetricTypes, Look
<1>3. publishing' \in [Threads -> MetricSteps]
  BY DEF MetricTypes, Look, MetricSteps
<1>4. QED
  BY <1>1, <1>2, <1>3 DEF MetricTypes

\* A history variable that records a membership test is Boolean.
LEMMA TestIsBoolean ==
  ASSUME NEW x, NEW p, NEW S, x = (p \in S)
  PROVE  x \in BOOLEAN
BY SMT

\* and the write of the gauge.
LEMMA ShowType ==
  ASSUME MetricTypes, NEW p \in Threads, Show(p)
  PROVE  MetricTypes'
<1>1. torn' \in BOOLEAN
  <2>1. torn' = (p \in crossed)
    BY DEF Show
  <2>2. QED
    BY <2>1, TestIsBoolean, Zenon
<1>2. gauge' \in States /\ crossed' \subseteq Threads
  BY DEF MetricTypes, Show
<1>3. publishing' \in [Threads -> MetricSteps]
  BY DEF MetricTypes, Show, MetricSteps
<1>4. QED
  BY <1>1, <1>2, <1>3 DEF MetricTypes

\* The saturating counter stays within its range and is positive after a failure.
LEMMA IncrementType ==
  ASSUME NEW n \in 0 .. FailureCap
  PROVE  Increment(n) \in 1 .. FailureCap
BY CapAssumption DEF Increment

\* Every reachable state has the declared types.
THEOREM TypeCorrect == Spec => []TypeOK
<1>1. Init => TypeOK
  <2> SUFFICES ASSUME Init PROVE TypeOK
    OBVIOUS
  <2>1. enabled \in BOOLEAN /\ elapsed \in BOOLEAN /\ cancelled \in BOOLEAN /\ torn \in BOOLEAN
    BY Zenon DEF Init
  <2>2. publishing \in [Threads -> MetricSteps]
    BY DEF Init, MetricSteps
  <2>3. QED
    BY <2>1, <2>2, ThresholdAssumption, CapAssumption DEF Init, TypeOK
<1>2. TypeOK /\ [Next]_vars => TypeOK'
  <2> SUFFICES ASSUME TypeOK, [Next]_vars PROVE TypeOK'
    OBVIOUS
  <2>metric. MetricTypes
    <3>1. torn \in BOOLEAN
      BY Zenon DEF TypeOK
    <3>2. QED
      BY <3>1 DEF TypeOK, MetricTypes
  <2>threads. EventLoop \in Threads /\ \A w \in Workers : w \in Threads
    BY DEF Threads
  <2> DEFINE CoreTypes ==
        /\ state \in States
        /\ failures \in 0 .. FailureCap
        /\ enabled \in BOOLEAN
        /\ threshold \in Thresholds
        /\ elapsed \in BOOLEAN
        /\ call \in [Callers -> CallStates]
        /\ windowProbes \in Nat
        /\ cancelled \in BOOLEAN
  <2>goal. SUFFICES CoreTypes' /\ MetricTypes'
    <3>1. MetricTypes' => torn' \in BOOLEAN
      BY Zenon DEF MetricTypes
    <3>2. QED
      BY <2>goal, <3>1, Zenon DEF TypeOK, MetricTypes
  <2>core. CoreTypes
    BY Zenon DEF TypeOK
  <2>1. ASSUME NEW c \in Callers, Bypass(c) PROVE CoreTypes' /\ MetricTypes'
    BY <2>1, <2>metric, <2>core, UnchangedMetricType DEF Bypass
  <2>2. ASSUME NEW c \in Callers, AdmitClosed(c) PROVE CoreTypes' /\ MetricTypes'
    BY <2>2, <2>metric, <2>core, UnchangedMetricType DEF AdmitClosed
  <2>3. ASSUME NEW c \in Callers, AdmitProbe(c) PROVE CoreTypes' /\ MetricTypes'
    <3>1. enabled' \in BOOLEAN /\ elapsed' \in BOOLEAN /\ cancelled' \in BOOLEAN
      BY <2>3, <2>core, Zenon DEF AdmitProbe
    <3>2. state' \in States /\ windowProbes' \in Nat /\ call' \in [Callers -> CallStates]
      BY <2>3, <2>core DEF AdmitProbe
    <3>3. failures' \in 0 .. FailureCap /\ threshold' \in Thresholds
      BY <2>3, <2>core DEF AdmitProbe
    <3>4. MetricTypes'
      BY <2>3, <2>metric, <2>threads, UpdateMetricType DEF AdmitProbe
    <3>5. QED
      BY <3>1, <3>2, <3>3, <3>4
  <2>4. ASSUME NEW c \in Callers, Reject(c) PROVE CoreTypes' /\ MetricTypes'
    BY <2>4, <2>metric, <2>core, UnchangedMetricType DEF Reject
  <2>5. ASSUME NEW c \in Callers, Succeed(c) PROVE CoreTypes' /\ MetricTypes'
    <3>1. state' \in States /\ failures' \in 0 .. FailureCap
      BY <2>5, <2>core, CapAssumption DEF Succeed
    <3>2. enabled' \in BOOLEAN /\ elapsed' \in BOOLEAN /\ cancelled' \in BOOLEAN
      BY <2>5, <2>core, Zenon DEF Succeed
    <3>3. threshold' \in Thresholds /\ call' \in [Callers -> CallStates] /\ windowProbes' \in Nat
      BY <2>5, <2>core DEF Succeed
    <3>4. MetricTypes'
      BY <2>5, <2>metric, <2>threads, UpdateMetricType DEF Succeed
    <3>5. QED
      BY <3>1, <3>2, <3>3, <3>4
  <2>6. ASSUME NEW c \in Callers, Fail(c) PROVE CoreTypes' /\ MetricTypes'
    <3>1. state' \in States /\ failures' \in 0 .. FailureCap
      BY <2>6, <2>core, IncrementType DEF Fail
    <3>2. enabled' \in BOOLEAN /\ elapsed' \in BOOLEAN /\ cancelled' \in BOOLEAN
      BY <2>6, <2>core, Zenon DEF Fail
    <3>3. threshold' \in Thresholds /\ call' \in [Callers -> CallStates] /\ windowProbes' \in Nat
      BY <2>6, <2>core DEF Fail
    <3>4. MetricTypes'
      BY <2>6, <2>metric, <2>threads, UpdateMetricType DEF Fail
    <3>5. QED
      BY <3>1, <3>2, <3>3, <3>4
  <2>7. ASSUME NEW c \in Callers, Passthrough(c) PROVE CoreTypes' /\ MetricTypes'
    BY <2>7, <2>metric, <2>core, UnchangedMetricType DEF Passthrough
  <2>8. ASSUME NEW c \in Callers, Cancel(c) PROVE CoreTypes' /\ MetricTypes'
    <3>1. cancelled' \in BOOLEAN
      BY <2>8, Zenon DEF Cancel
    <3>2. QED
      BY <2>8, <2>metric, <2>core, <3>1, UnchangedMetricType DEF Cancel
  <2>9. ASSUME NEW w \in Workers, NEW e \in BOOLEAN, NEW t \in Thresholds, Configure(w, e, t)
        PROVE  CoreTypes' /\ MetricTypes'
    <3>1. enabled' \in BOOLEAN /\ elapsed' \in BOOLEAN /\ cancelled' \in BOOLEAN
      BY <2>9, Zenon DEF Configure
    <3>2. MetricTypes'
      BY <2>9, <2>metric, <2>threads, UpdateMetricType DEF Configure
    <3>3. QED
      BY <2>9, <2>core, <3>1, <3>2, CapAssumption DEF Configure
  <2>10. CASE Elapse
    BY <2>10, <2>metric, <2>core, UnchangedMetricType DEF Elapse
  <2>11. ASSUME NEW p \in Threads, Look(p) PROVE CoreTypes' /\ MetricTypes'
    <3>1. MetricTypes'
      BY <2>11, <2>metric, LookType
    <3>2. QED
      BY <2>11, <2>core, <3>1 DEF Look
  <2>12. ASSUME NEW p \in Threads, Show(p) PROVE CoreTypes' /\ MetricTypes'
    <3>1. MetricTypes'
      BY <2>12, <2>metric, ShowType
    <3>2. QED
      BY <2>12, <2>core, <3>1 DEF Show
  <2>13. CASE UNCHANGED vars
    BY <2>13, <2>metric, <2>core, UnchangedMetricType DEF vars
  <2>14. QED
    BY <2>1, <2>2, <2>3, <2>4, <2>5, <2>6, <2>7, <2>8, <2>9, <2>10, <2>11, <2>12, <2>13
       DEF Next, Finish
<1>3. QED
  BY <1>1, <1>2, PTL DEF Spec

-----------------------------------------------------------------------------

\* The inductive strengthening: a window that is still OPEN has admitted no probe,
\* which is what makes the count of a HALF_OPEN one at most 1.
SafetyInv ==
  /\ ClosedBelowThreshold
  /\ OneProbePerWindow
  /\ state = "OPEN" => windowProbes = 0

LEMMA SafetyInit == Init => SafetyInv
BY DEF Init, SafetyInv, ClosedBelowThreshold, OneProbePerWindow

LEMMA SafetyStep == TypeOK /\ SafetyInv /\ [Next]_vars => SafetyInv'
<1> SUFFICES ASSUME TypeOK, SafetyInv, [Next]_vars PROVE SafetyInv'
  OBVIOUS
<1> USE DEF SafetyInv, ClosedBelowThreshold, OneProbePerWindow
<1>1. ASSUME NEW c \in Callers, Bypass(c) PROVE SafetyInv'
  BY <1>1 DEF Bypass
<1>2. ASSUME NEW c \in Callers, AdmitClosed(c) PROVE SafetyInv'
  BY <1>2 DEF AdmitClosed
<1>3. ASSUME NEW c \in Callers, AdmitProbe(c) PROVE SafetyInv'
  BY <1>3 DEF AdmitProbe
<1>4. ASSUME NEW c \in Callers, Reject(c) PROVE SafetyInv'
  BY <1>4 DEF Reject
<1>5. ASSUME NEW c \in Callers, Succeed(c) PROVE SafetyInv'
  <2>1. ClosedBelowThreshold'
    BY <1>5 DEF Succeed, TypeOK
  <2>2. windowProbes' <= 1 /\ (state' = "OPEN" => windowProbes' = 0)
    BY <1>5 DEF Succeed, TypeOK
  <2>3. QED
    BY <2>1, <2>2
<1>6. ASSUME NEW c \in Callers, Fail(c) PROVE SafetyInv'
  <2>1. ClosedBelowThreshold'
    <3> SUFFICES ASSUME state' = "CLOSED" PROVE failures' < threshold'
      OBVIOUS
    <3>1. ~(failures' >= threshold) /\ threshold' = threshold
      BY <1>6 DEF Fail, TypeOK
    <3>2. failures' \in Int /\ threshold \in Int
      BY <1>6, IncrementType, ThresholdAssumption DEF Fail, TypeOK
    <3>3. QED
      BY <3>1, <3>2
  <2>2. windowProbes' = 0
    BY <1>6 DEF Fail
  <2>3. QED
    BY <2>1, <2>2
<1>7. ASSUME NEW c \in Callers, Passthrough(c) PROVE SafetyInv'
  BY <1>7 DEF Passthrough
<1>8. ASSUME NEW c \in Callers, Cancel(c) PROVE SafetyInv'
  BY <1>8 DEF Cancel
<1>9. ASSUME NEW w \in Workers, NEW e \in BOOLEAN, NEW t \in Thresholds, Configure(w, e, t)
      PROVE  SafetyInv'
  BY <1>9 DEF Configure
<1>10. CASE Elapse
  BY <1>10 DEF Elapse
<1>11. ASSUME NEW p \in Threads, Look(p) \/ Show(p) PROVE SafetyInv'
  BY <1>11 DEF Look, Show
<1>12. CASE UNCHANGED vars
  BY <1>12 DEF vars
<1>13. QED
  BY <1>1, <1>2, <1>3, <1>4, <1>5, <1>6, <1>7, <1>8, <1>9, <1>10, <1>11, <1>12
     DEF Next, Finish

LEMMA SafetyInvariant == Spec => []SafetyInv
BY SafetyInit, SafetyStep, TypeCorrect, PTL DEF Spec

\* A breaker is never left CLOSED at or above its threshold, however the ends of
\* calls, cancellations and reconfigurations interleave.
THEOREM NeverClosedAboveThreshold == Spec => []ClosedBelowThreshold
<1>1. SafetyInv => ClosedBelowThreshold
  BY DEF SafetyInv
<1>2. QED
  BY <1>1, SafetyInvariant, PTL

\* Of all the callers that find the recovery window elapsed, one is the probe.
THEOREM SingleProbePerWindow == Spec => []OneProbePerWindow
<1>1. SafetyInv => OneProbePerWindow
  BY DEF SafetyInv
<1>2. QED
  BY <1>1, SafetyInvariant, PTL

-----------------------------------------------------------------------------
(* The gauge *)

\* What a thread inside _update_metric has seen so far still holds.
Seen(p) ==
  /\ publishing[p] \in {"half", "open"} => enabled
  /\ publishing[p] = "open" => state # "HALF_OPEN"
  /\ publishing[p] \in States => publishing[p] = GaugeOf(enabled, state)

\* What is wrong, in a thread's eyes or in the gauge, is on its way to be set right: the
\* thread that changed the state is still in _update_metric, or it has set the gauge since
\* the other one looked.
GaugeInv ==
  /\ \A p \in Threads :
       Seen(p) \/ p \in crossed \/ \E q \in Threads \ {p} : publishing[q] # "none"
  /\ \/ gauge = GaugeOf(enabled, state)
     \/ torn
     \/ \E q \in Threads : publishing[q] # "none"

LEMMA GaugeInit == Init => GaugeInv
BY DEF Init, GaugeInv, Seen, GaugeOf

\* A thread that changes the state enters _update_metric.
LEMMA GaugeChange ==
  ASSUME TypeOK, GaugeInv, NEW p \in Threads, UpdateMetric(p)
  PROVE  GaugeInv'
<1>1. /\ publishing'[p] = "enabled" /\ crossed' = crossed
      /\ \A q \in Threads \ {p} : publishing'[q] = publishing[q]
  BY DEF UpdateMetric, TypeOK
<1>2. Seen(p)'
  BY <1>1 DEF Seen
<1>3. \A q \in Threads \ {p} : \E r \in Threads \ {q} : publishing'[r] # "none"
  BY <1>1
<1>4. \E q \in Threads : publishing'[q] # "none"
  BY <1>1
<1>5. QED
  BY <1>2, <1>3, <1>4 DEF GaugeInv

LEMMA GaugeLook ==
  ASSUME TypeOK, GaugeInv, NEW p \in Threads, Look(p)
  PROVE  GaugeInv'
<1>1. /\ publishing[p] \in {"enabled", "half", "open"}
      /\ publishing'[p] = CASE publishing[p] = "enabled" -> IF enabled THEN "half" ELSE "CLOSED"
                            [] publishing[p] = "half" ->
                                 IF state = "HALF_OPEN" THEN "HALF_OPEN" ELSE "open"
                            [] publishing[p] = "open" -> IF state = "OPEN" THEN "OPEN" ELSE "CLOSED"
      /\ \A q \in Threads \ {p} : publishing'[q] = publishing[q]
  BY DEF Look, TypeOK
<1>2. UNCHANGED <<enabled, state, gauge, crossed, torn>>
  BY DEF Look
<1>3. publishing'[p] # "none" /\ state \in States
  BY <1>1 DEF TypeOK
<1>4. Seen(p) => Seen(p)'
  BY <1>1, <1>2, <1>3 DEF Seen, GaugeOf
<1>5. \A q \in Threads : (publishing'[q] # "none") = (publishing[q] # "none")
  BY <1>1, <1>3
<1>6. \A q \in Threads \ {p} : Seen(q) => Seen(q)'
  BY <1>1, <1>2 DEF Seen
<1>7. QED
  BY <1>2, <1>4, <1>5, <1>6 DEF GaugeInv

LEMMA GaugeShow ==
  ASSUME TypeOK, GaugeInv, NEW p \in Threads, Show(p)
  PROVE  GaugeInv'
<1>1. /\ publishing[p] \in States /\ gauge' = publishing[p] /\ publishing'[p] = "none"
      /\ \A q \in Threads \ {p} : publishing'[q] = publishing[q]
  BY DEF Show, TypeOK
<1>2. UNCHANGED <<enabled, state>> /\ torn' = (p \in crossed)
  BY DEF Show
<1>3. \A q \in Threads \ {p} : publishing[q] \notin {"none", "enabled"} => q \in crossed'
  BY DEF Show
<1>4. ASSUME NEW q \in Threads
      PROVE  Seen(q)' \/ q \in crossed'
  <2>1. CASE q = p
    BY <1>1, <2>1 DEF Seen
  <2>2. CASE q # p /\ publishing[q] \notin {"none", "enabled"}
    BY <1>3, <2>2
  <2>3. CASE q # p /\ publishing[q] \in {"none", "enabled"}
    <3>1. publishing'[q] \in {"none", "enabled"}
      BY <1>1, <2>3
    <3>2. QED
      BY <3>1 DEF Seen
  <2>4. QED
    BY <2>1, <2>2, <2>3
<1>5. \/ gauge' = GaugeOf(enabled', state')
      \/ torn'
      \/ \E q \in Threads : publishing'[q] # "none"
  <2>1. CASE Seen(p)
    BY <1>1, <1>2, <2>1 DEF Seen
  <2>2. CASE p \in crossed
    BY <1>2, <2>2
  <2>3. CASE \E q \in Threads \ {p} : publishing[q] # "none"
    BY <1>1, <2>3
  <2>4. QED
    BY <2>1, <2>2, <2>3 DEF GaugeInv
<1>6. QED
  BY <1>4, <1>5 DEF GaugeInv

\* Everything else leaves alone what _update_metric reads and keeps.
LEMMA GaugeSame ==
  ASSUME GaugeInv, UNCHANGED <<enabled, state, gauge, publishing, crossed, torn>>
  PROVE  GaugeInv'
BY DEF GaugeInv, Seen

LEMMA GaugeStep == TypeOK /\ GaugeInv /\ [Next]_vars => GaugeInv'
<1> SUFFICES ASSUME TypeOK, GaugeInv, [Next]_vars PROVE GaugeInv'
  OBVIOUS
<1>1. CASE \E p \in Threads : UpdateMetric(p)
  BY <1>1, GaugeChange
<1>2. CASE \E p \in Threads : Look(p)
  BY <1>2, GaugeLook
<1>3. CASE \E p \in Threads : Show(p)
  BY <1>3, GaugeShow
<1>4. CASE UNCHANGED <<enabled, state, gauge, publishing, crossed, torn>>
  BY <1>4, GaugeSame
<1>5. \A c \in Callers :
        AdmitProbe(c) \/ Finish(c) => \E p \in Threads : UpdateMetric(p)
  BY DEF AdmitProbe, Finish, Succeed, Fail, Threads
<1>6. \A w \in Workers, e \in BOOLEAN, t \in Thresholds :
        Configure(w, e, t) => \E p \in Threads : UpdateMetric(p)
  BY DEF Configure, Threads
<1>7. \A c \in Callers :
        Bypass(c) \/ AdmitClosed(c) \/ Reject(c) \/ Passthrough(c) \/ Cancel(c)
          => UNCHANGED <<enabled, state, gauge, publishing, crossed, torn>>
  BY DEF Bypass, AdmitClosed, Reject, Passthrough, Cancel
<1>8. Elapse \/ UNCHANGED vars
        => UNCHANGED <<enabled, state, gauge, publishing, crossed, torn>>
  BY DEF Elapse, vars
<1>9. QED
  BY <1>1, <1>2, <1>3, <1>4, <1>5, <1>6, <1>7, <1>8 DEF Next

\* For any number of worker threads that reconfigure the breaker under the event loop, a
\* wrong gauge is set right by a thread that is still in _update_metric, or was left by
\* one that had looked before another one set it.
THEOREM GaugeAlwaysSettles == Spec => []GaugeSettles
<1>1. GaugeInv => GaugeSettles
  BY DEF GaugeInv, GaugeSettles
<1>2. QED
  BY <1>1, GaugeInit, GaugeStep, TypeCorrect, PTL DEF Spec

-----------------------------------------------------------------------------

\* The probe a HALF_OPEN breaker turns callers away for is in flight unless it was
\* cancelled (call() of AsyncCircuitBreaker: its end, and only that, leaves HALF_OPEN).
THEOREM ProbePresent == Spec => []HalfOpenHasProbe
<1>1. Init => HalfOpenHasProbe
  BY DEF Init, HalfOpenHasProbe
<1>2. TypeOK /\ HalfOpenHasProbe /\ [Next]_vars => HalfOpenHasProbe'
  <2> SUFFICES ASSUME TypeOK, HalfOpenHasProbe, [Next]_vars,
                      state' = "HALF_OPEN", ~cancelled'
               PROVE  \E p \in Callers : call'[p] = "probe"
    BY DEF HalfOpenHasProbe
  <2>1. CASE state # "HALF_OPEN"
    <3>1. PICK c \in Callers : AdmitProbe(c)
      BY <2>1 DEF Next, vars, Bypass, AdmitClosed, Reject, Finish, Succeed, Fail,
                  Passthrough, Cancel, Configure, Elapse, Look, Show
    <3>2. QED
      BY <3>1 DEF AdmitProbe, TypeOK
  <2>2. CASE state = "HALF_OPEN"
    <3>1. ASSUME NEW c \in Callers
          PROVE  ~AdmitClosed(c) /\ ~AdmitProbe(c) /\ ~Succeed(c)
      BY <2>2 DEF AdmitClosed, AdmitProbe, Succeed
    <3>2. ASSUME NEW w \in Workers, NEW e \in BOOLEAN, NEW t \in Thresholds
          PROVE  ~Configure(w, e, t)
      BY DEF Configure
    <3>3. ~cancelled
      BY <3>1, <3>2 DEF Next, Finish, vars, Bypass, Reject, Fail, Passthrough, Cancel, Elapse,
                        Look, Show
    <3>4. PICK p \in Callers : call[p] = "probe"
      BY <2>2, <3>3 DEF HalfOpenHasProbe
    <3>5. call'[p] = "probe"
      <4>1. ASSUME NEW c \in Callers, Bypass(c) PROVE call'[p] = "probe"
        BY <3>4, <4>1 DEF Bypass, Outside, TypeOK
      <4>2. ASSUME NEW c \in Callers, Reject(c) PROVE call'[p] = "probe"
        BY <3>4, <4>2 DEF Reject, Outside, TypeOK
      <4>3. ASSUME NEW c \in Callers, Fail(c) PROVE call'[p] = "probe"
        <5>1. c # p
          BY <2>2, <3>4, <4>3 DEF Fail
        <5>2. QED
          BY <3>4, <4>3, <5>1 DEF Fail, TypeOK
      <4>4. ASSUME NEW c \in Callers, Passthrough(c) PROVE call'[p] = "probe"
        BY <3>4, <4>4 DEF Passthrough, TypeOK
      <4>5. ASSUME NEW c \in Callers, Cancel(c) PROVE call'[p] = "probe"
        <5>1. c # p
          BY <3>4, <4>5 DEF Cancel
        <5>2. QED
          BY <3>4, <4>5, <5>1 DEF Cancel, TypeOK
      <4>6. CASE Elapse \/ UNCHANGED vars \/ \E q \in Threads : Look(q) \/ Show(q)
        BY <3>4, <4>6 DEF Elapse, vars, Look, Show
      <4>7. QED
        BY <3>1, <3>2, <4>1, <4>2, <4>3, <4>4, <4>5, <4>6 DEF Next, Finish
    <3>6. QED
      BY <3>5
  <2>3. QED
    BY <2>1, <2>2
<1>3. QED
  BY <1>1, <1>2, TypeCorrect, PTL DEF Spec

\* Late successes never close an OPEN breaker.
THEOREM LateSuccessIgnored == Spec => OpenIgnoresLateSuccess
<1>1. TypeOK /\ [Next]_vars
        => [state = "OPEN" /\ state' = "CLOSED" /\ call' # call
              => \E c \in Callers : call[c] = "probe" /\ call'[c] = "idle"]_vars
  <2> SUFFICES ASSUME TypeOK, Next, state = "OPEN", state' = "CLOSED", call' # call
               PROVE  \E c \in Callers : call[c] = "probe" /\ call'[c] = "idle"
    BY DEF vars
  <2>1. PICK c \in Callers : Succeed(c)
    BY DEF Next, Bypass, AdmitClosed, AdmitProbe, Reject, Finish, Fail, Passthrough,
           Cancel, Configure, Elapse, Look, Show
  <2>2. QED
    BY <2>1 DEF Succeed, TypeOK
<1>2. QED
  BY <1>1, TypeCorrect, PTL DEF Spec, OpenIgnoresLateSuccess
=============================================================================
