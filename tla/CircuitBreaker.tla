--------------------------- MODULE CircuitBreaker ---------------------------
(***************************************************************************)
(* AsyncCircuitBreaker of services/shared/orchestrator.py: the breaker     *)
(* that guards the payment call of the order saga.  Every coroutine that   *)
(* runs payment_cb.call(...) is a caller.  The critical sections under     *)
(* self._lock contain no await, so on the event loop each of them is one   *)
(* step; the downstream call itself is not under the lock, so any number   *)
(* of callers are between their two critical sections at once.             *)
(*                                                                         *)
(* configure() runs in a worker thread and takes no lock.  What its        *)
(* assignments do to a critical section they fall into is Resilience's     *)
(* subject; here they are one step.  What both end with is not: the steps  *)
(* of _update_metric, which reads the state and then sets the gauge, are   *)
(* taken one by one, the event loop's and every worker's among each other. *)
(*                                                                         *)
(* time.time() - last_failure_time > recovery_timeout is the only use of   *)
(* the clock: elapsed is its value.  Recording a failure makes it FALSE,   *)
(* the passing of time makes it TRUE.                                      *)
(***************************************************************************)
EXTENDS Integers, FiniteSets

CONSTANTS
  Callers,            \* coroutines that use the breaker
  SimCallers,         \* those run by the simulator task, which simulate_stop cancels
  Thresholds,         \* values failure_threshold can be configured to (any int)
  InitialThreshold,   \* the value payment_cb is built with
  FailureCap,         \* where the model's failure counter saturates
  EventLoop,          \* the thread all callers run on
  Workers             \* the threads configure() runs in

ASSUME CallersAssumption == SimCallers \subseteq Callers
ASSUME ThreadsAssumption == EventLoop \notin Workers
ASSUME ThresholdAssumption ==
  /\ Thresholds \subseteq Int
  /\ InitialThreshold \in Thresholds
\* The counter is only ever compared with failure_threshold, so a counter that
\* saturates at or above every threshold decides each comparison as the real one.
ASSUME CapAssumption ==
  /\ FailureCap \in Nat \ {0}
  /\ \A t \in Thresholds : t <= FailureCap

VARIABLES
  state,         \* CLOSED, OPEN or HALF_OPEN
  failures,      \* failures recorded since the last reset
  enabled,       \* FALSE: every call goes straight through
  threshold,     \* failure_threshold
  elapsed,       \* the recovery window has passed since the last failure
  gauge,         \* the Prometheus gauge circuit_breaker_state, by the state it shows
  publishing,    \* where each thread is in _update_metric
  call,          \* where each caller is
  crossed,       \* history: threads in _update_metric since whose look another one set it
  torn,          \* history: the thread that set the gauge last was one of them
  windowProbes,  \* history: probes admitted since the last recorded failure
  cancelled      \* history: a probe has been cancelled since the last was admitted

knobs == <<enabled, threshold>>
metric == <<gauge, publishing, crossed, torn>>
history == <<windowProbes, cancelled>>
vars == <<state, failures, knobs, elapsed, metric, call, history>>

Threads == Workers \cup {EventLoop}

States == {"CLOSED", "OPEN", "HALF_OPEN"}
\* idle: outside call(); calling: admitted by a CLOSED breaker; probe: admitted by
\* the OPEN -> HALF_OPEN transition; bypass: called while disabled; rejected: the
\* last attempt raised CircuitBreakerError.
CallStates == {"idle", "calling", "probe", "bypass", "rejected"}
\* none: outside _update_metric; enabled, half, open: before the test of enabled, of
\* HALF_OPEN, of OPEN; a state: before the set() that shows it.
MetricSteps == {"none", "enabled", "half", "open"} \cup States

TypeOK ==
  /\ state \in States
  /\ failures \in 0 .. FailureCap
  /\ enabled \in BOOLEAN
  /\ threshold \in Thresholds
  /\ elapsed \in BOOLEAN
  /\ gauge \in States
  /\ publishing \in [Threads -> MetricSteps]
  /\ crossed \subseteq Threads
  /\ torn \in BOOLEAN
  /\ call \in [Callers -> CallStates]
  /\ windowProbes \in Nat
  /\ cancelled \in BOOLEAN

InFlight(c) == call[c] \in {"calling", "probe"}
Outside(c) == call[c] \in {"idle", "rejected"}

\* What the gauge is to show: 0, that is CLOSED, while the breaker is disabled.
GaugeOf(e, s) == IF e THEN s ELSE "CLOSED"

Increment(n) == IF n < FailureCap THEN n + 1 ELSE FailureCap

Init ==
  /\ state = "CLOSED"
  /\ failures = 0
  /\ enabled = TRUE
  /\ threshold = InitialThreshold
  /\ elapsed = TRUE
  /\ gauge = "CLOSED"
  /\ publishing = [p \in Threads |-> "none"]
  /\ crossed = {}
  /\ torn = FALSE
  /\ call = [c \in Callers |-> "idle"]
  /\ windowProbes = 0
  /\ cancelled = FALSE

-----------------------------------------------------------------------------
(* _update_metric(), of the event loop's sections and of configure().      *)

\* Thread p enters it.
UpdateMetric(p) ==
  /\ publishing[p] = "none"
  /\ publishing' = [publishing EXCEPT ![p] = "enabled"]
  /\ UNCHANGED <<gauge, crossed, torn>>

\* The next test of thread p.
Look(p) ==
  /\ publishing[p] \in {"enabled", "half", "open"}
  /\ publishing' = [publishing EXCEPT ![p] =
       CASE @ = "enabled" -> IF enabled THEN "half" ELSE "CLOSED"
         [] @ = "half" -> IF state = "HALF_OPEN" THEN "HALF_OPEN" ELSE "open"
         [] @ = "open" -> IF state = "OPEN" THEN "OPEN" ELSE "CLOSED"]
  /\ UNCHANGED <<state, failures, knobs, elapsed, gauge, crossed, torn, call, history>>

\* Thread p sets the gauge, under the eyes of those that looked before.
Show(p) ==
  /\ publishing[p] \in States
  /\ gauge' = publishing[p]
  /\ publishing' = [publishing EXCEPT ![p] = "none"]
  /\ torn' = (p \in crossed)
  /\ crossed' = (crossed \cup {q \in Threads : publishing[q] \notin {"none", "enabled"}}) \ {p}
  /\ UNCHANGED <<state, failures, knobs, elapsed, call, history>>

\* A critical section runs to its end, so the callers' steps wait for its _update_metric.
LoopIsFree == publishing[EventLoop] = "none"

-----------------------------------------------------------------------------
(* call(): from the first line to the await of the downstream call.        *)

\* The breaker is disabled: the call is neither gated nor recorded.
Bypass(c) ==
  /\ LoopIsFree
  /\ Outside(c)
  /\ ~enabled
  /\ call' = [call EXCEPT ![c] = "bypass"]
  /\ UNCHANGED <<state, failures, knobs, elapsed, metric, history>>

AdmitClosed(c) ==
  /\ LoopIsFree
  /\ Outside(c)
  /\ enabled
  /\ state = "CLOSED"
  /\ call' = [call EXCEPT ![c] = "calling"]
  /\ UNCHANGED <<state, failures, knobs, elapsed, metric, history>>

\* Mutant: the check and the transition are not one step, so the breaker is still
\* OPEN when the next caller looks (the race the lock was introduced for).
AdmitProbe_NoTransition(c) ==
  /\ LoopIsFree
  /\ Outside(c)
  /\ enabled
  /\ state = "OPEN"
  /\ elapsed
  /\ call' = [call EXCEPT ![c] = "probe"]
  /\ windowProbes' = windowProbes + 1
  /\ cancelled' = FALSE
  /\ UNCHANGED <<state, metric, failures, knobs, elapsed>>

\* The recovery window elapsed: this caller is let through as the probe.
AdmitProbe(c) ==
  /\ LoopIsFree
  /\ Outside(c)
  /\ enabled
  /\ state = "OPEN"
  /\ elapsed
  /\ state' = "HALF_OPEN"
  /\ call' = [call EXCEPT ![c] = "probe"]
  /\ UpdateMetric(EventLoop)
  /\ windowProbes' = windowProbes + 1
  /\ cancelled' = FALSE
  /\ UNCHANGED <<failures, knobs, elapsed>>

Reject(c) ==
  /\ LoopIsFree
  /\ Outside(c)
  /\ enabled
  /\ \/ state = "OPEN" /\ ~elapsed
     \/ state = "HALF_OPEN"
  /\ call' = [call EXCEPT ![c] = "rejected"]
  /\ UNCHANGED <<state, failures, knobs, elapsed, metric, history>>

-----------------------------------------------------------------------------
(* call(): after the downstream call.                                      *)

\* Mutant: every success closes the breaker.
Succeed_AlwaysCloses(c) ==
  /\ LoopIsFree
  /\ InFlight(c)
  /\ call' = [call EXCEPT ![c] = "idle"]
  /\ state' = "CLOSED"
  /\ failures' = 0
  /\ UpdateMetric(EventLoop)
  /\ UNCHANGED <<knobs, elapsed, history>>

\* Mutant: a probe's success resets the counter and forgets the state.
Succeed_NoClose(c) ==
  /\ LoopIsFree
  /\ InFlight(c)
  /\ call' = [call EXCEPT ![c] = "idle"]
  /\ failures' = IF state = "OPEN" THEN failures ELSE 0
  /\ UNCHANGED <<state, metric, knobs, elapsed, history>>

\* Mutant: a success gives one failure back instead of resetting the counter.
Succeed_Decrements(c) ==
  /\ LoopIsFree
  /\ InFlight(c)
  /\ call' = [call EXCEPT ![c] = "idle"]
  /\ LET closes == call[c] = "probe" \/ state = "HALF_OPEN"
     IN /\ state' = IF closes THEN "CLOSED" ELSE state
        /\ failures' = IF closes \/ state = "CLOSED" THEN failures - 1 ELSE failures
  /\ UpdateMetric(EventLoop)
  /\ UNCHANGED <<knobs, elapsed, history>>

\* The downstream call returned.  A caller that is neither the probe nor finds
\* the breaker HALF_OPEN or CLOSED changes nothing.
Succeed(c) ==
  /\ LoopIsFree
  /\ InFlight(c)
  /\ call' = [call EXCEPT ![c] = "idle"]
  /\ LET closes == call[c] = "probe" \/ state = "HALF_OPEN"
     IN /\ state' = IF closes THEN "CLOSED" ELSE state
        /\ failures' = IF closes \/ state = "CLOSED" THEN 0 ELSE failures
  /\ UpdateMetric(EventLoop)
  /\ UNCHANGED <<knobs, elapsed, history>>

\* Mutant: the counter has to exceed the threshold.
Fail_OffByOne(c) ==
  /\ LoopIsFree
  /\ InFlight(c)
  /\ call' = [call EXCEPT ![c] = "idle"]
  /\ failures' = Increment(failures)
  /\ elapsed' = FALSE
  /\ state' = IF call[c] = "probe" \/ failures' > threshold THEN "OPEN" ELSE state
  /\ UpdateMetric(EventLoop)
  /\ windowProbes' = 0
  /\ UNCHANGED <<knobs, cancelled>>

\* Mutant: only a CLOSED breaker trips, a failed probe does not re-open.
Fail_OnlyFromClosed(c) ==
  /\ LoopIsFree
  /\ InFlight(c)
  /\ call' = [call EXCEPT ![c] = "idle"]
  /\ failures' = Increment(failures)
  /\ elapsed' = FALSE
  /\ state' = IF state = "CLOSED" /\ failures' >= threshold THEN "OPEN" ELSE state
  /\ UpdateMetric(EventLoop)
  /\ windowProbes' = 0
  /\ UNCHANGED <<knobs, cancelled>>

\* The downstream call raised an Exception.
Fail(c) ==
  /\ LoopIsFree
  /\ InFlight(c)
  /\ call' = [call EXCEPT ![c] = "idle"]
  /\ failures' = Increment(failures)
  /\ elapsed' = FALSE
  /\ state' = IF call[c] = "probe" \/ failures' >= threshold THEN "OPEN" ELSE state
  /\ UpdateMetric(EventLoop)
  /\ windowProbes' = 0
  /\ UNCHANGED <<knobs, cancelled>>

\* A call made while the breaker was disabled returns or raises: nothing is recorded.
Passthrough(c) ==
  /\ LoopIsFree
  /\ call[c] = "bypass"
  /\ call' = [call EXCEPT ![c] = "idle"]
  /\ UNCHANGED <<state, failures, knobs, elapsed, metric, history>>

\* simulate_stop cancels the simulator task inside the awaited downstream call.
\* asyncio.CancelledError is not an Exception: neither branch of call() runs.
Cancel(c) ==
  /\ LoopIsFree
  /\ c \in SimCallers
  /\ InFlight(c) \/ call[c] = "bypass"
  /\ call' = [call EXCEPT ![c] = "idle"]
  /\ cancelled' = (cancelled \/ call[c] = "probe")
  /\ UNCHANGED <<state, failures, knobs, elapsed, metric, windowProbes>>

-----------------------------------------------------------------------------
(* configure(), called by POST /resilience/circuit-breaker and             *)
(* POST /resilience/mode: whatever it is given, it also resets the state.  *)
(* A knob that is None keeps its value, which is one of the choices here.  *)
(* Its thread w holds no lock: the loop's sections run between the         *)
(* assignments and the tests and the set() of its _update_metric.  The     *)
(* assignments, which Resilience interleaves one by one with the sections, *)
(* are one step here, as each publication of the loop that falls between   *)
(* them is followed by the one of w.                                       *)

\* Mutant: the reset is not published.
Configure_NotShown(w, e, t) ==
  /\ publishing[w] = "none"
  /\ enabled' = e
  /\ threshold' = t
  /\ state' = "CLOSED"
  /\ failures' = 0
  /\ elapsed' = TRUE
  /\ windowProbes' = 0
  /\ cancelled' = FALSE
  /\ UNCHANGED <<metric, call>>

Configure(w, e, t) ==
  /\ enabled' = e
  /\ threshold' = t
  /\ state' = "CLOSED"
  /\ failures' = 0
  /\ elapsed' = TRUE
  /\ UpdateMetric(w)
  /\ windowProbes' = 0
  /\ cancelled' = FALSE
  /\ UNCHANGED call

\* recovery_timeout has passed since last_failure_time.
Elapse ==
  /\ ~elapsed
  /\ elapsed' = TRUE
  /\ UNCHANGED <<state, failures, knobs, metric, call, history>>

Finish(c) == Succeed(c) \/ Fail(c)

Next ==
  \/ \E c \in Callers :
       \/ Bypass(c) \/ AdmitClosed(c) \/ AdmitProbe(c) \/ Reject(c)
       \/ Finish(c) \/ Passthrough(c) \/ Cancel(c)
  \/ \E w \in Workers, e \in BOOLEAN, t \in Thresholds : Configure(w, e, t)
  \/ \E p \in Threads : Look(p) \/ Show(p)
  \/ Elapse

Spec == Init /\ [][Next]_vars

\* Every downstream call ends (each HTTP attempt has a timeout and the number of
\* attempts is finite), time passes, orders keep arriving, and the event loop runs on.
Fairness ==
  /\ \A c \in Callers : WF_vars(Finish(c)) /\ WF_vars(AdmitProbe(c))
  /\ WF_vars(Elapse)
  /\ WF_vars(Look(EventLoop) \/ Show(EventLoop))

FairSpec == Spec /\ Fairness

-----------------------------------------------------------------------------
(* Safety *)

\* A CLOSED breaker has recorded fewer failures than its threshold, whatever the
\* order in which calls admitted earlier, cancelled calls and reconfigurations
\* end: a breaker that should have tripped is never left CLOSED.
ClosedBelowThreshold ==
  state = "CLOSED" => failures = 0 \/ failures < threshold

\* After a failure is recorded, at most one caller is let through as a probe
\* until the next failure is recorded: the race between several callers that
\* find the window elapsed is won by one of them.
OneProbePerWindow == windowProbes <= 1

\* When no thread is in _update_metric the exported gauge shows the state the breaker is
\* in (0 when disabled), after whatever mixture of sections and configurations, unless
\* the thread that set it last had looked before another one set it: then the gauge may
\* be wrong until somebody publishes again.
GaugeSettles ==
  (\A p \in Threads : publishing[p] = "none") /\ ~torn => gauge = GaugeOf(enabled, state)

\* When HALF_OPEN turns callers away, the probe they wait for is in flight: it is never
\* forgotten, unless it was cancelled.
HalfOpenHasProbe ==
  state = "HALF_OPEN" => cancelled \/ \E c \in Callers : call[c] = "probe"

\* The same without the exception.
HalfOpenAwaitsProbe ==
  state = "HALF_OPEN" => \E c \in Callers : call[c] = "probe"

\* At most one probe is in flight.
AtMostOneProbeInFlight ==
  \A c, d \in Callers : call[c] = "probe" /\ call[d] = "probe" => c = d

\* A late success of a call admitted before the breaker tripped does not close an
\* OPEN breaker: only a probe that ends, or a reconfiguration (which leaves every
\* caller where it is), does.
OpenIgnoresLateSuccess ==
  [][ state = "OPEN" /\ state' = "CLOSED" /\ call' # call
        => \E c \in Callers : call[c] = "probe" /\ call'[c] = "idle" ]_vars

-----------------------------------------------------------------------------
(* Liveness *)

\* HALF_OPEN does not last: the probe's end takes the breaker out of it, unless it was
\* cancelled.
HalfOpenResolves == (state = "HALF_OPEN") ~> (state # "HALF_OPEN" \/ cancelled)

\* Once no payment call fails any more and no probe is cancelled, the breaker (while it
\* is enabled) closes again by itself and stays CLOSED.
Recovers ==
  <>[][\A c \in Callers : ~Fail(c)]_vars
    => <>[](enabled => state = "CLOSED" \/ cancelled)
=============================================================================
