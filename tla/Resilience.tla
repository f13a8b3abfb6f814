----------------------------- MODULE Resilience -----------------------------
(***************************************************************************)
(* The resilience settings of services/shared/orchestrator.py, edited      *)
(* while orders run: POST /resilience/mode, /resilience/retries,           *)
(* /resilience/circuit-breaker and the orchestrator's chaos settings       *)
(* against the payment breaker.                                            *)
(*                                                                         *)
(* The endpoints are synchronous, so each request runs in a worker thread, *)
(* takes no lock, and assigns the globals one statement after the other.   *)
(* The breaker's critical sections run on the event loop: one coroutine    *)
(* at a time (section), but a thread's statement can fall between two of   *)
(* its statements.  CircuitBreaker takes a section and a configure() for   *)
(* one step each; here every statement that reads or assigns shared state  *)
(* is a step (failures += 1 is one: CPython 3.12 switches threads at calls *)
(* and jumps only).                                                        *)
(*                                                                         *)
(* delay_ms and recovery_timeout are handled like count and threshold and  *)
(* left out; chaos is TRUE when a fault rate or the latency is not 0.      *)
(***************************************************************************)
EXTENDS Integers, Sequences, FiniteSets

CONSTANTS
  Editors,        \* worker threads that run settings requests
  Callers,        \* coroutines that call payment through the breaker
  SimCallers,     \* those run by the simulator task, which can be cancelled
  Counts,         \* retry counts a request may ask for
  Thresholds,     \* failure thresholds a request may ask for
  PresetCount,      \* retries_count of MODE_PRESETS, and the initial count
  PresetThreshold,  \* breaker_threshold of MODE_PRESETS, and the initial threshold
  FailureCap,     \* where the model's failure counter saturates
  MaxRequests,    \* bound: settings requests in a behaviour
  None            \* an optional field that is not given; no section

ASSUME ResilienceAssumption ==
  /\ SimCallers \subseteq Callers
  /\ Counts \subseteq Int /\ PresetCount \in Counts
  /\ Thresholds \subseteq Int /\ PresetThreshold \in Thresholds
  /\ FailureCap \in Nat \ {0}
  /\ \A t \in Thresholds : t <= FailureCap
  /\ MaxRequests \in Nat

VARIABLES
  settings,   \* the module's globals and the fields of payment_cb
  todo,       \* the assignments each request still has to make
  asked,      \* history: what each running request asked for
  clean,      \* history: no different request overlapped it
  preset,     \* history: nothing was asked since a clean mode request ended
  call,       \* where each caller is
  section,    \* the critical section in progress: who, and its next statement
  cancelled,  \* history: a probe was cancelled
  requests    \* history: number of requests

vars == <<settings, todo, asked, clean, preset, call, section, cancelled, requests>>
edits == <<todo, asked, clean, preset, requests>>

\* MODE_PRESETS
Modes == {"baseline", "retries", "breaker"}
Preset(m) ==
  [retries   |-> m = "retries",
   count     |-> IF m = "retries" THEN PresetCount ELSE None,
   enabled   |-> m = "breaker",
   threshold |-> IF m = "breaker" THEN PresetThreshold ELSE None]

Stages == {"gate", "window", "probe", "stamp", "judge", "open", "close", "reset"}
CallStates == {"idle", "calling", "probe", "bypass"}

ASSUME NoneAssumption ==
  /\ None \notin BOOLEAN /\ None \notin Counts /\ None \notin Thresholds
  /\ None \notin [who : Callers, at : Stages]

TypeOK ==
  /\ settings \in [retries : BOOLEAN, count : Counts, enabled : BOOLEAN,
                   threshold : Thresholds, state : {"CLOSED", "OPEN", "HALF_OPEN"},
                   failures : 0 .. FailureCap, elapsed : BOOLEAN, chaos : BOOLEAN,
                   mode : Modes]
  /\ \A e \in Editors : \A i \in DOMAIN todo[e] : todo[e][i].name \in DOMAIN settings
  /\ clean \in [Editors -> BOOLEAN]
  /\ preset \in BOOLEAN /\ cancelled \in BOOLEAN
  /\ call \in [Callers -> CallStates]
  /\ section = None \/ section \in [who : Callers, at : Stages]
  /\ requests \in 0 .. MaxRequests

Init ==
  /\ settings = [retries |-> FALSE, count |-> PresetCount, enabled |-> TRUE,
                 threshold |-> PresetThreshold,
                 state |-> "CLOSED", failures |-> 0, elapsed |-> TRUE,
                 chaos |-> FALSE, mode |-> "breaker"]
  /\ todo = [e \in Editors |-> <<>>]
  /\ asked = [e \in Editors |-> None]
  /\ clean = [e \in Editors |-> FALSE]
  /\ preset = TRUE
  /\ call = [c \in Callers |-> "idle"]
  /\ section = None
  /\ cancelled = FALSE
  /\ requests = 0

-----------------------------------------------------------------------------
(* The assignments of each request, in the order of the source.            *)

Assignment(n, v) == [name |-> n, value |-> v]
\* if v is not None: n = v
Given(n, v) == IF v = None THEN <<>> ELSE <<Assignment(n, v)>>

\* Mutant: the reset comes first, the knobs are stored afterwards.
ConfigureSteps_ResetFirst(enabled, threshold) ==
  <<Assignment("state", "CLOSED"), Assignment("failures", 0), Assignment("elapsed", TRUE)>>
    \o Given("enabled", enabled) \o Given("threshold", threshold)

\* configure(): the knobs that are given, then the reset.  A last_failure_time of 0
\* is a recovery window that has passed.
ConfigureSteps(enabled, threshold) ==
  Given("enabled", enabled) \o Given("threshold", threshold)
    \o <<Assignment("state", "CLOSED"), Assignment("failures", 0), Assignment("elapsed", TRUE)>>

RetriesSteps(enabled, count) == Given("retries", enabled) \o Given("count", count)

\* Mutant: the retry switch is only touched when the preset turns it on.
ModeSteps_RetriesStay(m) ==
  LET p == Preset(m)
  IN (IF p.retries THEN <<Assignment("retries", TRUE)>> ELSE <<>>) \o Given("count", p.count)
       \o ConfigureSteps(p.enabled, p.threshold)
       \o <<Assignment("chaos", FALSE), Assignment("mode", m)>>

\* set_mode().  An unknown mode is refused before anything is assigned.
ModeSteps(m) ==
  LET p == Preset(m)
  IN <<Assignment("retries", p.retries)>> \o Given("count", p.count)
       \o ConfigureSteps(p.enabled, p.threshold)
       \o <<Assignment("chaos", FALSE), Assignment("mode", m)>>

-----------------------------------------------------------------------------
(* Requests.                                                               *)

Busy(e) == todo[e] # <<>>

\* A request enters editor e: _ensure_leader(), a read of the pod's view of the
\* election that may come out either way at any time, has let it in.
Begin(e, request, steps) ==
  /\ ~Busy(e)
  /\ steps # <<>>
  /\ requests < MaxRequests
  /\ requests' = requests + 1
  /\ asked' = [asked EXCEPT ![e] = request]
  /\ todo' = [todo EXCEPT ![e] = steps]
  /\ clean' = [d \in Editors |->
                 IF d = e THEN \A o \in Editors : Busy(o) => asked[o] = request
                 ELSE clean[d] /\ asked[d] = request]
  /\ preset' = FALSE
  /\ UNCHANGED <<settings, call, section, cancelled>>

\* Mutant: a mode that is not in MODE_PRESETS gets an empty preset.
SetMode_Unknown(e) ==
  \E m \in Modes \union {"other"} : Begin(e, <<"mode", m>>, ModeSteps(m))

SetMode(e) == \E m \in Modes : Begin(e, <<"mode", m>>, ModeSteps(m))

SetRetries(e) ==
  \E on \in BOOLEAN \union {None}, n \in Counts \union {None} :
    Begin(e, <<"retries", on, n>>, RetriesSteps(on, n))

SetBreaker(e) ==
  \E on \in BOOLEAN \union {None}, t \in Thresholds \union {None} :
    Begin(e, <<"breaker", on, t>>, ConfigureSteps(on, t))

SetChaos(e) ==
  \E on \in BOOLEAN : Begin(e, <<"chaos", on>>, <<Assignment("chaos", on)>>)

\* The thread of editor e executes its next assignment.
Assign(e) ==
  /\ Busy(e)
  /\ LET a == Head(todo[e]) IN
       /\ settings' = [settings EXCEPT ![a.name] = a.value]
       /\ todo' = [todo EXCEPT ![e] = Tail(todo[e])]
       /\ IF Len(todo[e]) = 1
            THEN /\ preset' = (preset \/ (clean[e] /\ asked[e][1] = "mode"))
                 /\ asked' = [asked EXCEPT ![e] = None]
                 /\ clean' = [clean EXCEPT ![e] = FALSE]
            ELSE UNCHANGED <<preset, asked, clean>>
  /\ UNCHANGED <<call, section, cancelled, requests>>

-----------------------------------------------------------------------------
(* call(), on the event loop: only one coroutine is inside a section.      *)

InFlight(c) == call[c] \in {"calling", "probe"}
Loop(c) == section = None /\ c \in Callers
At(c, stage) == section = [who |-> c, at |-> stage]
GoTo(c, stage) == section' = [who |-> c, at |-> stage]
Becomes(c, s) == call' = [call EXCEPT ![c] = s] /\ section' = None
Reads == UNCHANGED <<settings, cancelled>> /\ UNCHANGED edits
Stores(n, v) ==
  /\ settings' = [settings EXCEPT ![n] = v]
  /\ UNCHANGED <<edits, cancelled>>

\* if not self.enabled: return await func()
Enter(c) ==
  /\ Loop(c) /\ call[c] = "idle"
  /\ IF settings.enabled THEN GoTo(c, "gate") /\ UNCHANGED call
                         ELSE Becomes(c, "bypass")
  /\ Reads

\* if self.state == OPEN ... elif self.state == HALF_OPEN ...  A caller that is turned away
\* is idle again.
Gate(c) ==
  /\ At(c, "gate")
  /\ CASE settings.state = "CLOSED" -> Becomes(c, "calling")
       [] settings.state = "HALF_OPEN" -> Becomes(c, "idle")
       [] settings.state = "OPEN" -> GoTo(c, "window") /\ UNCHANGED call
  /\ Reads

\* if time.time() - self.last_failure_time > self.recovery_timeout
Window(c) ==
  /\ At(c, "window")
  /\ IF settings.elapsed THEN GoTo(c, "probe") /\ UNCHANGED call
                         ELSE Becomes(c, "idle")
  /\ Reads

\* self.state = HALF_OPEN; is_probe = True
Probe(c) ==
  /\ At(c, "probe")
  /\ settings' = [settings EXCEPT !.state = "HALF_OPEN"]
  /\ Becomes(c, "probe")
  /\ cancelled' = FALSE
  /\ UNCHANGED edits

\* The downstream call raised: self.failures += 1
Fail(c) ==
  /\ Loop(c) /\ InFlight(c)
  /\ Stores("failures", IF settings.failures < FailureCap THEN settings.failures + 1
                                                          ELSE FailureCap)
  /\ GoTo(c, "stamp") /\ UNCHANGED call

Stamp(c) ==
  /\ At(c, "stamp")
  /\ Stores("elapsed", FALSE)
  /\ GoTo(c, "judge") /\ UNCHANGED call

\* if is_probe or self.failures >= self.failure_threshold
Judge(c) ==
  /\ At(c, "judge")
  /\ IF call[c] = "probe" \/ settings.failures >= settings.threshold
       THEN GoTo(c, "open") /\ UNCHANGED call
       ELSE Becomes(c, "idle")
  /\ Reads

Trip(c) ==
  /\ At(c, "open")
  /\ Stores("state", "OPEN")
  /\ Becomes(c, "idle")

\* The downstream call returned.
Succeed(c) ==
  /\ Loop(c) /\ InFlight(c)
  /\ CASE call[c] = "probe" \/ settings.state = "HALF_OPEN" -> GoTo(c, "close") /\ UNCHANGED call
       [] call[c] = "calling" /\ settings.state = "CLOSED" -> GoTo(c, "reset") /\ UNCHANGED call
       [] call[c] = "calling" /\ settings.state = "OPEN" -> Becomes(c, "idle")
  /\ Reads

Close(c) ==
  /\ At(c, "close")
  /\ Stores("state", "CLOSED")
  /\ GoTo(c, "reset") /\ UNCHANGED call

Reset(c) ==
  /\ At(c, "reset")
  /\ Stores("failures", 0)
  /\ Becomes(c, "idle")

\* A call made while the breaker was disabled ends: nothing is recorded.
Passthrough(c) ==
  /\ Loop(c) /\ call[c] = "bypass"
  /\ Becomes(c, "idle")
  /\ Reads

\* simulate_stop cancels the coroutine inside the awaited call.
Cancel(c) ==
  /\ Loop(c) /\ c \in SimCallers
  /\ InFlight(c) \/ call[c] = "bypass"
  /\ Becomes(c, "idle")
  /\ cancelled' = (cancelled \/ call[c] = "probe")
  /\ UNCHANGED <<settings, edits>>

\* recovery_timeout passes.  Nobody can tell before the breaker is OPEN or looks.
Elapse ==
  /\ ~settings.elapsed
  /\ settings.state = "OPEN" \/ (section # None /\ section.at = "window")
  /\ settings' = [settings EXCEPT !.elapsed = TRUE]
  /\ UNCHANGED <<edits, call, section, cancelled>>

Next ==
  \/ \E e \in Editors :
       SetMode(e) \/ SetRetries(e) \/ SetBreaker(e) \/ SetChaos(e) \/ Assign(e)
  \/ \E c \in Callers :
       \/ Enter(c) \/ Gate(c) \/ Window(c) \/ Probe(c)
       \/ Fail(c) \/ Stamp(c) \/ Judge(c) \/ Trip(c)
       \/ Succeed(c) \/ Close(c) \/ Reset(c) \/ Passthrough(c) \/ Cancel(c)
  \/ Elapse

Spec == Init /\ [][Next]_vars

-----------------------------------------------------------------------------
(* A mode is "a coherent preset": after a mode request that overlapped no  *)
(* different request, and until another one starts, every knob the preset  *)
(* names has its value and the chaos is off, whatever was set before, and  *)
(* also while duplicates of that request are still running.                *)
ModeIsCoherent ==
  preset =>
    LET p == Preset(settings.mode)
    IN /\ ~settings.chaos
       /\ \A n \in DOMAIN p : p[n] = None \/ settings[n] = p[n]

\* However the statements of configure() fall between those of the breaker's sections,
\* once both are done the breaker is in a state it can leave: a CLOSED one has not
\* passed its threshold, a HALF_OPEN one has its probe in flight (unless it was
\* cancelled, see CircuitBreaker!HalfOpenHasProbe).
SettledBreaker ==
  section = None /\ (\A e \in Editors : ~Busy(e)) =>
    /\ settings.state = "CLOSED" =>
         settings.failures = 0 \/ settings.failures < settings.threshold
    /\ settings.state = "HALF_OPEN" =>
         cancelled \/ \E c \in Callers : call[c] = "probe"
=============================================================================
