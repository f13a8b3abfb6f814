--------------------------- MODULE ResilienceProofs ---------------------------
(***************************************************************************)
(* Proofs about Resilience for any number of settings requests and of      *)
(* callers, in any interleaving of their statements: the type invariant,   *)
(* that a mode is a coherent preset (ModeIsCoherent, from ModeInv: what    *)
(* the requests at work may still store), and that the breaker settles     *)
(* (SettledBreaker, from BreakerInv: who is still about to repair it).     *)
(***************************************************************************)
EXTENDS Resilience, TLAPS

-----------------------------------------------------------------------------
(* Sequences of assignments as the sets of their elements *)

\* The elements of a sequence.
Items(s) == {s[i] : i \in DOMAIN s}

LEMMA ItemsOfConcat ==
  ASSUME NEW S, NEW s \in Seq(S), NEW t \in Seq(S)
  PROVE  /\ s \o t \in Seq(S)
         /\ Items(s \o t) = Items(s) \union Items(t)
<1>1. /\ s \o t \in Seq(S) /\ Len(s \o t) = Len(s) + Len(t)
      /\ \A i \in 1 .. Len(s) : (s \o t)[i] = s[i]
      /\ \A i \in 1 .. Len(t) : (s \o t)[Len(s) + i] = t[i]
  OBVIOUS
<1>2. ASSUME NEW x \in Items(s \o t) PROVE x \in Items(s) \union Items(t)
  <2>1. PICK i \in 1 .. Len(s) + Len(t) : x = (s \o t)[i]
    BY <1>1, <1>2 DEF Items
  <2>2. CASE i \in 1 .. Len(s)
    BY <1>1, <2>1, <2>2 DEF Items
  <2>3. CASE i \notin 1 .. Len(s)
    <3>1. i - Len(s) \in 1 .. Len(t) /\ i = Len(s) + (i - Len(s))
      BY <2>1, <2>3
    <3>2. x = t[i - Len(s)]
      BY <1>1, <2>1, <3>1
    <3>3. QED
      BY <3>1, <3>2 DEF Items
  <2>4. QED
    BY <2>2, <2>3
<1>3. ASSUME NEW x \in Items(s) PROVE x \in Items(s \o t)
  <2>1. PICK i \in 1 .. Len(s) : x = s[i]
    BY <1>3 DEF Items
  <2>2. i \in DOMAIN (s \o t) /\ x = (s \o t)[i]
    BY <1>1, <2>1
  <2>3. QED
    BY <2>2 DEF Items
<1>4. ASSUME NEW x \in Items(t) PROVE x \in Items(s \o t)
  <2>1. PICK i \in 1 .. Len(t) : x = t[i]
    BY <1>4 DEF Items
  <2>2. Len(s) + i \in DOMAIN (s \o t) /\ x = (s \o t)[Len(s) + i]
    BY <1>1, <2>1
  <2>3. QED
    BY <2>2 DEF Items
<1>5. QED
  BY <1>1, <1>2, <1>3, <1>4

LEMMA ItemsOfTail ==
  ASSUME NEW S, NEW s \in Seq(S), s # <<>>
  PROVE  /\ Head(s) \in S /\ Tail(s) \in Seq(S) /\ Items(s) \subseteq S
         /\ Items(s) = {Head(s)} \union Items(Tail(s))
<1>1. /\ Head(s) = s[1] /\ Len(s) \in Nat \ {0} /\ DOMAIN s = 1 .. Len(s)
      /\ Tail(s) \in Seq(S) /\ DOMAIN Tail(s) = 1 .. Len(s) - 1
      /\ \A i \in 1 .. Len(s) - 1 : Tail(s)[i] = s[i + 1]
  OBVIOUS
<1>2. ASSUME NEW i \in 2 .. Len(s) PROVE s[i] \in Items(Tail(s))
  <2>1. i - 1 \in DOMAIN Tail(s) /\ Tail(s)[i - 1] = s[i]
    BY <1>1
  <2>2. QED
    BY <2>1 DEF Items
<1>3. \A i \in DOMAIN Tail(s) : i + 1 \in DOMAIN s /\ Tail(s)[i] = s[i + 1]
  BY <1>1
<1>4. QED
  BY <1>1, <1>2, <1>3 DEF Items

LEMMA ItemsOfNone == ASSUME NEW S PROVE <<>> \in Seq(S) /\ Items(<<>>) = {}
BY DEF Items

LEMMA ItemsOfOne ==
  ASSUME NEW S, NEW a \in S PROVE <<a>> \in Seq(S) /\ Items(<<a>>) = {a}
BY DEF Items

LEMMA ItemsOfTwo ==
  ASSUME NEW S, NEW a \in S, NEW b \in S
  PROVE  <<a, b>> \in Seq(S) /\ Items(<<a, b>>) = {a, b}
<1>1. DOMAIN <<a, b>> = {1, 2}
  OBVIOUS
<1>2. QED
  BY <1>1 DEF Items

LEMMA ItemsOfThree ==
  ASSUME NEW S, NEW a \in S, NEW b \in S, NEW c \in S
  PROVE  <<a, b, c>> \in Seq(S) /\ Items(<<a, b, c>>) = {a, b, c}
<1>1. DOMAIN <<a, b, c>> = {1, 2, 3}
  OBVIOUS
<1>2. QED
  BY <1>1 DEF Items

-----------------------------------------------------------------------------
(* What the requests store *)

\* What a request may still assign.
Assignments ==
  [name : {"retries", "enabled", "chaos"}, value : BOOLEAN]
    \union [name : {"count"}, value : Counts] \union [name : {"threshold"}, value : Thresholds]
    \union [name : {"state"}, value : {"CLOSED"}] \union [name : {"failures"}, value : {0}]
    \union [name : {"elapsed"}, value : {TRUE}] \union [name : {"mode"}, value : Modes]

Settings ==
  [retries : BOOLEAN, count : Counts, enabled : BOOLEAN, threshold : Thresholds,
   state : {"CLOSED", "OPEN", "HALF_OPEN"}, failures : 0 .. FailureCap, elapsed : BOOLEAN,
   chaos : BOOLEAN, mode : Modes]

\* One assignment changes one setting, within its type.
LEMMA OneAssignment ==
  ASSUME settings \in Settings, NEW a \in Assignments,
         settings' = [settings EXCEPT ![a.name] = a.value]
  PROVE  /\ settings' \in Settings
         /\ a.name \in DOMAIN settings /\ settings'[a.name] = a.value
         /\ \A n \in DOMAIN settings : n # a.name => settings'[n] = settings[n]
<1> USE ResilienceAssumption
<1>1. CASE a \in [name : {"retries", "enabled", "chaos"}, value : BOOLEAN]
  BY <1>1 DEF Settings
<1>2. CASE a \in [name : {"count"}, value : Counts]
  BY <1>2 DEF Settings
<1>3. CASE a \in [name : {"threshold"}, value : Thresholds]
  BY <1>3 DEF Settings
<1>4. CASE a \in [name : {"state"}, value : {"CLOSED"}]
  BY <1>4 DEF Settings
<1>5. CASE a \in [name : {"failures"}, value : {0}]
  BY <1>5 DEF Settings
<1>6. CASE a \in [name : {"elapsed"}, value : {TRUE}]
  BY <1>6 DEF Settings
<1>7. CASE a \in [name : {"mode"}, value : Modes]
  BY <1>7 DEF Settings
<1>8. QED
  BY <1>1, <1>2, <1>3, <1>4, <1>5, <1>6, <1>7 DEF Assignments

\* Whoever has a threshold or a state to store resets the failures afterwards.
ResetsLast(s) ==
  \A i \in DOMAIN s : s[i].name \in {"threshold", "state"} =>
    \E j \in DOMAIN s : j > i /\ s[j].name = "failures"

Names(s) == {a.name : a \in Items(s)}

LEMMA ResetsBefore ==
  ASSUME NEW S, NEW s \in Seq(S), NEW t \in Seq(S), ResetsLast(t), "failures" \in Names(t)
  PROVE  ResetsLast(s \o t)
<1>1. /\ s \o t \in Seq(S) /\ DOMAIN (s \o t) = 1 .. Len(s) + Len(t)
      /\ Len(s) \in Nat /\ Len(t) \in Nat /\ DOMAIN t = 1 .. Len(t)
      /\ \A i \in 1 .. Len(t) : (s \o t)[Len(s) + i] = t[i]
  OBVIOUS
<1> SUFFICES ASSUME NEW i \in 1 .. Len(s) + Len(t), (s \o t)[i].name \in {"threshold", "state"}
             PROVE  \E j \in 1 .. Len(s) + Len(t) : j > i /\ (s \o t)[j].name = "failures"
  BY <1>1 DEF ResetsLast
<1>2. CASE i <= Len(s)
  <2>1. PICK k \in 1 .. Len(t) : t[k].name = "failures"
    BY <1>1 DEF Names, Items
  <2>2. Len(s) + k \in 1 .. Len(s) + Len(t) /\ Len(s) + k > i
    BY <1>1, <1>2
  <2>3. (s \o t)[Len(s) + k].name = "failures"
    BY <1>1, <2>1
  <2>4. QED
    BY <2>2, <2>3
<1>3. CASE i > Len(s)
  <2>1. i - Len(s) \in 1 .. Len(t) /\ t[i - Len(s)].name \in {"threshold", "state"}
    <3>1. i - Len(s) \in 1 .. Len(t) /\ i = Len(s) + (i - Len(s))
      BY <1>1, <1>3
    <3>2. QED
      BY <1>1, <3>1
  <2>2. PICK k \in 1 .. Len(t) : k > i - Len(s) /\ t[k].name = "failures"
    BY <1>1, <2>1 DEF ResetsLast
  <2>3. Len(s) + k \in 1 .. Len(s) + Len(t) /\ Len(s) + k > i
    BY <1>1, <2>2
  <2>4. (s \o t)[Len(s) + k].name = "failures"
    BY <1>1, <2>2
  <2>5. QED
    BY <2>3, <2>4
<1>4. QED
  BY <1>1, <1>2, <1>3

LEMMA ResetsAfter ==
  ASSUME NEW S, NEW s \in Seq(S), NEW t \in Seq(S), ResetsLast(s),
         Names(t) \cap {"threshold", "state"} = {}
  PROVE  ResetsLast(s \o t)
<1>1. /\ s \o t \in Seq(S) /\ DOMAIN (s \o t) = 1 .. Len(s) + Len(t)
      /\ Len(s) \in Nat /\ Len(t) \in Nat /\ DOMAIN t = 1 .. Len(t) /\ DOMAIN s = 1 .. Len(s)
      /\ \A i \in 1 .. Len(t) : (s \o t)[Len(s) + i] = t[i]
      /\ \A i \in 1 .. Len(s) : (s \o t)[i] = s[i]
  OBVIOUS
<1> SUFFICES ASSUME NEW i \in 1 .. Len(s) + Len(t), (s \o t)[i].name \in {"threshold", "state"}
             PROVE  \E j \in 1 .. Len(s) + Len(t) : j > i /\ (s \o t)[j].name = "failures"
  BY <1>1 DEF ResetsLast
<1>2. i <= Len(s)
  <2> SUFFICES ASSUME i > Len(s) PROVE FALSE
    BY <1>1
  <2>1. i - Len(s) \in 1 .. Len(t) /\ i = Len(s) + (i - Len(s))
    BY <1>1
  <2>2. t[i - Len(s)].name \in Names(t)
    BY <1>1, <2>1 DEF Names, Items
  <2>3. QED
    BY <1>1, <2>1, <2>2
<1>3. PICK j \in 1 .. Len(s) : j > i /\ s[j].name = "failures"
  BY <1>1, <1>2 DEF ResetsLast
<1>4. QED
  BY <1>1, <1>3

LEMMA ResetsOfTail ==
  ASSUME NEW S, NEW s \in Seq(S), s # <<>>, ResetsLast(s)
  PROVE  /\ ResetsLast(Tail(s))
         /\ Head(s).name \in {"threshold", "state"} => "failures" \in Names(Tail(s))
<1>1. /\ Head(s) = s[1] /\ Len(s) \in Nat \ {0} /\ DOMAIN s = 1 .. Len(s)
      /\ DOMAIN Tail(s) = 1 .. Len(s) - 1
      /\ \A i \in 1 .. Len(s) - 1 : Tail(s)[i] = s[i + 1]
  OBVIOUS
<1>2. ASSUME NEW j \in 1 .. Len(s), j > 1 PROVE j - 1 \in DOMAIN Tail(s) /\ Tail(s)[j - 1] = s[j]
  BY <1>1, <1>2
<1>3. ASSUME NEW i \in 1 .. Len(s) - 1, Tail(s)[i].name \in {"threshold", "state"}
      PROVE  \E j \in 1 .. Len(s) - 1 : j > i /\ Tail(s)[j].name = "failures"
  <2>1. PICK j \in 1 .. Len(s) : j > i + 1 /\ s[j].name = "failures"
    BY <1>1, <1>3 DEF ResetsLast
  <2>2. j - 1 \in 1 .. Len(s) - 1 /\ j - 1 > i /\ Tail(s)[j - 1].name = "failures"
    BY <1>1, <1>2, <2>1
  <2>3. QED
    BY <2>2
<1>4. ASSUME Head(s).name \in {"threshold", "state"} PROVE "failures" \in Names(Tail(s))
  <2>1. PICK j \in 1 .. Len(s) : j > 1 /\ s[j].name = "failures"
    BY <1>1, <1>4 DEF ResetsLast
  <2>2. QED
    BY <1>2, <2>1 DEF Names, Items
<1>5. QED
  BY <1>1, <1>3, <1>4 DEF ResetsLast

LEMMA GivenSteps ==
  ASSUME NEW n, NEW v, v # None => Assignment(n, v) \in Assignments
  PROVE  /\ Given(n, v) \in Seq(Assignments)
         /\ Items(Given(n, v)) = IF v = None THEN {} ELSE {Assignment(n, v)}
<1>1. CASE v = None
  BY <1>1, ItemsOfNone DEF Given
<1>2. CASE v # None
  BY <1>2, ItemsOfOne DEF Given
<1>3. QED
  BY <1>1, <1>2

TheReset == {Assignment("state", "CLOSED"), Assignment("failures", 0), Assignment("elapsed", TRUE)}

LEMMA ConfigureItems ==
  ASSUME NEW on \in BOOLEAN \union {None}, NEW t \in Thresholds \union {None}
  PROVE  /\ ConfigureSteps(on, t) \in Seq(Assignments)
         /\ Items(ConfigureSteps(on, t)) =
              Items(Given("enabled", on)) \union Items(Given("threshold", t)) \union TheReset
         /\ ResetsLast(ConfigureSteps(on, t))
<1> DEFINE reset == <<Assignment("state", "CLOSED"), Assignment("failures", 0), Assignment("elapsed", TRUE)>>
<1>1. /\ Given("enabled", on) \in Seq(Assignments)
      /\ Given("threshold", t) \in Seq(Assignments)
  BY GivenSteps DEF Assignment, Assignments
<1>2. TheReset \subseteq Assignments
  BY DEF TheReset, Assignment, Assignments
<1>3. reset \in Seq(Assignments) /\ Items(reset) = TheReset
  <2>1. /\ Assignment("state", "CLOSED") \in Assignments /\ Assignment("failures", 0) \in Assignments
        /\ Assignment("elapsed", TRUE) \in Assignments
    BY <1>2 DEF TheReset
  <2>2. QED
    BY <2>1, ItemsOfThree DEF TheReset
<1>4. ResetsLast(reset) /\ "failures" \in Names(reset)
  <2>1. /\ DOMAIN reset = {1, 2, 3} /\ reset[1] = Assignment("state", "CLOSED")
        /\ reset[2] = Assignment("failures", 0) /\ reset[3] = Assignment("elapsed", TRUE)
    OBVIOUS
  <2>2. /\ reset[1].name = "state" /\ reset[2].name = "failures" /\ reset[3].name = "elapsed"
    BY <2>1 DEF Assignment
  <2> HIDE DEF reset
  <2>3. ResetsLast(reset)
    <3>1. \A i \in DOMAIN reset : reset[i].name \in {"threshold", "state"} => i = 1
      BY <2>1, <2>2
    <3>2. 2 \in DOMAIN reset /\ 2 > 1 /\ reset[2].name = "failures"
      BY <2>1, <2>2
    <3>3. QED
      BY <3>1, <3>2 DEF ResetsLast
  <2>4. reset[2] \in Items(reset)
    BY <2>1 DEF Items
  <2>5. QED
    BY <2>2, <2>3, <2>4 DEF Names
<1>5. ConfigureSteps(on, t) = (Given("enabled", on) \o Given("threshold", t)) \o reset
  BY DEF ConfigureSteps
<1> HIDE DEF reset
<1>6. Given("enabled", on) \o Given("threshold", t) \in Seq(Assignments)
      /\ Items(Given("enabled", on) \o Given("threshold", t)) =
           Items(Given("enabled", on)) \union Items(Given("threshold", t))
  BY <1>1, ItemsOfConcat
<1>7. QED
  <2> DEFINE most == Given("enabled", on) \o Given("threshold", t)
  <2>1. most \in Seq(Assignments)
    BY <1>6
  <2> HIDE DEF most
  <2>2. ResetsLast(most \o reset)
    BY <1>3, <1>4, <2>1, ResetsBefore
  <2>3. most \o reset \in Seq(Assignments) /\ Items(most \o reset) = Items(most) \union Items(reset)
    BY <1>3, <2>1, ItemsOfConcat
  <2>4. ConfigureSteps(on, t) = most \o reset
    BY <1>5 DEF most
  <2>5. Items(most) = Items(Given("enabled", on)) \union Items(Given("threshold", t))
    BY <1>6 DEF most
  <2>6. QED
    BY <1>3, <2>2, <2>3, <2>4, <2>5

LEMMA PresetTyped ==
  ASSUME NEW m \in Modes
  PROVE  /\ Preset(m).retries \in BOOLEAN /\ Preset(m).enabled \in BOOLEAN
         /\ Preset(m).count \in Counts \union {None}
         /\ Preset(m).threshold \in Thresholds \union {None}
BY ResilienceAssumption DEF Preset

LEMMA ModeItems ==
  ASSUME NEW m \in Modes
  PROVE  /\ ModeSteps(m) \in Seq(Assignments)
         /\ Items(ModeSteps(m)) =
              {Assignment("retries", Preset(m).retries), Assignment("chaos", FALSE),
               Assignment("mode", m)}
                \union Items(Given("count", Preset(m).count))
                \union Items(Given("enabled", Preset(m).enabled))
                \union Items(Given("threshold", Preset(m).threshold)) \union TheReset
         /\ ResetsLast(ModeSteps(m))
<1> DEFINE p == Preset(m)
           first == <<Assignment("retries", p.retries)>>
           count == Given("count", p.count)
           middle == ConfigureSteps(p.enabled, p.threshold)
           last == <<Assignment("chaos", FALSE), Assignment("mode", m)>>
<1>1. first \in Seq(Assignments) /\ Items(first) = {Assignment("retries", p.retries)}
  <2>1. Assignment("retries", p.retries) \in Assignments
    BY PresetTyped DEF Assignment, Assignments
  <2>2. QED
    BY <2>1, ItemsOfOne
<1>2. last \in Seq(Assignments) /\ Items(last) = {Assignment("chaos", FALSE), Assignment("mode", m)}
  <2>1. Assignment("chaos", FALSE) \in Assignments /\ Assignment("mode", m) \in Assignments
    BY DEF Assignment, Assignments
  <2>2. QED
    BY <2>1, ItemsOfTwo
<1>3. count \in Seq(Assignments)
  <2>1. p.count # None => Assignment("count", p.count) \in Assignments
    BY PresetTyped DEF Assignment, Assignments
  <2>2. QED
    BY <2>1, GivenSteps
<1>4. /\ middle \in Seq(Assignments) /\ ResetsLast(middle)
      /\ Items(middle) = Items(Given("enabled", p.enabled))
                           \union Items(Given("threshold", p.threshold)) \union TheReset
  BY PresetTyped, ConfigureItems
<1>5. "failures" \in Names(middle)
  <2>1. Assignment("failures", 0) \in Items(middle)
    BY <1>4 DEF TheReset
  <2>2. Assignment("failures", 0).name = "failures"
    BY DEF Assignment
  <2> HIDE DEF middle
  <2>3. QED
    BY <2>1, <2>2 DEF Names
<1>6. Names(last) \cap {"threshold", "state"} = {}
  <2>1. Assignment("chaos", FALSE).name = "chaos" /\ Assignment("mode", m).name = "mode"
    BY DEF Assignment
  <2> HIDE DEF last
  <2>2. QED
    BY <1>2, <2>1 DEF Names
<1>7. ModeSteps(m) = ((first \o count) \o middle) \o last
  BY DEF ModeSteps
<1> HIDE DEF first, count, middle, last, p
<1>8. first \o count \in Seq(Assignments) /\ Items(first \o count) = Items(first) \union Items(count)
  BY <1>1, <1>3, ItemsOfConcat
<1>9. /\ (first \o count) \o middle \in Seq(Assignments)
      /\ Items((first \o count) \o middle) = Items(first \o count) \union Items(middle)
      /\ ResetsLast((first \o count) \o middle)
  <2> DEFINE some == first \o count
  <2>1. some \in Seq(Assignments)
    BY <1>8
  <2> HIDE DEF some
  <2>2. ResetsLast(some \o middle)
    BY <1>4, <1>5, <2>1, ResetsBefore
  <2>3. some \o middle \in Seq(Assignments) /\ Items(some \o middle) = Items(some) \union Items(middle)
    BY <1>4, <2>1, ItemsOfConcat
  <2>4. QED
    BY <2>2, <2>3 DEF some
<1>10. /\ ModeSteps(m) \in Seq(Assignments)
       /\ Items(ModeSteps(m)) = Items((first \o count) \o middle) \union Items(last)
       /\ ResetsLast(ModeSteps(m))
  <2> DEFINE most == (first \o count) \o middle
  <2>1. most \in Seq(Assignments) /\ ResetsLast(most)
    BY <1>9
  <2> HIDE DEF most
  <2>2. ResetsLast(most \o last)
    BY <1>2, <1>6, <2>1, ResetsAfter
  <2>3. most \o last \in Seq(Assignments) /\ Items(most \o last) = Items(most) \union Items(last)
    BY <1>2, <2>1, ItemsOfConcat
  <2>4. ModeSteps(m) = most \o last
    BY <1>7 DEF most
  <2>5. QED
    BY <2>2, <2>3, <2>4 DEF most
<1>11. QED
  BY <1>1, <1>2, <1>4, <1>8, <1>9, <1>10 DEF p, count

-----------------------------------------------------------------------------
(* Types, and what a step can be *)

\* TypeOK, and that what is still to be assigned has the type of its setting.
Typed ==
  /\ settings \in Settings
  /\ todo \in [Editors -> Seq(Assignments)]
  /\ DOMAIN asked = Editors
  /\ clean \in [Editors -> BOOLEAN]
  /\ preset \in BOOLEAN /\ cancelled \in BOOLEAN
  /\ call \in [Callers -> CallStates]
  /\ section = None \/ section \in [who : Callers, at : Stages]
  /\ requests \in 0 .. MaxRequests

LEMMA TypedTypeOK == Typed => TypeOK
<1> SUFFICES ASSUME Typed PROVE TypeOK
  OBVIOUS
<1>1. ASSUME NEW e \in Editors, NEW i \in DOMAIN todo[e] PROVE todo[e][i].name \in DOMAIN settings
  <2>1. todo[e][i] \in Assignments
    BY <1>1 DEF Typed
  <2>2. todo[e][i].name \in {"retries", "enabled", "chaos", "count", "threshold", "state",
                             "failures", "elapsed", "mode"}
    BY <2>1 DEF Assignments
  <2>3. QED
    BY <2>2 DEF Typed, Settings
<1>2. QED
  BY <1>1 DEF Typed, TypeOK, Settings

LEMMA InitTyped == Init => Typed
<1> SUFFICES ASSUME Init PROVE Typed
  OBVIOUS
<1>1. settings \in Settings
  BY ResilienceAssumption DEF Init, Settings, Modes
<1>2. todo \in [Editors -> Seq(Assignments)]
  BY DEF Init
<1>3. call \in [Callers -> CallStates] /\ requests \in 0 .. MaxRequests
  BY ResilienceAssumption DEF Init, CallStates
<1>4. QED
  BY <1>1, <1>2, <1>3 DEF Init, Typed

\* A request that may enter: what it asks for and what it will assign.
MayAsk(request, steps) ==
  /\ steps \in Seq(Assignments)
  /\ ResetsLast(steps)
  /\ request[1] = "mode" => \E m \in Modes : request = <<"mode", m>> /\ steps = ModeSteps(m)

LEMMA RequestIs ==
  ASSUME NEW e \in Editors, SetMode(e) \/ SetRetries(e) \/ SetBreaker(e) \/ SetChaos(e)
  PROVE  \E request, steps : Begin(e, request, steps) /\ MayAsk(request, steps)
<1>1. CASE SetMode(e)
  <2>1. PICK m \in Modes : Begin(e, <<"mode", m>>, ModeSteps(m))
    BY <1>1 DEF SetMode
  <2>2. MayAsk(<<"mode", m>>, ModeSteps(m))
    BY ModeItems DEF MayAsk
  <2>3. QED
    BY <2>1, <2>2
<1>2. CASE SetRetries(e)
  <2>1. PICK on \in BOOLEAN \union {None}, n \in Counts \union {None} :
          Begin(e, <<"retries", on, n>>, RetriesSteps(on, n))
    BY <1>2 DEF SetRetries
  <2>2. /\ on # None => Assignment("retries", on) \in Assignments
        /\ n # None => Assignment("count", n) \in Assignments
    BY DEF Assignment, Assignments
  <2>3. Given("retries", on) \in Seq(Assignments) /\ Given("count", n) \in Seq(Assignments)
    BY <2>2, GivenSteps
  <2>4. \A a \in Items(Given("retries", on)) \union Items(Given("count", n)) :
          a.name \in {"retries", "count"}
    BY <2>2, GivenSteps DEF Assignment
  <2>5. /\ RetriesSteps(on, n) \in Seq(Assignments)
        /\ Items(RetriesSteps(on, n)) = Items(Given("retries", on)) \union Items(Given("count", n))
    BY <2>3, ItemsOfConcat DEF RetriesSteps
  <2>6. ResetsLast(RetriesSteps(on, n))
    BY <2>4, <2>5 DEF ResetsLast, Items
  <2>7. MayAsk(<<"retries", on, n>>, RetriesSteps(on, n))
    BY <2>5, <2>6 DEF MayAsk
  <2>8. QED
    BY <2>1, <2>7
<1>3. CASE SetBreaker(e)
  <2>1. PICK on \in BOOLEAN \union {None}, t \in Thresholds \union {None} :
          Begin(e, <<"breaker", on, t>>, ConfigureSteps(on, t))
    BY <1>3 DEF SetBreaker
  <2>2. MayAsk(<<"breaker", on, t>>, ConfigureSteps(on, t))
    BY ConfigureItems DEF MayAsk
  <2>3. QED
    BY <2>1, <2>2
<1>4. CASE SetChaos(e)
  <2>1. PICK on \in BOOLEAN : Begin(e, <<"chaos", on>>, <<Assignment("chaos", on)>>)
    BY <1>4 DEF SetChaos
  <2>2. Assignment("chaos", on) \in Assignments /\ Assignment("chaos", on).name = "chaos"
    BY DEF Assignment, Assignments
  <2>3. /\ <<Assignment("chaos", on)>> \in Seq(Assignments)
        /\ Items(<<Assignment("chaos", on)>>) = {Assignment("chaos", on)}
    BY <2>2, ItemsOfOne
  <2>4. ResetsLast(<<Assignment("chaos", on)>>)
    BY <2>2, <2>3 DEF ResetsLast, Items
  <2>5. MayAsk(<<"chaos", on>>, <<Assignment("chaos", on)>>)
    BY <2>3, <2>4 DEF MayAsk
  <2>6. QED
    BY <2>1, <2>5
<1>5. QED
  BY <1>1, <1>2, <1>3, <1>4

LEMMA BeginTyped ==
  ASSUME Typed, NEW e \in Editors, NEW request, NEW steps,
         Begin(e, request, steps), MayAsk(request, steps)
  PROVE  Typed'
<1>1. todo' \in [Editors -> Seq(Assignments)]
  BY DEF Typed, Begin, MayAsk
<1>2. clean' \in [Editors -> BOOLEAN]
  BY DEF Typed, Begin
<1>3. requests' \in 0 .. MaxRequests
  BY ResilienceAssumption DEF Typed, Begin
<1>4. DOMAIN asked' = Editors /\ preset' \in BOOLEAN
  BY DEF Typed, Begin
<1>5. QED
  BY <1>1, <1>2, <1>3, <1>4 DEF Typed, Begin

\* What the next assignment of a request does.
LEMMA AssignIs ==
  ASSUME Typed, NEW e \in Editors, Assign(e)
  PROVE  \E a \in Assignments :
           /\ a = Head(todo[e]) /\ todo[e] # <<>> /\ todo[e] \in Seq(Assignments)
           /\ settings' \in Settings /\ settings'[a.name] = a.value
           /\ \A n \in DOMAIN settings : n # a.name => settings'[n] = settings[n]
           /\ Items(todo[e]) = {a} \union Items(todo'[e])
           /\ todo'[e] = Tail(todo[e])
           /\ \A d \in Editors : d # e => todo'[d] = todo[d]
           /\ todo' \in [Editors -> Seq(Assignments)]
<1> DEFINE a == Head(todo[e])
<1>1. todo[e] # <<>> /\ todo[e] \in Seq(Assignments)
  BY DEF Typed, Assign, Busy
<1>2. a \in Assignments /\ Tail(todo[e]) \in Seq(Assignments)
      /\ Items(todo[e]) = {a} \union Items(Tail(todo[e]))
  BY <1>1, ItemsOfTail
<1>3. settings' = [settings EXCEPT ![a.name] = a.value]
      /\ todo' = [todo EXCEPT ![e] = Tail(todo[e])]
  BY DEF Assign
<1>4. todo'[e] = Tail(todo[e]) /\ \A d \in Editors : d # e => todo'[d] = todo[d]
  BY <1>3 DEF Typed
<1>5. todo' \in [Editors -> Seq(Assignments)]
  BY <1>2, <1>3 DEF Typed
<1> HIDE DEF a
<1>6. /\ settings' \in Settings /\ settings'[a.name] = a.value
      /\ \A n \in DOMAIN settings : n # a.name => settings'[n] = settings[n]
  BY <1>2, <1>3, OneAssignment DEF Typed
<1>7. QED
  BY <1>1, <1>2, <1>4, <1>5, <1>6 DEF a

LEMMA AssignTyped ==
  ASSUME Typed, NEW e \in Editors, Assign(e) PROVE Typed'
<1>1. settings' \in Settings /\ todo' \in [Editors -> Seq(Assignments)]
  BY AssignIs
<1>2. DOMAIN asked' = Editors
  BY DEF Typed, Assign
<1>3. clean' \in [Editors -> BOOLEAN]
  BY DEF Typed, Assign
<1>4. preset' \in BOOLEAN
  BY DEF Typed, Assign
<1>5. QED
  BY <1>1, <1>2, <1>3, <1>4 DEF Typed, Assign

CallerStep(c) ==
  \/ Enter(c) \/ Gate(c) \/ Window(c) \/ Probe(c) \/ Fail(c) \/ Stamp(c) \/ Judge(c) \/ Trip(c)
  \/ Succeed(c) \/ Close(c) \/ Reset(c) \/ Passthrough(c) \/ Cancel(c)

\* A caller goes on to the next statement of its section, or leaves it.
LEMMA CallerMoves ==
  ASSUME Typed, NEW c \in Callers, CallerStep(c)
  PROVE  \/ UNCHANGED call /\ \E st \in Stages : GoTo(c, st)
         \/ \E s \in CallStates : Becomes(c, s)
<1>1. settings.state \in {"CLOSED", "OPEN", "HALF_OPEN"}
  BY DEF Typed, Settings
<1>2. CASE Enter(c) \/ Window(c) \/ Judge(c)
  BY <1>2 DEF Enter, Window, Judge, Stages, CallStates
<1>3. CASE Gate(c)
  BY <1>1, <1>3 DEF Gate, Stages, CallStates
<1>4. CASE Fail(c) \/ Stamp(c) \/ Close(c)
  BY <1>4 DEF Fail, Stamp, Close, Stages
<1>5. CASE Probe(c) \/ Trip(c) \/ Reset(c) \/ Passthrough(c) \/ Cancel(c)
  BY <1>5 DEF Probe, Trip, Reset, Passthrough, Cancel, CallStates
<1>6. CASE Succeed(c)
  BY <1>1, <1>6 DEF Succeed, InFlight, Stages, CallStates
<1>7. QED
  BY <1>2, <1>3, <1>4, <1>5, <1>6 DEF CallerStep

\* The breaker stores its state, its failures and their time, and nothing else.
LEMMA CallerKeeps ==
  ASSUME Typed, (\E c \in Callers : CallerStep(c)) \/ Elapse
  PROVE  /\ UNCHANGED edits
         /\ settings' \in Settings
         /\ \A n \in DOMAIN settings : n \notin {"state", "failures", "elapsed"}
              => settings'[n] = settings[n]
<1> USE ResilienceAssumption DEF Typed
<1>1. CASE Elapse
  BY <1>1 DEF Elapse, edits, Settings
<1>2. ASSUME NEW c \in Callers, CallerStep(c)
      PROVE  /\ UNCHANGED edits
             /\ \/ UNCHANGED settings
                \/ \E v \in {"CLOSED", "OPEN", "HALF_OPEN"} : settings' = [settings EXCEPT !.state = v]
                \/ \E v \in 0 .. FailureCap : settings' = [settings EXCEPT !.failures = v]
                \/ settings' = [settings EXCEPT !.elapsed = FALSE]
  <2>1. CASE Fail(c)
    <3>1. (IF settings.failures < FailureCap THEN settings.failures + 1 ELSE FailureCap)
            \in 0 .. FailureCap
      BY DEF Settings
    <3>2. QED
      BY <2>1, <3>1 DEF Fail, Stores, edits
  <2>2. CASE Enter(c) \/ Gate(c) \/ Window(c) \/ Judge(c) \/ Succeed(c) \/ Passthrough(c)
    BY <2>2 DEF Enter, Gate, Window, Judge, Succeed, Passthrough, Reads
  <2>3. CASE Probe(c) \/ Cancel(c)
    BY <2>3 DEF Probe, Cancel
  <2>4. CASE Stamp(c) \/ Trip(c) \/ Close(c) \/ Reset(c)
    BY <2>4 DEF Stamp, Trip, Close, Reset, Stores
  <2>5. QED
    BY <1>2, <2>1, <2>2, <2>3, <2>4 DEF CallerStep
<1>3. ASSUME \/ UNCHANGED settings
             \/ \E v \in {"CLOSED", "OPEN", "HALF_OPEN"} : settings' = [settings EXCEPT !.state = v]
             \/ \E v \in 0 .. FailureCap : settings' = [settings EXCEPT !.failures = v]
             \/ settings' = [settings EXCEPT !.elapsed = FALSE]
      PROVE  /\ settings' \in Settings
             /\ \A n \in DOMAIN settings : n \notin {"state", "failures", "elapsed"}
                  => settings'[n] = settings[n]
  BY <1>3 DEF Settings
<1>4. QED
  BY <1>1, <1>2, <1>3

LEMMA CallerTyped ==
  ASSUME Typed, (\E c \in Callers : CallerStep(c)) \/ Elapse PROVE Typed'
<1>1. UNCHANGED edits /\ settings' \in Settings
  BY CallerKeeps
<1>2. CASE Elapse
  BY <1>1, <1>2 DEF Typed, Elapse, edits
<1>3. ASSUME NEW c \in Callers, CallerStep(c)
      PROVE  /\ call' \in [Callers -> CallStates]
             /\ section' = None \/ section' \in [who : Callers, at : Stages]
             /\ cancelled' \in BOOLEAN
  <2>1. \/ UNCHANGED call /\ \E st \in Stages : section' = [who |-> c, at |-> st]
        \/ section' = None /\ \E s \in CallStates : call' = [call EXCEPT ![c] = s]
    BY <1>3, CallerMoves DEF GoTo, Becomes
  <2>2. cancelled' \in BOOLEAN
    BY <1>3 DEF CallerStep, Enter, Gate, Window, Probe, Fail, Stamp, Judge, Trip, Succeed, Close,
                Reset, Passthrough, Cancel, Reads, Stores, Typed
  <2>3. QED
    BY <2>1, <2>2 DEF Typed
<1>4. QED
  BY <1>1, <1>2, <1>3 DEF Typed, edits

-----------------------------------------------------------------------------
(* A mode is a coherent preset *)

\* What a mode stores in a setting, and the settings it stores.
Stored(m, n) == CASE n = "chaos" -> FALSE [] n = "mode" -> m [] OTHER -> Preset(m)[n]
Knobs(m) ==
  {"chaos", "mode"}
    \union {n \in {"retries", "count", "enabled", "threshold"} : Preset(m)[n] # None}

OfMode(e, m) == Busy(e) /\ asked[e] = <<"mode", m>>

\* A mode request stores nothing but its preset and the reset of the breaker.
ModeStores ==
  \A e \in Editors, m \in Modes : OfMode(e, m) =>
    \A a \in Items(todo[e]) :
      \/ a.name \in {"state", "failures", "elapsed"}
      \/ a.name \in Knobs(m) /\ a.value = Stored(m, a.name)

\* A request of a mode is for one of the modes.
AskedModes ==
  \A e \in Editors : Busy(e) /\ asked[e][1] = "mode" => \E m \in Modes : OfMode(e, m)

\* Everybody at work beside a clean request asked for the same.
CleanAlone ==
  \A e \in Editors : clean[e] => Busy(e) /\ \A d \in Editors : Busy(d) => asked[d] = asked[e]

\* Meanwhile each setting of its preset has its value, or is still to be assigned.
CleanProgress ==
  \A e \in Editors, m \in Modes : clean[e] /\ OfMode(e, m) =>
    \A n \in Knobs(m) : settings[n] = Stored(m, n) \/ n \in Names(todo[e])

\* After it everybody still at work is a duplicate of it.
PresetKept ==
  preset => /\ \A n \in Knobs(settings.mode) : settings[n] = Stored(settings.mode, n)
            /\ \A e \in Editors : Busy(e) => asked[e] = <<"mode", settings.mode>>

ModeInv == ModeStores /\ AskedModes /\ CleanAlone /\ CleanProgress /\ PresetKept

LEMMA KnobsOf ==
  ASSUME NEW m \in Modes
  PROVE  /\ {"chaos", "mode"} \subseteq Knobs(m)
         /\ Knobs(m) \subseteq {"chaos", "mode", "retries", "count", "enabled", "threshold"}
         /\ \A s \in Settings : Knobs(m) \subseteq DOMAIN s
         /\ Stored(m, "chaos") = FALSE /\ Stored(m, "mode") = m
         /\ Stored(m, "retries") = Preset(m).retries /\ Stored(m, "count") = Preset(m).count
         /\ Stored(m, "enabled") = Preset(m).enabled
         /\ Stored(m, "threshold") = Preset(m).threshold
BY DEF Knobs, Stored, Settings

\* The assignments of a mode request are its preset and the reset.
LEMMA ModeStepsStore ==
  ASSUME NEW m \in Modes
  PROVE  /\ \A a \in Items(ModeSteps(m)) :
              \/ a.name \in {"state", "failures", "elapsed"}
              \/ a.name \in Knobs(m) /\ a.value = Stored(m, a.name)
         /\ Knobs(m) \subseteq Names(ModeSteps(m))
         /\ ModeSteps(m) # <<>>
<1> DEFINE p == Preset(m)
           Right(a) == \/ a.name \in {"state", "failures", "elapsed"}
                       \/ a.name \in Knobs(m) /\ a.value = Stored(m, a.name)
           G(n, v) == IF v = None THEN {} ELSE {Assignment(n, v)}
<1>1. Items(ModeSteps(m)) =
        {Assignment("retries", p.retries), Assignment("chaos", FALSE), Assignment("mode", m)}
          \union G("count", p.count) \union G("enabled", p.enabled)
          \union G("threshold", p.threshold) \union TheReset
  <2>1. /\ p.count # None => Assignment("count", p.count) \in Assignments
        /\ p.enabled # None => Assignment("enabled", p.enabled) \in Assignments
        /\ p.threshold # None => Assignment("threshold", p.threshold) \in Assignments
    BY PresetTyped DEF Assignment, Assignments
  <2>2. /\ Items(Given("count", p.count)) = G("count", p.count)
        /\ Items(Given("enabled", p.enabled)) = G("enabled", p.enabled)
        /\ Items(Given("threshold", p.threshold)) = G("threshold", p.threshold)
    BY <2>1, GivenSteps
  <2>3. QED
    BY <2>2, ModeItems
<1>2. /\ p.retries # None /\ p.enabled # None
      /\ p.retries = p["retries"] /\ p.enabled = p["enabled"]
      /\ p.count = p["count"] /\ p.threshold = p["threshold"]
  BY PresetTyped, NoneAssumption
<1>3. \A n, v : Assignment(n, v).name = n /\ Assignment(n, v).value = v
  BY DEF Assignment
<1>4. \A a \in TheReset : Right(a)
  BY <1>3 DEF TheReset
<1>5. /\ Right(Assignment("retries", p.retries)) /\ Right(Assignment("chaos", FALSE))
      /\ Right(Assignment("mode", m)) /\ Right(Assignment("enabled", p.enabled))
      /\ p.count # None => Right(Assignment("count", p.count))
      /\ p.threshold # None => Right(Assignment("threshold", p.threshold))
  <2>1. /\ "retries" \in Knobs(m) /\ "enabled" \in Knobs(m)
        /\ p.count # None => "count" \in Knobs(m)
        /\ p.threshold # None => "threshold" \in Knobs(m)
    BY <1>2 DEF Knobs
  <2>2. ASSUME NEW n \in Knobs(m) PROVE Right(Assignment(n, Stored(m, n)))
    BY <1>3
  <2>3. /\ Stored(m, "retries") = p.retries /\ Stored(m, "count") = p.count
        /\ Stored(m, "enabled") = p.enabled /\ Stored(m, "threshold") = p.threshold
        /\ Stored(m, "chaos") = FALSE /\ Stored(m, "mode") = m
        /\ "chaos" \in Knobs(m) /\ "mode" \in Knobs(m)
    BY KnobsOf
  <2> HIDE DEF p, Right
  <2>4. /\ Right(Assignment("retries", p.retries)) /\ Right(Assignment("chaos", FALSE))
        /\ Right(Assignment("mode", m)) /\ Right(Assignment("enabled", p.enabled))
    BY <2>1, <2>2, <2>3
  <2>5. p.count # None => Right(Assignment("count", p.count))
    BY <2>1, <2>2, <2>3
  <2>6. p.threshold # None => Right(Assignment("threshold", p.threshold))
    BY <2>1, <2>2, <2>3
  <2>7. QED
    BY <2>4, <2>5, <2>6
<1>6. \A a \in Items(ModeSteps(m)) : Right(a)
  <2> HIDE DEF Right, p
  <2>1. QED
    BY <1>1, <1>4, <1>5
<1>7. ASSUME NEW n \in Knobs(m) PROVE n \in Names(ModeSteps(m))
  <2>1. \E a \in Items(ModeSteps(m)) : a.name = n
    <3>1. n \in {"chaos", "mode", "retries", "enabled"}
          \/ (n = "count" /\ p.count # None) \/ (n = "threshold" /\ p.threshold # None)
      BY <1>2 DEF Knobs
    <3> HIDE DEF p
    <3>2. Assignment("retries", p.retries) \in Items(ModeSteps(m))
          /\ Assignment("chaos", FALSE) \in Items(ModeSteps(m))
          /\ Assignment("mode", m) \in Items(ModeSteps(m))
          /\ Assignment("enabled", p.enabled) \in Items(ModeSteps(m))
          /\ (p.count # None => Assignment("count", p.count) \in Items(ModeSteps(m)))
          /\ (p.threshold # None => Assignment("threshold", p.threshold) \in Items(ModeSteps(m)))
      BY <1>1, <1>2
    <3>3. QED
      BY <1>3, <3>1, <3>2
  <2>2. QED
    BY <2>1 DEF Names
<1>8. ModeSteps(m) # <<>>
  BY <1>1, ItemsOfNone
<1>9. QED
  BY <1>6, <1>7, <1>8

LEMMA ModeInit == Init => ModeInv
<1> SUFFICES ASSUME Init PROVE ModeInv
  OBVIOUS
<1>1. \A e \in Editors : ~Busy(e) /\ ~clean[e]
  BY DEF Init, Busy
<1>2. settings.mode = "breaker" /\ "breaker" \in Modes
  BY DEF Init, Modes
<1>3. \A n \in Knobs("breaker") : settings[n] = Stored("breaker", n)
  <2>1. Preset("breaker") = [retries |-> FALSE, count |-> None, enabled |-> TRUE,
                             threshold |-> PresetThreshold]
    BY DEF Preset
  <2>2. Knobs("breaker") \subseteq {"chaos", "mode", "retries", "enabled", "threshold"}
    BY <2>1 DEF Knobs
  <2>3. /\ settings["retries"] = FALSE /\ settings["enabled"] = TRUE
        /\ settings["threshold"] = PresetThreshold
        /\ settings["chaos"] = FALSE /\ settings["mode"] = "breaker"
    BY DEF Init
  <2>4. /\ Stored("breaker", "chaos") = FALSE /\ Stored("breaker", "mode") = "breaker"
        /\ Stored("breaker", "retries") = FALSE /\ Stored("breaker", "enabled") = TRUE
        /\ Stored("breaker", "threshold") = PresetThreshold
    <3>1. /\ Preset("breaker").retries = FALSE /\ Preset("breaker").enabled = TRUE
          /\ Preset("breaker").threshold = PresetThreshold
      BY <2>1
    <3>2. QED
      BY <1>2, <3>1, KnobsOf
  <2>5. QED
    BY <2>2, <2>3, <2>4
<1>4. QED
  BY <1>1, <1>2, <1>3 DEF ModeInv, ModeStores, AskedModes, CleanAlone, CleanProgress, PresetKept,
                          OfMode

\* A request that enters is clean if everybody at work asked for the same; those who asked
\* for something else are no longer.
LEMMA BeginMode ==
  ASSUME Typed, ModeInv, NEW e \in Editors, NEW request, NEW steps,
         Begin(e, request, steps), MayAsk(request, steps)
  PROVE  ModeInv'
<1>1. /\ ~Busy(e) /\ Busy(e)' /\ steps # <<>>
      /\ asked'[e] = request /\ todo'[e] = steps
      /\ \A d \in Editors : d # e => asked'[d] = asked[d] /\ todo'[d] = todo[d]
      /\ \A d \in Editors : d # e => (Busy(d)' <=> Busy(d))
      /\ settings' = settings /\ ~preset'
  BY DEF Typed, Begin, Busy
<1>2. /\ clean'[e] = \A o \in Editors : Busy(o) => asked[o] = request
      /\ \A d \in Editors : d # e => clean'[d] = (clean[d] /\ asked[d] = request)
  BY DEF Begin
<1>3. ASSUME NEW m \in Modes, request = <<"mode", m>>
      PROVE  /\ \A a \in Items(steps) :
                  \/ a.name \in {"state", "failures", "elapsed"}
                  \/ a.name \in Knobs(m) /\ a.value = Stored(m, a.name)
             /\ Knobs(m) \subseteq Names(steps)
  <2>1. PICK n \in Modes : request = <<"mode", n>> /\ steps = ModeSteps(n)
    BY <1>3 DEF MayAsk
  <2>2. n = m
    BY <1>3, <2>1
  <2>3. QED
    BY <2>1, <2>2, ModeStepsStore
<1>4. \A d \in Editors, m \in Modes : OfMode(d, m)' =>
        \/ d # e /\ OfMode(d, m)
        \/ d = e /\ request = <<"mode", m>>
  BY <1>1 DEF OfMode
<1>5. ModeStores'
  <2> SUFFICES ASSUME NEW d \in Editors, NEW m \in Modes, OfMode(d, m)', NEW a \in Items(todo'[d])
               PROVE  \/ a.name \in {"state", "failures", "elapsed"}
                      \/ a.name \in Knobs(m) /\ a.value = Stored(m, a.name)
    BY DEF ModeStores
  <2>1. CASE d # e
    BY <1>1, <1>4, <2>1 DEF ModeInv, ModeStores
  <2>2. CASE d = e
    BY <1>1, <1>3, <1>4, <2>2
  <2>3. QED
    BY <2>1, <2>2
<1>6. AskedModes'
  <2> SUFFICES ASSUME NEW d \in Editors, Busy(d)', asked'[d][1] = "mode"
               PROVE  \E m \in Modes : OfMode(d, m)'
    BY DEF AskedModes
  <2>1. CASE d # e
    <3>1. Busy(d) /\ asked[d][1] = "mode"
      BY <1>1, <2>1
    <3>2. PICK m \in Modes : OfMode(d, m)
      BY <3>1 DEF ModeInv, AskedModes
    <3>3. OfMode(d, m)'
      BY <1>1, <2>1, <3>2 DEF OfMode
    <3>4. QED
      BY <3>3
  <2>2. CASE d = e
    <3>1. PICK m \in Modes : request = <<"mode", m>>
      BY <1>1, <2>2 DEF MayAsk
    <3>2. OfMode(d, m)'
      BY <1>1, <2>2, <3>1 DEF OfMode
    <3>3. QED
      BY <3>2
  <2>3. QED
    BY <2>1, <2>2
<1>7. CleanAlone'
  <2> SUFFICES ASSUME NEW d \in Editors, clean'[d]
               PROVE  Busy(d)' /\ \A o \in Editors : Busy(o)' => asked'[o] = asked'[d]
    BY DEF CleanAlone
  <2>1. CASE d = e
    BY <1>1, <1>2, <2>1
  <2>2. CASE d # e
    BY <1>1, <1>2, <2>2 DEF ModeInv, CleanAlone
  <2>3. QED
    BY <2>1, <2>2
<1>8. CleanProgress'
  <2> SUFFICES ASSUME NEW d \in Editors, NEW m \in Modes, clean'[d], OfMode(d, m)', NEW n \in Knobs(m)
               PROVE  settings[n] = Stored(m, n) \/ n \in Names(todo'[d])
    BY <1>1 DEF CleanProgress
  <2>1. CASE d = e
    BY <1>1, <1>3, <1>4, <2>1
  <2>2. CASE d # e
    BY <1>1, <1>2, <1>4, <2>2 DEF ModeInv, CleanProgress
  <2>3. QED
    BY <2>1, <2>2
<1>9. PresetKept'
  BY <1>1 DEF PresetKept
<1>10. QED
  BY <1>5, <1>6, <1>7, <1>8, <1>9 DEF ModeInv

\* An assignment of the mode everybody asked for leaves the settings that have its values,
\* and gives one more of them its value.
LEMMA AssignMode ==
  ASSUME Typed, ModeInv, NEW e \in Editors, Assign(e)
  PROVE  ModeInv'
<1>1. PICK a \in Assignments :
        /\ a = Head(todo[e]) /\ todo[e] # <<>> /\ todo[e] \in Seq(Assignments)
        /\ settings' \in Settings /\ settings'[a.name] = a.value
        /\ \A n \in DOMAIN settings : n # a.name => settings'[n] = settings[n]
        /\ Items(todo[e]) = {a} \union Items(todo'[e])
        /\ todo'[e] = Tail(todo[e])
        /\ \A d \in Editors : d # e => todo'[d] = todo[d]
        /\ todo' \in [Editors -> Seq(Assignments)]
  BY AssignIs
<1>2. /\ \A d \in Editors : d # e => (Busy(d)' <=> Busy(d)) /\ asked'[d] = asked[d] /\ clean'[d] = clean[d]
      /\ Busy(e)
      /\ \/ Busy(e)' /\ asked'[e] = asked[e] /\ clean'[e] = clean[e] /\ preset' = preset
         \/ /\ ~Busy(e)' /\ ~clean'[e]
            /\ preset' => preset \/ (clean[e] /\ asked[e][1] = "mode")
  <2>1. \A d \in Editors : d # e => (Busy(d)' <=> Busy(d)) /\ asked'[d] = asked[d] /\ clean'[d] = clean[d]
    BY <1>1 DEF Busy, Assign, Typed
  <2>2. CASE Len(todo[e]) = 1
    <3>1. Tail(todo[e]) = <<>>
      BY <1>1, <2>2
    <3>2. ~Busy(e)'
      BY <1>1, <3>1 DEF Busy
    <3>3. preset' = (preset \/ (clean[e] /\ asked[e][1] = "mode")) /\ ~clean'[e]
      BY <2>2 DEF Assign, Typed
    <3>4. QED
      BY <2>1, <3>2, <3>3 DEF Assign
  <2>3. CASE Len(todo[e]) # 1
    <3>1. Tail(todo[e]) # <<>>
      <4>1. Len(todo[e]) \in Nat /\ Len(todo[e]) # 0 /\ Len(Tail(todo[e])) = Len(todo[e]) - 1
        BY <1>1
      <4>2. Len(Tail(todo[e])) # 0 /\ Len(<<>>) = 0
        BY <4>1, <2>3
      <4>3. QED
        BY <4>2
    <3>2. Busy(e)'
      BY <1>1, <3>1 DEF Busy
    <3>3. UNCHANGED <<preset, asked, clean>>
      BY <2>3 DEF Assign
    <3>4. QED
      BY <2>1, <3>2, <3>3 DEF Assign
  <2>4. QED
    BY <2>2, <2>3
<1>3. ASSUME NEW m \in Modes, OfMode(e, m)
      PROVE  \A n \in Knobs(m) :
               \/ n # a.name /\ settings'[n] = settings[n]
               \/ n = a.name /\ settings'[n] = Stored(m, n)
  <2>1. \/ a.name \in {"state", "failures", "elapsed"}
        \/ a.name \in Knobs(m) /\ a.value = Stored(m, a.name)
    BY <1>1, <1>3 DEF ModeInv, ModeStores
  <2>2. Knobs(m) \subseteq DOMAIN settings /\ Knobs(m) \cap {"state", "failures", "elapsed"} = {}
    BY KnobsOf DEF Typed
  <2>3. QED
    BY <1>1, <2>1, <2>2
<1>4. \A d \in Editors, m \in Modes : OfMode(d, m)' => OfMode(d, m)
  BY <1>2 DEF OfMode
<1>5. \A d \in Editors : Items(todo'[d]) \subseteq Items(todo[d])
  BY <1>1
<1>6. ModeStores'
  BY <1>4, <1>5 DEF ModeInv, ModeStores
<1>7. AskedModes'
  <2> SUFFICES ASSUME NEW d \in Editors, Busy(d)', asked'[d][1] = "mode"
               PROVE  \E m \in Modes : OfMode(d, m)'
    BY DEF AskedModes
  <2>1. Busy(d) /\ asked'[d] = asked[d]
    BY <1>2
  <2>2. PICK m \in Modes : OfMode(d, m)
    BY <2>1 DEF ModeInv, AskedModes
  <2>3. OfMode(d, m)'
    BY <2>1, <2>2 DEF OfMode
  <2>4. QED
    BY <2>3
<1>8. CleanAlone'
  <2> SUFFICES ASSUME NEW d \in Editors, clean'[d]
               PROVE  Busy(d)' /\ \A o \in Editors : Busy(o)' => asked'[o] = asked'[d]
    BY DEF CleanAlone
  <2>1. clean[d] /\ asked'[d] = asked[d] /\ Busy(d)'
    BY <1>2 DEF ModeInv, CleanAlone
  <2>2. \A o \in Editors : Busy(o)' => Busy(o) /\ asked'[o] = asked[o]
    BY <1>2
  <2>3. QED
    BY <2>1, <2>2 DEF ModeInv, CleanAlone
<1>9. CleanProgress'
  <2> SUFFICES ASSUME NEW d \in Editors, NEW m \in Modes, clean'[d], OfMode(d, m)', NEW n \in Knobs(m)
               PROVE  settings'[n] = Stored(m, n) \/ n \in Names(todo'[d])
    BY DEF CleanProgress
  <2>1. clean[d] /\ OfMode(d, m)
    BY <1>2, <1>4
  <2>2. OfMode(e, m)
    BY <1>2, <2>1 DEF ModeInv, CleanAlone, OfMode
  <2>3. settings[n] = Stored(m, n) \/ n \in Names(todo[d])
    BY <2>1 DEF ModeInv, CleanProgress
  <2>4. CASE n = a.name
    BY <1>3, <2>2, <2>4
  <2>5. CASE n # a.name
    <3>1. settings'[n] = settings[n]
      BY <1>3, <2>2, <2>5
    <3>2. ASSUME n \in Names(todo[d]) PROVE n \in Names(todo'[d])
      BY <1>1, <2>5, <3>2 DEF Names
    <3>3. QED
      BY <2>3, <3>1, <3>2
  <2>6. QED
    BY <2>4, <2>5
<1>10. PresetKept'
  <2> SUFFICES ASSUME preset'
               PROVE  /\ \A n \in Knobs(settings'.mode) : settings'[n] = Stored(settings'.mode, n)
                      /\ \A d \in Editors : Busy(d)' => asked'[d] = <<"mode", settings'.mode>>
    BY DEF PresetKept
  <2>1. PICK m \in Modes :
          /\ OfMode(e, m)
          /\ \A d \in Editors : Busy(d) => asked[d] = <<"mode", m>>
          /\ \A n \in Knobs(m) : settings[n] = Stored(m, n) \/ (n \in Names(todo[e]) /\ ~Busy(e)')
    <3>1. CASE preset
      <4> DEFINE m == settings.mode
      <4>1. m \in Modes
        BY DEF Typed, Settings
      <4>2. /\ \A n \in Knobs(m) : settings[n] = Stored(m, n)
            /\ \A d \in Editors : Busy(d) => asked[d] = <<"mode", m>>
        BY <3>1 DEF ModeInv, PresetKept
      <4>3. OfMode(e, m)
        BY <1>2, <4>2 DEF OfMode
      <4>4. QED
        BY <4>1, <4>2, <4>3
    <3>2. CASE ~preset
      <4>1. clean[e] /\ asked[e][1] = "mode" /\ ~Busy(e)'
        BY <1>2, <3>2
      <4>2. PICK m \in Modes : OfMode(e, m)
        BY <1>2, <4>1 DEF ModeInv, AskedModes
      <4>3. \A d \in Editors : Busy(d) => asked[d] = <<"mode", m>>
        BY <4>1, <4>2 DEF ModeInv, CleanAlone, OfMode
      <4>4. \A n \in Knobs(m) : settings[n] = Stored(m, n) \/ n \in Names(todo[e])
        BY <4>1, <4>2 DEF ModeInv, CleanProgress
      <4>5. QED
        BY <4>1, <4>2, <4>3, <4>4
    <3>3. QED
      BY <3>1, <3>2
  <2>2. \A n \in Knobs(m) : settings'[n] = Stored(m, n)
    <3> SUFFICES ASSUME NEW n \in Knobs(m) PROVE settings'[n] = Stored(m, n)
      OBVIOUS
    <3>1. CASE n = a.name
      BY <1>3, <2>1, <3>1
    <3>2. CASE n # a.name
      <4>1. settings'[n] = settings[n]
        BY <1>3, <2>1, <3>2
      <4>2. CASE settings[n] = Stored(m, n)
        BY <4>1, <4>2
      <4>3. CASE n \in Names(todo[e]) /\ ~Busy(e)'
        <5>1. todo'[e] = <<>>
          BY <4>3 DEF Busy
        <5>2. Items(todo[e]) = {a}
          BY <1>1, <5>1, ItemsOfNone
        <5>3. QED
          BY <3>2, <4>3, <5>2 DEF Names
      <4>4. QED
        BY <2>1, <4>2, <4>3
    <3>3. QED
      BY <3>1, <3>2
  <2>3. settings'.mode = m
    <3>1. settings'["mode"] = m
      BY <2>2, KnobsOf
    <3>2. QED
      BY <3>1
  <2>4. \A d \in Editors : Busy(d)' => asked'[d] = <<"mode", m>>
    BY <1>2, <2>1
  <2>5. QED
    BY <2>2, <2>3, <2>4
<1>11. QED
  BY <1>6, <1>7, <1>8, <1>9, <1>10 DEF ModeInv

LEMMA CallerMode ==
  ASSUME Typed, ModeInv, (\E c \in Callers : CallerStep(c)) \/ Elapse
  PROVE  ModeInv'
<1>1. /\ UNCHANGED <<todo, asked, clean, preset>>
      /\ \A n \in DOMAIN settings : n \notin {"state", "failures", "elapsed"} => settings'[n] = settings[n]
  BY CallerKeeps DEF edits
<1>2. \A m \in Modes : \A n \in Knobs(m) : settings'[n] = settings[n]
  <2> SUFFICES ASSUME NEW m \in Modes, NEW n \in Knobs(m) PROVE settings'[n] = settings[n]
    OBVIOUS
  <2>1. n \in DOMAIN settings /\ n \notin {"state", "failures", "elapsed"}
    BY KnobsOf DEF Typed
  <2>2. QED
    BY <1>1, <2>1
<1>3. settings.mode \in Modes /\ settings'.mode = settings.mode
  BY <1>1 DEF Typed, Settings
<1>4. /\ \A d \in Editors : Busy(d)' <=> Busy(d)
      /\ \A d \in Editors, m \in Modes : OfMode(d, m)' <=> OfMode(d, m)
  BY <1>1 DEF Busy, OfMode
<1>5. ModeStores' /\ AskedModes' /\ CleanAlone'
  BY <1>1, <1>4 DEF ModeInv, ModeStores, AskedModes, CleanAlone
<1>6. CleanProgress'
  BY <1>1, <1>2, <1>4 DEF ModeInv, CleanProgress
<1>7. PresetKept'
  BY <1>1, <1>2, <1>3, <1>4 DEF ModeInv, PresetKept
<1>8. QED
  BY <1>5, <1>6, <1>7 DEF ModeInv

-----------------------------------------------------------------------------
(* The breaker settles *)

ResetsPending == \A e \in Editors : ResetsLast(todo[e])

\* The critical section in progress is about to execute one of these statements.
InSection(S) == \E c \in Callers, st \in S : At(c, st)

\* A closed breaker past its threshold is about to be repaired: by a request that has the
\* failures still to reset, or by the section that counted the failure.
CountInv ==
  settings.state = "CLOSED" =>
    \/ settings.failures = 0 \/ settings.failures < settings.threshold
    \/ \E e \in Editors : "failures" \in Names(todo[e])
    \/ InSection({"stamp", "judge", "open", "reset"})

\* The probe is in flight until the statement that ends its section; before that statement
\* a success has closed the breaker, and nobody who is being admitted is a probe yet.
ProbeInv ==
  /\ settings.state = "HALF_OPEN" => cancelled \/ \E c \in Callers : call[c] = "probe"
  /\ InSection({"reset"}) => settings.state = "CLOSED"
  /\ \A c \in Callers, st \in {"gate", "window", "probe"} : At(c, st) => call[c] = "idle"

BreakerInv == ResetsPending /\ CountInv /\ ProbeInv

\* A section is at one statement of one caller.
LEMMA AtOne ==
  ASSUME NEW c \in Callers, NEW st \in Stages, At(c, st)
  PROVE  /\ section # None
         /\ \A d, s : At(d, s) => d = c /\ s = st
BY NoneAssumption DEF At

LEMMA InitBreaker == Init => BreakerInv
<1> SUFFICES ASSUME Init PROVE BreakerInv
  OBVIOUS
<1>1. \A e \in Editors : todo[e] = <<>>
  BY DEF Init
<1>2. \A c, st : ~At(c, st) \/ c \notin Callers \/ st \notin Stages
  BY NoneAssumption DEF Init, At
<1>3. settings.state = "CLOSED" /\ settings.failures = 0
  BY DEF Init
<1>4. ResetsPending
  BY <1>1 DEF ResetsPending, ResetsLast
<1>5. ProbeInv
  BY <1>2, <1>3 DEF ProbeInv, Stages
<1>6. QED
  BY <1>3, <1>4, <1>5 DEF BreakerInv, CountInv

LEMMA BeginBreaker ==
  ASSUME Typed, BreakerInv, NEW e \in Editors, NEW request, NEW steps,
         Begin(e, request, steps), MayAsk(request, steps)
  PROVE  BreakerInv'
<1>1. /\ todo[e] = <<>> /\ todo'[e] = steps /\ \A d \in Editors : d # e => todo'[d] = todo[d]
      /\ UNCHANGED <<settings, call, section, cancelled>>
  BY DEF Typed, Begin, Busy
<1>2. ResetsPending'
  BY <1>1 DEF BreakerInv, ResetsPending, MayAsk
<1>3. \A d \in Editors : "failures" \in Names(todo[d]) => "failures" \in Names(todo'[d])
  BY <1>1, ItemsOfNone DEF Names
<1>4. CountInv'
  BY <1>1, <1>3 DEF BreakerInv, CountInv, InSection, At
<1>5. ProbeInv'
  BY <1>1 DEF BreakerInv, ProbeInv, InSection, At
<1>6. QED
  BY <1>2, <1>4, <1>5 DEF BreakerInv

\* A request that has stored a threshold, or closed the breaker, has the failures still to
\* reset.
LEMMA AssignBreaker ==
  ASSUME Typed, BreakerInv, NEW e \in Editors, Assign(e)
  PROVE  BreakerInv'
<1>1. PICK a \in Assignments :
        /\ a = Head(todo[e]) /\ todo[e] # <<>> /\ todo[e] \in Seq(Assignments)
        /\ settings' \in Settings /\ settings'[a.name] = a.value
        /\ \A n \in DOMAIN settings : n # a.name => settings'[n] = settings[n]
        /\ Items(todo[e]) = {a} \union Items(todo'[e])
        /\ todo'[e] = Tail(todo[e])
        /\ \A d \in Editors : d # e => todo'[d] = todo[d]
        /\ todo' \in [Editors -> Seq(Assignments)]
  BY AssignIs
<1>2. UNCHANGED <<call, section, cancelled>>
  BY DEF Assign
<1>3. /\ ResetsLast(todo[e]) /\ ResetsLast(todo'[e])
      /\ a.name \in {"threshold", "state"} => "failures" \in Names(todo'[e])
  BY <1>1, ResetsOfTail DEF BreakerInv, ResetsPending
<1>4. ResetsPending'
  BY <1>1, <1>3 DEF BreakerInv, ResetsPending
<1>5. /\ a.name # "state" => settings'.state = settings.state
      /\ a.name # "failures" => settings'.failures = settings.failures
      /\ a.name # "threshold" => settings'.threshold = settings.threshold
      /\ a.name = "state" => settings'.state = "CLOSED"
      /\ a.name = "failures" => settings'.failures = 0
  <2>1. {"state", "failures", "threshold"} \subseteq DOMAIN settings
    BY DEF Typed, Settings
  <2>2. /\ a.name = "state" => a.value = "CLOSED"
        /\ a.name = "failures" => a.value = 0
    BY DEF Assignments
  <2>3. QED
    BY <1>1, <2>1, <2>2
<1>6. CountInv'
  <2>1. CASE a.name \in {"threshold", "state"}
    BY <1>3, <2>1 DEF CountInv
  <2>2. CASE a.name = "failures"
    BY <1>5, <2>2 DEF CountInv
  <2>3. CASE a.name \notin {"threshold", "state", "failures"}
    <3>1. \A d \in Editors : "failures" \in Names(todo[d]) => "failures" \in Names(todo'[d])
      BY <1>1, <2>3 DEF Names
    <3>2. QED
      BY <1>2, <1>5, <2>3, <3>1 DEF BreakerInv, CountInv, InSection, At
  <2>4. QED
    BY <2>1, <2>2, <2>3
<1>7. ProbeInv'
  BY <1>2, <1>5 DEF BreakerInv, ProbeInv, InSection, At
<1>8. QED
  BY <1>4, <1>6, <1>7 DEF BreakerInv

\* A step that leaves the requests alone.
LEMMA SameRequests ==
  ASSUME BreakerInv, UNCHANGED edits
  PROVE  /\ ResetsPending'
         /\ \A e \in Editors : Names(todo'[e]) = Names(todo[e])
BY DEF edits, BreakerInv, ResetsPending

LEMMA AdmitBreaker ==
  ASSUME Typed, BreakerInv, NEW c \in Callers, Enter(c) \/ Gate(c) \/ Window(c)
  PROVE  BreakerInv'
<1> USE DEF Stages
<1>1. UNCHANGED settings /\ UNCHANGED cancelled /\ UNCHANGED edits
  BY DEF Enter, Gate, Window, Reads
<1>2. ResetsPending' /\ \A e \in Editors : Names(todo'[e]) = Names(todo[e])
  BY <1>1, SameRequests
<1>3. /\ section = None \/ At(c, "gate") \/ At(c, "window")
      /\ call[c] = "idle"
      /\ \/ /\ UNCHANGED call
            /\ At(c, "gate")' \/ At(c, "window")' \/ At(c, "probe")'
         \/ \E s \in {"idle", "calling", "bypass"} : Becomes(c, s)
  <2>1. CASE Enter(c)
    BY <2>1 DEF Enter, Loop, GoTo, At
  <2>2. CASE Gate(c)
    <3>1. settings.state \in {"CLOSED", "OPEN", "HALF_OPEN"}
      BY DEF Typed, Settings
    <3>2. QED
      BY <2>2, <3>1 DEF Gate, GoTo, At, BreakerInv, ProbeInv
  <2>3. CASE Window(c)
    BY <2>3 DEF Window, GoTo, At, BreakerInv, ProbeInv
  <2>4. QED
    BY <2>1, <2>2, <2>3
<1>4. ~InSection({"stamp", "judge", "open", "reset"})
  BY <1>3, AtOne DEF InSection
<1>5. CountInv'
  BY <1>1, <1>2, <1>4 DEF BreakerInv, CountInv
<1>6. \A d \in Callers : call[d] = "probe" => call'[d] = "probe"
  BY <1>3 DEF Becomes, Typed
<1>7. CASE At(c, "gate")' \/ At(c, "window")' \/ At(c, "probe")'
  <2>1. ~InSection({"reset"})' /\ \A d \in Callers, st \in {"gate", "window", "probe"} : At(d, st)' => d = c
    BY <1>7 DEF At, InSection
  <2>2. call'[c] = "idle"
    BY <1>3, <1>7, NoneAssumption DEF At, Becomes
  <2>3. QED
    BY <1>1, <1>2, <1>5, <1>6, <2>1, <2>2 DEF BreakerInv, ProbeInv
<1>8. CASE section' = None
  <2>1. \A d \in Callers, st \in Stages : ~At(d, st)'
    BY <1>8, NoneAssumption DEF At
  <2>2. QED
    BY <1>1, <1>2, <1>5, <1>6, <2>1 DEF BreakerInv, ProbeInv, InSection
<1>9. QED
  BY <1>3, <1>7, <1>8 DEF Becomes

LEMMA ProbeBreaker ==
  ASSUME Typed, BreakerInv, NEW c \in Callers, Probe(c)
  PROVE  BreakerInv'
<1>1. UNCHANGED edits /\ section' = None /\ settings'.state = "HALF_OPEN" /\ call'[c] = "probe"
  BY DEF Probe, Becomes, Typed, Settings
<1>2. \A d \in Callers, st \in Stages : ~At(d, st)'
  BY <1>1, NoneAssumption DEF At
<1>3. QED
  BY <1>1, <1>2, SameRequests DEF BreakerInv, CountInv, ProbeInv, InSection, Stages

LEMMA FailBreaker ==
  ASSUME Typed, BreakerInv, NEW c \in Callers, Fail(c) \/ Stamp(c)
  PROVE  BreakerInv'
<1>1. /\ UNCHANGED <<edits, call, cancelled>> /\ settings'.state = settings.state
      /\ At(c, "stamp")' \/ At(c, "judge")'
  BY DEF Fail, Stamp, Stores, GoTo, At, Typed, Settings
<1>2. CountInv'
  BY <1>1 DEF CountInv, InSection
<1>3. \A d, st : At(d, st)' => st \in {"stamp", "judge"}
  BY <1>1 DEF At
<1>4. ProbeInv'
  BY <1>1, <1>3 DEF BreakerInv, ProbeInv, InSection
<1>5. QED
  BY <1>1, <1>2, <1>4, SameRequests DEF BreakerInv

\* The probe that failed, or the failure that reaches the threshold, goes on to open.
LEMMA JudgeBreaker ==
  ASSUME Typed, BreakerInv, NEW c \in Callers, Judge(c)
  PROVE  BreakerInv'
<1>1. UNCHANGED <<edits, settings, cancelled>>
  BY DEF Judge, Reads
<1>2. CASE call[c] = "probe" \/ settings.failures >= settings.threshold
  <2>1. At(c, "open")' /\ UNCHANGED call
    BY <1>2 DEF Judge, GoTo, At
  <2>2. \A d, st : At(d, st)' => st = "open"
    BY <2>1 DEF At
  <2>3. QED
    BY <1>1, <2>1, <2>2, SameRequests DEF BreakerInv, CountInv, ProbeInv, InSection
<1>3. CASE ~(call[c] = "probe" \/ settings.failures >= settings.threshold)
  <2>1. section' = None /\ call' = [call EXCEPT ![c] = "idle"]
    BY <1>3 DEF Judge, Becomes
  <2>2. \A d \in Callers, st \in Stages : ~At(d, st)'
    BY <2>1, NoneAssumption DEF At
  <2>3. settings.failures < settings.threshold
    <3>1. settings.failures \in Int /\ settings.threshold \in Int
      <4>1. settings.failures \in 0 .. FailureCap /\ settings.threshold \in Thresholds
        BY DEF Typed, Settings
      <4>2. Thresholds \subseteq Int
        BY ResilienceAssumption
      <4>3. settings.failures \in Int
        BY <4>1
      <4>4. settings.threshold \in Int
        BY <4>1, <4>2
      <4>5. QED
        BY <4>3, <4>4
    <3>2. QED
      BY <1>3, <3>1
  <2>4. \A d \in Callers : call[d] = "probe" => call'[d] = "probe"
    BY <1>3, <2>1 DEF Typed
  <2>5. QED
    BY <1>1, <2>2, <2>3, <2>4, SameRequests DEF BreakerInv, CountInv, ProbeInv, InSection, Stages
<1>4. QED
  BY <1>2, <1>3

LEMMA TripBreaker ==
  ASSUME Typed, BreakerInv, NEW c \in Callers, Trip(c)
  PROVE  BreakerInv'
<1>1. UNCHANGED edits /\ section' = None /\ settings'.state = "OPEN"
  BY DEF Trip, Stores, Becomes, Typed, Settings
<1>2. \A d \in Callers, st \in Stages : ~At(d, st)'
  BY <1>1, NoneAssumption DEF At
<1>3. QED
  BY <1>1, <1>2, SameRequests DEF BreakerInv, CountInv, ProbeInv, InSection, Stages

LEMMA SucceedBreaker ==
  ASSUME Typed, BreakerInv, NEW c \in Callers, Succeed(c)
  PROVE  BreakerInv'
<1>0. settings.state \in {"CLOSED", "OPEN", "HALF_OPEN"} /\ section = None
      /\ call[c] \in {"calling", "probe"}
  BY DEF Typed, Settings, Succeed, Loop, InFlight
<1>1. UNCHANGED <<edits, settings, cancelled>>
  BY DEF Succeed, Reads
<1>2. ~InSection({"stamp", "judge", "open", "reset"})
  BY <1>0, AtOne DEF InSection, Stages
<1>3. CountInv'
  BY <1>1, <1>2, SameRequests DEF BreakerInv, CountInv
<1>4. ProbeInv'
  <2>1. CASE call[c] = "probe" \/ settings.state = "HALF_OPEN"
    <3>1. UNCHANGED call /\ At(c, "close")'
      BY <2>1 DEF Succeed, GoTo, At
    <3>2. \A d, st : At(d, st)' => st = "close"
      BY <3>1 DEF At
    <3>3. QED
      BY <1>1, <3>1, <3>2 DEF BreakerInv, ProbeInv, InSection
  <2>2. CASE call[c] = "calling" /\ settings.state = "CLOSED"
    <3>1. UNCHANGED call /\ At(c, "reset")'
      BY <2>2 DEF Succeed, GoTo, At
    <3>2. \A d, st : At(d, st)' => st = "reset"
      BY <3>1 DEF At
    <3>3. QED
      BY <1>1, <2>2, <3>1, <3>2 DEF BreakerInv, ProbeInv, InSection
  <2>3. CASE call[c] = "calling" /\ settings.state = "OPEN"
    <3>1. section' = None
      BY <2>3 DEF Succeed, Becomes
    <3>2. \A d \in Callers, st \in Stages : ~At(d, st)'
      BY <3>1, NoneAssumption DEF At
    <3>3. QED
      BY <1>1, <2>3, <3>2 DEF BreakerInv, ProbeInv, InSection, Stages
  <2>4. QED
    BY <1>0, <2>1, <2>2, <2>3
<1>5. QED
  BY <1>1, <1>3, <1>4, SameRequests DEF BreakerInv

\* A success closes the breaker, and then forgets the failures.
LEMMA CloseBreaker ==
  ASSUME Typed, BreakerInv, NEW c \in Callers, Close(c) \/ Reset(c)
  PROVE  BreakerInv'
<1>1. CASE Close(c)
  <2>1. UNCHANGED <<edits, call, cancelled>> /\ settings'.state = "CLOSED" /\ At(c, "reset")'
    BY <1>1 DEF Close, Stores, GoTo, At, Typed, Settings
  <2>2. \A d, st : At(d, st)' => st = "reset"
    BY <2>1 DEF At
  <2>3. QED
    BY <2>1, <2>2, SameRequests DEF BreakerInv, CountInv, ProbeInv, InSection
<1>2. CASE Reset(c)
  <2>1. settings.state = "CLOSED"
    BY <1>2 DEF Reset, BreakerInv, ProbeInv, InSection
  <2>2. UNCHANGED edits /\ section' = None /\ settings'.failures = 0 /\ settings'.state = "CLOSED"
    BY <1>2, <2>1 DEF Reset, Stores, Becomes, Typed, Settings
  <2>3. \A d \in Callers, st \in Stages : ~At(d, st)'
    BY <2>2, NoneAssumption DEF At
  <2>4. QED
    BY <2>2, <2>3, SameRequests DEF BreakerInv, CountInv, ProbeInv, InSection, Stages
<1>3. QED
  BY <1>1, <1>2

LEMMA LeaveBreaker ==
  ASSUME Typed, BreakerInv, NEW c \in Callers, Passthrough(c) \/ Cancel(c)
  PROVE  BreakerInv'
<1>1. /\ UNCHANGED <<edits, settings>> /\ section = None /\ section' = None
      /\ call' = [call EXCEPT ![c] = "idle"]
      /\ cancelled \/ call[c] = "probe" => cancelled'
  <2>1. CASE Passthrough(c)
    <3>1. call[c] # "probe" /\ UNCHANGED <<edits, settings, cancelled>>
      BY <2>1 DEF Passthrough, Reads
    <3>2. QED
      BY <2>1, <3>1 DEF Passthrough, Loop, Becomes
  <2>2. CASE Cancel(c)
    <3>1. cancelled \/ call[c] = "probe" => cancelled'
      BY <2>2, Zenon DEF Cancel
    <3>2. QED
      BY <2>2, <3>1 DEF Cancel, Loop, Becomes
  <2>3. QED
    BY <2>1, <2>2
<1>2. \A d \in Callers, st \in Stages : ~At(d, st) /\ ~At(d, st)'
  BY <1>1, NoneAssumption DEF At
<1>3. ASSUME NEW d \in Callers, call[d] = "probe" PROVE cancelled' \/ call'[d] = "probe"
  BY <1>1, <1>3 DEF Typed
<1>4. QED
  BY <1>1, <1>2, <1>3, SameRequests DEF BreakerInv, CountInv, ProbeInv, InSection, Stages

LEMMA ElapseBreaker ==
  ASSUME Typed, BreakerInv, Elapse PROVE BreakerInv'
<1>1. /\ UNCHANGED <<edits, call, section, cancelled>>
      /\ settings'.state = settings.state /\ settings'.failures = settings.failures
      /\ settings'.threshold = settings.threshold
  BY DEF Elapse, Typed, Settings
<1>2. QED
  BY <1>1, SameRequests DEF BreakerInv, CountInv, ProbeInv, InSection, At

LEMMA CallerBreaker ==
  ASSUME Typed, BreakerInv, (\E c \in Callers : CallerStep(c)) \/ Elapse PROVE BreakerInv'
BY AdmitBreaker, ProbeBreaker, FailBreaker, JudgeBreaker, TripBreaker, SucceedBreaker,
   CloseBreaker, LeaveBreaker, ElapseBreaker DEF CallerStep

-----------------------------------------------------------------------------
(* What holds in every reachable state *)

Inv == Typed /\ ModeInv /\ BreakerInv

LEMMA InvInit == Init => Inv
BY InitTyped, ModeInit, InitBreaker DEF Inv

LEMMA InvStep == Inv /\ [Next]_vars => Inv'
<1> SUFFICES ASSUME Inv, [Next]_vars PROVE Inv'
  OBVIOUS
<1>1. ASSUME NEW e \in Editors, SetMode(e) \/ SetRetries(e) \/ SetBreaker(e) \/ SetChaos(e)
      PROVE  Inv'
  BY <1>1, RequestIs, BeginTyped, BeginMode, BeginBreaker DEF Inv
<1>2. ASSUME NEW e \in Editors, Assign(e) PROVE Inv'
  BY <1>2, AssignTyped, AssignMode, AssignBreaker DEF Inv
<1>3. ASSUME (\E c \in Callers : CallerStep(c)) \/ Elapse PROVE Inv'
  BY <1>3, CallerTyped, CallerMode, CallerBreaker DEF Inv
<1>4. CASE UNCHANGED vars
  <2>1. Typed' /\ ModeInv'
    BY <1>4 DEF vars, Inv, Typed, ModeInv, ModeStores, AskedModes, CleanAlone, CleanProgress,
                PresetKept, OfMode, Busy
  <2>2. BreakerInv'
    BY <1>4 DEF vars, Inv, BreakerInv, ResetsPending, CountInv, ProbeInv, InSection, At
  <2>3. QED
    BY <2>1, <2>2 DEF Inv
<1>5. QED
  BY <1>1, <1>2, <1>3, <1>4 DEF Next, CallerStep

\* Every reachable state is well typed, however the statements of the requests fall between
\* those of the breaker: every setting keeps a value a request may give it, and no field is
\* assigned that is not one of the settings.
THEOREM TypeCorrect == Spec => []TypeOK
<1>1. Inv => TypeOK
  BY TypedTypeOK DEF Inv
<1>2. QED
  BY <1>1, InvInit, InvStep, PTL DEF Spec

\* For any number of requests in any interleaving of their assignments: after a mode request
\* that overlapped no different one, every setting its preset names has its value and the
\* chaos is off, until a request that asks for anything starts.
THEOREM ModesAreCoherent == Spec => []ModeIsCoherent
<1>1. Inv => ModeIsCoherent
  <2> SUFFICES ASSUME Inv, preset
               PROVE  /\ ~settings.chaos
                      /\ \A n \in DOMAIN Preset(settings.mode) :
                           Preset(settings.mode)[n] = None \/ settings[n] = Preset(settings.mode)[n]
    BY DEF ModeIsCoherent
  <2> DEFINE m == settings.mode
  <2>1. m \in Modes
    BY DEF Inv, Typed, Settings
  <2>2. \A n \in Knobs(m) : settings[n] = Stored(m, n)
    BY DEF Inv, ModeInv, PresetKept
  <2> HIDE DEF m
  <2>3. settings["chaos"] = FALSE
    BY <2>1, <2>2, KnobsOf
  <2>4. DOMAIN Preset(m) = {"retries", "count", "enabled", "threshold"}
    BY DEF Preset
  <2>5. ASSUME NEW n \in DOMAIN Preset(m), Preset(m)[n] # None PROVE settings[n] = Preset(m)[n]
    <3>1. n \in Knobs(m)
      BY <2>4, <2>5 DEF Knobs
    <3>2. Stored(m, n) = Preset(m)[n]
      BY <2>4, <2>5 DEF Stored
    <3>3. QED
      BY <2>2, <3>1, <3>2
  <2>6. QED
    BY <2>3, <2>5 DEF m
<1>2. QED
  BY <1>1, InvInit, InvStep, PTL DEF Spec

\* Whatever the thresholds, and wherever the statements of configure() fall between those of
\* the sections of any number of callers: at rest a closed breaker has not passed its
\* threshold, and a half-open one has a probe in flight unless it was cancelled.
THEOREM BreakerSettles == Spec => []SettledBreaker
<1>1. Inv => SettledBreaker
  <2> SUFFICES ASSUME Inv, section = None, \A e \in Editors : ~Busy(e) PROVE SettledBreaker
    BY DEF SettledBreaker
  <2>1. ~InSection({"stamp", "judge", "open", "reset"})
    BY AtOne DEF InSection, Stages
  <2>2. \A e \in Editors : "failures" \notin Names(todo[e])
    BY ItemsOfNone DEF Busy, Names
  <2>3. QED
    BY <2>1, <2>2 DEF Inv, BreakerInv, CountInv, ProbeInv, SettledBreaker
<1>2. QED
  BY <1>1, InvInit, InvStep, PTL DEF Spec
=============================================================================
