--------------------------- MODULE SimulatorProofs ---------------------------
(* Theorems about Simulator: type correctness, and what clients that wait for *)
(* their answers may rely on, for any numbers of requests and workers.        *)
EXTENDS Simulator, TLAPS

USE DEF workerVars, requestVars, vars

-----------------------------------------------------------------------------
(* Type correctness *)

LEMMA TypeInit == Init => TypeOK
BY DEF Init, TypeOK, Phases, Timers

LEMMA TypeNext == TypeOK /\ [Next]_vars => TypeOK'
<1> SUFFICES ASSUME TypeOK, [Next]_vars PROVE TypeOK'
  OBVIOUS
<1> USE WorkersAssumption DEF TypeOK, Phases, Timers
<1>1. ASSUME NEW r \in Starters, StartChecks(r) PROVE TypeOK'
  BY <1>1 DEF StartChecks
<1>2. ASSUME NEW r \in Starters, StartEmpty(r) PROVE TypeOK'
  BY <1>2 DEF StartEmpty
<1>3. ASSUME NEW r \in Starters, StartCommits(r) PROVE TypeOK'
  BY <1>3 DEF StartCommits
<1>4. ASSUME NEW s \in Stoppers, StopClears(s) PROVE TypeOK'
  BY <1>4 DEF StopClears
<1>5. ASSUME NEW s \in Stoppers, StopCancels(s) PROVE TypeOK'
  BY <1>5 DEF StopCancels, EndTask
<1>6. ASSUME NEW w \in Workers, Continues(w) PROVE TypeOK'
  BY <1>6 DEF Continues, Goto
<1>7. ASSUME NEW w \in Workers, Ends(w) PROVE TypeOK'
  BY <1>7 DEF Ends, EndTask
<1>8. ASSUME NEW w \in Workers, OrderAnswered(w) PROVE TypeOK'
  BY <1>8 DEF OrderAnswered, Goto
<1>9. ASSUME NEW w \in Workers, OrderRaises(w) PROVE TypeOK'
  BY <1>9 DEF OrderRaises, EndTask
<1>10. ASSUME NEW w \in Workers, DurationElapses(w) PROVE TypeOK'
  BY <1>10 DEF DurationElapses
<1>11. CASE UNCHANGED vars
  BY <1>11
<1>12. QED
  BY <1>1, <1>2, <1>3, <1>4, <1>5, <1>6, <1>7, <1>8, <1>9, <1>10, <1>11
  DEF Next, Worker

\* Every reachable state of the load simulator is well typed; in particular task is a
\* worker or None, and nothing is ever cancelled through None.
THEOREM SimulatorTypeCorrect == Spec => []TypeOK
BY TypeInit, TypeNext, PTL DEF Spec

-----------------------------------------------------------------------------
(* The inductive invariant *)

LEMMA SimInit == Init => SimulatorInv
BY DEF Init, SimulatorInv, SerialInv, Alive

LEMMA SimNext == TypeOK /\ SimulatorInv /\ [Next]_vars => SimulatorInv'
<1> SUFFICES ASSUME TypeOK, SimulatorInv, [Next]_vars PROVE SimulatorInv'
  OBVIOUS
<1> USE WorkersAssumption DEF TypeOK, SimulatorInv, SerialInv, Alive
<1>1. ASSUME NEW r \in Starters, StartChecks(r) PROVE SimulatorInv'
  BY <1>1 DEF StartChecks, MaySend
<1>2. ASSUME NEW r \in Starters, StartEmpty(r) PROVE SimulatorInv'
  BY <1>2 DEF StartEmpty
<1>3. ASSUME NEW r \in Starters, StartCommits(r) PROVE SimulatorInv'
  \* A request that awaited its queries has found no worker alive, and none since.
  <2>1. serial => \A w \in Workers : ~Alive(w)
    BY <1>3 DEF StartCommits
  <2>2. serial => querying' = {} /\ stopped' = {} /\ stopping' = {}
    BY <1>3, <2>1 DEF StartCommits
  <2>3. PICK v \in Workers :
          ~Alive(v) /\ task' = v /\ phase' = [phase EXCEPT ![v] = "waiting"]
    BY <1>3 DEF StartCommits
  <2>4. \A w \in stopped' : Alive(w)'
    BY <1>3, <2>3 DEF StartCommits
  <2>5. \A w \in Workers : Alive(w)' <=> Alive(w) \/ w = v
    BY <2>3
  <2>6. running' /\ serial' = serial
    BY <1>3 DEF StartCommits
  <2>7. serial => SerialInv'
    BY <2>1, <2>2, <2>3, <2>5, <2>6
  <2>8. QED
    BY <2>4, <2>6, <2>7
<1>4. ASSUME NEW s \in Stoppers, StopClears(s) PROVE SimulatorInv'
  BY <1>4 DEF StopClears, MaySend
<1>5. ASSUME NEW s \in Stoppers, StopCancels(s) PROVE SimulatorInv'
  BY <1>5 DEF StopCancels, EndTask
<1>6. ASSUME NEW w \in Workers, Continues(w) PROVE SimulatorInv'
  BY <1>6 DEF Continues, Goto
<1>7. ASSUME NEW w \in Workers, Ends(w) PROVE SimulatorInv'
  BY <1>7 DEF Ends, EndTask
<1>8. ASSUME NEW w \in Workers, OrderAnswered(w) PROVE SimulatorInv'
  BY <1>8 DEF OrderAnswered, Goto
<1>9. ASSUME NEW w \in Workers, OrderRaises(w) PROVE SimulatorInv'
  BY <1>9 DEF OrderRaises, EndTask
<1>10. ASSUME NEW w \in Workers, DurationElapses(w) PROVE SimulatorInv'
  BY <1>10 DEF DurationElapses
<1>11. CASE UNCHANGED vars
  BY <1>11
<1>12. QED
  BY <1>1, <1>2, <1>3, <1>4, <1>5, <1>6, <1>7, <1>8, <1>9, <1>10, <1>11
  DEF Next, Worker

\* The inductive invariant: with serial clients a start request that awaits its queries
\* is alone, no worker runs meanwhile, and the worker there is is the task.
THEOREM SimulatorInvariant == Spec => []SimulatorInv
<1>1. TypeOK /\ SimulatorInv /\ [Next]_vars => (TypeOK /\ SimulatorInv)'
  BY TypeNext, SimNext
<1>2. Init => TypeOK /\ SimulatorInv
  BY TypeInit, SimInit
<1>3. QED
  BY <1>1, <1>2, PTL DEF Spec

-----------------------------------------------------------------------------
(* What follows from it *)

\* For clients that wait for their answers simulator.task is the only worker alive, the
\* one a stop request cancels, and a simulation reported as running has it, unless it
\* has ended in an exception (simulate_start, simulate_stop, simulate_status).
THEOREM StatusIsTrue == Spec => []StatusMatchesWorkers
<1>1. SimulatorInv => StatusMatchesWorkers
  BY DEF SimulatorInv, SerialInv, StatusMatchesWorkers
<1>2. QED
  BY <1>1, SimulatorInvariant, PTL

\* For such clients, a worker alive when a stop request cleared the flag begins no
\* further order (the two statements of simulate_stop against the worker's loop).
THEOREM StopIsFinal == Spec => StoppedForGood
<1> DEFINE Final == serial => \A w \in stopped :
                      phase'[w] = "ordering" => phase[w] = "ordering"
<1>1. TypeOK /\ SimulatorInv /\ [Next]_vars => [Final]_vars
  <2> SUFFICES ASSUME TypeOK, SimulatorInv, Next, serial, NEW w \in stopped,
                      phase'[w] = "ordering", phase[w] # "ordering"
               PROVE FALSE
    BY DEF TypeOK
  <2> USE DEF TypeOK
  <2>1. Alive(w) /\ ~running /\ w \in Workers
    BY DEF SimulatorInv, SerialInv
  <2>2. ASSUME NEW r \in Starters, StartChecks(r) \/ StartEmpty(r) PROVE FALSE
    BY <2>2 DEF StartChecks, StartEmpty
  <2>3. ASSUME NEW r \in Starters, StartCommits(r) PROVE FALSE
    BY <2>1, <2>3 DEF StartCommits, Alive
  <2>4. ASSUME NEW s \in Stoppers, StopClears(s) PROVE FALSE
    BY <2>4 DEF StopClears
  <2>5. ASSUME NEW s \in Stoppers, StopCancels(s) PROVE FALSE
    BY <2>1, <2>5, WorkersAssumption DEF StopCancels, EndTask
  <2>6. ASSUME NEW v \in Workers, Continues(v) PROVE FALSE
    BY <2>1, <2>6 DEF Continues
  <2>7. ASSUME NEW v \in Workers, Ends(v) \/ OrderRaises(v) PROVE FALSE
    BY <2>1, <2>7 DEF Ends, OrderRaises, EndTask
  <2>8. ASSUME NEW v \in Workers, OrderAnswered(v) PROVE FALSE
    BY <2>1, <2>8 DEF OrderAnswered, Goto
  <2>9. ASSUME NEW v \in Workers, DurationElapses(v) PROVE FALSE
    BY <2>9 DEF DurationElapses
  <2>10. QED
    BY <2>2, <2>3, <2>4, <2>5, <2>6, <2>7, <2>8, <2>9 DEF Next, Worker
<1>2. Spec => [][Final]_vars
  BY <1>1, SimulatorTypeCorrect, SimulatorInvariant, PTL DEF Spec
<1>3. QED
  BY <1>2 DEF StoppedForGood
=============================================================================
