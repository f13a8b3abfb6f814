------------------------------ MODULE Simulator ------------------------------
(***************************************************************************)
(* The load simulator of one orchestrator process, SimulatorState,         *)
(* simulate_start, simulate_stop and _simulate_worker of                   *)
(* services/shared/orchestrator.py.  simulate_start and the worker are     *)
(* coroutines: each of their steps below runs from one await to the next.  *)
(* simulate_stop is a sync endpoint and runs in a worker thread, so the    *)
(* event loop may take steps between its two statements.                   *)
(*                                                                         *)
(* An order is one step from its begin to its end here (OrderSaga has the  *)
(* rest).  The rate, the counters and the random choices are left out.     *)
(***************************************************************************)
EXTENDS Integers, FiniteSets

CONSTANTS
  Starters,   \* start requests that may be under way at once
  Stoppers,   \* stop requests that may be under way at once
  Workers,    \* worker tasks that may be alive at once, and simulator.task
  CanRaise,   \* whether an order may end in an exception
  None

ASSUME WorkersAssumption == None \notin Workers
ASSUME RaiseAssumption == CanRaise \in BOOLEAN

VARIABLES
  serial,    \* the clients wait for each answer before the next request; never changes
  running,   \* simulator.running
  task,      \* simulator.task
  phase,     \* where each worker is
  timer,     \* the duration of each worker's run
  querying,  \* the start requests that await their queries
  stopping,  \* the stop requests between their two statements
  raised,    \* history: a worker has ended in an exception since the last start
  stopped    \* history: the workers alive that a stop request has found so

workerVars == <<phase, timer>>
requestVars == <<querying, stopping>>
vars == <<serial, running, task, workerVars, requestVars, raised, stopped>>

\* waiting: created or asleep, it looks at running next; off: no such task.
Phases == {"off", "waiting", "ordering"}
Timers == {"none", "set", "elapsed"}

TypeOK ==
  /\ serial \in BOOLEAN
  /\ running \in BOOLEAN
  /\ task \in Workers \cup {None}
  /\ phase \in [Workers -> Phases]
  /\ timer \in [Workers -> Timers]
  /\ querying \in SUBSET Starters
  /\ stopping \in SUBSET Stoppers
  /\ raised \in BOOLEAN
  /\ stopped \in SUBSET Workers

Init ==
  /\ serial \in BOOLEAN
  /\ running = FALSE
  /\ task = None
  /\ phase = [w \in Workers |-> "off"]
  /\ timer = [w \in Workers |-> "none"]
  /\ querying = {}
  /\ stopping = {}
  /\ raised = FALSE
  /\ stopped = {}

Alive(w) == phase[w] # "off"

EndTask(w) ==
  /\ phase' = [phase EXCEPT ![w] = "off"]
  /\ timer' = [timer EXCEPT ![w] = "none"]
  /\ stopped' = stopped \ {w}

\* A client may send a request.
MaySend == serial => stopping = {} /\ querying = {}

-----------------------------------------------------------------------------
(* POST /orders/simulate/start                                             *)

\* Mutant: there is no check for a simulation that is running.
StartChecks_Unchecked(r) ==
  /\ MaySend /\ r \notin querying
  /\ querying' = querying \cup {r}
  /\ UNCHANGED <<serial, running, task, workerVars, stopping, raised, stopped>>

\* Unless a simulation is running, which is answered at once, the users and products
\* to choose from are queried.
StartChecks(r) ==
  /\ MaySend /\ r \notin querying
  /\ ~running
  /\ querying' = querying \cup {r}
  /\ UNCHANGED <<serial, running, task, workerVars, stopping, raised, stopped>>

\* No active user, no product in stock, or a query that raised.
StartEmpty(r) ==
  /\ r \in querying
  /\ querying' = querying \ {r}
  /\ UNCHANGED <<serial, running, task, workerVars, stopping, raised, stopped>>

\* After the queries running is not looked at again.
StartCommits(r) ==
  /\ r \in querying
  /\ querying' = querying \ {r}
  /\ running' = TRUE
  /\ raised' = FALSE
  /\ \E w \in Workers :
       /\ ~Alive(w)
       /\ w # task
       /\ task' = w
       /\ phase' = [phase EXCEPT ![w] = "waiting"]
       /\ \E t \in {"none", "set"} : timer' = [timer EXCEPT ![w] = t]
  /\ UNCHANGED <<serial, stopping, stopped>>

-----------------------------------------------------------------------------
(* POST /orders/simulate/stop                                              *)

StopClears(s) ==
  /\ MaySend /\ s \notin stopping
  /\ running' = FALSE
  /\ stopping' = stopping \cup {s}
  /\ stopped' = stopped \cup {w \in Workers : Alive(w)}
  /\ UNCHANGED <<serial, task, workerVars, querying, raised>>

\* Mutant: the task is not tested for None, and cancel() is called on it.
StopCancels_Untested(s) ==
  /\ s \in stopping
  /\ stopping' = stopping \ {s}
  /\ phase' = [w \in Workers \cup {task} |-> IF w = task THEN "off" ELSE phase[w]]
  /\ UNCHANGED <<serial, running, task, timer, querying, raised, stopped>>

\* The next step of a cancelled task raises CancelledError, which nothing in the
\* worker catches: it changes nothing any more.
StopCancels(s) ==
  /\ s \in stopping
  /\ stopping' = stopping \ {s}
  /\ IF task = None THEN UNCHANGED <<workerVars, stopped>> ELSE EndTask(task)
  /\ UNCHANGED <<serial, running, task, querying, raised>>

-----------------------------------------------------------------------------
(* _simulate_worker                                                        *)

Goto(w, p) ==
  /\ phase' = [phase EXCEPT ![w] = p]
  /\ UNCHANGED <<timer, stopped>>

\* Mutant: the loop does not look at running.
Continues_Regardless(w) ==
  /\ phase[w] = "waiting"
  /\ timer[w] # "elapsed"
  /\ Goto(w, "ordering")
  /\ UNCHANGED <<serial, running, task, requestVars, raised>>

\* Mutant: the loop does not look at the duration.
Continues_Unbounded(w) ==
  /\ phase[w] = "waiting"
  /\ running
  /\ Goto(w, "ordering")
  /\ UNCHANGED <<serial, running, task, requestVars, raised>>

\* while simulator.running, and the duration has not elapsed: submit an order.
Continues(w) ==
  /\ phase[w] = "waiting"
  /\ running
  /\ timer[w] # "elapsed"
  /\ Goto(w, "ordering")
  /\ UNCHANGED <<serial, running, task, requestVars, raised>>

\* Mutant: the flag is not cleared when the loop ends.
Ends_KeepsRunning(w) ==
  /\ phase[w] = "waiting"
  /\ ~running \/ timer[w] = "elapsed"
  /\ EndTask(w)
  /\ UNCHANGED <<serial, running, task, requestVars, raised>>

\* The loop ends: whichever run it belonged to, running is cleared.
Ends(w) ==
  /\ phase[w] = "waiting"
  /\ ~running \/ timer[w] = "elapsed"
  /\ EndTask(w)
  /\ running' = FALSE
  /\ UNCHANGED <<serial, task, requestVars, raised>>

\* The order is answered, the counters are updated and the worker sleeps.
OrderAnswered(w) ==
  /\ phase[w] = "ordering"
  /\ Goto(w, "waiting")
  /\ UNCHANGED <<serial, running, task, requestVars, raised>>

\* An exception leaves _process_order or its session: the task ends there.
OrderRaises(w) ==
  /\ CanRaise
  /\ phase[w] = "ordering"
  /\ EndTask(w)
  /\ raised' = TRUE
  /\ UNCHANGED <<serial, running, task, requestVars>>

DurationElapses(w) ==
  /\ Alive(w)
  /\ timer[w] = "set"
  /\ timer' = [timer EXCEPT ![w] = "elapsed"]
  /\ UNCHANGED <<serial, running, task, phase, requestVars, raised, stopped>>

Worker(w) == Continues(w) \/ Ends(w) \/ OrderAnswered(w) \/ OrderRaises(w)

Next ==
  \/ \E r \in Starters : StartChecks(r) \/ StartEmpty(r) \/ StartCommits(r)
  \/ \E s \in Stoppers : StopClears(s) \/ StopCancels(s)
  \/ \E w \in Workers : Worker(w) \/ DurationElapses(w)

Spec == Init /\ [][Next]_vars

\* Orders are answered (OrderSaga), sleeps end, time passes, and a thread that has
\* begun a stop request finishes it.
Fairness ==
  /\ \A w \in Workers : WF_vars(Worker(w)) /\ WF_vars(DurationElapses(w))
  /\ \A s \in Stoppers : WF_vars(StopCancels(s))

FairSpec == Spec /\ Fairness

-----------------------------------------------------------------------------
(* Safety *)

\* For clients that wait for their answers, the status of the simulation is true: the
\* only worker there may be is the one a stop request cancels, whatever ends by itself
\* or raises in the meantime, and a simulation reported as running has that worker,
\* unless it ended in an exception, after which simulate_status says running for ever.
StatusMatchesWorkers ==
  serial => /\ \A w \in Workers : Alive(w) => w = task
            /\ running => raised \/ \E w \in Workers : Alive(w)

\* For such clients, a worker that was alive when a stop request cleared the flag
\* never begins another order: not before it is cancelled, nor under a later start.
StoppedForGood ==
  [][ serial => \A w \in stopped :
        phase'[w] = "ordering" => phase[w] = "ordering" ]_vars

\* What makes the three inductive: under serial clients a start request that awaits its
\* queries is alone and finds no worker alive when they end, and a worker that a stop
\* request has found does not see the flag set again.
SerialInv ==
  /\ \A w \in Workers : Alive(w) => w = task /\ (running \/ stopping # {})
  /\ querying # {} => stopping = {} /\ ~running
  /\ \A q, r \in querying : q = r
  /\ stopping # {} => ~running
  /\ running => raised \/ \E w \in Workers : Alive(w)
  /\ stopped # {} => ~running

SimulatorInv ==
  /\ \A w \in stopped : Alive(w)
  /\ serial => SerialInv

-----------------------------------------------------------------------------
(* Liveness, however the requests overlap *)

\* If the simulation stays stopped, every worker ends, the ones that no stop request
\* can cancel any more included.
Quiesces == <>[]~running => <>[](\A w \in Workers : ~Alive(w))

\* A worker with a duration ends.
DurationIsKept == \A w \in Workers : (Alive(w) /\ timer[w] = "set") ~> ~Alive(w)
=============================================================================
