# TLA+ models of Resilencia-Kubernetes

Five FastAPI services (user, inventory, payment, notification, order) share one Postgres database.
Each of them mounts the same orchestrator (`services/shared/orchestrator.py`), which runs the order
saga, guards its payment hop with a circuit breaker, generates load and, inside Kubernetes, elects the
one process that serves orchestrator requests. A control panel routes the operator's requests to it.
This directory models the parts of that program whose correctness depends on the order in which things
happen, checks the models with TLC and proves their main invariants with TLAPS.

## 1. Inventory

| Component | State | Operations | What is hard | What makes it correct |
|---|---|---|---|---|
| Circuit breaker (`AsyncCircuitBreaker`) | state, failures, last failure time, settings, gauge | `call`, `configure` | calls that end in another state than they began in; cancellation; reconfiguration, and its publication, from a worker thread | one probe per window; trips at the threshold; late answers change nothing; recovers; the gauge ends right |
| Order saga (`_process_order`) | the coroutine's position; rows of `orders`, `products`, `payments`, `notifications` | validate, reserve, insert, pay, checkpoint, notify, release | lost answers, retries without idempotency keys, failing commits, crashes, operators editing the row, races for the stock | the units missing are those of the orders that hold or bought some; none is sold twice; paid orders are backed; the compensation is applied once; every order is answered |
| Leader election (`LeaderElection`, `_heartbeat`) | `service_leader` rows; in-memory view of each process | heartbeat (upsert, read, decide), `_ensure_leader` | stalls between the transactions, crashed owners, failing heartbeats, stale views | it implements leadership by lease: one covered leader among replicas; higher priority wins; failover completes |
| Load simulator (`SimulatorState`) | running, task, counters | `simulate_start`, `simulate_stop`, the worker | a check before an await, a stop in two steps on another thread, a worker that raises or outlives its run | one worker; stop is final; status is true; it comes to rest |
| Batch generator | none | `generate_orders` | runs its jobs as sagas | as the saga |
| Resilience settings, chaos | module globals, the breaker's knobs | mode presets, retries, breaker, chaos | assigned one by one in worker threads while the event loop is inside the breaker | a mode is a coherent preset; the breaker is never left in a state without a way out |
| URL resolver | address cache, failure cache | `resolve_url` | an address that changed; a failure remembered | a service that was looked for in vain is reached once it runs |
| user, inventory, payment, notification services | their tables | CRUD, generators, the saga's hops | reads and writes are separate statements; ids allocated from `max(id)`; cascades | constraints of the tables; patches do not undo each other unless they overlap |
| Control panel (Python) | runtime mode, orchestrator cache, address cache | discovery, proxying, scaling, stop and start, clear all | discovery stores a result after the mode changed; two-call scaling; containers that come back elsewhere; partial clears | requests reach the leader within the cache's lifetime; modes do not mix; a manual scale holds; a clear leaves no orphans |
| Web client (JS) | timers, current tab | polling, routing | overlapping refreshes, tabs left while a request is under way | no stale tab is drawn, one poll at a time |
| Schema, seeding | tables, sequences | `init.sql`, seed scripts | a seeder that crashes between counting and committing and is run again | the shortfall is seeded once |
| Postgres promotion | replica role, Service selector | `promote_postgres.sh` | a stop between its steps | one writable node behind the Service |
| CLI, manifests, observability | none of the program | | configuration and I/O | |

The components call each other over HTTP (saga to services, panel to orchestrator), share tables (the saga
and the operators: `orders`; all pods: `service_leader`) and share memory in a process (saga, simulator and
breaker on one event loop; sync endpoints, of the orchestrator and of the panel, in worker threads).

## 2. Modules

| Module | Models | Lives in |
|---|---|---|
| `CircuitBreaker` | `AsyncCircuitBreaker` | `orchestrator.py` 316-423 |
| `Resilience` | the settings requests against the breaker, statement by statement | `orchestrator.py` 166-179, 342-423, 1497-1513, 1783-1867 |
| `OrderContract` | abstract: what an order promises its client | |
| `OrderSaga` | `_process_order`, `call_service`, the handlers it drives, the constraints of the tables; implements `OrderContract` | `orchestrator.py` 484-518, 650-1207; the services' `main.py`; `db/init.sql` |
| `Leadership` | abstract: what the election promises those who use it | |
| `LeaderElection` | `LeaderElection`, `_heartbeat`, `_leader_loop`; implements `Leadership` | `orchestrator.py` 1268-1468 |
| `PanelRouting` | the panel's discovery, its cache and the runtime mode; built on `Leadership` | `control-panel/main.py` 192-303, 525-538 |
| `Simulator` | `SimulatorState`, `simulate_start`, `simulate_stop`, `_simulate_worker` | `orchestrator.py` 1214-1258, 1710-1754 |
| `Catalog` | CRUD and generators of the services, clear-all, the seeder | the services' `main.py`; `control-panel/main.py` 1029-1062; `seed_database.py` |
| `ServiceControl` | stop, start and scale, and the address caches of panel and orchestrator | `control-panel/main.py` 60-173, 350-400, 541-577, 769-791; `orchestrator.py` 431-481 |
| `MC...` | instances for TLC | |
| `...Proofs` | theorems about the module they extend | |

`PROJECT.json` maps every definition to its lines. Definitions named `X_Something` with a comment that
begins `Mutant:` are wrong variants of `X`, kept to show that each property can fail.

How they compose: the two abstract modules are the interfaces. `LeaderElection` is checked and proved to
implement `Leadership`, and `PanelRouting` extends `Leadership` instead of the election, so what it shows of
the panel holds for every cluster that elects like that, with any number of heartbeats in any order.
`OrderSaga` is checked and proved to implement `OrderContract`. `Resilience` refines the grain of
`CircuitBreaker`: the same class, but every statement that reads or assigns shared state is a step.

### CircuitBreaker
A caller is a coroutine in `call()`. The sections under `self._lock` contain no await, so each is one
action: `AdmitClosed`, `AdmitProbe`, `Reject` before the downstream call, `Succeed`, `Fail` after it;
`Bypass` and `Passthrough` are the disabled breaker, `Cancel` is `CancelledError` raised in the awaited call
of the simulator's task, which neither branch of `call()` catches. Time appears as `elapsed`, the value
of the only expression that uses the clock. `Configure` is `configure()`, which resets the state but not the
calls under way. It runs in a worker thread without the lock, so `_update_metric` is not part of any action that
calls it: `UpdateMetric` enters it, `Look` is one of its tests, `Show` its `set()`, and the steps of the event loop and of the
worker threads interleave. The loop does nothing else meanwhile (`LoopIsFree`). The five assignments of `configure()`
are one step: `Resilience` takes them apart. `windowProbes`, `cancelled`, `crossed` (who looked before another thread set the
gauge) and `torn` (one of them set it last) are history variables.

### OrderSaga
`pc` is the position of each saga, `left` the attempts of its current hop. A hop's attempt succeeds, fails
without effect, or is *lost*: the caller sees an exception and the handler may run later (`late` and the
`Late...` actions). Each handler is one database transaction on the rows of its order or product, hence one
action. Checkpoints (`Persist...`) may raise with or without having been committed, and write only the
columns that differ from what the saga itself loaded (SQLAlchemy's unit of work), which is why an operator's
status can survive the last one. `reserves`, `releases`, `charges` and `met` are history variables; `met` tells three
kinds of trouble apart: a lost payment request (`pay`), an operator, and everything else that is lost or fails outside a
plain refusal, the crash included (`other`). A notification that fails or is lost is no trouble: the code goes on.
`Refuse` stands for every early return before the reservation, `BreakerAdmits` and `BreakerRejects` for
the breaker, whose own state is in `CircuitBreaker`. A payment is one with outcome `completed`, a
notification one with outcome `sent`. Products other than one, prices and payloads are left out.

*`OrderContract`.* Reservations, the charge, the give-back and the answer of an order. The mapping reads them off
the history variables and `resp`. A reservation may be made twice (a lost answer, retried), a give-back may come
after the answer, but nothing that was sold is ever given back.

### LeaderElection
A node is one process; `node_id` is a fresh uuid, so a restarted pod is a new node. `Begin`, `Upsert`, `Read`
and `Decide` are the steps of `_heartbeat`: the time is captured first, the upsert and the read are two
transactions, and the view changes only after the second. `BeatFails` is the exception `_leader_loop`
swallows; an upsert may have been committed by then. `Crash` loses the memory and keeps the row. `Read`
keeps only the winner of the rows it saw and whether it is the reader, which is all `Decide` uses. Clocks agree
between pods, the interval between heartbeats is left out (one may begin at any time), and a
transaction has ended when its heartbeat has failed.

*`Leadership`.* Pods that take themselves for leaders, and those of them whose heartbeat is younger than the
lease. The mapping is `isLeader` and `Covered`. A pod may come to lead too late to be covered, because the time is
captured before the transactions: the abstract module says so (`PromoteLate`) rather than hide it.

### PanelRouting
A request is a coroutine of the panel: `Ask...` up to its first await, `Hear` for each of the answers it gathers,
`Gather...` when they are in, `ListPods` and `Probe...` for `_k8s_leader_pod`, and `Conclude`, which stores the answer
under the mode the discovery *began* with and chooses the base URL by the mode in force *now*, as the code does.
Time appears as the ages of cache entries, discoveries and requests, bounded by `TTL` and by the timeouts.
A service proxy answers from any pod of the service, or not at all. `quiet` and `blind` are history: for how long
the cluster has not changed, and whether an answer was lost.

### Simulator
`simulate_start` and the worker run on the event loop, from one await to the next; `simulate_stop` is a sync
endpoint on a worker thread, so `StopClears` (the flag) and `StopCancels` (the task) are two steps between
which the loop goes on. `serial`, chosen once in `Init`, says whether the clients wait for each answer before
they send the next request; the code does not force them to. A cancelled task changes nothing any more,
so `StopCancels` ends it. The counters, the rate and the random choices are left out.

### Catalog
A request is one or two actions: what it reads, and what it writes together with its commit (READ COMMITTED).
`PatchReads` keeps the whole row it has read, `Merged` is that profile with the named field over it. The cascades
and keys of `init.sql` are in `Delete`, `Keep` and `InsertRows`. `clear_all_entities` is one step per entity, each of
which may fail or happen later than the panel waits (`late`). The seeder holds one transaction over both tables:
inserts that meet its keys wait (`Held`), and a crash or a duplicate key restarts it from nothing.
The saga appears by the three rows it inserts. `by`, `patched`, `since` and `alone` are history.

### ServiceControl
The endpoints are synchronous, so requests are worker threads. In the Compose stack `Stop` and `Start` change
a container. After a start, also one of a container that runs already, all containers are inspected one after the other
(`Inspect`) and the addresses found are then written into the shared cache entry by entry (`WriteEntry`), while other threads
do the same; the event loop looks when it misses one. A start that raises although the container comes up is answered
500 and nobody looks (`StartRaises`). In the cluster a scale is three calls (`Find`, `Put`,
`Patch`), the last of which fails silently, and an autoscaler moves between its bounds. The orchestrator
resolves addresses with a cache of its own, which it never empties, and remembers a failure for a while. `asked`,
`sound`, `clean` and `moved` (the service came up elsewhere than the orchestrator has it) are history.

### Resilience
A settings request is a list of assignments (`ModeSteps`, `ConfigureSteps`, ...) that its thread makes one by one, each at any
moment. The breaker's critical sections run on the event loop, one coroutine at a time, but an assignment may fall between
two of their statements. `failures += 1` is one step: CPython 3.12 switches threads at calls and jumps
only. The delays are left out, and the gauge, whose two writers are in `CircuitBreaker`.

## 3. Runs

| Run | Instance | Shows |
|---|---|---|
| `breaker` | 3 callers, 1 cancellable; 1 worker thread; thresholds 0, 1, 3 | safety and recovery of the breaker, the gauge under two writers |
| `breaker_cancel` | thresholds 1, 2 | *violated*: a cancelled probe leaves HALF_OPEN for ever |
| `breaker_two_probes` | nobody cancellable | *violated*: a late failure lets a second probe join the first |
| `resilience` | 2 settings requests, 2 callers | mode presets stay coherent and the breaker can always leave its state, statement by statement |
| `saga` | 2 orders for 1 and 2 of 2 units; 1 or 2 attempts; every fault | safety of the saga, its stock, its contract, and that every order is answered |
| `saga_errors` | 1 attempt, failing commits | *violated*: an error answer keeps its units |
| `election` | 2 replicas of one service and a process of a lower one; lease 1, time 0..2, faults before 1 | the election implements leadership, priorities, failover |
| `panel` | 3 pods of 2 services, 2 requests, TTL 1, discoveries of age 1, 1 change | requests find the leader once things settle; the modes do not mix |
| `panel_always_leader` | the same | *violated*: a leader that shares its service with a follower is missed |
| `simulator` | 2 start and 1 stop requests, 3 tasks | the simulator for serial and overlapping clients |
| `catalog` | 2 requests of any kind, 1 seeder with 1 restart, ids 1..3 | patches, clear-all, seeding |
| `control` | 2 services, 3 addresses, 2 threads and the loop, 4 requests; replicas 0, 1, 2 and 4 of at most 3, autoscaler up to 2 | addresses, scaling, services found again |

What a violated run shows is a difference between the code and a sentence of its documentation, quoted in
`PROJECT.json` under `findings`.

**Bounds.** *Breaker*: three callers are enough for a probe, a late failure and a late success at once; the
counter saturates at `FailureCap`, which decides every comparison with a threshold as the real one. The
thresholds lie below, at and above what the three callers can fail at once; one worker thread beside the loop makes the two
writers of the gauge, and may configure any number of times. *Resilience*: two callers make a probe and a
late call, two requests overlap or follow each other; a third request starts from a state the second may leave.
*Saga*: two orders race for the stock, and `Attempts = {1, 2}` covers retries off and one retry; a third attempt
repeats the second. Every counter of the saga is bounded by the attempts. *Election*: the clock stops at `MaxClock`
(nothing waits for it after that: a larger instance, lease 2 and clock 3, passes the safety part too); `FaultsUntil` ends
the faults so that the failover has time to complete. *Panel*: two requests overlap so that one finds the cache filled, or emptied,
by the other; two replicas of the service that is not order-service are what makes the fallback interesting; every
discovery begins in a state some change has led to, and `Init` already has every cluster and mode, so one more change is
enough for a discovery that a change overtakes. *Simulator*: three tasks are one more than two overlapping starts need,
so an orphan, a current and a new worker coexist. *Catalog*: two requests of any kind overlap, a clear-all of five steps with an order of three,
and both with the seeder; ids 1 to 3 leave room for a seeded row beside two others. *Control*: three addresses for two containers let one
come back at its own address, at another, or at the one the other had, and let an older look of one thread write between the entries
of a newer one of another; 4 replicas are refused, 0 and those above
the autoscaler's limit are accepted and leave its bound alone; four requests are a stop and a start of each service.

**Symmetry** is used for interchangeable requests, editors, callers, fields and replicas, in runs without liveness properties.

**Deadlock** is checked for the breaker and the simulator. Elsewhere a bound (orders, requests, the clock) ends what can
happen, so those runs switch it off.

**Fairness.** *Breaker*: downstream calls end (every attempt has a timeout and attempts are finite), time
passes, callers keep coming when a probe is due, and the event loop finishes its sections; nothing is assumed about
the worker thread. *Saga*: a saga that is running takes its next step, for
the same reason; nothing is assumed about late requests, operators or crashes. *Election*: time passes and the loop
of a live process keeps beating (`while True` with a sleep); nothing is assumed about faults. *Simulator*: orders are
answered (`EveryOrderAnswered`), sleeps end, durations elapse, and a thread that began a stop finishes it. *Control*: orders
keep arriving, so the orchestrator keeps resolving, and the two seconds of a remembered failure pass. The other
runs check safety only and assume nothing.

## 4. Properties

*Breaker.* `ClosedBelowThreshold`, `OneProbePerWindow`, `HalfOpenHasProbe` (the probe is never forgotten unless cancelled),
`OpenIgnoresLateSuccess`; `HalfOpenResolves` and `Recovers` over time. `GaugeSettles`: when nobody is publishing, the gauge
shows the state, unless the thread that set it last had looked before another one set it. That exception is real: a
configuration and a section that overlap so leave a wrong gauge until the next publication (without `~torn`
TLC finds it in a dozen steps).

*Settings.* `ModeIsCoherent` (after a mode request that overlapped no different one, every knob of its preset has its
value and the chaos is off), `SettledBreaker` (when nobody is in the middle of anything, the breaker is in a state it can leave).
Two mode requests that do overlap can leave a mixture of their presets: the code takes no lock.

*Saga.* `StockMatchesOrders` (the units missing from the stock against the orders that are entitled to some by where their
saga stands and what it answered: never fewer are missing, and no more as long as only payments were lost), `NoOversell`,
`PaidOrderIsBacked`, `NotifiedOnlyIfPaid`, `ExactlyOnceUnlessLost` (a double charge needs a lost payment request, a double
reservation another loss), `AllOrNothing` (an order that met no fault), `KeepsContract` (the refinement: charged only for
units that were held, given back at most once, answered at most once, a client told of a success is charged and keeps its units;
one told of an error may be charged all the same), `EveryOrderAnswered`. Proved beside them: `CompensatedOnce`. Three things the
code does allow, and the properties therefore do too: a lost reservation is made twice, units stay taken when a
release is lost or the process ends, and a lost payment is charged after the compensation.

*Election.* `LowerPriorityYields`, `ImplementsLeadership` (the refinement: among replicas only one is covered by a
lease), `FailoverCompletes`. Proved beside them: `OneCoveredLeaderPerService`, `LeaseNotStolen`.

*Panel.* `RoutesSettle` (once nothing has changed for as long as an answer is remembered, looked for and under way, requests
go to the leader, if the fallback can find it), `ComposeMeansOrderService` (no discovery of the cluster leaks into the Compose
stack, however the mode was switched meanwhile).

*Simulator.* `StatusMatchesWorkers` (the task is the only worker, and a running simulation has it unless it raised) and
`StoppedForGood` for serial clients; `Quiesces` and `DurationIsKept` for all. Overlapping starts do run two workers, and a
start between the steps of a stop does leave the status wrong: what is claimed of them is that they come to rest.

*Catalog.* `PatchesUndoneOnlyByOverlap` (a patch is lost only to one that names its field or had read the row before),
`ClearedAltogether` (a clear-all without errors leaves no order, payment or notification, although it clears orders first and sagas
go on), `SeedsOnlyTheShortfall` (crashes and restarts do not seed twice).

*Control.* `PanelFindsServices` (when nobody is looking, the panel has the address of every container that runs, provided that
since the last look began no container changed, no look that had overlapped a change ended, and no start raised after it), `ScaleHolds`
(the autoscaler does not go below a manual scale that was answered with its bound written), `FoundAgain` (a service that was
looked for in vain is found, at its address, once it runs). What they leave out, the code does: an older look that writes between
a newer one's entries leaves its stale address behind, a failure between the two calls of a scale leaves replicas and bound
apart, and the orchestrator keeps the address it has when a service comes up at another one.

## 5. Proofs

All theorems hold for every value of the constants allowed by the named assumptions, which are as weak as
types (sets of integers, `None` outside the sets it is distinguished from, a cap not below the thresholds).

* **Breaker** (`CircuitBreakerProofs`): `TypeCorrect`, `NeverClosedAboveThreshold`, `SingleProbePerWindow`,
  `GaugeAlwaysSettles`, `ProbePresent`, `LateSuccessIgnored`. The count of probes becomes inductive with
  "OPEN has admitted none since the last failure": only a transition from OPEN admits one, and only a failure leads
  back to OPEN. `ProbePresent` needs types only: whatever ends a probe in flight also leaves HALF_OPEN, except
  a cancellation. `GaugeAlwaysSettles` follows from `GaugeInv`, which says of every thread in `_update_metric` that what it has
  seen still holds, or another thread is in there too or has set the gauge since, and of a gauge that is wrong that some thread is
  still in there or that it was left torn.
* **Saga** (`OrderSagaProofs`): `SagaTypeCorrect`, `PaidIsAlwaysBacked`, `CompensationIsAppliedOnce`,
  `NotificationFollowsPayment`, from `SagaInvariant`. Its conjunct for an order, `OrderInv`, says that the position
  of the saga determines what has been done for the order, *counting a lost request as done*: then a request that
  arrives late, at any time, cannot falsify anything. That the stock is never negative is part of the types
  and comes from the guards of the two UPDATEs. `SagaKeepsContract` is the refinement: with `OrderInv`, every step of
  the saga, of a late request, of a crash or of an operator is one step of `OrderContract` or none.
* **Saga, counting** (`OrderSagaProofs`, its second part): `OrdersAreChargedOnce` and `FaultlessOrdersAreAtomic`. `TriesInv` bounds what
  was run for an order plus what is still late plus the attempts left by the attempts its hop began with;
  `SureInv` says where an order stands that has lost nothing, and `CleanInv` what the orders table holds of one that met no fault.
  The second theorem assumes that quantities are not negative: a negative reservation raises the stock, and its compensation
  may then be refused because another order took the units.
* **Saga, stock** (`OrderSagaProofs`, its third part): `StockAlwaysMatchesOrders` and `PaidOrdersFitTheStock`. Both are about sums over all orders.
  The induction over the subsets of a finite set is stated for a set of subsets instead of a property (`SubsetInduction`, from
  the well-foundedness of strict inclusion and `WFMin`), so that the provers can use it; from it, a sum exists, any of its
  elements can be taken first, and one term changes it by as much as the term. A reservation or release then moves as many units
  from the stock to the sum as back (the lemma `StockIsAccountedFor`, a statement about history variables). For `StockAlwaysMatchesOrders`
  that sum is compared, order by order, with what the positions and answers of the sagas entitle to: an order that has
  units by its position has reserved and not given back (`SagaInv`, `ContractInv`), and, as long as it met nothing but lost payments, one that
  has none has given back all it reserved (`KeptInv`, which needs that a reservation is made once, `SureReserve`, and that no
  release is refused). Quantities must not be negative there. `PaidOrdersFitTheStock` compares, order by order, what is asked with what is held
  (`PaidOrderIsBacked`, `CompensatedOnce`) and assumes that quantities are not negative: a negative reservation adds units
  that others can buy before its insert is refused.
* **Election** (`LeaderElectionProofs`): `ElectionTypeCorrect`, `ReplicasElectOne`, `HigherPriorityPrevails`,
  `LeasesAreRespected`, from `ElectionInvariant`. It follows the row of a node's own service through the
  heartbeat: between upsert and decision the row, if it is the node's, was heard exactly when the heartbeat began; a
  node that found itself the winner keeps the row for as long as the lease it wrote runs. Two covered leaders of
  one service would both own its row. `ElectionImplementsLeadership` is the refinement, from the same invariant.
* **Simulator** (`SimulatorProofs`): `SimulatorTypeCorrect`, `StatusIsTrue`, `StopIsFinal`,
  from `SimulatorInvariant`: with serial clients a start that awaits its queries is alone and no
  worker is alive until it commits; while a stop is between its steps the flag stays cleared.
* **Control** (`ServiceControlProofs`): `TypeCorrect`, `ManualScaleHolds` and `PanelLooksFind`. A request in force (`asked`) becomes
  inductive with `Standing`: the autoscaler's bound is at least what was asked, and no thread is on its way to write the
  replicas or the bound of that service, because a request withdraws what was asked when it begins. `PanelLooksFind` follows from
  `LookInv`: what a thread has found on a look that nothing overlapped is what it would find now (`Accurate`), the entries such a look
  has written so far are still right unless an unclean look is writing too, whose end makes it unclean (`Written`), and whatever else makes
  the panel's addresses stale leaves a thread that will write again (`CurrentUnlessLooking`).
* **Panel** (`PanelRoutingProofs`): `PanelTypeOK`, `RequestsFindTheLeader`, `ComposeStaysApart`, for finitely many services,
  from `RoutesInv`: a discovery that began after the last change of the cluster has heard how things are and has not passed the
  leader over (`Knows`), and an entry the cache still uses, found by such a discovery, names the leader (`Trusted`). Ages
  order these times: `quiet` counts from the last change, a discovery lives at most `Discovery` and an entry at most `TTL`, so after
  `Settling` every entry and every discovery is younger than the last change. The entry of the Compose stack always
  names order-service. That a service of highest priority exists among those that answered is proved too (`HighestExists`).
* **Settings** (`ResilienceProofs`): `TypeCorrect`, `ModesAreCoherent` and `BreakerSettles`, for any number of requests and callers and
  any interleaving of their statements. A request is a sequence of assignments, and what matters of one is the set of those still to
  make (`Items`). `ModeInv` says that each setting of a preset has its value or is still to be assigned by a clean request, that
  whoever works beside one asked for the same, and that a mode stores nothing but its preset and the reset. `BreakerInv` says who is
  about to repair a breaker that is CLOSED past its threshold: a request that has `failures` still to reset (`ResetsLast`: whoever
  stores a threshold or a state resets the failures afterwards), or the section that counted the failure. `NoneAssumption` keeps
  `None` out of the values it is distinguished from.
* **Catalog** (`CatalogProofs`): `TypeCorrect`, `PatchesOnlyUndoneByOverlap`, `ClearedAll` and `OnlyTheShortfallIsSeeded`, from
  `CatalogInv`; one lemma per action shows that it keeps the invariant and owes nothing to the two action properties.
  A lost patch is a matter of what others have *read*: `Reader` says that who patched a row either did so before a request
  read it or is in that request's `since`, and `Sane`, kept for the rows and for every row a request still holds, that whose field is
  back at its first value was read over by another who patched the row. `ClearedAll` needs `Referring` (the foreign keys) and that a
  request that clears is at one of five lists whose last is the products (`Lefts`): when that DELETE is done no order can refer to
  a product. `OnlyTheShortfallIsSeeded` counts: as long as nobody else has inserted, the rows there are and the rows a seeder holds,
  or is about to insert, do not exceed the target (`Shortfall`); the ids planned are as many as missing (`RecordsIs`), and a
  highest id exists because a finite set of integers has one (`HighestExists`, by well-foundedness of strict inclusion).

Only model-checked: liveness (`HalfOpenResolves`, `Recovers`, `EveryOrderAnswered`, `FailoverCompletes`, `Quiesces`, `DurationIsKept`,
`FoundAgain`), which is out of the prover's reach. Every invariant and every action property that a passing run checks is proved.

## 6. Not modelled

* The web client, the CLI, manifests, dashboards, tracing and test scripts: I/O and configuration. The client polls and
  draws; no service depends on what it remembers.
* `promote_postgres.sh`: three commands an operator runs by hand. A stop between them leaves two writable nodes, but that is
  a fact about PostgreSQL and kubectl, of which the repository has only the command lines.
* Read-only endpoints, metadata, response texts and payload building; the batch generator, which is a loop of sagas.
* The sequences of the tables, which no insert of the program uses, and deadlocks between cascading deletes inside PostgreSQL.
* The rewriting of URLs by the resolver, and calls to an address whose container is gone: the orchestrator never drops an
  address it has cached, and the panel keeps the one of a stopped container, so another container may answer at it.
* Clock differences between pods, and a transaction that outlives the heartbeat that gave up on it.
* Breaker, settings and simulator across pods: each process has its own, and a new leader starts with fresh ones. A deposed
  leader's simulator runs on, and nobody routes a stop to it; the two share no state, so a composition would restate it.

## 7. What is left

1. Runs with two overlapping seeders, and with more changes of the cluster during one discovery, on a larger machine; the proofs cover
   both for any number.
2. The refresh scheduler of the web client, if it ever keeps state the panel depends on.
