----------------------------- MODULE PanelRouting -----------------------------
(***************************************************************************)
(* How the control panel (services/control-panel/main.py) finds the        *)
(* orchestrator: _discover_orchestrator, its cache, the switch between the *)
(* Docker Compose stack and the cluster, and the gate (_ensure_leader) a   *)
(* request meets at the other end.  The cluster elects its leaders as      *)
(* Leadership says; the panel only sees what pods tell about themselves.   *)
(*                                                                         *)
(* Every panel request that needs the orchestrator is a coroutine: between *)
(* two awaits nothing else of the panel runs.  Times are ages: the panel   *)
(* only ever compares the age of a cache entry with the TTL.  The timeouts *)
(* of the probes bound how old a discovery becomes, and the timeout of the *)
(* request itself how long it is under way.                                *)
(***************************************************************************)
EXTENDS Leadership, Integers, FiniteSets

CONSTANTS
  Requests,   \* panel requests under way at once; an answered one may be asked again
  OrderKey,   \* "order", the service that orchestrates in the Compose stack
  Priority,   \* ORCHESTRATOR_PRIORITY of each service
  TTL,        \* _ORCHESTRATOR_TTL
  Discovery,  \* bound on the age of a discovery: the sum of its timeouts
  Transit,    \* bound on the age of a request that was sent
  MaxChanges, \* bound on the changes of the cluster and of the mode
  None

ASSUME ServicesAssumption == IsFiniteSet(Services)
ASSUME KeyAssumption == OrderKey \in Services /\ None \notin Services \cup Nodes
ASSUME PriorityAssumption == Priority \in [Services -> Int]
ASSUME TimesAssumption == TTL \in Nat \ {0} /\ Discovery \in Nat /\ Transit \in Nat
ASSUME ChangesAssumption == MaxChanges \in Nat

VARIABLES
  up,          \* pods that answer
  mode,        \* RUNTIME_MODE
  cache,       \* _ORCHESTRATOR_CACHE, per mode
  req,         \* the local variables of each request
  quiet,       \* history: time since a pod last came, went, or changed its mind
  changes      \* changes so far

clusterVars == <<leads, covered, up>>
vars == <<clusterVars, mode, cache, req, quiet, changes>>

Modes == {"compose", "kubernetes"}
\* idle: not asked; asking: awaits the answers of the five services; listing: awaits the
\* list of pods of one; probing: awaits the answers of these, one at a time; sent.
Phases == {"idle", "asking", "listing", "probing", "sent"}

\* Where a discovery leads: a service and the pod of it that leads, if it names one.
\* blind is history: an answer it should have had was lost.
Targets == [key : Services, node : Nodes \cup {None}, blind : BOOLEAN]
\* What a service's proxy answered: a pod of it, and whether that leads.
Pending == [node |-> None, leading |-> TRUE]
Silence == [node |-> None, leading |-> FALSE]
Heard == [node : Nodes, leading : BOOLEAN] \cup {Pending, Silence}
NoEntry == [target |-> None, age |-> 0]
Entries == [target : Targets, age : 0 .. TTL] \cup {NoEntry}

NothingHeard == [s \in Services |-> Silence]
Nowhere == [key |-> OrderKey, node |-> None, blind |-> FALSE]
Idle == [phase |-> "idle", began |-> "compose", age |-> 0, heard |-> NothingHeard,
         target |-> Nowhere, unasked |-> {}]

Settling == TTL + Discovery + Transit

TypeOK ==
  /\ LeadershipTypeOK
  /\ up \subseteq Nodes
  /\ mode \in Modes
  /\ cache \in [Modes -> Entries]
  /\ req \in [Requests -> [phase : Phases, began : Modes, age : Nat,
                           heard : [Services -> Heard], target : Targets,
                           unasked : SUBSET Nodes]]
  /\ quiet \in 0 .. Settling
  /\ changes \in 0 .. MaxChanges

Init ==
  /\ up \in SUBSET Nodes
  /\ leads \in SUBSET up
  /\ covered = leads
  /\ \A m, n \in leads : Service[m] = Service[n] => m = n
  /\ mode \in Modes
  /\ cache = [m \in Modes |-> NoEntry]
  /\ req = [r \in Requests |-> Idle]
  /\ quiet = 0
  /\ changes = 0

-----------------------------------------------------------------------------
(* Discovery *)

\* Mutant: an entry never grows old.
Fresh_Forever(m) == cache[m] # NoEntry

Fresh(m) == cache[m] # NoEntry /\ cache[m].age < TTL

\* Mutant: the answer is stored under the mode in force when it arrives.
Remember_CurrentMode(m, target) ==
  /\ m \in Modes
  /\ cache' = [cache EXCEPT ![mode] = [target |-> target, age |-> 0]]

Remember(m, target) == cache' = [cache EXCEPT ![m] = [target |-> target, age |-> 0]]

\* The end of orchestrator_base: the base URL follows the mode in force now, a Compose
\* service or (pods report their HOSTNAME) a pod.  The request is sent without an await.
Send(r, target) ==
  req' = [req EXCEPT ![r] = [Idle EXCEPT !.phase = "sent", !.began = req[r].began,
                                         !.target = IF mode = "compose"
                                                    THEN [target EXCEPT !.node = None]
                                                    ELSE target]]

Conclude(r, target) ==
  /\ Remember(req[r].began, target)
  /\ Send(r, target)

\* A request arrives and finds a fresh answer.
AskCached(r) ==
  /\ req[r].phase = "idle"
  /\ Fresh(mode)
  /\ req' = [req EXCEPT ![r] = [Idle EXCEPT !.phase = "sent", !.began = mode,
                                            !.target = cache[mode].target]]
  /\ UNCHANGED <<clusterVars, mode, cache, quiet, changes>>

\* In the Compose stack the election is disabled and order-service orchestrates.
AskCompose(r) ==
  /\ req[r].phase = "idle"
  /\ ~Fresh(mode)
  /\ mode = "compose"
  /\ Remember(mode, Nowhere)
  /\ req' = [req EXCEPT ![r] = [Idle EXCEPT !.phase = "sent", !.began = mode]]
  /\ UNCHANGED <<clusterVars, mode, quiet, changes>>

AskCluster(r) ==
  /\ req[r].phase = "idle"
  /\ ~Fresh(mode)
  /\ mode = "kubernetes"
  /\ req' = [req EXCEPT ![r] = [Idle EXCEPT !.phase = "asking", !.began = mode,
                                            !.heard = [s \in Services |-> Pending]]]
  /\ UNCHANGED <<clusterVars, mode, cache, quiet, changes>>

PodsOf(s) == {n \in up : Service[n] = s}

\* The proxy of a service passes the question to any of its pods, or it is lost.
Hear(r, s) ==
  /\ req[r].phase = "asking"
  /\ req[r].heard[s] = Pending
  /\ \/ \E n \in PodsOf(s) :
          req' = [req EXCEPT ![r].heard[s] = [node |-> n, leading |-> n \in leads]]
     \/ req' = [req EXCEPT ![r].heard[s] = Silence,
                           ![r].target.blind = @ \/ PodsOf(s) # {}]
  /\ UNCHANGED <<clusterVars, mode, cache, quiet, changes>>

Answered(r) == {s \in Services : req[r].heard[s] # Silence}
Claimants(r) == {s \in Answered(r) : req[r].heard[s].leading}

\* max(..., key=priority)
Foremost(S) == CHOOSE s \in S : \A t \in S : Priority[t] <= Priority[s]

\* Who is asked for its pods when nobody who answered leads.
Fallback(S) == IF OrderKey \in S THEN OrderKey ELSE Foremost(S)

\* All services have answered or timed out.
GatherFails(r) ==
  /\ req[r].phase = "asking"
  /\ Answered(r) = {}
  /\ req' = [req EXCEPT ![r] = Idle]
  /\ UNCHANGED <<clusterVars, mode, cache, quiet, changes>>

GatherFindsLeader(r) ==
  /\ req[r].phase = "asking"
  /\ \A s \in Services : req[r].heard[s] # Pending
  /\ Claimants(r) # {}
  /\ LET s == Foremost(Claimants(r))
     IN  Conclude(r, [req[r].target EXCEPT !.key = s, !.node = req[r].heard[s].node])
  /\ UNCHANGED <<clusterVars, mode, quiet, changes>>

GatherFindsNone(r) ==
  /\ req[r].phase = "asking"
  /\ Answered(r) # {} /\ Claimants(r) = {}
  /\ LET s == Fallback(Answered(r))
     IN  req' = [req EXCEPT ![r].phase = "listing",
                            ![r].heard = NothingHeard,
                            ![r].target.key = s,
                            ![r].target.node = req[r].heard[s].node]
  /\ UNCHANGED <<clusterVars, mode, cache, quiet, changes>>

\* _k8s_leader_pod: the pods of the service are listed, and asked one after the other.
\* If the list cannot be had the pod that answered the gathering is taken.
ListPods(r) ==
  /\ req[r].phase = "listing"
  /\ req' = [req EXCEPT ![r].phase = "probing", ![r].unasked = PodsOf(req[r].target.key)]
  /\ UNCHANGED <<clusterVars, mode, cache, quiet, changes>>

ListFails(r) ==
  /\ req[r].phase = "listing"
  /\ Conclude(r, [req[r].target EXCEPT !.blind = TRUE])
  /\ UNCHANGED <<clusterVars, mode, quiet, changes>>

ProbeFindsLeader(r) ==
  /\ req[r].phase = "probing"
  /\ \E n \in req[r].unasked \cap leads :
       Conclude(r, [req[r].target EXCEPT !.node = n])
  /\ UNCHANGED <<clusterVars, mode, quiet, changes>>

\* The pod does not lead, is gone, or its answer is lost.
ProbeNext(r) ==
  /\ req[r].phase = "probing"
  /\ \E n \in req[r].unasked :
       req' = [req EXCEPT ![r].unasked = @ \ {n}, ![r].target.blind = @ \/ n \in leads]
  /\ UNCHANGED <<clusterVars, mode, cache, quiet, changes>>

\* None of the pods leads: the one that answered the gathering is taken.
ProbeFindsNone(r) ==
  /\ req[r].phase = "probing"
  /\ req[r].unasked = {}
  /\ Conclude(r, req[r].target)
  /\ UNCHANGED <<clusterVars, mode, quiet, changes>>

-----------------------------------------------------------------------------
(* The other end *)

\* Served, refused with a 503, or the pod cannot be reached: the panel passes it on.
Deliver(r) ==
  /\ req[r].phase = "sent"
  /\ req' = [req EXCEPT ![r] = Idle]
  /\ UNCHANGED <<clusterVars, mode, cache, quiet, changes>>

-----------------------------------------------------------------------------
(* The world *)

\* Mutant: whatever is asked for is taken.
SetRuntimeMode_Unchecked(m) ==
  /\ changes < MaxChanges
  /\ m # mode
  /\ mode' = m
  /\ cache' = [n \in Modes |-> NoEntry]
  /\ changes' = changes + 1
  /\ UNCHANGED <<clusterVars, req, quiet>>

\* POST /api/runtime-mode: None stands for any other text, which is refused.  The answers
\* found so far are forgotten, for both modes.
SetRuntimeMode(m) ==
  /\ m \in Modes
  /\ changes < MaxChanges
  /\ m # mode
  /\ mode' = m
  /\ cache' = [n \in Modes |-> NoEntry]
  /\ changes' = changes + 1
  /\ UNCHANGED <<clusterVars, req, quiet>>

ClusterChanges ==
  /\ changes < MaxChanges
  /\ changes' = changes + 1
  /\ quiet' = 0
  /\ UNCHANGED <<mode, cache, req>>

PodStarts(n) ==
  /\ n \notin up
  /\ up' = up \cup {n}
  /\ ClusterChanges
  /\ UNCHANGED leadership

PodEnds(n) ==
  /\ n \in up
  /\ up' = up \ {n}
  /\ Demote(n)
  /\ ClusterChanges

PodWins(n) ==
  /\ n \in up \ leads
  /\ Promote(n) \/ PromoteLate(n)
  /\ ClusterChanges
  /\ UNCHANGED up

PodLoses(n) ==
  /\ n \in leads
  /\ Demote(n)
  /\ ClusterChanges
  /\ UNCHANGED up

LeaseEnds ==
  /\ Lapse
  /\ covered' # covered
  /\ UNCHANGED <<up, mode, cache, req, quiet, changes>>

Discovering(r) == req[r].phase \in {"asking", "listing", "probing"}

Older(n, bound) == IF n < bound THEN n + 1 ELSE bound

\* Time passes.  No discovery outlives its timeouts and no request its own.
Tick ==
  /\ \A r \in Requests : /\ Discovering(r) => req[r].age < Discovery
                         /\ req[r].phase = "sent" => req[r].age < Transit
  /\ cache' = [m \in Modes |-> IF cache[m] = NoEntry THEN NoEntry
                               ELSE [cache[m] EXCEPT !.age = Older(@, TTL)]]
  /\ req' = [r \in Requests |-> IF req[r].phase = "idle" THEN req[r]
                                ELSE [req[r] EXCEPT !.age = @ + 1]]
  /\ quiet' = Older(quiet, Settling)
  /\ UNCHANGED <<clusterVars, mode, changes>>

Ask(r) == AskCached(r) \/ AskCompose(r) \/ AskCluster(r)

Discover(r) ==
  \/ \E s \in Services : Hear(r, s)
  \/ GatherFails(r) \/ GatherFindsLeader(r) \/ GatherFindsNone(r)
  \/ ListPods(r) \/ ListFails(r)
  \/ ProbeFindsLeader(r) \/ ProbeNext(r) \/ ProbeFindsNone(r)

Next ==
  \/ \E r \in Requests : Ask(r) \/ Discover(r) \/ Deliver(r)
  \/ \E m \in Modes \cup {None} : SetRuntimeMode(m)
  \/ \E n \in Nodes : PodStarts(n) \/ PodEnds(n) \/ PodWins(n) \/ PodLoses(n)
  \/ LeaseEnds
  \/ Tick

Spec == Init /\ [][Next]_vars

-----------------------------------------------------------------------------
(* Properties *)

\* Nothing has changed in the cluster for as long as an answer can be remembered, looked
\* for and under way, and one pod leads.
Settled(n) == quiet = Settling /\ leads = {n}

\* The panel can find that pod: the service it asks for its pods is the leader's, or the
\* leader is the only pod of its service.
Findable(n) ==
  \/ Replicas(n) \cap up = {}
  \/ Fallback({s \in Services : PodsOf(s) # {}}) = Service[n]

\* A request for the cluster is sent to the leader once things have settled, whatever
\* changed during the discoveries before, overlapping ones included, and unless answers
\* were lost: a failover is followed within the TTL.
RoutesSettle ==
  [][\A r \in Requests, n \in Nodes :
       /\ req[r].phase # "sent" /\ req'[r].phase = "sent" /\ mode = "kubernetes"
       /\ Settled(n) /\ Findable(n)
       => req'[r].target.node = n \/ req'[r].target.blind]_vars

\* The same of every leader, as the docstring of _k8s_leader_pod has it.
AlwaysRoutesToLeader ==
  [][\A r \in Requests, n \in Nodes :
       /\ req[r].phase # "sent" /\ req'[r].phase = "sent" /\ mode = "kubernetes"
       /\ Settled(n)
       => req'[r].target.node = n \/ req'[r].target.blind]_vars

\* In the Compose stack only order-service orchestrates: a request is sent to another
\* service only if the mode was switched while it was looking for a leader, never
\* because of what such a discovery left in the cache.
ComposeMeansOrderService ==
  [][\A r \in Requests :
       /\ req[r].phase # "sent" /\ req'[r].phase = "sent" /\ mode = "compose"
       /\ req'[r].target.key # OrderKey
       => req[r].began = "kubernetes" /\ Discovering(r)]_vars
=============================================================================
