---------------------------- MODULE ServiceControl ----------------------------
(***************************************************************************)
(* How the control panel stops, starts and scales the services, and how    *)
(* their addresses are remembered.  In the Compose stack service_action    *)
(* acts on containers through the Docker socket, the panel remembers their *)
(* addresses (_IP_CACHE) so as not to wait for the DNS of stopped ones,    *)
(* and the orchestrator has a cache of its own.  In the cluster the same   *)
(* request, and POST /api/kubernetes/scale, write the replicas of a        *)
(* Deployment and the lower bound of its autoscaler.                       *)
(*                                                                         *)
(* The endpoints are synchronous: each request runs in a worker thread, so *)
(* several are between their calls at once; the event loop is one more     *)
(* thread where it looks addresses up.  The two modes share no state:      *)
(* RUNTIME_MODE is chosen once.                                            *)
(***************************************************************************)
EXTENDS Integers, Sequences, FiniteSets

CONSTANTS
  Services,     \* containers, or Deployments
  OrderKey,     \* the one that orchestrates
  Addresses,    \* addresses of the Compose network
  Threads,      \* worker threads of the panel
  Loop,         \* its event loop
  ListOrder,    \* the order in which Docker lists the containers
  Asked,        \* replicas somebody may ask for
  MaxReplicas,  \* the most the panel accepts, 10
  HpaMax,       \* maxReplicas of the autoscaler
  MaxActions,   \* bound on the requests
  None

ASSUME ServicesAssumption == OrderKey \in Services /\ Loop \notin Threads
ASSUME ListAssumption == ListOrder \in Seq(Services) /\ {ListOrder[k] : k \in DOMAIN ListOrder} = Services
ASSUME AddressAssumption == Cardinality(Services) <= Cardinality(Addresses) /\ None \notin Addresses
ASSUME ScaleAssumption ==
  Asked \subseteq Int /\ 0 \in Asked /\ MaxReplicas \in Nat /\ HpaMax \in 1 .. MaxReplicas /\ MaxActions \in Nat

VARIABLES
  mode,      \* RUNTIME_MODE
  addr,      \* the address of each container, None while it is stopped
  known,     \* _IP_CACHE of the panel
  orch,      \* _IP_CACHE of the orchestrator
  failed,    \* its _FAILED_RESOLVE, while it counts
  thread,    \* the local variables of each thread
  moved,     \* history: started at another address than the orchestrator remembers
  sound,     \* history: the last look at the containers was clean, and no start raised since
  replicas,  \* spec.replicas of each Deployment
  hpaMin,    \* minReplicas of its autoscaler
  asked,     \* history: the replicas the panel last promised, and nobody asked again
  actions    \* requests so far

compose == <<addr, known, orch, failed, moved, sound>>
cluster == <<replicas, hpaMin, asked>>
vars == <<mode, compose, thread, cluster, actions>>

\* idle; list: the containers are inspected one after the other; write: what was found goes
\* into the cache, one entry after the other; find: the autoscalers are about to be listed;
\* put: the scale is about to be written; patch: the autoscaler's bound is.
Stages == {"idle", "list", "write", "find", "put", "patch"}
\* found: what the inspections gave and has not been written yet; clean: history, since the
\* look began no container changed and no look that had overlapped a change came to its end.
Idle == [stage |-> "idle", on |-> OrderKey, found |-> <<>>, clean |-> TRUE,
         n |-> 0, hpa |-> FALSE]

Runners == Threads \cup {Loop}
Address == Addresses \cup {None}
Locals == [stage : Stages, on : Services, found : Seq(Address), clean : BOOLEAN,
           n : Asked, hpa : BOOLEAN]

TypeOK ==
  /\ mode \in {"compose", "kubernetes"}
  /\ addr \in [Services -> Address]
  /\ \A s, t \in Services : addr[s] = addr[t] /\ addr[s] # None => s = t
  /\ known \in [Services -> Address]
  /\ orch \in [Services -> Address]
  /\ failed \subseteq Services
  /\ moved \in [Services -> BOOLEAN]
  /\ thread \in [Runners -> Locals]
  /\ sound \in BOOLEAN
  /\ replicas \in [Services -> 0 .. MaxReplicas]
  /\ hpaMin \in [Services -> 1 .. HpaMax]
  /\ asked \in [Services -> 0 .. MaxReplicas]
  /\ actions \in 0 .. MaxActions

\* The panel starts with what warmup_dns_cache found, the services before their caches.
Init ==
  /\ mode \in {"compose", "kubernetes"}
  /\ addr \in {f \in [Services -> Addresses] : \A s, t \in Services : f[s] = f[t] => s = t}
  /\ known = addr
  /\ orch = [s \in Services |-> None]
  /\ failed = {}
  /\ moved = [s \in Services |-> FALSE]
  /\ thread = [t \in Runners |-> Idle]
  /\ sound = TRUE
  /\ replicas = [s \in Services |-> 1]
  /\ hpaMin = [s \in Services |-> 1]
  /\ asked = [s \in Services |-> 0]
  /\ actions = 0

At(t, stage) == thread[t].stage = stage

\* A request is taken up by an idle thread.
Request(t) ==
  /\ t \in Threads
  /\ At(t, "idle")
  /\ actions < MaxActions
  /\ actions' = actions + 1
  /\ UNCHANGED mode

-----------------------------------------------------------------------------
(* The Compose stack *)

\* History: the looks in progress are no longer clean.
Stirred == [t \in Runners |-> [thread[t] EXCEPT !.clean = FALSE]]

Looking(s) == [Idle EXCEPT !.stage = "list", !.on = s]

\* The orchestrator's caches end with its process.
OrchestratorKeeps(s) ==
  IF s = OrderKey THEN /\ orch' = [r \in Services |-> None] /\ failed' = {}
                       /\ moved' = [r \in Services |-> FALSE]
                  ELSE UNCHANGED <<orch, failed, moved>>

\* service_action "stop": nothing is done about the address.  That c.stop() raises after the
\* container has stopped changes the answer only.
Stop(t, s) ==
  /\ mode = "compose"
  /\ Request(t)
  /\ addr[s] # None
  /\ addr' = [addr EXCEPT ![s] = None]
  /\ thread' = Stirred
  /\ OrchestratorKeeps(s)
  /\ UNCHANGED <<known, sound, cluster>>

\* Docker gives the container a free address, not always the one it had.
ComesUp(s) ==
  /\ addr[s] = None
  /\ \E a \in Addresses \ {addr[r] : r \in Services} :
       /\ addr' = [addr EXCEPT ![s] = a]
       /\ moved' = [moved EXCEPT ![s] = orch[s] \notin {None, a}]

\* Mutant: the cache is left alone.
Start_NoSync(t, s) ==
  /\ mode = "compose"
  /\ Request(t)
  /\ ComesUp(s)
  /\ thread' = Stirred
  /\ UNCHANGED <<known, orch, failed, sound, cluster>>

\* service_action "start": then all containers are looked at, not only this one, and also
\* when it was running already.
Start(t, s) ==
  /\ mode = "compose"
  /\ Request(t)
  /\ \/ ComesUp(s) /\ thread' = [Stirred EXCEPT ![t] = Looking(s)]
     \/ /\ addr[s] # None
        /\ thread' = [thread EXCEPT ![t] = Looking(s)]
        /\ UNCHANGED <<addr, moved>>
  /\ UNCHANGED <<known, orch, failed, sound, cluster>>

\* c.start() raises although the container comes up: the request is answered 500 and
\* nobody looks.
StartRaises(t, s) ==
  /\ mode = "compose"
  /\ Request(t)
  /\ ComesUp(s)
  /\ thread' = Stirred
  /\ sound' = FALSE
  /\ UNCHANGED <<known, orch, failed, cluster>>

\* resolve_url: an address the panel does not have makes the event loop look.
ResolveMisses(s) ==
  /\ mode = "compose"
  /\ At(Loop, "idle")
  /\ known[s] = None
  /\ thread' = [thread EXCEPT ![Loop] = Looking(s)]
  /\ UNCHANGED <<mode, compose, cluster, actions>>

\* sync_ip_cache_from_docker, the list: one inspection per container, and no entry written
\* before the last of them.
Inspect(t) ==
  /\ At(t, "list")
  /\ Len(thread[t].found) < Len(ListOrder)
  /\ LET found == Append(thread[t].found, addr[ListOrder[Len(thread[t].found) + 1]])
     IN  thread' = [thread EXCEPT
           ![t].found = found,
           ![t].stage = IF Len(found) = Len(ListOrder) THEN "write" ELSE "list"]
  /\ UNCHANGED <<mode, compose, cluster, actions>>

\* The container whose entry a thread writes next.
NextOf(t) == ListOrder[Len(ListOrder) - Len(thread[t].found) + 1]

\* The loop over them: an address found is written over the cache; a stopped container has
\* none and keeps its entry.
WriteEntry(t) ==
  /\ At(t, "write")
  /\ thread[t].found # <<>>
  /\ LET a == Head(thread[t].found)
     IN  known' = IF a = None THEN known ELSE [known EXCEPT ![NextOf(t)] = a]
  /\ IF Len(thread[t].found) > 1
     THEN /\ thread' = [thread EXCEPT ![t].found = Tail(@)]
          /\ UNCHANGED sound
     ELSE /\ thread' = [IF thread[t].clean THEN thread ELSE Stirred EXCEPT ![t] = Idle]
          /\ sound' = thread[t].clean
  /\ UNCHANGED <<mode, addr, orch, failed, moved, cluster, actions>>

\* Docker cannot be asked: the request is answered as if it had been.
InspectFails(t) ==
  /\ At(t, "list")
  /\ thread' = [thread EXCEPT ![t] = Idle]
  /\ sound' = FALSE
  /\ UNCHANGED <<mode, addr, known, orch, failed, moved, cluster, actions>>

\* The panel starts again, and with it its cache: warmup_dns_cache.
PanelRestarts ==
  /\ mode = "compose"
  /\ actions < MaxActions
  /\ actions' = actions + 1
  /\ known' = addr
  /\ thread' = [t \in Runners |-> Idle]
  /\ sound' = TRUE
  /\ UNCHANGED <<mode, addr, orch, failed, moved, cluster>>

\* resolve_url of the orchestrator: a host without an address is looked up in the DNS,
\* unless that failed a moment ago; what is found is kept for good.
OrchestratorResolves(s) ==
  /\ mode = "compose"
  /\ addr[OrderKey] # None
  /\ orch[s] = None /\ s \notin failed
  /\ IF addr[s] # None THEN orch' = [orch EXCEPT ![s] = addr[s]] /\ UNCHANGED failed
                       ELSE failed' = failed \cup {s} /\ UNCHANGED orch
  /\ UNCHANGED <<mode, addr, known, moved, sound, thread, cluster, actions>>

\* Mutant: the time of the failure is never compared with the clock.
FailureForgotten_Never(s) == s \in failed /\ UNCHANGED vars

\* Two seconds have passed.
FailureForgotten(s) ==
  /\ s \in failed
  /\ failed' = failed \ {s}
  /\ UNCHANGED <<mode, addr, known, orch, moved, sound, thread, cluster, actions>>

-----------------------------------------------------------------------------
(* The cluster *)

\* Mutant: any number is accepted.
Scale_Unchecked(t, s, n) ==
  /\ mode = "kubernetes"
  /\ Request(t)
  /\ thread' = [thread EXCEPT ![t] = [Idle EXCEPT !.stage = "find", !.on = s, !.n = n]]
  /\ asked' = [asked EXCEPT ![s] = 0]
  /\ UNCHANGED <<compose, replicas, hpaMin>>

\* service_action in the cluster, 0 or 1, and POST /api/kubernetes/scale.
Scale(t, s, n) ==
  /\ mode = "kubernetes"
  /\ Request(t)
  /\ n \in 0 .. MaxReplicas
  /\ thread' = [thread EXCEPT ![t] = [Idle EXCEPT !.stage = "find", !.on = s, !.n = n]]
  /\ asked' = [asked EXCEPT ![s] = 0]
  /\ UNCHANGED <<compose, replicas, hpaMin>>

\* The list of autoscalers is not had (any status but 200): none is patched.
Find(t) ==
  /\ At(t, "find")
  /\ \E found \in BOOLEAN : thread' = [thread EXCEPT ![t].stage = "put", ![t].hpa = found]
  /\ UNCHANGED <<mode, compose, cluster, actions>>

Put(t) ==
  /\ At(t, "put")
  /\ replicas' = [replicas EXCEPT ![thread[t].on] = thread[t].n]
  /\ thread' = [thread EXCEPT ![t] = IF thread[t].hpa THEN [@ EXCEPT !.stage = "patch"] ELSE Idle]
  /\ UNCHANGED <<mode, compose, hpaMin, asked, actions>>

\* The request is refused, or cannot be made, or its answer is lost: an error is answered
\* and the autoscaler keeps its bound.
ScaleFails(t) ==
  /\ At(t, "find") \/ At(t, "put")
  /\ thread' = [thread EXCEPT ![t] = Idle]
  /\ replicas' \in {replicas} \cup IF At(t, "put")
                                   THEN {[replicas EXCEPT ![thread[t].on] = thread[t].n]} ELSE {}
  /\ UNCHANGED <<mode, compose, hpaMin, asked, actions>>

Others(t) == {u \in Threads \ {t} : thread[u].on = thread[t].on /\ ~At(u, "idle")}

\* Mutant: the bound is what a start asks for, whatever was asked.
Patch_Resets(t) ==
  /\ At(t, "patch")
  /\ LET s == thread[t].on
         n == thread[t].n
     IN  /\ hpaMin' = [hpaMin EXCEPT ![s] = 1]
         /\ asked' = [asked EXCEPT ![s] = IF n \in 1 .. HpaMax /\ Others(t) = {} THEN n ELSE 0]
  /\ thread' = [thread EXCEPT ![t] = Idle]
  /\ UNCHANGED <<mode, compose, replicas, actions>>

\* The bound follows the replicas; the API server refuses one below 1 or above the upper
\* bound, which nobody looks at.
Patch(t) ==
  /\ At(t, "patch")
  /\ LET s == thread[t].on
         n == thread[t].n
     IN  IF n \in 1 .. HpaMax
         THEN /\ hpaMin' = [hpaMin EXCEPT ![s] = n]
              /\ asked' = [asked EXCEPT ![s] = IF Others(t) = {} THEN n ELSE 0]
         ELSE UNCHANGED <<hpaMin, asked>>
  /\ thread' = [thread EXCEPT ![t] = Idle]
  /\ UNCHANGED <<mode, compose, replicas, actions>>

\* It fails, which is no error.
PatchFails(t) ==
  /\ At(t, "patch")
  /\ thread' = [thread EXCEPT ![t] = Idle]
  /\ UNCHANGED <<mode, compose, cluster, actions>>

\* The autoscaler moves within its bounds, unless there are no replicas.
Autoscale(s) ==
  /\ mode = "kubernetes"
  /\ replicas[s] > 0
  /\ \E n \in hpaMin[s] .. HpaMax : replicas' = [replicas EXCEPT ![s] = n]
  /\ UNCHANGED <<mode, compose, thread, hpaMin, asked, actions>>

-----------------------------------------------------------------------------
Next ==
  \/ \E t \in Runners : Inspect(t) \/ WriteEntry(t) \/ InspectFails(t)
  \/ \E t \in Threads, s \in Services :
       Stop(t, s) \/ Start(t, s) \/ StartRaises(t, s) \/ \E n \in Asked : Scale(t, s, n)
  \/ \E t \in Threads : Find(t) \/ Put(t) \/ ScaleFails(t) \/ Patch(t) \/ PatchFails(t)
  \/ \E s \in Services :
       ResolveMisses(s) \/ OrchestratorResolves(s) \/ FailureForgotten(s) \/ Autoscale(s)
  \/ PanelRestarts

Spec == Init /\ [][Next]_vars

\* Orders keep arriving, each of them calls every service, and time passes.
Fairness ==
  \A s \in Services : WF_vars(OrchestratorResolves(s)) /\ WF_vars(FailureForgotten(s))

FairSpec == Spec /\ Fairness

-----------------------------------------------------------------------------
(* Properties *)

\* When nobody is looking at the containers, the panel has the address of every one that
\* runs, those restarted elsewhere by other requests included, although each look writes what
\* it saw earlier over the cache entry by entry while others do: provided the look that ended
\* last saw the containers as they are (since it began none of them changed, and no look that
\* had overlapped a change ended) and no start raised after it.
PanelFindsServices ==
  sound /\ (\A t \in Runners : At(t, "idle"))
    => \A s \in Services : addr[s] # None => known[s] = addr[s]

\* A manual scale holds: once it is answered with the autoscaler's bound written, and until
\* somebody asks again, the autoscaler does not go below it, unless two requests for the
\* Deployment overlapped.
ScaleHolds ==
  [][\A s \in Services :
       asked'[s] = asked[s] /\ replicas[s] >= asked[s] => replicas'[s] >= asked[s]]_vars

\* A service that was looked for while it was stopped is found again once it runs, at the
\* address it runs at: the remembered failure passes, and no other service's start or stop
\* brings it back.  A service that was found and is then started at another address is the
\* exception: the orchestrator keeps the first address until its own process ends.
FoundAgain ==
  mode = "compose" => \A s \in Services :
    []<>(addr[s] = None \/ addr[OrderKey] = None \/ orch[s] = addr[s] \/ moved[s])
=============================================================================
