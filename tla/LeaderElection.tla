---------------------------- MODULE LeaderElection ----------------------------
(***************************************************************************)
(* Leader election among the pods of the five services, LeaderElection and *)
(* _heartbeat of services/shared/orchestrator.py, inside Kubernetes        *)
(* (elections enabled).  Every service has one row in service_leader,      *)
(* shared by its replicas.  A heartbeat captures the time, upserts the row *)
(* of its service unless another replica holds a valid lease on it, reads  *)
(* all rows in a second transaction and recomputes the in-memory view that *)
(* _ensure_leader consults at the top of every orchestrator endpoint.      *)
(*                                                                         *)
(* node_id is a fresh uuid per process: a restarted pod is another node.   *)
(* The clocks of the pods agree.  The time between heartbeats is left out: *)
(* a heartbeat may begin at any time.  A transaction whose heartbeat fails *)
(* or dies has ended, one way or the other, by then.                       *)
(***************************************************************************)
EXTENDS Integers

CONSTANTS
  Nodes,        \* processes, as integers: the order of the node_id strings
  Services,     \* candidate services, the keys of the table
  Service,      \* the service of each node
  Priority,     \* ORCHESTRATOR_PRIORITY of each service
  Lease,        \* lease_seconds
  MaxClock,     \* bound on the time modelled
  FaultsUntil,  \* database calls and processes fail only before this time
  None

ASSUME NodesAssumption == Nodes \subseteq Int /\ None \notin Nodes
ASSUME ServicesAssumption == None \notin Services /\ Service \in [Nodes -> Services]
ASSUME PriorityAssumption == Priority \in [Services -> Int]
ASSUME LeaseAssumption == Lease \in Nat \ {0}
ASSUME BoundsAssumption == MaxClock \in Nat /\ FaultsUntil \in Nat

VARIABLES
  clock,          \* the time
  phase,          \* where the loop of each process is
  now,            \* the time the heartbeat under way captured
  verdict,        \* the winner among the rows it has read, and whether that is itself
  rows,           \* service_leader: node_id and heard_at per service_name
  isLeader,       \* ELECTION.is_leader
  leaderService,  \* ELECTION.current_leader_service
  lastBeat,       \* ELECTION.last_heartbeat_at
  writtenAt       \* history: when the row of a service was last written

nodeVars == <<phase, now, verdict, isLeader, leaderService, lastBeat>>
tableVars == <<rows, writtenAt>>
vars == <<clock, nodeVars, tableVars>>

Phases == {"off", "idle", "upserting", "reading", "deciding", "dead"}
Rows == [node : Nodes \cup {None}, heard : Nat]
NoRow == [node |-> None, heard |-> 0]
Verdicts == [leader : Services \cup {None}, mine : BOOLEAN]
NoLeader == [leader |-> None, mine |-> FALSE]

TypeOK ==
  /\ clock \in Nat
  /\ phase \in [Nodes -> Phases]
  /\ now \in [Nodes -> Nat]
  /\ verdict \in [Nodes -> Verdicts]
  /\ rows \in [Services -> Rows]
  /\ isLeader \in [Nodes -> BOOLEAN]
  /\ leaderService \in [Nodes -> Services \cup {None}]
  /\ lastBeat \in [Nodes -> Nat]
  /\ writtenAt \in [Services -> Nat]

Init ==
  /\ clock = 0
  /\ phase = [n \in Nodes |-> "off"]
  /\ now = [n \in Nodes |-> 0]
  /\ verdict = [n \in Nodes |-> NoLeader]
  /\ rows = [s \in Services |-> NoRow]
  /\ isLeader = [n \in Nodes |-> FALSE]
  /\ leaderService = [n \in Nodes |-> None]
  /\ lastBeat = [n \in Nodes |-> 0]
  /\ writtenAt = [s \in Services |-> 0]

-----------------------------------------------------------------------------
(* One heartbeat *)

\* lease_expires_at: heard_at and it are written together.
LeaseExpires(r) == r.heard + Lease

\* The local variables of a heartbeat end with it.
EndBeat(n) ==
  /\ phase' = [phase EXCEPT ![n] = "idle"]
  /\ now' = [now EXCEPT ![n] = 0]
  /\ verdict' = [verdict EXCEPT ![n] = NoLeader]

\* Mutant: the guard compares heard_at, so every lease looks expired.
MayWrite_AnyLease(n) ==
  rows[Service[n]].node \in {None, n} \/ rows[Service[n]].heard <= now[n]

\* Mutant: an expired lease cannot be taken over.
MayWrite_OwnOnly(n) == rows[Service[n]].node \in {None, n}

\* INSERT, or ON CONFLICT DO UPDATE of a row that is its own or expired.
MayWrite(n) ==
  LET r == rows[Service[n]]
  IN  r.node \in {None, n} \/ LeaseExpires(r) <= now[n]

Write(n) ==
  /\ MayWrite(n)
  /\ rows' = [rows EXCEPT ![Service[n]] = [node |-> n, heard |-> now[n]]]
  /\ writtenAt' = [writtenAt EXCEPT ![Service[n]] = clock]

\* lifespan: configure_election and start_leader_loop.
Start(n) ==
  /\ phase[n] = "off"
  /\ phase' = [phase EXCEPT ![n] = "idle"]
  /\ UNCHANGED <<clock, now, verdict, isLeader, leaderService, lastBeat, tableVars>>

Begin(n) ==
  /\ phase[n] = "idle"
  /\ phase' = [phase EXCEPT ![n] = "upserting"]
  /\ now' = [now EXCEPT ![n] = clock]
  /\ UNCHANGED <<clock, verdict, isLeader, leaderService, lastBeat, tableVars>>

\* The statement is evaluated under the row's lock and committed.
Upsert(n) ==
  /\ phase[n] = "upserting"
  /\ Write(n) \/ (~MayWrite(n) /\ UNCHANGED tableVars)
  /\ phase' = [phase EXCEPT ![n] = "reading"]
  /\ UNCHANGED <<clock, now, verdict, isLeader, leaderService, lastBeat>>

\* The candidates a heartbeat takes for alive.
Alive(n) == {s \in Services : rows[s].node # None /\ now[n] - rows[s].heard <= Lease}

\* Mutant: the lowest priority wins.
Precedes_Ascending(s, t) ==
  \/ Priority[s] < Priority[t]
  \/ Priority[s] = Priority[t] /\ rows[s].node < rows[t].node

\* The sort key (-priority, node_id).
Precedes(s, t) ==
  \/ Priority[s] > Priority[t]
  \/ Priority[s] = Priority[t] /\ rows[s].node < rows[t].node

Winners(n) == {s \in Alive(n) : \A t \in Alive(n) \ {s} : Precedes(s, t)}

\* Mutant: the leader's node_id is reported as its service.
Read_NamesNode(n) ==
  /\ phase[n] = "reading"
  /\ \/ Alive(n) = {} /\ verdict' = [verdict EXCEPT ![n] = NoLeader]
     \/ \E s \in Winners(n) : verdict' =
          [verdict EXCEPT ![n] = [leader |-> rows[s].node, mine |-> rows[s].node = n]]
  /\ phase' = [phase EXCEPT ![n] = "deciding"]
  /\ UNCHANGED <<clock, now, isLeader, leaderService, lastBeat, tableVars>>

\* The rows are read, in a transaction of their own: they and the captured time
\* determine the winner.
Read(n) ==
  /\ phase[n] = "reading"
  /\ \/ Alive(n) = {} /\ verdict' = [verdict EXCEPT ![n] = NoLeader]
     \/ \E s \in Winners(n) :
          verdict' = [verdict EXCEPT ![n] = [leader |-> s, mine |-> rows[s].node = n]]
  /\ phase' = [phase EXCEPT ![n] = "deciding"]
  /\ UNCHANGED <<clock, now, isLeader, leaderService, lastBeat, tableVars>>

\* Only now, after the session is closed, does the view change.
Decide(n) ==
  /\ phase[n] = "deciding"
  /\ leaderService' = [leaderService EXCEPT ![n] = verdict[n].leader]
  /\ isLeader' = [isLeader EXCEPT ![n] = verdict[n].mine]
  /\ lastBeat' = [lastBeat EXCEPT ![n] = now[n]]
  /\ EndBeat(n)
  /\ UNCHANGED <<clock, tableVars>>

-----------------------------------------------------------------------------
(* Failures and time *)

\* A heartbeat that is under way ends without an answer of the database; an upsert
\* may have been committed.
Aborted(n) ==
  /\ clock < FaultsUntil
  /\ phase[n] \in {"upserting", "reading", "deciding"}
  /\ UNCHANGED tableVars \/ (phase[n] = "upserting" /\ Write(n))

\* The loop swallows the exception: the view of the previous heartbeat stays.
BeatFails(n) ==
  /\ Aborted(n)
  /\ EndBeat(n)
  /\ UNCHANGED <<clock, isLeader, leaderService, lastBeat>>

\* The process ends, at any point, and its memory with it; its row stays.
Crash(n) ==
  /\ clock < FaultsUntil
  /\ \/ phase[n] = "idle" /\ UNCHANGED tableVars
     \/ Aborted(n)
  /\ phase' = [phase EXCEPT ![n] = "dead"]
  /\ now' = [now EXCEPT ![n] = 0]
  /\ verdict' = [verdict EXCEPT ![n] = NoLeader]
  /\ isLeader' = [isLeader EXCEPT ![n] = FALSE]
  /\ leaderService' = [leaderService EXCEPT ![n] = None]
  /\ lastBeat' = [lastBeat EXCEPT ![n] = 0]
  /\ UNCHANGED clock

Tick ==
  /\ clock < MaxClock
  /\ clock' = clock + 1
  /\ UNCHANGED <<nodeVars, tableVars>>

Heartbeat(n) == Begin(n) \/ Upsert(n) \/ Read(n) \/ Decide(n)

Next ==
  \/ Tick
  \/ \E n \in Nodes : Start(n) \/ Heartbeat(n) \/ BeatFails(n) \/ Crash(n)

Spec == Init /\ [][Next]_vars

\* Time goes on, and the loop of a process that is up keeps beating.
Fairness == WF_vars(Tick) /\ \A n \in Nodes : WF_vars(Heartbeat(n))

FairSpec == Spec /\ Fairness

-----------------------------------------------------------------------------
(* Properties *)

Up == {n \in Nodes : phase[n] \notin {"off", "dead"}}

\* The node leads on a heartbeat that its lease still covers.
Covered(n) == isLeader[n] /\ clock < lastBeat[n] + Lease

\* The replicas of a service never have two leaders at once whose last heartbeat is
\* younger than the lease, whatever fails or stalls between the steps of a heartbeat.
OneCoveredLeaderPerService ==
  \A m, n \in Nodes : Service[m] = Service[n] /\ Covered(m) /\ Covered(n) => m = n

\* A node leads against a service of higher priority only if, since that service's row
\* was last written, it has not begun a heartbeat, or found the row too old.
LowerPriorityYields ==
  \A n \in Nodes, s \in Services :
    /\ isLeader[n]
    /\ rows[s].node # None
    /\ Priority[s] > Priority[Service[n]]
    /\ writtenAt[s] < lastBeat[n]
    => lastBeat[n] - rows[s].heard > Lease

\* What makes the two invariants inductive.  Of the row of its own service a node knows
\* this much at each point of its heartbeat and as long as it leads.
OwnRow(n) == rows[Service[n]]
Beating(n) == phase[n] \in {"upserting", "reading", "deciding"}

ClockInv ==
  \A s \in Services :
    /\ rows[s].heard <= clock
    /\ rows[s].node # None => Service[rows[s].node] = s

MemoryInv(n) ==
  /\ now[n] <= clock
  /\ lastBeat[n] <= clock
  /\ Beating(n) => lastBeat[n] <= now[n]

LeaseInv(n) ==
  /\ phase[n] = "upserting" /\ OwnRow(n).node = n => OwnRow(n).heard <= now[n]
  /\ phase[n] = "reading" /\ OwnRow(n).node = n => OwnRow(n).heard = now[n]
  /\ phase[n] = "deciding" /\ verdict[n].mine /\ clock < now[n] + Lease
       => OwnRow(n).node = n /\ OwnRow(n).heard >= now[n]
  /\ Covered(n) => OwnRow(n).node = n /\ OwnRow(n).heard >= lastBeat[n]

\* A service of higher priority whose row a heartbeat begun at time t has seen alive.
Outranked(n, t) ==
  \E s \in Services :
    /\ rows[s].node # None
    /\ Priority[s] > Priority[Service[n]]
    /\ writtenAt[s] < t
    /\ t - rows[s].heard <= Lease

YieldInv(n) ==
  /\ phase[n] = "deciding" /\ verdict[n].mine => ~Outranked(n, now[n])
  /\ isLeader[n] => ~Outranked(n, lastBeat[n])

NodeInv(n) == MemoryInv(n) /\ LeaseInv(n) /\ YieldInv(n)

ElectionInv == ClockInv /\ \A n \in Nodes : NodeInv(n)

\* A row passes from a replica to another only when the lease on it has expired.
LeaseNotStolen ==
  [][\A s \in Services :
       rows[s].node # None /\ rows'[s].node # rows[s].node
         => clock >= LeaseExpires(rows[s])]_vars

\* The election is an implementation of Leadership: in every step at most one pod
\* changes its mind, and it becomes a leader on a valid lease only when no replica of
\* its service is one.
L == INSTANCE Leadership WITH leads <- {n \in Nodes : isLeader[n]},
                              covered <- {n \in Nodes : Covered(n)}
ImplementsLeadership == L!LeadershipSpec

\* Once failures stop, the processes that are up agree for good on one leader among
\* themselves: the failover completes and leadership does not flap.
Agreement ==
  \E l \in Up :
    \A n \in Up : leaderService[n] = Service[l] /\ (isLeader[n] <=> n = l)
FailoverCompletes == <>[](Up = {} \/ Agreement)
=============================================================================
