------------------------------ MODULE Leadership ------------------------------
(***************************************************************************)
(* What the election of services/shared/orchestrator.py promises to those  *)
(* who use it (_ensure_leader, and the control panel's discovery): pods    *)
(* come to take themselves for leaders and cease to.  A leader is covered  *)
(* while the lease that made it leader still runs; the cover may lapse     *)
(* before the pod notices, and a pod may even come to lead without one.    *)
(* Among the replicas of a service only one is ever covered.               *)
(***************************************************************************)
CONSTANTS
  Nodes,     \* pods
  Services,  \* the services they are replicas of
  Service    \* the service of each pod

ASSUME PodsAssumption == Service \in [Nodes -> Services]

VARIABLES
  leads,    \* pods whose is_leader is set
  covered   \* those whose last heartbeat is younger than the lease

leadership == <<leads, covered>>

LeadershipTypeOK == leads \subseteq Nodes /\ covered \subseteq leads

LeadershipInit == leads = {} /\ covered = {}

Replicas(n) == {m \in Nodes \ {n} : Service[m] = Service[n]}

\* A heartbeat that has won ends within its lease.
Promote(n) ==
  /\ Replicas(n) \cap covered = {}
  /\ leads' = leads \cup {n}
  /\ covered' = covered \cup {n}

\* It ends too late: the pod leads, but nothing keeps another from leading too.
PromoteLate(n) ==
  /\ leads' = leads \cup {n}
  /\ covered' = covered \ {n}

\* A heartbeat has lost, or the pod ends.
Demote(n) ==
  /\ leads' = leads \ {n}
  /\ covered' = covered \ {n}

\* Time passes and leases end.
Lapse ==
  /\ \E gone \in SUBSET covered : covered' = covered \ gone
  /\ UNCHANGED leads

LeadershipNext ==
  \/ Lapse
  \/ \E n \in Nodes : Promote(n) \/ PromoteLate(n) \/ Demote(n)

LeadershipSpec == LeadershipInit /\ [][LeadershipNext]_leadership
=============================================================================
