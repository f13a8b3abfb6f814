-------------------------- MODULE PanelRoutingProofs --------------------------
(***************************************************************************)
(* Proofs about PanelRouting: its type invariant, that the two modes do    *)
(* not mix (ComposeMeansOrderService), and that requests find the leader   *)
(* once things have settled (RoutesSettle).  RoutesInv relates what a      *)
(* discovery has heard, and what the cache remembers, to how long nothing  *)
(* has changed: what is younger than the last change proves nothing.       *)
(***************************************************************************)
EXTENDS PanelRouting, FiniteSetTheorems, WellFoundedInduction, TLAPS

USE DEF Phases, Modes

Locals == [phase : Phases, began : Modes, age : Nat, heard : [Services -> Heard],
           target : Targets, unasked : SUBSET Nodes]

-----------------------------------------------------------------------------
(* The service of highest priority *)

\* A finite set has an element of highest rank: those above an element shrink as the rank
\* grows, and strict inclusion among the subsets of a finite set is well-founded.
LEMMA HighestExists ==
  ASSUME NEW S, IsFiniteSet(S), S # {}, NEW rank \in [S -> Int]
  PROVE  \E m \in S : \A t \in S : rank[t] <= rank[m]
<1> DEFINE Above(t) == {u \in S : rank[u] > rank[t]}
           T == {Above(t) : t \in S}
<1>1. IsWellFoundedOn(StrictSubsetOrdering(S), SUBSET S)
  BY FS_StrictSubsetOrderingWellFounded, FS_FiniteSubsetsOfFinite
<1>2. T \subseteq SUBSET S /\ T # {}
  <2>1. \A t \in S : Above(t) \in SUBSET S
    OBVIOUS
  <2>2. \E t \in S : Above(t) \in T
    OBVIOUS
  <2> HIDE DEF Above
  <2>3. QED
    BY <2>1, <2>2
<1> HIDE DEF T
<1>3. PICK x \in T : \A y \in T : ~ (<<y, x>> \in StrictSubsetOrdering(S))
  BY <1>1, <1>2, WFMin
<1>4. PICK m \in S : x = Above(m)
  BY DEF T
<1>5. ASSUME NEW t \in S, rank[t] > rank[m]
      PROVE  FALSE
  <2>1. rank[t] \in Int /\ rank[m] \in Int
    OBVIOUS
  <2>2. Above(t) \subseteq Above(m)
    BY <1>5, <2>1
  <2>3. t \in Above(m) /\ t \notin Above(t)
    BY <1>5, <2>1
  <2>4. <<Above(t), Above(m)>> \in StrictSubsetOrdering(S)
    BY <2>2, <2>3 DEF StrictSubsetOrdering
  <2>5. Above(t) \in T
    BY DEF T
  <2>6. QED
    BY <1>3, <1>4, <2>4, <2>5
<1>6. QED
  BY <1>5

LEMMA ForemostIsOne ==
  ASSUME NEW S \in SUBSET Services, S # {}
  PROVE  Foremost(S) \in S
<1> DEFINE rank == [s \in S |-> Priority[s]]
<1>1. IsFiniteSet(S)
  BY FS_Subset, ServicesAssumption
<1>2. rank \in [S -> Int]
  BY PriorityAssumption
<1>3. \E m \in S : \A t \in S : rank[t] <= rank[m]
  BY <1>1, <1>2, HighestExists
<1>4. \E m \in S : \A t \in S : Priority[t] <= Priority[m]
  BY <1>3
<1>5. QED
  BY <1>4 DEF Foremost

LEMMA FallbackIsOne ==
  ASSUME NEW S \in SUBSET Services, S # {}
  PROVE  Fallback(S) \in S
BY ForemostIsOne DEF Fallback

-----------------------------------------------------------------------------
(* What a discovery knows *)

\* n is the leader a request has to find, and a target finds it unless answers were lost.
Sought(n) == leads = {n} /\ Findable(n)
Good(target, n) == target.node = n \/ target.blind

\* While nothing has changed since a discovery began, what it has heard is how things are,
\* and it has not passed the leader over.  q are the local variables of a request.
Knows(q) ==
  /\ q.phase \in {"asking", "listing", "probing"}
       => q.began = "kubernetes" /\ q.age <= Discovery
  /\ q.phase = "asking" /\ quiet > q.age =>
       \A s \in Services :
         /\ q.heard[s] \notin {Pending, Silence} =>
              /\ q.heard[s].node \in PodsOf(s)
              /\ q.heard[s].leading <=> q.heard[s].node \in leads
         /\ q.heard[s] = Silence => PodsOf(s) = {} \/ q.target.blind
  /\ q.phase \in {"listing", "probing"} /\ quiet > q.age =>
       \A n \in Nodes : Sought(n) =>
         \/ q.target.blind
         \/ /\ q.target.key = Service[n]
            /\ q.phase = "probing" => n \in q.unasked

\* An entry that is still used was found by a discovery that began after the last change.
Trusted(entry) ==
  entry # NoEntry /\ entry.age < TTL /\ quiet > entry.age + Discovery =>
    \A n \in Nodes : Sought(n) => Good(entry.target, n)

RoutesInv ==
  /\ leads \subseteq up
  /\ \A r \in Requests : Knows(req[r])
  /\ Trusted(cache["kubernetes"])
  /\ cache["compose"] # NoEntry => cache["compose"].target.key = OrderKey

\* What the two action properties say of a request that is sent.
SentWell(r) ==
  req[r].phase # "sent" /\ req'[r].phase = "sent" =>
    /\ mode = "kubernetes" =>
         \A n \in Nodes : Settled(n) /\ Findable(n) => Good(req'[r].target, n)
    /\ mode = "compose" /\ req'[r].target.key # OrderKey
         => req[r].began = "kubernetes" /\ Discovering(r)

StepHolds == TypeOK' /\ RoutesInv' /\ \A r \in Requests : SentWell(r)

-----------------------------------------------------------------------------
(* The initial states *)

LEMMA IdleTyped == Idle \in Locals /\ Nowhere \in Targets /\ NothingHeard \in [Services -> Heard]
BY KeyAssumption DEF Idle, Nowhere, NothingHeard, Silence, Heard, Targets, Locals

LEMMA IdleKnows == Knows(Idle)
BY DEF Idle, Knows

LEMMA RoutesInit ==
  ASSUME Init
  PROVE  TypeOK /\ RoutesInv
<1>1. leads \subseteq Nodes /\ covered \subseteq leads /\ up \subseteq Nodes
  BY DEF Init
<1>2. cache \in [Modes -> Entries] /\ \A m \in Modes : cache[m] = NoEntry
  BY DEF Init, Entries
<1>3. req \in [Requests -> Locals] /\ \A r \in Requests : req[r] = Idle
  BY IdleTyped DEF Init
<1>4. Settling \in Nat /\ quiet \in 0 .. Settling /\ changes \in 0 .. MaxChanges
  BY TimesAssumption, ChangesAssumption DEF Init, Settling
<1>5. mode \in Modes /\ leads \subseteq up
  BY DEF Init
<1>6. TypeOK
  BY <1>1, <1>2, <1>3, <1>4, <1>5 DEF TypeOK, LeadershipTypeOK, Locals
<1>7. RoutesInv
  BY <1>2, <1>3, <1>5, IdleKnows DEF RoutesInv, Trusted
<1>8. QED
  BY <1>6, <1>7

-----------------------------------------------------------------------------
(* Steps of the panel *)

\* The panel writes an entry for a mode: in the Compose stack, order-service; in the cluster,
\* a leader that is right if nothing has changed for longer than a discovery takes.
CacheStep ==
  \/ UNCHANGED cache
  \/ \E m \in Modes, target \in Targets :
       /\ Remember(m, target)
       /\ m = "compose" => target.key = OrderKey
       /\ m = "kubernetes" /\ quiet > Discovery
            => \A n \in Nodes : Sought(n) => Good(target, n)

Still == UNCHANGED <<clusterVars, mode, quiet, changes>>

\* A step that changes one request, to q, and the world not at all.
Moves(r, q) ==
  /\ req' = [req EXCEPT ![r] = q]
  /\ Knows(q)
  /\ CacheStep
  /\ Still

LEMMA KnowsStill ==
  ASSUME Still, NEW q, Knows(q)
  PROVE  Knows(q)'
BY DEF Still, clusterVars, Knows, Sought, Findable, PodsOf, Fallback, Foremost, Replicas

LEMMA CacheKept ==
  ASSUME TypeOK, RoutesInv, CacheStep, Still
  PROVE  /\ cache' \in [Modes -> Entries]
         /\ Trusted(cache["kubernetes"])'
         /\ cache'["compose"] # NoEntry => cache'["compose"].target.key = OrderKey
<1>1. cache \in [Modes -> Entries]
  BY DEF TypeOK
<1>2. UNCHANGED <<leads, up, quiet>>
  BY DEF Still, clusterVars
<1>3. CASE UNCHANGED cache
  BY <1>1, <1>2, <1>3 DEF RoutesInv, Trusted, Sought, Findable, PodsOf, Replicas
<1>4. ASSUME NEW m \in Modes, NEW target \in Targets, Remember(m, target),
             m = "compose" => target.key = OrderKey,
             m = "kubernetes" /\ quiet > Discovery
               => \A n \in Nodes : Sought(n) => Good(target, n)
      PROVE  /\ cache' \in [Modes -> Entries]
             /\ Trusted(cache["kubernetes"])'
             /\ cache'["compose"] # NoEntry => cache'["compose"].target.key = OrderKey
  <2> DEFINE entry == [target |-> target, age |-> 0]
  <2>1. entry \in Entries
    BY TimesAssumption DEF Entries
  <2>2. cache' = [cache EXCEPT ![m] = entry]
    BY <1>4 DEF Remember
  <2>3. cache' \in [Modes -> Entries]
    BY <1>1, <2>1, <2>2
  <2>4. \A k \in Modes : cache'[k] = IF k = m THEN entry ELSE cache[k]
    BY <1>1, <2>2
  <2>5. Trusted(entry) \/ m # "kubernetes"
    BY <1>4, TimesAssumption DEF Trusted
  <2>6. Trusted(cache'["kubernetes"])
    BY <2>4, <2>5 DEF RoutesInv
  <2>7. Trusted(cache["kubernetes"])'
    BY <1>2, <2>6 DEF Trusted, Sought, Findable, PodsOf, Replicas
  <2>8. QED
    BY <1>4, <2>3, <2>4, <2>7 DEF RoutesInv
<1>5. QED
  BY <1>3, <1>4 DEF CacheStep

LEMMA MovesKeeps ==
  ASSUME TypeOK, RoutesInv, NEW r \in Requests, NEW q \in Locals, Moves(r, q)
  PROVE  /\ TypeOK' /\ RoutesInv'
         /\ req'[r] = q
         /\ \A s \in Requests \ {r} : SentWell(s)
<1>1. req \in [Requests -> Locals]
  BY DEF TypeOK, Locals
<1>2. req' \in [Requests -> Locals]
  BY <1>1 DEF Moves
<1>3. \A s \in Requests : req'[s] = IF s = r THEN q ELSE req[s]
  BY <1>1 DEF Moves
<1>4. CacheStep /\ Still
  BY DEF Moves
<1>5. \A s \in Requests : Knows(req'[s])
  BY <1>3 DEF Moves, RoutesInv
<1>6. UNCHANGED <<leads, covered, up, mode, quiet, changes>>
  BY <1>4 DEF Still, clusterVars
<1>7. (\A s \in Requests : Knows(req[s]))'
  BY <1>5, <1>6 DEF Knows, Sought, Findable, PodsOf, Replicas
<1>8. TypeOK'
  BY <1>2, <1>4, <1>6, CacheKept DEF TypeOK, LeadershipTypeOK, Locals, Settling
<1>9. RoutesInv'
  BY <1>4, <1>6, <1>7, CacheKept DEF RoutesInv
<1>10. QED
  BY <1>3, <1>8, <1>9 DEF SentWell

\* Sent is the request once it has left: what is left of the discovery is where it led.
Sent(began, target) == [Idle EXCEPT !.phase = "sent", !.began = began, !.target = target]

LEMMA SentTyped ==
  ASSUME NEW began \in Modes, NEW target \in Targets
  PROVE  /\ Sent(began, target) \in Locals
         /\ Sent(began, target).phase = "sent"
         /\ Sent(began, target).target = target
         /\ Knows(Sent(began, target))
<1>1. Idle \in Locals
  BY IdleTyped
<1>2. Sent(began, target) \in Locals
  BY <1>1 DEF Sent, Locals
<1>3. Sent(began, target).phase = "sent" /\ Sent(began, target).target = target
  BY <1>1 DEF Sent, Locals
<1>4. QED
  BY <1>2, <1>3 DEF Knows

\* The last step of a discovery.
LEMMA ConcludeKeeps ==
  ASSUME TypeOK, RoutesInv, NEW r \in Requests, NEW target \in Targets,
         Discovering(r), Conclude(r, target),
         UNCHANGED <<clusterVars, mode, quiet, changes>>,
         quiet > req[r].age => \A n \in Nodes : Sought(n) => Good(target, n)
  PROVE  StepHolds
<1> DEFINE sent == IF mode = "compose" THEN [target EXCEPT !.node = None] ELSE target
           q == Sent(req[r].began, sent)
<1>1. req[r] \in Locals /\ Knows(req[r]) /\ mode \in Modes /\ quiet \in 0 .. Settling
  BY DEF TypeOK, RoutesInv, Locals
<1>2. req[r].began = "kubernetes" /\ req[r].age <= Discovery /\ req[r].age \in Nat
  BY <1>1 DEF Knows, Discovering, Locals
<1>3. sent \in Targets
  BY DEF Targets
<1>4. q \in Locals /\ Knows(q) /\ q.phase = "sent" /\ q.target = sent
  BY <1>1, <1>2, <1>3, SentTyped
<1>5. req' = [req EXCEPT ![r] = q]
  BY DEF Conclude, Send, Sent
<1>6. CacheStep
  BY <1>1, <1>2, TimesAssumption DEF CacheStep, Conclude, Settling
<1>7. Moves(r, q)
  BY <1>4, <1>5, <1>6 DEF Moves, Still
<1>8. Settling > req[r].age
  BY <1>2, TimesAssumption DEF Settling
<1>9. SentWell(r)
  <2>1. req'[r] = q
    BY <1>4, <1>7, MovesKeeps
  <2>2. mode = "kubernetes" => req'[r].target = target
    BY <2>1, <1>4
  <2>3. ASSUME mode = "kubernetes", NEW n \in Nodes, Settled(n), Findable(n)
        PROVE  Good(req'[r].target, n)
    BY <1>8, <2>2, <2>3 DEF Settled, Sought
  <2>4. QED
    BY <1>2, <2>3 DEF SentWell
<1>10. QED
  BY <1>4, <1>7, <1>9, MovesKeeps DEF StepHolds

\* Any other step of a request, which does not send it.
LEMMA WalkKeeps ==
  ASSUME TypeOK, RoutesInv, NEW r \in Requests, NEW q \in Locals, Moves(r, q),
         q.phase # "sent"
  PROVE  StepHolds
<1>1. req'[r] = q
  BY MovesKeeps
<1>2. SentWell(r)
  BY <1>1 DEF SentWell
<1>3. QED
  BY <1>2, MovesKeeps DEF StepHolds

LEMMA AskKeeps ==
  ASSUME TypeOK, RoutesInv, NEW r \in Requests, Ask(r)
  PROVE  StepHolds
<1>1. mode \in Modes /\ cache \in [Modes -> Entries] /\ quiet \in 0 .. Settling
  BY DEF TypeOK
<1>2. CASE AskCached(r)
  <2> DEFINE entry == cache[mode]
             q == Sent(mode, entry.target)
  <2>1. entry \in [target : Targets, age : 0 .. TTL] /\ entry # NoEntry /\ entry.age < TTL
    BY <1>1, <1>2 DEF AskCached, Fresh, Entries
  <2>2. q \in Locals /\ Knows(q) /\ q.phase = "sent" /\ q.target = entry.target
    BY <1>1, <2>1, SentTyped
  <2>3. Moves(r, q)
    BY <1>2, <2>2 DEF AskCached, Moves, CacheStep, Still, Sent
  <2>4. req'[r] = q
    BY <2>2, <2>3, MovesKeeps
  <2>5. ASSUME mode = "kubernetes", NEW n \in Nodes, Settled(n), Findable(n)
        PROVE  Good(req'[r].target, n)
    <3>1. quiet > entry.age + Discovery
      BY <2>1, <2>5, TimesAssumption DEF Settled, Settling
    <3>2. Trusted(entry) /\ Sought(n)
      BY <2>5 DEF RoutesInv, Settled, Sought
    <3>3. QED
      BY <2>1, <2>2, <2>4, <3>1, <3>2 DEF Trusted
  <2>6. mode = "compose" => req'[r].target.key = OrderKey
    BY <2>1, <2>2, <2>4 DEF RoutesInv
  <2>7. SentWell(r)
    BY <2>5, <2>6 DEF SentWell
  <2>8. QED
    BY <2>2, <2>3, <2>7, MovesKeeps DEF StepHolds
<1>3. CASE AskCompose(r)
  <2> DEFINE q == [Idle EXCEPT !.phase = "sent", !.began = mode]
  <2>1. q \in Locals /\ q.phase = "sent"
    BY <1>1, IdleTyped DEF Locals
  <2>2. q.target.key = OrderKey
    BY IdleTyped DEF Locals, Idle, Nowhere
  <2>3. CacheStep
    BY <1>3, IdleTyped DEF AskCompose, CacheStep, Nowhere
  <2>4. Knows(q)
    BY <2>1 DEF Knows
  <2>5. Moves(r, q)
    BY <1>3, <2>3, <2>4 DEF AskCompose, Moves, Still
  <2>6. req'[r] = q
    BY <2>1, <2>5, MovesKeeps
  <2>7. mode = "compose"
    BY <1>3 DEF AskCompose
  <2> HIDE DEF q
  <2>8. SentWell(r)
    BY <2>2, <2>6, <2>7 DEF SentWell
  <2>9. QED
    BY <2>1, <2>5, <2>8, MovesKeeps DEF StepHolds
<1>4. CASE AskCluster(r)
  <2> DEFINE heard == [s \in Services |-> Pending]
             q == [Idle EXCEPT !.phase = "asking", !.began = mode, !.heard = heard]
  <2>1. heard \in [Services -> Heard]
    BY DEF Heard
  <2> HIDE DEF heard
  <2>2. q \in Locals
    BY <1>1, <2>1, IdleTyped DEF Locals
  <2>3. /\ q.phase = "asking" /\ q.began = "kubernetes" /\ q.age = 0
        /\ q.heard = heard
    BY <1>4, IdleTyped DEF AskCluster, Locals, Idle
  <2>4. \A s \in Services : q.heard[s] = Pending /\ Pending # Silence
    BY <2>3 DEF heard, Pending, Silence
  <2>5. Knows(q)
    BY <2>3, <2>4, TimesAssumption DEF Knows
  <2>6. Moves(r, q)
    BY <1>4, <2>5 DEF AskCluster, Moves, CacheStep, Still, heard
  <2>7. QED
    BY <2>2, <2>3, <2>6, WalkKeeps
<1>5. QED
  BY <1>2, <1>3, <1>4 DEF Ask

LEMMA HearKeeps ==
  ASSUME TypeOK, RoutesInv, NEW r \in Requests, NEW s \in Services, Hear(r, s)
  PROVE  StepHolds
<1>1. req[r] \in Locals /\ Knows(req[r]) /\ req[r].phase = "asking"
  BY DEF TypeOK, RoutesInv, Locals, Hear
<1>2. CacheStep /\ Still
  BY DEF Hear, CacheStep, Still
<1>3. ASSUME NEW n \in PodsOf(s),
             req' = [req EXCEPT ![r].heard[s] = [node |-> n, leading |-> n \in leads]]
      PROVE  StepHolds
  <2> DEFINE answer == [node |-> n, leading |-> n \in leads]
             q == [req[r] EXCEPT !.heard[s] = answer]
  <2>1. answer \in [node : Nodes, leading : BOOLEAN]
    BY DEF TypeOK, PodsOf
  <2>2. answer.node = n /\ (answer.leading <=> n \in leads)
    OBVIOUS
  <2>3. answer # Silence
    BY <2>1, KeyAssumption DEF Silence
  <2>4. answer \in Heard
    BY <2>1 DEF Heard
  <2> HIDE DEF answer
  <2>5. q \in Locals
    BY <1>1, <2>4 DEF Locals
  <2>6. /\ q.phase = "asking" /\ q.began = req[r].began /\ q.age = req[r].age
        /\ q.target = req[r].target
        /\ \A t \in Services : q.heard[t] = IF t = s THEN answer ELSE req[r].heard[t]
    BY <1>1 DEF Locals
  <2>7. Knows(q)
    BY <1>1, <2>2, <2>3, <2>6 DEF Knows
  <2>8. req' = [req EXCEPT ![r] = q]
    BY <1>3 DEF answer
  <2>9. QED
    BY <1>2, <2>5, <2>6, <2>7, <2>8, WalkKeeps DEF Moves
<1>4. ASSUME req' = [req EXCEPT ![r].heard[s] = Silence,
                                ![r].target.blind = @ \/ PodsOf(s) # {}]
      PROVE  StepHolds
  <2> DEFINE q == [req[r] EXCEPT !.heard[s] = Silence,
                                 !.target.blind = @ \/ PodsOf(s) # {}]
  <2>1. Silence \in Heard
    BY DEF Heard
  <2>2. q \in Locals
    BY <1>1, <2>1 DEF Locals, Targets
  <2>3. /\ q.phase = "asking" /\ q.began = req[r].began /\ q.age = req[r].age
        /\ q.target.blind <=> (req[r].target.blind \/ PodsOf(s) # {})
        /\ \A t \in Services : q.heard[t] = IF t = s THEN Silence ELSE req[r].heard[t]
    BY <1>1 DEF Locals, Targets
  <2>4. Knows(q)
    BY <1>1, <2>3 DEF Knows
  <2>5. req' = [req EXCEPT ![r] = q]
    BY <1>4
  <2>6. QED
    BY <1>2, <2>2, <2>3, <2>4, <2>5, WalkKeeps DEF Moves
<1>5. QED
  BY <1>3, <1>4 DEF Hear

LEMMA EndKeeps ==
  ASSUME TypeOK, RoutesInv, NEW r \in Requests, GatherFails(r) \/ Deliver(r)
  PROVE  StepHolds
<1>1. Idle \in Locals /\ Knows(Idle) /\ Idle.phase # "sent"
  BY IdleTyped, IdleKnows DEF Idle
<1>2. Moves(r, Idle)
  BY <1>1 DEF Moves, GatherFails, Deliver, CacheStep, Still
<1>3. QED
  BY <1>1, <1>2, WalkKeeps

\* Who has answered named a pod.
LEMMA AnsweredNamed ==
  ASSUME TypeOK, NEW r \in Requests, NEW s \in Answered(r), req[r].heard[s] # Pending
  PROVE  req[r].heard[s].node \in Nodes
<1>1. req[r].heard[s] \in Heard \ {Pending, Silence}
  BY DEF TypeOK, Answered
<1>2. QED
  BY <1>1 DEF Heard

LEMMA GatherFindsLeaderKeeps ==
  ASSUME TypeOK, RoutesInv, NEW r \in Requests, GatherFindsLeader(r)
  PROVE  StepHolds
<1> DEFINE s == Foremost(Claimants(r))
           target == [req[r].target EXCEPT !.key = s, !.node = req[r].heard[s].node]
<1>1. req[r] \in Locals /\ Knows(req[r]) /\ req[r].phase = "asking"
  BY DEF TypeOK, RoutesInv, Locals, GatherFindsLeader
<1>2. Claimants(r) \in SUBSET Services /\ Claimants(r) # {}
  BY DEF GatherFindsLeader, Claimants, Answered
<1>3. s \in Claimants(r)
  BY <1>2, ForemostIsOne
<1>4. /\ s \in Services /\ s \in Answered(r)
      /\ req[r].heard[s] \notin {Pending, Silence}
      /\ req[r].heard[s].leading
  BY <1>3 DEF GatherFindsLeader, Claimants, Answered
<1>5. Conclude(r, target) /\ UNCHANGED <<clusterVars, mode, quiet, changes>>
  BY DEF GatherFindsLeader
<1> HIDE DEF s
<1>6. req[r].heard[s].node \in Nodes
  BY <1>4, AnsweredNamed
<1>7. target \in Targets /\ target.node = req[r].heard[s].node
  BY <1>1, <1>4, <1>6 DEF Locals, Targets
<1>8. ASSUME quiet > req[r].age, NEW n \in Nodes, Sought(n)
      PROVE  Good(target, n)
  <2>1. req[r].heard[s].leading <=> req[r].heard[s].node \in leads
    BY <1>1, <1>4, <1>8 DEF Knows
  <2>2. req[r].heard[s].node \in leads
    BY <1>4, <2>1
  <2>3. QED
    BY <1>7, <1>8, <2>2 DEF Sought, Good
<1>9. Discovering(r)
  BY <1>1 DEF Discovering
<1> HIDE DEF target
<1>10. QED
  BY <1>5, <1>7, <1>8, <1>9, ConcludeKeeps

\* If everybody who has a pod was heard and none of them leads, the service of the sought
\* leader has another pod, and is the one whose pods are listed.
LEMMA GatherFindsNoneKeeps ==
  ASSUME TypeOK, RoutesInv, NEW r \in Requests, GatherFindsNone(r)
  PROVE  StepHolds
<1> DEFINE s == Fallback(Answered(r))
           node == req[r].heard[s].node
           q == [req[r] EXCEPT !.phase = "listing", !.heard = NothingHeard,
                               !.target.key = s, !.target.node = node]
<1>1. req[r] \in Locals /\ Knows(req[r]) /\ req[r].phase = "asking"
  BY DEF TypeOK, RoutesInv, Locals, GatherFindsNone
<1>2. Answered(r) \in SUBSET Services /\ s \in Answered(r)
  BY FallbackIsOne DEF GatherFindsNone, Answered
<1>3. \A t \in Answered(r) : ~ req[r].heard[t].leading
  BY DEF GatherFindsNone, Claimants
<1>4. \A t \in Answered(r) : req[r].heard[t] \notin {Pending, Silence}
  BY <1>3 DEF Pending, Answered
<1>5. req' = [req EXCEPT ![r] = q] /\ CacheStep /\ Still
  BY DEF GatherFindsNone, CacheStep, Still
<1> HIDE DEF s
<1>6. node \in Nodes
  BY <1>2, <1>4, AnsweredNamed
<1> HIDE DEF node
<1>7. q \in Locals
  BY <1>1, <1>2, <1>6, IdleTyped DEF Locals, Targets
<1>8. /\ q.phase = "listing" /\ q.began = req[r].began /\ q.age = req[r].age
      /\ q.target.key = s
      /\ q.target.blind = req[r].target.blind
  BY <1>1 DEF Locals, Targets
<1>9. ASSUME quiet > req[r].age, NEW n \in Nodes, Sought(n), ~ req[r].target.blind
      PROVE  s = Service[n]
  <2>1. \A t \in Answered(r) : /\ req[r].heard[t].node \in PodsOf(t)
                               /\ req[r].heard[t].leading <=> req[r].heard[t].node \in leads
    BY <1>1, <1>2, <1>4, <1>9 DEF Knows
  <2>2. \A t \in Services \ Answered(r) : PodsOf(t) = {}
    BY <1>1, <1>9 DEF Knows, Answered
  <2>3. Answered(r) = {t \in Services : PodsOf(t) # {}}
    BY <1>2, <2>1, <2>2
  <2>4. n \in leads /\ n \in up /\ Service[n] \in Services
    BY <1>9, PodsAssumption DEF Sought, RoutesInv
  <2>5. Service[n] \in Answered(r)
    BY <2>3, <2>4 DEF PodsOf
  <2> DEFINE other == req[r].heard[Service[n]].node
  <2>6. other \in PodsOf(Service[n]) /\ other \notin leads
    BY <1>3, <2>1, <2>5
  <2>7. Replicas(n) \cap up # {}
    BY <2>4, <2>6 DEF Replicas, PodsOf, TypeOK
  <2>8. QED
    BY <1>9, <2>3, <2>7 DEF Sought, Findable, s
<1>10. Knows(q)
  BY <1>1, <1>8, <1>9 DEF Knows
<1>11. Moves(r, q)
  BY <1>5, <1>10 DEF Moves
<1> HIDE DEF q
<1>12. QED
  BY <1>7, <1>8, <1>11, WalkKeeps

LEMMA ListKeeps ==
  ASSUME TypeOK, RoutesInv, NEW r \in Requests, ListPods(r) \/ ListFails(r)
  PROVE  StepHolds
<1>1. req[r] \in Locals /\ Knows(req[r]) /\ req[r].phase = "listing"
  BY DEF TypeOK, RoutesInv, Locals, ListPods, ListFails
<1>2. CASE ListPods(r)
  <2> DEFINE pods == PodsOf(req[r].target.key)
             q == [req[r] EXCEPT !.phase = "probing", !.unasked = pods]
  <2>1. pods \in SUBSET Nodes
    BY DEF TypeOK, PodsOf
  <2>2. req' = [req EXCEPT ![r] = q] /\ CacheStep /\ Still
    BY <1>2 DEF ListPods, CacheStep, Still
  <2>3. \A n \in Nodes : Sought(n) /\ req[r].target.key = Service[n] => n \in pods
    BY DEF Sought, RoutesInv, PodsOf
  <2> HIDE DEF pods
  <2>4. q \in Locals
    BY <1>1, <2>1 DEF Locals
  <2>5. /\ q.phase = "probing" /\ q.began = req[r].began /\ q.age = req[r].age
        /\ q.target = req[r].target /\ q.unasked = pods
    BY <1>1 DEF Locals
  <2>6. Knows(q)
    BY <1>1, <2>3, <2>5 DEF Knows
  <2>7. QED
    BY <2>2, <2>4, <2>5, <2>6, WalkKeeps DEF Moves
<1>3. CASE ListFails(r)
  <2> DEFINE target == [req[r].target EXCEPT !.blind = TRUE]
  <2>1. target \in Targets /\ target.blind
    BY <1>1 DEF Locals, Targets
  <2>2. Conclude(r, target) /\ UNCHANGED <<clusterVars, mode, quiet, changes>>
    BY <1>3 DEF ListFails
  <2> HIDE DEF target
  <2>3. QED
    BY <1>1, <2>1, <2>2, ConcludeKeeps DEF Discovering, Good
<1>4. QED
  BY <1>2, <1>3

LEMMA ProbeKeeps ==
  ASSUME TypeOK, RoutesInv, NEW r \in Requests,
         ProbeFindsLeader(r) \/ ProbeNext(r) \/ ProbeFindsNone(r)
  PROVE  StepHolds
<1>1. req[r] \in Locals /\ Knows(req[r]) /\ req[r].phase = "probing"
  BY DEF TypeOK, RoutesInv, Locals, ProbeFindsLeader, ProbeNext, ProbeFindsNone
<1>2. CASE ProbeFindsLeader(r)
  <2>1. PICK n \in req[r].unasked \cap leads :
             Conclude(r, [req[r].target EXCEPT !.node = n])
    BY <1>2 DEF ProbeFindsLeader
  <2> DEFINE target == [req[r].target EXCEPT !.node = n]
  <2>2. target \in Targets /\ target.node = n
    BY <1>1 DEF Locals, Targets
  <2>3. Conclude(r, target) /\ UNCHANGED <<clusterVars, mode, quiet, changes>>
    BY <1>2, <2>1 DEF ProbeFindsLeader
  <2> HIDE DEF target
  <2>4. \A m \in Nodes : Sought(m) => Good(target, m)
    BY <2>2 DEF Sought, Good
  <2>5. QED
    BY <1>1, <2>2, <2>3, <2>4, ConcludeKeeps DEF Discovering
<1>3. CASE ProbeNext(r)
  <2>1. PICK n \in req[r].unasked :
             req' = [req EXCEPT ![r].unasked = @ \ {n}, ![r].target.blind = @ \/ n \in leads]
    BY <1>3 DEF ProbeNext
  <2> DEFINE q == [req[r] EXCEPT !.unasked = @ \ {n}, !.target.blind = @ \/ n \in leads]
  <2>2. q \in Locals
    BY <1>1 DEF Locals, Targets
  <2>3. /\ q.phase = "probing" /\ q.began = req[r].began /\ q.age = req[r].age
        /\ q.target.key = req[r].target.key
        /\ q.target.blind <=> (req[r].target.blind \/ n \in leads)
        /\ q.unasked = req[r].unasked \ {n}
    BY <1>1 DEF Locals, Targets
  <2>4. req' = [req EXCEPT ![r] = q] /\ CacheStep /\ Still
    BY <1>3, <2>1 DEF ProbeNext, CacheStep, Still
  <2> HIDE DEF q
  <2>5. Knows(q)
    BY <1>1, <2>3 DEF Knows, Sought
  <2>6. QED
    BY <2>2, <2>3, <2>4, <2>5, WalkKeeps DEF Moves
<1>4. CASE ProbeFindsNone(r)
  <2>1. req[r].target \in Targets /\ req[r].unasked = {}
    BY <1>1, <1>4 DEF Locals, ProbeFindsNone
  <2>2. Conclude(r, req[r].target) /\ UNCHANGED <<clusterVars, mode, quiet, changes>>
    BY <1>4 DEF ProbeFindsNone
  <2>3. quiet > req[r].age => \A n \in Nodes : Sought(n) => Good(req[r].target, n)
    BY <1>1, <2>1 DEF Knows, Good
  <2>4. QED
    BY <1>1, <2>1, <2>2, <2>3, ConcludeKeeps DEF Discovering
<1>5. QED
  BY <1>2, <1>3, <1>4

-----------------------------------------------------------------------------
(* Steps of the world *)

\* When the requests are what they were none of them is sent.
LEMMA NothingSent ==
  ASSUME UNCHANGED req
  PROVE  \A r \in Requests : SentWell(r)
BY DEF SentWell

LEMMA SetRuntimeModeKeeps ==
  ASSUME TypeOK, RoutesInv, NEW m \in Modes \cup {None}, SetRuntimeMode(m)
  PROVE  StepHolds
<1>1. UNCHANGED <<leads, covered, up, req, quiet>>
  BY DEF SetRuntimeMode, clusterVars
<1>2. mode' \in Modes /\ changes' \in 0 .. MaxChanges
  BY ChangesAssumption DEF SetRuntimeMode, TypeOK
<1>3. cache' \in [Modes -> Entries] /\ \A k \in Modes : cache'[k] = NoEntry
  BY DEF SetRuntimeMode, Entries
<1>4. TypeOK'
  BY <1>1, <1>2, <1>3 DEF TypeOK, LeadershipTypeOK, Settling
<1>5. (\A r \in Requests : Knows(req[r]))'
  BY <1>1 DEF RoutesInv, Knows, Sought, Findable, PodsOf, Replicas
<1>6. Trusted(cache["kubernetes"])'
  BY <1>3 DEF Trusted
<1>7. RoutesInv'
  BY <1>1, <1>3, <1>5, <1>6 DEF RoutesInv
<1>8. QED
  BY <1>1, <1>4, <1>7, NothingSent DEF StepHolds

\* After a change of the cluster nothing that was heard counts any more.
LEMMA ClusterChangesKeeps ==
  ASSUME TypeOK, RoutesInv, ClusterChanges,
         up' \subseteq Nodes, leads' \subseteq up', covered' \subseteq leads'
  PROVE  StepHolds
<1>1. UNCHANGED <<mode, cache, req>> /\ quiet' = 0
  BY DEF ClusterChanges
<1>2. changes' \in 0 .. MaxChanges /\ quiet' \in 0 .. Settling
  BY <1>1, ChangesAssumption, TimesAssumption DEF ClusterChanges, TypeOK, Settling
<1>3. TypeOK'
  BY <1>1, <1>2 DEF TypeOK, LeadershipTypeOK, Settling
<1>4. \A r \in Requests : req[r].age \in Nat
  BY DEF TypeOK
<1>5. (\A r \in Requests : Knows(req[r]))'
  BY <1>1, <1>4 DEF RoutesInv, Knows
<1>6. Trusted(cache["kubernetes"])'
  <2>1. cache["kubernetes"] # NoEntry => cache["kubernetes"].age \in Nat
    BY DEF TypeOK, Entries
  <2>2. QED
    BY <1>1, <2>1, TimesAssumption DEF Trusted
<1>7. RoutesInv'
  BY <1>1, <1>5, <1>6 DEF RoutesInv
<1>8. QED
  BY <1>1, <1>3, <1>7, NothingSent DEF StepHolds

LEMMA PodsKeep ==
  ASSUME TypeOK, RoutesInv, NEW n \in Nodes,
         PodStarts(n) \/ PodEnds(n) \/ PodWins(n) \/ PodLoses(n)
  PROVE  StepHolds
<1>1. leads \subseteq up /\ covered \subseteq leads /\ up \subseteq Nodes
  BY DEF TypeOK, LeadershipTypeOK, RoutesInv
<1>2. up' \subseteq Nodes /\ leads' \subseteq up' /\ covered' \subseteq leads'
  BY <1>1 DEF PodStarts, PodEnds, PodWins, PodLoses, Promote, PromoteLate, Demote, leadership
<1>3. ClusterChanges
  BY DEF PodStarts, PodEnds, PodWins, PodLoses
<1>4. QED
  BY <1>2, <1>3, ClusterChangesKeeps

LEMMA LeaseEndsKeeps ==
  ASSUME TypeOK, RoutesInv, LeaseEnds
  PROVE  StepHolds
<1>1. UNCHANGED <<leads, up, mode, cache, req, quiet, changes>> /\ covered' \subseteq covered
  BY DEF LeaseEnds, Lapse
<1>2. TypeOK'
  BY <1>1 DEF TypeOK, LeadershipTypeOK, Settling
<1>3. (\A r \in Requests : Knows(req[r]))'
  BY <1>1 DEF RoutesInv, Knows, Sought, Findable, PodsOf, Replicas
<1>4. Trusted(cache["kubernetes"])'
  BY <1>1 DEF RoutesInv, Trusted, Sought, Findable, PodsOf, Replicas
<1>5. RoutesInv'
  BY <1>1, <1>3, <1>4 DEF RoutesInv
<1>6. QED
  BY <1>1, <1>2, <1>5, NothingSent DEF StepHolds

\* Time makes everything older alike, so what was found or heard before the last change
\* stays on that side of it.
LEMMA TickKeeps ==
  ASSUME TypeOK, RoutesInv, Tick
  PROVE  StepHolds
<1>1. UNCHANGED <<leads, covered, up, mode, changes>>
  BY DEF Tick, clusterVars
<1>2. quiet \in Nat /\ Settling \in Nat /\ quiet <= Settling
  BY TimesAssumption DEF TypeOK, Settling
<1>3. quiet' = Older(quiet, Settling) /\ quiet' \in 0 .. Settling
  BY <1>2 DEF Tick, Older
<1>4. \A r \in Requests :
        /\ req[r] \in Locals
        /\ req'[r] = IF req[r].phase = "idle" THEN req[r]
                     ELSE [req[r] EXCEPT !.age = req[r].age + 1]
  BY DEF TypeOK, Tick, Locals
<1>5. ASSUME NEW r \in Requests
      PROVE  req'[r] \in Locals
  <2>1. [req[r] EXCEPT !.age = req[r].age + 1] \in Locals
    BY <1>4 DEF Locals
  <2>2. QED
    BY <1>4, <2>1
<1>6. req' \in [Requests -> Locals]
  BY <1>5 DEF Tick
<1>7. \A r \in Requests :
        /\ req'[r].phase = req[r].phase /\ req'[r].began = req[r].began
        /\ req'[r].heard = req[r].heard /\ req'[r].target = req[r].target
        /\ req'[r].unasked = req[r].unasked
        /\ req[r].phase # "idle" => req'[r].age = req[r].age + 1
  BY <1>4 DEF Locals
<1>8. ASSUME NEW r \in Requests
      PROVE  Knows(req[r])'
  <2>1. Knows(req[r]) /\ req[r].age \in Nat
    BY <1>4 DEF RoutesInv, Locals
  <2>2. Discovering(r) => req[r].age < Discovery
    BY DEF Tick
  <2>3. Discovering(r) => req'[r].age <= Discovery
    BY <1>7, <2>1, <2>2, TimesAssumption DEF Discovering
  <2>4. Discovering(r) /\ quiet' > req'[r].age => quiet > req[r].age
    BY <1>2, <1>3, <1>7, <2>1 DEF Older, Discovering
  <2>5. QED
    BY <1>1, <1>7, <2>1, <2>3, <2>4
    DEF Knows, Discovering, Sought, Findable, PodsOf, Replicas
<1>9. ASSUME NEW m \in Modes
      PROVE  /\ cache'[m] \in Entries
             /\ cache'[m] = NoEntry <=> cache[m] = NoEntry
             /\ cache[m] # NoEntry => /\ cache'[m].target = cache[m].target
                                      /\ cache'[m].age = Older(cache[m].age, TTL)
  <2>1. cache[m] \in Entries
    BY DEF TypeOK
  <2>2. cache'[m] = IF cache[m] = NoEntry THEN NoEntry
                    ELSE [cache[m] EXCEPT !.age = Older(cache[m].age, TTL)]
    BY DEF Tick
  <2>3. CASE cache[m] = NoEntry
    BY <2>2, <2>3 DEF Entries
  <2>4. CASE cache[m] # NoEntry
    <3>1. cache[m] \in [target : Targets, age : 0 .. TTL]
      BY <2>1, <2>4 DEF Entries
    <3>2. Older(cache[m].age, TTL) \in 0 .. TTL
      BY <3>1, TimesAssumption DEF Older
    <3>3. /\ cache'[m] \in [target : Targets, age : 0 .. TTL]
          /\ cache'[m].target = cache[m].target
          /\ cache'[m].age = Older(cache[m].age, TTL)
      BY <2>2, <2>4, <3>1, <3>2
    <3>4. cache'[m].age # NoEntry.age
      BY <3>1, <3>3, TimesAssumption DEF Older, NoEntry
    <3>5. QED
      BY <2>4, <3>3, <3>4 DEF Entries
  <2>5. QED
    BY <2>3, <2>4
<1>10. cache' \in [Modes -> Entries]
  BY <1>9 DEF Tick
<1>11. Trusted(cache["kubernetes"])'
  <2> DEFINE entry == cache["kubernetes"]
  <2>1. entry # NoEntry => entry.age \in 0 .. TTL
    BY DEF TypeOK, Entries
  <2>2. entry # NoEntry /\ entry'.age < TTL => entry.age < TTL /\ entry'.age = entry.age + 1
    BY <1>9, <2>1, TimesAssumption DEF Older
  <2>3. entry # NoEntry /\ entry'.age < TTL /\ quiet' > entry'.age + Discovery
          => quiet > entry.age + Discovery
    BY <1>2, <1>3, <2>1, <2>2, TimesAssumption DEF Older
  <2>4. QED
    BY <1>1, <1>9, <2>2, <2>3
    DEF RoutesInv, Trusted, Good, Sought, Findable, PodsOf, Replicas
<1>12. TypeOK'
  BY <1>1, <1>3, <1>6, <1>10 DEF TypeOK, LeadershipTypeOK, Locals, Settling
<1>13. RoutesInv'
  <2>1. (\A r \in Requests : Knows(req[r]))'
    BY <1>8
  <2>2. QED
    BY <1>1, <1>9, <1>11, <2>1 DEF RoutesInv
<1>14. \A r \in Requests : SentWell(r)
  BY <1>7 DEF SentWell
<1>15. QED
  BY <1>12, <1>13, <1>14 DEF StepHolds

LEMMA RoutesStep ==
  ASSUME TypeOK, RoutesInv, [Next]_vars
  PROVE  StepHolds
<1>1. ASSUME NEW r \in Requests, Ask(r) \/ Discover(r) \/ Deliver(r)
      PROVE  StepHolds
  BY <1>1, AskKeeps, HearKeeps, EndKeeps, GatherFindsLeaderKeeps, GatherFindsNoneKeeps,
     ListKeeps, ProbeKeeps
  DEF Discover
<1>2. ASSUME NEW m \in Modes \cup {None}, SetRuntimeMode(m)
      PROVE  StepHolds
  BY <1>2, SetRuntimeModeKeeps
<1>3. ASSUME NEW n \in Nodes, PodStarts(n) \/ PodEnds(n) \/ PodWins(n) \/ PodLoses(n)
      PROVE  StepHolds
  BY <1>3, PodsKeep
<1>4. CASE LeaseEnds
  BY <1>4, LeaseEndsKeeps
<1>5. CASE Tick
  BY <1>5, TickKeeps
<1>6. CASE UNCHANGED vars
  <2>1. UNCHANGED <<leads, covered, up, mode, cache, req, quiet, changes>>
    BY <1>6 DEF vars, clusterVars
  <2>2. TypeOK'
    BY <2>1 DEF TypeOK, LeadershipTypeOK, Settling
  <2>3. (\A r \in Requests : Knows(req[r]))' /\ Trusted(cache["kubernetes"])'
    BY <2>1 DEF RoutesInv, Trusted, Knows, Sought, Findable, PodsOf, Replicas
  <2>4. RoutesInv'
    BY <2>1, <2>3 DEF RoutesInv
  <2>5. QED
    BY <2>1, <2>2, <2>4, NothingSent DEF StepHolds
<1>7. QED
  BY <1>1, <1>2, <1>3, <1>4, <1>5, <1>6 DEF Next

-----------------------------------------------------------------------------
(* The theorems *)

\* What a request, a cache entry and the cluster are made of, and that leaders are up,
\* whatever the panel and the pods do.
THEOREM PanelTyped == Spec => [](TypeOK /\ RoutesInv)
<1>1. Init => TypeOK /\ RoutesInv
  BY RoutesInit
<1>2. TypeOK /\ RoutesInv /\ [Next]_vars => TypeOK' /\ RoutesInv'
  BY RoutesStep DEF StepHolds
<1>3. QED
  BY <1>1, <1>2, PTL DEF Spec

\* In particular every variable keeps its type.
THEOREM PanelTypeOK == Spec => []TypeOK
BY PanelTyped, PTL

\* Once nothing has changed for Settling, every request sent in the cluster goes to the
\* leader, if the panel can find it and no answer was lost.
THEOREM RequestsFindTheLeader == Spec => RoutesSettle
<1>1. TypeOK /\ RoutesInv /\ [Next]_vars
      => [\A r \in Requests, n \in Nodes :
            /\ req[r].phase # "sent" /\ req'[r].phase = "sent" /\ mode = "kubernetes"
            /\ Settled(n) /\ Findable(n)
            => req'[r].target.node = n \/ req'[r].target.blind]_vars
  BY RoutesStep DEF StepHolds, SentWell, Good
<1>2. QED
  BY <1>1, PanelTyped, PTL DEF Spec, RoutesSettle

\* A request leaves for another service than order-service in the Compose stack only if the
\* mode was switched under its discovery: the cache of one mode never serves the other.
THEOREM ComposeStaysApart == Spec => ComposeMeansOrderService
<1>1. TypeOK /\ RoutesInv /\ [Next]_vars
      => [\A r \in Requests :
            /\ req[r].phase # "sent" /\ req'[r].phase = "sent" /\ mode = "compose"
            /\ req'[r].target.key # OrderKey
            => req[r].began = "kubernetes" /\ Discovering(r)]_vars
  BY RoutesStep DEF StepHolds, SentWell
<1>2. QED
  BY <1>1, PanelTyped, PTL DEF Spec, ComposeMeansOrderService
=============================================================================
