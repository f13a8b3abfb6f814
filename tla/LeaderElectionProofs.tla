------------------------- MODULE LeaderElectionProofs -------------------------
(***************************************************************************)
(* Proofs about LeaderElection for any set of nodes, services, priorities, *)
(* lease and failures, and for an unbounded time (MaxClock is any number): *)
(* type correctness, at most one covered leader among the replicas of a    *)
(* service, the yielding of lower priorities, and the respect of leases.   *)
(***************************************************************************)
EXTENDS LeaderElection, TLAPS

USE DEF Phases, nodeVars, tableVars

\* The record a write leaves in the row.
LEMMA WriteFacts ==
  ASSUME TypeOK, NEW n \in Nodes, Write(n)
  PROVE  /\ rows' \in [Services -> Rows] /\ writtenAt' \in [Services -> Nat]
         /\ rows'[Service[n]].node = n /\ rows'[Service[n]].heard = now[n]
         /\ writtenAt'[Service[n]] = clock
         /\ \A s \in Services \ {Service[n]} :
              rows'[s] = rows[s] /\ writtenAt'[s] = writtenAt[s]
         /\ \/ rows[Service[n]].node \in {None, n}
            \/ rows[Service[n]].heard + Lease <= now[n]
<1>1. Service[n] \in Services /\ [node |-> n, heard |-> now[n]] \in Rows
  BY ServicesAssumption DEF TypeOK, Rows
<1>2. QED
  BY <1>1 DEF TypeOK, Write, MayWrite, LeaseExpires

TableTypes == rows \in [Services -> Rows] /\ writtenAt \in [Services -> Nat]
NodeTypes ==
  /\ phase \in [Nodes -> Phases]
  /\ now \in [Nodes -> Nat]
  /\ verdict \in [Nodes -> Verdicts]
  /\ isLeader \in [Nodes -> BOOLEAN]
  /\ leaderService \in [Nodes -> Services \cup {None}]
  /\ lastBeat \in [Nodes -> Nat]

LEMMA TypeParts ==
  ASSUME clock' \in Nat, TableTypes', NodeTypes'
  PROVE  TypeOK'
BY DEF TypeOK, TableTypes, NodeTypes

\* Whatever a node does to the table, it is an upsert or nothing.
TableStep(n) == UNCHANGED tableVars \/ Write(n)

LEMMA TableStepTypes ==
  ASSUME TypeOK, NEW n \in Nodes, TableStep(n)
  PROVE  TableTypes'
BY WriteFacts DEF TableStep, TableTypes, TypeOK

NodeStep(n) == Start(n) \/ Heartbeat(n) \/ BeatFails(n) \/ Crash(n)

\* The memory of the other nodes is theirs.
Untouched(m) ==
  /\ phase'[m] = phase[m] /\ now'[m] = now[m] /\ verdict'[m] = verdict[m]
  /\ isLeader'[m] = isLeader[m] /\ lastBeat'[m] = lastBeat[m]

LEMMA VerdictTypes ==
  /\ NoLeader \in Verdicts
  /\ \A s \in Services, b \in BOOLEAN : [leader |-> s, mine |-> b] \in Verdicts
  /\ \A v \in Verdicts : v.leader \in Services \cup {None} /\ v.mine \in BOOLEAN
BY DEF Verdicts, NoLeader

LEMMA StepFrame ==
  ASSUME TypeOK, NEW n \in Nodes, NodeStep(n)
  PROVE  /\ TypeOK' /\ clock' = clock /\ TableStep(n)
         /\ \A m \in Nodes \ {n} : Untouched(m)
<1> USE DEF TypeOK, Untouched
<1>1. CASE Start(n)
  <2>1. NodeTypes' /\ clock' = clock /\ TableStep(n)
    BY <1>1 DEF Start, NodeTypes, TableStep
  <2>2. QED
    BY <1>1, <2>1, TypeParts, TableStepTypes DEF Start
<1>2. CASE Begin(n)
  <2>1. NodeTypes' /\ clock' = clock /\ TableStep(n)
    BY <1>2 DEF Begin, NodeTypes, TableStep
  <2>2. QED
    BY <1>2, <2>1, TypeParts, TableStepTypes DEF Begin
<1>3. CASE Upsert(n)
  <2>1. NodeTypes' /\ clock' = clock /\ TableStep(n)
    BY <1>3 DEF Upsert, NodeTypes, TableStep
  <2>2. QED
    BY <1>3, <2>1, TypeParts, TableStepTypes DEF Upsert
<1>4. CASE Read(n)
  <2>1. PICK v \in Verdicts : verdict' = [verdict EXCEPT ![n] = v]
    <3>1. CASE verdict' = [verdict EXCEPT ![n] = NoLeader]
      BY <3>1, VerdictTypes
    <3>2. CASE \E s \in Winners(n) :
                 verdict' = [verdict EXCEPT ![n] = [leader |-> s, mine |-> rows[s].node = n]]
      BY <3>2, VerdictTypes DEF Winners, Alive
    <3>3. QED
      BY <1>4, <3>1, <3>2 DEF Read
  <2>2. NodeTypes' /\ clock' = clock /\ TableStep(n)
    BY <1>4, <2>1 DEF Read, NodeTypes, TableStep
  <2>3. QED
    BY <1>4, <2>1, <2>2, TypeParts, TableStepTypes DEF Read
<1>5. CASE Decide(n)
  <2>1. verdict[n].leader \in Services \cup {None} /\ verdict[n].mine \in BOOLEAN
    BY VerdictTypes
  <2>2. NodeTypes' /\ clock' = clock /\ TableStep(n)
    BY <1>5, <2>1, VerdictTypes DEF Decide, EndBeat, NodeTypes, TableStep
  <2>3. QED
    BY <1>5, <2>2, TypeParts, TableStepTypes DEF Decide, EndBeat
<1>6. CASE BeatFails(n)
  <2>1. NodeTypes' /\ clock' = clock /\ TableStep(n)
    BY <1>6, VerdictTypes DEF BeatFails, Aborted, EndBeat, NodeTypes, TableStep
  <2>2. QED
    BY <1>6, <2>1, TypeParts, TableStepTypes DEF BeatFails, EndBeat
<1>7. CASE Crash(n)
  <2>1. NodeTypes' /\ clock' = clock /\ TableStep(n)
    BY <1>7, VerdictTypes DEF Crash, Aborted, NodeTypes, TableStep
  <2>2. QED
    BY <1>7, <2>1, TypeParts, TableStepTypes DEF Crash
<1>8. QED
  BY <1>1, <1>2, <1>3, <1>4, <1>5, <1>6, <1>7 DEF NodeStep, Heartbeat

\* Every variable keeps its type.
THEOREM ElectionTypeCorrect == Spec => []TypeOK
<1>1. Init => TypeOK
  BY VerdictTypes DEF Init, TypeOK, Rows, NoRow
<1>2. TypeOK /\ [Next]_vars => TypeOK'
  <2>1. SUFFICES ASSUME TypeOK, [Next]_vars
                 PROVE  TypeOK'
    OBVIOUS
  <2>2. CASE Tick
    BY <2>1, <2>2 DEF TypeOK, Tick
  <2>3. CASE \E n \in Nodes : NodeStep(n)
    BY <2>1, <2>3, StepFrame
  <2>4. CASE UNCHANGED vars
    BY <2>1, <2>4 DEF TypeOK, vars
  <2>5. QED
    BY <2>1, <2>2, <2>3, <2>4 DEF Next, NodeStep
<1>3. QED
  BY <1>1, <1>2, PTL DEF Spec

-----------------------------------------------------------------------------
(* The inductive invariant.  TLC checks it as ElectionInv of LeaderElection. *)

USE DEF Beating, OwnRow

\* What a step of another replica, another service or a clock tick can do to a node:
\* it takes its row only when the lease is over.
LEMMA OtherStep ==
  ASSUME TypeOK, ClockInv, NEW m \in Nodes, NodeInv(m), Untouched(m),
         clock' = clock,
         UNCHANGED tableVars \/ \E n \in Nodes \ {m} : Write(n) /\ now[n] <= clock
  PROVE  NodeInv(m)'
<1> DEFINE s == Service[m]
<1> DEFINE Kept == /\ rows'[s].node = m => rows'[s] = rows[s]
                   /\ rows[s].node = m => \/ rows'[s] = rows[s]
                                          \/ rows[s].heard + Lease <= clock
<1>1. s \in Services /\ m # None
  BY NodesAssumption, ServicesAssumption
<1>2. Kept
  <2>1. CASE UNCHANGED tableVars
    BY <2>1
  <2>2. ASSUME NEW n \in Nodes \ {m}, Write(n), now[n] <= clock
        PROVE  Kept
    <3>1. CASE Service[n] = s
      BY <1>1, <2>2, <3>1, WriteFacts, LeaseAssumption DEF TypeOK, Rows
    <3>2. CASE Service[n] # s
      BY <1>1, <2>2, <3>2, WriteFacts
    <3>3. QED
      BY <3>1, <3>2
  <2>3. QED
    BY <2>1, <2>2
<1>3. \A t \in Services : \/ rows'[t] = rows[t] /\ writtenAt'[t] = writtenAt[t]
                          \/ writtenAt'[t] = clock
  BY WriteFacts
<1>4. /\ now[m] \in Nat /\ lastBeat[m] \in Nat /\ clock \in Nat /\ rows[s].heard \in Nat
      /\ \A t \in Services : writtenAt[t] \in Nat
  BY <1>1 DEF TypeOK, Rows
<1>5. MemoryInv(m)'
  BY DEF NodeInv, MemoryInv, Untouched
<1>6. LeaseInv(m)'
  BY <1>2, <1>4, LeaseAssumption DEF NodeInv, MemoryInv, LeaseInv, Untouched, Covered
<1>7. YieldInv(m)'
  BY <1>3, <1>4 DEF NodeInv, MemoryInv, YieldInv, Untouched, Outranked
<1>8. QED
  BY <1>5, <1>6, <1>7 DEF NodeInv

\* What a step leaves alone in the table keeps the clock invariant, and so does a write.
LEMMA ClockInvStep ==
  ASSUME TypeOK, ClockInv, NEW n \in Nodes, now[n] <= clock, clock' = clock, TableStep(n)
  PROVE  ClockInv'
<1>1. CASE UNCHANGED tableVars
  BY <1>1 DEF ClockInv
<1>2. CASE Write(n)
  BY <1>2, WriteFacts DEF ClockInv
<1>3. QED
  BY <1>1, <1>2 DEF TableStep

\* A node that is the winner of what it reads has its own row, and no row it sees alive
\* precedes it.
LEMMA ReadFacts ==
  ASSUME TypeOK, ClockInv, NEW n \in Nodes, Read(n)
  PROVE  /\ phase'[n] = "deciding" /\ UNCHANGED <<now, isLeader, lastBeat, tableVars>>
         /\ verdict'[n].mine => OwnRow(n).node = n /\ ~Outranked(n, now[n])
<1>1. phase'[n] = "deciding" /\ UNCHANGED <<now, isLeader, lastBeat, tableVars>>
  BY DEF Read, TypeOK
<1>2. CASE verdict' = [verdict EXCEPT ![n] = NoLeader]
  BY <1>1, <1>2 DEF TypeOK, NoLeader
<1>3. CASE \E s \in Winners(n) :
             verdict' = [verdict EXCEPT ![n] = [leader |-> s, mine |-> rows[s].node = n]]
  <2>1. PICK s \in Winners(n) :
          verdict' = [verdict EXCEPT ![n] = [leader |-> s, mine |-> rows[s].node = n]]
    BY <1>3
  <2>2. s \in Services /\ verdict'[n].mine = (rows[s].node = n)
    BY <2>1 DEF Winners, Alive, TypeOK
  <2>3. SUFFICES ASSUME rows[s].node = n
                 PROVE  OwnRow(n).node = n /\ ~Outranked(n, now[n])
    BY <1>1, <2>2
  <2>4. s = Service[n]
    BY <2>2, <2>3, NodesAssumption DEF ClockInv
  <2>5. ASSUME NEW t \in Services, rows[t].node # None,
               Priority[t] > Priority[s], now[n] - rows[t].heard <= Lease
        PROVE  FALSE
    <3>1. t \in Alive(n) \ {s}
      BY <2>2, <2>5, PriorityAssumption DEF Alive
    <3>2. Precedes(s, t)
      BY <2>1, <3>1 DEF Winners
    <3>3. QED
      BY <2>2, <2>5, <3>2, PriorityAssumption DEF Precedes
  <2>6. QED
    BY <2>3, <2>4, <2>5 DEF Outranked
<1>4. QED
  BY <1>2, <1>3 DEF Read

LEMMA OwnStep ==
  ASSUME TypeOK, ClockInv, NEW n \in Nodes, NodeInv(n), NodeStep(n)
  PROVE  NodeInv(n)'
<1> USE DEF NodeInv, MemoryInv, LeaseInv, YieldInv, Covered
<1>0. /\ now[n] \in Nat /\ lastBeat[n] \in Nat /\ clock \in Nat /\ clock' = clock
      /\ Service[n] \in Services /\ OwnRow(n).heard \in Nat /\ OwnRow(n).heard <= clock
  BY StepFrame, ServicesAssumption DEF TypeOK, Rows, ClockInv
<1>1. CASE Start(n)
  BY <1>0, <1>1 DEF Start, TypeOK, Outranked
<1>2. CASE Begin(n)
  BY <1>0, <1>2 DEF Begin, TypeOK, Outranked
<1>3. CASE Upsert(n)
  <2>1. phase'[n] = "reading" /\ UNCHANGED <<now, verdict, isLeader, lastBeat>>
    BY <1>3 DEF Upsert, TypeOK
  <2>2. CASE UNCHANGED tableVars /\ ~MayWrite(n)
    <3>1. OwnRow(n).node # n
      BY <2>2 DEF MayWrite
    <3>2. QED
      BY <1>0, <1>3, <2>1, <2>2, <3>1 DEF Upsert, Outranked
  <2>3. CASE Write(n)
    BY <1>0, <1>3, <2>1, <2>3, WriteFacts, PriorityAssumption DEF Upsert, Outranked
  <2>4. QED
    BY <1>3, <2>2, <2>3 DEF Upsert
<1>4. CASE Read(n)
  <2>1. phase[n] = "reading"
    BY <1>4 DEF Read
  <2>2. MemoryInv(n)'
    BY <1>0, <1>4, <2>1, ReadFacts
  <2>3. LeaseInv(n)'
    BY <1>0, <1>4, <2>1, ReadFacts
  <2>4. YieldInv(n)'
    BY <1>0, <1>4, <2>1, ReadFacts DEF Outranked
  <2>5. QED
    BY <2>2, <2>3, <2>4
<1>5. CASE Decide(n)
  BY <1>0, <1>5 DEF Decide, EndBeat, TypeOK, Outranked
<1>6. CASE BeatFails(n)
  BY <1>0, <1>6, WriteFacts DEF BeatFails, Aborted, EndBeat, TypeOK, Outranked
<1>7. CASE Crash(n)
  BY <1>0, <1>7 DEF Crash, NoLeader, TypeOK
<1>8. QED
  BY <1>1, <1>2, <1>3, <1>4, <1>5, <1>6, <1>7 DEF NodeStep, Heartbeat

LEMMA ElectionInvInductive ==
  ASSUME TypeOK, ElectionInv, [Next]_vars
  PROVE  ElectionInv'
<1>1. CASE Tick
  <2>1. clock' = clock + 1 /\ clock \in Nat
    BY <1>1 DEF Tick, TypeOK
  <2>2. ClockInv'
    BY <1>1, <2>1 DEF Tick, ElectionInv, ClockInv, TypeOK, Rows
  <2>3. ASSUME NEW n \in Nodes, NodeInv(n)
        PROVE  NodeInv(n)'
    <3>1. now[n] \in Nat /\ lastBeat[n] \in Nat
      BY DEF TypeOK
    <3>2. QED
      BY <1>1, <2>1, <2>3, <3>1, LeaseAssumption
      DEF Tick, NodeInv, MemoryInv, LeaseInv, YieldInv, Covered, Outranked
  <2>4. QED
    BY <2>2, <2>3 DEF ElectionInv
<1>2. ASSUME NEW n \in Nodes, NodeStep(n)
      PROVE  ElectionInv'
  <2>1. ClockInv /\ \A m \in Nodes : NodeInv(m)
    BY DEF ElectionInv
  <2>2. /\ clock' = clock /\ TableStep(n) /\ now[n] <= clock
        /\ \A m \in Nodes \ {n} : Untouched(m)
    BY <1>2, <2>1, StepFrame DEF NodeInv, MemoryInv
  <2>3. ClockInv'
    BY <2>1, <2>2, ClockInvStep
  <2>4. NodeInv(n)'
    BY <1>2, <2>1, OwnStep
  <2>5. \A m \in Nodes \ {n} : NodeInv(m)'
    BY <2>1, <2>2, OtherStep DEF TableStep
  <2>6. QED
    BY <2>3, <2>4, <2>5 DEF ElectionInv
<1>3. CASE UNCHANGED vars
  BY <1>3 DEF vars, ElectionInv, ClockInv, NodeInv, MemoryInv, LeaseInv, YieldInv,
              Covered, Outranked
<1>4. QED
  BY <1>1, <1>2, <1>3 DEF Next, NodeStep

\* What each node knows of the row of its service, at each point of its heartbeat and
\* as long as it leads: the strengthening of the two invariants below.
THEOREM ElectionInvariant == Spec => []ElectionInv
<1>1. Init => ElectionInv
  BY ServicesAssumption, NodesAssumption
  DEF Init, ElectionInv, ClockInv, NodeInv, MemoryInv, LeaseInv, YieldInv, Covered,
      NoRow, NoLeader
<1>2. TypeOK /\ ElectionInv /\ [Next]_vars => ElectionInv'
  BY ElectionInvInductive
<1>3. QED
  BY <1>1, <1>2, ElectionTypeCorrect, PTL DEF Spec

-----------------------------------------------------------------------------
(* The properties that the runs check *)

\* However long a heartbeat stalls between capturing the time, writing, reading and
\* deciding, two replicas of a service never both lead within their leases.
THEOREM ReplicasElectOne == Spec => []OneCoveredLeaderPerService
<1>1. ElectionInv => OneCoveredLeaderPerService
  BY DEF ElectionInv, NodeInv, LeaseInv, OneCoveredLeaderPerService
<1>2. QED
  BY <1>1, ElectionInvariant, PTL

\* A heartbeat that begins after a service of higher priority was written and finds it
\* alive never leads.
THEOREM HigherPriorityPrevails == Spec => []LowerPriorityYields
<1>1. TypeOK /\ ElectionInv => LowerPriorityYields
  <2>1. SUFFICES ASSUME TypeOK, NEW n \in Nodes, NEW s \in Services, NodeInv(n),
                        isLeader[n], rows[s].node # None,
                        Priority[s] > Priority[Service[n]], writtenAt[s] < lastBeat[n]
                 PROVE  lastBeat[n] - rows[s].heard > Lease
    BY DEF ElectionInv, LowerPriorityYields
  <2>2. lastBeat[n] \in Nat /\ rows[s].heard \in Nat
    BY <2>1 DEF TypeOK, Rows
  <2>3. QED
    BY <2>1, <2>2, LeaseAssumption DEF NodeInv, YieldInv, Outranked
<1>2. QED
  BY <1>1, ElectionInvariant, ElectionTypeCorrect, PTL

\* A valid lease is never overwritten by another replica, although the time that the
\* guard compares was captured before the statement ran.
THEOREM LeasesAreRespected == Spec => LeaseNotStolen
<1>1. ASSUME TypeOK, ElectionInv, [Next]_vars
      PROVE  [\A s \in Services :
                rows[s].node # None /\ rows'[s].node # rows[s].node
                  => clock >= LeaseExpires(rows[s])]_vars
  <2>1. SUFFICES ASSUME NEW s \in Services, rows[s].node # None,
                        rows'[s].node # rows[s].node
                 PROVE  clock >= LeaseExpires(rows[s])
    OBVIOUS
  <2>2. PICK n \in Nodes : NodeStep(n)
    BY <1>1, <2>1 DEF Next, NodeStep, Tick, vars
  <2>3. TableStep(n)
    BY <1>1, <2>2, StepFrame
  <2>4. Write(n)
    BY <2>1, <2>3 DEF TableStep
  <2>5. s = Service[n] /\ rows[s].heard + Lease <= now[n]
    BY <1>1, <2>1, <2>4, WriteFacts
  <2>6. now[n] <= clock
    BY <1>1 DEF ElectionInv, NodeInv, MemoryInv
  <2>7. now[n] \in Nat /\ clock \in Nat /\ rows[s].heard \in Nat
    BY <1>1, <2>1 DEF TypeOK, Rows
  <2>8. QED
    BY <2>5, <2>6, <2>7, LeaseAssumption DEF LeaseExpires
<1>2. QED
  BY <1>1, ElectionInvariant, ElectionTypeCorrect, PTL DEF Spec, LeaseNotStolen

-----------------------------------------------------------------------------
(* The election implements Leadership. *)

Leads == {n \in Nodes : isLeader[n]}
CoveredNodes == {n \in Nodes : Covered(n)}

\* A step of a node changes the abstract state for that node only.
LEMMA AbstractFrame ==
  ASSUME TypeOK, NEW n \in Nodes, NodeStep(n)
  PROVE  /\ \A m \in Nodes \ {n} : (m \in Leads' <=> m \in Leads)
                                  /\ (m \in CoveredNodes' <=> m \in CoveredNodes)
         /\ CoveredNodes' \subseteq Leads' /\ Leads' \subseteq Nodes
<1>1. \A m \in Nodes \ {n} : Untouched(m) /\ clock' = clock
  BY StepFrame
<1>2. QED
  BY <1>1 DEF Leads, CoveredNodes, Covered, Untouched

LEMMA NodeStepImplements ==
  ASSUME TypeOK, ElectionInv, ElectionInv', NEW n \in Nodes, NodeStep(n)
  PROVE  L!LeadershipNext \/ UNCHANGED <<Leads, CoveredNodes>>
<1> DEFINE Frame == \A m \in Nodes \ {n} : (m \in Leads' <=> m \in Leads)
                                          /\ (m \in CoveredNodes' <=> m \in CoveredNodes)
<1>1. Frame /\ CoveredNodes' \subseteq Leads' /\ Leads' \subseteq Nodes
  BY AbstractFrame
<1>2. CASE n \in CoveredNodes'
  <2>1. n \in Leads'
    BY <1>1, <1>2
  <2>2. \A m \in Nodes : Service[m] = Service[n] /\ m \in CoveredNodes' => m = n
    BY <1>2 DEF ElectionInv, NodeInv, LeaseInv, CoveredNodes
  <2>3. L!Replicas(n) \cap CoveredNodes = {}
    BY <1>1, <2>2 DEF L!Replicas
  <2>4. Leads' = Leads \cup {n} /\ CoveredNodes' = CoveredNodes \cup {n}
    BY <1>1, <1>2, <2>1 DEF Leads, CoveredNodes
  <2>5. L!Promote(n)
    BY <2>3, <2>4 DEF L!Promote, Leads, CoveredNodes
  <2>6. QED
    BY <2>5 DEF L!LeadershipNext
<1>3. CASE n \notin CoveredNodes' /\ n \in Leads'
  <2>1. Leads' = Leads \cup {n} /\ CoveredNodes' = CoveredNodes \ {n}
    BY <1>1, <1>3 DEF Leads, CoveredNodes
  <2>2. L!PromoteLate(n)
    BY <2>1 DEF L!PromoteLate, Leads, CoveredNodes
  <2>3. QED
    BY <2>2 DEF L!LeadershipNext
<1>4. CASE n \notin CoveredNodes' /\ n \notin Leads'
  <2>1. Leads' = Leads \ {n} /\ CoveredNodes' = CoveredNodes \ {n}
    BY <1>1, <1>4 DEF Leads, CoveredNodes
  <2>2. L!Demote(n)
    BY <2>1 DEF L!Demote, Leads, CoveredNodes
  <2>3. QED
    BY <2>2 DEF L!LeadershipNext
<1>5. QED
  BY <1>2, <1>3, <1>4

LEMMA TickImplements ==
  ASSUME TypeOK, Tick
  PROVE  L!LeadershipNext
<1>1. clock' = clock + 1 /\ clock \in Nat /\ \A n \in Nodes : lastBeat[n] \in Nat
  BY DEF Tick, TypeOK
<1>2. Leads' = Leads
  BY DEF Tick, Leads
<1>3. CoveredNodes' \subseteq CoveredNodes
  BY <1>1, LeaseAssumption DEF Tick, CoveredNodes, Covered
<1>4. CoveredNodes' = CoveredNodes \ (CoveredNodes \ CoveredNodes')
  BY <1>3
<1>5. L!Lapse
  BY <1>2, <1>4 DEF L!Lapse, Leads, CoveredNodes
<1>6. QED
  BY <1>5 DEF L!LeadershipNext

\* Whatever stalls or fails, the heartbeats of all processes together behave like the
\* lease per service that Leadership describes: a replica comes to lead on a valid lease
\* only while no other replica does.
THEOREM ElectionImplementsLeadership == Spec => ImplementsLeadership
<1>1. Init => L!LeadershipInit
  BY DEF Init, L!LeadershipInit, Covered
<1>2. TypeOK /\ ElectionInv /\ ElectionInv' /\ [Next]_vars
        => L!LeadershipNext \/ UNCHANGED <<Leads, CoveredNodes>>
  <2>1. SUFFICES ASSUME TypeOK, ElectionInv, ElectionInv', [Next]_vars
                 PROVE  L!LeadershipNext \/ UNCHANGED <<Leads, CoveredNodes>>
    OBVIOUS
  <2>2. CASE Tick
    BY <2>1, <2>2, TickImplements
  <2>3. CASE \E n \in Nodes : NodeStep(n)
    BY <2>1, <2>3, NodeStepImplements
  <2>4. CASE UNCHANGED vars
    BY <2>4 DEF vars, Leads, CoveredNodes, Covered
  <2>5. QED
    BY <2>1, <2>2, <2>3, <2>4 DEF Next, NodeStep
<1>3. TypeOK /\ ElectionInv /\ ElectionInv' /\ [Next]_vars
        => [L!LeadershipNext]_(L!leadership)
  BY <1>2 DEF L!leadership, Leads, CoveredNodes
<1>4. QED
  BY <1>1, <1>3, ElectionInvariant, ElectionTypeCorrect, PTL
  DEF Spec, ImplementsLeadership, L!LeadershipSpec
==============================================================================
