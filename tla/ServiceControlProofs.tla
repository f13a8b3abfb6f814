------------------------ MODULE ServiceControlProofs ------------------------
(***************************************************************************)
(* Proofs about ServiceControl: its type invariant, that a manual scale    *)
(* holds (ScaleHolds), and that the panel's looks at the containers find   *)
(* the services (PanelFindsServices).                                      *)
(***************************************************************************)
EXTENDS ServiceControl, TLAPS

LEMMA IdleTyped == Idle \in Locals
BY ServicesAssumption, ScaleAssumption DEF Idle, Stages, Locals

\* What an update of a thread's variables gives.
LEMMA UpdateTyped ==
  ASSUME NEW r \in Locals, NEW st \in Stages, NEW s \in Services, NEW n \in Asked
  PROVE  /\ [r EXCEPT !.stage = st] \in Locals
         /\ [r EXCEPT !.stage = st, !.on = s] \in Locals
         /\ [r EXCEPT !.stage = st, !.on = s, !.n = n] \in Locals
BY DEF Locals

LEMMA ListingTyped ==
  ASSUME NEW s \in Services
  PROVE  Looking(s) \in Locals
BY IdleTyped, UpdateTyped, ScaleAssumption DEF Stages, Looking

LEMMA ScalingTyped ==
  ASSUME NEW s \in Services, NEW n \in Asked
  PROVE  [Idle EXCEPT !.stage = "find", !.on = s, !.n = n] \in Locals
BY IdleTyped, UpdateTyped DEF Stages

LEMMA StirredTyped ==
  ASSUME thread \in [Runners -> Locals]
  PROVE  Stirred \in [Runners -> Locals]
<1>1. \A t \in Runners : [thread[t] EXCEPT !.clean = FALSE] \in Locals
  <2> SUFFICES ASSUME NEW t \in Runners PROVE [thread[t] EXCEPT !.clean = FALSE] \in Locals
    OBVIOUS
  <2>1. thread[t] \in Locals
    OBVIOUS
  <2>2. QED
    BY <2>1 DEF Locals
<1>2. QED
  BY <1>1 DEF Stirred

LEMMA InitTypeOK == Init => TypeOK
<1> SUFFICES ASSUME Init PROVE TypeOK
  OBVIOUS
<1>1. thread \in [Runners -> Locals]
  BY IdleTyped DEF Init
<1>2. addr \in [Services -> Address]
      /\ \A s, t \in Services : addr[s] = addr[t] /\ addr[s] # None => s = t
  BY DEF Init, Address
<1>3. known \in [Services -> Address] /\ orch \in [Services -> Address]
  BY <1>2 DEF Init, Address
<1>4. replicas \in [Services -> 0 .. MaxReplicas]
      /\ hpaMin \in [Services -> 1 .. HpaMax]
      /\ asked \in [Services -> 0 .. MaxReplicas]
      /\ actions \in 0 .. MaxActions
  BY ScaleAssumption DEF Init
<1>5. QED
  BY <1>1, <1>2, <1>3, <1>4 DEF Init, TypeOK

\* A thread only holds a number of replicas that the panel has accepted.
Accepted == \A t \in Runners : thread[t].n \in 0 .. MaxReplicas

\* No thread of the panel is about to write the replicas, or the bound, of a service whose
\* last answered request still stands, and the autoscaler's bound is what was asked.
Standing ==
  \A s \in Services : asked[s] > 0 =>
    /\ hpaMin[s] >= asked[s]
    /\ \A t \in Threads : thread[t].stage \in {"find", "put", "patch"} => thread[t].on # s

\* What holds in every reachable state.
ScaleInv == TypeOK /\ Accepted /\ Standing

\* The containers' addresses and the caches, and the cluster's, as TypeOK has them.
ComposeTyped ==
  /\ addr \in [Services -> Address]
  /\ \A s, t \in Services : addr[s] = addr[t] /\ addr[s] # None => s = t
  /\ known \in [Services -> Address]
  /\ orch \in [Services -> Address]
  /\ failed \subseteq Services
  /\ moved \in [Services -> BOOLEAN]
  /\ sound \in BOOLEAN

ClusterTyped ==
  /\ replicas \in [Services -> 0 .. MaxReplicas]
  /\ hpaMin \in [Services -> 1 .. HpaMax]
  /\ asked \in [Services -> 0 .. MaxReplicas]

LEMMA TypeParts ==
  TypeOK <=> /\ mode \in {"compose", "kubernetes"}
             /\ ComposeTyped
             /\ thread \in [Runners -> Locals]
             /\ ClusterTyped
             /\ actions \in 0 .. MaxActions
BY DEF TypeOK, ComposeTyped, ClusterTyped

\* What ScaleHolds says of one step.
ScaleHoldsStep ==
  \A s \in Services :
    asked'[s] = asked[s] /\ replicas[s] >= asked[s] => replicas'[s] >= asked[s]

LEMMA NextTypeParts ==
  (/\ mode' \in {"compose", "kubernetes"}
   /\ ComposeTyped'
   /\ thread' \in [Runners -> Locals]
   /\ ClusterTyped'
   /\ actions' \in 0 .. MaxActions) => TypeOK'
BY DEF TypeOK, ComposeTyped, ClusterTyped

LEMMA ScaleInit == Init => ScaleInv
<1> SUFFICES ASSUME Init PROVE ScaleInv
  OBVIOUS
<1>1. Accepted
  BY ScaleAssumption DEF Init, Accepted, Idle
<1>2. Standing
  BY DEF Init, Standing
<1>3. QED
  BY <1>1, <1>2, InitTypeOK DEF ScaleInv

-----------------------------------------------------------------------------
(* The actions of the Compose stack and of the caches *)

\* The containers and the caches stay well typed.
LEMMA ComposeStepTyped ==
  ASSUME TypeOK, Next PROVE ComposeTyped'
<1> USE TypeParts DEF ComposeTyped
<1>1. ASSUME UNCHANGED compose PROVE ComposeTyped'
  BY <1>1 DEF compose
<1>2. ASSUME NEW t \in Runners, WriteEntry(t) PROVE ComposeTyped'
  <2>1. thread[t] \in Locals /\ thread[t].found \in Seq(Address) /\ thread[t].found # <<>>
    BY <1>2 DEF WriteEntry, Locals
  <2>2. Head(thread[t].found) \in Address
    BY <2>1
  <2>3. known' \in [Services -> Address]
    BY <1>2, <2>2 DEF WriteEntry
  <2>4. sound' \in BOOLEAN
    BY <1>2, <2>1 DEF WriteEntry, Locals
  <2>5. QED
    BY <1>2, <2>3, <2>4 DEF WriteEntry
<1>3. ASSUME NEW t \in Runners, InspectFails(t) PROVE ComposeTyped'
  BY <1>3 DEF InspectFails
<1>4. ASSUME NEW t \in Threads, NEW s \in Services, Stop(t, s) PROVE ComposeTyped'
  <2>1. addr' \in [Services -> Address]
        /\ \A r, q \in Services : addr'[r] = addr'[q] /\ addr'[r] # None => r = q
    BY <1>4 DEF Stop, Address
  <2>2. /\ orch' \in [Services -> Address] /\ failed' \subseteq Services
        /\ moved' \in [Services -> BOOLEAN]
    BY <1>4 DEF Stop, OrchestratorKeeps, Address
  <2>3. QED
    BY <1>4, <2>1, <2>2 DEF Stop
<1>5. ASSUME NEW s \in Services, ComesUp(s)
      PROVE  /\ addr' \in [Services -> Address] /\ moved' \in [Services -> BOOLEAN]
             /\ \A r, q \in Services : addr'[r] = addr'[q] /\ addr'[r] # None => r = q
  <2>1. PICK a \in Addresses \ {addr[r] : r \in Services} :
          /\ addr' = [addr EXCEPT ![s] = a]
          /\ moved' = [moved EXCEPT ![s] = orch[s] \notin {None, a}]
    BY <1>5 DEF ComesUp
  <2>2. \A r \in Services : addr[r] # a
    BY <2>1
  <2>3. addr' \in [Services -> Address]
    BY <2>1 DEF Address
  <2>4. \A r, q \in Services : addr'[r] = addr'[q] /\ addr'[r] # None => r = q
    BY <2>1, <2>2
  <2>5. moved' \in [Services -> BOOLEAN]
    BY <2>1
  <2>6. QED
    BY <2>3, <2>4, <2>5
<1>10. ASSUME NEW t \in Threads, NEW s \in Services, Start(t, s) \/ StartRaises(t, s)
       PROVE  ComposeTyped'
  <2>1. UNCHANGED <<known, orch, failed>> /\ sound' \in BOOLEAN
    BY <1>10 DEF Start, StartRaises
  <2>2. CASE ComesUp(s)
    BY <1>5, <2>1, <2>2
  <2>3. CASE UNCHANGED <<addr, moved>>
    BY <2>1, <2>3
  <2>4. QED
    BY <1>10, <2>2, <2>3 DEF Start, StartRaises
<1>6. ASSUME NEW s \in Services, OrchestratorResolves(s) PROVE ComposeTyped'
  BY <1>6 DEF OrchestratorResolves
<1>7. ASSUME NEW s \in Services, FailureForgotten(s) PROVE ComposeTyped'
  BY <1>7 DEF FailureForgotten
<1>8. ASSUME PanelRestarts PROVE ComposeTyped'
  BY <1>8 DEF PanelRestarts
<1>9. QED
  BY <1>1, <1>2, <1>3, <1>4, <1>6, <1>7, <1>8, <1>10
     DEF Next, Inspect, Scale, Find, Put, ScaleFails, Patch, PatchFails, ResolveMisses,
         Autoscale, compose

\* The steps that are not the cluster's write no replicas and no bound, and leave each
\* thread as it was, idle, or listing containers.
LEMMA ComposeStepKeeps ==
  ASSUME TypeOK,
         \/ \E t \in Runners : Inspect(t) \/ WriteEntry(t) \/ InspectFails(t)
         \/ \E t \in Threads, s \in Services : Stop(t, s) \/ Start(t, s) \/ StartRaises(t, s)
         \/ \E s \in Services :
              ResolveMisses(s) \/ OrchestratorResolves(s) \/ FailureForgotten(s)
         \/ PanelRestarts
  PROVE  /\ UNCHANGED <<mode, cluster>>
         /\ actions' \in 0 .. MaxActions
         /\ thread' \in [Runners -> Locals]
         /\ \A t \in Runners :
              /\ thread'[t].n \in {0, thread[t].n}
              /\ \/ thread'[t].stage = thread[t].stage /\ thread'[t].on = thread[t].on
                 \/ thread'[t].stage \in {"idle", "list", "write"}
<1> USE TypeParts, ScaleAssumption DEF cluster
<1> DEFINE Kept ==
      /\ thread' \in [Runners -> Locals]
      /\ \A t \in Runners :
           /\ thread'[t].n \in {0, thread[t].n}
           /\ \/ thread'[t].stage = thread[t].stage /\ thread'[t].on = thread[t].on
              \/ thread'[t].stage \in {"idle", "list", "write"}
<1> SUFFICES UNCHANGED <<mode, cluster>> /\ actions' \in 0 .. MaxActions /\ Kept
  OBVIOUS
<1>0. \A r \in Runners : thread[r] \in Locals
  OBVIOUS
<1>1. ASSUME NEW t \in Runners, Inspect(t)
      PROVE  UNCHANGED <<mode, cluster>> /\ actions' \in 0 .. MaxActions /\ Kept
  <2>0. Len(thread[t].found) < Len(ListOrder) /\ thread[t].found \in Seq(Address)
    BY <1>1, <1>0 DEF Inspect, Locals
  <2>1. Len(thread[t].found) + 1 \in DOMAIN ListOrder
    BY <2>0, ListAssumption
  <2>2. addr[ListOrder[Len(thread[t].found) + 1]] \in Address
    BY <2>1, ListAssumption DEF ComposeTyped
  <2> DEFINE found == Append(thread[t].found, addr[ListOrder[Len(thread[t].found) + 1]])
             stage == IF Len(found) = Len(ListOrder) THEN "write" ELSE "list"
             new   == [thread[t] EXCEPT !.found = found, !.stage = stage]
  <2>3. found \in Seq(Address) /\ stage \in {"list", "write"}
    BY <2>2, <1>0 DEF Locals
  <2>4. new \in Locals /\ new.n = thread[t].n /\ new.stage = stage
    BY <2>3, <1>0 DEF Locals, Stages
  <2>5. thread' = [thread EXCEPT ![t] = new]
    BY <1>1 DEF Inspect
  <2> HIDE DEF new, found, stage
  <2>6. Kept
    BY <1>0, <2>3, <2>4, <2>5
  <2>7. QED
    BY <1>1, <2>6 DEF Inspect
<1>2. ASSUME NEW t \in Runners, WriteEntry(t)
      PROVE  UNCHANGED <<mode, cluster>> /\ actions' \in 0 .. MaxActions /\ Kept
  <2>1. CASE Len(thread[t].found) > 1
    <3> DEFINE new == [thread[t] EXCEPT !.found = Tail(thread[t].found)]
    <3>1. thread' = [thread EXCEPT ![t] = new]
      BY <1>2, <2>1 DEF WriteEntry
    <3>2. thread[t].found \in Seq(Address) /\ thread[t].found # <<>>
      BY <1>0, <1>2 DEF Locals, WriteEntry
    <3>3. Tail(thread[t].found) \in Seq(Address)
      BY <3>2
    <3>4. new \in Locals /\ new.n = thread[t].n /\ new.stage = thread[t].stage /\ new.on = thread[t].on
      BY <1>0, <3>3 DEF Locals
    <3> HIDE DEF new
    <3>5. QED
      BY <1>0, <1>2, <3>1, <3>4 DEF WriteEntry
  <2>2. CASE ~(Len(thread[t].found) > 1)
    <3>1. thread' = [IF thread[t].clean THEN thread ELSE Stirred EXCEPT ![t] = Idle]
      BY <1>2, <2>2 DEF WriteEntry
    <3>2. CASE thread' = [thread EXCEPT ![t] = Idle]
      BY <1>0, <1>2, <3>2, IdleTyped DEF Idle, WriteEntry
    <3>3. CASE thread' = [Stirred EXCEPT ![t] = Idle]
      <4>1. thread' \in [Runners -> Locals]
        BY <3>3, StirredTyped, IdleTyped
      <4>2. \A r \in Runners : r # t =>
              /\ thread'[r].n = thread[r].n
              /\ thread'[r].stage = thread[r].stage /\ thread'[r].on = thread[r].on
        BY <1>0, <3>3 DEF Stirred, Locals
      <4>3. thread'[t].n = 0 /\ thread'[t].stage = "idle"
        BY <3>3, StirredTyped DEF Idle
      <4>4. Kept
        BY <4>1, <4>2, <4>3
      <4>5. QED
        BY <1>2, <4>4 DEF WriteEntry
    <3>4. QED
      BY <3>1, <3>2, <3>3
  <2>3. QED
    BY <2>1, <2>2
<1>9. ASSUME NEW t \in Runners, InspectFails(t)
      PROVE  UNCHANGED <<mode, cluster>> /\ actions' \in 0 .. MaxActions /\ Kept
  <2>1. thread' = [thread EXCEPT ![t] = Idle]
    BY <1>9 DEF InspectFails
  <2>2. Kept
    BY <2>1, <1>0, IdleTyped DEF Idle
  <2>3. QED
    BY <1>9, <2>2 DEF InspectFails
<1>3. ASSUME NEW t \in Threads, NEW s \in Services, Stop(t, s) \/ StartRaises(t, s)
      PROVE  UNCHANGED <<mode, cluster>> /\ actions' \in 0 .. MaxActions /\ Kept
  <2>1. thread' = Stirred /\ Request(t) /\ UNCHANGED cluster
    BY <1>3 DEF Stop, StartRaises
  <2>2. Kept
    BY <2>1, <1>0, StirredTyped DEF Stirred, Locals
  <2>3. QED
    BY <2>1, <2>2 DEF Request
<1>4. ASSUME NEW t \in Threads, NEW s \in Services, Start(t, s)
      PROVE  UNCHANGED <<mode, cluster>> /\ actions' \in 0 .. MaxActions /\ Kept
  <2>1. PICK old \in {thread, Stirred} : thread' = [old EXCEPT ![t] = Looking(s)]
    BY <1>4 DEF Start
  <2>2. /\ old \in [Runners -> Locals]
        /\ \A r \in Runners : /\ old[r].n = thread[r].n
                              /\ old[r].stage = thread[r].stage /\ old[r].on = thread[r].on
    BY <1>0, StirredTyped DEF Stirred, Locals
  <2>3. Looking(s) \in Locals /\ Looking(s).n = 0 /\ Looking(s).stage = "list"
    BY ListingTyped DEF Looking, Idle
  <2>4. Kept
    BY <2>1, <2>2, <2>3
  <2>5. Request(t) /\ UNCHANGED cluster
    BY <1>4 DEF Start
  <2>6. UNCHANGED mode /\ actions' \in 0 .. MaxActions
    BY <2>5 DEF Request
  <2>7. QED
    BY <2>4, <2>5, <2>6
<1>5. ASSUME NEW s \in Services, ResolveMisses(s)
      PROVE  UNCHANGED <<mode, cluster>> /\ actions' \in 0 .. MaxActions /\ Kept
  <2>1. Kept
    BY <1>5, <1>0, ListingTyped DEF ResolveMisses, Looking, Idle
  <2>2. QED
    BY <1>5, <2>1 DEF ResolveMisses
<1>6. ASSUME NEW s \in Services, OrchestratorResolves(s) \/ FailureForgotten(s)
      PROVE  UNCHANGED <<mode, cluster>> /\ actions' \in 0 .. MaxActions /\ Kept
  BY <1>6, <1>0 DEF OrchestratorResolves, FailureForgotten, Locals
<1>7. ASSUME PanelRestarts
      PROVE  UNCHANGED <<mode, cluster>> /\ actions' \in 0 .. MaxActions /\ Kept
  BY <1>7, IdleTyped DEF PanelRestarts, Idle
<1>8. QED
  BY <1>1, <1>2, <1>3, <1>4, <1>5, <1>6, <1>7, <1>9

-----------------------------------------------------------------------------
(* The cluster's actions *)

LEMMA ScaleStep ==
  ASSUME ScaleInv, NEW t \in Threads, NEW s \in Services, NEW n \in Asked, Scale(t, s, n)
  PROVE  ScaleInv' /\ ScaleHoldsStep
<1> USE TypeParts, ScaleAssumption DEF ScaleInv
<1>0. t \in Runners /\ \A r \in Runners : thread[r] \in Locals
  BY DEF Runners
<1> DEFINE new == [Idle EXCEPT !.stage = "find", !.on = s, !.n = n]
<1>1. thread' = [thread EXCEPT ![t] = new] /\ new \in Locals /\ new.n = n /\ new.on = s
  BY ScalingTyped DEF Scale, Idle
<1>2. asked' = [asked EXCEPT ![s] = 0] /\ UNCHANGED <<replicas, hpaMin>> /\ n \in 0 .. MaxReplicas
  BY DEF Scale
<1>3. ClusterTyped'
  BY <1>2 DEF ClusterTyped
<1>4. TypeOK'
  <2>1. thread' \in [Runners -> Locals]
    BY <1>0, <1>1
  <2>2. mode' = mode /\ actions' \in 0 .. MaxActions
    BY DEF Scale, Request
  <2>3. ComposeTyped'
    BY ComposeStepTyped DEF Next
  <2>4. QED
    BY <1>3, <2>1, <2>2, <2>3, NextTypeParts
<1>5. Accepted'
  BY <1>0, <1>1, <1>2 DEF Accepted
<1>6. Standing'
  <2> SUFFICES ASSUME NEW q \in Services, asked'[q] > 0
               PROVE  /\ hpaMin'[q] >= asked'[q]
                      /\ \A u \in Threads : thread'[u].stage \in {"find", "put", "patch"}
                                            => thread'[u].on # q
    BY DEF Standing
  <2>1. q # s /\ asked'[q] = asked[q]
    BY <1>2 DEF ClusterTyped
  <2>2. \A u \in Threads : thread'[u] = thread[u] \/ thread'[u].on = s
    BY <1>0, <1>1 DEF Runners
  <2>3. QED
    BY <1>2, <2>1, <2>2 DEF Standing
<1>7. ScaleHoldsStep
  BY <1>2 DEF ScaleHoldsStep
<1>8. QED
  BY <1>4, <1>5, <1>6, <1>7

\* A thread that goes on with its request, or ends it.
LEMMA ThreadStep ==
  ASSUME ScaleInv, Next, NEW t \in Threads, NEW r \in Locals,
         thread[t].stage \in {"find", "put", "patch"},
         thread' = [thread EXCEPT ![t] = r],
         r.n \in {0, thread[t].n}, r.stage = "idle" \/ r.on = thread[t].on,
         UNCHANGED <<mode, actions>>, ClusterTyped',
         \A s \in Services : asked'[s] > 0 =>
           \/ asked'[s] = asked[s] /\ hpaMin'[s] = hpaMin[s]
           \/ /\ asked'[s] = hpaMin'[s] /\ r.stage = "idle"
              /\ \A u \in Threads \ {t} : thread[u].on = s => thread[u].stage = "idle"
  PROVE  ScaleInv'
<1> USE TypeParts, ScaleAssumption DEF ScaleInv
<1>0. t \in Runners /\ Threads \subseteq Runners
  BY DEF Runners
<1>1. TypeOK'
  <2>1. thread' \in [Runners -> Locals]
    BY <1>0
  <2>2. ComposeTyped'
    BY ComposeStepTyped
  <2>3. QED
    BY <2>1, <2>2, NextTypeParts
<1>2. Accepted'
  BY <1>0 DEF Accepted
<1>3. Standing'
  <2> SUFFICES ASSUME NEW s \in Services, asked'[s] > 0
               PROVE  /\ hpaMin'[s] >= asked'[s]
                      /\ \A u \in Threads : thread'[u].stage \in {"find", "put", "patch"}
                                            => thread'[u].on # s
    BY DEF Standing
  <2>1. CASE asked'[s] = asked[s] /\ hpaMin'[s] = hpaMin[s]
    BY <1>0, <2>1 DEF Standing
  <2>2. CASE /\ asked'[s] = hpaMin'[s] /\ r.stage = "idle"
             /\ \A u \in Threads \ {t} : thread[u].on = s => thread[u].stage = "idle"
    <3>1. hpaMin'[s] >= asked'[s]
      BY <2>2 DEF ClusterTyped
    <3>2. ASSUME NEW u \in Threads, thread'[u].stage \in {"find", "put", "patch"}
          PROVE  thread'[u].on # s
      BY <1>0, <2>2, <3>2
    <3>3. QED
      BY <3>1, <3>2
  <2>3. QED
    BY <2>1, <2>2
<1>4. QED
  BY <1>1, <1>2, <1>3

LEMMA FindStep ==
  ASSUME ScaleInv, NEW t \in Threads, Find(t)
  PROVE  ScaleInv' /\ ScaleHoldsStep
<1> USE TypeParts, ScaleAssumption DEF ScaleInv
<1>0. thread[t] \in Locals /\ Next
  BY DEF Runners, Next
<1>1. PICK found \in BOOLEAN : thread' = [thread EXCEPT ![t].stage = "put", ![t].hpa = found]
  BY DEF Find
<1> DEFINE r == [thread[t] EXCEPT !.stage = "put", !.hpa = found]
<1>2. thread' = [thread EXCEPT ![t] = r]
  BY <1>1
<1>3. r \in Locals /\ r.n = thread[t].n /\ r.on = thread[t].on
  BY <1>0 DEF Locals, Stages
<1>4. thread[t].stage = "find" /\ UNCHANGED <<mode, actions, replicas, hpaMin, asked>>
  BY DEF Find, At, cluster
<1>5. ClusterTyped'
  BY <1>4 DEF ClusterTyped
<1> HIDE DEF r
<1>6. ScaleInv'
  BY <1>0, <1>2, <1>3, <1>4, <1>5, ThreadStep
<1>7. QED
  BY <1>4, <1>6 DEF ScaleHoldsStep

\* The replicas are written only while no answered request for the Deployment stands.
LEMMA PutStep ==
  ASSUME ScaleInv, NEW t \in Threads, Put(t) \/ ScaleFails(t)
  PROVE  ScaleInv' /\ ScaleHoldsStep
<1> USE TypeParts, ScaleAssumption DEF ScaleInv
<1>0. /\ thread[t] \in Locals /\ Next
      /\ thread[t].on \in Services /\ thread[t].n \in 0 .. MaxReplicas
  BY DEF Runners, Next, Locals, Accepted
<1>1. /\ thread[t].stage \in {"find", "put"}
      /\ UNCHANGED <<mode, actions, hpaMin, asked>>
      /\ replicas' \in {replicas, [replicas EXCEPT ![thread[t].on] = thread[t].n]}
  BY DEF Put, ScaleFails, At
<1>2. ClusterTyped'
  BY <1>0, <1>1 DEF ClusterTyped
<1>3. PICK r \in Locals : /\ thread' = [thread EXCEPT ![t] = r]
                          /\ r.n \in {0, thread[t].n} /\ (r.stage = "idle" \/ r.on = thread[t].on)
  <2>1. /\ Idle \in Locals /\ Idle.n = 0 /\ Idle.stage = "idle"
    BY IdleTyped DEF Idle
  <2>2. /\ [thread[t] EXCEPT !.stage = "patch"] \in Locals
        /\ [thread[t] EXCEPT !.stage = "patch"].n = thread[t].n
        /\ [thread[t] EXCEPT !.stage = "patch"].on = thread[t].on
    BY <1>0 DEF Locals, Stages
  <2>3. \/ thread' = [thread EXCEPT ![t] = Idle]
        \/ thread' = [thread EXCEPT ![t] = [thread[t] EXCEPT !.stage = "patch"]]
    BY DEF Put, ScaleFails
  <2>4. QED
    BY <2>1, <2>2, <2>3
<1>4. ScaleInv'
  BY <1>0, <1>1, <1>2, <1>3, ThreadStep
<1>5. asked[thread[t].on] = 0
  BY <1>0, <1>1 DEF Standing, ClusterTyped
<1>6. ScaleHoldsStep
  <2> SUFFICES ASSUME NEW s \in Services, replicas[s] >= asked[s]
               PROVE  replicas'[s] >= asked[s]
    BY DEF ScaleHoldsStep
  <2>1. CASE s = thread[t].on
    BY <1>0, <1>1, <1>5, <2>1 DEF ClusterTyped
  <2>2. CASE s # thread[t].on
    BY <1>0, <1>1, <2>2 DEF ClusterTyped
  <2>3. QED
    BY <2>1, <2>2
<1>7. QED
  BY <1>4, <1>6

\* The bound is written, with the promise when nobody else is at work on the Deployment.
LEMMA PatchStep ==
  ASSUME ScaleInv, NEW t \in Threads, Patch(t) \/ PatchFails(t)
  PROVE  ScaleInv' /\ ScaleHoldsStep
<1> USE TypeParts, ScaleAssumption DEF ScaleInv
<1>0. thread[t] \in Locals /\ Next /\ thread[t].on \in Services /\ thread[t].n \in Int
  BY DEF Runners, Next, Locals
<1>1. /\ thread[t].stage = "patch" /\ thread' = [thread EXCEPT ![t] = Idle]
      /\ UNCHANGED <<mode, actions, replicas>>
  BY DEF Patch, PatchFails, At, cluster
<1>2. Idle \in Locals /\ Idle.n = 0 /\ Idle.stage = "idle"
  BY IdleTyped DEF Idle
<1>3. \/ UNCHANGED <<hpaMin, asked>>
      \/ /\ thread[t].n \in 1 .. HpaMax
         /\ hpaMin' = [hpaMin EXCEPT ![thread[t].on] = thread[t].n]
         /\ asked' = [asked EXCEPT ![thread[t].on] = IF Others(t) = {} THEN thread[t].n ELSE 0]
  BY DEF Patch, PatchFails, cluster
<1>4. ClusterTyped'
  BY <1>0, <1>1, <1>3 DEF ClusterTyped
<1>5. \A s \in Services : asked'[s] > 0 =>
        \/ asked'[s] = asked[s] /\ hpaMin'[s] = hpaMin[s]
        \/ /\ asked'[s] = hpaMin'[s]
           /\ \A u \in Threads \ {t} : thread[u].on = s => thread[u].stage = "idle"
  <2> SUFFICES ASSUME NEW s \in Services, asked'[s] > 0, s = thread[t].on,
                      asked' = [asked EXCEPT ![s] = IF Others(t) = {} THEN thread[t].n ELSE 0],
                      hpaMin' = [hpaMin EXCEPT ![s] = thread[t].n]
               PROVE  /\ asked'[s] = hpaMin'[s]
                      /\ \A u \in Threads \ {t} : thread[u].on = s => thread[u].stage = "idle"
    BY <1>0, <1>3 DEF ClusterTyped
  <2>1. Others(t) = {} /\ asked'[s] = thread[t].n /\ hpaMin'[s] = thread[t].n
    BY DEF ClusterTyped
  <2>2. QED
    BY <2>1 DEF Others, At
<1>6. ScaleInv'
  BY <1>0, <1>1, <1>2, <1>4, <1>5, ThreadStep
<1>7. ScaleHoldsStep
  BY <1>1 DEF ScaleHoldsStep
<1>8. QED
  BY <1>6, <1>7

\* The autoscaler keeps to its bound, which is what was asked.
LEMMA AutoscaleStep ==
  ASSUME ScaleInv, NEW s \in Services, Autoscale(s)
  PROVE  ScaleInv' /\ ScaleHoldsStep
<1> USE TypeParts, ScaleAssumption DEF ScaleInv
<1>1. /\ UNCHANGED <<mode, thread, hpaMin, asked, actions>>
      /\ \E n \in hpaMin[s] .. HpaMax : replicas' = [replicas EXCEPT ![s] = n]
  BY DEF Autoscale
<1>2. ClusterTyped'
  BY <1>1 DEF ClusterTyped
<1>3. TypeOK'
  BY <1>1, <1>2, ComposeStepTyped, NextTypeParts DEF Next
<1>4. Accepted' /\ Standing'
  BY <1>1 DEF Accepted, Standing
<1>5. ScaleHoldsStep
  <2> SUFFICES ASSUME NEW q \in Services, replicas[q] >= asked[q]
               PROVE  replicas'[q] >= asked[q]
    BY DEF ScaleHoldsStep
  <2>1. hpaMin[q] >= asked[q]
    BY DEF Standing, ClusterTyped
  <2>2. QED
    BY <1>1, <2>1 DEF ClusterTyped
<1>6. QED
  BY <1>3, <1>4, <1>5

-----------------------------------------------------------------------------
LEMMA StepInv == ScaleInv /\ [Next]_vars => ScaleInv' /\ ScaleHoldsStep
<1> SUFFICES ASSUME ScaleInv, [Next]_vars PROVE ScaleInv' /\ ScaleHoldsStep
  OBVIOUS
<1>1. ASSUME Next,
             \/ \E t \in Runners : Inspect(t) \/ WriteEntry(t) \/ InspectFails(t)
             \/ \E t \in Threads, s \in Services : Stop(t, s) \/ Start(t, s) \/ StartRaises(t, s)
             \/ \E s \in Services :
                  ResolveMisses(s) \/ OrchestratorResolves(s) \/ FailureForgotten(s)
             \/ PanelRestarts
      PROVE  ScaleInv' /\ ScaleHoldsStep
  <2>1. /\ UNCHANGED <<mode, cluster>>
        /\ actions' \in 0 .. MaxActions
        /\ thread' \in [Runners -> Locals]
        /\ \A t \in Runners :
             /\ thread'[t].n \in {0, thread[t].n}
             /\ \/ thread'[t].stage = thread[t].stage /\ thread'[t].on = thread[t].on
                \/ thread'[t].stage \in {"idle", "list", "write"}
    BY <1>1, ComposeStepKeeps DEF ScaleInv
  <2>2. ComposeTyped'
    BY <1>1, ComposeStepTyped DEF ScaleInv
  <2>3. ClusterTyped'
    BY <2>1, TypeParts DEF ScaleInv, ClusterTyped, cluster
  <2>4. TypeOK'
    BY <2>1, <2>2, <2>3, TypeParts, NextTypeParts DEF ScaleInv
  <2>5. Accepted'
    BY <2>1, ScaleAssumption DEF ScaleInv, Accepted
  <2>6. Standing'
    BY <2>1 DEF ScaleInv, Standing, cluster, Runners
  <2>7. ScaleHoldsStep
    BY <2>1 DEF ScaleHoldsStep, cluster
  <2>8. QED
    BY <2>4, <2>5, <2>6, <2>7 DEF ScaleInv
<1>2. CASE \E t \in Threads, s \in Services, n \in Asked : Scale(t, s, n)
  BY <1>2, ScaleStep
<1>3. CASE \E t \in Threads : Find(t) \/ Put(t) \/ ScaleFails(t) \/ Patch(t) \/ PatchFails(t)
  BY <1>3, FindStep, PutStep, PatchStep
<1>4. CASE \E s \in Services : Autoscale(s)
  BY <1>4, AutoscaleStep
<1>5. CASE UNCHANGED vars
  BY <1>5 DEF vars, compose, cluster, ScaleInv, TypeOK, Accepted, Standing, ScaleHoldsStep
<1>6. QED
  BY <1>1, <1>2, <1>3, <1>4, <1>5 DEF Next

\* Every reachable state is well typed: no request the panel accepts leaves a number of
\* replicas, or a bound of the autoscaler, outside the ranges the cluster takes, and no two
\* containers share an address.
THEOREM TypeCorrect == Spec => []TypeOK
<1>1. Init => ScaleInv
  BY ScaleInit
<1>2. ScaleInv /\ [Next]_vars => ScaleInv'
  BY StepInv
<1>3. ScaleInv => TypeOK
  BY DEF ScaleInv
<1>4. QED
  BY <1>1, <1>2, <1>3, PTL DEF Spec

\* Whatever the services, the threads and the autoscaler's upper bound, no step of the panel
\* or of the autoscaler takes a Deployment below the replicas of the last answered request.
THEOREM ManualScaleHolds == Spec => ScaleHolds
<1>1. Init => ScaleInv
  BY ScaleInit
<1>2. ScaleInv /\ [Next]_vars => ScaleInv'
  BY StepInv
<1>3. ScaleInv /\ [Next]_vars =>
        [\A s \in Services :
           asked'[s] = asked[s] /\ replicas[s] >= asked[s] => replicas'[s] >= asked[s]]_vars
  BY StepInv DEF ScaleHoldsStep
<1>4. QED
  BY <1>1, <1>2, <1>3, PTL DEF Spec, ScaleHolds

-----------------------------------------------------------------------------
(* The panel's looks at the containers *)

\* A look lists what is left to inspect, then writes what is left to write.
Shape ==
  \A t \in Runners :
    /\ At(t, "list") => Len(thread[t].found) < Len(ListOrder)
    /\ At(t, "write") => Len(thread[t].found) \in 1 .. Len(ListOrder)

\* The entries a look has written.
Behind(r) == IF r.stage = "write" THEN Len(ListOrder) - Len(r.found) ELSE 0

\* What a look has found and not written yet is what it would find now, as long as it is
\* clean.
Accurate ==
  \A t \in Runners : thread[t].clean =>
    \A k \in DOMAIN thread[t].found :
      thread[t].found[k] = addr[ListOrder[Behind(thread[t]) + k]]

CurrentAt(s) == addr[s] # None => known[s] = addr[s]

\* The entries a clean look has written stay current, unless a look that is not clean is
\* writing too: that one will end, and the clean one is clean no longer.
Written ==
  (\A u \in Runners : At(u, "write") => thread[u].clean) =>
    \A t \in Runners : At(t, "write") =>
      \A k \in 1 .. Behind(thread[t]) : CurrentAt(ListOrder[k])

Looks(t) == At(t, "list") \/ At(t, "write")

\* Whatever makes the cache stale leaves a look in progress, whose end decides.
CurrentUnlessLooking ==
  sound => (\E t \in Runners : Looks(t)) \/ \A s \in Services : CurrentAt(s)

LookInv == Shape /\ Accurate /\ Written /\ CurrentUnlessLooking

\* Nothing is known of a thread that does not look, and little of one that begins to.
Fresh(r) == r.stage # "write" /\ r.found = <<>>

LEMMA IdleFresh ==
  /\ Idle.stage = "idle" /\ Fresh(Idle)
  /\ \A s \in Services : Looking(s).stage = "list" /\ Fresh(Looking(s))
BY DEF Idle, Looking, Fresh

LEMMA SomeListed == Len(ListOrder) \in Nat \ {0} /\ DOMAIN ListOrder = 1 .. Len(ListOrder)
<1>1. \E k \in DOMAIN ListOrder : ListOrder[k] = OrderKey
  BY ListAssumption, ServicesAssumption
<1>2. QED
  BY <1>1, ListAssumption

LEMMA LookInit == Init => LookInv
<1> SUFFICES ASSUME Init PROVE LookInv
  OBVIOUS
<1>1. \A t \in Runners : thread[t] = Idle
  BY DEF Init
<1>2. Shape /\ Accurate /\ Written
  BY <1>1, IdleFresh DEF Shape, Accurate, Written, Fresh, At
<1>3. CurrentUnlessLooking
  BY DEF Init, CurrentUnlessLooking, CurrentAt
<1>4. QED
  BY <1>2, <1>3 DEF LookInv

\* A step that leaves the addresses and the cache alone, in which threads only begin to look
\* or go on as they were.
LEMMA LookKept ==
  ASSUME LookInv, UNCHANGED <<addr, known, sound>>,
         \A t \in Runners :
           \/ /\ thread'[t].stage = thread[t].stage /\ thread'[t].found = thread[t].found
              /\ thread'[t].clean = thread[t].clean
           \/ Fresh(thread'[t]) /\ ~Looks(t)
           \/ ~Looks(t) /\ thread'[t].found = thread[t].found
              /\ thread'[t].clean = thread[t].clean
              /\ thread'[t].stage \notin {"list", "write"}
  PROVE  LookInv'
<1>1. Shape'
  BY SomeListed DEF LookInv, Shape, At, Fresh, Looks
<1>2. Accurate'
  BY DEF LookInv, Accurate, Behind, Fresh, Looks, At
<1>3. Written'
  BY DEF LookInv, Written, CurrentAt, Behind, At, Fresh, Looks
<1>4. CurrentUnlessLooking'
  BY DEF LookInv, CurrentUnlessLooking, CurrentAt, At, Looks
<1>5. QED
  BY <1>1, <1>2, <1>3, <1>4 DEF LookInv

\* Containers have changed: every look in progress is marked.
LEMMA StirredLooks ==
  ASSUME TypeOK, LookInv, NEW t \in Runners,
         UNCHANGED known, sound' \in {FALSE, sound},
         \/ thread' = Stirred /\ \/ ~sound'
                                 \/ \A s \in Services : CurrentAt(s) => CurrentAt(s)'
         \/ \E s \in Services : thread' = [Stirred EXCEPT ![t] = Looking(s)]
  PROVE  LookInv'
<1>0. Stirred \in [Runners -> Locals]
  BY StirredTyped DEF TypeOK
<1>1. \A r \in Runners : /\ Stirred[r].clean = FALSE /\ Stirred[r].stage = thread[r].stage
                         /\ Stirred[r].found = thread[r].found
  BY DEF Stirred, TypeOK, Locals
<1>2. \A r \in Runners : \/ /\ thread'[r].clean = FALSE /\ thread'[r].stage = thread[r].stage
                            /\ thread'[r].found = thread[r].found
                         \/ r = t /\ Fresh(thread'[r]) /\ thread'[r].stage = "list"
  BY <1>0, <1>1, IdleFresh
<1>3. Shape'
  BY <1>2, SomeListed DEF LookInv, Shape, At, Fresh
<1>4. Accurate'
  BY <1>2 DEF Accurate, Fresh
<1>5. Written'
  BY <1>2 DEF Written, At, Fresh
<1>6. CurrentUnlessLooking'
  <2>1. CASE thread' = Stirred /\ ~sound'
    BY <2>1 DEF CurrentUnlessLooking
  <2>2. CASE thread' = Stirred /\ \A s \in Services : CurrentAt(s) => CurrentAt(s)'
    BY <2>2, <1>1 DEF LookInv, CurrentUnlessLooking, At, Looks, TypeOK
  <2>3. CASE \E s \in Services : thread' = [Stirred EXCEPT ![t] = Looking(s)]
    <3>1. thread'[t].stage = "list"
      BY <2>3, <1>0, IdleFresh
    <3>2. QED
      BY <3>1 DEF CurrentUnlessLooking, At, Looks
  <2>4. QED
    BY <2>1, <2>2, <2>3
<1>7. QED
  BY <1>3, <1>4, <1>5, <1>6 DEF LookInv

LEMMA StopLooks ==
  ASSUME TypeOK, LookInv, NEW t \in Threads, NEW s \in Services, Stop(t, s)
  PROVE  LookInv'
<1>1. /\ addr' = [addr EXCEPT ![s] = None] /\ UNCHANGED <<known, sound>> /\ thread' = Stirred
  BY DEF Stop
<1>2. \A r \in Services : CurrentAt(r) => CurrentAt(r)'
  BY <1>1 DEF CurrentAt, TypeOK
<1>3. t \in Runners
  BY DEF Runners
<1>4. QED
  BY <1>1, <1>2, <1>3, StirredLooks

LEMMA StartLooks ==
  ASSUME TypeOK, LookInv, NEW t \in Threads, NEW s \in Services,
         Start(t, s) \/ StartRaises(t, s)
  PROVE  LookInv'
<1>0. /\ t \in Runners /\ thread \in [Runners -> Locals]
      /\ Fresh(Looking(s)) /\ Looking(s).stage = "list"
  BY IdleFresh DEF Runners, TypeOK
<1>1. CASE Start(t, s) /\ ComesUp(s)
  <2>1. thread' = [Stirred EXCEPT ![t] = Looking(s)] /\ UNCHANGED <<known, sound>>
    BY <1>1 DEF Start, ComesUp
  <2>2. QED
    BY <1>0, <2>1, StirredLooks
<1>2. CASE Start(t, s) /\ ~ComesUp(s)
  <2>1. /\ thread' = [thread EXCEPT ![t] = Looking(s)] /\ UNCHANGED <<addr, known, sound>>
        /\ ~Looks(t)
    BY <1>2 DEF Start, Request, At, Looks
  <2>2. \A r \in Runners :
           \/ /\ thread'[r].stage = thread[r].stage /\ thread'[r].found = thread[r].found
              /\ thread'[r].clean = thread[r].clean
           \/ Fresh(thread'[r]) /\ ~Looks(r)
    BY <1>0, <2>1
  <2>3. QED
    BY <2>1, <2>2, LookKept
<1>3. CASE StartRaises(t, s)
  <2>1. thread' = Stirred /\ sound' = FALSE /\ UNCHANGED known
    BY <1>3 DEF StartRaises
  <2>2. QED
    BY <1>0, <2>1, StirredLooks
<1>4. QED
  BY <1>1, <1>2, <1>3

LEMMA InspectLooks ==
  ASSUME TypeOK, LookInv, NEW t \in Runners, Inspect(t)
  PROVE  LookInv'
<1>0. UNCHANGED addr /\ UNCHANGED known /\ UNCHANGED sound
  BY DEF Inspect, compose
<1>1. PICK old \in Seq(Address) : old = thread[t].found
  BY DEF TypeOK, Locals
<1>2. thread[t] \in Locals /\ thread[t].stage = "list"
  BY DEF TypeOK, Locals, Inspect, At
<1>3. PICK n \in Nat : n = Len(old)
  BY <1>1
<1>4. PICK m \in Nat : m = Len(ListOrder) /\ DOMAIN ListOrder = 1 .. m
  BY SomeListed
<1>14. n < m /\ n + 1 \in 1 .. m
  BY <1>1, <1>3, <1>4 DEF Inspect
<1>15. PICK a \in Address : a = addr[ListOrder[n + 1]]
  BY <1>4, <1>14, ListAssumption DEF TypeOK
<1>16. PICK found \in Seq(Address) : found = Append(old, a)
  <2>1. Append(old, a) \in Seq(Address)
    OBVIOUS
  <2>2. QED
    BY <2>1
<1>5. /\ Len(found) = n + 1 /\ DOMAIN found = 1 .. n + 1
      /\ \A k \in 1 .. n : found[k] = old[k]
      /\ found[n + 1] = a /\ DOMAIN old = 1 .. n
  BY <1>1, <1>3, <1>15, <1>16
<1>17. PICK stage \in {"list", "write"} :
         stage = IF Len(found) = Len(ListOrder) THEN "write" ELSE "list"
  OBVIOUS
<1>6. /\ thread'[t].found = found /\ thread'[t].stage = stage
      /\ thread'[t].clean = thread[t].clean
      /\ \A r \in Runners : r # t => thread'[r] = thread[r]
  <2>1. thread' = [thread EXCEPT ![t].found = found, ![t].stage = stage]
    BY <1>1, <1>3, <1>15, <1>16, <1>17 DEF Inspect
  <2>2. QED
    BY <1>2, <2>1 DEF TypeOK, Locals
<1>7. stage = "write" <=> n + 1 = m
  BY <1>4, <1>5, <1>17
<1>8. Behind(thread'[t]) = 0 /\ Behind(thread[t]) = 0
  <2>1. Behind(thread[t]) = 0
    BY <1>2 DEF Behind
  <2>2. CASE stage = "list"
    BY <1>6, <2>1, <2>2 DEF Behind
  <2>3. CASE stage = "write"
    <3>1. Behind(thread'[t]) = m - (n + 1)
      BY <1>4, <1>5, <1>6, <2>3 DEF Behind
    <3>2. QED
      BY <2>1, <2>3, <3>1, <1>7
  <2>4. QED
    BY <2>1, <2>2, <2>3
<1>9. Shape'
  <2>1. /\ stage = "list" => Len(found) < Len(ListOrder)
        /\ stage = "write" => Len(found) \in 1 .. Len(ListOrder)
    BY <1>4, <1>5, <1>7, <1>14
  <2>2. QED
    BY <1>6, <2>1 DEF LookInv, Shape, At
<1>10. Accurate'
  <2> SUFFICES ASSUME NEW r \in Runners, thread'[r].clean, NEW k \in DOMAIN thread'[r].found
               PROVE  thread'[r].found[k] = addr[ListOrder[Behind(thread'[r]) + k]]
    BY <1>0 DEF Accurate
  <2>1. CASE r # t
    BY <2>1, <1>6 DEF LookInv, Accurate
  <2>2. CASE r = t /\ k = n + 1
    BY <2>2, <1>5, <1>6, <1>8, <1>15
  <2>3. CASE r = t /\ k \in 1 .. n
    <3>1. old[k] = addr[ListOrder[0 + k]]
      BY <2>3, <1>1, <1>5, <1>6, <1>8 DEF LookInv, Accurate
    <3>2. QED
      BY <2>3, <3>1, <1>5, <1>6, <1>8
  <2>4. QED
    BY <2>1, <2>2, <2>3, <1>5, <1>6
<1>11. Written'
  <2> SUFFICES ASSUME \A u \in Runners : thread'[u].stage = "write" => thread'[u].clean,
                      NEW r \in Runners, thread'[r].stage = "write",
                      NEW k \in 1 .. Behind(thread'[r])
               PROVE  CurrentAt(ListOrder[k])
    BY <1>0 DEF Written, At, CurrentAt
  <2>1. r # t
    BY <1>8
  <2>2. \A u \in Runners : At(u, "write") => thread[u].clean
    BY <1>2, <1>6 DEF At
  <2>3. QED
    BY <1>6, <2>1, <2>2 DEF LookInv, Written, At
<1>12. CurrentUnlessLooking'
  BY <1>6, <1>7 DEF CurrentUnlessLooking, At, Looks
<1>13. QED
  BY <1>9, <1>10, <1>11, <1>12 DEF LookInv

\* What one write does: the first entry left is written and, if the look is clean, becomes
\* current; a clean look spoils no entry of the cache that was current.
LEMMA EntryWritten ==
  ASSUME TypeOK, LookInv, NEW t \in Runners, WriteEntry(t),
         NEW k, k = Len(ListOrder) - Len(thread[t].found) + 1
  PROVE  /\ thread[t] \in Locals /\ thread[t].stage = "write" /\ UNCHANGED addr
         /\ thread[t].found \in Seq(Address)
         /\ Len(thread[t].found) \in 1 .. Len(ListOrder)
         /\ k \in 1 .. Len(ListOrder) /\ Behind(thread[t]) + 1 = k
         /\ thread[t].clean =>
              /\ CurrentAt(ListOrder[k])'
              /\ \A s \in Services : CurrentAt(s) => CurrentAt(s)'
<1>1. /\ thread[t] \in Locals /\ thread[t].stage = "write" /\ UNCHANGED addr
      /\ thread[t].found \in Seq(Address) /\ Len(thread[t].found) \in 1 .. Len(ListOrder)
  BY DEF TypeOK, Locals, WriteEntry, At, LookInv, Shape
<1>2. /\ Behind(thread[t]) = Len(ListOrder) - Len(thread[t].found)
      /\ Behind(thread[t]) + 1 = k /\ k \in 1 .. Len(ListOrder)
  BY <1>1, SomeListed DEF Behind
<1>3. PICK c \in Services : c = ListOrder[k]
  BY <1>2, SomeListed, ListAssumption
<1>4. PICK a \in Address : a = thread[t].found[1] /\ a = Head(thread[t].found)
                           /\ 1 \in DOMAIN thread[t].found
  BY <1>1
<1>5. known' = IF a = None THEN known ELSE [known EXCEPT ![c] = a]
  BY <1>3, <1>4 DEF WriteEntry, NextOf
<1>6. ASSUME thread[t].clean PROVE a = addr[c]
  BY <1>2, <1>3, <1>4, <1>6 DEF LookInv, Accurate
<1>7. ASSUME thread[t].clean, NEW s \in Services, CurrentAt(s) \/ s = c PROVE CurrentAt(s)'
  BY <1>1, <1>5, <1>6, <1>7 DEF CurrentAt, TypeOK
<1>8. ASSUME thread[t].clean PROVE CurrentAt(ListOrder[k])'
  BY <1>3, <1>7, <1>8
<1>9. QED
  BY <1>1, <1>2, <1>7, <1>8

LEMMA TailOf ==
  ASSUME NEW S, NEW s \in Seq(S), NEW n \in Nat, n = Len(s), n > 1
  PROVE  /\ Len(Tail(s)) = n - 1 /\ DOMAIN Tail(s) = 1 .. n - 1
         /\ \A i \in 1 .. n - 1 : Tail(s)[i] = s[i + 1] /\ i + 1 \in DOMAIN s
OBVIOUS

LEMMA WriteOnLooks ==
  ASSUME TypeOK, LookInv, NEW t \in Runners, WriteEntry(t), Len(thread[t].found) > 1
  PROVE  LookInv'
<1>0. UNCHANGED addr /\ UNCHANGED sound
  BY DEF WriteEntry
<1>1. /\ thread[t] \in Locals /\ thread[t].stage = "write"
      /\ thread[t].found \in Seq(Address) /\ Len(thread[t].found) \in 1 .. Len(ListOrder)
  BY DEF TypeOK, Locals, WriteEntry, At, LookInv, Shape
<1>2. PICK n \in Nat : n = Len(thread[t].found)
  BY <1>1
<1>3. PICK m \in Nat : m = Len(ListOrder)
  BY SomeListed
<1>4. 1 < n /\ n <= m
  BY <1>1, <1>2, <1>3
<1>13. PICK k \in Nat : k = m - n + 1
  BY <1>4
<1>14. k = Len(ListOrder) - Len(thread[t].found) + 1
  BY <1>2, <1>3, <1>13
<1>15. /\ Behind(thread[t]) + 1 = k
       /\ thread[t].clean => /\ CurrentAt(ListOrder[k])'
                             /\ \A s \in Services : CurrentAt(s) => CurrentAt(s)'
  BY <1>14, EntryWritten
<1>5. /\ thread'[t].found = Tail(thread[t].found) /\ thread'[t].stage = "write"
      /\ thread'[t].clean = thread[t].clean
      /\ \A r \in Runners : r # t => thread'[r] = thread[r]
  <2>1. thread' = [thread EXCEPT ![t].found = Tail(thread[t].found)]
    BY DEF WriteEntry
  <2>2. QED
    BY <1>1, <2>1 DEF TypeOK, Locals
<1>6. /\ Len(thread'[t].found) = n - 1 /\ DOMAIN thread'[t].found = 1 .. n - 1
      /\ \A i \in 1 .. n - 1 : /\ thread'[t].found[i] = thread[t].found[i + 1]
                               /\ i + 1 \in DOMAIN thread[t].found
  BY <1>1, <1>2, <1>4, <1>5, TailOf
<1>7. Behind(thread'[t]) = k /\ Behind(thread[t]) = k - 1
  <2>1. Behind(thread'[t]) = m - (n - 1) /\ Behind(thread[t]) = m - n
    BY <1>1, <1>2, <1>3, <1>5, <1>6 DEF Behind
  <2>2. QED
    BY <2>1, <1>13
<1>8. Shape'
  <2>1. Len(thread'[t].found) \in 1 .. Len(ListOrder)
    BY <1>3, <1>4, <1>6
  <2>2. QED
    BY <1>5, <2>1 DEF LookInv, Shape, At
<1>9. Accurate'
  <2> SUFFICES ASSUME NEW r \in Runners, thread'[r].clean, NEW i \in DOMAIN thread'[r].found
               PROVE  thread'[r].found[i] = addr[ListOrder[Behind(thread'[r]) + i]]
    BY <1>0 DEF Accurate
  <2>1. CASE r # t
    BY <2>1, <1>5 DEF LookInv, Accurate
  <2>2. CASE r = t
    <3>1. i \in 1 .. n - 1 /\ i \in Nat
      BY <2>2, <1>4, <1>6
    <3>2. thread[t].found[i + 1] = addr[ListOrder[(k - 1) + (i + 1)]]
      BY <2>2, <3>1, <1>5, <1>6, <1>7 DEF LookInv, Accurate
    <3>3. (k - 1) + (i + 1) = k + i
      BY <3>1
    <3>4. QED
      BY <2>2, <3>1, <3>2, <3>3, <1>6, <1>7
  <2>3. QED
    BY <2>1, <2>2
<1>10. Written'
  <2> SUFFICES ASSUME \A u \in Runners : thread'[u].stage = "write" => thread'[u].clean,
                      NEW r \in Runners, thread'[r].stage = "write",
                      NEW i \in 1 .. Behind(thread'[r])
               PROVE  CurrentAt(ListOrder[i])'
    BY DEF Written, At, Behind
  <2>1. thread[t].clean /\ \A u \in Runners : At(u, "write") => thread[u].clean
    BY <1>1, <1>5 DEF At
  <2>2. CASE r = t /\ i = k
    BY <2>1, <2>2, <1>15
  <2>3. CASE ~(r = t /\ i = k)
    <3>1. thread[r].stage = "write" /\ i \in 1 .. Behind(thread[r])
      <4>1. CASE r = t
        <5>1. i \in 1 .. k /\ i # k
          BY <4>1, <2>3, <1>7
        <5>2. i \in 1 .. k - 1
          BY <5>1
        <5>3. QED
          BY <4>1, <5>2, <1>1, <1>7
      <4>2. CASE r # t
        BY <4>2, <1>5
      <4>3. QED
        BY <4>1, <4>2
    <3>2. CurrentAt(ListOrder[i])
      BY <2>1, <3>1 DEF LookInv, Written, At
    <3>3. Len(thread[r].found) \in 1 .. Len(ListOrder)
      BY <3>1 DEF LookInv, Shape, At
    <3>4. i \in 1 .. Len(ListOrder)
      BY <3>1, <3>3, SomeListed DEF Behind
    <3>5. ListOrder[i] \in Services
      BY <3>4, SomeListed, ListAssumption
    <3>6. QED
      BY <2>1, <3>2, <3>5, <1>15
  <2>4. QED
    BY <2>2, <2>3
<1>11. CurrentUnlessLooking'
  BY <1>5 DEF CurrentUnlessLooking, At, Looks
<1>12. QED
  BY <1>8, <1>9, <1>10, <1>11 DEF LookInv

LEMMA JustOne == ASSUME NEW n \in Nat, 1 <= n, ~(n > 1) PROVE n = 1
OBVIOUS

\* The last write of a look.
LEMMA WriteEndLooks ==
  ASSUME TypeOK, LookInv, NEW t \in Runners, WriteEntry(t), ~(Len(thread[t].found) > 1)
  PROVE  LookInv'
<1>0. UNCHANGED addr /\ sound' = thread[t].clean
  BY DEF WriteEntry
<1>1. /\ thread[t] \in Locals /\ thread[t].stage = "write"
      /\ Len(thread[t].found) \in 1 .. Len(ListOrder)
      /\ thread' = [IF thread[t].clean THEN thread ELSE Stirred EXCEPT ![t] = Idle]
  BY DEF TypeOK, Locals, WriteEntry, At, LookInv, Shape
<1>2. PICK m \in Nat : m = Len(ListOrder) /\ DOMAIN ListOrder = 1 .. m
  BY SomeListed
<1>7. Len(thread[t].found) = 1
  <2>1. PICK n \in Nat : n = Len(thread[t].found) /\ 1 <= n
    BY <1>1, <1>2
  <2>2. ~(n > 1)
    BY <2>1
  <2>3. QED
    BY <2>1, <2>2, JustOne
<1>8. m = Len(ListOrder) - Len(thread[t].found) + 1
  BY <1>2, <1>7
<1>3. /\ Behind(thread[t]) + 1 = m
      /\ thread[t].clean => /\ CurrentAt(ListOrder[m])'
                            /\ \A s \in Services : CurrentAt(s) => CurrentAt(s)'
  BY <1>8, EntryWritten
<1>9. Behind(thread[t]) = m - 1
  BY <1>1, <1>2, <1>7 DEF Behind
<1>4. CASE ~thread[t].clean
  <2>1. thread' = [Stirred EXCEPT ![t] = Idle] /\ ~sound'
    BY <1>0, <1>1, <1>4
  <2>2. /\ Stirred \in [Runners -> Locals]
        /\ \A r \in Runners : /\ Stirred[r].clean = FALSE /\ Stirred[r].stage = thread[r].stage
                              /\ Stirred[r].found = thread[r].found
    BY StirredTyped DEF Stirred, TypeOK, Locals
  <2>3. \A r \in Runners : \/ /\ thread'[r].clean = FALSE /\ thread'[r].stage = thread[r].stage
                              /\ thread'[r].found = thread[r].found
                           \/ thread'[r].stage = "idle" /\ Fresh(thread'[r])
    BY <2>1, <2>2, IdleFresh
  <2>4. Shape'
    BY <2>3 DEF LookInv, Shape, At
  <2>5. Accurate'
    BY <2>3 DEF Accurate, Fresh
  <2>6. Written'
    BY <2>3 DEF Written, At
  <2>7. QED
    BY <2>1, <2>4, <2>5, <2>6 DEF LookInv, CurrentUnlessLooking
<1>5. CASE thread[t].clean
  <2>1. /\ thread' = [thread EXCEPT ![t] = Idle] /\ thread'[t] = Idle
        /\ \A r \in Runners : r # t => thread'[r] = thread[r]
    BY <1>1, <1>5 DEF TypeOK
  <2>2. Shape'
    BY <2>1, IdleFresh DEF LookInv, Shape, At
  <2>3. Accurate'
    <3> SUFFICES ASSUME NEW r \in Runners, thread'[r].clean, NEW i \in DOMAIN thread'[r].found
                 PROVE  thread'[r].found[i] = addr[ListOrder[Behind(thread'[r]) + i]]
      BY <1>0 DEF Accurate
    <3>1. r # t
      BY <2>1, IdleFresh DEF Fresh
    <3>2. QED
      BY <3>1, <2>1 DEF LookInv, Accurate
  <2>4. ASSUME \A u \in Runners : u # t => (thread[u].stage = "write" => thread[u].clean),
               NEW r \in Runners, thread[r].stage = "write", NEW i \in 1 .. Behind(thread[r])
        PROVE  CurrentAt(ListOrder[i])'
    <3>1. CurrentAt(ListOrder[i])
      BY <1>5, <2>4 DEF LookInv, Written, At
    <3>2. Len(thread[r].found) \in 1 .. Len(ListOrder)
      BY <2>4 DEF LookInv, Shape, At
    <3>3. i \in 1 .. Len(ListOrder)
      BY <2>4, <3>2, SomeListed DEF Behind
    <3>4. ListOrder[i] \in Services
      BY <3>3, SomeListed, ListAssumption
    <3>5. QED
      BY <3>1, <3>4, <1>3, <1>5
  <2>5. Written'
    <3> SUFFICES ASSUME \A u \in Runners : thread'[u].stage = "write" => thread'[u].clean,
                        NEW r \in Runners, thread'[r].stage = "write",
                        NEW i \in 1 .. Behind(thread'[r])
                 PROVE  CurrentAt(ListOrder[i])'
      BY DEF Written, At, Behind
    <3>1. r # t /\ thread[r].stage = "write" /\ i \in 1 .. Behind(thread[r])
      BY <2>1, IdleFresh
    <3>2. \A u \in Runners : u # t => (thread[u].stage = "write" => thread[u].clean)
      BY <2>1
    <3>3. QED
      BY <3>1, <3>2, <2>4
  <2>6. CurrentUnlessLooking'
    <3> SUFFICES ASSUME \A r \in Runners : thread'[r].stage \notin {"list", "write"},
                        NEW s \in Services
                 PROVE  CurrentAt(s)'
      BY DEF CurrentUnlessLooking, At, Looks
    <3>1. \A u \in Runners : u # t => thread[u].stage # "write"
      BY <2>1
    <3>2. PICK i \in 1 .. m : ListOrder[i] = s
      BY <1>2, ListAssumption
    <3>3. CASE i = m
      BY <3>2, <3>3, <1>3, <1>5
    <3>4. CASE i # m
      <4>1. i \in 1 .. Behind(thread[t])
        BY <3>4, <1>9
      <4>2. QED
        BY <4>1, <3>1, <3>2, <2>4, <1>1
    <3>5. QED
      BY <3>3, <3>4
  <2>7. QED
    BY <2>2, <2>3, <2>5, <2>6 DEF LookInv
<1>6. QED
  BY <1>4, <1>5

LEMMA FailureLooks ==
  ASSUME TypeOK, LookInv, \/ \E t \in Runners : InspectFails(t)
                          \/ PanelRestarts
  PROVE  LookInv'
<1>1. ASSUME NEW t \in Runners, InspectFails(t) PROVE LookInv'
  <2>1. /\ thread' = [thread EXCEPT ![t] = Idle] /\ ~sound' /\ thread[t].stage = "list"
    BY <1>1 DEF InspectFails, At
  <2>2. UNCHANGED addr /\ UNCHANGED known
    BY <1>1 DEF InspectFails
  <2>3. thread'[t] = Idle /\ \A r \in Runners : r # t => thread'[r] = thread[r]
    BY <2>1 DEF TypeOK
  <2>4. Shape'
    BY <2>3, IdleFresh DEF LookInv, Shape, At
  <2>5. Accurate'
    <3> SUFFICES ASSUME NEW r \in Runners, thread'[r].clean, NEW i \in DOMAIN thread'[r].found
                 PROVE  thread'[r].found[i] = addr[ListOrder[Behind(thread'[r]) + i]]
      BY <2>2 DEF Accurate
    <3>1. r # t
      BY <2>3, IdleFresh DEF Fresh
    <3>2. QED
      BY <3>1, <2>3 DEF LookInv, Accurate
  <2>6. Written'
    <3> SUFFICES ASSUME \A u \in Runners : thread'[u].stage = "write" => thread'[u].clean,
                        NEW r \in Runners, thread'[r].stage = "write",
                        NEW i \in 1 .. Behind(thread'[r])
                 PROVE  CurrentAt(ListOrder[i])
      BY <2>2 DEF Written, At, CurrentAt
    <3>1. r # t /\ thread'[r] = thread[r]
      BY <2>3, IdleFresh
    <3>2. \A u \in Runners : At(u, "write") => thread[u].clean
      BY <2>1, <2>3 DEF At
    <3>3. QED
      BY <3>1, <3>2 DEF LookInv, Written, At
  <2>7. CurrentUnlessLooking'
    BY <2>1 DEF CurrentUnlessLooking
  <2>8. QED
    BY <2>4, <2>5, <2>6, <2>7 DEF LookInv
<1>2. ASSUME PanelRestarts PROVE LookInv'
  <2>1. \A t \in Runners : thread'[t] = Idle
    BY <1>2 DEF PanelRestarts
  <2>2. Shape' /\ Accurate' /\ Written'
    BY <2>1, IdleFresh DEF Shape, Accurate, Written, Fresh, At
  <2>3. CurrentUnlessLooking'
    BY <1>2 DEF PanelRestarts, CurrentUnlessLooking, CurrentAt
  <2>4. QED
    BY <2>2, <2>3 DEF LookInv
<1>3. QED
  BY <1>1, <1>2

\* The other steps of the Compose stack, and the cluster's.
LEMMA OtherLooks ==
  ASSUME TypeOK, LookInv,
         \/ \E s \in Services :
              ResolveMisses(s) \/ OrchestratorResolves(s) \/ FailureForgotten(s) \/ Autoscale(s)
         \/ \E t \in Threads, s \in Services, n \in Asked : Scale(t, s, n)
         \/ \E t \in Threads : Find(t) \/ Put(t) \/ ScaleFails(t) \/ Patch(t) \/ PatchFails(t)
         \/ UNCHANGED vars
  PROVE  LookInv'
<1>0. /\ thread \in [Runners -> Locals] /\ Threads \subseteq Runners /\ Loop \in Runners
      /\ \A r \in Runners : thread[r] \in Locals
  BY DEF TypeOK, Runners
<1>1. UNCHANGED <<addr, known, sound>>
  BY DEF ResolveMisses, OrchestratorResolves, FailureForgotten, Autoscale, Scale, Find, Put,
         ScaleFails, Patch, PatchFails, vars, compose
<1>2. CASE UNCHANGED thread
  BY <1>1, <1>2, LookKept
<1>3. ASSUME NEW t \in Runners, NEW r, ~Looks(t), thread' = [thread EXCEPT ![t] = r],
             \/ Fresh(r)
             \/ /\ r.found = thread[t].found /\ r.clean = thread[t].clean
                /\ r.stage \notin {"list", "write"}
      PROVE  LookInv'
  <2>1. thread'[t] = r /\ \A u \in Runners : u # t => thread'[u] = thread[u]
    BY <1>0, <1>3
  <2>2. QED
    BY <1>1, <1>3, <2>1, LookKept
<1>4. ASSUME NEW s \in Services, ResolveMisses(s) PROVE LookInv'
  <2>1. ~Looks(Loop) /\ thread' = [thread EXCEPT ![Loop] = Looking(s)] /\ Fresh(Looking(s))
    BY <1>4, IdleFresh DEF ResolveMisses, At, Looks
  <2>2. QED
    BY <1>0, <1>3, <2>1
<1>5. ASSUME NEW t \in Threads, NEW s \in Services, NEW n \in Asked, Scale(t, s, n) PROVE LookInv'
  <2> DEFINE r == [Idle EXCEPT !.stage = "find", !.on = s, !.n = n]
  <2>1. ~Looks(t) /\ thread' = [thread EXCEPT ![t] = r]
    BY <1>5 DEF Scale, Request, At, Looks
  <2>2. Fresh(r)
    BY DEF Fresh, Idle
  <2> HIDE DEF r
  <2>3. QED
    BY <1>0, <1>3, <2>1, <2>2
<1>6. ASSUME NEW t \in Threads, Find(t) PROVE LookInv'
  <2>1. PICK h \in BOOLEAN : thread' = [thread EXCEPT ![t].stage = "put", ![t].hpa = h]
    BY <1>6 DEF Find
  <2> DEFINE r == [thread[t] EXCEPT !.stage = "put", !.hpa = h]
  <2>2. thread' = [thread EXCEPT ![t] = r] /\ ~Looks(t)
    BY <2>1, <1>6 DEF Find, At, Looks
  <2>3. r.found = thread[t].found /\ r.clean = thread[t].clean /\ r.stage \notin {"list", "write"}
    BY <1>0 DEF Locals
  <2> HIDE DEF r
  <2>4. QED
    BY <1>0, <1>3, <2>2, <2>3
<1>7. ASSUME NEW t \in Threads, Put(t) \/ ScaleFails(t) \/ Patch(t) \/ PatchFails(t) PROVE LookInv'
  <2>1. ~Looks(t)
    BY <1>7 DEF Put, ScaleFails, Patch, PatchFails, At, Looks
  <2> DEFINE r == [thread[t] EXCEPT !.stage = "patch"]
  <2>2. thread' = [thread EXCEPT ![t] = Idle] \/ thread' = [thread EXCEPT ![t] = r]
    BY <1>7 DEF Put, ScaleFails, Patch, PatchFails
  <2>3. r.found = thread[t].found /\ r.clean = thread[t].clean /\ r.stage \notin {"list", "write"}
    BY <1>0 DEF Locals
  <2> HIDE DEF r
  <2>4. QED
    BY <1>0, <1>3, <2>1, <2>2, <2>3, IdleFresh
<1>8. QED
  BY <1>2, <1>4, <1>5, <1>6, <1>7 DEF OrchestratorResolves, FailureForgotten, Autoscale, vars

LEMMA LookStep == TypeOK /\ LookInv /\ [Next]_vars => LookInv'
BY StopLooks, StartLooks, InspectLooks, WriteOnLooks, WriteEndLooks, FailureLooks, OtherLooks
   DEF Next

\* Whatever the services, the addresses and the number of worker threads, and however the
\* inspections and the single writes of their looks interleave with each other, with starts,
\* stops and the event loop's own looks: once nobody is looking, and the last look was clean
\* to its end, every container that runs is in the panel's cache under its address.
THEOREM PanelLooksFind == Spec => []PanelFindsServices
<1>1. Init => LookInv
  BY LookInit
<1>2. TypeOK /\ LookInv /\ [Next]_vars => LookInv'
  BY LookStep
<1>3. LookInv => PanelFindsServices
  BY DEF LookInv, CurrentUnlessLooking, CurrentAt, PanelFindsServices, At, Looks
<1>4. QED
  BY <1>1, <1>2, <1>3, TypeCorrect, PTL DEF Spec
=============================================================================
