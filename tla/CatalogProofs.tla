----------------------------- MODULE CatalogProofs -----------------------------
(***************************************************************************)
(* Proofs about Catalog for any number of requests and of seeders, any     *)
(* profile fields, targets and bounds: the type invariant, that "clear     *)
(* all" clears (ClearedAltogether, from the references between the rows    *)
(* and the entities a request has still to clear), that patches are only   *)
(* undone by overlapping ones (PatchesUndoneOnlyByOverlap, from PatchInv:  *)
(* what the requests have read), and that the seeder inserts no more than  *)
(* the shortfall (SeedsOnlyTheShortfall, from SeedInv: sums of the rows    *)
(* there are and the rows to come).                                        *)
(***************************************************************************)
EXTENDS Catalog, FiniteSetTheorems, WellFoundedInduction, TLAPS

-----------------------------------------------------------------------------
(* Data *)

\* The local variables of a request, and of a run of the seeder.
Session ==
  [stage : Stages, at : Tables, id : Ids, plan : SUBSET Ids,
   field : Fields \cup {"quantity", None}, quantity : 0 .. MaxStock,
   seen : Row \cup {None}, since : SUBSET Sessions,
   left : Seq(Entities), errors : 0 .. 5]
SeederState ==
  [phase : SeederPhases, table : Tables, plan : SUBSET Ids, held : [Tables -> SUBSET Ids],
   alone : [Tables -> BOOLEAN], restarts : 0 .. MaxRestarts]

LEMMA EntitiesCounted == Cardinality(Entities) = 5
<1>1. IsFiniteSet({}) /\ Cardinality({}) = 0
  BY FS_EmptySet
<1>2. IsFiniteSet({"users"}) /\ Cardinality({"users"}) = 1
  BY FS_Singleton
<1>3. IsFiniteSet({"users", "products"}) /\ Cardinality({"users", "products"}) = 2
  <2>1. {"users", "products"} = {"users"} \cup {"products"}
    OBVIOUS
  <2>2. QED
    BY <1>2, <2>1, FS_AddElement
<1>4. /\ IsFiniteSet({"users", "products", "orders"})
      /\ Cardinality({"users", "products", "orders"}) = 3
  <2>1. {"users", "products", "orders"} = {"users", "products"} \cup {"orders"}
    OBVIOUS
  <2>2. QED
    BY <1>3, <2>1, FS_AddElement
<1>5. /\ IsFiniteSet({"users", "products", "orders", "payments"})
      /\ Cardinality({"users", "products", "orders", "payments"}) = 4
  <2>1. {"users", "products", "orders", "payments"} = {"users", "products", "orders"} \cup {"payments"}
    OBVIOUS
  <2>2. QED
    BY <1>4, <2>1, FS_AddElement
<1>6. Entities = {"users", "products", "orders", "payments"} \cup {"notifications"}
  BY DEF Entities, Tables, Dependents
<1>7. QED
  BY <1>5, <1>6, FS_AddElement

LEMMA IdsFinite ==
  ASSUME NEW S \in SUBSET Ids
  PROVE  IsFiniteSet(S) /\ Cardinality(S) \in Nat
<1>1. IsFiniteSet(Ids)
  BY FS_Interval, BoundsAssumption DEF Ids
<1>2. QED
  BY <1>1, FS_Subset, FS_CardinalityType

\* A finite set of integers has a greatest element.
LEMMA HighestExists ==
  ASSUME NEW S \in SUBSET Int, IsFiniteSet(S), S # {}
  PROVE  \E m \in S : \A t \in S : t <= m
<1> DEFINE Above(t) == {u \in S : u > t}
           T == {Above(t) : t \in S}
<1>1. IsWellFoundedOn(StrictSubsetOrdering(S), SUBSET S)
  BY FS_StrictSubsetOrderingWellFounded, FS_FiniteSubsetsOfFinite
<1>2. T \subseteq SUBSET S /\ T # {}
  <2>1. \A t \in S : Above(t) \in SUBSET S
    OBVIOUS
  <2>2. \E t \in S : Above(t) \in T
    OBVIOUS
  <2> HIDE DEF Above
  <2>3. QED
    BY <2>1, <2>2
<1> HIDE DEF T
<1>3. PICK x \in T : \A y \in T : ~ (<<y, x>> \in StrictSubsetOrdering(S))
  BY <1>1, <1>2, WFMin
<1>4. PICK m \in S : x = Above(m)
  BY DEF T
<1>5. ASSUME NEW t \in S, t > m PROVE FALSE
  <2>0. t \in Int /\ m \in Int /\ \A u \in S : u \in Int
    OBVIOUS
  <2>1. Above(t) \subseteq Above(m)
    <3> SUFFICES ASSUME NEW u \in S, u > t PROVE u > m
      OBVIOUS
    <3>1. u \in Int /\ t \in Int /\ m \in Int
      BY <2>0
    <3>2. QED
      BY <1>5, <3>1
  <2>2. t \in Above(m) /\ t \notin Above(t)
    BY <1>5
  <2>3. <<Above(t), Above(m)>> \in StrictSubsetOrdering(S)
    BY <2>1, <2>2 DEF StrictSubsetOrdering
  <2>4. Above(t) \in T
    BY DEF T
  <2>5. QED
    BY <1>3, <1>4, <2>3, <2>4
<1>6. QED
  BY <1>5

LEMMA HighestIs ==
  ASSUME NEW S \in SUBSET Ids
  PROVE  Highest(S) \in Nat /\ \A m \in S : m <= Highest(S)
<1>1. S \cup {0} \in SUBSET Int /\ IsFiniteSet(S \cup {0}) /\ S \cup {0} # {}
  BY IdsFinite, FS_AddElement DEF Ids
<1>2. PICK n \in S \cup {0} : \A m \in S \cup {0} : m <= n
  BY <1>1, HighestExists
<1>3. \E k \in S \cup {0} : \A m \in S : m <= k
  BY <1>2
<1>4. Highest(S) \in S \cup {0} /\ \A m \in S : m <= Highest(S)
  BY <1>3 DEF Highest
<1>5. S \cup {0} \subseteq Nat
  BY BoundsAssumption DEF Ids
<1>6. QED
  BY <1>4, <1>5

LEMMA TabledIs ==
  ASSUME NEW f
  PROVE  f \in Tabled <=> DOMAIN f \subseteq Ids /\ f \in [DOMAIN f -> Row]
BY DEF Tabled

LEMMA NewRowTyped == NewRow \in Row
BY BoundsAssumption DEF NewRow, Row

LEMMA FreshTyped == Fresh \in Session
<1>1. 1 \in Ids /\ 0 \in 0 .. MaxStock
  BY BoundsAssumption DEF Ids
<1>2. QED
  BY <1>1 DEF Fresh, Session, Stages, Tables

LEMMA UnstartedTyped == Unstarted \in SeederState
BY BoundsAssumption DEF Unstarted, SeederState, SeederPhases, Tables

\* The seeder's, and the fake, records: as many ids as asked, after the highest.
LEMMA RecordsIs ==
  ASSUME NEW n \in Nat, NEW k \in Nat, n + k - 1 <= MaxId, n > 0
  PROVE  Records(n, k) \in SUBSET Ids /\ Cardinality(Records(n, k)) = k
<1>1. Records(n, k) \in SUBSET Ids
  BY BoundsAssumption DEF Records, Ids
<1>2. Cardinality(Records(n, k)) = IF n > n + k - 1 THEN 0 ELSE (n + k - 1) - n + 1
  BY FS_Interval DEF Records
<1>3. QED
  BY <1>1, <1>2

-----------------------------------------------------------------------------
(* What the statements do to the rows *)

RowsTyped == rows \in [Tables -> Tabled]

\* No row refers to one that is not there.
Referring ==
  /\ orders \subseteq Order
  /\ payments \subseteq orders /\ notifications \subseteq orders
  /\ \A o \in orders : o.user \in Present("users") /\ o.product \in Present("products")

LEMMA PresentIs ==
  ASSUME RowsTyped, NEW t \in Tables
  PROVE  Present(t) \in SUBSET Ids /\ \A i \in Present(t) : rows[t][i] \in Row
BY TabledIs DEF RowsTyped, Present

LEMMA WithIs ==
  ASSUME RowsTyped, NEW t \in Tables, NEW S \in SUBSET Ids
  PROVE  /\ With(t, S) \in Tabled /\ DOMAIN With(t, S) = Present(t) \cup S
         /\ \A i \in S : With(t, S)[i] = NewRow
         /\ \A i \in Present(t) \ S : With(t, S)[i] = rows[t][i]
<1>1. /\ DOMAIN With(t, S) = Present(t) \cup S
      /\ \A i \in S : With(t, S)[i] = NewRow
      /\ \A i \in Present(t) \ S : With(t, S)[i] = rows[t][i]
  BY DEF With
<1>2. With(t, S) \in [Present(t) \cup S -> Row]
  BY PresentIs, NewRowTyped DEF With
<1>3. QED
  BY <1>1, <1>2, PresentIs, TabledIs

\* The rows there were, with what their profiles hold and who patched them, and new ones.
Follows(r, q) == r.by = q.by /\ r.patched = q.patched
RowsFollow ==
  \A t \in Tables : \A i \in Present(t)' :
    \/ rows'[t][i] = NewRow
    \/ i \in Present(t) /\ Follows(rows'[t][i], rows[t][i])

\* A statement that only deletes rows, those that refer to them included.
Shrinks ==
  /\ RowsTyped' /\ Referring'
  /\ \A t \in Tables : Present(t)' \subseteq Present(t)
  /\ \A t \in Tables : \A i \in Present(t)' : rows'[t][i] = rows[t][i]

LEMMA ShrinksFollow == Shrinks => RowsFollow
BY DEF Shrinks, RowsFollow, Follows

LEMMA KeepIs ==
  ASSUME Referring, NEW O \in SUBSET orders, Keep(O)
  PROVE  orders' = O /\ payments' \subseteq O /\ notifications' \subseteq O
BY DEF Keep

LEMMA DeleteIs ==
  ASSUME RowsTyped, Referring, NEW t \in Tables, NEW S, Delete(t, S)
  PROVE  /\ Shrinks
         /\ Present(t)' = Present(t) \ S
         /\ orders' = {o \in orders : References(o, t) \notin S}
<1>1. rows' = [rows EXCEPT ![t] = [i \in Present(t) \ S |-> rows[t][i]]]
  BY DEF Delete
<1>2. /\ rows'[t] = [i \in Present(t) \ S |-> rows[t][i]]
      /\ \A u \in Tables : u # t => rows'[u] = rows[u]
  BY <1>1 DEF RowsTyped
<1>3. RowsTyped'
  <2>1. [i \in Present(t) \ S |-> rows[t][i]] \in Tabled
    BY PresentIs, TabledIs
  <2>2. QED
    BY <1>1, <2>1 DEF RowsTyped
<1>4. /\ Present(t)' = Present(t) \ S
      /\ \A u \in Tables : u # t => Present(u)' = Present(u)
      /\ \A u \in Tables : \A i \in Present(u)' : rows'[u][i] = rows[u][i]
  BY <1>2 DEF Present
<1>5. /\ orders' = {o \in orders : References(o, t) \notin S}
      /\ payments' \subseteq orders' /\ notifications' \subseteq orders'
  BY DEF Delete, Keep
<1>6. ASSUME NEW o \in orders' PROVE o.user \in Present("users")' /\ o.product \in Present("products")'
  <2>1. o.user \in Present("users") /\ o.product \in Present("products") /\ References(o, t) \notin S
    BY <1>5, <1>6 DEF Referring
  <2>2. CASE t = "users"
    BY <1>4, <2>1, <2>2 DEF References, Tables
  <2>3. CASE t = "products"
    BY <1>4, <2>1, <2>3 DEF References, Tables
  <2>4. QED
    BY <2>2, <2>3 DEF Tables
<1>7. Referring'
  BY <1>5, <1>6 DEF Referring
<1>8. QED
  BY <1>3, <1>4, <1>5, <1>7 DEF Shrinks

LEMMA ClearIs ==
  ASSUME RowsTyped, Referring, NEW e \in Entities, Clear(e)
  PROVE  /\ Shrinks
         /\ e = "products" => orders' = {} /\ Present("products")' = {}
<1>1. CASE e \in Tables
  <2>1. Delete(e, Present(e))
    BY <1>1 DEF Clear, ClearTable, Tables
  <2>2. Shrinks /\ Present(e)' = {} /\ orders' = {o \in orders : References(o, e) \notin Present(e)}
    BY <1>1, <2>1, DeleteIs
  <2>3. ASSUME e = "products" PROVE orders' = {}
    BY <2>2, <2>3 DEF Referring, References
  <2>4. QED
    BY <2>2, <2>3
<1>2. CASE e \in Dependents
  <2>1. ClearOrders \/ ClearPayments \/ ClearNotifications
    BY <1>2 DEF Clear, Tables, Dependents
  <2>2. /\ rows' = rows /\ orders' \subseteq orders
        /\ payments' \subseteq orders' /\ notifications' \subseteq orders'
    BY <2>1 DEF ClearOrders, ClearPayments, ClearNotifications, Keep, Referring
  <2>3. \A t \in Tables : Present(t)' = Present(t)
    BY <2>2 DEF Present
  <2>4. Referring' /\ RowsTyped'
    BY <2>2, <2>3 DEF Referring, RowsTyped, Tables
  <2>5. e # "products"
    BY <1>2 DEF Dependents
  <2>6. QED
    BY <2>2, <2>3, <2>4, <2>5 DEF Shrinks
<1>3. QED
  BY <1>1, <1>2 DEF Entities

-----------------------------------------------------------------------------
(* What the requests do to themselves *)

\* What a request that clears everything has left at each of its steps.
Lefts ==
  {<<"orders", "payments", "notifications", "users", "products">>,
   <<"payments", "notifications", "users", "products">>,
   <<"notifications", "users", "products">>, <<"users", "products">>, <<"products">>}

\* A request has nothing before its first statement; one that patches holds the row it read;
\* each step of one that clears adds at most one error.
Sound(r) ==
  /\ r.stage = "new" => r = Fresh
  /\ r.stage = "patch" => r.seen \in Row /\ r.field \in Fields \cup {"quantity"}
  /\ r.stage = "clear" => r.left \in Lefts /\ r.errors + Len(r.left) <= 5

Requests == ses \in [Sessions -> Session] /\ \A s \in Sessions : Sound(ses[s])

Typed ==
  /\ RowsTyped /\ Referring /\ Requests
  /\ late \subseteq Entities
  /\ seeder \in [Seeders -> SeederState]

LEMMA TypedTypeOK == Typed => TypeOK
BY EntitiesCounted DEF Typed, TypeOK, RowsTyped, Referring, Requests, Session, SeederState

\* Request s goes on with the local variables r.
Becomes(s, r) ==
  /\ ses' = [ses EXCEPT ![s] = r]
  /\ r \in Session /\ Sound(r) /\ r.stage # "new"

LEMMA BecomesIs ==
  ASSUME Requests, NEW s \in Sessions, NEW r, Becomes(s, r)
  PROVE  /\ Requests'
         /\ ses'[s] = r
         /\ \A c \in Sessions : c # s => ses'[c] = ses[c]
BY DEF Requests, Becomes

LEMMA AnsweredIs ==
  ASSUME Requests, NEW s \in Sessions, NEW how \in {"ok", "failed"}
  PROVE  /\ Answered(s, how) \in Session /\ Sound(Answered(s, how))
         /\ Answered(s, how).stage = how /\ Answered(s, how).errors = 0
         /\ Answered(s, how).field = ses[s].field /\ Answered(s, how).since = ses[s].since
<1>1. ses[s].field \in Fields \cup {"quantity", None} /\ ses[s].since \in SUBSET Sessions
  BY DEF Requests, Session
<1>2. Answered(s, how) \in Session
  BY <1>1, FreshTyped DEF Answered, Session, Stages
<1>3. /\ Answered(s, how).stage = how /\ Answered(s, how).errors = 0
      /\ Answered(s, how).field = ses[s].field /\ Answered(s, how).since = ses[s].since
  BY DEF Answered, Fresh
<1>4. Sound(Answered(s, how))
  BY <1>3 DEF Sound
<1>5. QED
  BY <1>2, <1>3, <1>4

LEMMA EndsIs ==
  ASSUME Requests, NEW s \in Sessions, NEW how \in {"ok", "failed"}, Ends(s, how)
  PROVE  \E r : /\ Becomes(s, r) /\ r.stage = how /\ r.errors = 0
                /\ r.field = ses[s].field /\ r.since = ses[s].since
BY AnsweredIs DEF Ends, Becomes

\* A request that has its plan, or the row it is about, and goes on.
LEMMA PlansIs ==
  ASSUME Requests, NEW s \in Sessions, NEW t \in Tables, NEW S \in SUBSET Ids, Plans(s, t, S)
  PROVE  \E r : Becomes(s, r) /\ r.stage = "insert"
<1> DEFINE r == [ses[s] EXCEPT !.stage = "insert", !.at = t, !.plan = S]
<1>1. ses[s] \in Session
  BY DEF Requests
<1>2. r \in Session /\ r.stage = "insert"
  BY <1>1 DEF Session, Stages
<1>3. ses' = [ses EXCEPT ![s] = r]
  BY DEF Plans
<1> HIDE DEF r
<1>4. Sound(r)
  BY <1>2 DEF Sound
<1>5. QED
  BY <1>2, <1>3, <1>4 DEF Becomes

LEMMA FoundIs ==
  ASSUME Requests, NEW s \in Sessions, NEW stage \in {"remove", "reserve", "release"},
         NEW t \in Tables, NEW i \in Ids, Found(s, stage, t, i)
  PROVE  \E r : Becomes(s, r) /\ r.stage = stage
<1> DEFINE r == [ses[s] EXCEPT !.stage = stage, !.at = t, !.id = i]
<1>1. ses[s] \in Session
  BY DEF Requests
<1>2. r \in Session /\ r.stage = stage
  BY <1>1 DEF Session, Stages
<1>3. ses' = [ses EXCEPT ![s] = r]
  BY DEF Found
<1> HIDE DEF r
<1>4. Sound(r)
  BY <1>2 DEF Sound
<1>5. QED
  BY <1>2, <1>3, <1>4 DEF Becomes

LEMMA GoesIs ==
  ASSUME Requests, NEW s \in Sessions, NEW stage \in {"pay", "notify"}, Goes(s, stage)
  PROVE  \E r : Becomes(s, r) /\ r.stage = stage
<1> DEFINE r == [ses[s] EXCEPT !.stage = stage]
<1>1. ses[s] \in Session
  BY DEF Requests
<1>2. r \in Session /\ r.stage = stage
  BY <1>1 DEF Session, Stages
<1>3. ses' = [ses EXCEPT ![s] = r]
  BY DEF Goes
<1> HIDE DEF r
<1>4. Sound(r)
  BY <1>2 DEF Sound
<1>5. QED
  BY <1>2, <1>3, <1>4 DEF Becomes

LEMMA LeftsAre ==
  ASSUME NEW left \in Lefts
  PROVE  /\ Head(left) \in Entities /\ left \in Seq(Entities)
         /\ Len(left) \in 1 .. 5
         /\ Len(left) = 1 => left = <<"products">> /\ Tail(left) = <<>>
         /\ Len(left) # 1 => Tail(left) \in Lefts /\ Len(Tail(left)) = Len(left) - 1
<1> USE DEF Entities, Tables, Dependents
<1>1. CASE left = <<"orders", "payments", "notifications", "users", "products">>
  <2>1. Tail(left) = <<"payments", "notifications", "users", "products">>
    BY <1>1
  <2>2. QED
    BY <1>1, <2>1 DEF Lefts
<1>2. CASE left = <<"payments", "notifications", "users", "products">>
  <2>1. Tail(left) = <<"notifications", "users", "products">>
    BY <1>2
  <2>2. QED
    BY <1>2, <2>1 DEF Lefts
<1>3. CASE left = <<"notifications", "users", "products">>
  <2>1. Tail(left) = <<"users", "products">>
    BY <1>3
  <2>2. QED
    BY <1>3, <2>1 DEF Lefts
<1>4. CASE left = <<"users", "products">>
  <2>1. Tail(left) = <<"products">>
    BY <1>4
  <2>2. QED
    BY <1>4, <2>1 DEF Lefts
<1>5. CASE left = <<"products">>
  BY <1>5
<1>6. QED
  BY <1>1, <1>2, <1>3, <1>4, <1>5 DEF Lefts

\* The step that ends "clear all" is the one over the products.
LEMMA StepDoneIs ==
  ASSUME Requests, NEW s \in Sessions, Is(s, "clear"), NEW n \in {0, 1}, StepDone(s, n)
  PROVE  /\ Head(ses[s].left) \in Entities
         /\ \E r : /\ Becomes(s, r) /\ r.stage \in {"ok", "clear"} /\ r.since = ses[s].since
                   /\ r.errors >= n
                   /\ r.stage = "ok" => Head(ses[s].left) = "products"
<1> DEFINE left == ses[s].left
           st == IF Len(left) = 1 THEN "ok" ELSE "clear"
           r == [ses[s] EXCEPT !.stage = st, !.left = Tail(left), !.errors = ses[s].errors + n]
<1>1. ses[s] \in Session /\ left \in Lefts /\ ses[s].errors + Len(left) <= 5 /\ ses[s].errors \in 0 .. 5
  BY DEF Requests, Session, Sound, Is
<1>2. /\ Head(left) \in Entities /\ Tail(left) \in Seq(Entities)
      /\ Len(left) \in 1 .. 5 /\ st \in Stages
      /\ Len(left) = 1 => left = <<"products">>
      /\ Len(left) # 1 => Tail(left) \in Lefts /\ Len(Tail(left)) = Len(left) - 1
  <2>1. left # <<>>
    BY <1>1, LeftsAre
  <2>2. QED
    BY <1>1, <2>1, LeftsAre DEF Stages
<1>3. ses[s].errors + n \in 0 .. 5
  BY <1>1, <1>2
<1>4. ses' = [ses EXCEPT ![s] = r]
  BY DEF StepDone
<1>5. r \in Session /\ r.stage = st /\ r.left = Tail(left) /\ r.errors = ses[s].errors + n
      /\ r.since = ses[s].since
  BY <1>1, <1>2, <1>3 DEF Session
<1> HIDE DEF r
<1>6. Sound(r)
  <2>1. r.stage = "clear" => r.left \in Lefts /\ r.errors + Len(r.left) <= 5
    <3>1. ASSUME r.stage = "clear" PROVE Len(left) # 1
      BY <1>5, <3>1
    <3>2. ASSUME r.stage = "clear"
          PROVE  r.left \in Lefts /\ Len(r.left) = Len(left) - 1 /\ r.errors = ses[s].errors + n
      BY <1>2, <1>5, <3>1, <3>2
    <3>3. ASSUME NEW l \in 1 .. 5, NEW k \in 0 .. 5, NEW m \in {0, 1}, k + l <= 5
          PROVE  (k + m) + (l - 1) <= 5
      BY <3>3
    <3>4. QED
      BY <1>1, <1>2, <3>2, <3>3
  <2>2. r.stage \in {"ok", "clear"}
    BY <1>5
  <2>3. QED
    BY <2>1, <2>2 DEF Sound
<1>7. r.stage = "ok" => Head(left) = "products"
  BY <1>2, <1>5
<1>8. r.errors >= n
  BY <1>1, <1>5
<1>9. QED
  BY <1>2, <1>4, <1>5, <1>6, <1>7, <1>8 DEF Becomes

-----------------------------------------------------------------------------
(* Who patched what *)

\* A profile, of a row or as a request has read it: those who patched it are done; each
\* field has its first value or that of one who named it; and who patched a field that has
\* its first value again was read over by another of them.
Sane(r) ==
  /\ \A a \in r.patched : ses[a].stage = "ok" /\ ses[a].field \in Fields
  /\ \A f \in Fields : r.by[f] # None => ses[r.by[f]].stage = "ok" /\ ses[r.by[f]].field = f
  /\ \A a \in r.patched : r.by[ses[a].field] = None => \E c \in r.patched : a \in ses[c].since

\* Who patched the row s has read did so before s read it, or is in since; and unless the
\* row was deleted and created again, whom s has read is in the row.
Reader(s, r) ==
  /\ r.patched \subseteq ses[s].seen.patched \cup ses[s].since
  /\ ses[s].seen.patched \subseteq r.patched \/ ses[s].seen.patched \cap r.patched = {}

PatchInv ==
  /\ \A t \in Tables : \A i \in Present(t) : Sane(rows[t][i])
  /\ \A s \in Sessions : Is(s, "patch") =>
       /\ Sane(ses[s].seen)
       /\ \A t \in Tables : \A i \in Present(t) :
            ses[s].at = t /\ ses[s].id = i => Reader(s, rows[t][i])

\* An answered request stays as it is.
OkStays == \A c \in Sessions : ses[c].stage = "ok" => ses'[c] = ses[c]

LEMMA SaneStays ==
  ASSUME OkStays, NEW r \in Row, NEW q \in Row, Follows(q, r), Sane(r)
  PROVE  Sane(q)'
<1>1. /\ q.by = r.by /\ q.patched = r.patched /\ r.patched \subseteq Sessions
      /\ \A f \in Fields : r.by[f] \in Sessions \cup {None}
  BY DEF Follows, Row
<1>2. /\ \A a \in r.patched : ses'[a] = ses[a]
      /\ \A f \in Fields : r.by[f] # None => ses'[r.by[f]] = ses[r.by[f]]
  BY <1>1 DEF Sane, OkStays
<1>3. \A a \in q.patched : ses'[a].stage = "ok" /\ ses'[a].field \in Fields
  BY <1>1, <1>2 DEF Sane
<1>4. \A f \in Fields : q.by[f] # None => ses'[q.by[f]].stage = "ok" /\ ses'[q.by[f]].field = f
  BY <1>1, <1>2 DEF Sane
<1>5. \A a \in q.patched : q.by[ses'[a].field] = None => \E c \in q.patched : a \in ses'[c].since
  BY <1>1, <1>2 DEF Sane
<1>6. QED
  BY <1>3, <1>4, <1>5 DEF Sane

LEMMA SeenStays ==
  ASSUME OkStays, NEW c, ses'[c].seen \in Row, ses'[c].seen = ses[c].seen, Sane(ses[c].seen)
  PROVE  Sane(ses[c].seen)'
BY SaneStays DEF Sane, Follows

\* A request that has read its row before, or reads it now.
SameRead(c) ==
  /\ Is(c, "patch")
  /\ ses'[c].at = ses[c].at /\ ses'[c].id = ses[c].id /\ ses'[c].seen = ses[c].seen
  /\ ses[c].since \subseteq ses'[c].since
ReadNow(c) ==
  /\ rows' = rows
  /\ ses'[c].at \in Tables /\ ses'[c].id \in Present(ses'[c].at)
  /\ ses'[c].seen = rows[ses'[c].at][ses'[c].id]

LEMMA RowStays ==
  ASSUME OkStays, NEW t, NEW i, rows[t][i] \in Row, rows'[t][i] = rows[t][i], Sane(rows[t][i])
  PROVE  Sane(rows[t][i])'
BY SaneStays DEF Sane, Follows

LEMMA ReaderStays ==
  ASSUME NEW c, SameRead(c), NEW t, NEW i, Reader(c, rows[t][i]),
         \/ rows'[t][i].patched = rows[t][i].patched
         \/ \E s : /\ rows'[t][i].patched = rows[t][i].patched \cup {s}
                   /\ s \in ses'[c].since /\ s \notin ses[c].seen.patched
  PROVE  Reader(c, rows[t][i])'
BY DEF Reader, SameRead

\* A step that writes no profile.
LEMMA PatchKept ==
  ASSUME Typed, Typed', PatchInv, RowsFollow, OkStays,
         \A c \in Sessions : Is(c, "patch")' => SameRead(c) \/ ReadNow(c)
  PROVE  PatchInv'
<1>1. \A t \in Tables : \A i \in Present(t) : rows[t][i] \in Row
  BY PresentIs DEF Typed
<1>2. \A t \in Tables : \A i \in Present(t)' : rows'[t][i] \in Row
  <2>1. rows' \in [Tables -> Tabled]
    BY DEF Typed, RowsTyped
  <2>2. \A t \in Tables : rows'[t] \in Tabled
    BY <2>1
  <2>3. QED
    BY <2>2, TabledIs DEF Present
<1>3. ASSUME NEW t \in Tables, NEW i \in Present(t)' PROVE Sane(rows[t][i])' 
  <2>1. CASE rows'[t][i] = NewRow
    <3>1. Sane(NewRow)'
      BY DEF Sane, NewRow
    <3>2. QED
      BY <2>1, <3>1 DEF Sane
  <2>2. CASE i \in Present(t) /\ Follows(rows'[t][i], rows[t][i])
    <3> DEFINE r == rows[t][i]
               q == rows'[t][i]
    <3>1. r \in Row /\ q \in Row /\ Sane(r) /\ Follows(q, r)
      BY <1>1, <1>2, <2>2 DEF PatchInv
    <3>2. QED
      BY <3>1, SaneStays DEF Sane
  <2>3. QED
    BY <2>1, <2>2 DEF RowsFollow
<1>4. ASSUME NEW s \in Sessions, Is(s, "patch")' PROVE Sane(ses[s].seen)'
  <2>0. ses'[s].seen \in Row
    BY <1>4 DEF Typed, Requests, Sound, Is
  <2>1. CASE SameRead(s)
    <3>1. Sane(ses[s].seen) /\ ses'[s].seen = ses[s].seen
      BY <2>1 DEF PatchInv, SameRead
    <3>2. QED
      BY <2>0, <3>1, SeenStays
  <2>2. CASE ReadNow(s)
    <3>1. Sane(ses'[s].seen)
      BY <2>2 DEF PatchInv, ReadNow
    <3>2. QED
      BY <2>0, <3>1, SaneStays DEF Sane, Follows
  <2>3. QED
    BY <1>4, <2>1, <2>2
<1>5. ASSUME NEW s \in Sessions, Is(s, "patch")', NEW t \in Tables, NEW i \in Present(t)',
             ses'[s].at = t, ses'[s].id = i
      PROVE  Reader(s, rows[t][i])'
  <2>1. CASE SameRead(s)
    <3>1. CASE rows'[t][i] = NewRow
      BY <3>1 DEF Reader, NewRow
    <3>2. CASE i \in Present(t) /\ Follows(rows'[t][i], rows[t][i])
      <4>1. Reader(s, rows[t][i])
        BY <1>5, <2>1, <3>2 DEF PatchInv, SameRead
      <4>2. QED
        BY <2>1, <3>2, <4>1 DEF Reader, SameRead, Follows
    <3>3. QED
      BY <3>1, <3>2 DEF RowsFollow
  <2>2. CASE ReadNow(s)
    BY <1>5, <2>2 DEF ReadNow, Reader
  <2>3. QED
    BY <1>5, <2>1, <2>2
<1>6. QED
  BY <1>3, <1>4, <1>5 DEF PatchInv

-----------------------------------------------------------------------------
(* What a step owes to the properties *)

\* ClearedAltogether and SeedsOnlyTheShortfall, of one step.
ClearedStep ==
  \A s \in Sessions :
    Is(s, "clear") /\ ses'[s].stage = "ok" /\ ses'[s].errors = 0
    => orders' = {} /\ payments' = {} /\ notifications' = {} /\ rows'["products"] = <<>>

SeedsStep ==
  \A w \in Seeders, t \in Tables :
    In(w, "inserted") /\ seeder'[w].phase = "done" /\ seeder[w].alone[t]
    => \/ Cardinality(DOMAIN rows'[t]) <= Target[t]
       \/ rows'[t] = rows[t]

\* What a seeder has counted, or inserted, does not take the table beyond the target, unless
\* others inserted after it counted.
Shortfall(w) ==
  /\ seeder[w].phase \in {"starting", "counted"} =>
       /\ seeder[w].held["products"] = {}
       /\ seeder[w].table = "users" => seeder[w].held["users"] = {}
  /\ In(w, "counted") /\ seeder[w].alone[seeder[w].table] /\ seeder[w].plan # {} =>
       Cardinality(Present(seeder[w].table)) + Cardinality(seeder[w].plan)
         <= Target[seeder[w].table]
  /\ \A t \in Tables : seeder[w].alone[t] /\ seeder[w].held[t] # {} =>
       Cardinality(Present(t)) + Cardinality(seeder[w].held[t]) <= Target[t]

SeedInv == \A w \in Seeders : Shortfall(w)

\* A seeder that stays where it is; its count still stands only if no rows came.
Bystander(w) ==
  /\ seeder'[w].phase = seeder[w].phase /\ seeder'[w].table = seeder[w].table
  /\ seeder'[w].plan = seeder[w].plan /\ seeder'[w].held = seeder[w].held
  /\ \A t \in Tables : seeder'[w].alone[t] =>
       seeder[w].alone[t] /\ Present(t)' \subseteq Present(t)

LEMMA BystanderKeeps ==
  ASSUME Typed, NEW w \in Seeders, Shortfall(w), Bystander(w)
  PROVE  Shortfall(w)'
<1>1. seeder[w] \in SeederState
  BY DEF Typed
<1>2. ASSUME NEW t \in Tables, seeder'[w].alone[t], NEW S \in SUBSET Ids,
             Cardinality(Present(t)) + Cardinality(S) <= Target[t]
      PROVE  Cardinality(Present(t)') + Cardinality(S) <= Target[t]
  <2>1. Present(t) \in SUBSET Ids /\ Present(t)' \in SUBSET Present(t)
    BY <1>2, PresentIs DEF Typed, Bystander
  <2>2. /\ Cardinality(Present(t)') <= Cardinality(Present(t))
        /\ Cardinality(Present(t)) \in Nat /\ Cardinality(Present(t)') \in Nat
        /\ Cardinality(S) \in Nat
    BY <2>1, IdsFinite, FS_Subset
  <2>3. QED
    BY <1>2, <2>2, TargetAssumption
<1>3. \A t \in Tables : seeder[w].held[t] \in SUBSET Ids
  BY <1>1 DEF SeederState
<1>4. seeder[w].table \in Tables /\ seeder[w].plan \in SUBSET Ids
  BY <1>1 DEF SeederState
<1>5. seeder'[w].phase \in {"starting", "counted"} =>
        /\ seeder'[w].held["products"] = {}
        /\ seeder'[w].table = "users" => seeder'[w].held["users"] = {}
  BY DEF Shortfall, Bystander
<1>6. ASSUME seeder'[w].phase = "counted", seeder'[w].alone[seeder'[w].table], seeder'[w].plan # {}
      PROVE  Cardinality(DOMAIN rows'[seeder'[w].table]) + Cardinality(seeder'[w].plan)
               <= Target[seeder'[w].table]
  <2>0. PICK t \in Tables, S \in SUBSET Ids : t = seeder[w].table /\ S = seeder[w].plan
    BY <1>4
  <2>1. seeder'[w].table = t /\ seeder'[w].plan = S /\ t \in Tables /\ S \in SUBSET Ids
    BY <1>4, <2>0 DEF Bystander
  <2>2. seeder'[w].alone[t] /\ seeder[w].alone[t] /\ S # {} /\ In(w, "counted")
    BY <1>6, <2>0, <2>1 DEF Bystander, In
  <2>3. Cardinality(Present(t)) + Cardinality(S) <= Target[t]
    BY <2>0, <2>2 DEF Shortfall
  <2>4. Cardinality(Present(t)') + Cardinality(S) <= Target[t]
    BY <1>2, <2>1, <2>2, <2>3
  <2>5. QED
    BY <2>1, <2>4 DEF Present
<1>7. ASSUME NEW t \in Tables, seeder'[w].alone[t], seeder'[w].held[t] # {}
      PROVE  Cardinality(DOMAIN rows'[t]) + Cardinality(seeder'[w].held[t]) <= Target[t]
  <2>1. Cardinality(Present(t)) + Cardinality(seeder[w].held[t]) <= Target[t]
    BY <1>7 DEF Shortfall, Bystander
  <2>2. Cardinality(Present(t)') + Cardinality(seeder[w].held[t]) <= Target[t]
    BY <1>2, <1>3, <1>7, <2>1
  <2>3. QED
    BY <2>2 DEF Bystander, Present
<1>8. QED
  BY <1>5, <1>6, <1>7 DEF Shortfall, In, Present

\* A step of somebody who is no seeder.
LEMMA SeedKept ==
  ASSUME Typed, SeedInv, \A w \in Seeders : Bystander(w)
  PROVE  SeedInv' /\ SeedsStep
<1>1. SeedInv'
  BY BystanderKeeps DEF SeedInv
<1>2. SeedsStep
  BY DEF SeedsStep, Bystander, In
<1>3. QED
  BY <1>1, <1>2

CatalogInv == Typed /\ PatchInv /\ SeedInv

\* The step of a request leaves the other requests alone.
AllCleared == orders' = {} /\ payments' = {} /\ notifications' = {} /\ rows'["products"] = <<>>

LEMMA BecomesQuiet ==
  ASSUME Requests, NEW s \in Sessions, NEW r, Becomes(s, r), ses[s].stage # "ok",
         Is(s, "clear") /\ r.stage = "ok" /\ r.errors = 0 => AllCleared
  PROVE  /\ OkStays /\ ClearedStep
         /\ \A c \in Sessions : Is(c, "patch")' => SameRead(c) \/ (c = s /\ r.stage = "patch")
<1>1. ses'[s] = r /\ \A c \in Sessions : c # s => ses'[c] = ses[c]
  BY BecomesIs
<1>2. OkStays
  BY <1>1 DEF OkStays
<1>3. ASSUME NEW c \in Sessions, Is(c, "clear"), ses'[c].stage = "ok", ses'[c].errors = 0
      PROVE  AllCleared
  BY <1>1, <1>3 DEF Is
<1>4. ClearedStep
  BY <1>3 DEF ClearedStep, AllCleared
<1>5. ASSUME NEW c \in Sessions, Is(c, "patch")' PROVE SameRead(c) \/ (c = s /\ r.stage = "patch")
  BY <1>1, <1>5 DEF SameRead, Is
<1>6. QED
  BY <1>2, <1>4, <1>5

-----------------------------------------------------------------------------
(* The steps of the requests *)

Keeps == Typed' /\ PatchInv' /\ SeedInv' /\ ClearedStep /\ SeedsStep

\* A statement of a request that writes no profile.
LEMMA QuietKeeps ==
  ASSUME CatalogInv, NEW s \in Sessions, NEW r, Becomes(s, r),
         ses[s].stage # "ok", r.stage = "patch" => ReadNow(s),
         Is(s, "clear") /\ r.stage = "ok" /\ r.errors = 0 => AllCleared,
         RowsTyped', Referring', RowsFollow, late' \subseteq Entities,
         seeder' \in [Seeders -> SeederState], \A w \in Seeders : Bystander(w)
  PROVE  Keeps
<1>1. Requests' /\ ses'[s] = r
  BY BecomesIs DEF CatalogInv, Typed
<1>2. Typed'
  BY <1>1 DEF Typed
<1>3. /\ OkStays /\ ClearedStep
      /\ \A c \in Sessions : Is(c, "patch")' => SameRead(c) \/ ReadNow(c)
  <2>1. /\ OkStays /\ ClearedStep
        /\ \A c \in Sessions : Is(c, "patch")' => SameRead(c) \/ (c = s /\ r.stage = "patch")
    BY BecomesQuiet DEF CatalogInv, Typed
  <2>2. QED
    BY <2>1
<1>4. PatchInv'
  BY <1>2, <1>3, PatchKept DEF CatalogInv
<1>5. SeedInv' /\ SeedsStep
  BY SeedKept DEF CatalogInv
<1>6. QED
  BY <1>2, <1>3, <1>4, <1>5 DEF Keeps

\* Rows that stay as they are.
LEMMA SameRows ==
  ASSUME Typed, rows' = rows
  PROVE  /\ RowsTyped' /\ RowsFollow
         /\ \A t \in Tables : Present(t)' = Present(t)
<1>1. \A t \in Tables : Present(t)' = Present(t)
  BY DEF Present
<1>2. RowsTyped'
  BY DEF Typed, RowsTyped
<1>3. RowsFollow
  BY <1>1 DEF RowsFollow, Follows
<1>4. QED
  BY <1>1, <1>2, <1>3

\* Seeders that stay as they are.
LEMMA SameSeeders ==
  ASSUME Typed, seeder' = seeder, \A t \in Tables : Present(t)' \subseteq Present(t)
  PROVE  seeder' \in [Seeders -> SeederState] /\ \A w \in Seeders : Bystander(w)
BY DEF Typed, Bystander

\* A request that only reads.
LEMMA ReadKeeps ==
  ASSUME CatalogInv, NEW s \in Sessions, Is(s, "new"), Untouched,
         \E r : Becomes(s, r) /\ (r.stage = "patch" => ReadNow(s))
  PROVE  Keeps
<1>1. PICK r : Becomes(s, r) /\ (r.stage = "patch" => ReadNow(s))
  OBVIOUS
<1>2. /\ rows' = rows /\ orders' = orders /\ payments' = payments
      /\ notifications' = notifications /\ late' = late /\ seeder' = seeder
  BY DEF Untouched, dependents
<1>3. /\ RowsTyped' /\ RowsFollow
      /\ \A t \in Tables : Present(t)' = Present(t)
  BY <1>2, SameRows DEF CatalogInv
<1>4. Referring'
  BY <1>2, <1>3 DEF CatalogInv, Typed, Referring, Tables
<1>5. seeder' \in [Seeders -> SeederState] /\ \A w \in Seeders : Bystander(w)
  BY <1>2, <1>3, SameSeeders DEF CatalogInv
<1>6. late' \subseteq Entities
  BY <1>2 DEF CatalogInv, Typed
<1>7. ses[s].stage # "ok" /\ ~ Is(s, "clear")
  BY DEF Is
<1>8. QED
  BY <1>1, <1>3, <1>4, <1>5, <1>6, <1>7, QuietKeeps

LEMMA GenerateLooksKeeps ==
  ASSUME CatalogInv, NEW s \in Sessions, NEW t \in Tables, GenerateLooks(s, t)
  PROVE  Keeps
<1>1. Is(s, "new") /\ Untouched /\ Plans(s, t, Mocks \ Present(t))
  BY DEF GenerateLooks
<1>2. Mocks \ Present(t) \in SUBSET Ids
  BY MocksAssumption
<1>3. \E r : Becomes(s, r) /\ r.stage = "insert"
  BY <1>1, <1>2, PlansIs DEF CatalogInv, Typed
<1>4. QED
  BY <1>1, <1>3, ReadKeeps

LEMMA FakerLooksKeeps ==
  ASSUME CatalogInv, NEW s \in Sessions, NEW t \in Tables, NEW n \in 1 .. 2, FakerLooks(s, t, n)
  PROVE  Keeps
<1> DEFINE start == Highest(Present(t)) + 1
<1>1. Is(s, "new") /\ Untouched /\ Plans(s, t, Records(start, n)) /\ start + n - 1 <= MaxId
  BY DEF FakerLooks
<1>2. start \in Nat /\ start > 0
  <2>1. Present(t) \in SUBSET Ids
    BY PresentIs DEF CatalogInv, Typed
  <2>2. Highest(Present(t)) \in Nat
    BY <2>1, HighestIs
  <2>3. QED
    BY <2>2
<1> HIDE DEF start
<1>3. Records(start, n) \in SUBSET Ids
  BY <1>1, <1>2, RecordsIs
<1>4. \E r : Becomes(s, r) /\ r.stage = "insert"
  BY <1>1, <1>3, PlansIs DEF CatalogInv, Typed
<1>5. QED
  BY <1>1, <1>4, ReadKeeps

LEMMA CreateUserKeeps ==
  ASSUME CatalogInv, NEW s \in Sessions, NEW i \in Ids, CreateUser(s, i)
  PROVE  Keeps
<1>1. Is(s, "new") /\ Untouched /\ Plans(s, "users", {i})
  BY DEF CreateUser
<1>2. {i} \in SUBSET Ids /\ "users" \in Tables
  BY DEF Tables
<1>3. \E r : Becomes(s, r) /\ r.stage = "insert"
  BY <1>1, <1>2, PlansIs DEF CatalogInv, Typed
<1>4. QED
  BY <1>1, <1>3, ReadKeeps

LEMMA CreateProductKeeps ==
  ASSUME CatalogInv, NEW s \in Sessions, NEW i \in Ids, CreateProduct(s, i)
  PROVE  Keeps
<1>1. Is(s, "new") /\ Untouched /\ (Ends(s, "failed") \/ Plans(s, "products", {i}))
  BY DEF CreateProduct
<1>2. {i} \in SUBSET Ids /\ "products" \in Tables
  BY DEF Tables
<1>3. \E r : Becomes(s, r) /\ r.stage \in {"insert", "failed"}
  BY <1>1, <1>2, PlansIs, EndsIs DEF CatalogInv, Typed
<1>4. QED
  BY <1>1, <1>3, ReadKeeps

LEMMA PatchReadsKeeps ==
  ASSUME CatalogInv, NEW s \in Sessions, NEW t \in Tables, NEW i \in Ids,
         NEW f \in Fields \cup {"quantity"}, NEW q \in 0 .. MaxStock, PatchReads(s, t, i, f, q)
  PROVE  Keeps
<1> DEFINE r == [ses[s] EXCEPT !.stage = "patch", !.at = t, !.id = i,
                               !.field = f, !.quantity = q, !.seen = rows[t][i]]
<1>1. Is(s, "new") /\ Untouched
  BY DEF PatchReads
<1>2. ses[s] \in Session /\ Requests
  BY DEF CatalogInv, Typed, Requests
<1>3. CASE i \in Present(t)
  <2>1. ses' = [ses EXCEPT ![s] = r]
    BY <1>3 DEF PatchReads
  <2>2. rows[t][i] \in Row
    BY <1>3, PresentIs DEF CatalogInv, Typed
  <2>3. /\ r \in Session /\ r.stage = "patch" /\ r.at = t /\ r.id = i
        /\ r.field = f /\ r.seen = rows[t][i]
    BY <1>2, <2>2 DEF Session, Stages
  <2> HIDE DEF r
  <2>4. Becomes(s, r)
    BY <2>1, <2>2, <2>3 DEF Becomes, Sound
  <2>5. ReadNow(s)
    <3>1. ses'[s] = r /\ rows' = rows
      BY <1>1, <1>2, <2>4, BecomesIs DEF Untouched
    <3>2. QED
      BY <1>3, <2>3, <3>1 DEF ReadNow
  <2>6. QED
    BY <1>1, <2>4, <2>5, ReadKeeps
<1>4. CASE i \notin Present(t)
  <2>1. Ends(s, "failed")
    BY <1>4 DEF PatchReads
  <2>2. \E x : Becomes(s, x) /\ x.stage = "failed"
    BY <1>2, <2>1, EndsIs
  <2>3. QED
    BY <1>1, <2>2, ReadKeeps
<1>5. QED
  BY <1>3, <1>4

\* Requests that look for their row and go on, or are answered 404 or 400.
LEMMA LooksKeep ==
  ASSUME CatalogInv, NEW s \in Sessions, NEW t \in Tables, NEW i \in Ids,
         DeleteReads(s, t, i) \/ ReserveReads(s, i) \/ ReleaseReads(s, i)
  PROVE  Keeps
<1>1. /\ Is(s, "new") /\ Untouched
      /\ \/ Ends(s, "failed")
         \/ \E stage \in {"remove", "reserve", "release"}, x \in Tables : Found(s, stage, x, i)
  BY DEF DeleteReads, ReserveReads, ReleaseReads, Tables
<1>2. \E r : Becomes(s, r) /\ r.stage \in {"remove", "reserve", "release", "failed"}
  BY <1>1, FoundIs, EndsIs DEF CatalogInv, Typed
<1>3. QED
  BY <1>1, <1>2, ReadKeeps

LEMMA ClearAllStartsKeeps ==
  ASSUME CatalogInv, NEW s \in Sessions, ClearAllStarts(s)
  PROVE  Keeps
<1> DEFINE r == [ses[s] EXCEPT !.stage = "clear", !.left = ClearOrder]
<1>1. Is(s, "new") /\ Untouched /\ ses' = [ses EXCEPT ![s] = r]
  BY DEF ClearAllStarts
<1>2. ses[s] \in Session /\ ses[s] = Fresh
  BY <1>1 DEF CatalogInv, Typed, Requests, Sound, Is
<1>3. ClearOrder \in Lefts /\ ClearOrder \in Seq(Entities) /\ Len(ClearOrder) = 5
  BY LeftsAre DEF ClearOrder, Lefts
<1>4. r \in Session /\ r.stage = "clear" /\ r.left = ClearOrder /\ r.errors = 0
  <2>1. ses[s].errors = 0
    BY <1>2 DEF Fresh
  <2>2. QED
    BY <1>2, <1>3, <2>1 DEF Session, Stages
<1> HIDE DEF r
<1>5. Sound(r)
  <2> DEFINE n == Len(r.left)
             k == r.errors
  <2>1. n = 5 /\ k = 0
    BY <1>3, <1>4
  <2> HIDE DEF n, k
  <2>2. k + n <= 5
    BY <2>1
  <2>3. QED
    BY <1>3, <1>4, <2>2 DEF Sound, n, k
<1>6. Becomes(s, r)
  BY <1>1, <1>4, <1>5 DEF Becomes
<1>7. QED
  BY <1>1, <1>4, <1>6, ReadKeeps

\* INSERTs make the seeders that counted before no longer alone.
LEMMA InsertRowsKeeps ==
  ASSUME CatalogInv, NEW s \in Sessions, InsertRows(s)
  PROVE  Keeps
<1> DEFINE t == ses[s].at
           S == ses[s].plan
<1>1. /\ Requests /\ RowsTyped /\ Referring /\ Is(s, "insert") /\ late' = late
      /\ orders' = orders /\ payments' = payments /\ notifications' = notifications
  BY DEF InsertRows, CatalogInv, Typed, dependents
<1>2. ses[s].stage # "ok" /\ ~ Is(s, "clear")
  BY <1>1 DEF Is
<1>3. late' \subseteq Entities
  BY <1>1 DEF CatalogInv, Typed
<1>4. CASE S \cap Present(t) = {}
  <2>1. PICK tt \in Tables, SS \in SUBSET Ids : tt = t /\ SS = S
    BY <1>1 DEF Requests, Session
  <2>2. /\ rows' = [rows EXCEPT ![tt] = With(tt, SS)] /\ Ends(s, "ok")
        /\ seeder' = IF SS = {} THEN seeder ELSE Disturb(tt)
    BY <1>4, <2>1 DEF InsertRows
  <2>3. PICK r : Becomes(s, r) /\ r.stage = "ok"
    BY <1>1, <2>2, EndsIs
  <2>4. RowsTyped'
    BY <1>1, <2>2, WithIs DEF RowsTyped
  <2>5. /\ rows'[tt] = With(tt, SS) /\ \A u \in Tables \ {tt} : rows'[u] = rows[u]
    BY <1>1, <2>2 DEF RowsTyped
  <2>6. /\ Present(tt)' = Present(tt) \cup SS
        /\ \A u \in Tables \ {tt} : Present(u)' = Present(u)
    BY <1>1, <2>5, WithIs DEF Present
  <2>7. RowsFollow
    <3>0. /\ \A j \in SS : rows'[tt][j] = NewRow
          /\ \A j \in Present(tt) \ SS : rows'[tt][j] = rows[tt][j]
      <4> DEFINE new == With(tt, SS)
      <4>1. /\ \A j \in SS : new[j] = NewRow
            /\ \A j \in Present(tt) \ SS : new[j] = rows[tt][j]
        BY <1>1, WithIs
      <4>2. rows'[tt] = new
        BY <2>5
      <4> HIDE DEF new
      <4>3. QED
        BY <4>1, <4>2
    <3> SUFFICES ASSUME NEW u \in Tables, NEW i \in Present(u)'
                 PROVE  \/ rows'[u][i] = NewRow
                        \/ i \in Present(u) /\ Follows(rows'[u][i], rows[u][i])
      BY DEF RowsFollow
    <3>1. CASE u # tt
      BY <2>5, <2>6, <3>1 DEF Follows
    <3>2. CASE u = tt /\ i \in SS
      BY <3>0, <3>2
    <3>3. CASE u = tt /\ i \notin SS
      <4>1. i \in Present(tt) \ SS
        BY <2>6, <3>3
      <4>2. rows'[tt][i] = rows[tt][i]
        BY <3>0, <4>1
      <4>3. QED
        BY <3>3, <4>1, <4>2 DEF Follows
    <3>4. QED
      BY <3>1, <3>2, <3>3
  <2>8. Referring'
    <3>1. \A u \in Tables : Present(u) \subseteq Present(u)'
      BY <2>6
    <3>2. QED
      BY <1>1, <3>1 DEF Referring, Tables
  <2>9. seeder' \in [Seeders -> SeederState]
    BY <2>2 DEF CatalogInv, Typed, Disturb, SeederState
  <2>10. ASSUME NEW w \in Seeders PROVE Bystander(w)
    <3>0. seeder[w] \in SeederState
      BY DEF CatalogInv, Typed
    <3>1. CASE SS = {}
      BY <2>2, <2>6, <3>1 DEF Bystander
    <3>2. CASE SS # {}
      <4>1. seeder'[w] = [seeder[w] EXCEPT !.alone[tt] = FALSE]
        BY <2>2, <3>2 DEF Disturb
      <4>2. /\ seeder'[w].phase = seeder[w].phase /\ seeder'[w].table = seeder[w].table
            /\ seeder'[w].plan = seeder[w].plan /\ seeder'[w].held = seeder[w].held
            /\ seeder'[w].alone = [seeder[w].alone EXCEPT ![tt] = FALSE]
        BY <3>0, <4>1 DEF SeederState
      <4>3. \A u \in Tables : seeder'[w].alone[u] => u # tt /\ seeder[w].alone[u]
        BY <3>0, <4>2 DEF SeederState
      <4>4. QED
        BY <2>6, <4>2, <4>3 DEF Bystander
    <3>3. QED
      BY <3>1, <3>2
  <2>11. QED
    BY <1>2, <1>3, <2>3, <2>4, <2>7, <2>8, <2>9, <2>10, QuietKeeps
<1>5. CASE S \cap Present(t) # {}
  <2>1. Ends(s, "failed") /\ rows' = rows /\ seeder' = seeder
    BY <1>5 DEF InsertRows
  <2>2. PICK r : Becomes(s, r) /\ r.stage = "failed"
    BY <1>1, <2>1, EndsIs
  <2>3. RowsTyped' /\ RowsFollow /\ \A u \in Tables : Present(u)' = Present(u)
    BY <2>1, SameRows DEF CatalogInv
  <2>4. Referring'
    BY <1>1, <2>3 DEF Referring, Tables
  <2>5. seeder' \in [Seeders -> SeederState] /\ \A w \in Seeders : Bystander(w)
    BY <2>1, <2>3, SameSeeders DEF CatalogInv
  <2>6. QED
    BY <1>2, <1>3, <2>2, <2>3, <2>4, <2>5, QuietKeeps
<1>6. QED
  BY <1>4, <1>5

\* An answer that comes with a statement that only deletes rows, or none.
LEMMA ShrinkKeeps ==
  ASSUME CatalogInv, NEW s \in Sessions, NEW r, Becomes(s, r),
         ses[s].stage # "ok", r.stage # "patch",
         Is(s, "clear") /\ r.stage = "ok" /\ r.errors = 0 => AllCleared,
         Shrinks, late' \subseteq Entities, seeder' = seeder
  PROVE  Keeps
<1>1. /\ RowsTyped' /\ Referring' /\ RowsFollow
      /\ \A t \in Tables : Present(t)' \subseteq Present(t)
  BY ShrinksFollow DEF Shrinks
<1>2. seeder' \in [Seeders -> SeederState] /\ \A w \in Seeders : Bystander(w)
  BY <1>1, SameSeeders DEF CatalogInv
<1>3. QED
  BY <1>1, <1>2, QuietKeeps

\* Rows of users and products that stay, with dependents that may go.
LEMMA FewerDependents ==
  ASSUME Typed, rows' = rows, orders' \subseteq orders,
         payments' \subseteq orders', notifications' \subseteq orders'
  PROVE  Shrinks
<1>1. RowsTyped' /\ \A u \in Tables : Present(u)' = Present(u)
  BY SameRows
<1>2. Referring'
  BY <1>1 DEF Typed, Referring, Tables
<1>3. QED
  BY <1>1, <1>2 DEF Shrinks

\* One row changes.
Sets(t, i, q) == rows' = [rows EXCEPT ![t][i] = q]

LEMMA RowSet ==
  ASSUME RowsTyped, NEW t \in Tables, NEW i \in Present(t), NEW q \in Row,
         Sets(t, i, q)
  PROVE  /\ RowsTyped' /\ rows'[t][i] = q
         /\ \A u \in Tables : Present(u)' = Present(u)
         /\ \A u \in Tables : \A j \in Present(u) : ~ (u = t /\ j = i) => rows'[u][j] = rows[u][j]
<1> DEFINE f == [rows[t] EXCEPT ![i] = q]
<1>1. DOMAIN rows[t] = Present(t) /\ Present(t) \in SUBSET Ids
  BY PresentIs DEF Present
<1>2. rows' = [rows EXCEPT ![t] = f]
  BY DEF Sets
<1>3. /\ DOMAIN f = Present(t) /\ f[i] = q
      /\ \A j \in Present(t) \ {i} : f[j] = rows[t][j]
  BY <1>1
<1>4. f = [j \in Present(t) |-> f[j]]
  BY <1>3
<1>5. \A j \in Present(t) : f[j] \in Row
  BY <1>3, PresentIs
<1> HIDE DEF f
<1>6. f \in Tabled
  <2>1. f \in [Present(t) -> Row]
    BY <1>4, <1>5
  <2>2. QED
    BY <1>1, <1>3, <2>1, TabledIs
<1>7. RowsTyped' /\ rows'[t] = f /\ \A u \in Tables \ {t} : rows'[u] = rows[u]
  BY <1>2, <1>6 DEF RowsTyped
<1>8. \A u \in Tables : Present(u)' = Present(u)
  BY <1>3, <1>7 DEF Present
<1>9. QED
  BY <1>3, <1>7, <1>8

\* Only the stock of a product changes.
LEMMA StockIs ==
  ASSUME Typed, NEW i \in Present("products"), NEW n \in 0 .. MaxStock,
         rows' = [rows EXCEPT !["products"][i].stock = n]
  PROVE  RowsTyped' /\ RowsFollow /\ \A t \in Tables : Present(t)' = Present(t)
<1>1. RowsTyped /\ "products" \in Tables
  BY DEF Typed, Tables
<1>2. PICK row \in Row : row = rows["products"][i]
  BY <1>1, PresentIs
<1>3. PICK q : q = [row EXCEPT !.stock = n]
  OBVIOUS
<1>4. q \in Row /\ Follows(q, row) /\ Sets("products", i, q)
  BY <1>2, <1>3 DEF Row, Follows, Sets
<1>5. /\ RowsTyped' /\ rows'["products"][i] = q
      /\ \A u \in Tables : Present(u)' = Present(u)
      /\ \A u \in Tables : \A j \in Present(u) :
           ~ (u = "products" /\ j = i) => rows'[u][j] = rows[u][j]
  BY <1>1, <1>4, RowSet
<1>6. RowsFollow
  <2> SUFFICES ASSUME NEW u \in Tables, NEW j \in Present(u)'
               PROVE  j \in Present(u) /\ Follows(rows'[u][j], rows[u][j])
    BY DEF RowsFollow
  <2>1. j \in Present(u)
    BY <1>5
  <2>2. CASE u = "products" /\ j = i
    BY <1>2, <1>4, <1>5, <2>1, <2>2
  <2>3. CASE ~ (u = "products" /\ j = i)
    <3>1. rows'[u][j] = rows[u][j]
      BY <1>5, <2>1, <2>3
    <3>2. QED
      BY <2>1, <3>1 DEF Follows
  <2>4. QED
    BY <2>2, <2>3
<1>7. QED
  BY <1>5, <1>6

\* The stock, which no request but a PATCH of the quantity refers to again.
LEMMA StockKeeps ==
  ASSUME CatalogInv, NEW s \in Sessions, Reserve(s) \/ Release(s)
  PROVE  Keeps
<1>1. /\ Is(s, "reserve") \/ Is(s, "release")
      /\ Ends(s, "ok") \/ Ends(s, "failed")
      /\ late' = late /\ seeder' = seeder
      /\ orders' = orders /\ payments' = payments /\ notifications' = notifications
  BY DEF Reserve, Release, dependents
<1>2. PICK r : Becomes(s, r) /\ r.stage \in {"ok", "failed"}
  BY <1>1, EndsIs DEF CatalogInv, Typed
<1>3. PICK i : i = ses[s].id
  OBVIOUS
<1>4. \/ rows' = rows
      \/ /\ i \in Present("products")
         /\ \E n \in 0 .. MaxStock : rows' = [rows EXCEPT !["products"][i].stock = n]
  <2>1. CASE i \in Present("products")
    <3>1. rows["products"][i] \in Row
      BY <2>1, PresentIs DEF CatalogInv, Typed, Tables
    <3>2. PICK k \in 0 .. MaxStock : k = rows["products"][i].stock
      BY <3>1 DEF Row
    <3>3. CASE Reserve(s)
      <4>1. \/ rows' = rows
            \/ k > 0 /\ rows' = [rows EXCEPT !["products"][i].stock = k - 1]
        BY <1>3, <3>2, <3>3 DEF Reserve
      <4>2. k > 0 => k - 1 \in 0 .. MaxStock
        BY <3>2, BoundsAssumption
      <4>3. QED
        BY <2>1, <4>1, <4>2
    <3>4. CASE Release(s)
      <4>1. k < MaxStock /\ rows' = [rows EXCEPT !["products"][i].stock = k + 1]
        BY <1>3, <2>1, <3>2, <3>4 DEF Release
      <4>2. k + 1 \in 0 .. MaxStock
        BY <3>2, <4>1, BoundsAssumption
      <4>3. QED
        BY <2>1, <4>1, <4>2
    <3>5. QED
      BY <3>3, <3>4
  <2>2. CASE i \notin Present("products")
    BY <1>3, <2>2 DEF Reserve, Release
  <2>3. QED
    BY <2>1, <2>2
<1>5. RowsTyped' /\ RowsFollow /\ \A t \in Tables : Present(t)' = Present(t)
  BY <1>4, StockIs, SameRows DEF CatalogInv
<1>6. Referring'
  BY <1>1, <1>5 DEF CatalogInv, Typed, Referring, Tables
<1>7. seeder' \in [Seeders -> SeederState] /\ \A w \in Seeders : Bystander(w)
  BY <1>1, <1>5, SameSeeders DEF CatalogInv
<1>8. late' \subseteq Entities
  BY <1>1 DEF CatalogInv, Typed
<1>9. ses[s].stage # "ok" /\ ~ Is(s, "clear")
  BY <1>1 DEF Is
<1>10. QED
  BY <1>2, <1>5, <1>6, <1>7, <1>8, <1>9, QuietKeeps

\* DELETE of one row, or of a whole entity.
LEMMA DeleteRowKeeps ==
  ASSUME CatalogInv, NEW s \in Sessions, DeleteRow(s)
  PROVE  Keeps
<1>1. /\ Is(s, "remove") /\ Delete(ses[s].at, {ses[s].id}) /\ Ends(s, "ok")
      /\ late' = late /\ seeder' = seeder
  BY DEF DeleteRow
<1>2. Requests /\ RowsTyped /\ Referring /\ ses[s].at \in Tables
  BY DEF CatalogInv, Typed, Requests, Session
<1>3. Shrinks
  BY <1>1, <1>2, DeleteIs
<1>4. PICK r : Becomes(s, r) /\ r.stage = "ok"
  BY <1>1, <1>2, EndsIs
<1>5. ses[s].stage # "ok" /\ ~ Is(s, "clear") /\ late' \subseteq Entities
  BY <1>1 DEF Is, CatalogInv, Typed
<1>6. QED
  BY <1>1, <1>3, <1>4, <1>5, ShrinkKeeps

LEMMA ClearEntityKeeps ==
  ASSUME CatalogInv, NEW s \in Sessions, NEW e \in Entities, ClearEntity(s, e)
  PROVE  Keeps
<1>1. Is(s, "new") /\ Clear(e) /\ Ends(s, "ok") /\ late' = late /\ seeder' = seeder
  BY DEF ClearEntity
<1>2. Requests /\ RowsTyped /\ Referring
  BY DEF CatalogInv, Typed
<1>3. Shrinks
  BY <1>1, <1>2, ClearIs
<1>4. PICK r : Becomes(s, r) /\ r.stage = "ok"
  BY <1>1, <1>2, EndsIs
<1>5. ses[s].stage # "ok" /\ ~ Is(s, "clear") /\ late' \subseteq Entities
  BY <1>1 DEF Is, CatalogInv, Typed
<1>6. QED
  BY <1>1, <1>3, <1>4, <1>5, ShrinkKeeps

\* DELETE of one order, payment or notification.
LEMMA DeleteDependentKeeps ==
  ASSUME CatalogInv, NEW s \in Sessions, NEW o,
         DeleteOrder(s, o) \/ DeletePayment(s, o) \/ DeleteNotification(s, o)
  PROVE  Keeps
<1>1. /\ Is(s, "new") /\ Ends(s, "ok") /\ late' = late /\ seeder' = seeder /\ rows' = rows
  BY DEF DeleteOrder, DeletePayment, DeleteNotification
<1>2. Requests /\ Referring
  BY DEF CatalogInv, Typed
<1>3. /\ orders' \subseteq orders
      /\ payments' \subseteq orders' /\ notifications' \subseteq orders'
  <2>1. CASE DeleteOrder(s, o)
    BY <2>1 DEF DeleteOrder, Keep
  <2>2. CASE DeletePayment(s, o)
    BY <1>2, <2>2 DEF DeletePayment, Referring
  <2>3. CASE DeleteNotification(s, o)
    BY <1>2, <2>3 DEF DeleteNotification, Referring
  <2>4. QED
    BY <2>1, <2>2, <2>3
<1>4. Shrinks
  BY <1>1, <1>3, FewerDependents DEF CatalogInv
<1>5. PICK r : Becomes(s, r) /\ r.stage = "ok"
  BY <1>1, <1>2, EndsIs
<1>6. ses[s].stage # "ok" /\ ~ Is(s, "clear") /\ late' \subseteq Entities
  BY <1>1 DEF Is, CatalogInv, Typed
<1>7. QED
  BY <1>1, <1>4, <1>5, <1>6, ShrinkKeeps

\* The steps of "clear all".
LEMMA EmptyIs ==
  ASSUME NEW f \in Tabled, DOMAIN f = {}
  PROVE  f = <<>>
<1>1. f = [i \in {} |-> f[i]]
  BY TabledIs
<1>2. DOMAIN <<>> = {} /\ <<>> = [i \in {} |-> <<>>[i]]
  OBVIOUS
<1>3. QED
  BY <1>1, <1>2

LEMMA ClearStepKeeps ==
  ASSUME CatalogInv, NEW s \in Sessions, ClearStep(s)
  PROVE  Keeps
<1>1. /\ Is(s, "clear") /\ Clear(Head(ses[s].left)) /\ StepDone(s, 0)
      /\ late' = late /\ seeder' = seeder
  BY DEF ClearStep
<1>2. Requests /\ RowsTyped /\ Referring
  BY DEF CatalogInv, Typed
<1>3. PICK e \in Entities : e = Head(ses[s].left)
  BY <1>1, <1>2, StepDoneIs
<1>4. PICK r : /\ Becomes(s, r) /\ r.stage \in {"ok", "clear"}
               /\ r.stage = "ok" => e = "products"
  BY <1>1, <1>2, <1>3, StepDoneIs
<1>5. Shrinks /\ (e = "products" => orders' = {} /\ Present("products")' = {})
  BY <1>1, <1>2, <1>3, ClearIs
<1>6. ASSUME r.stage = "ok" PROVE AllCleared
  <2>1. orders' = {} /\ Present("products")' = {}
    BY <1>4, <1>5, <1>6
  <2>2. payments' = {} /\ notifications' = {}
    BY <1>5, <2>1 DEF Shrinks, Referring
  <2>3. rows'["products"] \in Tabled /\ DOMAIN rows'["products"] = {}
    BY <1>5, <2>1 DEF Shrinks, RowsTyped, Tables, Present
  <2>4. QED
    BY <2>1, <2>2, <2>3, EmptyIs DEF AllCleared
<1>7. ses[s].stage # "ok" /\ late' \subseteq Entities
  BY <1>1 DEF Is, CatalogInv, Typed
<1>8. QED
  BY <1>1, <1>4, <1>5, <1>6, <1>7, ShrinkKeeps

LEMMA ClearStepFailsKeeps ==
  ASSUME CatalogInv, NEW s \in Sessions, ClearStepFails(s)
  PROVE  Keeps
<1>1. /\ Is(s, "clear") /\ StepDone(s, 1) /\ seeder' = seeder
      /\ late' \in {late, late \cup {Head(ses[s].left)}}
      /\ rows' = rows /\ orders' = orders /\ payments' = payments /\ notifications' = notifications
  BY DEF ClearStepFails, dependents
<1>2. Requests /\ Referring
  BY DEF CatalogInv, Typed
<1>3. /\ Head(ses[s].left) \in Entities
      /\ \E r : Becomes(s, r) /\ r.stage \in {"ok", "clear"} /\ r.errors >= 1
  BY <1>1, <1>2, StepDoneIs
<1>4. PICK r : Becomes(s, r) /\ r.stage \in {"ok", "clear"} /\ r.errors # 0
  <2>1. PICK r : Becomes(s, r) /\ r.stage \in {"ok", "clear"} /\ r.errors >= 1
    BY <1>3
  <2>2. QED
    BY <2>1
<1>5. Shrinks
  BY <1>1, <1>2, FewerDependents DEF CatalogInv, Referring
<1>6. ses[s].stage # "ok" /\ late' \subseteq Entities
  BY <1>1, <1>3 DEF Is, CatalogInv, Typed
<1>7. QED
  BY <1>1, <1>4, <1>5, <1>6, ShrinkKeeps

\* The rows of an order.
LEMMA OrderInsertsKeeps ==
  ASSUME CatalogInv, NEW s \in Sessions, NEW u \in Ids, NEW p \in Ids, OrderInserts(s, u, p)
  PROVE  Keeps
<1>1. /\ Is(s, "new") /\ rows' = rows /\ payments' = payments /\ notifications' = notifications
      /\ late' = late /\ seeder' = seeder
  BY DEF OrderInserts
<1>2. Requests /\ Referring
  BY DEF CatalogInv, Typed
<1>3. RowsTyped' /\ RowsFollow /\ \A t \in Tables : Present(t)' = Present(t)
  BY <1>1, SameRows DEF CatalogInv
<1>4. seeder' \in [Seeders -> SeederState] /\ \A w \in Seeders : Bystander(w)
  BY <1>1, <1>3, SameSeeders DEF CatalogInv
<1>5. ses[s].stage # "ok" /\ ~ Is(s, "clear") /\ late' \subseteq Entities
  BY <1>1 DEF Is, CatalogInv, Typed
<1>6. Referring'
  <2>1. CASE u \in Present("users") /\ p \in Present("products")
    <3> DEFINE o == [of |-> s, user |-> u, product |-> p]
    <3>1. orders' = orders \cup {o}
      BY <2>1 DEF OrderInserts
    <3>2. o \in Order /\ o.user \in Present("users") /\ o.product \in Present("products")
      BY <2>1 DEF Order
    <3> HIDE DEF o
    <3>3. QED
      BY <1>1, <1>2, <1>3, <3>1, <3>2 DEF Referring, Tables
  <2>2. CASE ~ (u \in Present("users") /\ p \in Present("products"))
    <3>1. orders' = orders
      BY <2>2 DEF OrderInserts
    <3>2. QED
      BY <1>1, <1>2, <1>3, <3>1 DEF Referring, Tables
  <2>3. QED
    BY <2>1, <2>2
<1>7. PICK r : Becomes(s, r) /\ r.stage \in {"pay", "failed"}
  <2>1. Goes(s, "pay") \/ Ends(s, "failed")
    BY DEF OrderInserts
  <2>2. QED
    BY <1>2, <2>1, GoesIs, EndsIs
<1>8. QED
  BY <1>3, <1>4, <1>5, <1>6, <1>7, QuietKeeps

LEMMA RowsOfOrderKeep ==
  ASSUME CatalogInv, NEW s \in Sessions, PaymentInserts(s) \/ NotificationInserts(s)
  PROVE  Keeps
<1>1. /\ Is(s, "pay") \/ Is(s, "notify")
      /\ rows' = rows /\ orders' = orders /\ late' = late /\ seeder' = seeder
      /\ payments' \subseteq payments \cup OrderOf(s)
      /\ notifications' \subseteq notifications \cup OrderOf(s)
  BY DEF PaymentInserts, NotificationInserts
<1>2. Requests /\ Referring
  BY DEF CatalogInv, Typed
<1>3. payments' \subseteq orders' /\ notifications' \subseteq orders'
  BY <1>1, <1>2 DEF Referring, OrderOf
<1>4. Shrinks
  BY <1>1, <1>3, FewerDependents DEF CatalogInv
<1>5. PICK r : Becomes(s, r) /\ r.stage \in {"notify", "ok"}
  <2>1. Goes(s, "notify") \/ Ends(s, "ok")
    BY DEF PaymentInserts, NotificationInserts
  <2>2. QED
    BY <1>2, <2>1, GoesIs, EndsIs
<1>6. ses[s].stage # "ok" /\ ~ Is(s, "clear") /\ late' \subseteq Entities
  BY <1>1 DEF Is, CatalogInv, Typed
<1>7. QED
  BY <1>1, <1>4, <1>5, <1>6, ShrinkKeeps

-----------------------------------------------------------------------------
(* The steps of the others *)

\* A step of no request.
LEMMA OthersKeep ==
  ASSUME CatalogInv, ses' = ses, RowsTyped', Referring', RowsFollow, late' \subseteq Entities,
         seeder' \in [Seeders -> SeederState], SeedInv', SeedsStep
  PROVE  Keeps
<1>1. Typed'
  BY DEF CatalogInv, Typed, Requests
<1>2. OkStays /\ ClearedStep
  BY DEF OkStays, ClearedStep, Is
<1>3. \A c \in Sessions : Is(c, "patch")' => SameRead(c) \/ ReadNow(c)
  BY DEF SameRead, Is
<1>4. PatchInv'
  BY <1>1, <1>2, <1>3, PatchKept DEF CatalogInv
<1>5. QED
  BY <1>1, <1>2, <1>4 DEF Keeps

LEMMA LateClearKeeps ==
  ASSUME CatalogInv, NEW e \in Entities, LateClear(e)
  PROVE  Keeps
<1>1. Clear(e) /\ late' = late \ {e} /\ ses' = ses /\ seeder' = seeder
  BY DEF LateClear
<1>2. Shrinks
  BY <1>1, ClearIs DEF CatalogInv, Typed
<1>3. /\ RowsTyped' /\ Referring' /\ RowsFollow
      /\ \A t \in Tables : Present(t)' \subseteq Present(t)
  BY <1>2, ShrinksFollow DEF Shrinks
<1>4. seeder' \in [Seeders -> SeederState] /\ \A w \in Seeders : Bystander(w)
  BY <1>1, <1>3, SameSeeders DEF CatalogInv
<1>5. SeedInv' /\ SeedsStep
  BY <1>4, SeedKept DEF CatalogInv
<1>6. late' \subseteq Entities
  BY <1>1 DEF CatalogInv, Typed
<1>7. QED
  BY <1>1, <1>3, <1>4, <1>5, <1>6, OthersKeep

\* A seeder's step that leaves the database as it is.
LEMMA SeederKeeps ==
  ASSUME CatalogInv, NEW w \in Seeders, NEW x \in SeederState,
         Undisturbed, seeder' = [seeder EXCEPT ![w] = x],
         In(w, "inserted") => x.phase # "done",
         x.phase \in {"starting", "counted"} =>
           x.held["products"] = {} /\ (x.table = "users" => x.held["users"] = {}),
         x.phase = "counted" /\ x.alone[x.table] /\ x.plan # {} =>
           Cardinality(Present(x.table)) + Cardinality(x.plan) <= Target[x.table],
         \A t \in Tables : x.alone[t] /\ x.held[t] # {} =>
           Cardinality(Present(t)) + Cardinality(x.held[t]) <= Target[t]
  PROVE  Keeps
<1>1. /\ rows' = rows /\ orders' = orders /\ payments' = payments
      /\ notifications' = notifications /\ ses' = ses /\ late' = late
  BY DEF Undisturbed, dependents
<1>2. RowsTyped' /\ RowsFollow /\ \A t \in Tables : Present(t)' = Present(t)
  BY <1>1, SameRows DEF CatalogInv
<1>3. Referring' /\ late' \subseteq Entities
  BY <1>1, <1>2 DEF CatalogInv, Typed, Referring, Tables
<1>4. /\ seeder' \in [Seeders -> SeederState] /\ seeder'[w] = x
      /\ \A v \in Seeders : v # w => seeder'[v] = seeder[v]
  BY DEF CatalogInv, Typed
<1>5. Shortfall(w)'
  BY <1>1, <1>4 DEF Shortfall, In, Present
<1>6. ASSUME NEW v \in Seeders, v # w PROVE Shortfall(v)'
  <2>1. Bystander(v)
    BY <1>2, <1>4, <1>6 DEF Bystander
  <2>2. QED
    BY <2>1, BystanderKeeps DEF CatalogInv, SeedInv
<1>7. SeedInv'
  BY <1>5, <1>6 DEF SeedInv
<1>8. SeedsStep
  BY <1>4 DEF SeedsStep, In
<1>9. QED
  BY <1>1, <1>2, <1>3, <1>4, <1>7, <1>8, OthersKeep

LEMMA SeederCountsKeeps ==
  ASSUME CatalogInv, NEW w \in Seeders, SeederCounts(w)
  PROVE  Keeps
<1>1. PICK t \in Tables : t = seeder[w].table
  BY DEF CatalogInv, Typed, SeederState
<1> DEFINE n == Highest(Present(t)) + 1
           k == Missing(t)
           S == Records(n, k)
           x == [seeder[w] EXCEPT !.phase = "counted", !.plan = S, !.alone[t] = TRUE]
<1>2. In(w, "starting") /\ Undisturbed /\ n + k - 1 <= MaxId /\ seeder' = [seeder EXCEPT ![w] = x]
  <2>1. /\ In(w, "starting") /\ Undisturbed /\ Highest(Present(t)) + k <= MaxId
        /\ seeder' = [seeder EXCEPT ![w] = x]
    BY <1>1 DEF SeederCounts
  <2>2. Present(t) \in SUBSET Ids
    BY PresentIs DEF CatalogInv, Typed
  <2>3. Highest(Present(t)) \in Nat
    BY <2>2, HighestIs
  <2>4. k \in Nat
    BY <2>2, IdsFinite, TargetAssumption DEF Missing
  <2>5. n + k - 1 = Highest(Present(t)) + k
    <3> HIDE DEF k
    <3>1. QED
      BY <2>3, <2>4
  <2>6. QED
    BY <2>1, <2>5
<1>3. Present(t) \in SUBSET Ids /\ Cardinality(Present(t)) \in Nat /\ Target[t] \in Nat
  BY IdsFinite, PresentIs, TargetAssumption DEF CatalogInv, Typed
<1>4. n \in Nat /\ n > 0 /\ k \in Nat
  <2>1. Highest(Present(t)) \in Nat
    BY <1>3, HighestIs
  <2>2. k \in Nat
    BY <1>3 DEF Missing
  <2>3. QED
    BY <2>1, <2>2
<1>5. S \in SUBSET Ids /\ Cardinality(S) = k
  <2> HIDE DEF n, k
  <2>1. QED
    BY <1>2, <1>4, RecordsIs
<1>6. S # {} => Cardinality(Present(t)) + k <= Target[t]
  <2>1. CASE Cardinality(Present(t)) < Target[t]
    BY <1>3, <2>1 DEF Missing
  <2>2. CASE ~ (Cardinality(Present(t)) < Target[t])
    <3>1. k = 0
      BY <2>2 DEF Missing
    <3> HIDE DEF n, k
    <3>2. S = {}
      BY <1>4, <3>1 DEF Records
    <3>3. QED
      BY <3>2
  <2>3. QED
    BY <2>1, <2>2
<1>7. seeder[w] \in SeederState
  BY DEF CatalogInv, Typed
<1> HIDE DEF S, k, n
<1>8. /\ x \in SeederState /\ x.phase = "counted" /\ x.plan = S /\ x.held = seeder[w].held
      /\ x.table = t /\ \A u \in Tables : u # t => x.alone[u] = seeder[w].alone[u]
  BY <1>1, <1>5, <1>7 DEF SeederState, SeederPhases
<1> HIDE DEF x
<1>9. Shortfall(w)
  BY DEF CatalogInv, SeedInv
<1>10. x.held["products"] = {} /\ (x.table = "users" => x.held["users"] = {})
  BY <1>1, <1>2, <1>8, <1>9 DEF Shortfall, In
<1>11. x.plan # {} => Cardinality(Present(x.table)) + Cardinality(x.plan) <= Target[x.table]
  BY <1>5, <1>6, <1>8
<1>12. ASSUME NEW u \in Tables, x.alone[u], x.held[u] # {}
       PROVE  Cardinality(Present(u)) + Cardinality(x.held[u]) <= Target[u]
  <2>1. u # t
    BY <1>8, <1>10, <1>12 DEF Tables
  <2>2. QED
    BY <1>8, <1>9, <1>12, <2>1 DEF Shortfall
<1>13. In(w, "inserted") => x.phase # "done"
  BY <1>8
<1>14. QED
  BY <1>2, <1>8, <1>10, <1>11, <1>12, <1>13, SeederKeeps

LEMMA SeederInsertsKeeps ==
  ASSUME CatalogInv, NEW w \in Seeders, SeederInserts(w)
  PROVE  Keeps
<1>1. PICK t \in Tables, S \in SUBSET Ids : t = seeder[w].table /\ S = seeder[w].plan
  BY DEF CatalogInv, Typed, SeederState
<1>2. In(w, "counted") /\ Undisturbed /\ seeder[w] \in SeederState /\ Shortfall(w)
  BY DEF SeederInserts, CatalogInv, Typed, SeedInv
<1>3. CASE S \cap Present(t) # {}
  <2> DEFINE x == [Unstarted EXCEPT !.phase = "failed", !.restarts = seeder[w].restarts]
  <2>1. seeder' = [seeder EXCEPT ![w] = x]
    BY <1>1, <1>3 DEF SeederInserts
  <2>2. x \in SeederState /\ x.phase = "failed" /\ \A u \in Tables : x.held[u] = {}
    BY <1>2, UnstartedTyped DEF SeederState, SeederPhases, Unstarted
  <2> HIDE DEF x
  <2>3. QED
    BY <1>2, <2>1, <2>2, SeederKeeps
<1>4. CASE S \cap Present(t) = {}
  <2> DEFINE ph == IF t = "users" THEN "starting" ELSE "inserted"
             x == [seeder[w] EXCEPT !.held[t] = S, !.plan = {}, !.table = "products", !.phase = ph]
  <2>1. seeder' = [seeder EXCEPT ![w] = x]
    <3>1. seeder' = [seeder EXCEPT ![w].held[t] = S, ![w].plan = {}, ![w].table = "products",
                                   ![w].phase = ph]
      BY <1>1, <1>4 DEF SeederInserts
    <3>2. seeder \in [Seeders -> SeederState]
      BY DEF CatalogInv, Typed
    <3>3. DOMAIN seeder[w] = {"phase", "table", "plan", "held", "alone", "restarts"}
      BY <1>2 DEF SeederState
    <3>4. QED
      BY <3>1, <3>2, <3>3
  <2>2. /\ x \in SeederState /\ x.phase = ph /\ x.plan = {} /\ x.table = "products"
        /\ x.alone = seeder[w].alone /\ x.held = [seeder[w].held EXCEPT ![t] = S]
    BY <1>2 DEF SeederState, SeederPhases, Tables
  <2> HIDE DEF x
  <2>3. x.held[t] = S /\ \A u \in Tables : u # t => x.held[u] = seeder[w].held[u]
    BY <1>2, <2>2 DEF SeederState
  <2>4. x.phase \in {"starting", "counted"} => x.held["products"] = {}
    BY <1>2, <2>2, <2>3 DEF Shortfall, In, Tables
  <2>5. ASSUME NEW u \in Tables, x.alone[u], x.held[u] # {}
        PROVE  Cardinality(Present(u)) + Cardinality(x.held[u]) <= Target[u]
    BY <1>1, <1>2, <2>2, <2>3, <2>5 DEF Shortfall
  <2>6. QED
    BY <1>2, <2>1, <2>2, <2>4, <2>5, SeederKeeps
<1>5. QED
  BY <1>3, <1>4

\* A rollback, and a new run.
LEMMA SeederStopsKeep ==
  ASSUME CatalogInv, NEW w \in Seeders, SeederCrashes(w) \/ SeederRestarts(w)
  PROVE  Keeps
<1>1. Undisturbed /\ seeder[w] \in SeederState
  BY DEF SeederCrashes, SeederRestarts, CatalogInv, Typed
<1>2. PICK x \in SeederState : /\ seeder' = [seeder EXCEPT ![w] = x]
                               /\ x.phase \in {"failed", "starting"}
                               /\ \A u \in Tables : x.held[u] = {}
  <2>1. CASE SeederCrashes(w)
    <3> DEFINE x == [seeder[w] EXCEPT !.phase = "failed", !.held = Unstarted.held]
    <3>1. seeder' = [seeder EXCEPT ![w] = x]
      BY <2>1 DEF SeederCrashes
    <3>2. x \in SeederState /\ x.phase = "failed" /\ \A u \in Tables : x.held[u] = {}
      BY <1>1 DEF SeederState, SeederPhases, Unstarted
    <3> HIDE DEF x
    <3>3. QED
      BY <3>1, <3>2
  <2>2. CASE SeederRestarts(w)
    <3> DEFINE x == [Unstarted EXCEPT !.restarts = seeder[w].restarts + 1]
    <3>1. seeder' = [seeder EXCEPT ![w] = x]
      BY <2>2 DEF SeederRestarts, Restarted
    <3>2. seeder[w].restarts + 1 \in 0 .. MaxRestarts
      <4>1. PICK k \in 0 .. MaxRestarts : k = seeder[w].restarts
        BY <1>1 DEF SeederState
      <4>2. k < MaxRestarts
        BY <2>2, <4>1 DEF SeederRestarts
      <4>3. k + 1 \in 0 .. MaxRestarts
        BY <4>2, BoundsAssumption
      <4>4. QED
        BY <4>1, <4>3
    <3>3. x \in SeederState /\ x.phase = "starting" /\ \A u \in Tables : x.held[u] = {}
      BY <3>2, UnstartedTyped DEF SeederState, SeederPhases, Unstarted
    <3> HIDE DEF x
    <3>4. QED
      BY <3>1, <3>3
  <2>3. QED
    BY <2>1, <2>2
<1>3. x.phase # "counted" /\ x.phase # "done"
  BY <1>2
<1>4. x.held["products"] = {} /\ x.held["users"] = {}
  BY <1>2 DEF Tables
<1>5. QED
  BY <1>1, <1>2, <1>3, <1>4, SeederKeeps

\* The commit: the only step that adds the rows of a seeder to the tables.
LEMMA SeederCommitsKeeps ==
  ASSUME CatalogInv, NEW w \in Seeders, SeederCommits(w)
  PROVE  Keeps
<1>1. /\ RowsTyped /\ Referring /\ late' = late /\ ses' = ses
      /\ orders' = orders /\ payments' = payments /\ notifications' = notifications
      /\ In(w, "inserted") /\ seeder[w] \in SeederState /\ Shortfall(w)
  BY DEF SeederCommits, CatalogInv, Typed, SeedInv, dependents
<1>2. PICK held \in [Tables -> SUBSET Ids] : held = seeder[w].held
  BY <1>1 DEF SeederState
<1>3. \A t \in Tables : rows'[t] = With(t, held[t])
  BY <1>2 DEF SeederCommits
<1>4. ASSUME NEW t \in Tables
      PROVE  /\ With(t, held[t]) \in Tabled
             /\ DOMAIN rows'[t] = Present(t) \cup held[t]
             /\ \A i \in held[t] : rows'[t][i] = NewRow
             /\ \A i \in Present(t) \ held[t] : rows'[t][i] = rows[t][i]
  <2> DEFINE new == With(t, held[t])
  <2>0. held[t] \in SUBSET Ids
    BY <1>2
  <2>1. /\ new \in Tabled /\ DOMAIN new = Present(t) \cup held[t]
        /\ \A i \in held[t] : new[i] = NewRow
        /\ \A i \in Present(t) \ held[t] : new[i] = rows[t][i]
    BY <1>1, <2>0, WithIs
  <2>2. rows'[t] = new
    BY <1>3
  <2> HIDE DEF new
  <2>3. QED
    BY <2>1, <2>2 DEF new
<1>5. RowsTyped'
  BY <1>2, <1>4 DEF RowsTyped, SeederCommits
<1>6. \A t \in Tables : Present(t)' = Present(t) \cup held[t]
  BY <1>4 DEF Present
<1>7. RowsFollow
  <2> SUFFICES ASSUME NEW t \in Tables, NEW i \in Present(t)'
               PROVE  \/ rows'[t][i] = NewRow
                      \/ i \in Present(t) /\ rows'[t][i] = rows[t][i]
    BY DEF RowsFollow, Follows
  <2>1. i \in held[t] \/ i \in Present(t) \ held[t]
    BY <1>6
  <2>2. QED
    BY <1>4, <2>1
<1>8. Referring' /\ late' \subseteq Entities
  BY <1>1, <1>6 DEF CatalogInv, Typed, Referring, Tables
<1>9. seeder' = [v \in Seeders |->
                   IF v = w THEN [seeder[w] EXCEPT !.phase = "done", !.held = Unstarted.held]
                   ELSE [seeder[v] EXCEPT !.alone = [t \in Tables |->
                           seeder[v].alone[t] /\ held[t] = {}]]]
  BY <1>2 DEF SeederCommits
<1>10. /\ seeder'[w] \in SeederState /\ seeder'[w].phase = "done"
       /\ \A t \in Tables : seeder'[w].held[t] = {}
  BY <1>1, <1>9 DEF SeederState, SeederPhases, Unstarted
<1>11. ASSUME NEW v \in Seeders, v # w PROVE seeder'[v] \in SeederState /\ Bystander(v)
  <2> DEFINE alone == [t \in Tables |-> seeder[v].alone[t] /\ held[t] = {}]
  <2>1. seeder[v] \in SeederState
    BY DEF CatalogInv, Typed
  <2>2. seeder'[v] = [seeder[v] EXCEPT !.alone = alone]
    BY <1>9, <1>11
  <2>3. alone \in [Tables -> BOOLEAN] /\ \A t \in Tables : alone[t] => seeder[v].alone[t] /\ held[t] = {}
    BY Zenon
  <2> HIDE DEF alone
  <2>4. /\ seeder'[v] \in SeederState /\ seeder'[v].alone = alone
        /\ seeder'[v].phase = seeder[v].phase /\ seeder'[v].table = seeder[v].table
        /\ seeder'[v].plan = seeder[v].plan /\ seeder'[v].held = seeder[v].held
    BY <2>1, <2>2, <2>3 DEF SeederState
  <2>5. \A t \in Tables : alone[t] => seeder[v].alone[t] /\ Present(t)' \subseteq Present(t)
    BY <1>6, <2>3
  <2>6. QED
    BY <2>4, <2>5 DEF Bystander
<1>12. seeder' \in [Seeders -> SeederState]
  BY <1>9, <1>10, <1>11
<1>13. SeedInv'
  <2>1. Shortfall(w)'
    BY <1>10 DEF Shortfall, In
  <2>2. ASSUME NEW v \in Seeders, v # w PROVE Shortfall(v)'
    BY <1>11, <2>2, BystanderKeeps DEF CatalogInv, SeedInv
  <2>3. QED
    BY <2>1, <2>2 DEF SeedInv
<1>14. SeedsStep
  <2> SUFFICES ASSUME NEW v \in Seeders, NEW t \in Tables,
                      In(v, "inserted"), seeder'[v].phase = "done", seeder[v].alone[t]
               PROVE  \/ Cardinality(DOMAIN rows'[t]) <= Target[t]
                      \/ rows'[t] = rows[t]
    BY DEF SeedsStep
  <2>1. v = w
    BY <1>11 DEF Bystander, In
  <2>2. /\ Present(t) \in SUBSET Ids /\ held[t] \in SUBSET Ids
        /\ rows[t] = [i \in Present(t) |-> rows[t][i]]
    BY <1>1, <1>2, PresentIs, TabledIs DEF RowsTyped, Present
  <2>3. CASE held[t] = {}
    <3>1. rows'[t] = [i \in Present(t) |-> rows[t][i]]
      BY <1>3, <2>3 DEF With
    <3>2. QED
      BY <2>2, <3>1
  <2>4. CASE held[t] # {}
    <3>1. Cardinality(Present(t)) + Cardinality(held[t]) <= Target[t]
      BY <1>1, <1>2, <2>1, <2>4 DEF Shortfall
    <3>2. /\ IsFiniteSet(Present(t)) /\ Cardinality(Present(t)) \in Nat
          /\ IsFiniteSet(held[t]) /\ Cardinality(held[t]) \in Nat
          /\ Cardinality(Present(t) \cap held[t]) \in Nat
      <4>1. Present(t) \cap held[t] \in SUBSET Ids
        BY <2>2
      <4>2. QED
        BY <2>2, <4>1, IdsFinite
    <3>3. Cardinality(Present(t) \cup held[t]) =
            Cardinality(Present(t)) + Cardinality(held[t]) - Cardinality(Present(t) \cap held[t])
      BY <3>2, FS_Union
    <3>4. Cardinality(Present(t) \cup held[t]) <= Target[t]
      BY <3>1, <3>2, <3>3, TargetAssumption
    <3>5. QED
      BY <1>4, <3>4
  <2>5. QED
    BY <2>3, <2>4
<1>15. QED
  BY <1>1, <1>5, <1>7, <1>8, <1>12, <1>13, <1>14, OthersKeep

-----------------------------------------------------------------------------
(* The UPDATE of a PATCH *)

\* What the others learn of the UPDATE, and what the request leaves.
LEMMA WroteIs ==
  ASSUME Requests, NEW s \in Sessions, Is(s, "patch"), NEW t, NEW i, ses' = Wrote(s, t, i)
  PROVE  /\ Requests' /\ OkStays /\ ClearedStep
         /\ ses'[s].stage = "ok" /\ ses'[s].field = ses[s].field /\ ses'[s].since = ses[s].since
         /\ \A c \in Sessions : Is(c, "patch")' =>
              c # s /\ SameRead(c) /\ (ses[c].at = t /\ ses[c].id = i => s \in ses'[c].since)
<1>1. /\ ses'[s] = Answered(s, "ok") /\ ses'[s] \in Session /\ Sound(ses'[s])
      /\ ses'[s].stage = "ok" /\ ses'[s].field = ses[s].field /\ ses'[s].since = ses[s].since
  <2>1. ses'[s] = Answered(s, "ok")
    BY DEF Wrote
  <2>2. QED
    BY <2>1, AnsweredIs
<1>2. ASSUME NEW c \in Sessions, c # s, ses[c].stage = "patch", ses[c].at = t, ses[c].id = i
      PROVE  /\ ses'[c] \in Session /\ Sound(ses'[c]) /\ ses'[c].stage = "patch"
             /\ ses'[c].at = t /\ ses'[c].id = i /\ ses'[c].seen = ses[c].seen
             /\ ses'[c].since = ses[c].since \cup {s}
  <2> DEFINE r == [ses[c] EXCEPT !.since = ses[c].since \cup {s}]
  <2>1. ses[c] \in Session /\ Sound(ses[c])
    BY DEF Requests
  <2>2. ses'[c] = r
    BY <1>2 DEF Wrote
  <2>3. /\ r \in Session /\ r.stage = "patch" /\ r.at = t /\ r.id = i /\ r.seen = ses[c].seen
        /\ r.field = ses[c].field /\ r.since = ses[c].since \cup {s}
    BY <1>2, <2>1 DEF Session
  <2> HIDE DEF r
  <2>4. Sound(r)
    BY <1>2, <2>1, <2>3 DEF Sound
  <2>5. QED
    BY <2>2, <2>3, <2>4
<1>3. ASSUME NEW c \in Sessions, c # s, ~ (ses[c].stage = "patch" /\ ses[c].at = t /\ ses[c].id = i)
      PROVE  ses'[c] = ses[c]
  BY <1>3 DEF Wrote
<1>4. Requests'
  <2>1. ses' \in [Sessions -> Session]
    <3>1. \A c \in Sessions : ses'[c] \in Session
      BY <1>1, <1>2, <1>3 DEF Requests
    <3>2. ses' = [c \in Sessions |-> ses'[c]]
      BY DEF Wrote
    <3>3. QED
      BY <3>1, <3>2
  <2>2. \A c \in Sessions : Sound(ses'[c])
    BY <1>1, <1>2, <1>3 DEF Requests
  <2>3. QED
    BY <2>1, <2>2 DEF Requests, Sound
<1>5. OkStays
  BY <1>3 DEF OkStays, Is
<1>6. ClearedStep
  BY <1>3 DEF ClearedStep, Is
<1>7. ASSUME NEW c \in Sessions, Is(c, "patch")'
      PROVE  c # s /\ SameRead(c) /\ (ses[c].at = t /\ ses[c].id = i => s \in ses'[c].since)
  <2>1. c # s
    BY <1>1, <1>7 DEF Is
  <2>2. CASE ses[c].stage = "patch" /\ ses[c].at = t /\ ses[c].id = i
    BY <1>2, <2>1, <2>2 DEF SameRead, Is
  <2>3. CASE ~ (ses[c].stage = "patch" /\ ses[c].at = t /\ ses[c].id = i)
    BY <1>3, <1>7, <2>1, <2>3 DEF SameRead, Is
  <2>4. QED
    BY <2>1, <2>2, <2>3
<1>8. QED
  BY <1>1, <1>4, <1>5, <1>6, <1>7

\* The row after the UPDATE.
LEMMA PatchedIs ==
  ASSUME Requests, NEW s \in Sessions, Is(s, "patch"), NEW row \in Row
  PROVE  /\ Patched(s, row) \in Row
         /\ ses[s].field = "quantity" => Follows(Patched(s, row), row)
         /\ ses[s].field \in Fields =>
              /\ Patched(s, row).patched = row.patched \cup {s}
              /\ Patched(s, row).by[ses[s].field] = s
              /\ \A g \in Fields \ {ses[s].field} : Patched(s, row).by[g] = ses[s].seen.by[g]
<1>1. /\ ses[s] \in Session /\ ses[s].seen \in Row /\ ses[s].field \in Fields \cup {"quantity"}
  BY DEF Requests, Sound, Is
<1>2. ses[s].quantity \in 0 .. MaxStock
  BY <1>1 DEF Session
<1>3. CASE ses[s].field = "quantity"
  BY <1>2, <1>3, NamesAssumption DEF Patched, Row, Follows
<1>4. CASE ses[s].field \in Fields
  <2> DEFINE by == [ses[s].seen.by EXCEPT ![ses[s].field] = s]
             q == [row EXCEPT !.by = by, !.patched = row.patched \cup {s}]
  <2>1. Patched(s, row) = q
    BY <1>4, NamesAssumption DEF Patched, Merged
  <2>2. /\ by \in [Fields -> Sessions \cup {None}] /\ by[ses[s].field] = s
        /\ \A g \in Fields \ {ses[s].field} : by[g] = ses[s].seen.by[g]
    BY <1>1, <1>4 DEF Row
  <2> HIDE DEF by
  <2>3. q \in Row /\ q.by = by /\ q.patched = row.patched \cup {s}
    BY <2>2 DEF Row
  <2> HIDE DEF q
  <2>4. QED
    BY <1>4, <2>1, <2>2, <2>3, NamesAssumption
<1>5. QED
  BY <1>1, <1>3, <1>4

\* The row is sane again: of those whose field is lost, the ones s has not read are in its
\* since, and the others were read over before.
LEMMA WrittenSane ==
  ASSUME Requests, NEW s \in Sessions, Is(s, "patch"), ses[s].field \in Fields,
         NEW row \in Row, NEW q \in Row, Sane(row), Sane(ses[s].seen), Reader(s, row),
         OkStays, ses'[s].stage = "ok", ses'[s].field = ses[s].field, ses'[s].since = ses[s].since,
         q.patched = row.patched \cup {s}, q.by[ses[s].field] = s,
         \A g \in Fields \ {ses[s].field} : q.by[g] = ses[s].seen.by[g]
  PROVE  Sane(q)'
<1> DEFINE seen == ses[s].seen
           f == ses[s].field
<1>0. seen \in Row /\ f \in Fields
  BY DEF Requests, Sound, Is
<1>1. /\ row.patched \subseteq Sessions /\ seen.patched \subseteq Sessions
      /\ \A g \in Fields : seen.by[g] \in Sessions \cup {None}
  BY <1>0 DEF Row
<1>2. \A a \in row.patched \cup seen.patched : ses[a].stage = "ok" /\ ses[a].field \in Fields /\ ses'[a] = ses[a]
  BY <1>1 DEF Sane, OkStays
<1>3. \A a \in q.patched : ses'[a].stage = "ok" /\ ses'[a].field \in Fields
  BY <1>2
<1>4. ASSUME NEW g \in Fields, q.by[g] # None
      PROVE  ses'[q.by[g]].stage = "ok" /\ ses'[q.by[g]].field = g
  <2>1. CASE g = f
    BY <2>1
  <2>2. CASE g # f
    <3>1. q.by[g] = seen.by[g] /\ seen.by[g] \in Sessions
      BY <1>1, <1>4, <2>2
    <3>2. ses[seen.by[g]].stage = "ok" /\ ses[seen.by[g]].field = g
      BY <1>4, <3>1 DEF Sane
    <3>3. QED
      BY <3>1, <3>2 DEF OkStays
  <2>3. QED
    BY <2>1, <2>2
<1>5. ASSUME NEW a \in q.patched, q.by[ses'[a].field] = None
      PROVE  \E c \in q.patched : a \in ses'[c].since
  <2>1. s # None
    BY NamesAssumption
  <2>2. a \in row.patched /\ ses'[a] = ses[a] /\ ses[a].field \in Fields \ {f}
    BY <1>2, <1>5, <2>1
  <2>3. seen.by[ses[a].field] = None
    BY <1>5, <2>2
  <2>4. CASE a \in ses[s].since
    BY <2>4
  <2>5. CASE a \in seen.patched
    <3>1. seen.patched \subseteq row.patched
      BY <2>2, <2>5 DEF Reader
    <3>2. PICK c \in seen.patched : a \in ses[c].since
      BY <2>3, <2>5 DEF Sane
    <3>3. QED
      BY <1>2, <3>1, <3>2
  <2>6. QED
    BY <2>2, <2>4, <2>5 DEF Reader
<1>6. QED
  BY <1>3, <1>4, <1>5 DEF Sane

LEMMA WritesKeep ==
  ASSUME CatalogInv, NEW s \in Sessions, Is(s, "patch"), NEW t \in Tables, NEW i \in Present(t),
         t = ses[s].at, i = ses[s].id,
         rows' = [rows EXCEPT ![t][i] = Patched(s, @)], ses' = Wrote(s, t, i),
         UNCHANGED <<dependents, late, seeder>>
  PROVE  Keeps
<1>0. PICK row \in Row : row = rows[t][i]
  BY PresentIs DEF CatalogInv, Typed
<1>1. Requests /\ RowsTyped /\ Referring /\ PatchInv
  BY DEF CatalogInv, Typed
<1>2. /\ Requests' /\ OkStays /\ ClearedStep
      /\ ses'[s].stage = "ok" /\ ses'[s].field = ses[s].field /\ ses'[s].since = ses[s].since
      /\ \A c \in Sessions : Is(c, "patch")' =>
           c # s /\ SameRead(c) /\ (ses[c].at = t /\ ses[c].id = i => s \in ses'[c].since)
  BY <1>1, WroteIs
<1>3. PICK q \in Row :
      /\ q = Patched(s, row)
      /\ ses[s].field = "quantity" => Follows(q, row)
      /\ ses[s].field \in Fields =>
           /\ q.patched = row.patched \cup {s}
           /\ q.by[ses[s].field] = s
           /\ \A g \in Fields \ {ses[s].field} : q.by[g] = ses[s].seen.by[g]
  BY <1>1, PatchedIs
<1>4. ses[s].field \in Fields \cup {"quantity"}
  BY <1>1 DEF Requests, Sound, Is
<1>5. Sets(t, i, q)
  BY <1>0, <1>3, Zenon DEF Sets
<1>6. /\ RowsTyped' /\ rows'[t][i] = q
      /\ \A u \in Tables : Present(u)' = Present(u)
      /\ \A u \in Tables : \A j \in Present(u) : ~ (u = t /\ j = i) => rows'[u][j] = rows[u][j]
  BY <1>1, <1>5, RowSet
<1>7. /\ orders' = orders /\ payments' = payments /\ notifications' = notifications
      /\ late' = late /\ seeder' = seeder
  BY DEF dependents
<1>8. Typed'
  BY <1>1, <1>2, <1>6, <1>7 DEF CatalogInv, Typed, Referring, Tables
<1>9. SeedInv' /\ SeedsStep
  <2>1. \A w \in Seeders : Bystander(w)
    BY <1>6, <1>7, SameSeeders DEF CatalogInv
  <2>2. QED
    BY <2>1, SeedKept DEF CatalogInv
<1>10. Sane(row) /\ Sane(ses[s].seen) /\ Reader(s, row)
  BY <1>0, <1>1 DEF PatchInv
<1>11. Sane(q)'
  <2>1. CASE ses[s].field = "quantity"
    BY <1>1, <1>2, <1>3, <1>10, <2>1, SaneStays
  <2>2. CASE ses[s].field \in Fields
    BY <1>1, <1>2, <1>3, <1>10, <2>2, WrittenSane
  <2>3. QED
    BY <1>4, <2>1, <2>2
<1>12. ASSUME NEW u \in Tables, NEW j \in Present(u)' PROVE Sane(rows[u][j])'
  <2>1. CASE u = t /\ j = i
    <3>1. rows'[u][j] = q
      BY <1>6, <2>1
    <3>2. QED
      BY <1>11, <3>1, Zenon DEF Sane
  <2>2. CASE ~ (u = t /\ j = i)
    <3>1. j \in Present(u) /\ rows'[u][j] = rows[u][j]
      BY <1>6, <2>2
    <3>2. rows[u][j] \in Row /\ Sane(rows[u][j])
      BY <1>1, <3>1, PresentIs DEF PatchInv
    <3>3. QED
      BY <1>2, <3>1, <3>2, RowStays
  <2>3. QED
    BY <2>1, <2>2
<1>13. ASSUME NEW c \in Sessions, Is(c, "patch")' PROVE Sane(ses[c].seen)'
  <2>1. ses'[c].seen = ses[c].seen /\ ses'[c].seen \in Row /\ Sane(ses[c].seen)
    BY <1>1, <1>2, <1>13 DEF SameRead, PatchInv, Requests, Sound, Is
  <2>2. OkStays
    BY <1>2
  <2>3. QED
    BY <2>1, <2>2, SeenStays
<1>14. ASSUME NEW c \in Sessions, Is(c, "patch")', NEW u \in Tables, NEW j \in Present(u)',
             ses'[c].at = u, ses'[c].id = j
      PROVE  Reader(c, rows[u][j])'
  <2>1. /\ c # s /\ SameRead(c) /\ j \in Present(u) /\ Is(c, "patch") /\ ses[c].at = u /\ ses[c].id = j
    BY <1>2, <1>6, <1>14 DEF SameRead
  <2>2. Reader(c, rows[u][j]) /\ Sane(ses[c].seen)
    BY <1>1, <2>1 DEF PatchInv
  <2>3. CASE ~ (u = t /\ j = i)
    <3>1. rows'[u][j] = rows[u][j]
      BY <1>6, <2>1, <2>3
    <3>2. QED
      BY <2>1, <2>2, <3>1, ReaderStays, Zenon
  <2>4. CASE u = t /\ j = i
    <3>1. s \in ses'[c].since /\ s \notin ses[c].seen.patched
      <4>1. s \in ses'[c].since
        BY <1>2, <1>14, <2>1, <2>4
      <4>2. ses[s].stage # "ok"
        BY DEF Is
      <4>3. QED
        BY <2>2, <4>1, <4>2 DEF Sane
    <3>2. q.patched = row.patched \/ q.patched = row.patched \cup {s}
      BY <1>3, <1>4 DEF Follows
    <3>3. rows'[u][j] = q /\ rows[u][j] = row
      BY <1>0, <1>6, <2>4
    <3>4. QED
      BY <2>1, <2>2, <3>1, <3>2, <3>3, ReaderStays
  <2>5. QED
    BY <2>3, <2>4
<1>15. PatchInv'
  BY <1>12, <1>13, <1>14 DEF PatchInv
<1>16. QED
  BY <1>2, <1>8, <1>9, <1>15 DEF Keeps

LEMMA PatchWritesKeeps ==
  ASSUME CatalogInv, NEW s \in Sessions, PatchWrites(s)
  PROVE  Keeps
<1>1. /\ Is(s, "patch") /\ orders' = orders /\ payments' = payments
      /\ notifications' = notifications /\ late' = late /\ seeder' = seeder
  BY DEF PatchWrites, dependents
<1>2. PICK t \in Tables, i \in Ids : t = ses[s].at /\ i = ses[s].id
  BY DEF CatalogInv, Typed, Requests, Session
<1>3. CASE Changes(s) /\ i \in Present(t)
  <2>1. rows' = [rows EXCEPT ![t][i] = Patched(s, @)] /\ ses' = Wrote(s, t, i)
    BY <1>2, <1>3 DEF PatchWrites
  <2>2. UNCHANGED <<dependents, late, seeder>>
    BY DEF PatchWrites
  <2>3. QED
    BY <1>1, <1>2, <1>3, <2>1, <2>2, WritesKeep
<1>4. CASE ~ (Changes(s) /\ i \in Present(t))
  <2>1. rows' = rows /\ (Ends(s, "ok") \/ Ends(s, "failed"))
    <3>1. CASE ~ Changes(s)
      BY <1>2, <3>1 DEF PatchWrites
    <3>2. CASE Changes(s) /\ i \notin Present(t)
      BY <1>2, <3>2 DEF PatchWrites
    <3>3. QED
      BY <1>4, <3>1, <3>2
  <2>2. PICK r : Becomes(s, r) /\ r.stage \in {"ok", "failed"}
    BY <2>1, EndsIs DEF CatalogInv, Typed
  <2>3. Shrinks
    BY <1>1, <2>1, FewerDependents DEF CatalogInv, Typed, Referring
  <2>4. ses[s].stage # "ok" /\ ~ Is(s, "clear") /\ late' \subseteq Entities
    BY <1>1 DEF Is, CatalogInv, Typed
  <2>5. QED
    BY <1>1, <2>2, <2>3, <2>4, ShrinkKeeps
<1>5. QED
  BY <1>3, <1>4

\* On a sane profile, who has lost a field was read over.
LEMMA OverlapIs ==
  ASSUME NEW r, Sane(r), NEW a \in r.patched,
         r.by[ses[a].field] = None \/ ses[r.by[ses[a].field]].field # ses[a].field
  PROVE  \E c \in r.patched : a \in ses[c].since
<1>1. ses[a].field \in Fields
  BY DEF Sane
<1>2. r.by[ses[a].field] = None
  BY <1>1 DEF Sane
<1>3. QED
  BY <1>2 DEF Sane

-----------------------------------------------------------------------------
(* The theorems *)

LEMMA CatalogInit == Init => CatalogInv
<1> SUFFICES ASSUME Init PROVE CatalogInv
  OBVIOUS
<1>1. PICK S \in {{}, {1}} : rows = [t \in Tables |-> [i \in S |-> NewRow]]
  BY DEF Init
<1>2. /\ orders = {} /\ payments = {} /\ notifications = {} /\ late = {}
      /\ ses = [s \in Sessions |-> Fresh] /\ seeder = [w \in Seeders |-> Unstarted]
  BY DEF Init
<1>3. S \in SUBSET Ids
  BY BoundsAssumption DEF Ids
<1>4. RowsTyped
  <2>1. [i \in S |-> NewRow] \in Tabled
    BY <1>3, NewRowTyped, TabledIs
  <2>2. QED
    BY <1>1, <2>1 DEF RowsTyped
<1>5. Referring
  BY <1>2 DEF Referring
<1>6. Requests
  BY <1>2, FreshTyped DEF Requests, Sound, Fresh
<1>7. Typed
  BY <1>2, <1>4, <1>5, <1>6, UnstartedTyped DEF Typed
<1>8. PatchInv
  <2>1. ASSUME NEW t \in Tables, NEW i \in Present(t) PROVE Sane(rows[t][i])
    <3>1. rows[t][i] = NewRow
      BY <1>1 DEF Present
    <3>2. QED
      BY <3>1 DEF Sane, NewRow
  <2>2. \A s \in Sessions : ~ Is(s, "patch")
    BY <1>2 DEF Is, Fresh
  <2>3. QED
    BY <2>1, <2>2 DEF PatchInv
<1>9. SeedInv
  <2>1. \A w \in Seeders : ~ In(w, "counted") /\ \A t \in Tables : seeder[w].held[t] = {}
    BY <1>2 DEF In, Unstarted
  <2>2. QED
    BY <2>1 DEF SeedInv, Shortfall, Tables
<1>10. QED
  BY <1>7, <1>8, <1>9 DEF CatalogInv

LEMMA ReadsKeep ==
  ASSUME CatalogInv, NEW s \in Sessions, Reads(s)
  PROVE  Keeps
<1>1. ASSUME NEW t \in Tables, GenerateLooks(s, t) PROVE Keeps
  BY <1>1, GenerateLooksKeeps
<1>2. ASSUME NEW t \in Tables, NEW n \in 1 .. 2, FakerLooks(s, t, n) PROVE Keeps
  BY <1>2, FakerLooksKeeps
<1>3. ASSUME NEW t \in Tables, NEW i \in Ids,
             DeleteReads(s, t, i) \/ ReserveReads(s, i) \/ ReleaseReads(s, i)
      PROVE  Keeps
  BY <1>3, LooksKeep
<1>4. ASSUME NEW t \in Tables, NEW i \in Ids, NEW f \in Fields \cup {"quantity"},
             NEW q \in 0 .. MaxStock, PatchReads(s, t, i, f, q)
      PROVE  Keeps
  BY <1>4, PatchReadsKeeps
<1>5. ASSUME NEW i \in Ids, CreateUser(s, i) \/ CreateProduct(s, i) PROVE Keeps
  BY <1>5, CreateUserKeeps, CreateProductKeeps
<1>6. ASSUME NEW u \in Ids, NEW p \in Ids, OrderInserts(s, u, p) PROVE Keeps
  BY <1>6, OrderInsertsKeeps
<1>7. ASSUME ClearAllStarts(s) PROVE Keeps
  BY <1>7, ClearAllStartsKeeps
<1>8. ASSUME NEW e \in Entities, ClearEntity(s, e) PROVE Keeps
  BY <1>8, ClearEntityKeeps
<1>9. ASSUME NEW o \in orders, DeleteOrder(s, o) \/ DeletePayment(s, o) \/ DeleteNotification(s, o)
      PROVE  Keeps
  BY <1>9, DeleteDependentKeeps
<1>10. "users" \in Tables
  BY DEF Tables
<1>11. QED
  BY <1>1, <1>2, <1>3, <1>4, <1>5, <1>6, <1>7, <1>8, <1>9, <1>10 DEF Reads

LEMMA WritesStepKeep ==
  ASSUME CatalogInv, NEW s \in Sessions, Writes(s)
  PROVE  Keeps
BY InsertRowsKeeps, PatchWritesKeeps, StockKeeps, DeleteRowKeeps, RowsOfOrderKeep,
   ClearStepKeeps, ClearStepFailsKeeps DEF Writes

LEMMA SeedsKeep ==
  ASSUME CatalogInv, NEW w \in Seeders, Seeds(w)
  PROVE  Keeps
BY SeederCountsKeeps, SeederInsertsKeeps, SeederCommitsKeeps, SeederStopsKeep DEF Seeds

LEMMA StutterKeeps ==
  ASSUME CatalogInv, UNCHANGED vars
  PROVE  Keeps
<1>1. /\ rows' = rows /\ orders' = orders /\ payments' = payments
      /\ notifications' = notifications /\ ses' = ses /\ late' = late /\ seeder' = seeder
  BY DEF vars
<1>2. RowsTyped' /\ RowsFollow /\ \A t \in Tables : Present(t)' = Present(t)
  BY <1>1, SameRows DEF CatalogInv
<1>3. Referring' /\ late' \subseteq Entities
  BY <1>1, <1>2 DEF CatalogInv, Typed, Referring, Tables
<1>4. seeder' \in [Seeders -> SeederState] /\ \A w \in Seeders : Bystander(w)
  BY <1>1, <1>2, SameSeeders DEF CatalogInv
<1>5. SeedInv' /\ SeedsStep
  BY <1>4, SeedKept DEF CatalogInv
<1>6. QED
  BY <1>1, <1>2, <1>3, <1>4, <1>5, OthersKeep

LEMMA CatalogStep == CatalogInv /\ [Next]_vars => Keeps
<1> SUFFICES ASSUME CatalogInv, [Next]_vars PROVE Keeps
  OBVIOUS
<1>1. ASSUME NEW s \in Sessions, Reads(s) \/ Writes(s) PROVE Keeps
  BY <1>1, ReadsKeep, WritesStepKeep
<1>2. ASSUME NEW e \in Entities, LateClear(e) PROVE Keeps
  BY <1>2, LateClearKeeps
<1>3. ASSUME NEW w \in Seeders, Seeds(w) PROVE Keeps
  BY <1>3, SeedsKeep
<1>4. ASSUME UNCHANGED vars PROVE Keeps
  BY <1>4, StutterKeeps
<1>5. QED
  BY <1>1, <1>2, <1>3, <1>4 DEF Next

LEMMA CatalogAlways == Spec => []CatalogInv
<1>1. CatalogInv /\ [Next]_vars => CatalogInv'
  BY CatalogStep DEF Keeps, CatalogInv
<1>2. QED
  BY CatalogInit, <1>1, PTL DEF Spec

\* Whatever requests and seeders overlap, every row, every request and every seeder has its
\* type, and no payment or notification is left without its order.
THEOREM TypeCorrect == Spec => []TypeOK
<1>1. CatalogInv => TypeOK
  BY TypedTypeOK DEF CatalogInv
<1>2. QED
  BY CatalogAlways, <1>1, PTL

\* A field that a PATCH wrote has its value on that row until another PATCH of the field, or
\* one that had read the row before the first wrote it (PATCH /users/{id} and /inventory/{id}
\* write the whole profile they read).
THEOREM PatchesOnlyUndoneByOverlap == Spec => []PatchesUndoneOnlyByOverlap
<1>1. CatalogInv => PatchesUndoneOnlyByOverlap
  <2> SUFFICES ASSUME CatalogInv, NEW t \in Tables, NEW i \in Present(t), NEW a \in Sessions,
                      Undone(a, t, i)
               PROVE  \E c \in rows[t][i].patched : a \in ses[c].since
    BY DEF PatchesUndoneOnlyByOverlap
  <2>1. Sane(rows[t][i])
    BY DEF CatalogInv, PatchInv
  <2>2. /\ a \in rows[t][i].patched
        /\ \/ rows[t][i].by[ses[a].field] = None
           \/ ses[rows[t][i].by[ses[a].field]].field # ses[a].field
    BY DEF Undone
  <2>3. QED
    BY <2>1, <2>2, OverlapIs, Zenon
<1>2. QED
  BY CatalogAlways, <1>1, PTL

\* "Clear all" without an error has cleared, whatever orders are placed meanwhile
\* (clear_all_entities goes from the orders to the products, and the rows cascade).
THEOREM ClearedAll == Spec => ClearedAltogether
<1>1. CatalogInv /\ [Next]_vars => [ClearedStep]_vars
  BY CatalogStep DEF Keeps
<1>2. Spec => [][ClearedStep]_vars
  BY CatalogAlways, <1>1, PTL DEF Spec
<1>3. QED
  BY <1>2 DEF ClearedAltogether, ClearedStep

\* The seeder inserts no more than the rows that were missing when it counted, over crashes,
\* restarts and runs that overlap, unless somebody else inserted since.
THEOREM OnlyTheShortfallIsSeeded == Spec => SeedsOnlyTheShortfall
<1>1. CatalogInv /\ [Next]_vars => [SeedsStep]_vars
  BY CatalogStep DEF Keeps
<1>2. Spec => [][SeedsStep]_vars
  BY CatalogAlways, <1>1, PTL DEF Spec
<1>3. QED
  BY <1>2 DEF SeedsOnlyTheShortfall, SeedsStep
=============================================================================
