-------------------------------- MODULE Catalog --------------------------------
(***************************************************************************)
(* The shared database as the services' own endpoints and the seeder use   *)
(* it: user-service and inventory-service create, generate, patch and      *)
(* delete rows of users and products, the orders, payments and             *)
(* notifications that refer to them are cleared through the panel, and     *)
(* scripts/seed_database.py tops the tables up when a stack starts.        *)
(*                                                                         *)
(* Every endpoint works in READ COMMITTED and most of them read first and  *)
(* write in a later statement.  A request is therefore one or two actions: *)
(* what it reads, and what it writes together with its commit.  Only the   *)
(* seeder holds a transaction open over several statements, and inserts    *)
(* that meet its keys wait for it.  The order saga appears by the three    *)
(* rows it inserts; its own steps are OrderSaga's.                         *)
(***************************************************************************)
EXTENDS Integers, FiniteSets, Sequences

CONSTANTS
  Sessions,    \* requests; each is made once
  Seeders,     \* runs of the seeder that may overlap
  MaxId,       \* bound on the ids in use
  Mocks,       \* ids of CUSTOMERS and of PRODUCTS, the rows "generate" creates
  Fields,      \* fields of the JSONB profile
  MaxStock,    \* bound on the stock of a product
  Target,      \* SEED_USERS_COUNT and SEED_PRODUCTS_COUNT
  MaxRestarts, \* bound on the restarts of each seeder
  None

Ids == 1 .. MaxId
Tables == {"users", "products"}
Dependents == {"orders", "payments", "notifications"}
Entities == Tables \cup Dependents

ASSUME BoundsAssumption ==
  MaxId \in Nat \ {0} /\ MaxStock \in Nat /\ MaxRestarts \in Nat
ASSUME MocksAssumption == Mocks \subseteq Ids
ASSUME TargetAssumption == Target \in [Tables -> Nat]
ASSUME NamesAssumption == None \notin Sessions \cup Fields /\ "quantity" \notin Fields

VARIABLES
  rows,    \* users and products: a partial function from ids, per table
  orders, payments, notifications,
  ses,     \* the requests
  late,    \* clears the panel no longer waits for
  seeder

vars == <<rows, orders, payments, notifications, ses, late, seeder>>
dependents == <<orders, payments, notifications>>

\* The profile of a row by the request that wrote each field, its stock (of a product),
\* and history: the requests that patched it.
Row == [by : [Fields -> Sessions \cup {None}], stock : 0 .. MaxStock, patched : SUBSET Sessions]
Tabled == UNION {[S -> Row] : S \in SUBSET Ids}
\* An order row: the request that placed it, for whom and of what.
Order == [of : Sessions, user : Ids, product : Ids]

\* new, the next statement of the request, and how it was answered
Stages == {"new", "insert", "patch", "remove", "reserve", "release", "pay", "notify", "clear",
           "ok", "failed"}
\* at, id: the row concerned; plan: ids to insert; field, quantity: what a PATCH names;
\* seen: the row it read; since: history, who wrote that row after it was read; left: the
\* entities still to clear; errors: how many could not be.
Fresh == [stage |-> "new", at |-> "users", id |-> 1, plan |-> {}, field |-> None,
          quantity |-> 0, seen |-> None, since |-> {}, left |-> <<>>, errors |-> 0]

SeederPhases == {"starting", "counted", "inserted", "done", "failed"}
\* table: the one it works on; plan: the ids it found missing; held: ids it has inserted but
\* not committed; alone: history, nobody else inserted since it counted.
Unstarted == [phase |-> "starting", table |-> "users", plan |-> {},
              held |-> [t \in Tables |-> {}], alone |-> [t \in Tables |-> TRUE],
              restarts |-> 0]

TypeOK ==
  /\ rows \in [Tables -> Tabled]
  /\ orders \subseteq Order
  /\ payments \subseteq orders /\ notifications \subseteq orders
  /\ ses \in [Sessions -> [stage : Stages, at : Tables, id : Ids, plan : SUBSET Ids,
                           field : Fields \cup {"quantity", None}, quantity : 0 .. MaxStock,
                           seen : Row \cup {None}, since : SUBSET Sessions,
                           left : Seq(Entities), errors : 0 .. Cardinality(Entities)]]
  /\ late \subseteq Entities
  /\ seeder \in [Seeders -> [phase : SeederPhases, table : Tables, plan : SUBSET Ids,
                             held : [Tables -> SUBSET Ids], alone : [Tables -> BOOLEAN],
                             restarts : 0 .. MaxRestarts]]

NewRow == [by |-> [f \in Fields |-> None], stock |-> MaxStock, patched |-> {}]
Present(t) == DOMAIN rows[t]
\* iter_user_records, iter_product_records: the ids of the records they yield.
Records(start, count) == start .. start + count - 1
Highest(S) == CHOOSE n \in S \cup {0} : \A m \in S : m <= n

\* init.sql leaves some users and products.
Init ==
  /\ \E S \in {{}, {1}} : rows = [t \in Tables |-> [i \in S |-> NewRow]]
  /\ orders = {} /\ payments = {} /\ notifications = {}
  /\ ses = [s \in Sessions |-> Fresh]
  /\ late = {}
  /\ seeder = [w \in Seeders |-> Unstarted]

-----------------------------------------------------------------------------
(* What statements do *)

With(t, S) == [i \in Present(t) \cup S |-> IF i \in S THEN NewRow ELSE rows[t][i]]

\* ON DELETE CASCADE, from users and products to orders and from those to their rows.
Keep(O) ==
  /\ orders' = O
  /\ payments' = payments \cap O
  /\ notifications' = notifications \cap O

References(o, t) == IF t = "users" THEN o.user ELSE o.product

\* Mutant: orders go with their user but not with their product.
Delete_UsersCascade(t, S) ==
  /\ rows' = [rows EXCEPT ![t] = [i \in Present(t) \ S |-> rows[t][i]]]
  /\ Keep({o \in orders : t = "users" => o.user \notin S})

Delete(t, S) ==
  /\ rows' = [rows EXCEPT ![t] = [i \in Present(t) \ S |-> rows[t][i]]]
  /\ Keep({o \in orders : References(o, t) \notin S})

\* DELETE of all rows of an entity, in the service that owns it.
ClearTable(t) == Delete(t, Present(t))
ClearOrders == Keep({}) /\ UNCHANGED rows
ClearPayments == payments' = {} /\ UNCHANGED <<rows, orders, notifications>>
ClearNotifications == notifications' = {} /\ UNCHANGED <<rows, orders, payments>>

Clear(e) ==
  \/ e \in Tables /\ ClearTable(e)
  \/ e = "orders" /\ ClearOrders
  \/ e = "payments" /\ ClearPayments
  \/ e = "notifications" /\ ClearNotifications

\* Keys another transaction has inserted and not committed make an insert wait.
Held(t) == UNION {seeder[w].held[t] : w \in Seeders}

\* History: a request inserted rows into the table.
Disturb(t) == [w \in Seeders |-> [seeder[w] EXCEPT !.alone[t] = FALSE]]

-----------------------------------------------------------------------------
(* Requests that insert *)

Is(s, stage) == ses[s].stage = stage
Goes(s, stage) == ses' = [ses EXCEPT ![s].stage = stage]
\* An answered request leaves nothing but history: what it patched, and who wrote meanwhile.
Answered(s, how) == [Fresh EXCEPT !.stage = how, !.field = ses[s].field, !.since = ses[s].since]
Ends(s, how) == ses' = [ses EXCEPT ![s] = Answered(s, how)]
Plans(s, t, S) == ses' = [ses EXCEPT ![s].stage = "insert", ![s].at = t, ![s].plan = S]
\* The row concerned exists.
Found(s, stage, t, i) == ses' = [ses EXCEPT ![s].stage = stage, ![s].at = t, ![s].id = i]
Untouched == UNCHANGED <<rows, dependents, late, seeder>>

\* POST .../generate looks for each of the mock rows and adds the ones it misses.
GenerateLooks(s, t) ==
  /\ Is(s, "new")
  /\ Plans(s, t, Mocks \ Present(t))
  /\ Untouched

\* POST .../faker: n rows after the highest id.
FakerLooks(s, t, n) ==
  /\ Is(s, "new")
  /\ LET start == Highest(Present(t)) + 1
     IN  /\ start + n - 1 <= MaxId
         /\ Plans(s, t, Records(start, n))
  /\ Untouched

\* POST /users inserts without looking.
CreateUser(s, i) ==
  /\ Is(s, "new")
  /\ Plans(s, "users", {i})
  /\ Untouched

\* POST /inventory answers 409 if it finds the id.
CreateProduct(s, i) ==
  /\ Is(s, "new")
  /\ IF i \in Present("products") THEN Ends(s, "failed") ELSE Plans(s, "products", {i})
  /\ Untouched

\* The rows are inserted and committed together, or a key is taken and none is.
InsertRows(s) ==
  /\ Is(s, "insert")
  /\ LET t == ses[s].at
         S == ses[s].plan
     IN  /\ S \cap Held(t) = {}
         /\ IF S \cap Present(t) = {}
            THEN /\ rows' = [rows EXCEPT ![t] = With(t, S)]
                 /\ seeder' = IF S = {} THEN seeder ELSE Disturb(t)
                 /\ Ends(s, "ok")
            ELSE /\ Ends(s, "failed")
                 /\ UNCHANGED <<rows, seeder>>
  /\ UNCHANGED <<dependents, late>>

-----------------------------------------------------------------------------
(* Requests that change a row *)

\* PATCH /users/{id} and /inventory/{id}: 404, or the whole row is read.
PatchReads(s, t, i, f, q) ==
  /\ Is(s, "new")
  /\ IF f = "quantity" THEN t = "products" ELSE q = 0
  /\ IF i \in Present(t)
     THEN ses' = [ses EXCEPT ![s].stage = "patch", ![s].at = t, ![s].id = i,
                             ![s].field = f, ![s].quantity = q, ![s].seen = rows[t][i]]
     ELSE Ends(s, "failed")
  /\ Untouched

\* Mutant: the profile is replaced by what the request names.
Merged_Replaces(s) == [f \in Fields |-> IF f = ses[s].field THEN s ELSE None]

\* The profile as read, with the named field over it.
Merged(s) == [ses[s].seen.by EXCEPT ![ses[s].field] = s]

\* A quantity equal to the one read is no change, and nothing is written.
Changes(s) == ses[s].field # "quantity" \/ ses[s].quantity # ses[s].seen.stock

Patched(s, row) ==
  IF ses[s].field = "quantity" THEN [row EXCEPT !.stock = ses[s].quantity]
                               ELSE [row EXCEPT !.by = Merged(s), !.patched = @ \cup {s}]

\* History: every other request that has read the row learns that s wrote it.
Wrote(s, t, i) ==
  [c \in Sessions |->
     IF c = s THEN Answered(s, "ok")
     ELSE IF ses[c].stage = "patch" /\ ses[c].at = t /\ ses[c].id = i
     THEN [ses[c] EXCEPT !.since = @ \cup {s}]
     ELSE ses[c]]

\* The UPDATE; if the row is gone by then the session raises.
PatchWrites(s) ==
  /\ Is(s, "patch")
  /\ LET t == ses[s].at
         i == ses[s].id
     IN  CASE ~Changes(s) -> Ends(s, "ok") /\ UNCHANGED rows
           [] Changes(s) /\ i \notin Present(t) -> Ends(s, "failed") /\ UNCHANGED rows
           [] Changes(s) /\ i \in Present(t) ->
                /\ rows' = [rows EXCEPT ![t][i] = Patched(s, @)]
                /\ ses' = Wrote(s, t, i)
  /\ UNCHANGED <<dependents, late, seeder>>

\* POST /inventory/{id}/reserve: 404 or 400 on what it reads.
ReserveReads(s, i) ==
  /\ Is(s, "new")
  /\ IF i \in Present("products") /\ rows["products"][i].stock > 0
     THEN Found(s, "reserve", "products", i) ELSE Ends(s, "failed")
  /\ Untouched

\* Mutant: the UPDATE trusts what was read before.
Reserve_Unguarded(s) ==
  /\ Is(s, "reserve")
  /\ rows' = [rows EXCEPT !["products"][ses[s].id].stock = @ - 1]
  /\ Ends(s, "ok")
  /\ UNCHANGED <<dependents, late, seeder>>

\* The guarded UPDATE.
Reserve(s) ==
  /\ Is(s, "reserve")
  /\ LET i == ses[s].id
     IN  IF i \in Present("products") /\ rows["products"][i].stock > 0
         THEN rows' = [rows EXCEPT !["products"][i].stock = @ - 1] /\ Ends(s, "ok")
         ELSE UNCHANGED rows /\ Ends(s, "failed")
  /\ UNCHANGED <<dependents, late, seeder>>

ReleaseReads(s, i) ==
  /\ Is(s, "new")
  /\ IF i \in Present("products")
     THEN Found(s, "release", "products", i) ELSE Ends(s, "failed")
  /\ Untouched

\* An UPDATE of a product that is gone by now is answered like any other.
Release(s) ==
  /\ Is(s, "release")
  /\ LET i == ses[s].id
     IN  IF i \in Present("products")
         THEN /\ rows["products"][i].stock < MaxStock
              /\ rows' = [rows EXCEPT !["products"][i].stock = @ + 1]
         ELSE UNCHANGED rows
  /\ Ends(s, "ok")
  /\ UNCHANGED <<dependents, late, seeder>>

-----------------------------------------------------------------------------
(* Requests that delete *)

\* DELETE /users/{id} and /inventory/{id}.
DeleteReads(s, t, i) ==
  /\ Is(s, "new")
  /\ IF i \in Present(t) THEN Found(s, "remove", t, i) ELSE Ends(s, "failed")
  /\ Untouched

DeleteRow(s) ==
  /\ Is(s, "remove")
  /\ Delete(ses[s].at, {ses[s].id})
  /\ Ends(s, "ok")
  /\ UNCHANGED <<late, seeder>>

\* DELETE of one order, payment or notification: each is looked for first, and a row that
\* goes between the two statements makes no difference to the others.
DeleteOrder(s, o) ==
  /\ Is(s, "new")
  /\ Keep(orders \ {o})
  /\ Ends(s, "ok")
  /\ UNCHANGED <<rows, late, seeder>>

DeletePayment(s, o) ==
  /\ Is(s, "new")
  /\ payments' = payments \ {o}
  /\ Ends(s, "ok")
  /\ UNCHANGED <<rows, orders, notifications, late, seeder>>

DeleteNotification(s, o) ==
  /\ Is(s, "new")
  /\ notifications' = notifications \ {o}
  /\ Ends(s, "ok")
  /\ UNCHANGED <<rows, orders, payments, late, seeder>>

\* DELETE of a whole entity.
ClearEntity(s, e) ==
  /\ Is(s, "new")
  /\ Clear(e)
  /\ Ends(s, "ok")
  /\ UNCHANGED <<late, seeder>>

\* clear_all_entities of the panel: one service after the other.
ClearOrder == <<"orders", "payments", "notifications", "users", "products">>

ClearAllStarts(s) ==
  /\ Is(s, "new")
  /\ ses' = [ses EXCEPT ![s].stage = "clear", ![s].left = ClearOrder]
  /\ Untouched

StepDone(s, failures) ==
  ses' = [ses EXCEPT ![s].stage = IF Len(ses[s].left) = 1 THEN "ok" ELSE "clear",
                     ![s].left = Tail(@), ![s].errors = @ + failures]

ClearStep(s) ==
  /\ Is(s, "clear")
  /\ Clear(Head(ses[s].left))
  /\ StepDone(s, 0)
  /\ UNCHANGED <<late, seeder>>

\* The service cannot be reached, or it takes longer than the panel waits and its DELETE
\* still happens; the panel notes an error and goes on.
ClearStepFails(s) ==
  /\ Is(s, "clear")
  /\ StepDone(s, 1)
  /\ late' \in {late, late \cup {Head(ses[s].left)}}
  /\ UNCHANGED <<rows, dependents, seeder>>

LateClear(e) ==
  /\ e \in late
  /\ Clear(e)
  /\ late' = late \ {e}
  /\ UNCHANGED <<ses, seeder>>

-----------------------------------------------------------------------------
(* The rows of an order, as the saga and the two services behind it insert them *)

OrderOf(s) == {o \in orders : o.of = s}

\* The saga has seen both rows before; the foreign keys see to it that they still exist.
OrderInserts(s, u, p) ==
  /\ Is(s, "new")
  /\ IF u \in Present("users") /\ p \in Present("products")
     THEN orders' = orders \cup {[of |-> s, user |-> u, product |-> p]} /\ Goes(s, "pay")
     ELSE UNCHANGED orders /\ Ends(s, "failed")
  /\ UNCHANGED <<rows, payments, notifications, late, seeder>>

\* Without its order neither row can be inserted.
PaymentInserts(s) ==
  /\ Is(s, "pay")
  /\ payments' = payments \cup OrderOf(s)
  /\ Goes(s, "notify")
  /\ UNCHANGED <<rows, orders, notifications, late, seeder>>

NotificationInserts(s) ==
  /\ Is(s, "notify")
  /\ notifications' = notifications \cup OrderOf(s)
  /\ Ends(s, "ok")
  /\ UNCHANGED <<rows, orders, payments, late, seeder>>

-----------------------------------------------------------------------------
(* The seeder: one transaction over both tables *)

In(w, phase) == seeder[w].phase = phase
Undisturbed == UNCHANGED <<rows, dependents, ses, late>>

Missing(t) == IF Cardinality(Present(t)) < Target[t]
              THEN Target[t] - Cardinality(Present(t)) ELSE 0

\* COUNT(*) and MAX(id) in one statement; the rows it lacks get the ids that follow.
SeederCounts(w) ==
  /\ In(w, "starting")
  /\ LET t == seeder[w].table
         highest == Highest(Present(t))
     IN  /\ highest + Missing(t) <= MaxId
         /\ seeder' = [seeder EXCEPT ![w].phase = "counted",
                                     ![w].plan = Records(highest + 1, Missing(t)),
                                     ![w].alone[t] = TRUE]
  /\ Undisturbed

\* Mutant: the plan of the attempt before is kept over a restart.
Restarted_KeepsPlan(w) ==
  [Unstarted EXCEPT !.restarts = seeder[w].restarts + 1, !.plan = seeder[w].plan,
                    !.phase = IF seeder[w].plan = {} THEN "starting" ELSE "counted"]

Restarted(w) == [Unstarted EXCEPT !.restarts = seeder[w].restarts + 1]

SeederInserts(w) ==
  /\ In(w, "counted")
  /\ LET t == seeder[w].table
         S == seeder[w].plan
     IN  /\ S \cap UNION {seeder[v].held[t] : v \in Seeders \ {w}} = {}
         /\ IF S \cap Present(t) # {}
            THEN seeder' = [seeder EXCEPT ![w] = [Unstarted EXCEPT !.phase = "failed",
                                                                   !.restarts = seeder[w].restarts]]
            ELSE seeder' = [seeder EXCEPT ![w].held[t] = S, ![w].plan = {},
                                          ![w].table = "products",
                                          ![w].phase = IF t = "users" THEN "starting" ELSE "inserted"]
  /\ Undisturbed

SeederCommits(w) ==
  /\ In(w, "inserted")
  /\ rows' = [t \in Tables |-> With(t, seeder[w].held[t])]
  /\ seeder' = [v \in Seeders |->
                  IF v = w THEN [seeder[w] EXCEPT !.phase = "done", !.held = Unstarted.held]
                  ELSE [seeder[v] EXCEPT !.alone = [t \in Tables |->
                          @[t] /\ seeder[w].held[t] = {}]]]
  /\ UNCHANGED <<dependents, ses, late>>

\* The process or its connection ends: the transaction is rolled back.
SeederCrashes(w) ==
  /\ ~In(w, "done") /\ ~In(w, "failed")
  /\ seeder' = [seeder EXCEPT ![w].phase = "failed", ![w].held = Unstarted.held]
  /\ Undisturbed

\* The Job restarts a failed container, and a finished one is run again by hand.
SeederRestarts(w) ==
  /\ In(w, "failed") \/ In(w, "done")
  /\ seeder[w].restarts < MaxRestarts
  /\ seeder' = [seeder EXCEPT ![w] = Restarted(w)]
  /\ Undisturbed

-----------------------------------------------------------------------------
Reads(s) ==
  \/ \E t \in Tables :
       \/ GenerateLooks(s, t)
       \/ \E n \in 1 .. 2 : FakerLooks(s, t, n)
       \/ \E i \in Ids : DeleteReads(s, t, i)
       \/ \E i \in Ids, f \in Fields \cup {"quantity"}, q \in 0 .. MaxStock :
            PatchReads(s, t, i, f, q)
  \/ \E i \in Ids : CreateUser(s, i) \/ CreateProduct(s, i) \/ ReserveReads(s, i) \/ ReleaseReads(s, i)
  \/ \E u, p \in Ids : OrderInserts(s, u, p)
  \/ ClearAllStarts(s)
  \/ \E e \in Entities : ClearEntity(s, e)
  \/ \E o \in orders : DeleteOrder(s, o) \/ DeletePayment(s, o) \/ DeleteNotification(s, o)

Writes(s) ==
  \/ InsertRows(s) \/ PatchWrites(s) \/ Reserve(s) \/ Release(s) \/ DeleteRow(s)
  \/ PaymentInserts(s) \/ NotificationInserts(s)
  \/ ClearStep(s) \/ ClearStepFails(s)

Seeds(w) ==
  \/ SeederCounts(w) \/ SeederInserts(w) \/ SeederCommits(w)
  \/ SeederCrashes(w) \/ SeederRestarts(w)

Next ==
  \/ \E s \in Sessions : Reads(s) \/ Writes(s)
  \/ \E e \in Entities : LateClear(e)
  \/ \E w \in Seeders : Seeds(w)

Spec == Init /\ [][Next]_vars

-----------------------------------------------------------------------------
(* Properties *)

\* "Clear all" without an error leaves no order, payment or notification, though orders
\* are cleared first and the saga inserts rows all the while: what was placed after the
\* first step goes with the users and products it refers to.
ClearedAltogether ==
  [][\A s \in Sessions :
       Is(s, "clear") /\ ses'[s].stage = "ok" /\ ses'[s].errors = 0
       => orders' = {} /\ payments' = {} /\ notifications' = {} /\ rows'["products"] = <<>>]_vars

\* However often the seeder is stopped and run again, it takes a table beyond its target
\* only if somebody else inserted into it after the seeder had counted.
SeedsOnlyTheShortfall ==
  [][\A w \in Seeders, t \in Tables :
       In(w, "inserted") /\ seeder'[w].phase = "done" /\ seeder[w].alone[t]
       => \/ Cardinality(DOMAIN rows'[t]) <= Target[t]
          \/ rows'[t] = rows[t]]_vars

\* A PATCH whose field no longer has its value, on the row it patched, was undone by one
\* that named the same field, or by one that had read the row before it was written.
Undone(a, t, i) ==
  /\ a \in rows[t][i].patched
  /\ LET b == rows[t][i].by[ses[a].field]
     IN  b # a /\ (b = None \/ ses[b].field # ses[a].field)

PatchesUndoneOnlyByOverlap ==
  \A t \in Tables : \A i \in Present(t) : \A a \in Sessions :
    Undone(a, t, i) => \E c \in rows[t][i].patched : a \in ses[c].since
=============================================================================
