----------------------------- MODULE Reconciler -----------------------------
(***************************************************************************)
(* apisix/reconciler.py: passes that bring the gateway's routes in line    *)
(* with the desired rows of the database.  A background loop and admin     *)
(* requests run passes side by side; operators edit rows and routes in the *)
(* meantime; any call to the gateway can fail or time out, and a write     *)
(* that timed out may still be applied later.  A step of a pass is one     *)
(* database statement or one gateway call.                                 *)
(***************************************************************************)
EXTENDS Naturals, FiniteSets, FiniteSetsExt

CONSTANTS
  Id,            \* route ids, numbered in their order
  Default,       \* DEFAULT_RUNTIME_ROUTE_ID
  Config,        \* what a row says of a route, and a route does
  DefaultConfig, \* default_runtime_route
  Pass,          \* at most one pass at a time each: replicas' loops, requests
  Loop,          \* the passes of background loops
  Absent, None,
  MaxEdits,      \* bound: edits by operators
  MaxFaults      \* bound: failed calls and stops

ASSUME ReconcilerAssumption ==
  /\ Id \subseteq Nat /\ IsFiniteSet(Id) /\ Default \in Id
  /\ DefaultConfig \in Config /\ Absent \notin Config
  /\ Absent \notin [config : Config, label : {"grantora", "none"}]
  /\ None \notin [result : {"ok", "error"}, changed : Nat]
  /\ Loop \subseteq Pass

VARIABLES
  rows,        \* ApisixRoute: the desired configuration of each id
  gateway,     \* APISIX: the route at each id, with its label
  status,      \* the ApisixSyncStatus row
  fail_closed, \* settings.apisix_fail_closed
  pass,        \* the local state of each pass
  late,        \* timed-out writes the gateway may still apply
  edits, faults,
  \* History: per pass, the ids that were right at some moment since its
  \* SELECT, and the ids others changed since.
  right, disturbed

vars == <<rows, gateway, status, fail_closed, pass, late, edits, faults,
          right, disturbed>>

-----------------------------------------------------------------------------
(* Routes                                                                  *)

Rows == [Id -> Config \cup {Absent}]

\* Only a "grantora" route carries the managed label.
Route == [config : Config, label : {"grantora", "none"}]

Wanted(table) == {i \in Id : table[i] # Absent}

\* Wrong on purpose, like every ...Mistake: the properties tell each from the
\* operator after it.
ConfigOnlyMistake(route, config) == route # Absent /\ route.config = config

\* route_matches_desired: labels are part of what is compared.
Matches(route, config) ==
  route # Absent /\ route = [config |-> config, label |-> "grantora"]

Managed(route) == route # Absent /\ route.label = "grantora"

\* What a pass is to establish for an id, whichever rows it goes by.
Right(table, routes, i) ==
  IF table[i] = Absent THEN ~Managed(routes[i])
  ELSE routes[i] = [config |-> table[i], label |-> "grantora"]

-----------------------------------------------------------------------------
(* Passes                                                                  *)

Idle ==
  [step |-> "idle", routes |-> [i \in Id |-> Absent], todo |-> {}, wrong |-> {},
   listed |-> FALSE, stale |-> {}, changed |-> 0, result |-> "ok", was |-> None]

Calling == {"get", "list", "put", "delete"}

Recording(q, result) ==
  [Idle EXCEPT !.step = "record", !.changed = q.changed, !.result = result]

WriteAsReadMistake(q) ==
  CASE q.wrong # {} -> [q EXCEPT !.step = "put"]
    [] q.wrong = {} /\ q.todo # {} -> [q EXCEPT !.step = "get"]
    [] q.wrong = {} /\ q.todo = {} /\ ~q.listed -> [q EXCEPT !.step = "list"]
    [] q.wrong = {} /\ q.listed /\ q.stale # {} -> [q EXCEPT !.step = "delete"]
    [] OTHER -> Recording(q, "ok")

\* What a pass does next.  With fail_closed everything is read before the
\* first write, otherwise each route just before its own and the list last.
Proceed(q) ==
  CASE q.wrong # {} /\ (fail_closed => q.listed) -> [q EXCEPT !.step = "put"]
    [] q.todo # {} /\ (fail_closed \/ q.wrong = {}) -> [q EXCEPT !.step = "get"]
    [] q.todo = {} /\ ~q.listed /\ (fail_closed \/ q.wrong = {}) -> [q EXCEPT !.step = "list"]
    [] q.listed /\ q.wrong = {} /\ q.stale # {} -> [q EXCEPT !.step = "delete"]
    [] q.listed /\ q.wrong = {} /\ q.stale = {} -> Recording(q, "ok")

AnyLabelMistake(q) == {i \in Id \ Wanted(q.routes) : gateway[i] # Absent}

AllManagedMistake(q) == {i \in Id : Managed(gateway[i])}

\* Of the routes listed now, the ones to delete.
Stale(q) == {i \in Id \ Wanted(q.routes) : Managed(gateway[i])}

\* The id the current loop is at.
At(q) == Min(CASE q.step = "get" -> q.todo [] q.step = "put" -> q.wrong [] q.step = "delete" -> q.stale)

Set(p, q) == pass' = [pass EXCEPT ![p] = q]

\* ensure_default_runtime_route looks for its row.
Begin(p) ==
  /\ pass[p].step = "idle"
  /\ Set(p, [Idle EXCEPT !.step = IF rows[Default] = Absent THEN "insert" ELSE "select"])
  /\ UNCHANGED <<rows, gateway, status, late, faults>>

\* ... and inserts it; when another pass was faster the request or the
\* iteration of the loop ends with an IntegrityError.
InsertDefault(p) ==
  /\ pass[p].step = "insert"
  /\ \/ /\ rows[Default] = Absent
        /\ rows' = [rows EXCEPT ![Default] = DefaultConfig]
        /\ Set(p, [pass[p] EXCEPT !.step = "select"])
     \/ /\ rows[Default] # Absent
        /\ Set(p, Idle)
        /\ UNCHANGED rows
  /\ UNCHANGED <<gateway, status, late, faults>>

Select(p) ==
  /\ pass[p].step = "select"
  /\ Set(p, Proceed([pass[p] EXCEPT !.routes = rows, !.todo = Wanted(rows)]))
  /\ UNCHANGED <<rows, gateway, status, late, faults>>

GetRoute(p) ==
  LET q == pass[p]
      i == At(q)
  IN  /\ q.step = "get"
      /\ Set(p, Proceed([q EXCEPT
                  !.todo = @ \ {i},
                  !.wrong = IF Matches(gateway[i], q.routes[i]) THEN @ ELSE @ \cup {i}]))
      /\ UNCHANGED <<rows, gateway, status, late, faults>>

ListRoutes(p) ==
  /\ pass[p].step = "list"
  /\ Set(p, Proceed([pass[p] EXCEPT !.listed = TRUE, !.stale = Stale(pass[p])]))
  /\ UNCHANGED <<rows, gateway, status, late, faults>>

\* The write the pass is about to make, and the state of the gateway after it.
Pending(q) ==
  LET i == At(q)
  IN  [id |-> i,
       route |-> IF q.step = "put" THEN [config |-> q.routes[i], label |-> "grantora"] ELSE Absent]

Apply(w) == gateway' = [gateway EXCEPT ![w.id] = w.route]

\* A DELETE that finds nothing is not counted as a change.
Write(p) ==
  LET q == pass[p]
      i == At(q)
      n == IF q.step = "delete" /\ gateway[i] = Absent THEN 0 ELSE 1
  IN  /\ q.step \in {"put", "delete"}
      /\ Apply(Pending(q))
      /\ Set(p, Proceed([q EXCEPT !.wrong = @ \ {i}, !.stale = @ \ {i}, !.changed = @ + n]))
      /\ UNCHANGED <<rows, status, late, faults>>

CarriesOnMistake(p) ==
  LET q == pass[p]
  IN  IF q.step \in {"put", "delete"}
      THEN Proceed([q EXCEPT !.wrong = @ \ {At(q)}, !.stale = @ \ {At(q)}])
      ELSE Recording(q, "error")

\* The handlers of ApisixAdminAPIError and Exception end the pass.
Failed(p) == Recording(pass[p], "error")

\* A call fails.  A write that timed out was applied, was not, or will be.
Fail(p) ==
  LET q == pass[p]
  IN  /\ q.step \in Calling
      /\ faults < MaxFaults
      /\ faults' = faults + 1
      /\ Set(p, Failed(p))
      /\ \/ UNCHANGED <<gateway, late>>
         \/ q.step \in {"put", "delete"} /\ Apply(Pending(q)) /\ UNCHANGED late
         \/ q.step \in {"put", "delete"} /\ late' = late \cup {Pending(q)} /\ UNCHANGED gateway
      /\ UNCHANGED <<rows, status>>

\* record_apisix_sync_status reads the row it is to change.
Record(p) ==
  /\ pass[p].step = "record"
  /\ Set(p, [pass[p] EXCEPT !.step = "commit", !.was = status])
  /\ UNCHANGED <<rows, gateway, status, late, faults>>

\* The UPDATE has the columns that differ from what was read.
Updated(q) ==
  [col \in DOMAIN status |-> IF q[col] = q.was[col] THEN status[col] ELSE q[col]]

\* A second INSERT of the row fails, and with it the request or iteration.
Commit(p) ==
  LET q == pass[p]
  IN  /\ q.step = "commit"
      /\ \/ q.was # None /\ status' = Updated(q)
         \/ q.was = None /\ status = None /\ status' = [result |-> q.result, changed |-> q.changed]
         \/ q.was = None /\ status # None /\ UNCHANGED status
      /\ Set(p, Idle)
      /\ UNCHANGED <<rows, gateway, late, faults>>

\* The process stops; a replacement starts with another pass.
Stop(p) ==
  /\ pass[p].step # "idle"
  /\ faults < MaxFaults
  /\ faults' = faults + 1
  /\ Set(p, Idle)
  /\ UNCHANGED <<rows, gateway, status, late>>

-----------------------------------------------------------------------------
(* The surroundings                                                        *)

\* Desired rows are changed by operators in the database, routes in the gateway.
EditRow(i) ==
  /\ edits < MaxEdits
  /\ edits' = edits + 1
  /\ \E c \in Config \cup {Absent} : rows' = [rows EXCEPT ![i] = c]
  /\ UNCHANGED <<gateway, status, pass, late, faults>>

EditRoute(i) ==
  /\ edits < MaxEdits
  /\ edits' = edits + 1
  /\ \E r \in Route \cup {Absent} : gateway' = [gateway EXCEPT ![i] = r]
  /\ UNCHANGED <<rows, status, pass, late, faults>>

\* The gateway gets to a write that timed out, or never does.
Land(w) ==
  /\ late' = late \ {w}
  /\ Apply(w) \/ UNCHANGED gateway
  /\ UNCHANGED <<rows, status, pass, edits, faults>>

-----------------------------------------------------------------------------

Init ==
  /\ rows = [i \in Id |-> Absent]
  /\ gateway \in [Id -> {Absent} \cup {r \in Route : r.config = DefaultConfig}]
  /\ status = None
  /\ fail_closed \in BOOLEAN
  /\ pass = [p \in Pass |-> Idle]
  /\ late = {}
  /\ edits = 0 /\ faults = 0
  /\ right = [p \in Pass |-> {}]
  /\ disturbed = [p \in Pass |-> {}]

Step(p) ==
  /\ \/ Begin(p) \/ InsertDefault(p) \/ Select(p) \/ GetRoute(p) \/ ListRoutes(p)
     \/ Write(p) \/ Record(p) \/ Commit(p) \/ Fail(p) \/ Stop(p)
  /\ UNCHANGED edits

Act ==
  \/ \E p \in Pass : Step(p)
  \/ \E i \in Id : EditRow(i) \/ EditRoute(i)
  \/ \E w \in late : Land(w)

\* History of a pass from its SELECT to its result.
Watch ==
  LET on(p) == pass'[p].step \in Calling
      rightNow(p) == {i \in Id : Right(pass'[p].routes, gateway', i)}
      changed == {i \in Id : rows'[i] # rows[i] \/ gateway'[i] # gateway[i]}
      seen(p) == IF pass[p].step \in Calling THEN right[p] ELSE {}
  IN  /\ right' = [p \in Pass |-> IF on(p) THEN seen(p) \cup rightNow(p) ELSE {}]
      /\ disturbed' = [p \in Pass |->
           CASE ~on(p) -> {}
             [] on(p) /\ pass'[p] = pass[p] -> disturbed[p] \cup changed
             [] on(p) /\ pass'[p] # pass[p] -> disturbed[p]]

Next == Act /\ Watch /\ UNCHANGED fail_closed

\* A loop never stops running passes, and a pass that runs goes on: every call
\* ends by its timeout.  A write the gateway still holds is applied or dropped.
Fairness ==
  /\ \A p \in Loop : WF_pass(Step(p))
  /\ \A p \in Pass \ Loop : WF_pass(pass[p].step # "idle" /\ Step(p))
  /\ WF_late(\E w \in late : Land(w))

Spec == Init /\ [][Next]_vars

LiveSpec == Spec /\ Fairness

-----------------------------------------------------------------------------
(* Properties                                                              *)

TypeOK ==
  /\ rows \in Rows
  /\ gateway \in [Id -> Route \cup {Absent}]
  /\ status = None \/ (status.result \in {"ok", "error"} /\ status.changed \in 0 .. Cardinality(Id))
  /\ \A p \in Pass :
       /\ pass[p].step \in Calling \cup {"idle", "insert", "select", "record", "commit"}
       /\ pass[p].todo \cup pass[p].wrong \subseteq Wanted(pass[p].routes)
       /\ pass[p].stale \cap Wanted(pass[p].routes) = {}
       /\ pass[p].changed <= Cardinality(Id)
       /\ pass[p].listed \/ pass[p].stale = {}

\* "ok" is true: every id, desired or not, was at some moment of the pass as
\* the rows it had read demand, although operators, other passes and late
\* writes change routes all the time (apisix/reconciler.py:83-106).
OkMeansReconciled ==
  [][\A p \in Pass :
       (/\ pass[p].step \in Calling
        /\ pass'[p].step = "record" /\ pass'[p].result = "ok")
       => \A i \in Id : i \in right[p] \/ Right(pass[p].routes, gateway', i)]_vars

\* With fail_closed, a pass that ends because a read failed has changed no
\* route (apisix/reconciler.py:76-78).
ReadFailurePreservesRoutes ==
  [][\A p \in Pass :
       (/\ fail_closed /\ pass[p].step \in {"get", "list"}
        /\ pass'[p].step = "record" /\ pass'[p].result = "error")
       => pass'[p].changed = 0]_vars

\* Unless somebody else changed the row or the route during the pass, a pass
\* changes only a route that is wrong, and makes it right by the rows as they
\* are: a foreign or correct route is left alone, and a desired route is never
\* deleted (apisix/reconciler.py:90-99).
UndisturbedWritesRepair ==
  [][\A p \in Pass, i \in Id :
       (/\ pass'[p] # pass[p] /\ gateway'[i] # gateway[i] /\ i \notin disturbed[p])
       => ~Right(rows, gateway, i) /\ Right(rows, gateway', i)]_vars

\* PostgreSQL wins: once operators and faults leave off, the loops bring every
\* route in line for good and report so, whatever stale snapshots and late
\* writes were still under way (main.py:207-211, CONTRACTS.md "desired state wins").
Converges ==
  <>[](/\ \A i \in Id : Right(rows, gateway, i)
       /\ status = [result |-> "ok", changed |-> 0])

\* CONTRACTS.md:1378 says that stale routes are deleted "only when the current
\* APISIX route carries" the label and that "unlabeled manual routes are never
\* deleted by Grantora".  The label is looked at in the listing, which is older
\* than the DELETE by any number of calls (apisix/reconciler.py:78, 97-99).
OnlyLabelledDeleted ==
  [][\A p \in Pass, i \in Id :
       (/\ pass[p].step = "delete" /\ pass'[p] # pass[p]
        /\ gateway[i] # Absent /\ gateway'[i] = Absent)
       => Managed(gateway[i])]_vars

=============================================================================
