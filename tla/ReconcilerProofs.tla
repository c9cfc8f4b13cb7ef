-------------------------- MODULE ReconcilerProofs --------------------------
(***************************************************************************)
(* Proofs about Reconciler, for any number of routes, passes, edits and    *)
(* failed calls.  What a pass knows is partly its own record (Proper) and  *)
(* partly a comparison with the gateway that others change under it        *)
(* (Compared, Informed).                                                   *)
(***************************************************************************)
EXTENDS Reconciler, FiniteSetTheorems, WellFoundedInduction, TLAPS

Result == {"ok", "error"}

Report == [result : Result, changed : 0 .. Cardinality(Id)]

PassStep == Calling \cup {"idle", "insert", "select", "record", "commit"}

PassRecord ==
  [step : PassStep, routes : Rows, todo : SUBSET Id, wrong : SUBSET Id, listed : BOOLEAN,
   stale : SUBSET Id, changed : Nat, result : Result, was : Report \cup {None}]

\* The ids a pass may still write to.
Open(q) == q.todo \cup q.wrong \cup (IF q.listed THEN q.stale ELSE Id \ Wanted(q.routes))

\* What a pass holds between two calls, whichever comes next.
Sound(q) ==
  /\ q.todo \cup q.wrong \subseteq Wanted(q.routes) /\ q.todo \cap q.wrong = {}
  /\ q.stale \cap Wanted(q.routes) = {}
  /\ q.listed \/ q.stale = {}
  /\ q.listed => q.todo = {}
  /\ fail_closed /\ ~q.listed => q.changed = 0
  /\ q.changed + Cardinality(Open(q)) <= Cardinality(Id)

\* The record of a pass fits the call it is about to make.
Proper(q) ==
  /\ q \in PassRecord
  /\ q.step \in Calling => Sound(q)
  /\ q.step = "get" => q.todo # {} /\ ~q.listed
  /\ q.step = "list" => q.todo = {} /\ ~q.listed
  /\ q.step = "put" => q.wrong # {} /\ (fail_closed => q.listed)
  /\ q.step = "delete" => q.stale # {} /\ q.wrong = {} /\ q.listed
  /\ q.step \notin Calling =>
       q.todo = {} /\ q.wrong = {} /\ q.stale = {} /\ q.changed <= Cardinality(Id)
  /\ q.step \in {"idle", "insert", "select"} => ~q.listed /\ q.changed = 0
  /\ q.step # "commit" => q.was = None

\* Every id is still to be looked at or written, or was right during the pass.
Compared(p) ==
  pass[p].step \in Calling =>
    \A i \in Id :
      IF i \in Wanted(pass[p].routes)
      THEN i \in pass[p].todo \cup pass[p].wrong \cup right[p]
      ELSE pass[p].listed => i \in pass[p].stale \cup right[p]

\* What a pass has read of an undisturbed id still holds.
Informed(p) ==
  IF pass[p].step \in Calling
  THEN \A i \in Id \ disturbed[p] :
         /\ rows[i] = pass[p].routes[i]
         /\ i \in pass[p].wrong \cup pass[p].stale => ~Right(rows, gateway, i)
  ELSE disturbed[p] = {}

Tables ==
  /\ rows \in Rows
  /\ gateway \in [Id -> Route \cup {Absent}]
  /\ status \in Report \cup {None}
  /\ late \subseteq [id : Id, route : Route \cup {Absent}]
  /\ fail_closed \in BOOLEAN
  /\ pass \in [Pass -> PassRecord]
  /\ right \in [Pass -> SUBSET Id]
  /\ disturbed \in [Pass -> SUBSET Id]

\* What makes the results of a pass true and its writes repairs.
ReconcilerInvariant ==
  /\ Tables
  /\ \A p \in Pass :
       /\ Proper(pass[p]) /\ Compared(p) /\ Informed(p)
       /\ pass[p].was # None => status # None

-----------------------------------------------------------------------------
(* Sets                                                                    *)

\* A set of ids has a smallest one.
LEMMA MinOfIds ==
  ASSUME NEW S \in SUBSET Id, S # {}
  PROVE  Min(S) \in S
<1>1. S \subseteq Nat
  BY ReconcilerAssumption
<1>2. PICK x \in S : \A y \in S : ~(<<y, x>> \in OpToRel(<, Nat))
  BY <1>1, WFMin, NatLessThanWellFounded
<1>3. ASSUME NEW y \in S PROVE x <= y
  <2>1. y < x => <<y, x>> \in OpToRel(<, Nat)
    <3>1. <<y, x>> \in Nat \X Nat /\ <<y, x>>[1] = y /\ <<y, x>>[2] = x
      BY <1>1
    <3>2. QED
      BY <3>1, Zenon DEF OpToRel
  <2>2. x \in Nat /\ y \in Nat
    BY <1>1
  <2>3. ~(y < x)
    BY <1>2, <2>1, Zenon
  <2>4. QED
    BY <2>2, <2>3
<1>4. QED
  BY <1>3 DEF Min

\* What can still be written only shrinks, and by the id that was written.
LEMMA FewerOpen ==
  ASSUME NEW S \in SUBSET Id, NEW T \in SUBSET S
  PROVE  /\ Cardinality(T) <= Cardinality(S) /\ Cardinality(S) \in Nat /\ Cardinality(T) \in Nat
         /\ \A i \in S \ T : Cardinality(T) + 1 <= Cardinality(S)
<1>1. IsFiniteSet(S) /\ IsFiniteSet(T)
  BY FS_Subset, ReconcilerAssumption
<1>2. Cardinality(T) <= Cardinality(S) /\ Cardinality(S) \in Nat /\ Cardinality(T) \in Nat
  BY <1>1, FS_Subset, FS_CardinalityType
<1>3. ASSUME NEW i \in S \ T PROVE Cardinality(T) + 1 <= Cardinality(S)
  <2>1. Cardinality(T) # Cardinality(S)
    BY <1>1, FS_Subset
  <2>2. QED
    BY <1>2, <2>1
<1>4. QED
  BY <1>2, <1>3

-----------------------------------------------------------------------------
(* The record of a pass                                                    *)

\* The record of a pass that does not run fits.
LEMMA IdleProper == Idle \in PassRecord /\ Proper(Idle) /\ Idle.was = None /\ Idle.step = "idle"
<1>1. Cardinality(Id) \in Nat
  BY FS_CardinalityType, ReconcilerAssumption
<1>2. QED
  BY <1>1 DEF Idle, PassRecord, PassStep, Calling, Proper, Rows, Result

\* A result is what a pass takes from its calls to its record.
LEMMA RecordingProper ==
  ASSUME NEW q \in PassRecord, q.changed <= Cardinality(Id), NEW result \in Result
  PROVE  LET r == Recording(q, result)
         IN  /\ Proper(r) /\ r.step = "record" /\ r.was = None
             /\ r.changed = q.changed /\ r.result = result
  BY DEF Recording, Idle, PassRecord, PassStep, Calling, Proper, Rows, Result

\* Proceed is defined for whatever a pass can hold, and goes on with what that is.
LEMMA ProceedCases ==
  ASSUME NEW q \in PassRecord, q.listed => q.todo = {}, fail_closed \in BOOLEAN
  PROVE  \/ /\ Proceed(q) = [q EXCEPT !.step = "put"]
            /\ q.wrong # {} /\ (fail_closed => q.listed)
         \/ Proceed(q) = [q EXCEPT !.step = "get"] /\ q.todo # {}
         \/ Proceed(q) = [q EXCEPT !.step = "list"] /\ q.todo = {} /\ ~q.listed
         \/ /\ Proceed(q) = [q EXCEPT !.step = "delete"]
            /\ q.listed /\ q.wrong = {} /\ q.stale # {}
         \/ Proceed(q) = Recording(q, "ok") /\ q.listed /\ q.wrong = {} /\ q.stale = {}
<1>1. CASE q.wrong # {} /\ (fail_closed => q.listed)
  BY <1>1 DEF Proceed
<1>2. CASE q.todo # {} /\ (fail_closed \/ q.wrong = {})
  BY <1>2 DEF Proceed
<1>3. CASE q.todo = {} /\ ~q.listed /\ (fail_closed \/ q.wrong = {})
  BY <1>3 DEF Proceed
<1>4. CASE q.listed /\ q.wrong = {} /\ q.stale # {}
  BY <1>4 DEF Proceed
<1>5. CASE q.listed /\ q.wrong = {} /\ q.stale = {}
  BY <1>5 DEF Proceed
<1>6. QED
  BY <1>1, <1>2, <1>3, <1>4, <1>5

\* Going on from a sound record leads to one that fits, and loses nothing of it.
LEMMA ProceedProper ==
  ASSUME NEW q \in PassRecord, Sound(q), q.was = None, fail_closed \in BOOLEAN
  PROVE  LET r == Proceed(q)
         IN  /\ Proper(r) /\ r.was = None
             /\ \/ /\ r.step \in Calling /\ r.routes = q.routes /\ r.todo = q.todo
                   /\ r.wrong = q.wrong /\ r.listed = q.listed /\ r.stale = q.stale
                \/ /\ r.step = "record" /\ r.result = "ok"
                   /\ q.listed /\ q.todo = {} /\ q.wrong = {} /\ q.stale = {}
<1> DEFINE r == Proceed(q)
<1>1. Open(q) \in SUBSET Id
  BY DEF PassRecord, Open
<1>2. Cardinality(Open(q)) \in Nat /\ Cardinality(Id) \in Nat
  BY <1>1, FewerOpen
<1>3. q.changed <= Cardinality(Id)
  BY <1>2 DEF Sound, PassRecord
<1>4. ASSUME NEW s \in Calling, r = [q EXCEPT !.step = s]
      PROVE  /\ r \in PassRecord /\ Sound(r) /\ r.step = s /\ r.routes = q.routes
             /\ r.todo = q.todo /\ r.wrong = q.wrong /\ r.listed = q.listed /\ r.stale = q.stale
             /\ r.was = q.was
  <2>1. /\ r \in PassRecord /\ r.step = s /\ r.routes = q.routes
        /\ r.todo = q.todo /\ r.wrong = q.wrong /\ r.listed = q.listed /\ r.stale = q.stale
        /\ r.was = q.was /\ r.changed = q.changed
    BY <1>4 DEF PassRecord, PassStep
  <2>2. Sound(r)
    BY <2>1 DEF Sound, Open
  <2>3. QED
    BY <2>1, <2>2
<1>5. CASE r = Recording(q, "ok") /\ q.listed /\ q.wrong = {} /\ q.stale = {}
  BY <1>3, <1>5, RecordingProper DEF Sound, Result
<1>6. CASE r = [q EXCEPT !.step = "put"] /\ q.wrong # {} /\ (fail_closed => q.listed)
  BY <1>4, <1>6 DEF Calling, Proper
<1>7. CASE r = [q EXCEPT !.step = "get"] /\ q.todo # {}
  BY <1>4, <1>7 DEF Calling, Proper, Sound
<1>8. CASE r = [q EXCEPT !.step = "list"] /\ q.todo = {} /\ ~q.listed
  BY <1>4, <1>8 DEF Calling, Proper
<1>9. CASE r = [q EXCEPT !.step = "delete"] /\ q.listed /\ q.wrong = {} /\ q.stale # {}
  BY <1>4, <1>9 DEF Calling, Proper
<1>10. QED
  BY <1>5, <1>6, <1>7, <1>8, <1>9, ProceedCases DEF Sound

\* The id a pass is at is one it still has to deal with.
LEMMA AtIsOpen ==
  ASSUME NEW q \in PassRecord, Proper(q)
  PROVE  /\ q.step = "get" => At(q) \in q.todo
         /\ q.step = "put" => At(q) \in q.wrong
         /\ q.step = "delete" => At(q) \in q.stale
<1>1. q.todo \in SUBSET Id /\ q.wrong \in SUBSET Id /\ q.stale \in SUBSET Id
  BY DEF PassRecord
<1>2. CASE q.step = "get"
  <2>1. At(q) = Min(q.todo)
    BY <1>2 DEF At
  <2>2. QED
    BY <1>1, <1>2, <2>1, MinOfIds DEF Proper
<1>3. CASE q.step = "put"
  <2>1. At(q) = Min(q.wrong)
    BY <1>3 DEF At
  <2>2. QED
    BY <1>1, <1>3, <2>1, MinOfIds DEF Proper
<1>4. CASE q.step = "delete"
  <2>1. At(q) = Min(q.stale)
    BY <1>4 DEF At
  <2>2. QED
    BY <1>1, <1>4, <2>1, MinOfIds DEF Proper
<1>5. QED
  BY <1>2, <1>3, <1>4

-----------------------------------------------------------------------------
(* Calls                                                                   *)

\* What a pass holds after a call that succeeds.
AfterSelect(q) == [q EXCEPT !.routes = rows, !.todo = Wanted(rows)]

AfterGet(q) ==
  [q EXCEPT !.todo = @ \ {At(q)},
            !.wrong = IF Matches(gateway[At(q)], q.routes[At(q)]) THEN @ ELSE @ \cup {At(q)}]

AfterList(q) == [q EXCEPT !.listed = TRUE, !.stale = Stale(q)]

AfterWrite(q) ==
  [q EXCEPT !.wrong = @ \ {At(q)}, !.stale = @ \ {At(q)},
            !.changed = @ + (IF q.step = "delete" /\ gateway[At(q)] = Absent THEN 0 ELSE 1)]

\* The SELECT leaves every desired route to look at, and nothing done.
LEMMA AfterSelectSound ==
  ASSUME NEW q \in PassRecord, Proper(q), q.step = "select", rows \in Rows
  PROVE  /\ AfterSelect(q) \in PassRecord /\ Sound(AfterSelect(q)) /\ AfterSelect(q).was = None
         /\ AfterSelect(q).routes = rows /\ AfterSelect(q).todo = Wanted(rows)
         /\ AfterSelect(q).wrong = {} /\ AfterSelect(q).stale = {} /\ ~AfterSelect(q).listed
<1> DEFINE r == AfterSelect(q)
<1>1. Wanted(rows) \in SUBSET Id
  BY DEF Wanted
<1>2. /\ r \in PassRecord /\ r.was = None /\ r.routes = rows /\ r.todo = Wanted(rows)
      /\ r.wrong = {} /\ r.stale = {} /\ ~r.listed /\ r.changed = 0
  BY <1>1 DEF AfterSelect, PassRecord, PassStep, Calling, Proper
<1>3. Open(r) = Id
  BY <1>1, <1>2 DEF Open
<1>4. Cardinality(Id) \in Nat
  BY FS_CardinalityType, ReconcilerAssumption
<1>5. Sound(r)
  BY <1>2, <1>3, <1>4 DEF Sound
<1>6. QED
  BY <1>2, <1>5

\* A GET takes its id off the list, and keeps it to write when it differs.
LEMMA AfterGetSound ==
  ASSUME NEW q \in PassRecord, Proper(q), q.step = "get"
  PROVE  /\ AfterGet(q) \in PassRecord /\ Sound(AfterGet(q)) /\ AfterGet(q).was = None
         /\ AfterGet(q).routes = q.routes /\ AfterGet(q).todo = q.todo \ {At(q)}
         /\ AfterGet(q).wrong = IF Matches(gateway[At(q)], q.routes[At(q)])
                                THEN q.wrong ELSE q.wrong \cup {At(q)}
         /\ AfterGet(q).listed = q.listed /\ AfterGet(q).stale = q.stale
<1> DEFINE r == AfterGet(q)
<1>1. At(q) \in q.todo /\ Sound(q)
  BY AtIsOpen DEF Proper, Calling
<1>2. /\ r \in PassRecord /\ r.was = None /\ r.routes = q.routes /\ r.todo = q.todo \ {At(q)}
      /\ r.wrong = (IF Matches(gateway[At(q)], q.routes[At(q)])
                    THEN q.wrong ELSE q.wrong \cup {At(q)})
      /\ r.listed = q.listed /\ r.stale = q.stale /\ r.changed = q.changed
  BY <1>1 DEF AfterGet, PassRecord, Proper
<1>3. Open(q) \in SUBSET Id /\ Open(r) \in SUBSET Open(q)
  BY <1>1, <1>2 DEF Open, PassRecord
<1>4. /\ Cardinality(Open(r)) <= Cardinality(Open(q))
      /\ Cardinality(Open(r)) \in Nat /\ Cardinality(Open(q)) \in Nat /\ Cardinality(Id) \in Nat
  BY <1>3, FewerOpen
<1>5. r.changed + Cardinality(Open(r)) <= Cardinality(Id)
  BY <1>1, <1>2, <1>4 DEF Sound, PassRecord
<1>6. Sound(r)
  BY <1>1, <1>2, <1>5 DEF Sound
<1>7. QED
  BY <1>2, <1>6

\* The listing leaves the managed routes nobody desires to delete.
LEMMA AfterListSound ==
  ASSUME NEW q \in PassRecord, Proper(q), q.step = "list"
  PROVE  /\ AfterList(q) \in PassRecord /\ Sound(AfterList(q)) /\ AfterList(q).was = None
         /\ AfterList(q).routes = q.routes /\ AfterList(q).todo = {}
         /\ AfterList(q).wrong = q.wrong
         /\ AfterList(q).listed /\ AfterList(q).stale = Stale(q)
<1> DEFINE r == AfterList(q)
<1>1. Stale(q) \in SUBSET (Id \ Wanted(q.routes)) /\ Sound(q) /\ q.todo = {} /\ ~q.listed
  BY DEF Proper, Calling, Stale
<1>2. /\ r \in PassRecord /\ r.was = None /\ r.routes = q.routes /\ r.todo = {}
      /\ r.wrong = q.wrong /\ r.listed = TRUE /\ r.stale = Stale(q) /\ r.changed = q.changed
  BY <1>1 DEF AfterList, PassRecord, Proper
<1>3. Open(q) \in SUBSET Id /\ Open(r) \in SUBSET Open(q)
  BY <1>1, <1>2 DEF Open, PassRecord
<1>4. /\ Cardinality(Open(r)) <= Cardinality(Open(q))
      /\ Cardinality(Open(r)) \in Nat /\ Cardinality(Open(q)) \in Nat /\ Cardinality(Id) \in Nat
  BY <1>3, FewerOpen
<1>5. r.changed + Cardinality(Open(r)) <= Cardinality(Id)
  BY <1>1, <1>2, <1>4 DEF Sound, PassRecord
<1>6. Sound(r)
  BY <1>1, <1>2, <1>5 DEF Sound
<1>7. QED
  BY <1>2, <1>6

\* A write, counted or not, takes its id off what is left to write.
LEMMA AfterWriteSound ==
  ASSUME NEW q \in PassRecord, Proper(q), q.step \in {"put", "delete"}
  PROVE  /\ AfterWrite(q) \in PassRecord /\ Sound(AfterWrite(q)) /\ AfterWrite(q).was = None
         /\ AfterWrite(q).routes = q.routes /\ AfterWrite(q).todo = q.todo
         /\ AfterWrite(q).wrong = q.wrong \ {At(q)}
         /\ AfterWrite(q).listed = q.listed /\ AfterWrite(q).stale = q.stale \ {At(q)}
<1> DEFINE r == AfterWrite(q)
<1>1. At(q) \in q.wrong \cup q.stale /\ Sound(q) /\ (fail_closed => q.listed)
  BY AtIsOpen DEF Proper, Calling
<1>2. /\ r \in PassRecord /\ r.was = None /\ r.routes = q.routes /\ r.todo = q.todo
      /\ r.wrong = q.wrong \ {At(q)} /\ r.listed = q.listed /\ r.stale = q.stale \ {At(q)}
      /\ r.changed \in {q.changed, q.changed + 1}
  <2> DEFINE n == IF q.step = "delete" /\ gateway[At(q)] = Absent THEN 0 ELSE 1
  <2>1. n \in {0, 1}
    OBVIOUS
  <2>2. r = [q EXCEPT !.wrong = q.wrong \ {At(q)}, !.stale = q.stale \ {At(q)},
                      !.changed = q.changed + n]
    BY DEF AfterWrite, PassRecord
  <2>3. q.was = None
    BY DEF Proper
  <2> HIDE DEF n, r
  <2>4. /\ r.wrong = q.wrong \ {At(q)} /\ r.stale = q.stale \ {At(q)}
        /\ r.changed = q.changed + n /\ r.listed = q.listed /\ r.todo = q.todo
        /\ r.routes = q.routes /\ r.was = q.was
    BY <2>2 DEF PassRecord
  <2>5. r \in PassRecord
    <3> DEFINE w == q.wrong \ {At(q)}
               s == q.stale \ {At(q)}
               m == q.changed + n
    <3>1. w \in SUBSET Id /\ s \in SUBSET Id /\ m \in Nat
      BY <2>1 DEF PassRecord
    <3>2. r = [q EXCEPT !.wrong = w, !.stale = s, !.changed = m]
      BY <2>2
    <3> HIDE DEF w, s, m
    <3>3. QED
      BY <3>1, <3>2 DEF PassRecord
  <2>6. QED
    BY <2>1, <2>3, <2>4, <2>5 DEF PassRecord
<1>3. Open(q) \in SUBSET Id /\ Open(r) \in SUBSET Open(q)
  BY <1>1, <1>2 DEF Open, PassRecord
<1>4. At(q) \in Open(q) /\ At(q) \notin Open(r)
  BY <1>1, <1>2, AtIsOpen DEF Open, PassRecord, Sound, Wanted
<1>5. /\ Cardinality(Open(r)) + 1 <= Cardinality(Open(q))
      /\ Cardinality(Open(r)) \in Nat /\ Cardinality(Open(q)) \in Nat /\ Cardinality(Id) \in Nat
  BY <1>3, <1>4, FewerOpen
<1>6. r.changed + Cardinality(Open(r)) <= Cardinality(Id)
  BY <1>1, <1>2, <1>5 DEF Sound, PassRecord
<1>7. Sound(r)
  BY <1>1, <1>2, <1>6 DEF Sound
<1>8. QED
  BY <1>2, <1>7

-----------------------------------------------------------------------------
(* History                                                                 *)

Changed == {i \in Id : rows'[i] # rows[i] \/ gateway'[i] # gateway[i]}

\* What Watch notes of one pass.
LEMMA Watched ==
  ASSUME ReconcilerInvariant, Watch, NEW p \in Pass
  PROVE  /\ pass'[p].step \in Calling =>
              /\ \A i \in Id :
                   \/ Right(pass'[p].routes, gateway', i)
                   \/ pass[p].step \in Calling /\ i \in right[p]
                   => i \in right'[p]
              /\ disturbed'[p] = IF pass'[p] = pass[p] THEN disturbed[p] \cup Changed
                                 ELSE disturbed[p]
         /\ pass'[p].step \notin Calling => disturbed'[p] = {}
<1>1. pass'[p].step \in Calling =>
        right'[p] = (IF pass[p].step \in Calling THEN right[p] ELSE {})
                      \cup {i \in Id : Right(pass'[p].routes, gateway', i)}
  BY DEF Watch
<1>2. disturbed'[p] = CASE ~(pass'[p].step \in Calling) -> {}
                        [] pass'[p].step \in Calling /\ pass'[p] = pass[p] -> disturbed[p] \cup Changed
                        [] pass'[p].step \in Calling /\ pass'[p] # pass[p] -> disturbed[p]
  BY DEF Watch, Changed
<1>3. QED
  BY <1>1, <1>2

\* The history keeps its type.
LEMMA WatchTypes ==
  ASSUME ReconcilerInvariant, Watch
  PROVE  right' \in [Pass -> SUBSET Id] /\ disturbed' \in [Pass -> SUBSET Id]
<1>1. ASSUME NEW p \in Pass PROVE right'[p] \in SUBSET Id
  BY DEF Watch, ReconcilerInvariant, Tables
<1>2. ASSUME NEW p \in Pass PROVE disturbed'[p] \in SUBSET Id
  BY Watched DEF Changed, ReconcilerInvariant, Tables
<1>3. QED
  BY <1>1, <1>2 DEF Watch

\* A pass that does not move keeps what it knows of undisturbed ids.
LEMMA StandsBy ==
  ASSUME ReconcilerInvariant, Watch, NEW p \in Pass, pass'[p] = pass[p],
         rows' \in Rows, gateway' \in [Id -> Route \cup {Absent}]
  PROVE  Compared(p)' /\ Informed(p)'
<1>1. Compared(p) /\ Informed(p)
  BY DEF ReconcilerInvariant
<1>2. CASE pass[p].step \in Calling
  <2>1. right[p] \subseteq right'[p] /\ disturbed'[p] = disturbed[p] \cup Changed
    BY <1>2, Watched DEF ReconcilerInvariant, Tables
  <2>2. Compared(p)'
    BY <1>1, <1>2, <2>1 DEF Compared, Wanted
  <2>3. Informed(p)'
    BY <1>1, <1>2, <2>1 DEF Informed, Changed, Right
  <2>4. QED
    BY <2>2, <2>3
<1>3. CASE pass[p].step \notin Calling
  BY <1>1, <1>3, Watched DEF Compared, Informed
<1>4. QED
  BY <1>2, <1>3

\* The pass that moves is the one that acts.
LEMMA MoverActs ==
  ASSUME ReconcilerInvariant, Act, NEW p \in Pass, pass'[p] # pass[p]
  PROVE  Step(p)
<1>1. ASSUME NEW q \in Pass \ {p}, Step(q) PROVE pass'[p] = pass[p]
  <2>1. pass \in [Pass -> PassRecord]
    BY DEF ReconcilerInvariant, Tables
  <2>2. \A r : Set(q, r) => pass'[p] = pass[p]
    BY <2>1 DEF Set
  <2>3. Begin(q) \/ InsertDefault(q) \/ Select(q) \/ GetRoute(q) \/ ListRoutes(q)
          => pass'[p] = pass[p]
    BY <2>2 DEF Begin, InsertDefault, Select, GetRoute, ListRoutes
  <2>4. Write(q) \/ Record(q) \/ Commit(q) \/ Fail(q) \/ Stop(q) => pass'[p] = pass[p]
    BY <2>2 DEF Write, Record, Commit, Fail, Stop
  <2>5. QED
    BY <1>1, <2>3, <2>4 DEF Step
<1>2. (\E i \in Id : EditRow(i) \/ EditRoute(i)) => pass'[p] = pass[p]
  BY DEF EditRow, EditRoute
<1>3. (\E w \in late : Land(w)) => pass'[p] = pass[p]
  BY DEF Land
<1>4. QED
  BY <1>1, <1>2, <1>3 DEF Act

-----------------------------------------------------------------------------
(* Steps of a pass                                                         *)

\* A pass moves to a record that fits, and what it knows stays true.
Moves(p) ==
  /\ pass' = [pass EXCEPT ![p] = pass'[p]]
  /\ Proper(pass'[p])
  /\ pass'[p].was # None => status' # None
  /\ pass'[p] # pass[p] => Compared(p)' /\ Informed(p)'

\* An id was right when the pass looked, or is now.
Settled(p, routes, i) ==
  Right(routes, gateway', i) \/ (pass[p].step \in Calling /\ i \in right[p])

\* A call that succeeds, whichever comes next.
LEMMA CallMoves ==
  ASSUME ReconcilerInvariant, Watch, NEW p \in Pass,
         NEW q \in PassRecord, Sound(q), q.was = None,
         pass' = [pass EXCEPT ![p] = Proceed(q)],
         \A i \in Id : IF i \in Wanted(q.routes)
                       THEN i \in q.todo \cup q.wrong \/ Settled(p, q.routes, i)
                       ELSE q.listed => i \in q.stale \/ Settled(p, q.routes, i),
         \A i \in Id \ disturbed[p] :
           /\ rows'[i] = q.routes[i]
           /\ i \in q.wrong \cup q.stale => ~Right(rows', gateway', i)
  PROVE  /\ Moves(p)
         /\ pass'[p].step = "record" => \A i \in Id : Settled(p, q.routes, i)
<1> DEFINE r == Proceed(q)
<1>1. pass'[p] = r /\ fail_closed \in BOOLEAN
  BY DEF ReconcilerInvariant, Tables
<1>2. /\ Proper(r) /\ r.was = None
      /\ \/ /\ r.step \in Calling /\ r.routes = q.routes /\ r.todo = q.todo
            /\ r.wrong = q.wrong /\ r.listed = q.listed /\ r.stale = q.stale
         \/ /\ r.step = "record" /\ r.result = "ok"
            /\ q.listed /\ q.todo = {} /\ q.wrong = {} /\ q.stale = {}
  BY <1>1, ProceedProper
<1> HIDE DEF r
<1>3. CASE r.step \in Calling /\ r.routes = q.routes /\ r.todo = q.todo
           /\ r.wrong = q.wrong /\ r.listed = q.listed /\ r.stale = q.stale
  <2>1. /\ \A i \in Id : Settled(p, q.routes, i) => i \in right'[p]
        /\ pass'[p] # pass[p] => disturbed'[p] = disturbed[p]
    BY <1>1, <1>3, Watched DEF Settled
  <2>2. Compared(p)'
    BY <1>1, <1>3, <2>1 DEF Compared, Wanted
  <2>3. pass'[p] # pass[p] => Informed(p)'
    BY <1>1, <1>3, <2>1 DEF Informed
  <2>4. r.step # "record"
    BY <1>3 DEF Calling
  <2>5. QED
    BY <1>1, <1>2, <2>2, <2>3, <2>4 DEF Moves, r
<1>4. CASE /\ r.step = "record"
           /\ q.listed /\ q.todo = {} /\ q.wrong = {} /\ q.stale = {}
  <2>1. pass'[p].step \notin Calling
    BY <1>1, <1>4 DEF Calling
  <2>2. Compared(p)' /\ Informed(p)'
    BY <2>1, Watched DEF Compared, Informed
  <2>3. \A i \in Id : Settled(p, q.routes, i)
    BY <1>4
  <2>4. QED
    BY <1>1, <1>2, <2>2, <2>3 DEF Moves, r
<1>5. QED
  BY <1>2, <1>3, <1>4

\* A step to a record that makes no call.
LEMMA QuietMoves ==
  ASSUME ReconcilerInvariant, Watch, NEW p \in Pass, NEW r \in PassRecord, Proper(r),
         r.step \notin Calling, pass' = [pass EXCEPT ![p] = r],
         r.was # None => status' # None
  PROVE  Moves(p)
<1>1. pass'[p] = r
  BY DEF ReconcilerInvariant, Tables
<1>2. Compared(p)' /\ Informed(p)'
  BY <1>1, Watched DEF Compared, Informed
<1>3. QED
  BY <1>1, <1>2 DEF Moves

\* The beginning of a pass, and its stop.
LEMMA BeginMoves ==
  ASSUME ReconcilerInvariant, Watch, NEW p \in Pass, Begin(p) \/ InsertDefault(p) \/ Stop(p)
  PROVE  Moves(p)
<1>1. ASSUME NEW s \in {"insert", "select"}
      PROVE  LET r == [Idle EXCEPT !.step = s]
             IN  r \in PassRecord /\ Proper(r) /\ r.step \notin Calling /\ r.was = None
  BY IdleProper DEF Idle, PassRecord, PassStep, Calling, Proper
<1>2. CASE Begin(p)
  BY <1>1, <1>2, QuietMoves DEF Begin, Set
<1>3. ASSUME pass' = [pass EXCEPT ![p] = Idle] PROVE Moves(p)
  BY <1>3, IdleProper, QuietMoves DEF Calling
<1>4. ASSUME pass[p].step = "insert", pass' = [pass EXCEPT ![p] = [pass[p] EXCEPT !.step = "select"]]
      PROVE  Moves(p)
  <2> DEFINE r == [pass[p] EXCEPT !.step = "select"]
  <2>1. pass[p] \in PassRecord /\ Proper(pass[p])
    BY DEF ReconcilerInvariant, Tables
  <2>2. r \in PassRecord /\ Proper(r) /\ r.step \notin Calling /\ r.was = None
    BY <1>4, <2>1 DEF PassRecord, PassStep, Calling, Proper
  <2>3. QED
    BY <1>4, <2>2, QuietMoves
<1>5. QED
  BY <1>2, <1>3, <1>4 DEF InsertDefault, Stop, Set

\* The records of a pass: the result it reports, and the row it read.
LEMMA RecordMoves ==
  ASSUME ReconcilerInvariant, Watch, NEW p \in Pass, Record(p) \/ Commit(p) \/ Fail(p)
  PROVE  Moves(p)
<1>1. pass[p] \in PassRecord /\ Proper(pass[p]) /\ status \in Report \cup {None}
  BY DEF ReconcilerInvariant, Tables
<1>2. CASE Commit(p)
  BY <1>2, IdleProper, QuietMoves DEF Commit, Set, Calling
<1>3. CASE Record(p)
  <2> DEFINE r == [pass[p] EXCEPT !.step = "commit", !.was = status]
  <2>1. r \in PassRecord /\ Proper(r) /\ r.step \notin Calling /\ r.was = status
    BY <1>1, <1>3 DEF Record, PassRecord, PassStep, Calling, Proper
  <2>2. QED
    BY <1>3, <2>1, QuietMoves DEF Record, Set
<1>4. CASE Fail(p)
  <2>1. pass[p].changed <= Cardinality(Id)
    <3>1. Sound(pass[p]) /\ Open(pass[p]) \in SUBSET Id
      BY <1>1, <1>4 DEF Fail, Proper, Open, PassRecord
    <3>2. Cardinality(Open(pass[p])) \in Nat /\ Cardinality(Id) \in Nat
      BY <3>1, FewerOpen
    <3>3. QED
      BY <1>1, <3>1, <3>2 DEF Sound, PassRecord
  <2> DEFINE r == Recording(pass[p], "error")
  <2>2. Proper(r) /\ r.step = "record" /\ r.was = None
    BY <1>1, <2>1, RecordingProper DEF Result
  <2>3. r \in PassRecord /\ r.step \notin Calling
    BY <2>2 DEF Proper, Calling
  <2> HIDE DEF r
  <2>4. pass' = [pass EXCEPT ![p] = r]
    BY <1>4 DEF Fail, Set, Failed, r
  <2>5. QED
    BY <2>2, <2>3, <2>4, QuietMoves
<1>5. QED
  BY <1>2, <1>3, <1>4

\* After the SELECT the pass knows the rows as they are.
LEMMA SelectMoves ==
  ASSUME ReconcilerInvariant, Watch, NEW p \in Pass, Select(p)
  PROVE  Moves(p) /\ (pass'[p].step = "record" => \A i \in Id : Settled(p, rows, i))
<1> DEFINE q == AfterSelect(pass[p])
<1>1. /\ pass[p] \in PassRecord /\ Proper(pass[p]) /\ pass[p].step = "select" /\ rows \in Rows
      /\ disturbed[p] = {}
  BY DEF ReconcilerInvariant, Tables, Select, Informed, Calling
<1>2. pass' = [pass EXCEPT ![p] = Proceed(q)] /\ UNCHANGED <<rows, gateway>>
  BY DEF Select, Set, AfterSelect
<1>3. /\ q \in PassRecord /\ Sound(q) /\ q.was = None /\ q.routes = rows
      /\ q.todo = Wanted(rows) /\ q.wrong = {} /\ q.stale = {} /\ ~q.listed
  BY <1>1, AfterSelectSound
<1> HIDE DEF q
<1>4. QED
  BY <1>2, <1>3, CallMoves

\* After a GET the pass knows whether that route is right.
LEMMA GetMoves ==
  ASSUME ReconcilerInvariant, Watch, NEW p \in Pass, GetRoute(p)
  PROVE  /\ Moves(p)
         /\ pass'[p].step = "record" => \A i \in Id : Settled(p, pass[p].routes, i)
<1> DEFINE o == pass[p]
           q == AfterGet(o)
           n == At(o)
<1>1. /\ o \in PassRecord /\ Proper(o) /\ o.step = "get" /\ Compared(p) /\ Informed(p)
  BY DEF ReconcilerInvariant, Tables, GetRoute
<1>2. pass' = [pass EXCEPT ![p] = Proceed(q)] /\ UNCHANGED <<rows, gateway>>
  BY DEF GetRoute, Set, AfterGet
<1>3. /\ q \in PassRecord /\ Sound(q) /\ q.was = None /\ q.routes = o.routes
      /\ q.todo = o.todo \ {n} /\ q.listed = o.listed /\ q.stale = o.stale
      /\ q.wrong = IF Matches(gateway[n], o.routes[n]) THEN o.wrong ELSE o.wrong \cup {n}
  BY <1>1, AfterGetSound
<1>4. n \in o.todo /\ n \in Wanted(o.routes) /\ n \in Id /\ o.routes[n] # Absent
  BY <1>1, AtIsOpen DEF Proper, Sound, Calling, Wanted
<1>5. Matches(gateway[n], o.routes[n]) <=> Right(o.routes, gateway, n)
  BY <1>4, ReconcilerAssumption DEF Matches, Right, ReconcilerInvariant, Tables, Rows, Route, PassRecord
<1> HIDE DEF q
<1>6. ASSUME NEW i \in Id
      PROVE  IF i \in Wanted(q.routes)
             THEN i \in q.todo \cup q.wrong \/ Settled(p, q.routes, i)
             ELSE q.listed => i \in q.stale \/ Settled(p, q.routes, i)
  BY <1>1, <1>2, <1>3, <1>5 DEF Compared, Settled, Calling, Right
<1>7. ASSUME NEW i \in Id \ disturbed[p]
      PROVE  /\ rows'[i] = q.routes[i]
             /\ i \in q.wrong \cup q.stale => ~Right(rows', gateway', i)
  BY <1>1, <1>2, <1>3, <1>5 DEF Informed, Calling, Right
<1>8. QED
  BY <1>2, <1>3, <1>6, <1>7, CallMoves

\* After the listing the pass knows which undesired routes are managed.
LEMMA ListMoves ==
  ASSUME ReconcilerInvariant, Watch, NEW p \in Pass, ListRoutes(p)
  PROVE  /\ Moves(p)
         /\ pass'[p].step = "record" => \A i \in Id : Settled(p, pass[p].routes, i)
<1> DEFINE o == pass[p]
           q == AfterList(o)
<1>1. /\ o \in PassRecord /\ Proper(o) /\ o.step = "list" /\ o.todo = {}
      /\ Compared(p) /\ Informed(p) /\ Sound(o) /\ ~o.listed /\ o.stale = {}
  BY DEF ReconcilerInvariant, Tables, ListRoutes, Proper, Calling, Sound
<1>2. pass' = [pass EXCEPT ![p] = Proceed(q)] /\ UNCHANGED <<rows, gateway>>
  BY DEF ListRoutes, Set, AfterList
<1>3. /\ q \in PassRecord /\ Sound(q) /\ q.was = None /\ q.routes = o.routes
      /\ q.todo = {} /\ q.wrong = o.wrong /\ q.listed /\ q.stale = Stale(o)
  BY <1>1, AfterListSound
<1> HIDE DEF q
<1>4. ASSUME NEW i \in Id
      PROVE  IF i \in Wanted(q.routes)
             THEN i \in q.todo \cup q.wrong \/ Settled(p, q.routes, i)
             ELSE q.listed => i \in q.stale \/ Settled(p, q.routes, i)
  BY <1>1, <1>2, <1>3 DEF Compared, Settled, Calling, Right, Stale, Wanted
<1>5. ASSUME NEW i \in Id \ disturbed[p]
      PROVE  /\ rows'[i] = q.routes[i]
             /\ i \in q.wrong \cup q.stale => ~Right(rows', gateway', i)
  BY <1>1, <1>2, <1>3 DEF Informed, Calling, Right, Stale, Wanted
<1>6. QED
  BY <1>2, <1>3, <1>4, <1>5, CallMoves

\* What a pass writes makes the route as its rows demand.
LEMMA Written ==
  ASSUME ReconcilerInvariant, NEW p \in Pass, pass[p].step \in {"put", "delete"},
         Apply(Pending(pass[p]))
  PROVE  LET n == At(pass[p])
         IN  /\ n \in Id /\ n \in pass[p].wrong \cup pass[p].stale
             /\ Pending(pass[p]) \in [id : Id, route : Route \cup {Absent}]
             /\ gateway' \in [Id -> Route \cup {Absent}]
             /\ \A i \in Id \ {n} : gateway'[i] = gateway[i]
             /\ Right(pass[p].routes, gateway', n)
<1> DEFINE o == pass[p]
           n == At(o)
<1>1. o \in PassRecord /\ Proper(o) /\ gateway \in [Id -> Route \cup {Absent}]
  BY DEF ReconcilerInvariant, Tables
<1>2. Sound(o) /\ o.routes \in [Id -> Config \cup {Absent}]
  BY <1>1 DEF Proper, Calling, PassRecord, Rows
<1>3. CASE o.step = "put"
  <2>1. n \in o.wrong /\ n \in Wanted(o.routes)
    BY <1>1, <1>2, <1>3, AtIsOpen DEF Sound
  <2>2. n \in Id /\ o.routes[n] \in Config /\ o.routes[n] # Absent
    BY <1>2, <2>1 DEF Wanted
  <2>3. Pending(o) = [id |-> n, route |-> [config |-> o.routes[n], label |-> "grantora"]]
    BY <1>3 DEF Pending
  <2>4. gateway' = [gateway EXCEPT ![n] = [config |-> o.routes[n], label |-> "grantora"]]
    BY <2>3 DEF Apply
  <2>5. [config |-> o.routes[n], label |-> "grantora"] \in Route
    BY <2>2 DEF Route
  <2>6. Right(o.routes, gateway', n)
    BY <1>1, <2>2, <2>4 DEF Right
  <2>7. QED
    BY <1>1, <2>1, <2>2, <2>3, <2>4, <2>5, <2>6
<1>4. CASE o.step = "delete"
  <2>1. n \in o.stale /\ n \in Id /\ n \notin Wanted(o.routes)
    BY <1>1, <1>2, <1>4, AtIsOpen DEF Sound, PassRecord
  <2>2. Pending(o) = [id |-> n, route |-> Absent] /\ o.routes[n] = Absent
    BY <1>4, <2>1 DEF Pending, Wanted
  <2>3. gateway' = [gateway EXCEPT ![n] = Absent]
    BY <2>2 DEF Apply
  <2>4. Right(o.routes, gateway', n)
    BY <1>1, <2>1, <2>2, <2>3 DEF Right, Managed
  <2>5. QED
    BY <1>1, <2>1, <2>2, <2>3, <2>4
<1>5. QED
  BY <1>3, <1>4

\* After a write the id is right, and the others are as the pass knew them.
LEMMA WriteMoves ==
  ASSUME ReconcilerInvariant, Watch, NEW p \in Pass, Write(p)
  PROVE  /\ Moves(p)
         /\ pass'[p].step = "record" => \A i \in Id : Settled(p, pass[p].routes, i)
<1> DEFINE o == pass[p]
           q == AfterWrite(o)
           n == At(o)
<1>1. /\ o \in PassRecord /\ Proper(o) /\ o.step \in {"put", "delete"}
      /\ Compared(p) /\ Informed(p) /\ Sound(o)
  BY DEF ReconcilerInvariant, Tables, Write, Proper, Calling
<1>2. /\ pass' = [pass EXCEPT ![p] = Proceed(q)] /\ Apply(Pending(o)) /\ UNCHANGED rows
  BY DEF Write, Set, AfterWrite
<1>3. /\ q \in PassRecord /\ Sound(q) /\ q.was = None /\ q.routes = o.routes
      /\ q.todo = o.todo /\ q.wrong = o.wrong \ {n} /\ q.listed = o.listed
      /\ q.stale = o.stale \ {n}
  BY <1>1, AfterWriteSound
<1>4. /\ n \in Id /\ Right(o.routes, gateway', n)
      /\ \A i \in Id \ {n} : gateway'[i] = gateway[i]
  BY <1>1, <1>2, Written
<1> HIDE DEF q
<1>5. ASSUME NEW i \in Id
      PROVE  IF i \in Wanted(q.routes)
             THEN i \in q.todo \cup q.wrong \/ Settled(p, q.routes, i)
             ELSE q.listed => i \in q.stale \/ Settled(p, q.routes, i)
  BY <1>1, <1>3, <1>4 DEF Compared, Settled, Calling
<1>6. ASSUME NEW i \in Id \ disturbed[p]
      PROVE  /\ rows'[i] = q.routes[i]
             /\ i \in q.wrong \cup q.stale => ~Right(rows', gateway', i)
  BY <1>1, <1>2, <1>3, <1>4 DEF Informed, Calling, Right
<1>7. QED
  BY <1>2, <1>3, <1>5, <1>6, CallMoves

\* Every step of a pass is such a move.
LEMMA StepMoves ==
  ASSUME ReconcilerInvariant, Watch, NEW p \in Pass, Step(p)
  PROVE  Moves(p)
  BY BeginMoves, RecordMoves, SelectMoves, GetMoves, ListMoves, WriteMoves DEF Step

-----------------------------------------------------------------------------
(* The tables                                                              *)

\* The status row mixes the columns of reports.
LEMMA UpdatedIsReport ==
  ASSUME ReconcilerInvariant, NEW q \in PassRecord, Proper(q), q.step = "commit",
         status \in Report
  PROVE  Updated(q) \in Report
<1>1. q.changed \in 0 .. Cardinality(Id) /\ q.result \in Result
  <2>1. Cardinality(Id) \in Nat
    BY FS_CardinalityType, ReconcilerAssumption
  <2>2. QED
    BY <2>1 DEF Proper, PassRecord, Calling
<1>2. DOMAIN status = {"result", "changed"}
  BY DEF Report
<1>3. Updated(q) = [result |-> IF q.result = q.was.result THEN status.result ELSE q.result,
                    changed |-> IF q.changed = q.was.changed THEN status.changed ELSE q.changed]
  BY <1>2 DEF Updated
<1>4. QED
  BY <1>1, <1>3 DEF Report

\* Whatever a commit overwrites, the status row is a report.
LEMMA CommitTables ==
  ASSUME ReconcilerInvariant, NEW p \in Pass, Commit(p)
  PROVE  status' \in Report \cup {None} /\ (status # None => status' # None)
<1> DEFINE q == pass[p]
<1>1. /\ q \in PassRecord /\ Proper(q) /\ q.step = "commit" /\ status \in Report \cup {None}
      /\ q.was # None => status # None
  BY DEF ReconcilerInvariant, Tables, Commit
<1>2. None \notin Report
  BY ReconcilerAssumption, FS_CardinalityType DEF Report, Result
<1>3. CASE q.was # None /\ status' = Updated(q)
  BY <1>1, <1>2, <1>3, UpdatedIsReport
<1>4. CASE q.was = None /\ status = None /\ status' = [result |-> q.result, changed |-> q.changed]
  <2>1. q.changed \in 0 .. Cardinality(Id) /\ q.result \in Result
    <3>1. Cardinality(Id) \in Nat
      BY FS_CardinalityType, ReconcilerAssumption
    <3>2. QED
      BY <1>1, <3>1 DEF Proper, PassRecord, Calling
  <2>2. QED
    BY <1>2, <1>4, <2>1 DEF Report
<1>5. QED
  BY <1>1, <1>3, <1>4 DEF Commit

\* A pass keeps the types of what it shares with others.
LEMMA StepTables ==
  ASSUME ReconcilerInvariant, NEW p \in Pass, Step(p)
  PROVE  /\ rows' \in Rows /\ gateway' \in [Id -> Route \cup {Absent}]
         /\ status' \in Report \cup {None} /\ (status # None => status' # None)
         /\ late' \subseteq [id : Id, route : Route \cup {Absent}]
<1>1. Tables
  BY DEF ReconcilerInvariant
<1>2. CASE Begin(p) \/ Select(p) \/ GetRoute(p) \/ ListRoutes(p) \/ Record(p) \/ Stop(p)
  BY <1>1, <1>2 DEF Tables, Begin, Select, GetRoute, ListRoutes, Record, Stop
<1>3. CASE InsertDefault(p)
  BY <1>1, <1>3, ReconcilerAssumption DEF Tables, InsertDefault, Rows
<1>4. CASE Write(p)
  BY <1>1, <1>4, Written DEF Tables, Write
<1>5. CASE Commit(p)
  BY <1>1, <1>5, CommitTables DEF Tables, Commit
<1>6. CASE Fail(p)
  <2>1. pass[p].step \in {"put", "delete"} => Pending(pass[p]) \in [id : Id, route : Route \cup {Absent}]
    <3>1. pass[p] \in PassRecord /\ Proper(pass[p])
      BY <1>1 DEF Tables, ReconcilerInvariant
    <3>2. ASSUME pass[p].step = "put"
          PROVE  Pending(pass[p]) \in [id : Id, route : Route \cup {Absent}]
      <4>1. At(pass[p]) \in Id /\ pass[p].routes[At(pass[p])] \in Config
        BY <3>1, <3>2, AtIsOpen DEF Proper, Sound, Calling, Wanted, PassRecord, Rows
      <4>2. QED
        BY <3>2, <4>1 DEF Pending, Route
    <3>3. ASSUME pass[p].step = "delete"
          PROVE  Pending(pass[p]) \in [id : Id, route : Route \cup {Absent}]
      <4>1. At(pass[p]) \in Id
        BY <3>1, <3>3, AtIsOpen DEF PassRecord
      <4>2. QED
        BY <3>3, <4>1 DEF Pending
    <3>4. QED
      BY <3>2, <3>3
  <2>2. pass[p].step \in {"put", "delete"} /\ Apply(Pending(pass[p]))
          => gateway' \in [Id -> Route \cup {Absent}]
    BY Written
  <2>3. QED
    BY <1>1, <1>6, <2>1, <2>2 DEF Tables, Fail
<1>7. QED
  BY <1>2, <1>3, <1>4, <1>5, <1>6 DEF Step

\* So do operators, and the writes that land late.
LEMMA SurroundingsTables ==
  ASSUME ReconcilerInvariant,
         (\E i \in Id : EditRow(i) \/ EditRoute(i)) \/ (\E w \in late : Land(w))
  PROVE  /\ rows' \in Rows /\ gateway' \in [Id -> Route \cup {Absent}]
         /\ UNCHANGED <<status, pass>>
         /\ late' \subseteq [id : Id, route : Route \cup {Absent}]
<1>1. Tables
  BY DEF ReconcilerInvariant
<1>2. ASSUME NEW i \in Id, EditRow(i) \/ EditRoute(i)
      PROVE  /\ rows' \in Rows /\ gateway' \in [Id -> Route \cup {Absent}]
             /\ UNCHANGED <<status, pass, late>>
  BY <1>1, <1>2 DEF Tables, EditRow, EditRoute, Rows
<1>3. ASSUME NEW w \in late, Land(w)
      PROVE  /\ rows' \in Rows /\ gateway' \in [Id -> Route \cup {Absent}]
             /\ UNCHANGED <<status, pass>> /\ late' \subseteq late
  <2>1. w.id \in Id /\ w.route \in Route \cup {Absent}
    BY <1>1 DEF Tables
  <2>2. QED
    BY <1>1, <1>3, <2>1 DEF Tables, Land, Apply
<1>4. QED
  BY <1>1, <1>2, <1>3 DEF Tables

-----------------------------------------------------------------------------
(* The invariant                                                           *)

\* No pass runs at first.
LEMMA ReconcilerInit == Init => ReconcilerInvariant
<1> SUFFICES ASSUME Init PROVE ReconcilerInvariant
  OBVIOUS
<1>1. \A p \in Pass : pass[p] = Idle /\ disturbed[p] = {}
  BY DEF Init
<1>2. \A p \in Pass : Proper(pass[p]) /\ pass[p].was = None /\ pass[p].step \notin Calling
  BY <1>1, IdleProper DEF Calling
<1>3. \A p \in Pass : Compared(p) /\ Informed(p)
  BY <1>1, <1>2 DEF Compared, Informed
<1>4. Tables
  BY IdleProper DEF Init, Tables, Rows
<1>5. QED
  BY <1>2, <1>3, <1>4 DEF ReconcilerInvariant

\* A pass that does nothing keeps its record, and with it what the record shows.
LEMMA SameProper ==
  ASSUME NEW p \in Pass, Proper(pass[p]), pass'[p] = pass[p], fail_closed' = fail_closed
  PROVE  Proper(pass[p])'
<1>1. Sound(pass[p]) => Sound(pass[p])'
  BY DEF Sound, Open, Wanted
<1>2. QED
  BY <1>1 DEF Proper

\* Whoever acts, every pass knows what it needs.
LEMMA ReconcilerStep == ReconcilerInvariant /\ [Next]_vars => ReconcilerInvariant'
<1> SUFFICES ASSUME ReconcilerInvariant, [Next]_vars PROVE ReconcilerInvariant'
  OBVIOUS
<1>1. CASE UNCHANGED vars
  <2>1. Tables'
    BY <1>1 DEF vars, ReconcilerInvariant, Tables
  <2>2. ASSUME NEW p \in Pass
        PROVE  /\ Proper(pass[p])' /\ Compared(p)' /\ Informed(p)'
               /\ pass'[p].was # None => status' # None
    <3>1. Proper(pass[p])'
      BY <1>1, SameProper DEF vars, ReconcilerInvariant
    <3>2. Compared(p)'
      BY <1>1 DEF vars, ReconcilerInvariant, Compared, Wanted
    <3>3. Informed(p)'
      BY <1>1 DEF vars, ReconcilerInvariant, Informed, Right
    <3>4. QED
      BY <1>1, <3>1, <3>2, <3>3 DEF vars, ReconcilerInvariant
  <2>3. QED
    BY <2>1, <2>2 DEF ReconcilerInvariant
<1>2. CASE Next
  <2>1. Act /\ Watch /\ fail_closed' = fail_closed
    BY <1>2 DEF Next
  <2>2. /\ rows' \in Rows /\ gateway' \in [Id -> Route \cup {Absent}]
        /\ status' \in Report \cup {None} /\ (status # None => status' # None)
        /\ late' \subseteq [id : Id, route : Route \cup {Absent}]
    BY <2>1, StepTables, SurroundingsTables DEF Act, ReconcilerInvariant, Tables
  <2>3. pass' \in [Pass -> PassRecord]
    <3>1. CASE \E p \in Pass : Step(p)
      <4>1. PICK p \in Pass : Step(p)
        BY <3>1
      <4>2. pass' = [pass EXCEPT ![p] = pass'[p]] /\ pass'[p] \in PassRecord
        BY <2>1, <4>1, StepMoves DEF Moves, Proper
      <4>3. QED
        BY <4>2 DEF ReconcilerInvariant, Tables
    <3>2. CASE ~(\E p \in Pass : Step(p))
      BY <2>1, <3>2, SurroundingsTables DEF Act, ReconcilerInvariant, Tables
    <3>3. QED
      BY <3>1, <3>2
  <2>4. ASSUME NEW p \in Pass
        PROVE  /\ Proper(pass[p])' /\ Compared(p)' /\ Informed(p)'
               /\ pass'[p].was # None => status' # None
    <3>1. CASE pass'[p] = pass[p]
      <4>1. Compared(p)' /\ Informed(p)'
        BY <2>1, <2>2, <3>1, StandsBy
      <4>2. Proper(pass[p])'
        BY <2>1, <3>1, SameProper DEF ReconcilerInvariant
      <4>3. QED
        BY <2>2, <3>1, <4>1, <4>2 DEF ReconcilerInvariant
    <3>2. CASE pass'[p] # pass[p]
      <4>1. Moves(p)
        BY <2>1, <3>2, MoverActs, StepMoves
      <4>2. Proper(pass[p])'
        BY <2>1, <4>1 DEF Moves, Proper, Sound, Open, Wanted
      <4>3. QED
        BY <3>2, <4>1, <4>2 DEF Moves
    <3>3. QED
      BY <3>1, <3>2
  <2>5. Tables'
    BY <2>1, <2>2, <2>3, WatchTypes DEF Tables, ReconcilerInvariant
  <2>6. QED
    BY <2>4, <2>5 DEF ReconcilerInvariant
<1>3. QED
  BY <1>1, <1>2

\* What a pass knows of the routes is true at every step, whatever others do.
THEOREM ReconcilerInvariantHolds == Spec => []ReconcilerInvariant
<1>1. QED
  BY ReconcilerInit, ReconcilerStep, PTL DEF Spec

-----------------------------------------------------------------------------
(* What follows                                                            *)

\* Every variable keeps its type; no pass changes, or reports, more routes
\* than there are ids.
THEOREM ReconcilerTypeCorrect == Spec => []TypeOK
<1>1. ASSUME ReconcilerInvariant PROVE TypeOK
  <2>1. Cardinality(Id) \in Nat
    BY FS_CardinalityType, ReconcilerAssumption
  <2>2. Tables
    BY <1>1 DEF ReconcilerInvariant
  <2>3. status = None \/ (status.result \in {"ok", "error"} /\ status.changed \in 0 .. Cardinality(Id))
    BY <2>2 DEF Tables, Report, Result
  <2>4. ASSUME NEW p \in Pass
        PROVE  /\ pass[p].step \in Calling \cup {"idle", "insert", "select", "record", "commit"}
               /\ pass[p].todo \cup pass[p].wrong \subseteq Wanted(pass[p].routes)
               /\ pass[p].stale \cap Wanted(pass[p].routes) = {}
               /\ pass[p].changed <= Cardinality(Id)
               /\ pass[p].listed \/ pass[p].stale = {}
    <3>1. pass[p] \in PassRecord /\ Proper(pass[p])
      BY <1>1, <2>2 DEF Tables, ReconcilerInvariant
    <3>2. CASE pass[p].step \in Calling
      <4>1. Sound(pass[p]) /\ Open(pass[p]) \in SUBSET Id
        BY <3>1, <3>2 DEF Proper, Open, PassRecord
      <4>2. Cardinality(Open(pass[p])) \in Nat
        BY <4>1, FewerOpen
      <4>3. QED
        BY <2>1, <3>1, <4>1, <4>2 DEF Sound, PassRecord, PassStep
    <3>3. CASE pass[p].step \notin Calling
      BY <3>1, <3>3 DEF Proper, PassRecord, PassStep
    <3>4. QED
      BY <3>2, <3>3
  <2>5. QED
    BY <2>2, <2>3, <2>4 DEF Tables, TypeOK
<1>2. QED
  BY <1>1, ReconcilerInvariantHolds, PTL

\* A pass that ends with "ok" has found every id right, or made it so.
LEMMA EndsSettled ==
  ASSUME ReconcilerInvariant, Next, NEW p \in Pass, pass[p].step \in Calling,
         pass'[p].step = "record", pass'[p].result = "ok"
  PROVE  \A i \in Id : Settled(p, pass[p].routes, i)
<1>1. pass'[p] # pass[p] /\ Watch
  BY DEF Calling, Next
<1>2. Step(p)
  BY <1>1, MoverActs DEF Next
<1>3. CASE GetRoute(p) \/ ListRoutes(p) \/ Write(p)
  BY <1>1, <1>3, GetMoves, ListMoves, WriteMoves
<1>4. ~(Begin(p) \/ InsertDefault(p) \/ Select(p) \/ Record(p) \/ Commit(p))
  BY DEF Begin, InsertDefault, Select, Record, Commit, Calling
<1>5. ~Stop(p)
  BY IdleProper DEF Stop, Set, ReconcilerInvariant, Tables
<1>6. ~Fail(p)
  <2>1. Fail(p) => pass'[p] = Recording(pass[p], "error")
    BY DEF Fail, Set, Failed, ReconcilerInvariant, Tables
  <2>2. Recording(pass[p], "error").result = "error"
    BY DEF Recording, Idle
  <2>3. QED
    BY <2>1, <2>2
<1>7. QED
  BY <1>2, <1>3, <1>4, <1>5, <1>6 DEF Step

\* The status "ok" is true: every id was right at some moment of the pass.
THEOREM OkMeansReconciledHolds == Spec => OkMeansReconciled
<1> DEFINE A == \A p \in Pass :
                  (/\ pass[p].step \in Calling
                   /\ pass'[p].step = "record" /\ pass'[p].result = "ok")
                  => \A i \in Id : i \in right[p] \/ Right(pass[p].routes, gateway', i)
<1>1. ReconcilerInvariant /\ [Next]_vars => [A]_vars
  BY EndsSettled DEF Settled
<1>2. QED
  BY <1>1, ReconcilerInvariantHolds, PTL DEF Spec, OkMeansReconciled

\* With fail_closed, a read that fails ends a pass that has written nothing.
LEMMA ReadsComeFirst ==
  ASSUME ReconcilerInvariant, Next, NEW p \in Pass, fail_closed,
         pass[p].step \in {"get", "list"},
         pass'[p].step = "record", pass'[p].result = "error"
  PROVE  pass'[p].changed = 0
<1>1. pass'[p] # pass[p] /\ pass[p] \in PassRecord /\ Proper(pass[p])
  BY DEF ReconcilerInvariant, Tables
<1>2. Sound(pass[p]) /\ ~pass[p].listed /\ pass[p].changed = 0
  BY <1>1 DEF Proper, Sound, Calling
<1>3. Step(p) /\ Watch
  BY <1>1, MoverActs DEF Next
<1>4. ~(Begin(p) \/ InsertDefault(p) \/ Select(p) \/ Write(p) \/ Record(p) \/ Commit(p))
  BY DEF Begin, InsertDefault, Select, Write, Record, Commit
<1>5. ~Stop(p)
  BY IdleProper DEF Stop, Set, ReconcilerInvariant, Tables
<1>6. CASE Fail(p)
  <2>1. pass'[p] = Recording(pass[p], "error")
    BY <1>6 DEF Fail, Set, Failed, ReconcilerInvariant, Tables
  <2>2. Recording(pass[p], "error").changed = pass[p].changed
    BY DEF Recording, Idle
  <2>3. QED
    BY <1>2, <2>1, <2>2
<1>7. fail_closed \in BOOLEAN
  BY DEF ReconcilerInvariant, Tables
<1>8. CASE GetRoute(p)
  <2>1. pass'[p] = Proceed(AfterGet(pass[p]))
    BY <1>8 DEF GetRoute, Set, AfterGet, ReconcilerInvariant, Tables
  <2>2. AfterGet(pass[p]) \in PassRecord /\ Sound(AfterGet(pass[p])) /\ AfterGet(pass[p]).was = None
    BY <1>1, <1>8, AfterGetSound DEF GetRoute
  <2>3. pass'[p].step = "record" => pass'[p].result = "ok"
    BY <1>7, <2>1, <2>2, ProceedProper DEF Calling
  <2>4. QED
    BY <2>3
<1>9. CASE ListRoutes(p)
  <2>1. pass'[p] = Proceed(AfterList(pass[p]))
    BY <1>9 DEF ListRoutes, Set, AfterList, ReconcilerInvariant, Tables
  <2>2. AfterList(pass[p]) \in PassRecord /\ Sound(AfterList(pass[p])) /\ AfterList(pass[p]).was = None
    BY <1>1, <1>9, AfterListSound DEF ListRoutes
  <2>3. pass'[p].step = "record" => pass'[p].result = "ok"
    BY <1>7, <2>1, <2>2, ProceedProper DEF Calling
  <2>4. QED
    BY <2>3
<1>10. QED
  BY <1>3, <1>4, <1>5, <1>6, <1>8, <1>9 DEF Step

\* With fail_closed, a pass whose read fails leaves every route as it was.
THEOREM ReadFailuresPreserve == Spec => ReadFailurePreservesRoutes
<1> DEFINE A == \A p \in Pass :
                  (/\ fail_closed /\ pass[p].step \in {"get", "list"}
                   /\ pass'[p].step = "record" /\ pass'[p].result = "error")
                  => pass'[p].changed = 0
<1>1. ReconcilerInvariant /\ [Next]_vars => [A]_vars
  BY ReadsComeFirst
<1>2. QED
  BY <1>1, ReconcilerInvariantHolds, PTL DEF Spec, ReadFailurePreservesRoutes

\* A pass writes to the id it is at only, and what it knows of an undisturbed
\* id is still so.
LEMMA WritesRepair ==
  ASSUME ReconcilerInvariant, Next, NEW p \in Pass, NEW i \in Id,
         pass'[p] # pass[p], gateway'[i] # gateway[i], i \notin disturbed[p]
  PROVE  ~Right(rows, gateway, i) /\ Right(rows, gateway', i)
<1>1. Step(p)
  BY MoverActs DEF Next
<1>2. pass[p].step \in {"put", "delete"} /\ Apply(Pending(pass[p]))
  BY <1>1 DEF Step, Begin, InsertDefault, Select, GetRoute, ListRoutes, Write, Record,
              Commit, Fail, Stop
<1>3. /\ i = At(pass[p]) /\ i \in pass[p].wrong \cup pass[p].stale
      /\ Right(pass[p].routes, gateway', i)
  BY <1>2, Written
<1>4. rows[i] = pass[p].routes[i] /\ ~Right(rows, gateway, i)
  BY <1>2, <1>3 DEF ReconcilerInvariant, Informed, Calling
<1>5. QED
  BY <1>3, <1>4 DEF Right

\* Unless somebody else changed the id during the pass, a pass changes only a
\* route that is wrong, and makes it right.
THEOREM WritesAreRepairs == Spec => UndisturbedWritesRepair
<1> DEFINE A == \A p \in Pass, i \in Id :
                  (/\ pass'[p] # pass[p] /\ gateway'[i] # gateway[i] /\ i \notin disturbed[p])
                  => ~Right(rows, gateway, i) /\ Right(rows, gateway', i)
<1>1. ReconcilerInvariant /\ [Next]_vars => [A]_vars
  BY WritesRepair
<1>2. QED
  BY <1>1, ReconcilerInvariantHolds, PTL DEF Spec, UndisturbedWritesRepair

=============================================================================
