---------------------------- MODULE AdminProofs -----------------------------
(***************************************************************************)
(* The admin plane implements Registry for every set of rows, principals   *)
(* and concurrent requests, so what RegistryProofs shows of committed      *)
(* transactions holds of the handlers' interleaved statements.             *)
(*                                                                         *)
(* The invariant says what a handler may still rely on when it commits:    *)
(* rows it found keep existing, the row it inserts is still free, nobody   *)
(* else inserts it, and an agent has rotations left for everybody who is   *)
(* about to rotate its token.                                              *)
(***************************************************************************)
EXTENDS AdminApi, RegistryProofs, FiniteSetTheorems

-----------------------------------------------------------------------------
(* Parents                                                                 *)

\* Every row but a workspace has a parent to check, and parents are rows.
LEMMA ParentsAreRows ==
  ASSUME NEW r \in Row \ Workspace
  PROVE  /\ Len(Parents(r)) \in 1 .. 5
         /\ \A i \in 1 .. Len(Parents(r)) : Parents(r)[i] \in Row
<1>1. home[r] \in Row
  BY RowAssumption DEF Row
<1>2. CASE r \in Binding
  <2>1. Parents(r) = <<home[r], binds[r].agent, binds[r].user,
                       binds[r].capability, binds[r].role>>
    BY <1>2, DisjointAssumption DEF Parents
  <2>2. /\ binds[r].agent \in Row /\ binds[r].user \in Row
        /\ binds[r].capability \in Row /\ binds[r].role \in Row
    BY <1>2, RowAssumption DEF Row
  <2>3. QED
    BY <1>1, <2>1, <2>2
<1>3. CASE r \in Secret
  <2>1. holds[r].app \in Row /\ holds[r].owner \in Row
    BY <1>3, RowAssumption DEF Row
  <2>2. r \notin Binding /\ r \notin Capability
    BY <1>3, DisjointAssumption
  <2>3. CASE holds[r].owner \in Workspace
    <3>1. Parents(r) = <<home[r], holds[r].app>>
      BY <1>3, <2>2, <2>3 DEF Parents
    <3>2. QED
      BY <1>1, <2>1, <3>1
  <2>4. CASE holds[r].owner \notin Workspace
    <3>1. Parents(r) = <<home[r], holds[r].app, holds[r].owner>>
      BY <1>3, <2>2, <2>4 DEF Parents
    <3>2. QED
      BY <1>1, <2>1, <3>1
  <2>5. QED
    BY <2>3, <2>4
<1>4. CASE r \in Capability
  <2>1. appOf[r] \in Row
    BY <1>4, RowAssumption DEF Row
  <2>2. Parents(r) = <<home[r], appOf[r]>>
    BY <1>4, DisjointAssumption DEF Parents
  <2>3. QED
    BY <1>1, <2>1, <2>2
<1>5. CASE r \notin Binding \cup Secret \cup Capability
  <2>1. Parents(r) = <<home[r]>>
    BY <1>5 DEF Parents
  <2>2. QED
    BY <1>1, <2>1
<1>6. QED
  BY <1>2, <1>3, <1>4, <1>5

\* The parents a handler checks are all that a foreign key names: a workspace
\* that owns a secret is its home.
LEMMA ReferencesAreParents ==
  ASSUME NEW r \in Row \ Workspace, WellPlaced(r), NEW x \in References(r) \cup {home[r]}
  PROVE  \E i \in 1 .. Len(Parents(r)) : Parents(r)[i] = x
<1>1. CASE r \in Binding
  <2>1. Parents(r) = <<home[r], binds[r].agent, binds[r].user,
                       binds[r].capability, binds[r].role>>
    BY <1>1, DisjointAssumption DEF Parents
  <2>2. References(r) = {binds[r].agent, binds[r].user, binds[r].capability, binds[r].role}
    BY <1>1, DisjointAssumption DEF References
  <2>3. /\ Len(Parents(r)) = 5 /\ Parents(r)[1] = home[r] /\ Parents(r)[2] = binds[r].agent
        /\ Parents(r)[3] = binds[r].user /\ Parents(r)[4] = binds[r].capability
        /\ Parents(r)[5] = binds[r].role
    BY <2>1
  <2>4. QED
    BY <2>2, <2>3
<1>2. CASE r \in Secret
  <2>1. r \notin Binding /\ r \notin Capability
    BY <1>2, DisjointAssumption
  <2>2. References(r) = {holds[r].app, holds[r].owner}
    BY <1>2, <2>1 DEF References
  <2>3. CASE holds[r].owner \in Workspace
    <3>1. Parents(r) = <<home[r], holds[r].app>>
      BY <1>2, <2>1, <2>3 DEF Parents
    <3>2. holds[r].owner = home[r]
      BY <2>2, <2>3, RowAssumption DEF WellPlaced
    <3>3. Len(Parents(r)) = 2 /\ Parents(r)[1] = home[r] /\ Parents(r)[2] = holds[r].app
      BY <3>1
    <3>4. QED
      BY <2>2, <3>2, <3>3
  <2>4. CASE holds[r].owner \notin Workspace
    <3>1. Parents(r) = <<home[r], holds[r].app, holds[r].owner>>
      BY <1>2, <2>1, <2>4 DEF Parents
    <3>2. /\ Len(Parents(r)) = 3 /\ Parents(r)[1] = home[r] /\ Parents(r)[2] = holds[r].app
          /\ Parents(r)[3] = holds[r].owner
      BY <3>1
    <3>3. QED
      BY <2>2, <3>2
  <2>5. QED
    BY <2>3, <2>4
<1>3. CASE r \in Capability
  <2>1. Parents(r) = <<home[r], appOf[r]>> /\ References(r) = {appOf[r]}
    BY <1>3, DisjointAssumption DEF Parents, References
  <2>2. Len(Parents(r)) = 2 /\ Parents(r)[1] = home[r] /\ Parents(r)[2] = appOf[r]
    BY <2>1
  <2>3. QED
    BY <2>1, <2>2
<1>4. CASE r \notin Binding \cup Secret \cup Capability
  <2>1. Parents(r) = <<home[r]>> /\ References(r) = {}
    BY <1>4 DEF Parents, References
  <2>2. Len(Parents(r)) = 1 /\ Parents(r)[1] = home[r]
    BY <2>1
  <2>3. QED
    BY <2>1, <2>2
<1>5. QED
  BY <1>1, <1>2, <1>3, <1>4

\* So when every parent was found, a foreign key names only rows that exist.
LEMMA ParentsCoverReferences ==
  ASSUME NEW r \in Row \ Workspace, WellPlaced(r),
         \A i \in 1 .. Len(Parents(r)) : Exists(Parents(r)[i])
  PROVE  Exists(home[r]) /\ \A x \in References(r) : Exists(x)
<1>1. \A x \in References(r) \cup {home[r]} : Exists(x)
  <2> SUFFICES ASSUME NEW x \in References(r) \cup {home[r]} PROVE Exists(x)
    OBVIOUS
  <2>1. PICK i \in 1 .. Len(Parents(r)) : Parents(r)[i] = x
    BY ReferencesAreParents
  <2>2. QED
    BY <2>1
<1>2. QED
  BY <1>1

-----------------------------------------------------------------------------
(* Commands                                                                *)

\* What the commands of each kind look like.
LEMMA CommandShapes ==
  ASSUME NEW c \in Commands
  PROVE  /\ c \in Command
         /\ c.op \in {"create", "set"} => c.row \in Row /\ c.by = None
         /\ c.op = "rotate" => /\ c.row \in Secret /\ c.by \in Secret /\ c.row # c.by
                               /\ SameSlot(c.row, c.by) /\ c.to = "active"
         /\ c.op = "retoken" => c.row \in Agent /\ c.by = None
         /\ c.op \in {"define", "list"} => c.by = None
  BY DEF Commands, Creates, Rotates, Command, Op, Row

-----------------------------------------------------------------------------
(* Steps that change no row                                                *)

\* What a handler knows by itself.
Local(p) == Commanded(p) /\ ParentsFound(p) /\ Fits(p) /\ Found(p)

Rotators(a) ==
  {p \in Caller : InFlight(p) /\ cmd[p].op = "retoken" /\ cmd[p].row = a}

\* Rows that keep existing leave a handler that does not move with what it knew.
LEMMA OthersKeepLocal ==
  ASSUME AdminInvariant, NEW q \in Caller,
         step'[q] = step[q], cmd'[q] = cmd[q], next'[q] = next[q],
         \A r \in Row : Exists(r) => Exists(r)'
  PROVE  Local(q)'
<1>1. Local(q)
  BY DEF AdminInvariant, Local
<1>2. Commanded(q)'
  BY <1>1 DEF Local, Commanded
<1>3. ParentsFound(q)'
  <2> SUFFICES ASSUME step[q] = "check"
               PROVE  /\ cmd[q].op \in {"create", "set", "rotate"}
                      /\ cmd[q].row \in Row \ Workspace
                      /\ next[q] \in 1 .. Len(Parents(cmd[q].row))
                      /\ \A i \in 1 .. (next[q] - 1) : Exists(Parents(cmd[q].row)[i])'
    BY DEF ParentsFound, Parents
  <2>1. ParentsFound(q)
    BY <1>1 DEF Local
  <2>2. cmd[q].row \in Row \ Workspace
    BY <2>1 DEF ParentsFound
  <2>3. Len(Parents(cmd[q].row)) \in Nat
    BY <2>2, ParentsAreRows
  <2>4. \A i \in 1 .. (next[q] - 1) : Parents(cmd[q].row)[i] \in Row
    BY <2>1, <2>2, <2>3, ParentsAreRows DEF ParentsFound
  <2>5. QED
    BY <2>1, <2>4 DEF ParentsFound
<1>4. Fits(q)'
  <2> SUFFICES ASSUME step[q] \in {"seed", "write"}, cmd[q].op = "create",
                      cmd[q].row \notin Workspace
               PROVE  /\ WellPlaced(cmd[q].row)
                      /\ Exists(home[cmd[q].row])'
                      /\ \A x \in References(cmd[q].row) : Exists(x)'
    BY DEF Fits, WellPlaced, References
  <2>1. Fits(q) /\ Commanded(q)
    BY <1>1 DEF Local
  <2>2. cmd[q].row \in Row
    BY <2>1, CommandShapes DEF Commanded
  <2>3. home[cmd[q].row] \in Row /\ References(cmd[q].row) \subseteq Row
    BY <2>2, ReferencesAreRows, RowAssumption DEF Row
  <2>4. QED
    BY <2>1, <2>3 DEF Fits
<1>5. Found(q)'
  <2>1. Found(q) /\ Commanded(q)
    BY <1>1 DEF Local
  <2>2. step[q] # "idle" /\ cmd[q].op \in {"set", "rotate", "retoken"} => cmd[q].row \in Row
    BY <2>1, CommandShapes DEF Commanded, Row
  <2>3. QED
    BY <2>1, <2>2 DEF Found
<1>6. QED
  BY <1>2, <1>3, <1>4, <1>5 DEF Local

\* A step within a handler that commits nothing: only what it knows is at stake.
LEMMA QuietStep ==
  ASSUME AdminInvariant, NEW p \in Caller, InFlight(p),
         UNCHANGED <<status, generation, cmd>>,
         step' \in [Caller -> Step], next' \in [Caller -> Nat],
         \A q \in Caller \ {p} : step'[q] = step[q] /\ next'[q] = next[q],
         Local(p)'
  PROVE  AdminInvariant'
<1>1. \A q \in Caller : Local(q)'
  <2> SUFFICES ASSUME NEW q \in Caller \ {p} PROVE Local(q)'
    OBVIOUS
  <2>1. \A r \in Row : Exists(r) => Exists(r)'
    BY DEF Exists
  <2>2. QED
    BY <2>1, OthersKeepLocal
<1>2. \A q \in Caller : InFlight(q)' => InFlight(q)
  BY DEF InFlight
<1>3. IdsFree'
  <2>1. \A q \in Caller : Inserts(q)' = Inserts(q) \/ Inserts(q)' = {}
    BY <1>2 DEF Inserts
  <2>2. \A q \in Caller : Inserts(q)' \subseteq Inserts(q)
    BY <2>1
  <2>3. QED
    BY <2>2 DEF IdsFree, AdminInvariant
<1>4. RotationsLeft'
  <2> SUFFICES ASSUME NEW a \in Agent
               PROVE  generation[a] + Retokens(a)' <= MaxGeneration
    BY DEF RotationsLeft
  <2>1. Rotators(a)' \in SUBSET Rotators(a)
    BY <1>2 DEF Rotators
  <2>2. IsFiniteSet(Rotators(a))
    BY FS_Subset, AdminAssumption DEF Rotators
  <2>3. /\ Cardinality(Rotators(a)') <= Cardinality(Rotators(a))
        /\ Cardinality(Rotators(a)') \in Nat /\ Cardinality(Rotators(a)) \in Nat
    BY <2>1, <2>2, FS_Subset, FS_CardinalityType
  <2>4. /\ Retokens(a) = Cardinality(Rotators(a))
        /\ Retokens(a)' = Cardinality(Rotators(a)')
    BY DEF Retokens, Rotators
  <2>5. generation[a] \in Nat /\ generation[a] + Retokens(a) <= MaxGeneration
    BY RowAssumption DEF AdminInvariant, RotationsLeft, TypeOK
  <2>6. QED
    BY <2>3, <2>4, <2>5, RowAssumption
<1>5. QED
  BY <1>1, <1>3, <1>4 DEF AdminInvariant, Local, TypeOK

-----------------------------------------------------------------------------
(* The statements of a handler before its commit                           *)

\* A handler that ends with a refusal relies on nothing any more.
LEMMA RefuseKeeps ==
  ASSUME AdminInvariant, NEW p \in Caller, NEW from \in {"auth", "load", "check", "seed", "write"},
         NEW why, Refuse(p, from, why)
  PROVE  AdminInvariant' /\ UNCHANGED registryVars
<1> USE DEF Refuse, Goto, registryVars
<1>1. InFlight(p) /\ step'[p] = "done" /\ step' \in [Caller -> Step]
  BY DEF AdminInvariant, InFlight, Step
<1>2. Local(p)'
  <2>1. Commanded(p)
    BY DEF AdminInvariant
  <2>2. Commanded(p)'
    BY <2>1 DEF Commanded
  <2>3. QED
    BY <1>1, <2>2 DEF Local, ParentsFound, Fits, Found
<1>3. QED
  BY <1>1, <1>2, QuietStep DEF AdminInvariant

\* Authentication reads the workspace of the principal and changes no row.
LEMMA AuthenticateKeeps ==
  ASSUME AdminInvariant, NEW p \in Caller, Authenticate(p)
  PROVE  AdminInvariant' /\ UNCHANGED registryVars
<1>1. CASE Refuse(p, "auth", "unauthenticated")
  BY <1>1, RefuseKeeps
<1>2. CASE /\ Goto(p, "auth", "load")
           /\ UNCHANGED <<cmd, scope, next, loaded, missing, answer, trail, registryVars, codes>>
  <2> USE <1>2 DEF Goto, registryVars
  <2>1. InFlight(p) /\ step'[p] = "load" /\ step' \in [Caller -> Step]
    BY DEF AdminInvariant, InFlight, Step
  <2>2. Commanded(p)'
    BY DEF AdminInvariant, Commanded
  <2>3. Local(p)'
    BY <2>1, <2>2 DEF Local, ParentsFound, Fits, Found
  <2>4. QED
    BY <2>1, <2>3, QuietStep DEF AdminInvariant
<1>3. QED
  BY <1>1, <1>2 DEF Authenticate

\* The first parent is still to be checked.
LEMMA CheckingStarts ==
  ASSUME AdminInvariant, NEW p \in Caller, UNCHANGED cmd,
         cmd[p].op \in {"create", "set", "rotate"}, cmd[p].row \in Row \ Workspace,
         next'[p] = 1, UNCHANGED status
  PROVE  ParentsFound(p)'
<1>1. Len(Parents(cmd[p].row)) \in 1 .. 5
  BY ParentsAreRows
<1>2. QED
  BY <1>1 DEF ParentsFound, Parents

\* A command that loads no row has found everything it asked for so far: nothing.
LEMMA BeginKeeps ==
  ASSUME AdminInvariant, NEW p \in Caller, Begin(p)
  PROVE  AdminInvariant' /\ UNCHANGED registryVars
<1>1. CASE Refuse(p, "load", "forbidden")
  BY <1>1, RefuseKeeps
<1>2. CASE /\ cmd[p].op \in {"create", "define", "list"}
           /\ Goto(p, "load", IF cmd[p].op = "list" THEN "seed"
                              ELSE IF cmd[p].op = "define" \/ cmd[p].row \in Workspace
                              THEN "write" ELSE "check")
           /\ next' = [next EXCEPT ![p] = 1]
           /\ UNCHANGED <<cmd, scope, loaded, missing, answer, trail, registryVars, codes>>
  <2> USE <1>2 DEF Goto, registryVars
  <2>1. /\ InFlight(p) /\ step' \in [Caller -> Step] /\ next' \in [Caller -> Nat]
        /\ next'[p] = 1
        /\ step'[p] = IF cmd[p].op = "list" THEN "seed"
                      ELSE IF cmd[p].op = "define" \/ cmd[p].row \in Workspace
                      THEN "write" ELSE "check"
    BY DEF AdminInvariant, InFlight, Step
  <2>2. Commanded(p)' /\ cmd[p] \in Commands
    BY DEF AdminInvariant, Commanded
  <2>3. ParentsFound(p)'
    <3>1. CASE step'[p] = "check"
      <4>1. cmd[p].op = "create" /\ cmd[p].row \notin Workspace
        BY <2>1, <3>1
      <4>2. cmd[p].row \in Row
        BY <2>2, <4>1, CommandShapes
      <4>3. QED
        BY <2>1, <4>1, <4>2, CheckingStarts
    <3>2. CASE step'[p] # "check"
      BY <3>2 DEF ParentsFound
    <3>3. QED
      BY <3>1, <3>2
  <2>4. Fits(p)' /\ Found(p)'
    BY <2>1 DEF Fits, Found
  <2>5. Local(p)'
    BY <2>2, <2>3, <2>4 DEF Local
  <2>6. QED
    BY <2>1, <2>5, QuietStep
<1>3. QED
  BY <1>1, <1>2 DEF Begin

\* A loaded target exists, and stays.
LEMMA LoadKeeps ==
  ASSUME AdminInvariant, NEW p \in Caller, Load(p)
  PROVE  AdminInvariant' /\ UNCHANGED registryVars
<1> DEFINE c == cmd[p]
           mustCheck == \/ c.op = "rotate"
                        \/ c.op = "set" /\ c.to = "active" /\ c.row \notin Workspace
<1>1. CASE Refuse(p, "load", "not_found")
  BY <1>1, RefuseKeeps
<1>2. CASE Refuse(p, "load", "forbidden")
  BY <1>2, RefuseKeeps
<1>3. CASE /\ c.op \in {"set", "rotate", "retoken"}
           /\ IF c.op = "rotate" THEN Active(c.row) ELSE Exists(c.row)
           /\ Goto(p, "load", IF mustCheck THEN "check" ELSE "write")
           /\ next' = [next EXCEPT ![p] = 1]
           /\ UNCHANGED <<cmd, scope, missing, answer, trail, registryVars, codes>>
  <2> USE <1>3 DEF Goto, registryVars
  <2>1. /\ InFlight(p) /\ step' \in [Caller -> Step] /\ next' \in [Caller -> Nat]
        /\ next'[p] = 1 /\ step'[p] = IF mustCheck THEN "check" ELSE "write"
    BY DEF AdminInvariant, InFlight, Step
  <2>2. Commanded(p)' /\ c \in Commands
    BY DEF AdminInvariant, Commanded
  <2>3. ParentsFound(p)'
    <3>1. CASE step'[p] = "check"
      <4>1. mustCheck
        BY <2>1, <3>1
      <4>2. c.op \in {"set", "rotate"} /\ c.row \in Row \ Workspace
        BY <2>2, <4>1, CommandShapes, DisjointAssumption DEF Row
      <4>3. QED
        BY <2>1, <4>2, CheckingStarts
    <3>2. CASE step'[p] # "check"
      BY <3>2 DEF ParentsFound
    <3>3. QED
      BY <3>1, <3>2
  <2>4. Found(p)'
    BY DEF Found, Exists, Active
  <2>5. Fits(p)'
    BY DEF Fits
  <2>6. Local(p)'
    BY <2>2, <2>3, <2>4, <2>5 DEF Local
  <2>7. QED
    BY <2>1, <2>6, QuietStep
<1>4. QED
  BY <1>1, <1>2, <1>3 DEF Load

\* The last parent found, a row to be created fits.
LEMMA CheckKeeps ==
  ASSUME AdminInvariant, NEW p \in Caller, Check(p)
  PROVE  AdminInvariant' /\ UNCHANGED registryVars
<1> DEFINE r == cmd[p].row
           last == next[p] = Len(Parents(r))
<1>1. CASE Refuse(p, "check", "not_found")
  BY <1>1, RefuseKeeps
<1>2. CASE Refuse(p, "check", "mismatch")
  BY <1>2, RefuseKeeps
<1>3. CASE /\ ParentActive(p) /\ (last => WellPlaced(r))
           /\ next' = [next EXCEPT ![p] = @ + 1]
           /\ Goto(p, "check", IF ~last THEN "check"
                               ELSE IF r \in Role /\ cmd[p].op = "create"
                               THEN "seed" ELSE "write")
           /\ UNCHANGED <<cmd, scope, loaded, missing, answer, trail, registryVars, codes>>
  <2> USE <1>3 DEF Goto, registryVars
  <2>1. /\ InFlight(p) /\ step' \in [Caller -> Step] /\ next' \in [Caller -> Nat]
        /\ step[p] = "check" /\ next[p] \in Nat /\ next'[p] = next[p] + 1
        /\ step'[p] = IF ~last THEN "check"
                      ELSE IF r \in Role /\ cmd[p].op = "create" THEN "seed" ELSE "write"
    BY DEF AdminInvariant, InFlight, Step
  <2>2. Commanded(p)' /\ ParentsFound(p) /\ Found(p)
    BY DEF AdminInvariant, Commanded
  <2>3. /\ cmd[p].op \in {"create", "set", "rotate"} /\ r \in Row \ Workspace
        /\ next[p] \in 1 .. Len(Parents(r))
        /\ Len(Parents(r)) \in Nat
    BY <2>1, <2>2, ParentsAreRows DEF ParentsFound
  <2>4. \A i \in 1 .. next[p] : Exists(Parents(r)[i])
    <3>1. Exists(Parents(r)[next[p]])
      BY DEF ParentActive, Active, Exists
    <3>2. \A i \in 1 .. (next[p] - 1) : Exists(Parents(r)[i])
      BY <2>1, <2>2 DEF ParentsFound
    <3>3. \A i \in 1 .. next[p] : i = next[p] \/ i \in 1 .. (next[p] - 1)
      BY <2>1
    <3>4. QED
      BY <3>1, <3>2, <3>3
  <2>5. ParentsFound(p)'
    <3>1. CASE ~last
      <4>1. next'[p] \in 1 .. Len(Parents(r))
        BY <2>1, <2>3, <3>1
      <4>2. \A i \in 1 .. (next'[p] - 1) : Exists(Parents(r)[i])'
        BY <2>1, <2>4 DEF Exists
      <4>3. QED
        BY <2>3, <4>1, <4>2 DEF ParentsFound, Parents
    <3>2. CASE last
      <4>1. step'[p] \in {"seed", "write"}
        BY <2>1, <3>2
      <4>2. QED
        BY <4>1 DEF ParentsFound
    <3>3. QED
      BY <3>1, <3>2
  <2>6. Fits(p)'
    <3>1. CASE last
      <4>1. WellPlaced(r) /\ Exists(home[r]) /\ \A x \in References(r) : Exists(x)
        BY <2>3, <2>4, <3>1, ParentsCoverReferences
      <4>2. QED
        BY <4>1 DEF Fits, WellPlaced, References, Exists
    <3>2. CASE ~last
      BY <2>1, <3>2 DEF Fits
    <3>3. QED
      BY <3>1, <3>2
  <2>7. Found(p)'
    BY <2>1, <2>2, <2>3 DEF Found, Exists
  <2>8. Local(p)'
    BY <2>2, <2>5, <2>6, <2>7 DEF Local
  <2>9. QED
    BY <2>1, <2>8, QuietStep
<1>4. QED
  BY <1>1, <1>2, <1>3 DEF Check

\* Looking for the permission codes that are missing changes no row.
LEMMA SeedPermissionsKeeps ==
  ASSUME AdminInvariant, NEW p \in Caller, SeedPermissions(p)
  PROVE  AdminInvariant' /\ UNCHANGED registryVars
<1>1. CASE Refuse(p, "seed", "unknown_code")
  BY <1>1, RefuseKeeps
<1>2. CASE /\ Goto(p, "seed", "write")
           /\ UNCHANGED <<cmd, scope, next, loaded, answer, trail, registryVars, codes>>
  <2> USE <1>2 DEF Goto, registryVars
  <2>1. /\ InFlight(p) /\ step' \in [Caller -> Step]
        /\ step[p] = "seed" /\ step'[p] = "write"
    BY DEF AdminInvariant, InFlight, Step
  <2>2. Commanded(p)' /\ Fits(p) /\ Found(p)
    BY DEF AdminInvariant, Commanded
  <2>3. Fits(p)' /\ Found(p)'
    BY <2>1, <2>2 DEF Fits, Found, WellPlaced, References, Exists
  <2>4. Local(p)'
    BY <2>1, <2>2, <2>3 DEF Local, ParentsFound
  <2>5. QED
    BY <2>1, <2>4, QuietStep DEF AdminInvariant
<1>3. QED
  BY <1>1, <1>2 DEF SeedPermissions

\* A conflict at the commit changes no row.
LEMMA ConflictKeeps ==
  ASSUME AdminInvariant, NEW p \in Caller, Conflict(p)
  PROVE  AdminInvariant' /\ UNCHANGED registryVars
  BY RefuseKeeps DEF Conflict

-----------------------------------------------------------------------------
(* Arrival                                                                 *)

\* A new rotation counts towards the bound of its agent.
LEMMA ReceiveCountsRotation ==
  ASSUME AdminInvariant, NEW p \in Caller, Receive(p), NEW a \in Agent
  PROVE  generation[a] + Retokens(a)' <= MaxGeneration
<1> DEFINE mine == cmd'[p].op = "retoken" /\ cmd'[p].row = a
<1>1. /\ step[p] = "idle" /\ step'[p] = "auth"
      /\ \A q \in Caller \ {p} : step'[q] = step[q] /\ cmd'[q] = cmd[q]
      /\ cmd'[p].op = "retoken" => generation[cmd'[p].row] + Retokens(cmd'[p].row) < MaxGeneration
  BY DEF Receive, Goto, AdminInvariant, Retokens, InFlight
<1>2. Rotators(a)' \subseteq Rotators(a) \cup {p} /\ p \notin Rotators(a)
  BY <1>1 DEF Rotators, InFlight
<1>3. ~mine => Rotators(a)' \subseteq Rotators(a)
  BY <1>1, <1>2 DEF Rotators
<1>4. IsFiniteSet(Rotators(a)) /\ IsFiniteSet(Rotators(a) \cup {p})
  BY FS_Subset, FS_AddElement, AdminAssumption DEF Rotators
<1>5. /\ Retokens(a) = Cardinality(Rotators(a)) /\ Retokens(a)' = Cardinality(Rotators(a)')
      /\ Cardinality(Rotators(a)) \in Nat
      /\ Cardinality(Rotators(a) \cup {p}) = Cardinality(Rotators(a)) + 1
  BY <1>2, <1>4, FS_CardinalityType, FS_AddElement DEF Retokens, Rotators
<1>6. generation[a] \in Nat /\ generation[a] + Retokens(a) <= MaxGeneration /\ MaxGeneration \in Nat
  BY RowAssumption DEF AdminInvariant, RotationsLeft, TypeOK
<1>7. CASE mine
  <2>1. generation[a] + Cardinality(Rotators(a)) < MaxGeneration
    BY <1>1, <1>5, <1>7
  <2>2. /\ Cardinality(Rotators(a)') <= Cardinality(Rotators(a) \cup {p})
        /\ Cardinality(Rotators(a)') \in Nat
    BY <1>2, <1>4, FS_Subset, FS_CardinalityType
  <2>3. QED
    BY <1>5, <1>6, <2>1, <2>2
<1>8. CASE ~mine
  <2>1. /\ Cardinality(Rotators(a)') <= Cardinality(Rotators(a))
        /\ Cardinality(Rotators(a)') \in Nat
    BY <1>3, <1>4, <1>8, FS_Subset, FS_CardinalityType
  <2>2. QED
    BY <1>5, <1>6, <2>1
<1>9. QED
  BY <1>7, <1>8

\* A new binding or secret gets an id nobody holds.
LEMMA ReceiveKeepsIds ==
  ASSUME AdminInvariant, NEW p \in Caller, Receive(p)
  PROVE  IdsFree'
<1>1. PICK c \in Commands :
        /\ c.op = "create" => FreshId(c.row)
        /\ c.op = "rotate" => FreshId(c.by)
        /\ cmd' = [cmd EXCEPT ![p] = c]
  BY DEF Receive
<1>2. /\ step[p] = "idle" /\ step'[p] = "auth" /\ cmd'[p] = c
      /\ UNCHANGED status
      /\ \A q \in Caller \ {p} : Inserts(q)' = Inserts(q)
  BY <1>1 DEF Receive, Goto, AdminInvariant, Inserts, InFlight, registryVars
<1>3. \A r \in Inserts(p)' \cap (Binding \cup Secret) : FreshId(r)
  <2>1. Inserts(p)' = IF c.op = "create" THEN {c.row} ELSE {c.by}
    BY <1>2 DEF Inserts, InFlight
  <2>2. c.op \notin {"create", "rotate"} => c.by \notin Binding \cup Secret
    BY CommandShapes, AdminAssumption DEF Command, Op, Row
  <2>3. QED
    BY <1>1, <2>1, <2>2
<1>4. \A r \in Inserts(p)' \cap (Binding \cup Secret) :
        /\ status[r] = "absent"
        /\ \A q \in Caller \ {p} : r \notin Inserts(q)'
  BY <1>2, <1>3 DEF FreshId
<1>5. IdsFree
  BY DEF AdminInvariant
<1>6. QED
  BY <1>2, <1>4, <1>5 DEF IdsFree

\* A request that arrives takes ids that nobody else has.
LEMMA ReceiveKeeps ==
  ASSUME AdminInvariant, NEW p \in Caller, Receive(p)
  PROVE  AdminInvariant' /\ UNCHANGED registryVars
<1>1. PICK c \in Commands :
        {c.row, c.by} \cap Frozen = {} /\ cmd' = [cmd EXCEPT ![p] = c]
  BY DEF Receive
<1>2. /\ UNCHANGED <<status, generation, next>>
      /\ step' = [step EXCEPT ![p] = "auth"]
      /\ step' \in [Caller -> Step] /\ cmd' \in [Caller -> Command]
  BY <1>1, CommandShapes DEF Receive, Goto, AdminInvariant, Step, registryVars
<1>3. Local(p)'
  BY <1>1, <1>2 DEF Local, Commanded, ParentsFound, Fits, Found, AdminInvariant
<1>4. \A q \in Caller \ {p} : Local(q)'
  <2>1. \A r \in Row : Exists(r) => Exists(r)'
    BY <1>2 DEF Exists
  <2>2. \A q \in Caller \ {p} : step'[q] = step[q] /\ cmd'[q] = cmd[q] /\ next'[q] = next[q]
    BY <1>1, <1>2 DEF AdminInvariant
  <2>3. QED
    BY <2>1, <2>2, OthersKeepLocal
<1>5. RotationsLeft'
  BY <1>2, ReceiveCountsRotation DEF RotationsLeft
<1>6. QED
  BY <1>2, <1>3, <1>4, <1>5, ReceiveKeepsIds
     DEF AdminInvariant, Local, TypeOK, registryVars

-----------------------------------------------------------------------------
(* The commit                                                              *)

\* What a handler holds when it commits.
LEMMA AtCommit ==
  ASSUME AdminInvariant, NEW p \in Caller, Commit(p)
  PROVE  /\ step[p] = "write" /\ InFlight(p) /\ ~Collides(p) /\ WriteRows(p)
         /\ UNCHANGED <<cmd, next>> /\ step' = [step EXCEPT ![p] = "done"]
         /\ cmd[p] \in Commands /\ {cmd[p].row, cmd[p].by} \cap Frozen = {}
         /\ Fits(p) /\ Found(p)
  BY DEF Commit, Goto, AdminInvariant, Commanded, InFlight

\* Refinement, the step that matters: a commit is one admin transaction, or none
\* when the row already was as asked.
LEMMA CommitIsTransaction ==
  ASSUME AdminInvariant, NEW p \in Caller, Commit(p)
  PROVE  [Next]_registryVars
<1> DEFINE c == cmd[p]
<1>1. /\ step[p] = "write" /\ ~Collides(p) /\ WriteRows(p)
      /\ c \in Commands /\ {c.row, c.by} \cap Frozen = {} /\ Fits(p) /\ Found(p)
  BY AtCommit
<1>2. c \in Command /\ c.to \in {"active", "inactive"}
  BY <1>1, CommandShapes DEF Command
<1>3. c.op # "retoken" => generation' = generation
  BY <1>1 DEF WriteRows
<1>4. CASE c.op = "create"
  <2>1. c.row \in Row
    BY <1>1, <1>4, CommandShapes
  <2>2. status[c.row] = "absent" /\ (c.to = "active" => SlotFree(c.row, {}))
    BY <1>1, <1>4 DEF Collides, Exists
  <2>3. status' = [status EXCEPT ![c.row] = c.to] /\ UNCHANGED generation
    BY <1>1, <1>3, <1>4 DEF WriteRows, NewStatus
  <2>4. /\ c.row \in Workspace \/ Exists(home[c.row])
        /\ WellPlaced(c.row) /\ \A x \in References(c.row) : Exists(x)
    <3>1. CASE c.row \in Workspace
      <4>1. References(c.row) = {}
        BY <3>1, DisjointAssumption DEF References
      <4>2. QED
        BY <3>1, <4>1 DEF WellPlaced
    <3>2. CASE c.row \notin Workspace
      BY <1>1, <1>4, <3>2 DEF Fits
    <3>3. QED
      BY <3>1, <3>2
  <2>5. Create(c.row, c.to)
    BY <1>1, <2>2, <2>3, <2>4 DEF Create
  <2>6. QED
    BY <1>2, <2>1, <2>5 DEF Next
<1>5. CASE c.op = "set"
  <2>1. c.row \in Row /\ Exists(c.row)
    BY <1>1, <1>5, CommandShapes DEF Found
  <2>2. CASE loaded[p] = c.to
    <3>1. UNCHANGED <<status, generation>>
      BY <1>1, <1>3, <1>5, <2>2 DEF WriteRows, NewStatus
    <3>2. QED
      BY <3>1 DEF registryVars
  <2>3. CASE loaded[p] # c.to
    <3>1. c.to = "active" => SlotFree(c.row, {})
      BY <1>1, <1>5, <2>3 DEF Collides
    <3>2. status' = [status EXCEPT ![c.row] = c.to] /\ UNCHANGED generation
      BY <1>1, <1>3, <1>5, <2>3 DEF WriteRows, NewStatus
    <3>3. SetStatus(c.row, c.to)
      BY <1>1, <2>1, <3>1, <3>2 DEF SetStatus
    <3>4. QED
      BY <1>2, <2>1, <3>3 DEF Next
  <2>4. QED
    BY <2>2, <2>3
<1>6. CASE c.op = "rotate"
  <2>1. c.row \in Secret /\ c.by \in Secret /\ c.row # c.by /\ SameSlot(c.row, c.by)
    BY <1>1, <1>6, CommandShapes
  <2>2. Exists(c.row) /\ SlotFree(c.by, {c.row})
    BY <1>1, <1>6 DEF Found, Collides
  <2>3. status[c.by] = "absent"
    <3>1. Inserts(p) = {c.by}
      BY <1>1, <1>6 DEF Inserts, InFlight
    <3>2. QED
      BY <2>1, <3>1 DEF AdminInvariant, IdsFree
  <2>4. status' = [status EXCEPT ![c.row] = "inactive", ![c.by] = "active"]
    BY <1>1, <1>6 DEF WriteRows, NewStatus
  <2>5. RotateSecret(c.row, c.by)
    BY <1>1, <1>3, <1>6, <2>1, <2>2, <2>3, <2>4 DEF RotateSecret
  <2>6. QED
    BY <2>1, <2>5 DEF Next
<1>7. CASE c.op = "retoken"
  <2>1. c.row \in Agent /\ Exists(c.row)
    BY <1>1, <1>7, CommandShapes DEF Found
  <2>2. status' = status /\ generation' = [generation EXCEPT ![c.row] = @ + 1]
    BY <1>1, <1>7 DEF WriteRows, NewStatus
  <2>3. generation[c.row] < MaxGeneration
    <3>1. p \in Rotators(c.row)
      BY <1>1, <1>7 DEF Rotators, InFlight
    <3>2. IsFiniteSet(Rotators(c.row))
      BY FS_Subset, AdminAssumption DEF Rotators
    <3>3. /\ Cardinality(Rotators(c.row) \ {p}) = Cardinality(Rotators(c.row)) - 1
          /\ Cardinality(Rotators(c.row) \ {p}) \in Nat /\ Cardinality(Rotators(c.row)) \in Nat
      BY <3>1, <3>2, FS_RemoveElement, FS_CardinalityType
    <3>4. Retokens(c.row) = Cardinality(Rotators(c.row))
      BY DEF Retokens, Rotators
    <3>5. /\ generation[c.row] \in Nat /\ MaxGeneration \in Nat
          /\ generation[c.row] + Retokens(c.row) <= MaxGeneration
      BY <2>1, RowAssumption DEF AdminInvariant, RotationsLeft, TypeOK
    <3>6. QED
      BY <3>3, <3>4, <3>5
  <2>4. RotateToken(c.row)
    BY <1>1, <2>1, <2>2, <2>3 DEF RotateToken
  <2>5. QED
    BY <2>1, <2>4 DEF Next
<1>8. CASE c.op \in {"define", "list"}
  <2>1. UNCHANGED <<status, generation>>
    BY <1>1, <1>3, <1>8 DEF WriteRows, NewStatus
  <2>2. QED
    BY <2>1 DEF registryVars
<1>9. QED
  BY <1>2, <1>4, <1>5, <1>6, <1>7, <1>8 DEF Command, Op

\* A commit takes no id from another handler: it touches rows that exist and the
\* one it inserts itself.
LEMMA CommitKeepsIds ==
  ASSUME AdminInvariant, NEW p \in Caller, Commit(p)
  PROVE  IdsFree'
<1> DEFINE c == cmd[p]
<1>1. /\ step[p] = "write" /\ InFlight(p) /\ WriteRows(p) /\ UNCHANGED cmd
      /\ step' = [step EXCEPT ![p] = "done"] /\ c \in Commands /\ Found(p)
  BY AtCommit
<1>2. IdsFree /\ step \in [Caller -> Step] /\ status \in [Row -> Status]
  BY DEF AdminInvariant, TypeOK
<1>3. Inserts(p)' = {} /\ \A q \in Caller \ {p} : Inserts(q)' = Inserts(q)
  BY <1>1, <1>2 DEF Inserts, InFlight
<1>4. ASSUME NEW q \in Caller \ {p}, NEW r \in Inserts(q) \cap (Binding \cup Secret)
      PROVE  status'[r] = "absent"
  <2>1. status[r] = "absent" /\ r \notin Inserts(p) /\ r \in Row
    BY <1>2 DEF IdsFree, Row
  <2>2. status' = NewStatus(p) /\ c.op \in Op
    BY <1>1, CommandShapes DEF WriteRows, Command
  <2>3. CASE c.op = "create"
    <3>1. r # c.row /\ status' = [status EXCEPT ![c.row] = c.to]
      BY <1>1, <2>1, <2>2, <2>3 DEF Inserts, NewStatus
    <3>2. QED
      BY <1>2, <2>1, <3>1
  <2>4. CASE c.op = "set"
    <3>1. r # c.row
      BY <1>1, <2>1, <2>4 DEF Found, Exists
    <3>2. status' = status \/ status' = [status EXCEPT ![c.row] = c.to]
      BY <2>2, <2>4 DEF NewStatus
    <3>3. QED
      BY <1>2, <2>1, <3>1, <3>2
  <2>5. CASE c.op = "rotate"
    <3>1. r # c.row /\ r # c.by
      BY <1>1, <2>1, <2>5 DEF Found, Exists, Inserts
    <3>2. status' = [status EXCEPT ![c.row] = "inactive", ![c.by] = "active"]
      BY <2>2, <2>5 DEF NewStatus
    <3>3. QED
      BY <1>2, <2>1, <3>1, <3>2
  <2>6. CASE c.op \notin {"create", "set", "rotate"}
    BY <2>1, <2>2, <2>6 DEF NewStatus
  <2>7. QED
    BY <2>3, <2>4, <2>5, <2>6
<1>5. QED
  BY <1>2, <1>3, <1>4 DEF IdsFree

\* A committed rotation is counted once: by the generation instead of the handler.
LEMMA CommitKeepsRotations ==
  ASSUME AdminInvariant, NEW p \in Caller, Commit(p), NEW a \in Agent
  PROVE  generation'[a] + Retokens(a)' <= MaxGeneration
<1> DEFINE c == cmd[p]
           mine == c.op = "retoken" /\ c.row = a
<1>1. /\ InFlight(p) /\ WriteRows(p) /\ UNCHANGED cmd /\ step' = [step EXCEPT ![p] = "done"]
  BY AtCommit
<1>2. /\ step \in [Caller -> Step] /\ generation \in [Agent -> 0 .. MaxGeneration]
      /\ generation[a] + Retokens(a) <= MaxGeneration /\ MaxGeneration \in Nat
  BY RowAssumption DEF AdminInvariant, RotationsLeft, TypeOK
<1>3. Rotators(a)' = Rotators(a) \ {p}
  BY <1>1, <1>2 DEF Rotators, InFlight
<1>4. IsFiniteSet(Rotators(a))
  BY FS_Subset, AdminAssumption DEF Rotators
<1>5. /\ Retokens(a) = Cardinality(Rotators(a)) /\ Retokens(a)' = Cardinality(Rotators(a) \ {p})
      /\ Cardinality(Rotators(a)) \in Nat /\ Cardinality(Rotators(a) \ {p}) \in Nat
      /\ Cardinality(Rotators(a) \ {p}) =
           IF p \in Rotators(a) THEN Cardinality(Rotators(a)) - 1 ELSE Cardinality(Rotators(a))
  BY <1>3, <1>4, FS_CardinalityType, FS_RemoveElement DEF Retokens, Rotators
<1>6. CASE mine
  <2>1. p \in Rotators(a)
    BY <1>1, <1>6 DEF Rotators
  <2>2. generation'[a] = generation[a] + 1
    BY <1>1, <1>2, <1>6 DEF WriteRows
  <2>3. QED
    BY <1>2, <1>5, <2>1, <2>2
<1>7. CASE ~mine
  <2>1. p \notin Rotators(a)
    BY <1>7 DEF Rotators
  <2>2. generation'[a] = generation[a]
    BY <1>1, <1>2, <1>7 DEF WriteRows
  <2>3. QED
    BY <1>2, <1>5, <2>1, <2>2
<1>8. QED
  BY <1>6, <1>7

\* A commit leaves its own handler and all others what they rely on.
LEMMA CommitKeeps ==
  ASSUME AdminInvariant, NEW p \in Caller, Commit(p)
  PROVE  AdminInvariant' /\ [Next]_registryVars
<1>1. /\ UNCHANGED <<cmd, next>> /\ step' = [step EXCEPT ![p] = "done"]
  BY AtCommit
<1>2. /\ TypeOK /\ step \in [Caller -> Step] /\ cmd \in [Caller -> Command]
      /\ next \in [Caller -> Nat] /\ Commanded(p)
  BY DEF AdminInvariant
<1>3. [Next]_registryVars
  BY CommitIsTransaction
<1>4. TypeOK'
  BY <1>2, <1>3, RegistryType
<1>5. step' \in [Caller -> Step] /\ step'[p] = "done" /\ step[p] # "idle"
  BY <1>1, <1>2, AtCommit DEF Step
<1>6. Local(p)'
  BY <1>1, <1>2, <1>5 DEF Local, Commanded, ParentsFound, Fits, Found
<1>7. \A q \in Caller \ {p} : Local(q)'
  <2>1. \A r \in Row : Exists(r) => Exists(r)'
    BY <1>2, <1>3, RowsStay
  <2>2. \A q \in Caller \ {p} : step'[q] = step[q] /\ cmd'[q] = cmd[q] /\ next'[q] = next[q]
    BY <1>1, <1>2
  <2>3. QED
    BY <2>1, <2>2, OthersKeepLocal
<1>8. RotationsLeft' /\ IdsFree'
  BY CommitKeepsIds, CommitKeepsRotations DEF RotationsLeft
<1>9. QED
  BY <1>1, <1>2, <1>3, <1>4, <1>5, <1>6, <1>7, <1>8 DEF AdminInvariant, Local

-----------------------------------------------------------------------------
(* The admin plane as a whole                                              *)

\* Nobody relies on anything before the first request.
LEMMA AdminInvariantInit == AdminInit => AdminInvariant
<1> SUFFICES ASSUME AdminInit PROVE AdminInvariant
  OBVIOUS
<1>1. TypeOK
  BY RegistryInitType DEF AdminInit
<1>2. /\ step = [p \in Caller |-> "idle"] /\ next = [p \in Caller |-> 1]
      /\ cmd = [p \in Caller |-> [op |-> "list", row |-> None, by |-> None, to |-> "active"]]
      /\ generation = [a \in Agent |-> 0]
  BY DEF AdminInit, Init
<1>3. step \in [Caller -> Step] /\ cmd \in [Caller -> Command] /\ next \in [Caller -> Nat]
  BY <1>2 DEF Step, Command, Op
<1>4. \A p \in Caller : step[p] = "idle"
  BY <1>2
<1>5. \A p \in Caller : Commanded(p) /\ ParentsFound(p) /\ Fits(p) /\ Found(p)
  BY <1>4 DEF Commanded, ParentsFound, Fits, Found
<1>6. IdsFree
  BY <1>4 DEF IdsFree, Inserts, InFlight
<1>7. RotationsLeft
  <2> SUFFICES ASSUME NEW a \in Agent PROVE generation[a] + Retokens(a) <= MaxGeneration
    BY DEF RotationsLeft
  <2>1. Rotators(a) = {}
    BY <1>4 DEF Rotators, InFlight
  <2>2. Retokens(a) = 0
    BY <2>1, FS_EmptySet DEF Retokens, Rotators
  <2>3. QED
    BY <1>2, <2>2, RowAssumption
<1>8. QED
  BY <1>1, <1>3, <1>5, <1>6, <1>7 DEF AdminInvariant

\* Every step of every handler keeps the invariant and is a step of Registry.
LEMMA AdminStep == AdminInvariant /\ [AdminNext]_vars => AdminInvariant' /\ [Next]_registryVars
<1> SUFFICES ASSUME AdminInvariant, [AdminNext]_vars
             PROVE  AdminInvariant' /\ [Next]_registryVars
  OBVIOUS
<1>1. ASSUME NEW p \in Caller, Receive(p)
      PROVE  AdminInvariant' /\ [Next]_registryVars
  BY <1>1, ReceiveKeeps
<1>2. ASSUME NEW p \in Caller, Handle(p)
      PROVE  AdminInvariant' /\ [Next]_registryVars
  <2>1. CASE Authenticate(p)
    BY <2>1, AuthenticateKeeps
  <2>2. CASE Begin(p)
    BY <2>2, BeginKeeps
  <2>3. CASE Load(p)
    BY <2>3, LoadKeeps
  <2>4. CASE Check(p)
    BY <2>4, CheckKeeps
  <2>5. CASE SeedPermissions(p)
    BY <2>5, SeedPermissionsKeeps
  <2>6. CASE Commit(p)
    BY <2>6, CommitKeeps
  <2>7. CASE Conflict(p)
    BY <2>7, ConflictKeeps
  <2>8. QED
    BY <1>2, <2>1, <2>2, <2>3, <2>4, <2>5, <2>6, <2>7 DEF Handle
<1>3. CASE UNCHANGED vars
  <2> USE <1>3 DEF vars, adminVars, registryVars
  <2>1. /\ \A p \in Caller : Local(p)'
    <3>1. \A r \in Row : Exists(r) => Exists(r)'
      BY DEF Exists
    <3>2. QED
      BY <3>1, OthersKeepLocal
  <2>2. TypeOK' /\ IdsFree' /\ RotationsLeft'
    BY DEF AdminInvariant, TypeOK, IdsFree, Inserts, InFlight, RotationsLeft, Retokens
  <2>3. QED
    BY <2>1, <2>2 DEF AdminInvariant, Local
<1>4. QED
  BY <1>1, <1>2, <1>3 DEF AdminNext

\* What handlers rely on when they commit holds, however their statements
\* interleave (api/admin.py:133-1107).
THEOREM AdminInvariantHolds == AdminSpec => []AdminInvariant
<1>1. QED
  BY AdminInvariantInit, AdminStep, PTL DEF AdminSpec

\* The admin plane implements Registry: its handlers, several statements each,
\* change the tables one permitted transaction at a time.
THEOREM AdminRefinesRegistry == AdminSpec => ImplementsRegistry
<1>1. AdminInit => Init
  BY DEF AdminInit
<1>2. QED
  BY <1>1, AdminInvariantInit, AdminStep, PTL DEF AdminSpec, ImplementsRegistry, Spec

\* So the unique indexes hold of what concurrent handlers leave behind.
COROLLARY AdminSlotsUnique == AdminSpec => []OneActivePerSlot
<1>1. QED
  BY AdminRefinesRegistry, SlotsUnique, PTL DEF ImplementsRegistry

\* And references stay within a workspace, although the parents were looked at
\* several statements before the row was inserted.
COROLLARY AdminRowsReferHome == AdminSpec => []ReferencesStayHome
<1>1. QED
  BY AdminRefinesRegistry, RowsReferHome, PTL DEF ImplementsRegistry

-----------------------------------------------------------------------------
(* What a handler has seen                                                 *)

\* What a session holds has the declared shape.
Sessions ==
  /\ codes \subseteq Code
  /\ scope \in [Caller -> Workspace \cup {Super}]
  /\ next \in [Caller -> 1 .. 6]
  /\ loaded \in [Caller -> Status]
  /\ missing \in [Caller -> SUBSET DefaultCode]
  /\ answer \in [Caller -> Answer]
  /\ trail \in [Caller -> Workspace \cup {None}]
  /\ met \in [Caller -> SUBSET (Row \X Status)]

\* Once past the scope check a handler works for a principal who may.
Cleared(p) ==
  step[p] \in {"check", "seed", "write"} /\ cmd[p].op \notin {"define", "list"} =>
    ManagesWorkspace(p, home[cmd[p].row])

\* What was loaded was so while the request ran.
LoadedMet(p) ==
  step[p] \in {"check", "seed", "write"} /\ cmd[p].op \in {"set", "rotate", "retoken"} =>
    <<cmd[p].row, loaded[p]>> \in met[p]

\* The parents checked so far were active while the request ran.
ParentsMet(p) ==
  step[p] = "check" =>
    \A i \in 1 .. (next[p] - 1) : <<Parents(cmd[p].row)[i], "active">> \in met[p]

\* When the checks are over, so was every row the target depends on.
DependenciesMet(p) ==
  /\ step[p] \in {"seed", "write"}
  /\ cmd[p].op \in {"create", "set", "rotate"} /\ cmd[p].to = "active"
  /\ cmd[p].row \in Row \ Workspace
  => \A x \in References(cmd[p].row) \cup {home[cmd[p].row]} : <<x, "active">> \in met[p]

\* A role about to be created finds its codes, or brings them along.
CodesReady(p) ==
  step[p] = "write" /\ cmd[p].op = "create" /\ cmd[p].row \in Role =>
    permissions[cmd[p].row] \subseteq codes \cup missing[p]

\* A handler answers and files an audit row when it is done.
SilentUntilDone(p) == step[p] # "done" => answer[p] = "none" /\ trail[p] = None

\* The history knows the statuses of the rows a handler is about.
Watching(p) ==
  step[p] # "done" => \A r \in Touches(cmd[p]) : <<r, status[r]>> \in met[p]

\* What the client was told, as AnsweredAsApplied says it of every request.
Applied(p) ==
  /\ answer[p] = "ok" =>
       /\ cmd[p].op \in {"create", "set"} => <<cmd[p].row, cmd[p].to>> \in met[p]
       /\ cmd[p].op = "rotate" =>
            {<<cmd[p].row, "inactive">>, <<cmd[p].by, "active">>} \subseteq met[p]
  /\ answer[p] # "ok" => trail[p] = None

Outcome(p) ==
  /\ Cleared(p) /\ LoadedMet(p) /\ ParentsMet(p) /\ DependenciesMet(p)
  /\ CodesReady(p) /\ SilentUntilDone(p) /\ Applied(p)

\* Why an answer can be relied on: what a handler knows, compared with the
\* statuses its rows had while it ran.
OutcomeInvariant ==
  /\ Sessions /\ RoleCodesKnown
  /\ \A p \in Caller : Outcome(p) /\ Watching(p)

-----------------------------------------------------------------------------
(* One handler at a time                                                   *)

\* A step belongs to one request, and permissions are never deleted.
OneSession(p) ==
  /\ step[p] # "done"
  /\ \A q \in Caller \ {p} :
       UNCHANGED <<step[q], cmd[q], scope[q], next[q], loaded[q], missing[q], answer[q], trail[q]>>
  /\ codes \subseteq codes'

\* The history of that step: nothing is forgotten, and what it wrote is noted.
Noted(p) ==
  /\ met' \in [Caller -> SUBSET (Row \X Status)]
  /\ \A q \in Caller : met[q] \subseteq met'[q]
  /\ \A r \in Touches(cmd'[p]) : <<r, status'[r]>> \in met'[p]

\* No handler touches another one's session.
LEMMA HandlersAreApart ==
  ASSUME AdminInvariant, Sessions, NEW p \in Caller, Receive(p) \/ Handle(p)
  PROVE  OneSession(p)
<1>1. step \in [Caller -> Step] /\ cmd \in [Caller -> Command]
  BY DEF AdminInvariant
<1>2. ASSUME NEW from, NEW why, from # "done", Refuse(p, from, why) PROVE OneSession(p)
  BY <1>1, <1>2 DEF Refuse, Goto, OneSession, Sessions
<1>3. CASE Receive(p)
  BY <1>1, <1>3 DEF Receive, Goto, OneSession, Sessions
<1>4. CASE Authenticate(p)
  BY <1>1, <1>2, <1>4 DEF Authenticate, Goto, OneSession, Sessions
<1>5. CASE Begin(p)
  BY <1>1, <1>2, <1>5 DEF Begin, Goto, OneSession, Sessions
<1>6. CASE Load(p)
  BY <1>1, <1>2, <1>6 DEF Load, Goto, OneSession, Sessions
<1>7. CASE Check(p)
  BY <1>1, <1>2, <1>7 DEF Check, Goto, OneSession, Sessions
<1>8. CASE SeedPermissions(p)
  BY <1>1, <1>2, <1>8 DEF SeedPermissions, Goto, OneSession, Sessions
<1>9. CASE Commit(p)
  BY <1>1, <1>9 DEF Commit, WriteRows, Goto, OneSession, Sessions
<1>10. CASE Conflict(p)
  BY <1>2, <1>10 DEF Conflict
<1>11. QED
  BY <1>3, <1>4, <1>5, <1>6, <1>7, <1>8, <1>9, <1>10 DEF Handle

\* A request is about rows: its target, a replacement, and its parents.
LEMMA TouchesAreRows ==
  ASSUME NEW c \in Command
  PROVE  /\ Touches(c) \subseteq Row
         /\ c.row \in Row =>
              /\ c.row \in Touches(c)
              /\ c.by \in Secret => c.by \in Touches(c)
              /\ \A i \in 1 .. Len(Parents(c.row)) : Parents(c.row)[i] \in Touches(c)
<1>1. ASSUME c.row \in Workspace
      PROVE  \A i \in 1 .. Len(Parents(c.row)) : Parents(c.row)[i] \in Row
  <2>1. Parents(c.row) = <<>>
    BY <1>1, DisjointAssumption DEF Parents
  <2>2. Len(Parents(c.row)) = 0
    BY <2>1
  <2>3. QED
    BY <2>2
<1>2. c.row \in Row => \A i \in 1 .. Len(Parents(c.row)) : Parents(c.row)[i] \in Row
  BY <1>1, ParentsAreRows
<1>3. QED
  BY <1>2 DEF Touches, Row

\* What Witness notes while p moves.
LEMMA StepIsNoted ==
  ASSUME AdminInvariant, AdminInvariant', Sessions, NEW p \in Caller, OneSession(p), Witness
  PROVE  Noted(p) /\ \A q \in Caller : Watching(q)'
<1>1. ASSUME NEW q \in Caller
      PROVE  met'[q] = IF step[q] = "done" THEN met[q]
                       ELSE met[q] \cup {<<r, status'[r]>> : r \in Touches(cmd'[q])}
  BY DEF Witness
<1>2. ASSUME NEW q \in Caller PROVE met'[q] \in SUBSET (Row \X Status)
  <2>1. Touches(cmd'[q]) \subseteq Row
    BY TouchesAreRows DEF AdminInvariant
  <2>2. \A r \in Row : status'[r] \in Status
    BY DEF AdminInvariant, TypeOK
  <2>3. {<<r, status'[r]>> : r \in Touches(cmd'[q])} \subseteq Row \X Status
    BY <2>1, <2>2
  <2>4. met[q] \subseteq Row \X Status
    BY DEF Sessions
  <2>5. QED
    BY <1>1, <2>3, <2>4
<1>3. ASSUME NEW q \in Caller PROVE Watching(q)'
  <2>1. step'[q] # "done" => step[q] # "done"
    BY DEF OneSession
  <2>2. step[q] # "done" => \A r \in Touches(cmd'[q]) : <<r, status'[r]>> \in met'[q]
    BY <1>1
  <2>3. QED
    BY <2>1, <2>2 DEF Watching, Touches, Parents
<1>4. met' \in [Caller -> SUBSET (Row \X Status)]
  BY <1>2 DEF Witness
<1>5. Noted(p)
  BY <1>1, <1>4 DEF Noted, OneSession
<1>6. QED
  BY <1>3, <1>5

\* The other handlers know what they knew: history and permissions only grow.
LEMMA OthersKeepOutcome ==
  ASSUME NEW p \in Caller, OneSession(p), Noted(p), NEW q \in Caller \ {p}, Outcome(q)
  PROVE  Outcome(q)'
<1>1. /\ step'[q] = step[q] /\ cmd'[q] = cmd[q] /\ scope'[q] = scope[q] /\ next'[q] = next[q]
      /\ loaded'[q] = loaded[q] /\ missing'[q] = missing[q] /\ answer'[q] = answer[q]
      /\ trail'[q] = trail[q] /\ met[q] \subseteq met'[q] /\ codes \subseteq codes'
  BY DEF OneSession, Noted
<1>2. Cleared(q)' /\ LoadedMet(q)' /\ SilentUntilDone(q)' /\ Applied(q)'
  BY <1>1 DEF Outcome, Cleared, ManagesWorkspace, LoadedMet, SilentUntilDone, Applied
<1>3. ParentsMet(q)'
  BY <1>1 DEF Outcome, ParentsMet, Parents
<1>4. DependenciesMet(q)'
  BY <1>1 DEF Outcome, DependenciesMet, References
<1>5. CodesReady(q)'
  BY <1>1 DEF Outcome, CodesReady
<1>6. QED
  BY <1>2, <1>3, <1>4, <1>5 DEF Outcome

-----------------------------------------------------------------------------
(* Outcomes, handler by handler                                            *)

\* What each step keeps of the sessions and of its own handler's knowledge.
Keeps(p) == Sessions' /\ RoleCodesKnown' /\ Outcome(p)'

\* Statements that write nothing leave the roles' codes known.
LEMMA QuietCodes ==
  ASSUME RoleCodesKnown, UNCHANGED <<status, codes>>
  PROVE  RoleCodesKnown'
  BY DEF RoleCodesKnown, Exists

\* A refusal is an answer and nothing else.
LEMMA RefuseOutcome ==
  ASSUME AdminInvariant, OutcomeInvariant, NEW p \in Caller, Noted(p),
         NEW from, from # "done", NEW why \in Answer \ {"none", "ok"}, Refuse(p, from, why)
  PROVE  Keeps(p)
<1>1. /\ step[p] # "done" /\ step'[p] = "done" /\ answer'[p] = why
      /\ answer' = [answer EXCEPT ![p] = why]
      /\ UNCHANGED <<cmd, scope, next, loaded, missing, trail, status, codes>>
  BY DEF Refuse, Goto, AdminInvariant, OutcomeInvariant, Sessions, registryVars
<1>2. Sessions'
  BY <1>1 DEF OutcomeInvariant, Sessions, Noted
<1>3. RoleCodesKnown'
  BY <1>1, QuietCodes DEF OutcomeInvariant
<1>4. Cleared(p)' /\ LoadedMet(p)' /\ ParentsMet(p)' /\ DependenciesMet(p)' /\ CodesReady(p)'
  BY <1>1 DEF Cleared, LoadedMet, ParentsMet, DependenciesMet, CodesReady
<1>5. SilentUntilDone(p)' /\ Applied(p)'
  BY <1>1 DEF OutcomeInvariant, Outcome, SilentUntilDone, Applied
<1>6. QED
  BY <1>2, <1>3, <1>4, <1>5 DEF Keeps, Outcome

\* A request that arrives knows nothing yet.
LEMMA ReceiveOutcome ==
  ASSUME AdminInvariant, OutcomeInvariant, NEW p \in Caller, Noted(p), Receive(p)
  PROVE  Keeps(p)
<1>1. /\ step[p] = "idle" /\ step'[p] = "auth"
      /\ UNCHANGED <<next, loaded, missing, answer, trail, status, codes>>
  BY DEF Receive, Goto, AdminInvariant, registryVars
<1>2. scope' \in [Caller -> Workspace \cup {Super}]
  <2>1. PICK s \in Scopes : scope' = [scope EXCEPT ![p] = s]
    BY DEF Receive
  <2>2. QED
    BY <2>1, AdminAssumption DEF OutcomeInvariant, Sessions
<1>3. Sessions' /\ RoleCodesKnown'
  BY <1>1, <1>2, QuietCodes DEF OutcomeInvariant, Sessions, Noted
<1>4. SilentUntilDone(p)' /\ Applied(p)'
  BY <1>1 DEF OutcomeInvariant, Outcome, SilentUntilDone, Applied
<1>5. QED
  BY <1>1, <1>3, <1>4 DEF Keeps, Outcome, Cleared, LoadedMet, ParentsMet, DependenciesMet,
                          CodesReady

\* A principal who is let in has seen nothing of the rows yet.
LEMMA AuthenticateOutcome ==
  ASSUME AdminInvariant, OutcomeInvariant, NEW p \in Caller, Noted(p), Authenticate(p)
  PROVE  Keeps(p)
<1>1. CASE Refuse(p, "auth", "unauthenticated")
  BY <1>1, RefuseOutcome DEF Answer
<1>2. CASE /\ Goto(p, "auth", "load")
           /\ UNCHANGED <<cmd, scope, next, loaded, missing, answer, trail, registryVars, codes>>
  <2>1. /\ step[p] = "auth" /\ step'[p] = "load"
        /\ UNCHANGED <<cmd, scope, next, loaded, missing, answer, trail, status, codes>>
    BY <1>2 DEF Goto, AdminInvariant, registryVars
  <2>2. Sessions' /\ RoleCodesKnown'
    BY <2>1, QuietCodes DEF OutcomeInvariant, Sessions, Noted
  <2>3. SilentUntilDone(p)' /\ Applied(p)'
    BY <2>1 DEF OutcomeInvariant, Outcome, SilentUntilDone, Applied
  <2>4. QED
    BY <2>1, <2>2, <2>3 DEF Keeps, Outcome, Cleared, LoadedMet, ParentsMet, DependenciesMet,
                            CodesReady
<1>3. QED
  BY <1>1, <1>2 DEF Authenticate

\* Only a principal who may manage the workspace goes on.
LEMMA BeginOutcome ==
  ASSUME AdminInvariant, OutcomeInvariant, NEW p \in Caller, Noted(p), Begin(p)
  PROVE  Keeps(p)
<1> DEFINE c == cmd[p]
           allowed == CASE c.op = "list" -> TRUE
                        [] c.op = "define" \/ c.row \in Workspace -> scope[p] = Super
                        [] OTHER -> ManagesWorkspace(p, home[c.row])
           to == IF c.op = "list" THEN "seed"
                 ELSE IF c.op = "define" \/ c.row \in Workspace THEN "write" ELSE "check"
<1>1. CASE Refuse(p, "load", "forbidden")
  BY <1>1, RefuseOutcome DEF Answer
<1>2. CASE /\ allowed /\ Goto(p, "load", to) /\ next' = [next EXCEPT ![p] = 1]
           /\ c.op \in {"create", "define", "list"}
           /\ UNCHANGED <<cmd, scope, loaded, missing, answer, trail, registryVars, codes>>
  <2>1. /\ step[p] = "load" /\ step'[p] = to /\ next'[p] = 1 /\ next' = [next EXCEPT ![p] = 1]
        /\ UNCHANGED <<cmd, scope, loaded, missing, answer, trail, status, codes>>
    BY <1>2 DEF Goto, AdminInvariant, registryVars
  <2>2. Sessions' /\ RoleCodesKnown'
    BY <2>1, QuietCodes DEF OutcomeInvariant, Sessions, Noted
  <2>3. c \in Commands
    BY <2>1 DEF AdminInvariant, Commanded
  <2>4. Cleared(p)'
    BY <1>2, <2>1 DEF Cleared, ManagesWorkspace
  <2>5. ParentsMet(p)' /\ LoadedMet(p)'
    BY <1>2, <2>1 DEF ParentsMet, LoadedMet
  <2>6. DependenciesMet(p)' /\ CodesReady(p)'
    BY <1>2, <2>1, AdminAssumption DEF DependenciesMet, CodesReady
  <2>7. SilentUntilDone(p)' /\ Applied(p)'
    BY <2>1 DEF OutcomeInvariant, Outcome, SilentUntilDone, Applied
  <2>8. QED
    BY <2>2, <2>4, <2>5, <2>6, <2>7 DEF Keeps, Outcome
<1>3. QED
  BY <1>1, <1>2 DEF Begin

\* What is loaded is what the row says at that moment.
LEMMA LoadOutcome ==
  ASSUME AdminInvariant, OutcomeInvariant, NEW p \in Caller, Noted(p), Load(p)
  PROVE  Keeps(p)
<1> DEFINE c == cmd[p]
           mustCheck == \/ c.op = "rotate"
                        \/ c.op = "set" /\ c.to = "active" /\ c.row \notin Workspace
           to == IF mustCheck THEN "check" ELSE "write"
<1>1. CASE Refuse(p, "load", "not_found") \/ Refuse(p, "load", "forbidden")
  BY <1>1, RefuseOutcome DEF Answer
<1>2. CASE /\ ManagesWorkspace(p, home[c.row]) /\ Goto(p, "load", to)
           /\ loaded' = [loaded EXCEPT ![p] = status[c.row]] /\ next' = [next EXCEPT ![p] = 1]
           /\ c.op \in {"set", "rotate", "retoken"}
           /\ UNCHANGED <<cmd, scope, missing, answer, trail, registryVars, codes>>
  <2>1. /\ step[p] = "load" /\ step'[p] = to /\ next'[p] = 1 /\ next' = [next EXCEPT ![p] = 1]
        /\ UNCHANGED <<cmd, scope, missing, answer, trail, status, codes>>
    BY <1>2 DEF Goto, AdminInvariant, registryVars
  <2>2. c \in Commands /\ c \in Command
    BY <2>1, CommandShapes DEF AdminInvariant, Commanded
  <2>3. c.row \in Row
    BY <1>2, <2>2, CommandShapes DEF Row
  <2>4. status[c.row] \in Status /\ <<c.row, status[c.row]>> \in met'[p]
    BY <2>1, <2>2, <2>3, TouchesAreRows DEF AdminInvariant, TypeOK, Noted
  <2>5. Sessions' /\ RoleCodesKnown'
    BY <1>2, <2>1, <2>4, QuietCodes DEF OutcomeInvariant, Sessions, Noted
  <2>6. Cleared(p)' /\ LoadedMet(p)'
    BY <1>2, <2>1, <2>4 DEF Cleared, LoadedMet, ManagesWorkspace, OutcomeInvariant, Sessions
  <2>7. ParentsMet(p)'
    BY <2>1 DEF ParentsMet
  <2>8. DependenciesMet(p)'
    BY <1>2, <2>1 DEF DependenciesMet
  <2>9. CodesReady(p)'
    BY <1>2, <2>1 DEF CodesReady
  <2>10. SilentUntilDone(p)' /\ Applied(p)'
    BY <2>1 DEF OutcomeInvariant, Outcome, SilentUntilDone, Applied
  <2>11. QED
    BY <2>5, <2>6, <2>7, <2>8, <2>9, <2>10 DEF Keeps, Outcome
<1>3. QED
  BY <1>1, <1>2 DEF Load

\* A parent that is checked is active now; after the last, all dependencies were.
LEMMA CheckOutcome ==
  ASSUME AdminInvariant, OutcomeInvariant, NEW p \in Caller, Noted(p), Check(p)
  PROVE  Keeps(p)
<1> DEFINE r == cmd[p].row
           last == next[p] = Len(Parents(r))
           to == IF ~last THEN "check"
                 ELSE IF r \in Role /\ cmd[p].op = "create" THEN "seed" ELSE "write"
<1>1. CASE Refuse(p, "check", "not_found") \/ Refuse(p, "check", "mismatch")
  BY <1>1, RefuseOutcome DEF Answer
<1>2. CASE /\ ParentActive(p) /\ (last => WellPlaced(r))
           /\ next' = [next EXCEPT ![p] = @ + 1] /\ Goto(p, "check", to)
           /\ UNCHANGED <<cmd, scope, loaded, missing, answer, trail, registryVars, codes>>
  <2>1. /\ step[p] = "check" /\ step'[p] = to
        /\ UNCHANGED <<cmd, scope, loaded, missing, answer, trail, status, codes>>
    BY <1>2 DEF Goto, AdminInvariant, registryVars
  <2>2. /\ cmd[p].op \in {"create", "set", "rotate"} /\ r \in Row \ Workspace
        /\ next[p] \in 1 .. Len(Parents(r)) /\ Len(Parents(r)) \in 1 .. 5
        /\ cmd[p] \in Command
    BY <2>1, ParentsAreRows DEF AdminInvariant, ParentsFound
  <2>3. next'[p] = next[p] + 1 /\ next'[p] \in 1 .. 6
    <3>1. next'[p] = next[p] + 1
      BY <1>2 DEF AdminInvariant
    <3>2. \A n \in 1 .. 5 : \A i \in 1 .. n : i + 1 \in 1 .. 6
      OBVIOUS
    <3>3. QED
      BY <2>2, <3>1, <3>2, Zenon
  <2>4. Sessions' /\ RoleCodesKnown'
    <3>1. next' \in [Caller -> 1 .. 6]
      BY <1>2, <2>2, <2>3 DEF OutcomeInvariant, Sessions
    <3>2. QED
      BY <2>1, <3>1, QuietCodes DEF OutcomeInvariant, Sessions, Noted
  <2>5. \A i \in 1 .. next[p] : <<Parents(r)[i], "active">> \in met'[p]
    <3>1. <<Parents(r)[next[p]], "active">> \in met'[p]
      <4>1. Parents(r)[next[p]] \in Touches(cmd'[p])
        BY <2>1, <2>2, TouchesAreRows
      <4>2. status'[Parents(r)[next[p]]] = "active"
        BY <1>2, <2>1 DEF ParentActive, Active
      <4>3. QED
        BY <4>1, <4>2 DEF Noted
    <3>2. \A i \in 1 .. (next[p] - 1) : <<Parents(r)[i], "active">> \in met'[p]
      BY <2>1 DEF OutcomeInvariant, Outcome, ParentsMet, Noted
    <3>3. \A i \in 1 .. next[p] : i = next[p] \/ i \in 1 .. (next[p] - 1)
      BY <2>2
    <3>4. QED
      BY <3>1, <3>2, <3>3
  <2>6. ParentsMet(p)'
    <3>1. next'[p] - 1 = next[p]
      BY <2>2, <2>3
    <3>2. QED
      BY <2>1, <2>5, <3>1 DEF ParentsMet, Parents
  <2>7. DependenciesMet(p)'
    <3>1. CASE last
      <4>1. \A x \in References(r) \cup {home[r]} : <<x, "active">> \in met'[p]
        <5> SUFFICES ASSUME NEW x \in References(r) \cup {home[r]}
                     PROVE  <<x, "active">> \in met'[p]
          OBVIOUS
        <5>1. PICK i \in 1 .. Len(Parents(r)) : Parents(r)[i] = x
          BY <1>2, <2>2, <3>1, ReferencesAreParents
        <5>2. QED
          BY <2>5, <3>1, <5>1
      <4>2. QED
        BY <2>1, <4>1 DEF DependenciesMet, References
    <3>2. CASE ~last
      BY <2>1, <3>2 DEF DependenciesMet
    <3>3. QED
      BY <3>1, <3>2
  <2>8. Cleared(p)' /\ LoadedMet(p)'
    BY <2>1, <2>2 DEF OutcomeInvariant, Outcome, Cleared, LoadedMet, ManagesWorkspace, Noted
  <2>9. CodesReady(p)'
    BY <2>1 DEF CodesReady
  <2>10. SilentUntilDone(p)' /\ Applied(p)'
    BY <2>1 DEF OutcomeInvariant, Outcome, SilentUntilDone, Applied
  <2>11. QED
    BY <2>4, <2>6, <2>7, <2>8, <2>9, <2>10 DEF Keeps, Outcome
<1>3. QED
  BY <1>1, <1>2 DEF Check

\* The codes of a role are there, or among those this session will insert.
LEMMA SeedOutcome ==
  ASSUME AdminInvariant, OutcomeInvariant, NEW p \in Caller, Noted(p), SeedPermissions(p)
  PROVE  Keeps(p)
<1> DEFINE r == cmd[p].row
           absent == DefaultCode \ codes
<1>1. CASE Refuse(p, "seed", "unknown_code")
  BY <1>1, RefuseOutcome DEF Answer
<1>2. CASE /\ r \in Role => permissions[r] \subseteq codes \cup absent
           /\ Goto(p, "seed", "write") /\ missing' = [missing EXCEPT ![p] = absent]
           /\ UNCHANGED <<cmd, scope, next, loaded, answer, trail, registryVars, codes>>
  <2>1. /\ step[p] = "seed" /\ step'[p] = "write"
        /\ UNCHANGED <<cmd, scope, next, loaded, answer, trail, status, codes>>
    BY <1>2 DEF Goto, AdminInvariant, registryVars
  <2>2. Sessions' /\ RoleCodesKnown'
    BY <1>2, <2>1, QuietCodes DEF OutcomeInvariant, Sessions, Noted
  <2>3. CodesReady(p)'
    BY <1>2, <2>1 DEF CodesReady, OutcomeInvariant, Sessions
  <2>4. Cleared(p)' /\ LoadedMet(p)' /\ ParentsMet(p)'
    BY <2>1 DEF OutcomeInvariant, Outcome, Cleared, LoadedMet, ParentsMet, ManagesWorkspace, Noted
  <2>5. DependenciesMet(p)'
    BY <2>1 DEF OutcomeInvariant, Outcome, DependenciesMet, References, Noted
  <2>6. SilentUntilDone(p)' /\ Applied(p)'
    BY <2>1 DEF OutcomeInvariant, Outcome, SilentUntilDone, Applied
  <2>7. QED
    BY <2>2, <2>3, <2>4, <2>5, <2>6 DEF Keeps, Outcome
<1>3. QED
  BY <1>1, <1>2 DEF SeedPermissions

\* What a commit leaves of the rows.
LEMMA CommittedStatus ==
  ASSUME AdminInvariant, NEW p \in Caller, Commit(p), NEW r \in Row
  PROVE  LET c == cmd[p]
         IN  \/ status'[r] = status[r]
             \/ c.op = "create" /\ r = c.row /\ status'[r] = c.to
             \/ c.op = "set" /\ r = c.row /\ status'[r] = c.to
             \/ c.op = "rotate" /\ r = c.row /\ status'[r] = "inactive"
             \/ c.op = "rotate" /\ r = c.by /\ status'[r] = "active"
<1> DEFINE c == cmd[p]
<1>1. status' = NewStatus(p) /\ status \in [Row -> Status] /\ c \in Commands
  BY AtCommit DEF WriteRows, AdminInvariant, TypeOK
<1>2. CASE c.op = "create"
  BY <1>1, <1>2 DEF NewStatus
<1>3. CASE c.op = "set"
  BY <1>1, <1>3 DEF NewStatus
<1>4. CASE c.op = "rotate"
  <2>1. status' = [status EXCEPT ![c.row] = "inactive", ![c.by] = "active"]
    BY <1>1, <1>4 DEF NewStatus
  <2>2. QED
    BY <1>1, <1>4, <2>1
<1>5. CASE c.op \notin {"create", "set", "rotate"}
  BY <1>1, <1>5 DEF NewStatus
<1>6. QED
  BY <1>2, <1>3, <1>4, <1>5

\* What was asked for is there after the commit, or was when the row was loaded.
LEMMA CommitApplies ==
  ASSUME AdminInvariant, OutcomeInvariant, NEW p \in Caller, Noted(p), Commit(p)
  PROVE  Applied(p)'
<1> DEFINE c == cmd[p]
<1>1. /\ step[p] = "write" /\ cmd' = cmd /\ c \in Commands /\ c \in Command
      /\ status' = NewStatus(p) /\ status \in [Row -> Status] /\ answer'[p] = "ok"
  BY AtCommit, CommandShapes DEF Commit, WriteRows, AdminInvariant, TypeOK,
     OutcomeInvariant, Sessions
<1>2. \A r \in Touches(c) : <<r, status'[r]>> \in met'[p]
  BY <1>1 DEF Noted
<1>3. ASSUME c.op = "create" PROVE <<c.row, c.to>> \in met'[p]
  <2>1. c.row \in Row /\ c.row \in Touches(c)
    BY <1>1, <1>3, CommandShapes, TouchesAreRows
  <2>2. status'[c.row] = c.to
    BY <1>1, <1>3, <2>1 DEF NewStatus
  <2>3. QED
    BY <1>2, <2>1, <2>2
<1>4. ASSUME c.op = "set" PROVE <<c.row, c.to>> \in met'[p]
  <2>1. c.row \in Row /\ c.row \in Touches(c)
    BY <1>1, <1>4, CommandShapes, TouchesAreRows
  <2>2. CASE loaded[p] = c.to
    BY <1>1, <1>4, <2>2 DEF OutcomeInvariant, Outcome, LoadedMet, Noted
  <2>3. CASE loaded[p] # c.to
    <3>1. status'[c.row] = c.to
      BY <1>1, <1>4, <2>1, <2>3 DEF NewStatus
    <3>2. QED
      BY <1>2, <2>1, <3>1
  <2>4. QED
    BY <2>2, <2>3
<1>5. ASSUME c.op = "rotate"
      PROVE  {<<c.row, "inactive">>, <<c.by, "active">>} \subseteq met'[p]
  <2>1. c.row \in Secret /\ c.by \in Secret /\ c.row # c.by
    BY <1>1, <1>5, CommandShapes
  <2>2. c.row \in Row /\ c.by \in Row /\ c.row \in Touches(c) /\ c.by \in Touches(c)
    BY <1>1, <2>1, TouchesAreRows DEF Row
  <2>3. status' = [status EXCEPT ![c.row] = "inactive", ![c.by] = "active"]
    BY <1>1, <1>5 DEF NewStatus
  <2>4. status'[c.row] = "inactive" /\ status'[c.by] = "active"
    BY <1>1, <2>1, <2>2, <2>3
  <2>5. QED
    BY <1>2, <2>2, <2>4
<1>6. QED
  BY <1>1, <1>3, <1>4, <1>5 DEF Applied

\* A role that comes into being brings the codes that were missing.
LEMMA CommitKnowsCodes ==
  ASSUME AdminInvariant, OutcomeInvariant, NEW p \in Caller, Commit(p)
  PROVE  RoleCodesKnown'
<1> DEFINE c == cmd[p]
<1>1. /\ step[p] = "write" /\ c \in Commands /\ Found(p)
      /\ codes \cup missing[p] \subseteq codes'
  BY AtCommit DEF WriteRows
<1>2. SUFFICES ASSUME NEW r \in Role, status'[r] # "absent"
               PROVE  permissions[r] \subseteq codes'
  BY DEF RoleCodesKnown, Exists
<1>3. r \in Row
  BY DEF Row
<1>4. CASE status[r] # "absent"
  BY <1>1, <1>4 DEF OutcomeInvariant, RoleCodesKnown, Exists
<1>5. CASE status[r] = "absent"
  <2>1. c.op = "create" /\ r = c.row
    <3>1. c.op \in {"set", "rotate"} => status[c.row] # "absent"
      BY <1>1 DEF Found, Exists
    <3>2. c.op = "rotate" => c.by # r
      BY <1>1, CommandShapes, AdminAssumption DEF Row
    <3>3. QED
      BY <1>2, <1>3, <1>5, <3>1, <3>2, CommittedStatus
  <2>2. QED
    BY <1>1, <2>1 DEF OutcomeInvariant, Outcome, CodesReady
<1>6. QED
  BY <1>4, <1>5

\* The commit: an answer, an audit row and the rows, in one step.
LEMMA CommitOutcome ==
  ASSUME AdminInvariant, OutcomeInvariant, NEW p \in Caller, Noted(p), Commit(p)
  PROVE  Keeps(p)
<1> DEFINE c == cmd[p]
           filed == IF c.op \in {"define", "list"} THEN None ELSE home[c.row]
<1>1. /\ step[p] = "write" /\ step'[p] = "done" /\ c \in Commands /\ c \in Command
      /\ answer' = [answer EXCEPT ![p] = "ok"] /\ trail' = [trail EXCEPT ![p] = filed]
      /\ UNCHANGED <<cmd, scope, next, loaded, missing>>
  BY AtCommit, CommandShapes DEF Commit, Goto, AdminInvariant
<1>2. filed \in Workspace \cup {None}
  <2>1. c.op \in {"create", "set", "rotate", "retoken"} => c.row \in Row
    BY <1>1, CommandShapes DEF Row
  <2>2. QED
    BY <1>1, <2>1, RowAssumption DEF Command, Op
<1>3. codes' \subseteq Code
  <2>1. c.op = "define" => c.row \in Code
    BY <1>1 DEF Commands, Creates, Rotates
  <2>2. QED
    BY <2>1, AtCommit, AdminAssumption DEF WriteRows, OutcomeInvariant, Sessions
<1>4. Sessions'
  BY <1>1, <1>2, <1>3 DEF OutcomeInvariant, Sessions, Noted, Answer
<1>5. RoleCodesKnown' /\ Applied(p)'
  BY CommitKnowsCodes, CommitApplies
<1>6. QED
  BY <1>1, <1>4, <1>5 DEF Keeps, Outcome, Cleared, LoadedMet, ParentsMet, DependenciesMet,
                          CodesReady, SilentUntilDone

\* A conflict is an answer too.
LEMMA ConflictOutcome ==
  ASSUME AdminInvariant, OutcomeInvariant, NEW p \in Caller, Noted(p), Conflict(p)
  PROVE  Keeps(p)
  BY RefuseOutcome DEF Conflict, Answer

-----------------------------------------------------------------------------
(* The outcomes as a whole                                                 *)

\* No request was handled yet, and the rows there are have their codes.
LEMMA OutcomeInit == AdminInit => OutcomeInvariant
<1> SUFFICES ASSUME AdminInit PROVE OutcomeInvariant
  OBVIOUS
<1>1. codes \in SeedCodes /\ status \in Seed
  BY DEF AdminInit, Init
<1>2. Sessions
  BY <1>1, AdminAssumption DEF AdminInit, Sessions, Status, Answer
<1>3. RoleCodesKnown
  BY <1>1, AdminAssumption DEF RoleCodesKnown, Exists
<1>4. ASSUME NEW p \in Caller PROVE Outcome(p)
  BY DEF AdminInit, Outcome, Cleared, LoadedMet, ParentsMet, DependenciesMet, CodesReady,
         SilentUntilDone, Applied
<1>5. ASSUME NEW p \in Caller PROVE Watching(p)
  <2>1. cmd[p].row = None
    BY DEF AdminInit
  <2>2. Touches(cmd[p]) = {}
    BY <2>1, AdminAssumption DEF Touches
  <2>3. QED
    BY <2>2 DEF Watching
<1>6. QED
  BY <1>2, <1>3, <1>4, <1>5 DEF OutcomeInvariant

\* However handlers interleave, each knows what its rows were.
LEMMA OutcomeStep ==
  AdminInvariant /\ AdminInvariant' /\ OutcomeInvariant /\ [AdminNext]_vars => OutcomeInvariant'
<1> SUFFICES ASSUME AdminInvariant, AdminInvariant', OutcomeInvariant, [AdminNext]_vars
             PROVE  OutcomeInvariant'
  OBVIOUS
<1>1. ASSUME NEW p \in Caller, Receive(p) \/ Handle(p), Witness
      PROVE  OutcomeInvariant'
  <2>1. OneSession(p)
    BY <1>1, HandlersAreApart DEF OutcomeInvariant
  <2>2. Noted(p) /\ \A q \in Caller : Watching(q)'
    BY <1>1, <2>1, StepIsNoted DEF OutcomeInvariant
  <2>3. Keeps(p)
    BY <1>1, <2>2, ReceiveOutcome, AuthenticateOutcome, BeginOutcome, LoadOutcome, CheckOutcome,
       SeedOutcome, CommitOutcome, ConflictOutcome DEF Handle
  <2>4. \A q \in Caller \ {p} : Outcome(q)'
    BY <2>1, <2>2, OthersKeepOutcome DEF OutcomeInvariant
  <2>5. QED
    BY <2>2, <2>3, <2>4 DEF Keeps, OutcomeInvariant
<1>2. CASE UNCHANGED vars
  <2> USE <1>2 DEF vars, adminVars, registryVars
  <2>1. Sessions' /\ RoleCodesKnown'
    BY QuietCodes DEF OutcomeInvariant, Sessions
  <2>2. ASSUME NEW p \in Caller PROVE Outcome(p)' /\ Watching(p)'
    <3>1. Outcome(p) /\ Watching(p)
      BY DEF OutcomeInvariant
    <3>2. Cleared(p)' /\ LoadedMet(p)' /\ SilentUntilDone(p)' /\ Applied(p)' /\ CodesReady(p)'
      BY <3>1 DEF Outcome, Cleared, ManagesWorkspace, LoadedMet, SilentUntilDone, Applied,
                  CodesReady
    <3>3. ParentsMet(p)' /\ DependenciesMet(p)'
      BY <3>1 DEF Outcome, ParentsMet, Parents, DependenciesMet, References
    <3>4. Watching(p)'
      BY <3>1 DEF Watching, Touches, Parents
    <3>5. QED
      BY <3>2, <3>3, <3>4 DEF Outcome
  <2>3. QED
    BY <2>1, <2>2 DEF OutcomeInvariant
<1>3. QED
  BY <1>1, <1>2 DEF AdminNext

\* Every answer, every status and every code a handler goes by was true while
\* its request ran, however the statements of others interleave.
THEOREM OutcomeInvariantHolds == AdminSpec => []OutcomeInvariant
<1>1. QED
  BY OutcomeInit, OutcomeStep, AdminInvariantHolds, PTL DEF AdminSpec

\* Every session, answer and audit row has its type.
THEOREM AdminTypeCorrect == AdminSpec => []AdminTypeOK
<1>1. AdminInvariant /\ OutcomeInvariant => AdminTypeOK
  BY DEF AdminInvariant, OutcomeInvariant, Sessions, AdminTypeOK
<1>2. QED
  BY <1>1, AdminInvariantHolds, OutcomeInvariantHolds, PTL

\* No role carries a code that is not a committed permission.
THEOREM CodesAreKnown == AdminSpec => []RoleCodesKnown
<1>1. OutcomeInvariant => RoleCodesKnown
  BY DEF OutcomeInvariant
<1>2. QED
  BY <1>1, OutcomeInvariantHolds, PTL

\* A client told "ok" can rely on it: its rows were as it asked; told anything
\* else, it has left no audit row.
THEOREM AnswersAreTrue == AdminSpec => []AnsweredAsApplied
<1>1. OutcomeInvariant => AnsweredAsApplied
  BY DEF OutcomeInvariant, Outcome, Applied, AnsweredAsApplied
<1>2. QED
  BY <1>1, OutcomeInvariantHolds, PTL

-----------------------------------------------------------------------------
(* What a commit may do                                                    *)

\* Only a commit changes a row.
LEMMA CommitsChangeRows ==
  ASSUME AdminInvariant, AdminNext, NEW r \in Row,
         status'[r] # status[r] \/ (r \in Agent /\ generation'[r] # generation[r])
  PROVE  \E p \in Caller : Commit(p)
<1>1. PICK p \in Caller : Receive(p) \/ Handle(p)
  BY DEF AdminNext
<1>2. ASSUME NEW from, NEW why, Refuse(p, from, why) PROVE UNCHANGED <<status, generation>>
  BY <1>2 DEF Refuse, registryVars
<1>3. Receive(p) \/ Authenticate(p) \/ Begin(p) => UNCHANGED <<status, generation>>
  BY <1>2 DEF Receive, Authenticate, Begin, registryVars
<1>4. Load(p) \/ Check(p) \/ SeedPermissions(p) \/ Conflict(p) => UNCHANGED <<status, generation>>
  BY <1>2 DEF Load, Check, SeedPermissions, Conflict, registryVars
<1>5. QED
  BY <1>1, <1>3, <1>4 DEF Handle

\* A row is changed for a principal who may, with an answer and an audit row.
LEMMA ChangeIsAccountable ==
  ASSUME AdminInvariant, OutcomeInvariant, AdminNext, NEW r \in Row,
         status'[r] # status[r] \/ (r \in Agent /\ generation'[r] # generation[r])
  PROVE  \E p \in Caller :
           /\ scope[p] \in {Super, home[r]}
           /\ answer[p] = "none" /\ answer'[p] = "ok"
           /\ trail[p] = None /\ trail'[p] = home[r]
<1>1. PICK p \in Caller : Commit(p)
  BY CommitsChangeRows
<1> DEFINE c == cmd[p]
<1>2. /\ step[p] = "write" /\ c \in Commands /\ c \in Command
      /\ answer' = [answer EXCEPT ![p] = "ok"]
      /\ trail' = [trail EXCEPT ![p] = IF c.op \in {"define", "list"} THEN None ELSE home[c.row]]
  BY <1>1, AtCommit, CommandShapes DEF Commit
<1>3. c.op \in {"create", "set", "rotate", "retoken"} /\ home[r] = home[c.row]
  <2>1. CASE status'[r] # status[r]
    <3>1. c.op \in {"create", "set", "rotate"} /\ r \in {c.row, c.by}
               /\ (c.op # "rotate" => r = c.row)
      BY <1>1, <2>1, CommittedStatus
    <3>2. c.op = "rotate" => home[c.row] = home[c.by]
      BY <1>2, CommandShapes DEF SameSlot
    <3>3. QED
      BY <3>1, <3>2
  <2>2. CASE r \in Agent /\ generation'[r] # generation[r]
    <3>1. generation' = IF c.op = "retoken" THEN [generation EXCEPT ![c.row] = @ + 1]
                        ELSE generation
      BY <1>1, AtCommit DEF WriteRows
    <3>2. c.op = "retoken" /\ r = c.row
      BY <2>2, <3>1 DEF AdminInvariant, TypeOK
    <3>3. QED
      BY <3>2
  <2>3. QED
    BY <2>1, <2>2
<1>4. scope[p] \in {Super, home[c.row]} /\ answer[p] = "none" /\ trail[p] = None
  BY <1>2, <1>3 DEF OutcomeInvariant, Outcome, Cleared, ManagesWorkspace, SilentUntilDone
<1>5. answer'[p] = "ok" /\ trail'[p] = home[c.row]
  BY <1>2, <1>3 DEF OutcomeInvariant, Sessions
<1>6. QED
  BY <1>3, <1>4, <1>5

\* No row changes unaccounted for: by whom, with which answer and audit row.
THEOREM ChangesAreAccountable == AdminSpec => EveryChangeAccountable
<1> DEFINE A == \A r \in Row :
                  \/ status'[r] # status[r]
                  \/ r \in Agent /\ generation'[r] # generation[r]
                  => \E p \in Caller :
                       /\ scope[p] \in {Super, home[r]}
                       /\ answer[p] = "none" /\ answer'[p] = "ok"
                       /\ trail[p] = None /\ trail'[p] = home[r]
<1>1. AdminInvariant /\ OutcomeInvariant /\ [AdminNext]_vars => [A]_vars
  BY ChangeIsAccountable
<1>2. QED
  BY <1>1, AdminInvariantHolds, OutcomeInvariantHolds, PTL DEF AdminSpec, EveryChangeAccountable

\* A row becomes active when everything it depends on was active meanwhile.
LEMMA ActivationIsInformed ==
  ASSUME AdminInvariant, OutcomeInvariant, AdminNext, NEW r \in Row \ Workspace,
         status[r] # "active", status'[r] = "active"
  PROVE  \E p \in Caller :
           /\ answer[p] = "none" /\ answer'[p] = "ok"
           /\ r \in {cmd[p].row, cmd[p].by}
           /\ \A x \in References(r) \cup {home[r]} : <<x, "active">> \in met[p]
<1>1. PICK p \in Caller : Commit(p)
  BY CommitsChangeRows
<1> DEFINE c == cmd[p]
<1>2. step[p] = "write" /\ c \in Commands /\ c \in Command
  BY <1>1, AtCommit, CommandShapes
<1>3. \/ c.op \in {"create", "set"} /\ r = c.row /\ c.to = "active"
      \/ c.op = "rotate" /\ r = c.by
  BY <1>1, CommittedStatus
<1>4. DependenciesMet(p) /\ answer[p] = "none" /\ answer'[p] = "ok"
  BY <1>1, <1>2 DEF OutcomeInvariant, Outcome, SilentUntilDone, Commit, Sessions
<1>5. CASE c.op \in {"create", "set"} /\ r = c.row /\ c.to = "active"
  BY <1>2, <1>4, <1>5 DEF DependenciesMet
<1>6. CASE c.op = "rotate" /\ r = c.by
  <2>1. /\ c.row \in Secret /\ r \in Secret /\ SameSlot(c.row, r) /\ c.to = "active"
    BY <1>2, <1>6, CommandShapes
  <2>2. c.row \in Row \ Workspace /\ c.row \notin Capability \cup Binding
        /\ r \notin Capability \cup Binding
    BY <2>1, DisjointAssumption DEF Row
  <2>3. home[c.row] = home[r] /\ holds[c.row] = holds[r]
    BY <2>1, <2>2 DEF SameSlot
  <2>4. References(c.row) = References(r)
    BY <2>1, <2>2, <2>3 DEF References
  <2>5. QED
    BY <1>2, <1>4, <1>6, <2>1, <2>2, <2>3, <2>4 DEF DependenciesMet
<1>7. QED
  BY <1>3, <1>5, <1>6

\* A row becomes active only by the commit of a request that names it, and never
\* on the strength of a row that was not active at any moment of that request.
THEOREM ActivationsAreInformed == AdminSpec => ParentsWereActive
<1> DEFINE A == \A r \in Row \ Workspace :
                  status[r] # "active" /\ status'[r] = "active"
                  => \E p \in Caller :
                       /\ answer[p] = "none" /\ answer'[p] = "ok"
                       /\ r \in {cmd[p].row, cmd[p].by}
                       /\ \A x \in References(r) \cup {home[r]} : <<x, "active">> \in met[p]
<1>1. AdminInvariant /\ OutcomeInvariant /\ [AdminNext]_vars => [A]_vars
  BY ActivationIsInformed
<1>2. QED
  BY <1>1, AdminInvariantHolds, OutcomeInvariantHolds, PTL DEF AdminSpec, ParentsWereActive

=============================================================================
