------------------------------ MODULE AdminApi ------------------------------
(***************************************************************************)
(* The admin plane: the handlers of api/admin.py that change the registry, *)
(* several requests at a time.  A handler checks the principal's scope,    *)
(* then each parent row with a SELECT of its own, and only then writes, so *)
(* what it has checked may be stale when it commits.  The commit is one    *)
(* step: between flush and commit the row locks and the unique indexes     *)
(* make a competing transaction wait for its outcome.                      *)
(*                                                                         *)
(* Registry is the abstract specification: whatever the interleaving, the  *)
(* tables change only as Registry!Next allows.                             *)
(***************************************************************************)
EXTENDS Registry, Sequences, FiniteSets

\* As in Registry, operators named ...Mistake are wrong on purpose.
CONSTANTS
  Caller,      \* admin requests in flight; each is handled once
  Super,       \* the scope of a principal without a workspace
  Scopes,      \* the principals that call: workspaces and Super
  Code,        \* permission codes
  DefaultCode, \* DEFAULT_PERMISSION_DESCRIPTIONS
  SeedCodes,   \* the permission rows a behaviour may start from
  None

ASSUME AdminAssumption ==
  /\ Super \notin Workspace /\ Scopes \subseteq Workspace \cup {Super}
  /\ Caller # {} /\ IsFiniteSet(Caller) /\ None \notin Row \cup Code
  /\ DefaultCode \subseteq Code
  /\ SeedCodes \subseteq SUBSET Code
  /\ \A c \in SeedCodes, st \in Seed, r \in Role :
       st[r] # "absent" => permissions[r] \subseteq c
  /\ \A r \in Role : r \notin Workspace \cup Agent
  /\ \A r \in Row : r \in Secret \cup Binding => r \notin Role

VARIABLES
  codes,   \* committed Permission rows
  step,    \* where the handler of a request is
  cmd,     \* the request
  scope,   \* AdminPrincipal.workspace_id
  next,    \* index of the parent row to check next
  loaded,  \* status of the target as this session loaded it
  missing, \* default codes this session found missing and will insert
  answer,  \* what the client received
  trail,   \* workspace the committed admin audit row is filed under
  met      \* history: which statuses the request's rows had while it ran

adminVars == <<step, cmd, scope, next, loaded, missing, answer, trail>>
vars == <<registryVars, codes, adminVars, met>>

Op == {"create", "set", "rotate", "retoken", "define", "list"}

\* row: the target (for "define" the code); by: the secret a rotation inserts.
Command == [op: Op, row: Row \cup Code \cup {None}, by: Secret \cup {None},
            to: {"active", "inactive"}]

Answer == {"none", "ok", "unauthenticated", "forbidden", "not_found", "mismatch",
           "unknown_code", "conflict", "failed"}

-----------------------------------------------------------------------------
(* Requests                                                                *)

\* Rows whose status must be active, in the order the handlers ask for them.
Parents(r) ==
  CASE r \in Binding -> <<home[r], binds[r].agent, binds[r].user,
                          binds[r].capability, binds[r].role>>
    [] r \in Secret -> IF holds[r].owner \in Workspace
                       THEN <<home[r], holds[r].app>>
                       ELSE <<home[r], holds[r].app, holds[r].owner>>
    [] r \in Capability -> <<home[r], appOf[r]>>
    [] r \in Workspace -> <<>>
    [] OTHER -> <<home[r]>>

\* An agent or a secret is created active; the others as the payload says.
Creates ==
  {c \in [op: {"create"}, row: Row, by: {None}, to: {"active", "inactive"}] :
     c.row \in Agent \cup Secret => c.to = "active"}

Rotates ==
  {c \in [op: {"rotate"}, row: Secret, by: Secret, to: {"active"}] :
     c.row # c.by /\ SameSlot(c.row, c.by)}

Commands ==
  Creates \cup Rotates
    \cup [op: {"set"}, row: Row, by: {None}, to: {"active", "inactive"}]
    \cup [op: {"retoken"}, row: Agent, by: {None}, to: {"active"}]
    \cup [op: {"define"}, row: Code, by: {None}, to: {"active"}]
    \cup [op: {"list"}, row: {None}, by: {None}, to: {"active"}]

InFlight(p) == step[p] \notin {"idle", "done"}

\* A new binding or secret has a generated id: nobody else inserts that row.
Inserts(p) ==
  IF ~InFlight(p) THEN {}
  ELSE IF cmd[p].op = "create" THEN {cmd[p].row} ELSE {cmd[p].by}

FreshId(r) ==
  r \in Binding \cup Secret =>
    status[r] = "absent" /\ \A p \in Caller : r \notin Inserts(p)

Retokens(a) ==
  Cardinality({p \in Caller : InFlight(p) /\ cmd[p].op = "retoken" /\ cmd[p].row = a})

-----------------------------------------------------------------------------
(* Steps of a handler                                                      *)

Goto(p, from, to) == step[p] = from /\ step' = [step EXCEPT ![p] = to]

Refuse(p, from, why) ==
  /\ Goto(p, from, "done")
  /\ answer' = [answer EXCEPT ![p] = why]
  /\ UNCHANGED <<cmd, scope, next, loaded, missing, trail, registryVars, codes>>

Receive(p) ==
  /\ Goto(p, "idle", "auth")
  /\ \E c \in Commands, s \in Scopes :
       /\ {c.row, c.by} \cap Frozen = {}
       /\ c.op = "create" => FreshId(c.row)
       /\ c.op = "rotate" => FreshId(c.by)
       /\ c.op = "retoken" => generation[c.row] + Retokens(c.row) < MaxGeneration
       /\ cmd' = [cmd EXCEPT ![p] = c]
       /\ scope' = [scope EXCEPT ![p] = s]
  /\ UNCHANGED <<next, loaded, missing, answer, trail, registryVars, codes>>

\* require_admin_bootstrap: the token of a workspace's credential works while
\* the workspace is active; the bootstrap token and the OIDC proxy always do.
Authenticate(p) ==
  \/ /\ scope[p] # Super => Active(scope[p])
     /\ Goto(p, "auth", "load")
     /\ UNCHANGED <<cmd, scope, next, loaded, missing, answer, trail, registryVars, codes>>
  \/ scope[p] # Super /\ ~Active(scope[p]) /\ Refuse(p, "auth", "unauthenticated")

AnyScopeMistake(p, w) == scope[p] \in Workspace \cup {Super}

ManagesWorkspace(p, w) == scope[p] \in {Super, w}

\* A command without a row to load: scope only.
Begin(p) ==
  LET c == cmd[p]
      allowed == CASE c.op = "list" -> TRUE
                   [] c.op = "define" \/ c.row \in Workspace -> scope[p] = Super
                   [] OTHER -> ManagesWorkspace(p, home[c.row])
  IN  /\ c.op \in {"create", "define", "list"}
      /\ \/ ~allowed /\ Refuse(p, "load", "forbidden")
         \/ /\ allowed
            /\ Goto(p, "load", IF c.op = "list" THEN "seed"
                               ELSE IF c.op = "define" \/ c.row \in Workspace
                               THEN "write" ELSE "check")
            /\ next' = [next EXCEPT ![p] = 1]
            /\ UNCHANGED <<cmd, scope, loaded, missing, answer, trail, registryVars, codes>>

NothingLoadedMistake(p) ==
  /\ cmd[p].op = "set" /\ Exists(cmd[p].row) /\ Goto(p, "load", "write")
  /\ UNCHANGED <<cmd, scope, next, loaded, missing, answer, trail, registryVars, codes>>

\* session.get of the target, then its scope; a rotation wants it active.
Load(p) ==
  LET c == cmd[p]
      found == IF c.op = "rotate" THEN Active(c.row) ELSE Exists(c.row)
      mustCheck == \/ c.op = "rotate"
                   \/ c.op = "set" /\ c.to = "active" /\ c.row \notin Workspace
  IN  /\ c.op \in {"set", "rotate", "retoken"}
      /\ \/ ~found /\ Refuse(p, "load", "not_found")
         \/ found /\ ~ManagesWorkspace(p, home[c.row]) /\ Refuse(p, "load", "forbidden")
         \/ /\ found /\ ManagesWorkspace(p, home[c.row])
            /\ Goto(p, "load", IF mustCheck THEN "check" ELSE "write")
            /\ loaded' = [loaded EXCEPT ![p] = status[c.row]]
            /\ next' = [next EXCEPT ![p] = 1]
            /\ UNCHANGED <<cmd, scope, missing, answer, trail, registryVars, codes>>

NotInactiveMistake(p) == status[Parents(cmd[p].row)[next[p]]] # "inactive"

AnyStatusMistake(p) == Exists(Parents(cmd[p].row)[next[p]])

ParentActive(p) == Active(Parents(cmd[p].row)[next[p]])

\* One _get_active_..._or_404, and after the last the same-workspace checks.
Check(p) ==
  LET r == cmd[p].row
      last == next[p] = Len(Parents(r))
  IN  /\ step[p] = "check"
      /\ \/ ~ParentActive(p) /\ Refuse(p, "check", "not_found")
         \/ ParentActive(p) /\ last /\ ~WellPlaced(r) /\ Refuse(p, "check", "mismatch")
         \/ /\ ParentActive(p) /\ (last => WellPlaced(r))
            /\ next' = [next EXCEPT ![p] = @ + 1]
            /\ Goto(p, "check", IF ~last THEN "check"
                                ELSE IF r \in Role /\ cmd[p].op = "create"
                                THEN "seed" ELSE "write")
            /\ UNCHANGED <<cmd, scope, loaded, missing, answer, trail, registryVars, codes>>

UnknownSeededMistake(p) ==
  /\ Goto(p, "seed", "write")
  /\ missing' = [missing EXCEPT ![p] =
       (DefaultCode \cup IF cmd[p].row \in Role THEN permissions[cmd[p].row] ELSE {}) \ codes]
  /\ UNCHANGED <<cmd, scope, next, loaded, answer, trail, registryVars, codes>>

\* _ensure_default_permissions, and for a role the codes it asks for.
SeedPermissions(p) ==
  LET absent == DefaultCode \ codes
      r == cmd[p].row
  IN  /\ step[p] = "seed"
      /\ \/ /\ r \in Role => permissions[r] \subseteq codes \cup absent
            /\ Goto(p, "seed", "write")
            /\ missing' = [missing EXCEPT ![p] = absent]
            /\ UNCHANGED <<cmd, scope, next, loaded, answer, trail, registryVars, codes>>
         \/ /\ r \in Role /\ ~(permissions[r] \subseteq codes \cup absent)
            /\ Refuse(p, "seed", "unknown_code")

-----------------------------------------------------------------------------
(* The commit                                                              *)

\* What the primary keys and the unique indexes refuse.
Collides(p) ==
  LET c == cmd[p]
  IN  \/ c.op = "create" /\ Exists(c.row)
      \/ c.op = "create" /\ c.to = "active" /\ ~SlotFree(c.row, {})
      \/ c.op = "set" /\ c.to = "active" /\ loaded[p] # "active" /\ ~SlotFree(c.row, {})
      \/ c.op = "rotate" /\ ~SlotFree(c.by, {c.row})
      \/ c.op = "define" /\ c.row \in codes
      \/ missing[p] \cap codes # {}

\* An UPDATE names only the columns that differ from what was loaded.
NewStatus(p) ==
  LET c == cmd[p]
  IN  CASE c.op = "create" -> [status EXCEPT ![c.row] = c.to]
        [] c.op = "set" /\ loaded[p] # c.to -> [status EXCEPT ![c.row] = c.to]
        [] c.op = "rotate" -> [status EXCEPT ![c.row] = "inactive", ![c.by] = "active"]
        [] OTHER -> status

\* A save that writes back every column of the loaded row.
WholeRowMistake(p) ==
  /\ generation' = IF cmd[p].op = "retoken"
                   THEN [generation EXCEPT ![cmd[p].row] = @ + 1] ELSE generation
  /\ status' = IF cmd[p].op = "retoken"
               THEN [status EXCEPT ![cmd[p].row] = loaded[p]] ELSE NewStatus(p)
  /\ codes' = codes \cup missing[p]
                \cup (IF cmd[p].op = "define" THEN {cmd[p].row} ELSE {})

\* A role whose default codes are not inserted with it.
SeedForgottenMistake(p) ==
  /\ status' = NewStatus(p)
  /\ UNCHANGED <<generation, codes>>

\* The rows a successful commit leaves behind.
WriteRows(p) ==
  /\ status' = NewStatus(p)
  /\ generation' = IF cmd[p].op = "retoken"
                   THEN [generation EXCEPT ![cmd[p].row] = @ + 1] ELSE generation
  /\ codes' = codes \cup missing[p]
                \cup (IF cmd[p].op = "define" THEN {cmd[p].row} ELSE {})

\* _record_admin_audit_event commits with the change; listing writes none and
\* a permission belongs to no workspace.
Commit(p) ==
  LET filed == IF cmd[p].op \in {"define", "list"} THEN None ELSE home[cmd[p].row]
  IN  /\ ~Collides(p)
      /\ Goto(p, "write", "done")
      /\ WriteRows(p)
      /\ answer' = [answer EXCEPT ![p] = "ok"]
      /\ trail' = [trail EXCEPT ![p] = filed]
      /\ UNCHANGED <<cmd, scope, next, loaded, missing>>

\* The list handler commits without _commit_or_conflict.
Conflict(p) ==
  /\ step[p] = "write"
  /\ Collides(p)
  /\ Refuse(p, "write", IF cmd[p].op = "list" THEN "failed" ELSE "conflict")

-----------------------------------------------------------------------------
(* Specification                                                           *)

\* The rows a request reads or writes.
Touches(c) ==
  IF c.row \in Row
  THEN {c.row} \cup ({c.by} \cap Secret)
         \cup {Parents(c.row)[i] : i \in 1 .. Len(Parents(c.row))}
  ELSE {}

Witness ==
  met' = [p \in Caller |->
            IF step[p] = "done" THEN met[p]
            ELSE met[p] \cup {<<r, status'[r]>> : r \in Touches(cmd'[p])}]

Handle(p) ==
  \/ Authenticate(p) \/ Begin(p) \/ Load(p) \/ Check(p) \/ SeedPermissions(p)
  \/ Commit(p) \/ Conflict(p)

AdminInit ==
  /\ Init
  /\ codes \in SeedCodes
  /\ step = [p \in Caller |-> "idle"]
  /\ cmd = [p \in Caller |-> [op |-> "list", row |-> None, by |-> None, to |-> "active"]]
  /\ scope = [p \in Caller |-> Super]
  /\ next = [p \in Caller |-> 1]
  /\ loaded = [p \in Caller |-> "inactive"]
  /\ missing = [p \in Caller |-> {}]
  /\ answer = [p \in Caller |-> "none"]
  /\ trail = [p \in Caller |-> None]
  /\ met = [p \in Caller |-> {}]

AdminNext == \E p \in Caller : (Receive(p) \/ Handle(p)) /\ Witness

AdminSpec == AdminInit /\ [][AdminNext]_vars

-----------------------------------------------------------------------------
(* Properties                                                              *)

Step == {"idle", "auth", "load", "check", "seed", "write", "done"}

\* Every admin request is at one step of its handler with a session of the
\* declared shape.
AdminTypeOK ==
  /\ TypeOK
  /\ codes \subseteq Code
  /\ step \in [Caller -> Step]
  /\ cmd \in [Caller -> Command]
  /\ scope \in [Caller -> Workspace \cup {Super}]
  /\ next \in [Caller -> 1 .. 6]
  /\ loaded \in [Caller -> Status]
  /\ missing \in [Caller -> SUBSET DefaultCode]
  /\ answer \in [Caller -> Answer]
  /\ trail \in [Caller -> Workspace \cup {None}]
  /\ met \in [Caller -> SUBSET (Row \X Status)]

\* A handler at work has a command it received, on rows admins may touch.
Commanded(p) ==
  step[p] # "idle" =>
    /\ cmd[p] \in Commands
    /\ {cmd[p].row, cmd[p].by} \cap Frozen = {}

\* The parents checked so far exist.
ParentsFound(p) ==
  step[p] = "check" =>
    /\ cmd[p].op \in {"create", "set", "rotate"}
    /\ cmd[p].row \in Row \ Workspace
    /\ next[p] \in 1 .. Len(Parents(cmd[p].row))
    /\ \A i \in 1 .. (next[p] - 1) : Exists(Parents(cmd[p].row)[i])

\* A row about to be created will fit where it goes.
Fits(p) ==
  step[p] \in {"seed", "write"} /\ cmd[p].op = "create" /\ cmd[p].row \notin Workspace =>
    /\ WellPlaced(cmd[p].row)
    /\ Exists(home[cmd[p].row])
    /\ \A x \in References(cmd[p].row) : Exists(x)

\* A loaded row exists.
Found(p) ==
  step[p] \in {"check", "seed", "write"} /\ cmd[p].op \in {"set", "rotate", "retoken"} =>
    Exists(cmd[p].row)

\* The generated id of a new binding or secret is nobody else's.
IdsFree ==
  \A p \in Caller : \A r \in Inserts(p) \cap (Binding \cup Secret) :
    /\ status[r] = "absent"
    /\ \A q \in Caller \ {p} : r \notin Inserts(q)

\* Every rotation under way stays within the bound.
RotationsLeft == \A a \in Agent : generation[a] + Retokens(a) <= MaxGeneration

\* Why ImplementsRegistry holds: what a handler may rely on when it commits, although
\* others have committed since it looked (api/admin.py:838-1107).
AdminInvariant ==
  /\ TypeOK
  /\ step \in [Caller -> Step] /\ cmd \in [Caller -> Command]
  /\ next \in [Caller -> Nat]
  /\ \A p \in Caller : Commanded(p) /\ ParentsFound(p) /\ Fits(p) /\ Found(p)
  /\ IdsFree
  /\ RotationsLeft

\* Refinement: however the statements of concurrent handlers interleave, the
\* tables change one permitted admin transaction at a time, never by half of one
\* or by writing back a stale column (api/admin.py:133-1107).
ImplementsRegistry == Spec

\* A role carries no code that is not a committed permission row, although codes
\* are looked up, seeded and inserted in different statements (admin.py:574-606).
RoleCodesKnown ==
  \A r \in Role : Exists(r) => permissions[r] \subseteq codes

\* A change of a row is made for a principal who may manage its workspace, and
\* commits together with an audit row filed under that workspace.
EveryChangeAccountable ==
  [][\A r \in Row :
       \/ status'[r] # status[r]
       \/ r \in Agent /\ generation'[r] # generation[r]
       => \E p \in Caller :
            /\ scope[p] \in {Super, home[r]}
            /\ answer[p] = "none" /\ answer'[p] = "ok"
            /\ trail[p] = None /\ trail'[p] = home[r]]_vars

\* A capability, binding or secret becomes active only by the commit of a request
\* that names it and while which every row it depends on was active at some
\* moment, though perhaps not any more at the commit and not all at once
\* (admin.py:655-692, 1531-1551).
ParentsWereActive ==
  [][\A r \in Row \ Workspace :
       status[r] # "active" /\ status'[r] = "active"
       => \E p \in Caller :
            /\ answer[p] = "none" /\ answer'[p] = "ok"
            /\ r \in {cmd[p].row, cmd[p].by}
            /\ \A x \in References(r) \cup {home[r]} : <<x, "active">> \in met[p]]_vars

\* A client told "ok" can rely on it: while its request ran there was a committed
\* state in which its rows were as it asked, also when the handler skipped the
\* UPDATE because the loaded status already was the requested one.  Told anything
\* else, it has left no audit row behind (admin.py:1181-1191).
AnsweredAsApplied ==
  \A p \in Caller :
    LET c == cmd[p]
    IN  /\ answer[p] = "ok" =>
             /\ c.op \in {"create", "set"} => <<c.row, c.to>> \in met[p]
             /\ c.op = "rotate" =>
                  {<<c.row, "inactive">>, <<c.by, "active">>} \subseteq met[p]
        /\ answer[p] # "ok" => trail[p] = None

\* CONTRACTS.md:779 says of a rotation "The old secret must exist and be active."
\* The handler checks that when it loads the row, several statements before it
\* commits, so a secret revoked meanwhile still gets an active replacement
\* (admin.py:865-892).
RotatedWhileActive ==
  [][\A p \in Caller :
       cmd[p].op = "rotate" /\ answer[p] = "none" /\ answer'[p] = "ok"
       => Active(cmd[p].row)]_vars

\* CONTRACTS.md:592 says "Built-in permission seeding is idempotent".  Two first
\* requests that both find the codes missing both insert them, and the listing
\* handler commits without the conflict guard (admin.py:559-560).
SeedingNeverFails ==
  \A p \in Caller : answer[p] # "failed"

=============================================================================
