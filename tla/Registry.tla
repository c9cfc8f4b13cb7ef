------------------------------ MODULE Registry ------------------------------
(***************************************************************************)
(* The committed rows of Grantora's PostgreSQL registry (db/models.py) and *)
(* the queries the runtime asks of them (db/queries.py).                   *)
(*                                                                         *)
(* A row's columns never change after its INSERT, the lifecycle status and *)
(* an agent's token hash excepted: no endpoint of api/admin.py updates     *)
(* anything else, and none deletes.  So the columns are constant functions *)
(* on the rows that may ever exist, and the state is a status per row      *)
(* ("absent" before its INSERT) and a token generation per agent.  A       *)
(* disabled row and a revoked secret are both "inactive": every query asks *)
(* only whether a status is "active".                                      *)
(*                                                                         *)
(* Next is the coarsest thing admin commands can do to the tables, one     *)
(* committed transaction per step: what the foreign keys, the partial      *)
(* unique indexes and the same-workspace checks allow.  It does NOT demand *)
(* that the rows a new binding or secret refers to are active: handlers    *)
(* check that before they commit, not when they commit.                    *)
(***************************************************************************)
EXTENDS Naturals

CONSTANTS
  Workspace, App, Agent, User, Capability, Role, Binding, Secret,
  home,        \* workspace_id column of every row (a workspace is its own home)
  appOf,       \* Capability.application_instance_id
  riskClass,   \* Capability.risk_class
  authMode,    \* Capability.auth_mode
  permissions, \* the permission codes of a role's role_permissions rows
  binds,       \* Binding: agent_id, user_id, capability_id, role_id
  holds,       \* Secret: application_instance_id, owner_id
  Seed,        \* the committed statuses a behaviour may start from
  Frozen,      \* bound: rows no admin command touches in an instance
  MaxGeneration \* bound: token rotations per agent

Row == Workspace \cup App \cup Agent \cup User \cup Capability \cup Role
         \cup Binding \cup Secret

RiskClass == {"read_only", "draft", "side_effect", "destructive", "admin"}

AuthMode == {"system", "user", "user+scope", "admin"}

Status == {"absent", "active", "inactive"}

ASSUME RowAssumption ==
  /\ home \in [Row -> Workspace]
  /\ \A w \in Workspace : home[w] = w
  /\ appOf \in [Capability -> App]
  /\ riskClass \in [Capability -> RiskClass]
  /\ authMode \in [Capability -> AuthMode]
  /\ permissions \in [Role -> SUBSET STRING]
  /\ binds \in [Binding -> [agent: Agent, user: User,
                            capability: Capability, role: Role]]
  /\ holds \in [Secret -> [app: App, owner: Workspace \cup User \cup Agent]]
  /\ MaxGeneration \in Nat

ASSUME DisjointAssumption ==
  /\ Binding \cap (Workspace \cup App \cup Agent \cup User \cup Capability
                     \cup Role \cup Secret) = {}
  /\ Secret \cap (Workspace \cup App \cup Agent \cup User \cup Capability
                    \cup Role) = {}
  /\ Capability \cap (Workspace \cup App \cup Agent \cup User \cup Role) = {}

VARIABLES
  status,     \* lifecycle status of every row
  generation  \* which of its tokens an agent's token_hash is of

registryVars == <<status, generation>>

-----------------------------------------------------------------------------
(* Columns and indexes.  The variants named ...Mistake are wrong on        *)
(* purpose: each imitates the operator after it, and the properties tell   *)
(* the two apart.                                                          *)

Exists(r) == status[r] # "absent"

Active(r) == status[r] = "active"

\* The foreign keys of a row, its workspace left aside.
References(r) ==
  CASE r \in Capability -> {appOf[r]}
    [] r \in Binding -> {binds[r].agent, binds[r].user, binds[r].capability,
                         binds[r].role}
    [] r \in Secret -> {holds[r].app, holds[r].owner}
    [] OTHER -> {}

RoleForgottenMistake(r) == \A p \in References(r) \ Role : home[p] = home[r]

\* What the same-workspace checks of the create handlers demand.
WellPlaced(r) == \A p \in References(r) : home[p] = home[r]

\* Rows that compete for one entry of a partial unique index.
SameSlot(r, s) ==
  \/ /\ {r, s} \subseteq Binding
     /\ home[r] = home[s]
     /\ binds[r].agent = binds[s].agent
     /\ binds[r].user = binds[s].user
     /\ binds[r].capability = binds[s].capability
  \/ /\ {r, s} \subseteq Secret
     /\ home[r] = home[s]
     /\ holds[r] = holds[s]

OnlySecretsMistake(r, Leaving) ==
  \A s \in Secret \ (Leaving \cup {r}) : SameSlot(r, s) => ~Active(s)

\* The index entry that r would take is free, rows in Leaving aside.
SlotFree(r, Leaving) ==
  \A s \in Row \ (Leaving \cup {r}) : SameSlot(r, s) => ~Active(s)

-----------------------------------------------------------------------------
(* Queries: each is one SELECT, so it reads one committed state            *)

GetActiveAgentByToken(a, g) ==
  Active(a) /\ generation[a] = g /\ Active(home[a])

AnyWorkspaceUserMistake(w, u) == Exists(u) /\ Active(w)

\* get_user_by_external_id: the row of the workspace, whatever its status.
GetUser(w, u) == Exists(u) /\ home[u] = w /\ Active(w)

GetActiveCapability(w, c) ==
  /\ home[c] = w
  /\ Active(c)
  /\ Active(w)
  /\ home[appOf[c]] = w
  /\ Active(appOf[c])

AnyStatusUserMistake(w, a, u, c) ==
  {b \in Binding :
     /\ home[b] = w /\ Active(b) /\ Active(w)
     /\ binds[b].agent = a /\ binds[b].user = u /\ binds[b].capability = c
     /\ \A r \in {a, c, appOf[c], binds[b].role} : home[r] = w /\ Active(r)}

GetActiveBinding(w, a, u, c) ==
  {b \in Binding :
     /\ home[b] = w
     /\ binds[b].agent = a
     /\ binds[b].user = u
     /\ binds[b].capability = c
     /\ Active(b)
     /\ Active(w)
     /\ home[a] = w /\ Active(a)
     /\ home[u] = w /\ Active(u)
     /\ home[c] = w /\ Active(c)
     /\ home[appOf[c]] = w /\ Active(appOf[c])
     /\ home[binds[b].role] = w /\ Active(binds[b].role)}

\* list_active_capabilities_for_agent_user, asked of one capability.
ListsCapability(w, a, u, c) ==
  /\ GetActiveCapability(w, c)
  /\ home[a] = w /\ Active(a)
  /\ home[u] = w /\ Active(u)
  /\ \E b \in Binding :
       /\ home[b] = w
       /\ binds[b].agent = a
       /\ binds[b].user = u
       /\ binds[b].capability = c
       /\ Active(b)
       /\ home[binds[b].role] = w /\ Active(binds[b].role)

AnyPermissionMistake(r, code) == permissions[r] # {} /\ Active(r)

RoleGrantsPermission(r, code) == code \in permissions[r] /\ Active(r)

AnyOwnerMistake(w, app, owner) ==
  {s \in Secret : /\ home[s] = w /\ holds[s].app = app /\ Active(s)
                  /\ Active(w) /\ home[app] = w /\ Active(app)}

GetActiveSecret(w, app, owner) ==
  {s \in Secret :
     /\ home[s] = w
     /\ holds[s].app = app
     /\ holds[s].owner = owner
     /\ Active(s)
     /\ Active(w)
     /\ home[app] = w
     /\ Active(app)}

-----------------------------------------------------------------------------
(* Committed admin transactions                                            *)

Init ==
  /\ status \in Seed
  /\ generation = [a \in Agent |-> 0]

Create(r, st) ==
  /\ r \notin Frozen
  /\ status[r] = "absent"
  /\ r \in Workspace \/ Exists(home[r])
  /\ \A p \in References(r) : Exists(p)
  /\ WellPlaced(r)
  /\ st = "active" => SlotFree(r, {})
  /\ status' = [status EXCEPT ![r] = st]
  /\ UNCHANGED generation

SetStatus(r, st) ==
  /\ r \notin Frozen
  /\ Exists(r)
  /\ st = "active" => SlotFree(r, {})
  /\ status' = [status EXCEPT ![r] = st]
  /\ UNCHANGED generation

\* The old secret is revoked and its replacement inserted in one transaction.
RotateSecret(old, new) ==
  /\ {old, new} \cap Frozen = {}
  /\ Exists(old)
  /\ status[new] = "absent"
  /\ SameSlot(old, new)
  /\ SlotFree(new, {old})
  /\ status' = [status EXCEPT ![old] = "inactive", ![new] = "active"]
  /\ UNCHANGED generation

RotateToken(a) ==
  /\ a \notin Frozen
  /\ Exists(a)
  /\ generation[a] < MaxGeneration
  /\ generation' = [generation EXCEPT ![a] = @ + 1]
  /\ UNCHANGED status

Next ==
  \/ \E r \in Row, st \in {"active", "inactive"} : Create(r, st) \/ SetStatus(r, st)
  \/ \E old, new \in Secret : RotateSecret(old, new)
  \/ \E a \in Agent : RotateToken(a)

Spec == Init /\ [][Next]_registryVars

-----------------------------------------------------------------------------
(* Properties                                                              *)

\* Every row has a lifecycle status and every agent one current token.
TypeOK ==
  /\ status \in [Row -> Status]
  /\ generation \in [Agent -> 0 .. MaxGeneration]

\* A row never refers to a row that is not there, nor to one of another
\* workspace: what the runtime's single-workspace joins rely on.
ReferencesStayHome ==
  \A r \in Row : Exists(r) =>
    /\ Exists(home[r])
    /\ \A p \in References(r) : Exists(p) /\ home[p] = home[r]

\* At most one active binding answers for an agent, user and capability and at
\* most one active secret for an owner and application, so the scalar() of
\* get_active_binding and get_active_secret_for_owner has one row to choose.
OneActivePerSlot ==
  \A r, s \in Row : SameSlot(r, s) /\ Active(r) /\ Active(s) => r = s

\* A behaviour starts from statuses that admin commands could have produced.
ASSUME SeedAssumption ==
  \A st \in Seed :
    /\ st \in [Row -> Status]
    /\ \A r \in Row : st[r] # "absent" =>
         /\ st[home[r]] # "absent"
         /\ \A p \in References(r) : st[p] # "absent" /\ home[p] = home[r]
    /\ \A r, s \in Row :
         SameSlot(r, s) /\ st[r] = "active" /\ st[s] = "active" => r = s

=============================================================================
