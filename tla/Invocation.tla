----------------------------- MODULE Invocation -----------------------------
(***************************************************************************)
(* The runtime plane: POST /invoke/{capability_id} and POST /mcp/call of   *)
(* api/runtime.py, from bearer authentication to the audit and usage       *)
(* records, while admin transactions commit between any two statements.    *)
(*                                                                         *)
(* The session runs at READ COMMITTED, so every SELECT of the handler sees *)
(* the registry as committed at that moment and an action stands for one   *)
(* SELECT with the tests the code makes on its result.  Work that touches  *)
(* no shared state is merged into the step before or after it.  An MCP     *)
(* call carries a tool name.  It lists the capabilities bound to the agent *)
(* and user, looks at each in turn, names those it finds visible and takes *)
(* the one of that name ("tools" phase), then runs the whole direct path   *)
(* ("invoke" phase) in the same session.                                   *)
(***************************************************************************)
EXTENDS Registry, Sequences

CONSTANTS
  Request,
  ReadOnlyAttempts, \* RetryPolicy.read_only_attempts
  rank, base, hashed, digits, \* what Names knows of a capability's id
  None

Tools == INSTANCE Names

ASSUME InvocationAssumption ==
  /\ ReadOnlyAttempts \in Nat
  /\ None \notin User \cup App \cup Capability \cup Binding \cup Secret
  /\ Agent # {} /\ User # {} /\ Capability # {}
  /\ Tools!WellNamed

VARIABLES
  pc,      \* the statement the handler of a request runs next
  ask,     \* who calls what: bearer token, user, endpoint, id or tool name
  phase,   \* "tools" while an MCP tool name is looked up, else "invoke"
  target,  \* the capability at hand: looked at by the lookup, or invoked
  pending, \* capabilities the lookup has listed and not looked at yet
  visible, \* capabilities the lookup has found visible
  loaded,  \* the session's identity map holds the User row, read as active
  binding, \* the Binding row last returned
  secret,  \* the Secret row whose value was decrypted for the adapter
  calls,   \* HTTP requests sent to the upstream application
  verdict, \* the records about to be written and the answer to give
  audit,   \* committed AuditEvent rows of a request
  usage,   \* committed UsageEvent rows of a request
  reply,   \* what the client received
  seen     \* history: facts true of some committed state since arrival

lookupVars == <<phase, target, pending, visible>>
sessionVars == <<pc, ask, lookupVars, loaded, binding, secret, calls, verdict>>
recordVars == <<audit, usage, reply>>
vars == <<registryVars, sessionVars, recordVars, seen>>

\* The names a client may have been given, and keep.
ToolName == UNION {{base[c]} \cup Tools!Hashed(c) : c \in Capability}

Ask == [agent: Agent, generation: 0 .. MaxGeneration, user: User,
        via: {"invoke"}, wants: Capability]
       \cup [agent: Agent, generation: 0 .. MaxGeneration, user: User,
             via: {"mcp"}, wants: ToolName]

Stage == {"idle", "auth", "user", "tools", "tool", "binding", "describe", "permit",
          "capability", "application", "input", "secret", "adapter",
          "upstream", "record", "respond", "done"}

Phase == {"tools", "invoke"}

Reply == {"none", "ok", "denied", "error", "unauthenticated", "failed"}

Code == {"none", "capability_denied", "secret_not_found", "secret_unavailable",
         "invalid_capability_input", "adapter_error"}

Verdict == [user: User \cup {None}, app: App \cup {None},
            decision: {"allow", "deny"}, outcome: {"success", "error"},
            usage: {"success", "error", "denied"}, code: Code]

AuditEvent == [workspace: Workspace, agent: Agent, user: User \cup {None},
               app: App \cup {None}, decision: {"allow", "deny"},
               outcome: {"success", "error"}, code: Code]

UsageEvent == [workspace: Workspace, agent: Agent, user: User \cup {None},
               app: App \cup {None}, status: {"success", "error", "denied"}]

-----------------------------------------------------------------------------
(* Helpers                                                                 *)

Describe == "capability.describe"

SwappedPermissionMistake(risk) ==
  IF risk = "read_only" THEN "capability.invoke.side_effect"
  ELSE "capability.invoke.read_only"

\* invoke_permission_for_risk_class; "none" where the code returns None.
InvokePermission(risk) ==
  CASE risk = "read_only" -> "capability.invoke.read_only"
    [] risk \in {"draft", "side_effect"} -> "capability.invoke.side_effect"
    [] risk = "destructive" -> "capability.invoke.destructive"
    [] OTHER -> "none"

NeededPermission(q) == InvokePermission(riskClass[target[q]])

Home(q) == home[ask[q].agent]

AppOf(q) == appOf[target[q]]

UserOnlyMistake(q) ==
  LET c == target[q]
  IN  GetActiveSecret(home[c], appOf[c], ask[q].user)

\* The candidate rows of resolve_secret_material, by auth_mode.
UsableSecrets(q) ==
  LET c == target[q]
  IN  CASE authMode[c] \in {"user", "user+scope"} ->
             GetActiveSecret(home[c], appOf[c], ask[q].user)
        [] authMode[c] = "system" ->
             GetActiveSecret(home[c], appOf[c], home[c])
        [] OTHER -> {}

AttemptsForAllMistake(c) == IF ReadOnlyAttempts > 1 THEN ReadOnlyAttempts ELSE 1

\* _attempts_for_capability
Attempts(c) ==
  IF riskClass[c] = "read_only" /\ ReadOnlyAttempts > 1 THEN ReadOnlyAttempts ELSE 1

InFlight(q) == pc[q] \notin {"idle", "done"}

-----------------------------------------------------------------------------
(* History: what has been true of the committed registry since q arrived.  *)

TokenCurrent(q) == GetActiveAgentByToken(ask[q].agent, ask[q].generation)

\* The permission a role must hold to call a capability, besides Describe.
Requires(risk) ==
  {code \in {"capability.invoke.read_only", "capability.invoke.side_effect",
             "capability.invoke.destructive"} :
     \/ risk = "read_only" /\ code = "capability.invoke.read_only"
     \/ risk \in {"draft", "side_effect"} /\ code = "capability.invoke.side_effect"
     \/ risk = "destructive" /\ code = "capability.invoke.destructive"}

\* The rows a grant stands on.
Joined == [b \in Binding |->
  LET k == binds[b]
  IN  {b, home[b], k.agent, k.user, k.capability, appOf[k.capability], k.role}]

\* A single committed state in which the caller may call c.
Granted(q, c) ==
  \E b \in Binding :
    /\ binds[b].capability = c
    /\ binds[b].user = ask[q].user
    /\ binds[b].agent = ask[q].agent
    /\ \A row \in Joined[b] : Active(row) /\ home[row] = Home(q)
    /\ Describe \in permissions[binds[b].role]
    /\ Requires(riskClass[c]) \cap permissions[binds[b].role] # {}

\* Secrets that are active, of the caller's workspace and c's application, and
\* owned by whom c's auth_mode names.
Entitled(q, c) ==
  {s \in Secret :
     /\ holds[s].app = appOf[c]
     /\ \/ /\ authMode[c] \in {"user", "user+scope"}
           /\ holds[s].owner = ask[q].user
        \/ /\ authMode[c] = "system"
           /\ holds[s].owner = Home(q)
     /\ \A row \in {s, Home(q), appOf[c]} : Active(row) /\ home[row] = Home(q)}

\* What has held at some moment: the token, grants, secrets by capability; and
\* what has been missing at some moment.
Seen == [token: BOOLEAN, grants: SUBSET Capability,
         secrets: [Capability -> SUBSET Secret],
         lapsed: BOOLEAN, ungranted: SUBSET Capability, unentitled: SUBSET Capability]

Nothing == [token |-> FALSE, grants |-> {}, secrets |-> [c \in Capability |-> {}],
            lapsed |-> FALSE, ungranted |-> {}, unentitled |-> {}]

Witness ==
  seen' = [q \in Request |->
    LET granted == {c \in Capability : Granted(q, c)'}
    IN  IF ~InFlight(q)' THEN seen[q]
        ELSE [token |-> seen[q].token \/ TokenCurrent(q)',
              grants |-> seen[q].grants \cup granted,
              secrets |-> [c \in Capability |-> seen[q].secrets[c] \cup Entitled(q, c)'],
              lapsed |-> seen[q].lapsed \/ ~TokenCurrent(q)',
              ungranted |-> seen[q].ungranted \cup (Capability \ granted),
              unentitled |-> seen[q].unentitled \cup {c \in Capability : Entitled(q, c)' = {}}]]

-----------------------------------------------------------------------------
(* Steps of a handler                                                      *)

Goto(q, from, to) == pc[q] = from /\ pc' = [pc EXCEPT ![q] = to]

\* The arguments of _record_invocation_attempt.
Record(q, user, app, decision, outcome, usageStatus, code) ==
  verdict' = [verdict EXCEPT ![q] =
    [user |-> user, app |-> app, decision |-> decision,
     outcome |-> outcome, usage |-> usageStatus, code |-> code]]

UnrecordedRefusalMistake(q, from, user, app, code) ==
  /\ Goto(q, from, "respond")
  /\ Record(q, user, app, "deny", "error", "denied", code)
  /\ UNCHANGED <<ask, lookupVars, loaded, binding, secret, calls>>

MiscountedRefusalMistake(q, from, user, app, code) ==
  /\ Goto(q, from, "record")
  /\ Record(q, user, app, "deny", "error", "error", code)
  /\ UNCHANGED <<ask, lookupVars, loaded, binding, secret, calls>>

Refuse(q, from, user, app, code) ==
  /\ Goto(q, from, "record")
  /\ Record(q, user, app, "deny", "error", "denied", code)
  /\ UNCHANGED <<ask, lookupVars, loaded, binding, secret, calls>>

Deny(q, from, user, app) == Refuse(q, from, user, app, "capability_denied")

Fault(q, from, code) ==
  /\ Goto(q, from, "record")
  /\ Record(q, ask[q].user, AppOf(q), "allow", "error", "error", code)
  /\ UNCHANGED <<ask, lookupVars, loaded, binding, secret, calls>>

Pass(q, from, to) ==
  /\ Goto(q, from, to)
  /\ UNCHANGED <<ask, loaded, binding, secret, calls, verdict>>

\* A capability the lookup looks at is skipped, one to be invoked refused.
Reject(q, from) ==
  \/ /\ phase[q] = "tools"
     /\ Pass(q, from, "tool")
     /\ target' = [target EXCEPT ![q] = None]
     /\ UNCHANGED <<phase, pending, visible>>
  \/ /\ phase[q] = "invoke"
     /\ Deny(q, from, ask[q].user, AppOf(q))

Arrive(q) ==
  /\ Goto(q, "idle", "auth")
  /\ \E a \in Ask :
       /\ a.generation <= generation[a.agent]
       /\ ask' = [ask EXCEPT ![q] = a]
       /\ phase' = [phase EXCEPT ![q] = IF a.via = "mcp" THEN "tools" ELSE "invoke"]
       /\ target' = [target EXCEPT ![q] = IF a.via = "mcp" THEN None ELSE a.wants]
  /\ UNCHANGED <<pending, visible, loaded, binding, secret, calls, verdict, recordVars>>

\* require_authenticated_agent: a refusal leaves before the handler runs.
Authenticate(q) ==
  \/ /\ TokenCurrent(q)
     /\ Pass(q, "auth", "user")
     /\ UNCHANGED <<lookupVars, recordVars>>
  \/ /\ ~TokenCurrent(q)
     /\ Pass(q, "auth", "done")
     /\ reply' = [reply EXCEPT ![q] = "unauthenticated"]
     /\ UNCHANGED <<lookupVars, audit, usage>>

\* _select_runtime_user.  A row already in the identity map is not refreshed,
\* so the second selection of an MCP call tests the status of the first.
SelectUser(q) ==
  LET found == GetUser(Home(q), ask[q].user)
      active == found /\ (loaded[q] \/ Active(ask[q].user))
  IN  /\ \/ /\ active
            /\ Goto(q, "user", IF phase[q] = "tools" THEN "tools" ELSE "capability")
            /\ loaded' = [loaded EXCEPT ![q] = TRUE]
            /\ UNCHANGED <<ask, lookupVars, binding, secret, calls, verdict>>
         \/ /\ ~active
            /\ Deny(q, "user", IF found THEN ask[q].user ELSE None, None)
      /\ UNCHANGED recordVars

\* The one SELECT of list_active_capabilities_for_agent_user.
ListTools(q) ==
  /\ Pass(q, "tools", "tool")
  /\ pending' = [pending EXCEPT ![q] =
       {c \in Capability : ListsCapability(Home(q), ask[q].agent, ask[q].user, c)}]
  /\ UNCHANGED <<phase, target, visible, recordVars>>

\* The loop of _list_visible_capabilities takes the next one in id order.
NextTool(q) ==
  /\ Pass(q, "tool", "binding")
  /\ \E c \in pending[q] :
       /\ Tools!Before(c, pending[q]) = {}
       /\ target' = [target EXCEPT ![q] = c]
       /\ pending' = [pending EXCEPT ![q] = @ \ {c}]
  /\ UNCHANGED <<phase, visible, recordVars>>

AllNamesMistake(q) ==
  LET name == Tools!ToolNameMap(Capability)
      hits == {c \in visible[q] : name[c] = ask[q].wants}
  IN  /\ pending[q] = {}
      /\ \/ /\ Pass(q, "tool", "user")
            /\ \E c \in hits :
                 Tools!Before(c, hits) = {} /\ target' = [target EXCEPT ![q] = c]
            /\ phase' = [phase EXCEPT ![q] = "invoke"]
            /\ UNCHANGED <<pending, visible>>
         \/ hits = {} /\ Deny(q, "tool", ask[q].user, None)
      /\ UNCHANGED recordVars

\* All looked at: the visible capabilities are named together and the first of
\* the name asked for is invoked.  Without a name for each the code raises, which
\* only Abort follows.
ResolveTool(q) ==
  LET name == Tools!ToolNameMap(visible[q])
      hits == {c \in visible[q] : name[c] = ask[q].wants}
  IN  /\ pending[q] = {}
      /\ Tools!Complete(visible[q])
      /\ \/ /\ Pass(q, "tool", "user")
            /\ \E c \in hits :
                 Tools!Before(c, hits) = {} /\ target' = [target EXCEPT ![q] = c]
            /\ phase' = [phase EXCEPT ![q] = "invoke"]
            /\ UNCHANGED <<pending, visible>>
         \/ hits = {} /\ Deny(q, "tool", ask[q].user, None)
      /\ UNCHANGED recordVars

SelectCapability(q) ==
  LET found == GetActiveCapability(Home(q), target[q])
  IN  /\ pc[q] = "capability"
      /\ \/ found /\ Pass(q, "capability", "application") /\ UNCHANGED lookupVars
         \/ ~found /\ Deny(q, "capability", ask[q].user, None)
      /\ UNCHANGED recordVars

\* capability.application_instance is loaded lazily, by a SELECT of its own.
CheckApplication(q) ==
  /\ pc[q] = "application"
  /\ \/ Active(AppOf(q)) /\ Pass(q, "application", "binding") /\ UNCHANGED lookupVars
     \/ ~Active(AppOf(q)) /\ Deny(q, "application", ask[q].user, None)
  /\ UNCHANGED recordVars

FindBinding(q) ==
  LET rows == GetActiveBinding(Home(q), ask[q].agent, ask[q].user, target[q])
  IN  /\ pc[q] = "binding"
      /\ \/ /\ NeededPermission(q) # "none"
            /\ Goto(q, "binding", "describe")
            /\ \E b \in rows : binding' = [binding EXCEPT ![q] = b]
            /\ UNCHANGED <<ask, lookupVars, loaded, secret, calls, verdict>>
         \/ /\ rows = {} \/ NeededPermission(q) = "none"
            /\ Reject(q, "binding")
      /\ UNCHANGED recordVars

CheckDescribe(q) ==
  LET granted == RoleGrantsPermission(binds[binding[q]].role, Describe)
  IN  /\ pc[q] = "describe"
      /\ \/ granted /\ Pass(q, "describe", "permit") /\ UNCHANGED lookupVars
         \/ ~granted /\ Reject(q, "describe")
      /\ UNCHANGED recordVars

CheckInvoke(q) ==
  LET granted == RoleGrantsPermission(binds[binding[q]].role, NeededPermission(q))
  IN  /\ pc[q] = "permit"
      /\ \/ /\ granted /\ phase[q] = "tools"
            /\ Pass(q, "permit", "tool")
            /\ visible' = [visible EXCEPT ![q] = @ \cup {target[q]}]
            /\ target' = [target EXCEPT ![q] = None]
            /\ UNCHANGED <<phase, pending>>
         \/ granted /\ phase[q] = "invoke" /\ Pass(q, "permit", "input") /\ UNCHANGED lookupVars
         \/ ~granted /\ Reject(q, "permit")
      /\ UNCHANGED recordVars

ValidateInput(q) ==
  /\ (Pass(q, "input", "secret") /\ UNCHANGED lookupVars) \/ Fault(q, "input", "invalid_capability_input")
  /\ UNCHANGED recordVars

DecryptedThenRefusedMistake(q) ==
  /\ pc[q] = "secret" /\ pc' = [pc EXCEPT ![q] = "record"]
  /\ \E s \in UsableSecrets(q) : secret' = [secret EXCEPT ![q] = s]
  /\ Record(q, ask[q].user, AppOf(q), "deny", "error", "denied", "secret_unavailable")
  /\ UNCHANGED <<ask, lookupVars, loaded, binding, calls, recordVars>>

\* An auth_mode without an owner, no row, or a value that cannot be decrypted
\* or fetched: each is a denial.
ResolveSecret(q) ==
  /\ pc[q] = "secret"
  /\ \/ /\ Goto(q, "secret", "adapter")
        /\ \E s \in UsableSecrets(q) : secret' = [secret EXCEPT ![q] = s]
        /\ UNCHANGED <<ask, lookupVars, loaded, binding, calls, verdict>>
     \/ /\ authMode[target[q]] = "admin"
        /\ Deny(q, "secret", ask[q].user, AppOf(q))
     \/ /\ authMode[target[q]] # "admin"
        /\ Refuse(q, "secret", ask[q].user, AppOf(q),
             IF UsableSecrets(q) = {} THEN "secret_not_found" ELSE "secret_unavailable")
  /\ UNCHANGED recordVars

\* No adapter registered, or the adapter refuses before it sends anything.
RejectByAdapter(q) == Fault(q, "adapter", "adapter_error") /\ UNCHANGED recordVars

\* The adapter answers without an upstream (the mock adapter).
AnswerLocally(q) ==
  /\ Goto(q, "adapter", "record")
  /\ Record(q, ask[q].user, AppOf(q), "allow", "success", "success", "none")
  /\ UNCHANGED <<ask, lookupVars, loaded, binding, secret, calls, recordVars>>

Send(q, from) ==
  /\ Goto(q, from, "upstream")
  /\ calls' = [calls EXCEPT ![q] = @ + 1]
  /\ UNCHANGED <<ask, lookupVars, loaded, binding, secret, verdict, recordVars>>

SendFirst(q) == Send(q, "adapter")

\* A timeout, a transport error, a 429 or a 5xx with attempts left.
Resend(q) ==
  /\ Send(q, "upstream")
  /\ calls[q] < Attempts(target[q])

UpstreamSucceeds(q) ==
  /\ Goto(q, "upstream", "record")
  /\ Record(q, ask[q].user, AppOf(q), "allow", "success", "success", "none")
  /\ UNCHANGED <<ask, lookupVars, loaded, binding, secret, calls, recordVars>>

\* An error result, an exception or an output the schema rejects.
UpstreamFails(q) == Fault(q, "upstream", "adapter_error") /\ UNCHANGED recordVars

SwappedColumnsMistake(q) ==
  /\ Pass(q, "record", "respond")
  /\ usage' = [usage EXCEPT ![q] = Append(@,
       [workspace |-> Home(q), agent |-> ask[q].agent, user |-> verdict[q].user,
        app |-> verdict[q].app, status |-> verdict[q].code])]
  /\ UNCHANGED <<lookupVars, audit, reply>>

\* The commit of _record_invocation_attempt: both rows or neither.
CommitRecords(q) ==
  LET v == verdict[q]
  IN  /\ Pass(q, "record", "respond")
      /\ audit' = [audit EXCEPT ![q] = Append(@,
           [workspace |-> Home(q), agent |-> ask[q].agent, user |-> v.user,
            app |-> v.app, decision |-> v.decision, outcome |-> v.outcome,
            code |-> v.code])]
      /\ usage' = [usage EXCEPT ![q] = Append(@,
           [workspace |-> Home(q), agent |-> ask[q].agent, user |-> v.user,
            app |-> v.app, status |-> v.usage])]
      /\ UNCHANGED <<lookupVars, reply>>

Respond(q) ==
  /\ Pass(q, "respond", "done")
  /\ reply' = [reply EXCEPT ![q] =
       IF verdict[q].decision = "deny" THEN "denied"
       ELSE IF verdict[q].outcome = "success" THEN "ok" ELSE "error"]
  /\ UNCHANGED <<lookupVars, audit, usage>>

\* A database error nobody catches (500), or the process stops: what was not
\* committed is gone.
Abort(q) ==
  /\ InFlight(q)
  /\ pc' = [pc EXCEPT ![q] = "done"]
  /\ reply' = [reply EXCEPT ![q] = "failed"]
  /\ UNCHANGED <<ask, lookupVars, loaded, binding, secret, calls, verdict, audit, usage>>

-----------------------------------------------------------------------------
(* Specification                                                           *)

Handle(q) ==
  \/ Authenticate(q) \/ SelectUser(q)
  \/ ListTools(q) \/ NextTool(q) \/ ResolveTool(q)
  \/ SelectCapability(q) \/ CheckApplication(q) \/ FindBinding(q) \/ CheckDescribe(q) \/ CheckInvoke(q)
  \/ ValidateInput(q) \/ ResolveSecret(q)
  \/ RejectByAdapter(q) \/ AnswerLocally(q) \/ SendFirst(q) \/ Resend(q)
  \/ UpstreamSucceeds(q) \/ UpstreamFails(q)
  \/ CommitRecords(q) \/ Respond(q)

Runtime(q) ==
  /\ Arrive(q) \/ Handle(q) \/ Abort(q)
  /\ UNCHANGED registryVars
  /\ Witness

\* A commit of the admin plane; one that changes nothing is a stutter.
Administer ==
  /\ Next
  /\ registryVars' # registryVars
  /\ UNCHANGED <<sessionVars, recordVars>>
  /\ Witness

RuntimeInit ==
  /\ Init
  /\ pc = [q \in Request |-> "idle"]
  /\ ask = [q \in Request |-> CHOOSE a \in Ask : TRUE]
  /\ phase = [q \in Request |-> "invoke"]
  /\ target = [q \in Request |-> None]
  /\ pending = [q \in Request |-> {}]
  /\ visible = [q \in Request |-> {}]
  /\ loaded = [q \in Request |-> FALSE]
  /\ binding = [q \in Request |-> None]
  /\ secret = [q \in Request |-> None]
  /\ calls = [q \in Request |-> 0]
  /\ verdict = [q \in Request |-> [user |-> None, app |-> None, decision |-> "deny",
                                   outcome |-> "error", usage |-> "denied",
                                   code |-> "none"]]
  /\ audit = [q \in Request |-> <<>>]
  /\ usage = [q \in Request |-> <<>>]
  /\ reply = [q \in Request |-> "none"]
  /\ seen = [q \in Request |-> Nothing]

RuntimeNext == Administer \/ \E q \in Request : Runtime(q)

RuntimeSpec == RuntimeInit /\ [][RuntimeNext]_vars

-----------------------------------------------------------------------------
(* Properties                                                              *)

SessionTypeOK ==
  /\ pc \in [Request -> Stage]
  /\ ask \in [Request -> Ask]
  /\ phase \in [Request -> Phase]
  /\ target \in [Request -> Capability \cup {None}]
  /\ pending \in [Request -> SUBSET Capability]
  /\ visible \in [Request -> SUBSET Capability]
  /\ loaded \in [Request -> BOOLEAN]
  /\ binding \in [Request -> Binding \cup {None}]
  /\ secret \in [Request -> Secret \cup {None}]
  /\ calls \in [Request -> Nat]
  /\ verdict \in [Request -> Verdict]

RecordTypeOK ==
  /\ audit \in [Request -> Seq(AuditEvent)]
  /\ usage \in [Request -> Seq(UsageEvent)]
  /\ reply \in [Request -> Reply]

\* When the handler holds a capability, and when the lookup holds none.
TargetKnown(q) ==
  /\ pc[q] \in {"capability", "application", "input", "secret", "adapter", "upstream"} =>
       phase[q] = "invoke"
  /\ pc[q] \in {"tools", "tool"} => phase[q] = "tools"
  /\ \/ pc[q] # "idle" /\ phase[q] = "invoke"
     \/ pc[q] \in {"binding", "describe", "permit"}
     => target[q] \in Capability
  /\ phase[q] = "tools" /\ pc[q] \in {"auth", "user", "tools", "tool"} => target[q] = None

\* Every request is at one statement of the handler with a session and records
\* of the declared shapes, and with a capability at hand where it needs one.
RuntimeTypeOK ==
  /\ TypeOK /\ SessionTypeOK /\ RecordTypeOK /\ seen \in [Request -> Seen]
  /\ \A q \in Request : TargetKnown(q)

\* An upstream secret is decrypted, an upstream call made and a success recorded
\* or answered only for a request whose token, whole grant (workspace, agent,
\* user, capability, application, role and binding active together, in one
\* workspace, with both permissions) and secret were each valid in some committed
\* state after it arrived: what was disabled before is never used, however admin
\* commits fall between the handler's statements (api/runtime.py:302-439).
UsedOnlyIfAuthorized ==
  \A q \in Request :
    \/ secret[q] # None \/ calls[q] > 0 \/ reply[q] = "ok"
    \/ \E i \in DOMAIN audit[q] : audit[q][i].outcome = "success"
    => /\ seen[q].token
       /\ target[q] \in seen[q].grants
       /\ secret[q] \in seen[q].secrets[target[q]]

\* Why UsedOnlyIfAuthorized holds: what each statement has established for the
\* statements after it.  PermitsAll is the part of a grant that never changes.
PermitsAll(q, b) == {Describe, NeededPermission(q)} \subseteq permissions[binds[b].role]

HistoryCurrent(q) ==
  InFlight(q) =>
    /\ TokenCurrent(q) => seen[q].token
    /\ \A c \in Capability :
         /\ Granted(q, c) => c \in seen[q].grants
         /\ Entitled(q, c) \subseteq seen[q].secrets[c]

Established(q) ==
  /\ pc[q] \notin {"idle", "auth", "done"} => seen[q].token
  /\ visible[q] \subseteq seen[q].grants
  /\ pc[q] \in {"describe", "permit"} =>
       /\ binding[q] \in Binding
       /\ home[target[q]] = Home(q)
       /\ PermitsAll(q, binding[q]) => target[q] \in seen[q].grants
  /\ pc[q] = "permit" => Describe \in permissions[binds[binding[q]].role]
  /\ pc[q] \in {"input", "secret", "adapter", "upstream"} =>
       /\ home[target[q]] = Home(q)
       /\ target[q] \in seen[q].grants
  /\ pc[q] \in {"adapter", "upstream"} => secret[q] # None

Justified(q) ==
  /\ secret[q] # None =>
       /\ pc[q] \in {"adapter", "upstream", "record", "respond", "done"}
       /\ target[q] \in Capability
       /\ seen[q].token /\ target[q] \in seen[q].grants
       /\ secret[q] \in seen[q].secrets[target[q]]
  /\ calls[q] > 0 => secret[q] # None
  /\ pc[q] \in {"record", "respond"} /\ verdict[q].outcome = "success" => secret[q] # None
  /\ \A i \in DOMAIN audit[q] : audit[q][i].outcome = "success" => secret[q] # None
  /\ reply[q] = "ok" => secret[q] # None

AuthorizationInvariant ==
  /\ RuntimeTypeOK
  /\ \A q \in Request : HistoryCurrent(q) /\ Established(q) /\ Justified(q)

\* No capability has the tool name asked for among capabilities that can be found
\* visible together: all that were granted throughout, and some that were at
\* some moment.
NameLost(q) ==
  \E V \in SUBSET seen[q].grants :
    /\ Capability \ seen[q].ungranted \subseteq V
    /\ \A c \in V : Tools!ToolNameMap(V)[c] # ask[q].wants

\* A caller whose token, grant and secret hold in every committed state of the
\* call is refused only when the tool name it kept stands for nothing any more:
\* each refusal is explained by a moment at which what it names was missing, or
\* by what else became visible beside a standing grant (api/runtime.py:184-200,
\* 304-416, 557-565, auth/dependencies.py:65).
RefusedOnlyIfLapsed ==
  \A q \in Request :
    /\ reply[q] = "unauthenticated" => seen[q].lapsed
    /\ \A i \in DOMAIN audit[q] :
         /\ audit[q][i].code = "capability_denied" =>
              IF target[q] = None THEN NameLost(q)
              ELSE target[q] \in seen[q].ungranted \/ authMode[target[q]] = "admin"
         /\ audit[q][i].code = "secret_not_found" => target[q] \in seen[q].unentitled

\* A client that gets a result or a refusal from the handler can rely on exactly
\* one audit and one usage row, committed before and telling the same story;
\* nothing is ever recorded twice (api/runtime.py:693-742).
RecordedOnceBeforeReply ==
  \A q \in Request :
    /\ Len(audit[q]) = Len(usage[q])
    /\ Len(audit[q]) <= 1
    /\ reply[q] \in {"ok", "denied", "error"} => Len(audit[q]) = 1
    /\ reply[q] = "unauthenticated" => Len(audit[q]) = 0
    /\ reply[q] \in {"ok", "denied", "error"} =>
         LET a == audit[q][1]
             u == usage[q][1]
         IN  <<reply[q], a.decision, a.outcome, u.status>> \in
               {<<"ok", "allow", "success", "success">>,
                <<"denied", "deny", "error", "denied">>,
                <<"error", "allow", "error", "error">>}

\* A request the audit trail calls denied has neither obtained a secret nor
\* reached the application (api/runtime.py:304-416).
DeniedLeavesNoTrace ==
  \A q \in Request : \A i \in DOMAIN audit[q] :
    audit[q][i].decision = "deny" => secret[q] = None /\ calls[q] = 0

\* Audit and usage rows never name a user or an application of another
\* workspace than the one they are filed under (api/runtime.py:717-741).
RecordsStayHome ==
  \A q \in Request : \A i \in DOMAIN audit[q] :
    \A e \in {audit[q][i], usage[q][i]} :
      /\ e.workspace = home[e.agent]
      /\ e.user # None => home[e.user] = e.workspace
      /\ e.app # None => home[e.app] = e.workspace

\* Only a read-only capability is ever sent upstream again, and no more often
\* than the policy's attempts (adapters/http.py:26-61).
ResentOnlyIfReadOnly ==
  \A q \in Request :
    calls[q] > 1 => /\ riskClass[target[q]] = "read_only"
                    /\ calls[q] <= ReadOnlyAttempts

\* Why the properties of the records hold: how far the records of a request are
\* at each stage, and what the verdict about to be written may say.
Story(v) ==
  \/ v.decision = "allow" /\ v.outcome = "success" /\ v.usage = "success"
  \/ v.decision = "deny" /\ v.outcome = "error" /\ v.usage = "denied"
  \/ v.decision = "allow" /\ v.outcome = "error" /\ v.usage = "error"

Filed(q) ==
  /\ pc[q] \notin {"respond", "done"} =>
       audit[q] = <<>> /\ usage[q] = <<>> /\ reply[q] = "none"
  /\ pc[q] \in {"record", "respond"} => Story(verdict[q])
  /\ pc[q] = "respond" => Len(audit[q]) = 1 /\ reply[q] = "none"
  /\ Len(audit[q]) = Len(usage[q]) /\ Len(audit[q]) <= 1
  /\ pc[q] = "respond" \/ reply[q] \in {"ok", "denied", "error"} =>
       /\ Len(audit[q]) = 1
       /\ audit[q][1].decision = verdict[q].decision
       /\ audit[q][1].outcome = verdict[q].outcome
       /\ usage[q][1].status = verdict[q].usage
       /\ Story(verdict[q])
  /\ reply[q] = "ok" => verdict[q].decision = "allow" /\ verdict[q].outcome = "success"
  /\ reply[q] = "denied" => verdict[q].decision = "deny"
  /\ reply[q] = "error" => verdict[q].decision = "allow" /\ verdict[q].outcome = "error"
  /\ reply[q] = "unauthenticated" => Len(audit[q]) = 0

Untraced(q) ==
  /\ pc[q] \in {"record", "respond"} /\ verdict[q].decision = "deny" =>
       secret[q] = None /\ calls[q] = 0
  /\ \A i \in DOMAIN audit[q] :
       audit[q][i].decision = "deny" => secret[q] = None /\ calls[q] = 0
  /\ calls[q] > 0 => pc[q] \in {"upstream", "record", "respond", "done"}

Placed(q) ==
  /\ pc[q] \in {"tools", "tool", "binding", "describe", "permit", "capability",
               "application", "input", "secret", "adapter", "upstream"} =>
       home[ask[q].user] = Home(q)
  /\ \/ pc[q] \in {"application", "input", "secret", "adapter", "upstream"}
     \/ pc[q] \in {"binding", "describe", "permit"} /\ phase[q] = "invoke"
     => home[AppOf(q)] = Home(q)
  /\ pc[q] = "record" =>
       /\ verdict[q].user # None => home[verdict[q].user] = Home(q)
       /\ verdict[q].app # None => home[verdict[q].app] = Home(q)

RecordInvariant ==
  /\ AuthorizationInvariant /\ RecordsStayHome /\ ResentOnlyIfReadOnly
  /\ \A q \in Request : Filed(q) /\ Untraced(q) /\ Placed(q)

\* PLAN.md:17 asks that every invocation attempt leave audit and usage records.
\* The only commit comes after the upstream answered (api/runtime.py:742), so a
\* failed commit or a stopped process loses the trace of a call that was made.
UpstreamCallRecorded ==
  \A q \in Request : pc[q] = "done" /\ calls[q] > 0 => Len(audit[q]) = 1

=============================================================================
