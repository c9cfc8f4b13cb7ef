-------------------------- MODULE InvocationProofs --------------------------
(***************************************************************************)
(* For every registry, every number of requests and every interleaving of  *)
(* handlers with committed admin transactions: the types of the runtime    *)
(* plane, and that nothing is used for a request that was not authorized   *)
(* for it at some moment of the call.                                      *)
(***************************************************************************)
EXTENDS Invocation, RegistryProofs

-----------------------------------------------------------------------------
(* Types                                                                   *)

\* The history of a request in flight, brought up to date.
LEMMA WitnessIs ==
  ASSUME Witness, NEW q \in Request
  PROVE  /\ ~InFlight(q)' => seen'[q] = seen[q]
         /\ InFlight(q)' =>
              /\ seen'[q].token = (seen[q].token \/ TokenCurrent(q)')
              /\ seen'[q].grants = seen[q].grants \cup {c \in Capability : Granted(q, c)'}
              /\ seen'[q].secrets =
                   [c \in Capability |-> seen[q].secrets[c] \cup Entitled(q, c)']
              /\ seen'[q].lapsed = (seen[q].lapsed \/ ~TokenCurrent(q)')
              /\ seen'[q].ungranted =
                   seen[q].ungranted \cup (Capability \ {c \in Capability : Granted(q, c)'})
              /\ seen'[q].unentitled =
                   seen[q].unentitled \cup {c \in Capability : Entitled(q, c)' = {}}
<1>1. CASE ~InFlight(q)'
  BY <1>1 DEF Witness
<1>2. CASE InFlight(q)'
  <2>1. seen'[q] =
          [token |-> seen[q].token \/ TokenCurrent(q)',
           grants |-> seen[q].grants \cup {c \in Capability : Granted(q, c)'},
           secrets |-> [c \in Capability |-> seen[q].secrets[c] \cup Entitled(q, c)'],
           lapsed |-> seen[q].lapsed \/ ~TokenCurrent(q)',
           ungranted |-> seen[q].ungranted \cup (Capability \ {c \in Capability : Granted(q, c)'}),
           unentitled |-> seen[q].unentitled \cup {c \in Capability : Entitled(q, c)' = {}}]
    BY <1>2 DEF Witness
  <2>2. QED
    BY <1>2, <2>1
<1>3. QED
  BY <1>1, <1>2

\* The history keeps its shape.
LEMMA WitnessType ==
  ASSUME seen \in [Request -> Seen], Witness
  PROVE  seen' \in [Request -> Seen]
<1>1. ASSUME NEW q \in Request PROVE seen[q] \in Seen
  OBVIOUS
<1>2. ASSUME NEW q \in Request
      PROVE  [token |-> seen[q].token \/ TokenCurrent(q)',
              grants |-> seen[q].grants \cup {c \in Capability : Granted(q, c)'},
              secrets |-> [c \in Capability |-> seen[q].secrets[c] \cup Entitled(q, c)'],
              lapsed |-> seen[q].lapsed \/ ~TokenCurrent(q)',
              ungranted |-> seen[q].ungranted \cup (Capability \ {c \in Capability : Granted(q, c)'}),
              unentitled |-> seen[q].unentitled \cup {c \in Capability : Entitled(q, c)' = {}}]
                \in Seen
  <2>1. \A c \in Capability : Entitled(q, c)' \subseteq Secret
    BY DEF Entitled
  <2>2. /\ (seen[q].token \/ TokenCurrent(q)') \in BOOLEAN
        /\ (seen[q].lapsed \/ ~TokenCurrent(q)') \in BOOLEAN
    OBVIOUS
  <2>3. [c \in Capability |-> seen[q].secrets[c] \cup Entitled(q, c)'] \in
          [Capability -> SUBSET Secret]
    BY <1>1, <2>1 DEF Seen
  <2>4. /\ seen[q].grants \cup {c \in Capability : Granted(q, c)'} \in SUBSET Capability
        /\ seen[q].ungranted \cup (Capability \ {c \in Capability : Granted(q, c)'})
             \in SUBSET Capability
        /\ seen[q].unentitled \cup {c \in Capability : Entitled(q, c)' = {}}
             \in SUBSET Capability
    BY <1>1 DEF Seen
  <2>5. QED
    BY <2>2, <2>3, <2>4 DEF Seen
<1>3. QED
  BY <1>1, <1>2 DEF Witness

\* The verdict a handler prepares is well formed.
LEMMA VerdictType ==
  ASSUME verdict \in [Request -> Verdict], NEW q \in Request,
         NEW user \in User \cup {None}, NEW app \in App \cup {None},
         NEW decision \in {"allow", "deny"}, NEW outcome \in {"success", "error"},
         NEW usageStatus \in {"success", "error", "denied"}, NEW code \in Code,
         Record(q, user, app, decision, outcome, usageStatus, code)
  PROVE  verdict' \in [Request -> Verdict]
<1>1. [user |-> user, app |-> app, decision |-> decision, outcome |-> outcome,
       usage |-> usageStatus, code |-> code] \in Verdict
  BY DEF Verdict
<1>2. QED
  BY <1>1 DEF Record

\* A statement of a handler moves its session between the declared stages,
\* records only rows of the declared shapes and has a capability at hand where
\* the next one needs it.
LEMMA HandlerType ==
  ASSUME RuntimeTypeOK, NEW q \in Request, Arrive(q) \/ Handle(q) \/ Abort(q)
  PROVE  SessionTypeOK' /\ RecordTypeOK' /\ TargetKnown(q)'
<1> USE RowAssumption DEF SessionTypeOK, RecordTypeOK, Stage, Phase, Reply,
        lookupVars, recordVars, TargetKnown
<1> DEFINE Done == SessionTypeOK' /\ RecordTypeOK' /\ TargetKnown(q)'
<1>1. /\ SessionTypeOK /\ RecordTypeOK /\ TargetKnown(q)
      /\ ask[q] \in Ask /\ ask[q].agent \in Agent /\ ask[q].user \in User
      /\ Home(q) \in Workspace
      /\ target[q] \in Capability => AppOf(q) \in App
  BY DEF Ask, Home, AppOf, Row, RuntimeTypeOK
<1>2. ASSUME NEW user \in User \cup {None}, NEW app \in App \cup {None},
             NEW code \in Code, NEW from \in Stage \ {"idle"},
             Refuse(q, from, user, app, code), UNCHANGED recordVars
      PROVE  Done
  <2>1. verdict' \in [Request -> Verdict]
    BY <1>1, <1>2, VerdictType DEF Refuse
  <2>2. /\ pc[q] = from /\ pc' = [pc EXCEPT ![q] = "record"]
        /\ UNCHANGED <<ask, lookupVars, loaded, binding, secret, calls, recordVars>>
    BY <1>2 DEF Refuse, Goto
  <2>3. QED
    BY <1>1, <2>1, <2>2
<1>3. ASSUME NEW code \in Code, NEW from \in Stage \ {"idle"}, Fault(q, from, code),
             AppOf(q) \in App, UNCHANGED recordVars
      PROVE  Done
  <2>1. verdict' \in [Request -> Verdict]
    BY <1>1, <1>3, VerdictType DEF Fault
  <2>2. /\ pc[q] = from /\ pc' = [pc EXCEPT ![q] = "record"]
        /\ UNCHANGED <<ask, lookupVars, loaded, binding, secret, calls, recordVars>>
    BY <1>3 DEF Fault, Goto
  <2>3. QED
    BY <1>1, <2>1, <2>2
<1>4. ASSUME NEW from \in {"binding", "describe", "permit"}, Reject(q, from),
             UNCHANGED recordVars
      PROVE  Done
  <2>1. CASE phase[q] = "tools" /\ Pass(q, from, "tool")
    BY <1>1, <1>4, <2>1, InvocationAssumption DEF Reject, Pass, Goto, Refuse, Deny
  <2>2. CASE phase[q] = "invoke" /\ Deny(q, from, ask[q].user, AppOf(q))
    <3>1. pc[q] = from /\ target[q] \in Capability
      BY <1>1, <2>2 DEF Deny, Refuse, Goto
    <3>2. QED
      BY <1>1, <1>2, <1>4, <2>2, <3>1 DEF Deny, Code
  <2>3. QED
    BY <1>4, <2>1, <2>2 DEF Reject
<1>5. CASE Arrive(q)
  <2>1. PICK a \in Ask :
          /\ ask' = [ask EXCEPT ![q] = a]
          /\ phase' = [phase EXCEPT ![q] = IF a.via = "mcp" THEN "tools" ELSE "invoke"]
          /\ target' = [target EXCEPT ![q] = IF a.via = "mcp" THEN None ELSE a.wants]
    BY <1>5 DEF Arrive
  <2>2. a.via # "mcp" => a.wants \in Capability
    BY DEF Ask
  <2>3. QED
    BY <1>1, <1>5, <2>1, <2>2 DEF Arrive, Goto
<1>6. CASE Authenticate(q)
  <2>1. CASE Pass(q, "auth", "user") /\ UNCHANGED <<lookupVars, recordVars>>
    BY <1>1, <2>1 DEF Pass, Goto
  <2>2. CASE ~(Pass(q, "auth", "user") /\ UNCHANGED <<lookupVars, recordVars>>)
    <3>1. /\ Pass(q, "auth", "done") /\ UNCHANGED <<lookupVars, audit, usage>>
          /\ reply' = [reply EXCEPT ![q] = "unauthenticated"]
      BY <1>6, <2>2 DEF Authenticate
    <3>2. QED
      BY <1>1, <3>1 DEF Pass, Goto
  <2>3. QED
    BY <2>1, <2>2
<1>7. CASE SelectUser(q)
  <2>1. CASE \E user \in User \cup {None} : Deny(q, "user", user, None)
    <3>1. PICK user \in User \cup {None} : Deny(q, "user", user, None)
      BY <2>1
    <3>2. UNCHANGED recordVars
      BY <1>7 DEF SelectUser
    <3>3. Refuse(q, "user", user, None, "capability_denied")
      BY <3>1 DEF Deny
    <3>4. "capability_denied" \in Code /\ "user" \in Stage \ {"idle"}
      BY DEF Code
    <3>5. QED
      BY <1>2, <3>2, <3>3, <3>4
  <2>2. CASE ~\E user \in User \cup {None} : Deny(q, "user", user, None)
    <3>1. /\ Goto(q, "user", IF phase[q] = "tools" THEN "tools" ELSE "capability")
          /\ loaded' = [loaded EXCEPT ![q] = TRUE]
          /\ UNCHANGED <<ask, lookupVars, binding, secret, calls, verdict, recordVars>>
      BY <1>1, <1>7, <2>2 DEF SelectUser
    <3>2. QED
      BY <1>1, <3>1 DEF Goto
  <2>3. QED
    BY <2>1, <2>2
<1>8. CASE ListTools(q)
  BY <1>1, <1>8 DEF ListTools, Pass, Goto
<1>9. CASE NextTool(q)
  <2>1. PICK c \in pending[q] :
          /\ target' = [target EXCEPT ![q] = c]
          /\ pending' = [pending EXCEPT ![q] = @ \ {c}]
    BY <1>9 DEF NextTool
  <2>2. c \in Capability
    BY <1>1
  <2>3. Pass(q, "tool", "binding") /\ UNCHANGED <<phase, visible, recordVars>>
    BY <1>9 DEF NextTool
  <2>4. pending' \in [Request -> SUBSET Capability] /\ target'[q] = c
    BY <1>1, <2>1, <2>2
  <2>5. pc[q] = "tool" /\ pc'[q] = "binding" /\ phase'[q] = phase[q]
    BY <1>1, <2>3 DEF Pass, Goto
  <2>6. SessionTypeOK' /\ RecordTypeOK'
    BY <1>1, <2>1, <2>2, <2>3, <2>4 DEF Pass, Goto
  <2>7. TargetKnown(q)'
    BY <1>1, <2>2, <2>4, <2>5
  <2>8. QED
    BY <2>6, <2>7
<1>10. CASE ResolveTool(q)
  <2>1. CASE Deny(q, "tool", ask[q].user, None)
    <3>1. UNCHANGED recordVars
      BY <1>10 DEF ResolveTool
    <3>2. QED
      BY <1>1, <1>2, <2>1, <3>1 DEF Deny, Code
  <2>2. CASE ~Deny(q, "tool", ask[q].user, None)
    <3>1. PICK c \in visible[q] : target' = [target EXCEPT ![q] = c]
      BY <1>10, <2>2 DEF ResolveTool
    <3>2. /\ Pass(q, "tool", "user")
          /\ phase' = [phase EXCEPT ![q] = "invoke"]
          /\ UNCHANGED <<pending, visible, recordVars>>
      BY <1>10, <2>2 DEF ResolveTool
    <3>3. c \in Capability
      BY <1>1
    <3>4. QED
      BY <1>1, <3>1, <3>2, <3>3 DEF Pass, Goto
  <2>3. QED
    BY <2>1, <2>2
<1>11. CASE SelectCapability(q)
  <2>1. CASE Deny(q, "capability", ask[q].user, None)
    BY <1>1, <1>2, <1>11, <2>1 DEF SelectCapability, Deny, Code
  <2>2. CASE Pass(q, "capability", "application") /\ UNCHANGED lookupVars
    BY <1>1, <1>11, <2>2 DEF SelectCapability, Pass, Goto
  <2>3. QED
    BY <1>11, <2>1, <2>2 DEF SelectCapability
<1>12. CASE CheckApplication(q)
  <2>1. CASE Deny(q, "application", ask[q].user, None)
    BY <1>1, <1>2, <1>12, <2>1 DEF CheckApplication, Deny, Code
  <2>2. CASE Pass(q, "application", "binding") /\ UNCHANGED lookupVars
    BY <1>1, <1>12, <2>2 DEF CheckApplication, Pass, Goto
  <2>3. QED
    BY <1>12, <2>1, <2>2 DEF CheckApplication
<1>13. CASE FindBinding(q)
  <2>1. CASE Reject(q, "binding")
    BY <1>4, <1>13, <2>1 DEF FindBinding
  <2>2. CASE ~Reject(q, "binding")
    <3>1. PICK b \in GetActiveBinding(Home(q), ask[q].agent, ask[q].user, target[q]) :
            binding' = [binding EXCEPT ![q] = b]
      BY <1>13, <2>2 DEF FindBinding
    <3>2. b \in Binding
      BY DEF GetActiveBinding
    <3>3. /\ Goto(q, "binding", "describe")
          /\ UNCHANGED <<ask, lookupVars, loaded, secret, calls, verdict, recordVars>>
      BY <1>13, <2>2 DEF FindBinding
    <3>4. QED
      BY <1>1, <3>1, <3>2, <3>3 DEF Goto
  <2>3. QED
    BY <2>1, <2>2
<1>14. CASE CheckDescribe(q)
  <2>1. CASE Reject(q, "describe")
    BY <1>4, <1>14, <2>1 DEF CheckDescribe
  <2>2. CASE Pass(q, "describe", "permit") /\ UNCHANGED lookupVars
    BY <1>1, <1>14, <2>2 DEF CheckDescribe, Pass, Goto
  <2>3. QED
    BY <1>14, <2>1, <2>2 DEF CheckDescribe
<1>15. CASE CheckInvoke(q)
  <2>1. CASE Reject(q, "permit")
    BY <1>4, <1>15, <2>1 DEF CheckInvoke
  <2>2. CASE /\ phase[q] = "tools" /\ Pass(q, "permit", "tool")
             /\ visible' = [visible EXCEPT ![q] = @ \cup {target[q]}]
             /\ target' = [target EXCEPT ![q] = None]
             /\ UNCHANGED <<phase, pending>>
    <3>1. pc[q] = "permit" /\ target[q] \in Capability
      BY <1>1, <2>2 DEF Pass, Goto
    <3>2. UNCHANGED recordVars
      BY <1>15 DEF CheckInvoke
    <3>3. QED
      BY <1>1, <2>2, <3>1, <3>2 DEF Pass, Goto
  <2>3. CASE phase[q] = "invoke" /\ Pass(q, "permit", "input") /\ UNCHANGED lookupVars
    BY <1>1, <1>15, <2>3 DEF CheckInvoke, Pass, Goto
  <2>4. QED
    BY <1>15, <2>1, <2>2, <2>3 DEF CheckInvoke
<1>16. CASE ValidateInput(q)
  <2>1. CASE Pass(q, "input", "secret") /\ UNCHANGED lookupVars
    BY <1>1, <1>16, <2>1 DEF ValidateInput, Pass, Goto
  <2>2. CASE Fault(q, "input", "invalid_capability_input")
    <3>1. AppOf(q) \in App
      BY <1>1, <2>2 DEF Fault, Goto
    <3>2. QED
      BY <1>3, <1>16, <2>2, <3>1 DEF ValidateInput, Code
  <2>3. QED
    BY <1>16, <2>1, <2>2 DEF ValidateInput
<1>17. CASE ResolveSecret(q)
  <2>1. AppOf(q) \in App
    BY <1>1, <1>17 DEF ResolveSecret
  <2>2. ASSUME NEW code \in Code, Refuse(q, "secret", ask[q].user, AppOf(q), code)
        PROVE  Done
    BY <1>1, <1>2, <1>17, <2>1, <2>2 DEF ResolveSecret
  <2>3. UsableSecrets(q) \subseteq Secret
    BY DEF UsableSecrets, GetActiveSecret
  <2>4. ASSUME Goto(q, "secret", "adapter"), NEW s \in UsableSecrets(q),
               secret' = [secret EXCEPT ![q] = s],
               UNCHANGED <<ask, lookupVars, loaded, binding, calls, verdict, recordVars>>
        PROVE  Done
    BY <1>1, <2>3, <2>4 DEF Goto
  <2>5. QED
    BY <1>17, <2>2, <2>4 DEF ResolveSecret, Deny, Code
<1>18. CASE RejectByAdapter(q) \/ UpstreamFails(q)
  <2>1. AppOf(q) \in App
    BY <1>1, <1>18 DEF RejectByAdapter, UpstreamFails, Fault, Goto
  <2>2. QED
    BY <1>3, <1>18, <2>1 DEF RejectByAdapter, UpstreamFails, Code
<1>19. CASE AnswerLocally(q) \/ UpstreamSucceeds(q)
  <2>1. AppOf(q) \in App
    BY <1>1, <1>19 DEF AnswerLocally, UpstreamSucceeds, Goto
  <2>2. verdict' \in [Request -> Verdict]
    BY <1>1, <1>19, <2>1, VerdictType DEF AnswerLocally, UpstreamSucceeds, Code
  <2>3. QED
    BY <1>1, <1>19, <2>2 DEF AnswerLocally, UpstreamSucceeds, Goto
<1>20. CASE SendFirst(q) \/ Resend(q)
  <2>1. PICK from \in {"adapter", "upstream"} : Send(q, from)
    BY <1>20 DEF SendFirst, Resend
  <2>2. calls' \in [Request -> Nat]
    BY <1>1, <2>1 DEF Send
  <2>3. QED
    BY <1>1, <2>1, <2>2 DEF Send, Goto
<1>21. CASE CommitRecords(q)
  <2> DEFINE v == verdict[q]
             a == [workspace |-> Home(q), agent |-> ask[q].agent, user |-> v.user,
                   app |-> v.app, decision |-> v.decision, outcome |-> v.outcome,
                   code |-> v.code]
             u == [workspace |-> Home(q), agent |-> ask[q].agent, user |-> v.user,
                   app |-> v.app, status |-> v.usage]
  <2>1. a \in AuditEvent /\ u \in UsageEvent
    BY <1>1 DEF Verdict, AuditEvent, UsageEvent
  <2>2. /\ audit' = [audit EXCEPT ![q] = Append(audit[q], a)]
        /\ usage' = [usage EXCEPT ![q] = Append(usage[q], u)]
    BY <1>21 DEF CommitRecords
  <2> HIDE DEF a, u
  <2>3. RecordTypeOK'
    BY <1>1, <1>21, <2>1, <2>2 DEF CommitRecords
  <2>4. SessionTypeOK' /\ TargetKnown(q)'
    BY <1>1, <1>21 DEF CommitRecords, Pass, Goto
  <2>5. QED
    BY <2>3, <2>4
<1>22. CASE Respond(q)
  BY <1>1, <1>22 DEF Respond, Pass, Goto
<1>23. CASE Abort(q)
  BY <1>1, <1>23 DEF Abort, InFlight
<1>24. QED
  BY <1>5, <1>6, <1>7, <1>8, <1>9, <1>10, <1>11, <1>12, <1>13, <1>14, <1>15,
     <1>16, <1>17, <1>18, <1>19, <1>20, <1>21, <1>22, <1>23 DEF Handle

\* The handler of one request does not touch the session or records of another.
LEMMA HandlersApart ==
  ASSUME RuntimeTypeOK, NEW p \in Request, NEW q \in Request \ {p},
         Arrive(p) \/ Handle(p) \/ Abort(p)
  PROVE  /\ pc'[q] = pc[q] /\ ask'[q] = ask[q] /\ binding'[q] = binding[q]
         /\ secret'[q] = secret[q] /\ calls'[q] = calls[q] /\ verdict'[q] = verdict[q]
         /\ audit'[q] = audit[q] /\ usage'[q] = usage[q] /\ reply'[q] = reply[q]
         /\ phase'[q] = phase[q] /\ target'[q] = target[q]
         /\ pending'[q] = pending[q] /\ visible'[q] = visible[q]
<1> USE DEF RuntimeTypeOK, SessionTypeOK, RecordTypeOK, recordVars, lookupVars, Goto, Pass,
        Record, Refuse, Deny, Fault, Send, Reject
<1>1. CASE Arrive(p) \/ Abort(p)
  BY <1>1 DEF Arrive, Abort
<1>2. CASE Authenticate(p) \/ SelectUser(p) \/ ListTools(p) \/ NextTool(p)
  BY <1>2 DEF Authenticate, SelectUser, ListTools, NextTool
<1>3. CASE ResolveTool(p)
  BY <1>3 DEF ResolveTool
<1>4. CASE SelectCapability(p) \/ CheckApplication(p) \/ FindBinding(p)
  BY <1>4 DEF SelectCapability, CheckApplication, FindBinding
<1>5. CASE CheckDescribe(p) \/ CheckInvoke(p) \/ ValidateInput(p)
  BY <1>5 DEF CheckDescribe, CheckInvoke, ValidateInput
<1>6. CASE ResolveSecret(p) \/ RejectByAdapter(p) \/ AnswerLocally(p)
  BY <1>6 DEF ResolveSecret, RejectByAdapter, AnswerLocally
<1>7. CASE SendFirst(p) \/ Resend(p) \/ UpstreamSucceeds(p) \/ UpstreamFails(p)
  BY <1>7 DEF SendFirst, Resend, UpstreamSucceeds, UpstreamFails
<1>8. CASE CommitRecords(p) \/ Respond(p)
  BY <1>8 DEF CommitRecords, Respond
<1>9. QED
  BY <1>1, <1>2, <1>3, <1>4, <1>5, <1>6, <1>7, <1>8 DEF Handle

\* One step of the runtime plane, of a handler or of an admin, keeps every type.
LEMMA RuntimeTypeStep == RuntimeTypeOK /\ [RuntimeNext]_vars => RuntimeTypeOK'
<1> SUFFICES ASSUME RuntimeTypeOK, [RuntimeNext]_vars PROVE RuntimeTypeOK'
  OBVIOUS
<1>1. ASSUME NEW q \in Request, Runtime(q) PROVE RuntimeTypeOK'
  <2>1. TypeOK'
    BY <1>1, RegistryType DEF Runtime, RuntimeTypeOK
  <2>2. SessionTypeOK' /\ RecordTypeOK' /\ TargetKnown(q)'
    BY <1>1, HandlerType DEF Runtime
  <2>3. seen' \in [Request -> Seen]
    BY <1>1, WitnessType DEF Runtime, RuntimeTypeOK
  <2>4. ASSUME NEW p \in Request \ {q} PROVE TargetKnown(p)'
    <3>1. pc'[p] = pc[p] /\ phase'[p] = phase[p] /\ target'[p] = target[p]
      BY <1>1, HandlersApart DEF Runtime
    <3>2. QED
      BY <3>1 DEF RuntimeTypeOK, TargetKnown
  <2>5. QED
    BY <2>1, <2>2, <2>3, <2>4 DEF RuntimeTypeOK
<1>2. CASE Administer
  <2>1. TypeOK'
    BY <1>2, RegistryType DEF Administer, RuntimeTypeOK
  <2>2. SessionTypeOK' /\ RecordTypeOK' /\ \A q \in Request : TargetKnown(q)'
    BY <1>2 DEF Administer, RuntimeTypeOK, SessionTypeOK, RecordTypeOK, TargetKnown,
       sessionVars, lookupVars, recordVars
  <2>3. seen' \in [Request -> Seen]
    BY <1>2, WitnessType DEF Administer, RuntimeTypeOK
  <2>4. QED
    BY <2>1, <2>2, <2>3 DEF RuntimeTypeOK
<1>3. CASE UNCHANGED vars
  BY <1>3 DEF vars, registryVars, sessionVars, lookupVars, recordVars, RuntimeTypeOK, TypeOK,
     SessionTypeOK, RecordTypeOK, TargetKnown
<1>4. QED
  BY <1>1, <1>2, <1>3 DEF RuntimeNext

\* The runtime plane starts well typed.
LEMMA RuntimeInitType == RuntimeInit => RuntimeTypeOK
<1> SUFFICES ASSUME RuntimeInit PROVE RuntimeTypeOK
  OBVIOUS
<1>1. TypeOK
  BY RegistryInitType DEF RuntimeInit
<1>2. ask \in [Request -> Ask]
  <2>1. PICK a \in Agent, u \in User, c \in Capability : TRUE
    BY InvocationAssumption
  <2>2. [agent |-> a, generation |-> 0, user |-> u, via |-> "invoke", wants |-> c] \in Ask
    BY RowAssumption, <2>1 DEF Ask
  <2>3. (CHOOSE x \in Ask : TRUE) \in Ask
    BY <2>2
  <2>4. QED
    BY <2>3 DEF RuntimeInit
<1>3. SessionTypeOK
  BY <1>2 DEF RuntimeInit, SessionTypeOK, Stage, Phase, Verdict, Code
<1>4. RecordTypeOK
  BY DEF RuntimeInit, RecordTypeOK, Reply
<1>5. seen \in [Request -> Seen]
  BY DEF RuntimeInit, Seen, Nothing
<1>6. ASSUME NEW q \in Request PROVE TargetKnown(q)
  BY DEF RuntimeInit, TargetKnown
<1>7. QED
  BY <1>1, <1>3, <1>4, <1>5, <1>6 DEF RuntimeTypeOK

\* Every request is at one statement of the handler with a session, records and
\* a history of the declared shapes, and a capability at hand where it needs one.
THEOREM RuntimeTypeCorrect == RuntimeSpec => []RuntimeTypeOK
  BY RuntimeInitType, RuntimeTypeStep, PTL DEF RuntimeSpec

-----------------------------------------------------------------------------
(* Authorization                                                           *)

\* What the history of a request has shown, it keeps.
Grows(q) ==
  /\ seen[q].token => seen'[q].token
  /\ seen[q].grants \subseteq seen'[q].grants
  /\ \A c \in Capability : seen[q].secrets[c] \subseteq seen'[q].secrets[c]

\* The history is brought up to date by every step and forgets nothing.
LEMMA WitnessGrows ==
  ASSUME seen \in [Request -> Seen], Witness, NEW q \in Request
  PROVE  HistoryCurrent(q)' /\ Grows(q)
<1>1. CASE ~InFlight(q)'
  BY <1>1, WitnessIs DEF HistoryCurrent, Grows
<1>2. CASE InFlight(q)'
  <2>1. /\ seen'[q].token = (seen[q].token \/ TokenCurrent(q)')
        /\ seen'[q].grants = seen[q].grants \cup {c \in Capability : Granted(q, c)'}
        /\ seen'[q].secrets =
             [c \in Capability |-> seen[q].secrets[c] \cup Entitled(q, c)']
    BY <1>2, WitnessIs
  <2>2. \A c \in Capability :
          seen'[q].secrets[c] = seen[q].secrets[c] \cup Entitled(q, c)'
    BY <2>1
  <2>3. QED
    BY <2>1, <2>2 DEF HistoryCurrent, Grows
<1>3. QED
  BY <1>1, <1>2

\* An active binding the query returns makes a grant when its role has, for
\* good, the permissions the call needs.
LEMMA BindingGrants ==
  ASSUME NEW q, ask[q] \in Ask, target[q] \in Capability, NEW b \in Binding,
         NeededPermission(q) # "none", PermitsAll(q, b),
         b \in GetActiveBinding(Home(q), ask[q].agent, ask[q].user, target[q])
  PROVE  Granted(q, target[q])
<1> DEFINE k == binds[b]
<1>1. /\ k.agent = ask[q].agent /\ k.user = ask[q].user /\ k.capability = target[q]
      /\ home[b] = Home(q)
  BY DEF GetActiveBinding
<1>2. Joined[b] = {b, home[b], k.agent, k.user, k.capability, appOf[k.capability], k.role}
  BY DEF Joined
<1>3. home[Home(q)] = Home(q)
  BY RowAssumption DEF Home, Ask, Row
<1> HIDE DEF k
<1>4. \A row \in Joined[b] : Active(row) /\ home[row] = Home(q)
  BY <1>1, <1>2, <1>3 DEF GetActiveBinding, k
<1>5. Requires(riskClass[target[q]]) \cap permissions[binds[b].role] # {}
  BY DEF NeededPermission, InvokePermission, Requires, PermitsAll
<1>6. QED
  BY <1>1, <1>4, <1>5 DEF Granted, PermitsAll, k

\* A secret the resolver may select is one the caller is entitled to.
LEMMA UsableIsEntitled ==
  ASSUME NEW q, ask[q] \in Ask, home[target[q]] = Home(q)
  PROVE  UsableSecrets(q) \subseteq Entitled(q, target[q])
<1> SUFFICES ASSUME NEW s \in UsableSecrets(q) PROVE s \in Entitled(q, target[q])
  OBVIOUS
<1>1. Home(q) \in Workspace /\ home[Home(q)] = Home(q)
  BY RowAssumption DEF Home, Ask, Row
<1>2. CASE authMode[target[q]] \in {"user", "user+scope"}
  BY <1>1, <1>2 DEF UsableSecrets, GetActiveSecret, Entitled
<1>3. CASE authMode[target[q]] = "system"
  BY <1>1, <1>3 DEF UsableSecrets, GetActiveSecret, Entitled
<1>4. CASE authMode[target[q]] \notin {"user", "user+scope", "system"}
  BY <1>4 DEF UsableSecrets
<1>5. QED
  BY <1>2, <1>3, <1>4

\* What a handler has established survives its own next statement, which adds
\* what that statement has just read.
LEMMA HandlerJustified ==
  ASSUME AuthorizationInvariant, NEW q \in Request,
         Arrive(q) \/ Handle(q) \/ Abort(q), UNCHANGED registryVars, Witness
  PROVE  Established(q)' /\ Justified(q)'
<1> USE DEF Stage, recordVars, lookupVars
<1> DEFINE Done == Established(q)' /\ Justified(q)'
           Same == UNCHANGED <<ask, target, binding, secret, calls, visible>>
<1>1. Grows(q)
  BY WitnessGrows DEF AuthorizationInvariant, RuntimeTypeOK
<1>2. /\ pc \in [Request -> Stage] /\ ask \in [Request -> Ask] /\ ask[q] \in Ask
      /\ phase \in [Request -> Phase]
      /\ target \in [Request -> Capability \cup {None}]
      /\ pending \in [Request -> SUBSET Capability]
      /\ visible \in [Request -> SUBSET Capability]
      /\ binding \in [Request -> Binding \cup {None}]
      /\ secret \in [Request -> Secret \cup {None}] /\ calls \in [Request -> Nat]
      /\ verdict \in [Request -> Verdict]
      /\ audit \in [Request -> Seq(AuditEvent)] /\ reply \in [Request -> Reply]
      /\ TargetKnown(q)
  BY DEF AuthorizationInvariant, RuntimeTypeOK, SessionTypeOK, RecordTypeOK
<1>3. Established(q) /\ Justified(q) /\ HistoryCurrent(q)
  BY DEF AuthorizationInvariant
<1>4. ASSUME Same, UNCHANGED <<audit, reply, verdict>>, secret[q] = None,
             pc[q] \notin {"idle", "auth", "done"},
             pc'[q] \in {"tools", "capability", "application", "binding"}
      PROVE  Done
  BY <1>1, <1>2, <1>3, <1>4 DEF Grows, Established, Justified
<1>5. ASSUME NEW from \in Stage \ {"idle", "auth", "done"}, NEW user, NEW app, NEW code,
             Refuse(q, from, user, app, code) \/ Fault(q, from, code),
             UNCHANGED recordVars
      PROVE  Done
  <2>1. /\ pc[q] = from /\ pc'[q] = "record" /\ Same
        /\ verdict'[q].outcome = "error" /\ UNCHANGED recordVars
    BY <1>2, <1>5 DEF Refuse, Fault, Goto, Record
  <2>2. QED
    BY <1>1, <1>2, <1>3, <2>1 DEF Grows, Established, Justified
<1>6. secret[q] # None => pc[q] \in {"adapter", "upstream", "record", "respond", "done"}
  BY <1>3 DEF Justified
<1>7. ASSUME NEW from \in {"binding", "describe", "permit"}, Reject(q, from),
             UNCHANGED recordVars
      PROVE  Done
  <2>1. CASE Deny(q, from, ask[q].user, AppOf(q))
    BY <1>5, <1>7, <2>1 DEF Deny
  <2>2. CASE ~Deny(q, from, ask[q].user, AppOf(q))
    <3>1. /\ pc[q] = from /\ pc'[q] = "tool"
          /\ UNCHANGED <<ask, visible, binding, secret, calls, verdict, recordVars>>
      BY <1>2, <1>7, <2>2 DEF Reject, Pass, Goto
    <3>2. secret[q] = None
      BY <1>6, <3>1
    <3>3. QED
      BY <1>1, <1>2, <1>3, <3>1, <3>2 DEF Grows, Established, Justified
  <2>3. QED
    BY <2>1, <2>2
<1>8. CASE Arrive(q)
  <2>1. /\ pc[q] = "idle" /\ pc'[q] = "auth"
        /\ UNCHANGED <<visible, secret, calls, verdict, recordVars>>
    BY <1>2, <1>8 DEF Arrive, Goto
  <2>2. QED
    BY <1>1, <1>2, <1>3, <1>6, <2>1 DEF Grows, Established, Justified
<1>9. CASE Authenticate(q)
  <2>1. /\ pc[q] = "auth" /\ Same /\ UNCHANGED <<verdict, audit>>
        /\ \/ pc'[q] = "user" /\ TokenCurrent(q) /\ UNCHANGED reply
           \/ pc'[q] = "done" /\ reply'[q] = "unauthenticated"
    BY <1>2, <1>9 DEF Authenticate, Pass, Goto
  <2>2. TokenCurrent(q) => seen[q].token
    BY <1>3, <2>1 DEF HistoryCurrent, InFlight
  <2>3. QED
    BY <1>1, <1>2, <1>3, <1>6, <2>1, <2>2 DEF Grows, Established, Justified
<1>10. CASE SelectUser(q)
  <2>1. CASE \E user : Deny(q, "user", user, None)
    BY <1>5, <1>10, <2>1 DEF SelectUser, Deny
  <2>2. CASE ~\E user : Deny(q, "user", user, None)
    <3>1. /\ pc[q] = "user" /\ pc'[q] \in {"tools", "capability"} /\ Same
          /\ UNCHANGED <<verdict, recordVars>>
      BY <1>2, <1>10, <2>2 DEF SelectUser, Goto
    <3>2. QED
      BY <1>4, <1>6, <3>1
  <2>3. QED
    BY <2>1, <2>2
<1>11. CASE ListTools(q) \/ NextTool(q)
  <2>1. /\ pc[q] \in {"tools", "tool"} /\ pc'[q] \in {"tool", "binding"}
        /\ UNCHANGED <<ask, visible, binding, secret, calls, verdict, recordVars>>
    BY <1>2, <1>11 DEF ListTools, NextTool, Pass, Goto
  <2>2. QED
    BY <1>1, <1>2, <1>3, <1>6, <2>1 DEF Grows, Established, Justified
<1>12. CASE ResolveTool(q)
  <2>1. CASE Deny(q, "tool", ask[q].user, None)
    <3>1. UNCHANGED recordVars
      BY <1>12 DEF ResolveTool
    <3>2. QED
      BY <1>5, <2>1, <3>1 DEF Deny
  <2>2. CASE ~Deny(q, "tool", ask[q].user, None)
    <3>1. Pass(q, "tool", "user") /\ UNCHANGED <<visible, recordVars>>
      BY <1>12, <2>2 DEF ResolveTool
    <3>2. /\ pc[q] = "tool" /\ pc'[q] = "user"
          /\ UNCHANGED <<ask, visible, binding, secret, calls, verdict, recordVars>>
      BY <1>2, <3>1 DEF Pass, Goto
    <3>3. QED
      BY <1>1, <1>2, <1>3, <1>6, <3>2 DEF Grows, Established, Justified
  <2>3. QED
    BY <2>1, <2>2
<1>13. CASE SelectCapability(q)
  <2>1. CASE Deny(q, "capability", ask[q].user, None)
    BY <1>5, <1>13, <2>1 DEF SelectCapability, Deny
  <2>2. CASE ~Deny(q, "capability", ask[q].user, None)
    <3>1. /\ pc[q] = "capability" /\ pc'[q] = "application" /\ Same
          /\ UNCHANGED <<verdict, recordVars>>
      BY <1>2, <1>13, <2>2 DEF SelectCapability, Pass, Goto
    <3>2. QED
      BY <1>4, <1>6, <3>1
  <2>3. QED
    BY <2>1, <2>2
<1>14. CASE CheckApplication(q)
  <2>1. CASE Deny(q, "application", ask[q].user, None)
    BY <1>5, <1>14, <2>1 DEF CheckApplication, Deny
  <2>2. CASE ~Deny(q, "application", ask[q].user, None)
    <3>1. /\ pc[q] = "application" /\ pc'[q] = "binding" /\ Same
          /\ UNCHANGED <<verdict, recordVars>>
      BY <1>2, <1>14, <2>2 DEF CheckApplication, Pass, Goto
    <3>2. QED
      BY <1>4, <1>6, <3>1
  <2>3. QED
    BY <2>1, <2>2
<1>15. CASE FindBinding(q)
  <2>1. CASE Reject(q, "binding")
    BY <1>7, <1>15, <2>1 DEF FindBinding
  <2>2. CASE ~Reject(q, "binding")
    <3>1. PICK b \in GetActiveBinding(Home(q), ask[q].agent, ask[q].user, target[q]) :
            binding' = [binding EXCEPT ![q] = b]
      BY <1>15, <2>2 DEF FindBinding
    <3>2. /\ pc[q] = "binding" /\ pc'[q] = "describe" /\ NeededPermission(q) # "none"
          /\ UNCHANGED <<ask, lookupVars, secret, calls, verdict, recordVars>>
      BY <1>2, <1>15, <2>2 DEF FindBinding, Goto
    <3>3. /\ b \in Binding /\ binding'[q] = b /\ home[target[q]] = Home(q)
          /\ target[q] \in Capability
      BY <1>2, <3>1, <3>2 DEF GetActiveBinding, TargetKnown
    <3>4. PermitsAll(q, b) => target[q] \in seen[q].grants
      BY <1>2, <1>3, <3>1, <3>2, <3>3, BindingGrants DEF HistoryCurrent, InFlight
    <3>5. /\ PermitsAll(q, b) <=> PermitsAll(q, binding[q])'
          /\ Home(q)' = Home(q)
      BY <3>2, <3>3 DEF PermitsAll, NeededPermission, Home
    <3>6. QED
      BY <1>1, <1>2, <1>3, <1>6, <3>2, <3>3, <3>4, <3>5 DEF Grows, Established, Justified
  <2>3. QED
    BY <2>1, <2>2
<1>16. CASE CheckDescribe(q)
  <2>1. CASE Reject(q, "describe")
    BY <1>7, <1>16, <2>1 DEF CheckDescribe
  <2>2. CASE ~Reject(q, "describe")
    <3>1. /\ pc[q] = "describe" /\ pc'[q] = "permit"
          /\ Describe \in permissions[binds[binding[q]].role]
          /\ Same /\ UNCHANGED <<verdict, recordVars>>
      BY <1>2, <1>16, <2>2 DEF CheckDescribe, Pass, Goto, RoleGrantsPermission
    <3>2. /\ PermitsAll(q, binding[q]) <=> PermitsAll(q, binding[q])'
          /\ Home(q)' = Home(q)
      BY <3>1 DEF PermitsAll, NeededPermission, Home
    <3>3. QED
      BY <1>1, <1>2, <1>3, <1>6, <3>1, <3>2 DEF Grows, Established, Justified
  <2>3. QED
    BY <2>1, <2>2
<1>17. CASE CheckInvoke(q)
  <2>1. CASE Reject(q, "permit")
    BY <1>7, <1>17, <2>1 DEF CheckInvoke
  <2>2. CASE ~Reject(q, "permit")
    <3>1. /\ pc[q] = "permit"
          /\ NeededPermission(q) \in permissions[binds[binding[q]].role]
          /\ UNCHANGED <<ask, binding, secret, calls, verdict, recordVars>>
          /\ \/ pc'[q] = "tool" /\ visible'[q] = visible[q] \cup {target[q]}
             \/ pc'[q] = "input" /\ UNCHANGED lookupVars
      BY <1>2, <1>17, <2>2 DEF CheckInvoke, Pass, Goto, RoleGrantsPermission
    <3>2. target[q] \in seen[q].grants
      BY <1>3, <3>1 DEF PermitsAll, Established
    <3>3. Home(q)' = Home(q)
      BY <3>1 DEF Home
    <3>4. secret[q] = None /\ calls[q] = 0
      BY <1>2, <1>3, <1>6, <3>1 DEF Justified
    <3>5. CASE pc'[q] = "tool" /\ visible'[q] = visible[q] \cup {target[q]}
      BY <1>1, <1>2, <1>3, <3>1, <3>2, <3>4, <3>5 DEF Grows, Established, Justified
    <3>6. CASE pc'[q] = "input" /\ UNCHANGED lookupVars
      BY <1>1, <1>2, <1>3, <3>1, <3>2, <3>3, <3>4, <3>6 DEF Grows, Established, Justified
    <3>7. QED
      BY <3>1, <3>5, <3>6
  <2>3. QED
    BY <2>1, <2>2
<1>18. CASE ValidateInput(q)
  <2>1. CASE Fault(q, "input", "invalid_capability_input")
    BY <1>5, <1>18, <2>1 DEF ValidateInput
  <2>2. CASE ~Fault(q, "input", "invalid_capability_input")
    <3>1. /\ pc[q] = "input" /\ pc'[q] = "secret" /\ Home(q)' = Home(q)
          /\ Same /\ UNCHANGED <<verdict, recordVars>>
      BY <1>2, <1>18, <2>2 DEF ValidateInput, Pass, Goto, Home
    <3>2. QED
      BY <1>1, <1>2, <1>3, <1>6, <3>1 DEF Grows, Established, Justified
  <2>3. QED
    BY <2>1, <2>2
<1>19. CASE ResolveSecret(q)
  <2>1. CASE \E code \in Code : Refuse(q, "secret", ask[q].user, AppOf(q), code)
    BY <1>5, <1>19, <2>1 DEF ResolveSecret
  <2>2. ASSUME Goto(q, "secret", "adapter"), NEW s \in UsableSecrets(q),
               secret' = [secret EXCEPT ![q] = s],
               UNCHANGED <<ask, lookupVars, loaded, binding, calls, verdict, recordVars>>
        PROVE  Done
    <3>1. pc[q] = "secret" /\ pc'[q] = "adapter" /\ secret'[q] = s /\ Home(q)' = Home(q)
      BY <1>2, <2>2 DEF Goto, Home
    <3>2. target[q] \in Capability /\ home[target[q]] = Home(q)
      BY <1>2, <1>3, <3>1 DEF TargetKnown, Established
    <3>3. s \in Entitled(q, target[q]) /\ s \in Secret
      BY <1>2, <2>2, <3>2, UsableIsEntitled DEF Entitled
    <3>4. s \in seen[q].secrets[target[q]]
      BY <1>3, <3>1, <3>2, <3>3 DEF HistoryCurrent, InFlight
    <3>5. s # None
      BY <3>3, InvocationAssumption
    <3>6. QED
      BY <1>1, <1>2, <1>3, <1>6, <2>2, <3>1, <3>2, <3>4, <3>5
         DEF Grows, Established, Justified
  <2>3. QED
    BY <1>19, <2>1, <2>2 DEF ResolveSecret, Deny, Code
<1>20. CASE RejectByAdapter(q) \/ UpstreamFails(q)
  BY <1>5, <1>20 DEF RejectByAdapter, UpstreamFails
<1>21. CASE AnswerLocally(q) \/ UpstreamSucceeds(q)
  <2>1. /\ pc[q] \in {"adapter", "upstream"} /\ pc'[q] = "record" /\ Same
        /\ UNCHANGED recordVars
    BY <1>2, <1>21 DEF AnswerLocally, UpstreamSucceeds, Goto
  <2>2. QED
    BY <1>1, <1>2, <1>3, <2>1 DEF Grows, Established, Justified
<1>22. CASE SendFirst(q) \/ Resend(q)
  <2>1. /\ pc[q] \in {"adapter", "upstream"} /\ pc'[q] = "upstream" /\ Home(q)' = Home(q)
        /\ UNCHANGED <<ask, lookupVars, binding, secret, verdict, recordVars>>
    BY <1>2, <1>22 DEF SendFirst, Resend, Send, Goto, Home
  <2>2. QED
    BY <1>1, <1>2, <1>3, <2>1 DEF Grows, Established, Justified
<1>23. CASE CommitRecords(q)
  <2>1. /\ pc[q] = "record" /\ pc'[q] = "respond" /\ Same /\ UNCHANGED <<verdict, reply>>
    BY <1>2, <1>23 DEF CommitRecords, Pass, Goto
  <2> DEFINE e == [workspace |-> Home(q), agent |-> ask[q].agent,
                   user |-> verdict[q].user, app |-> verdict[q].app,
                   decision |-> verdict[q].decision, outcome |-> verdict[q].outcome,
                   code |-> verdict[q].code]
  <2>2. /\ audit' = [audit EXCEPT ![q] = Append(audit[q], e)]
        /\ e.outcome = verdict[q].outcome
    BY <1>23 DEF CommitRecords
  <2> HIDE DEF e
  <2>3. audit'[q] = Append(audit[q], e) /\ audit[q] \in Seq(AuditEvent)
    BY <1>2, <2>2
  <2>4. ASSUME NEW i \in DOMAIN audit'[q], audit'[q][i].outcome = "success"
        PROVE  secret[q] # None
    <3>1. CASE i \in DOMAIN audit[q]
      BY <1>3, <2>3, <2>4, <3>1 DEF Justified
    <3>2. CASE i \notin DOMAIN audit[q]
      <4>1. audit'[q][i] = e
        BY <2>3, <2>4, <3>2
      <4>2. QED
        BY <1>3, <2>1, <2>2, <2>4, <4>1 DEF Justified
    <3>3. QED
      BY <3>1, <3>2
  <2>5. QED
    BY <1>1, <1>2, <1>3, <2>1, <2>4 DEF Grows, Established, Justified
<1>24. CASE Respond(q)
  <2>1. /\ pc[q] = "respond" /\ pc'[q] = "done" /\ Same /\ UNCHANGED <<verdict, audit>>
        /\ reply'[q] = "ok" => verdict[q].outcome = "success"
    BY <1>2, <1>24 DEF Respond, Pass, Goto
  <2>2. QED
    BY <1>1, <1>2, <1>3, <2>1 DEF Grows, Established, Justified
<1>25. CASE Abort(q)
  <2>1. /\ pc'[q] = "done" /\ reply'[q] = "failed" /\ Same /\ UNCHANGED <<verdict, audit>>
    BY <1>2, <1>25 DEF Abort
  <2>2. QED
    BY <1>1, <1>2, <1>3, <2>1 DEF Grows, Established, Justified
<1>26. QED
  BY <1>8, <1>9, <1>10, <1>11, <1>12, <1>13, <1>14, <1>15, <1>16, <1>17, <1>18, <1>19,
     <1>20, <1>21, <1>22, <1>23, <1>24, <1>25 DEF Handle

\* What a handler has established survives the steps of everybody else.
LEMMA OthersJustified ==
  ASSUME AuthorizationInvariant, NEW q \in Request, Witness,
         pc'[q] = pc[q], ask'[q] = ask[q], binding'[q] = binding[q],
         secret'[q] = secret[q], calls'[q] = calls[q], verdict'[q] = verdict[q],
         audit'[q] = audit[q], reply'[q] = reply[q], target'[q] = target[q],
         visible'[q] = visible[q]
  PROVE  Established(q)' /\ Justified(q)'
<1>1. Grows(q)
  BY WitnessGrows DEF AuthorizationInvariant, RuntimeTypeOK
<1>2. Established(q) /\ Justified(q)
  BY DEF AuthorizationInvariant
<1>3. /\ Home(q)' = Home(q)
      /\ PermitsAll(q, binding[q])' <=> PermitsAll(q, binding[q])
  BY DEF Home, PermitsAll, NeededPermission
<1>4. QED
  BY <1>1, <1>2, <1>3 DEF Grows, Established, Justified

\* The invariant is inductive.
LEMMA AuthorizationStep ==
  AuthorizationInvariant /\ [RuntimeNext]_vars => AuthorizationInvariant'
<1> SUFFICES ASSUME AuthorizationInvariant, [RuntimeNext]_vars
             PROVE  AuthorizationInvariant'
  OBVIOUS
<1>1. RuntimeTypeOK /\ RuntimeTypeOK'
  BY RuntimeTypeStep DEF AuthorizationInvariant
<1>2. ASSUME NEW p \in Request, Runtime(p) PROVE AuthorizationInvariant'
  <2>1. ASSUME NEW q \in Request PROVE (HistoryCurrent(q) /\ Established(q) /\ Justified(q))'
    <3>1. HistoryCurrent(q)'
      BY <1>1, <1>2, WitnessGrows DEF Runtime, RuntimeTypeOK
    <3>2. CASE q = p
      BY <1>2, <3>1, <3>2, HandlerJustified DEF Runtime
    <3>3. CASE q # p
      BY <1>1, <1>2, <3>1, <3>3, HandlersApart, OthersJustified DEF Runtime
    <3>4. QED
      BY <3>2, <3>3
  <2>2. QED
    BY <1>1, <2>1 DEF AuthorizationInvariant
<1>3. CASE Administer
  <2>1. ASSUME NEW q \in Request PROVE (HistoryCurrent(q) /\ Established(q) /\ Justified(q))'
    <3>1. HistoryCurrent(q)'
      BY <1>1, <1>3, WitnessGrows DEF Administer, RuntimeTypeOK
    <3>2. Established(q)' /\ Justified(q)'
      BY <1>3, OthersJustified DEF Administer, sessionVars, lookupVars, recordVars
    <3>3. QED
      BY <3>1, <3>2
  <2>2. QED
    BY <1>1, <2>1 DEF AuthorizationInvariant
<1>4. CASE UNCHANGED vars
  <2>1. ASSUME NEW q \in Request PROVE (HistoryCurrent(q) /\ Established(q) /\ Justified(q))'
    <3>1. HistoryCurrent(q) /\ Established(q) /\ Justified(q)
      BY DEF AuthorizationInvariant
    <3>2. UNCHANGED <<registryVars, sessionVars, recordVars, seen>>
      BY <1>4 DEF vars
    <3>3. \A c \in Capability :
            (Granted(q, c)' <=> Granted(q, c)) /\ Entitled(q, c)' = Entitled(q, c)
      BY <3>2 DEF registryVars, sessionVars, Granted, Entitled, Active, Home
    <3>4. HistoryCurrent(q)'
      BY <3>1, <3>2, <3>3 DEF registryVars, sessionVars, HistoryCurrent, InFlight,
         TokenCurrent, GetActiveAgentByToken, Active
    <3>5. QED
      BY <3>1, <3>2, <3>4 DEF sessionVars, lookupVars, recordVars, Established, Justified,
         PermitsAll, NeededPermission, Home
  <2>2. QED
    BY <1>1, <2>1 DEF AuthorizationInvariant
<1>5. QED
  BY <1>2, <1>3, <1>4 DEF RuntimeNext

\* The invariant holds of the initial states.
LEMMA AuthorizationInit == RuntimeInit => AuthorizationInvariant
  BY RuntimeInitType DEF RuntimeInit, AuthorizationInvariant, HistoryCurrent, Established,
     Justified, InFlight

\* What a handler has established for its next statement is true in every
\* reachable state.
THEOREM AuthorizationInvariantHolds == RuntimeSpec => []AuthorizationInvariant
  BY AuthorizationInit, AuthorizationStep, PTL DEF RuntimeSpec

\* The invariant gives what the runtime plane promises.
LEMMA AuthorizationSuffices == AuthorizationInvariant => UsedOnlyIfAuthorized
<1> SUFFICES ASSUME AuthorizationInvariant, NEW q \in Request
             PROVE  \/ secret[q] # None \/ calls[q] > 0 \/ reply[q] = "ok"
                    \/ \E i \in DOMAIN audit[q] : audit[q][i].outcome = "success"
                    => /\ seen[q].token
                       /\ target[q] \in seen[q].grants
                       /\ secret[q] \in seen[q].secrets[target[q]]
  BY DEF UsedOnlyIfAuthorized
<1>1. Justified(q)
  BY DEF AuthorizationInvariant
<1>2. QED
  BY <1>1 DEF Justified

\* No secret is decrypted, no upstream call made and no success recorded or
\* answered for a request that was not authorized during the call, for any
\* registry, any number of requests and any interleaving with admin commits.
THEOREM AuthorizedUse == RuntimeSpec => []UsedOnlyIfAuthorized
  BY AuthorizationInvariantHolds, AuthorizationSuffices, PTL

=============================================================================
