---------------------------- MODULE OutcomeProofs ---------------------------
(***************************************************************************)
(* For every registry, every number of requests and every interleaving:    *)
(* what a request leaves behind, and what it is refused for.               *)
(*                                                                         *)
(* Exactly one audit and one usage row precede the answer, they tell what  *)
(* happened to the call, and no upstream call is made twice for a write.   *)
(* A request is refused only for something that was missing at some moment *)
(* of the call, or because the tool name it kept stands for nothing among  *)
(* capabilities that were granted.  The handler reads a binding by one     *)
(* statement and its role by the next ones, so that argument needs the     *)
(* unique index: when that binding is no longer active, no other one had   *)
(* taken over.                                                             *)
(***************************************************************************)
EXTENDS InvocationProofs

-----------------------------------------------------------------------------
(* What a statement of a handler can do to the session and records of its  *)
(* own request.                                                            *)

\* Nothing is recorded, concluded or sent.
Quiet(q) ==
  /\ verdict'[q] = verdict[q] /\ calls'[q] = calls[q]
  /\ audit'[q] = audit[q] /\ usage'[q] = usage[q] /\ reply'[q] = reply[q]

Arrives(q) ==
  pc[q] = "idle" /\ pc'[q] = "auth" /\ secret'[q] = secret[q] /\ Quiet(q)

\* The capability at hand and the phase stay as they are.
Keeps(q) == target'[q] = target[q] /\ phase'[q] = phase[q]

\* The next statement, with what this one has read about the request's rows.
Advances(q) ==
  /\ ask'[q] = ask[q] /\ Quiet(q)
  /\ \/ /\ \/ pc[q] = "auth" /\ pc'[q] = "user" /\ Keeps(q)
           \/ /\ pc[q] = "user" /\ pc'[q] \in {"tools", "capability"} /\ Keeps(q)
              /\ home[ask[q].user] = Home(q)
           \/ pc[q] = "tools" /\ pc'[q] = "tool"
           \/ pc[q] = "tool" /\ pc'[q] = "binding" /\ phase'[q] = "tools"
           \/ pc[q] \in {"binding", "describe", "permit"} /\ pc'[q] = "tool"
           \/ pc[q] = "tool" /\ pc'[q] = "user"
           \/ /\ pc[q] = "capability" /\ pc'[q] = "application" /\ Keeps(q)
              /\ home[AppOf(q)] = Home(q)
           \/ pc[q] = "application" /\ pc'[q] = "binding" /\ Keeps(q)
           \/ pc[q] = "binding" /\ pc'[q] = "describe" /\ Keeps(q)
           \/ pc[q] = "describe" /\ pc'[q] = "permit" /\ Keeps(q)
           \/ pc[q] = "permit" /\ pc'[q] = "input" /\ phase[q] = "invoke" /\ Keeps(q)
           \/ pc[q] = "input" /\ pc'[q] = "secret" /\ Keeps(q)
        /\ secret'[q] = secret[q]
     \/ pc[q] = "secret" /\ pc'[q] = "adapter" /\ Keeps(q)

Sends(q) ==
  /\ pc[q] \in {"adapter", "upstream"} /\ pc'[q] = "upstream"
  /\ pc[q] = "upstream" => calls[q] < Attempts(target[q])
  /\ calls'[q] = calls[q] + 1
  /\ Keeps(q) /\ ask'[q] = ask[q] /\ secret'[q] = secret[q] /\ verdict'[q] = verdict[q]
  /\ audit'[q] = audit[q] /\ usage'[q] = usage[q] /\ reply'[q] = reply[q]

\* The records are decided.
Concludes(q) ==
  /\ pc[q] \in {"user", "tool", "binding", "describe", "permit", "capability",
               "application", "input", "secret", "adapter", "upstream"}
  /\ pc'[q] = "record" /\ Keeps(q)
  /\ ask'[q] = ask[q] /\ secret'[q] = secret[q] /\ calls'[q] = calls[q]
  /\ audit'[q] = audit[q] /\ usage'[q] = usage[q] /\ reply'[q] = reply[q]
  /\ Story(verdict'[q])
  /\ verdict'[q].decision = "deny" => pc[q] \notin {"adapter", "upstream"}
  /\ \/ verdict'[q].user \in {ask[q].user, None} /\ pc[q] # "user"
     \/ pc[q] = "user" /\ (verdict'[q].user = None \/ home[verdict'[q].user] = Home(q))
  /\ \/ verdict'[q].app = None
     \/ /\ verdict'[q].app = AppOf(q)
        /\ \/ pc[q] \in {"input", "secret", "adapter", "upstream"}
           \/ pc[q] \in {"binding", "describe", "permit"} /\ phase[q] = "invoke"

AuditRow(q) ==
  [workspace |-> Home(q), agent |-> ask[q].agent, user |-> verdict[q].user,
   app |-> verdict[q].app, decision |-> verdict[q].decision,
   outcome |-> verdict[q].outcome, code |-> verdict[q].code]

UsageRow(q) ==
  [workspace |-> Home(q), agent |-> ask[q].agent, user |-> verdict[q].user,
   app |-> verdict[q].app, status |-> verdict[q].usage]

Commits(q) ==
  /\ pc[q] = "record" /\ pc'[q] = "respond" /\ Keeps(q)
  /\ ask'[q] = ask[q] /\ secret'[q] = secret[q] /\ calls'[q] = calls[q]
  /\ verdict'[q] = verdict[q] /\ reply'[q] = reply[q]
  /\ audit'[q] = Append(audit[q], AuditRow(q))
  /\ usage'[q] = Append(usage[q], UsageRow(q))

\* The request ends: refused at the door, answered, or cut off.
Ends(q) ==
  /\ pc'[q] = "done" /\ Keeps(q)
  /\ ask'[q] = ask[q] /\ secret'[q] = secret[q] /\ calls'[q] = calls[q]
  /\ verdict'[q] = verdict[q] /\ audit'[q] = audit[q] /\ usage'[q] = usage[q]
  /\ \/ pc[q] = "auth" /\ reply'[q] = "unauthenticated"
     \/ /\ pc[q] = "respond"
        /\ reply'[q] = IF verdict[q].decision = "deny" THEN "denied"
                       ELSE IF verdict[q].outcome = "success" THEN "ok" ELSE "error"
     \/ pc[q] \notin {"idle", "done"} /\ reply'[q] = "failed"

\* A refusal decides the records.
LEMMA RefusalConcludes ==
  ASSUME RuntimeTypeOK, NEW q \in Request, UNCHANGED recordVars,
         NEW from \in {"tool", "binding", "describe", "permit", "capability",
                       "application", "input", "secret"},
         NEW app, NEW code, Refuse(q, from, ask[q].user, app, code),
         \/ app = None
         \/ /\ app = AppOf(q)
            /\ \/ from = "secret"
               \/ from \in {"binding", "describe", "permit"} /\ phase[q] = "invoke"
  PROVE  Concludes(q)
<1>1. /\ pc[q] = from /\ pc'[q] = "record"
      /\ UNCHANGED <<ask, secret, calls, target, phase>>
      /\ verdict'[q] = [user |-> ask[q].user, app |-> app, decision |-> "deny",
                        outcome |-> "error", usage |-> "denied", code |-> code]
  BY DEF Refuse, Goto, Record, RuntimeTypeOK, SessionTypeOK, lookupVars
<1>2. QED
  BY <1>1 DEF Concludes, Keeps, Story, recordVars

\* A fault decides the records as an allowed error.
LEMMA FaultConcludes ==
  ASSUME RuntimeTypeOK, NEW q \in Request, UNCHANGED recordVars,
         NEW from \in {"input", "adapter", "upstream"}, NEW code, Fault(q, from, code)
  PROVE  Concludes(q)
<1>1. /\ pc[q] = from /\ pc'[q] = "record"
      /\ UNCHANGED <<ask, secret, calls, target, phase>>
      /\ verdict'[q] = [user |-> ask[q].user, app |-> AppOf(q), decision |-> "allow",
                        outcome |-> "error", usage |-> "error", code |-> code]
  BY DEF Fault, Goto, Record, RuntimeTypeOK, SessionTypeOK, lookupVars
<1>2. QED
  BY <1>1 DEF Concludes, Keeps, Story, recordVars

\* Every statement of a handler has one of these effects on its own request.
LEMMA HandlerEffect ==
  ASSUME RuntimeTypeOK, NEW q \in Request, Arrive(q) \/ Handle(q) \/ Abort(q)
  PROVE  \/ Arrives(q) \/ Advances(q) \/ Sends(q) \/ Concludes(q) \/ Commits(q) \/ Ends(q)
<1> USE DEF recordVars, lookupVars
<1>1. /\ pc \in [Request -> Stage] /\ ask \in [Request -> Ask] /\ ask[q] \in Ask
      /\ phase \in [Request -> Phase] /\ target \in [Request -> Capability \cup {None}]
      /\ secret \in [Request -> Secret \cup {None}] /\ calls \in [Request -> Nat]
      /\ verdict \in [Request -> Verdict] /\ audit \in [Request -> Seq(AuditEvent)]
      /\ usage \in [Request -> Seq(UsageEvent)] /\ reply \in [Request -> Reply]
      /\ TargetKnown(q)
  BY DEF RuntimeTypeOK, SessionTypeOK, RecordTypeOK
<1>2. CASE Arrive(q)
  BY <1>1, <1>2 DEF Arrive, Goto, Arrives, Quiet
<1>3. CASE Authenticate(q)
  BY <1>1, <1>3 DEF Authenticate, Pass, Goto, Advances, Quiet, Keeps, Ends
<1>4. CASE SelectUser(q)
  <2> DEFINE found == GetUser(Home(q), ask[q].user)
  <2>1. CASE Deny(q, "user", IF found THEN ask[q].user ELSE None, None)
    <3>1. /\ pc[q] = "user" /\ pc'[q] = "record"
          /\ UNCHANGED <<ask, secret, calls, target, phase, recordVars>>
          /\ verdict'[q] = [user |-> IF found THEN ask[q].user ELSE None, app |-> None,
                            decision |-> "deny", outcome |-> "error", usage |-> "denied",
                            code |-> "capability_denied"]
      BY <1>1, <1>4, <2>1 DEF SelectUser, Deny, Refuse, Goto, Record
    <3>2. found => home[ask[q].user] = Home(q)
      BY DEF GetUser
    <3>3. QED
      BY <3>1, <3>2 DEF Concludes, Keeps, Story
  <2>2. CASE ~Deny(q, "user", IF found THEN ask[q].user ELSE None, None)
    <3>1. /\ pc[q] = "user" /\ pc'[q] \in {"tools", "capability"} /\ found
          /\ UNCHANGED <<ask, secret, calls, target, phase, verdict, recordVars>>
      BY <1>1, <1>4, <2>2 DEF SelectUser, Goto
    <3>2. QED
      BY <3>1 DEF GetUser, Advances, Quiet, Keeps
  <2>3. QED
    BY <2>1, <2>2
<1>5. CASE ListTools(q) \/ NextTool(q)
  <2>1. /\ \/ pc[q] = "tools" /\ pc'[q] = "tool"
           \/ pc[q] = "tool" /\ pc'[q] = "binding" /\ phase'[q] = "tools"
        /\ UNCHANGED <<ask, secret, calls, verdict, recordVars>>
    BY <1>1, <1>5 DEF ListTools, NextTool, Pass, Goto, TargetKnown
  <2>2. QED
    BY <2>1 DEF Advances, Quiet
<1>6. CASE ResolveTool(q)
  <2>1. CASE Deny(q, "tool", ask[q].user, None)
    <3>1. UNCHANGED recordVars
      BY <1>6 DEF ResolveTool
    <3>2. QED
      BY <2>1, <3>1, RefusalConcludes DEF Deny
  <2>2. CASE ~Deny(q, "tool", ask[q].user, None)
    <3>1. Pass(q, "tool", "user") /\ UNCHANGED recordVars
      BY <1>6, <2>2 DEF ResolveTool
    <3>2. QED
      BY <1>1, <3>1 DEF Pass, Goto, Advances, Quiet
  <2>3. QED
    BY <2>1, <2>2
<1>7. CASE SelectCapability(q)
  <2>1. CASE Deny(q, "capability", ask[q].user, None)
    BY <1>7, <2>1, RefusalConcludes DEF SelectCapability, Deny
  <2>2. CASE ~Deny(q, "capability", ask[q].user, None)
    <3>1. /\ pc[q] = "capability" /\ pc'[q] = "application" /\ home[AppOf(q)] = Home(q)
          /\ UNCHANGED <<ask, secret, calls, target, phase, verdict, recordVars>>
      BY <1>1, <1>7, <2>2 DEF SelectCapability, Pass, Goto, GetActiveCapability, AppOf
    <3>2. QED
      BY <3>1 DEF Advances, Quiet, Keeps
  <2>3. QED
    BY <2>1, <2>2
<1>8. CASE CheckApplication(q)
  <2>1. CASE Deny(q, "application", ask[q].user, None)
    BY <1>8, <2>1, RefusalConcludes DEF CheckApplication, Deny
  <2>2. CASE ~Deny(q, "application", ask[q].user, None)
    BY <1>1, <1>8, <2>2 DEF CheckApplication, Pass, Goto, Advances, Quiet, Keeps
  <2>3. QED
    BY <2>1, <2>2
<1>9. ASSUME NEW from \in {"binding", "describe", "permit"}, Reject(q, from),
             UNCHANGED recordVars
      PROVE  Advances(q) \/ Concludes(q)
  <2>1. CASE phase[q] = "invoke" /\ Deny(q, from, ask[q].user, AppOf(q))
    BY <1>9, <2>1, RefusalConcludes DEF Deny
  <2>2. CASE Pass(q, from, "tool")
    BY <1>1, <1>9, <2>2 DEF Pass, Goto, Advances, Quiet
  <2>3. QED
    BY <1>9, <2>1, <2>2 DEF Reject
<1>10. CASE FindBinding(q)
  <2>1. CASE Reject(q, "binding")
    BY <1>9, <1>10, <2>1 DEF FindBinding
  <2>2. CASE ~Reject(q, "binding")
    BY <1>1, <1>10, <2>2 DEF FindBinding, Goto, Advances, Quiet, Keeps
  <2>3. QED
    BY <2>1, <2>2
<1>11. CASE CheckDescribe(q)
  <2>1. CASE Reject(q, "describe")
    BY <1>9, <1>11, <2>1 DEF CheckDescribe
  <2>2. CASE ~Reject(q, "describe")
    BY <1>1, <1>11, <2>2 DEF CheckDescribe, Pass, Goto, Advances, Quiet, Keeps
  <2>3. QED
    BY <2>1, <2>2
<1>12. CASE CheckInvoke(q)
  <2>1. CASE Reject(q, "permit")
    BY <1>9, <1>12, <2>1 DEF CheckInvoke
  <2>2. CASE ~Reject(q, "permit")
    BY <1>1, <1>12, <2>2 DEF CheckInvoke, Pass, Goto, Advances, Quiet, Keeps
  <2>3. QED
    BY <2>1, <2>2
<1>13. CASE ValidateInput(q)
  <2>1. CASE Fault(q, "input", "invalid_capability_input")
    BY <1>13, <2>1, FaultConcludes DEF ValidateInput
  <2>2. CASE ~Fault(q, "input", "invalid_capability_input")
    BY <1>1, <1>13, <2>2 DEF ValidateInput, Pass, Goto, Advances, Quiet, Keeps
  <2>3. QED
    BY <2>1, <2>2
<1>14. CASE ResolveSecret(q)
  <2>1. CASE \E code : Refuse(q, "secret", ask[q].user, AppOf(q), code)
    BY <1>14, <2>1, RefusalConcludes DEF ResolveSecret
  <2>2. CASE /\ Goto(q, "secret", "adapter")
             /\ UNCHANGED <<ask, lookupVars, loaded, binding, calls, verdict>>
    BY <1>1, <1>14, <2>2 DEF ResolveSecret, Goto, Advances, Quiet, Keeps
  <2>3. QED
    BY <1>14, <2>1, <2>2 DEF ResolveSecret, Deny
<1>15. CASE RejectByAdapter(q) \/ UpstreamFails(q)
  BY <1>15, FaultConcludes DEF RejectByAdapter, UpstreamFails
<1>16. CASE AnswerLocally(q) \/ UpstreamSucceeds(q)
  <2>1. /\ pc[q] \in {"adapter", "upstream"} /\ pc'[q] = "record"
        /\ UNCHANGED <<ask, secret, calls, target, phase, recordVars>>
        /\ verdict'[q] = [user |-> ask[q].user, app |-> AppOf(q), decision |-> "allow",
                          outcome |-> "success", usage |-> "success", code |-> "none"]
    BY <1>1, <1>16 DEF AnswerLocally, UpstreamSucceeds, Goto, Record
  <2>2. QED
    BY <2>1 DEF Concludes, Keeps, Story
<1>17. CASE SendFirst(q) \/ Resend(q)
  BY <1>1, <1>17 DEF SendFirst, Resend, Send, Goto, Sends, Keeps
<1>18. CASE CommitRecords(q)
  BY <1>1, <1>18 DEF CommitRecords, Pass, Goto, Commits, Keeps, AuditRow, UsageRow
<1>19. CASE Respond(q)
  BY <1>1, <1>19 DEF Respond, Pass, Goto, Ends, Keeps
<1>20. CASE Abort(q)
  BY <1>1, <1>20 DEF Abort, InFlight, Ends, Keeps
<1>21. QED
  BY <1>2, <1>3, <1>4, <1>5, <1>6, <1>7, <1>8, <1>10, <1>11, <1>12, <1>13, <1>14,
     <1>15, <1>16, <1>17, <1>18, <1>19, <1>20 DEF Handle

-----------------------------------------------------------------------------
(* The invariant, request by request                                       *)

\* RecordsStayHome and ResentOnlyIfReadOnly of one request.
RowsHome(q) ==
  \A i \in DOMAIN audit[q] : \A e \in {audit[q][i], usage[q][i]} :
    /\ e.workspace = home[e.agent]
    /\ e.user # None => home[e.user] = e.workspace
    /\ e.app # None => home[e.app] = e.workspace

ResentReadOnly(q) ==
  calls[q] > 1 => /\ riskClass[target[q]] = "read_only"
                  /\ calls[q] <= ReadOnlyAttempts

Recorded(q) == Filed(q) /\ Untraced(q) /\ Placed(q) /\ RowsHome(q) /\ ResentReadOnly(q)

\* The invariant, request by request.
LEMMA RecordInvariantParts ==
  RecordInvariant <=> AuthorizationInvariant /\ \A q \in Request : Recorded(q)
  BY DEF RecordInvariant, RecordsStayHome, ResentOnlyIfReadOnly, Recorded, RowsHome,
     ResentReadOnly

\* What a filed row says is what the verdict said.
LEMMA RowColumns ==
  ASSUME NEW q
  PROVE  /\ AuditRow(q).decision = verdict[q].decision
         /\ AuditRow(q).outcome = verdict[q].outcome
         /\ UsageRow(q).status = verdict[q].usage
  BY DEF AuditRow, UsageRow

\* What a commit appends to empty tables.
LEMMA CommittedRows ==
  ASSUME NEW q \in Request, Filed(q), Commits(q)
  PROVE  /\ audit'[q] = <<AuditRow(q)>> /\ usage'[q] = <<UsageRow(q)>>
         /\ Len(audit'[q]) = 1 /\ Len(usage'[q]) = 1
         /\ audit'[q][1] = AuditRow(q) /\ usage'[q][1] = UsageRow(q)
         /\ DOMAIN audit'[q] = {1}
<1>1. audit[q] = <<>> /\ usage[q] = <<>>
  BY DEF Filed, Commits
<1>2. audit'[q] = Append(<<>>, AuditRow(q)) /\ usage'[q] = Append(<<>>, UsageRow(q))
  BY <1>1 DEF Commits
<1> HIDE DEF AuditRow, UsageRow
<1>3. QED
  BY <1>2

\* The records are as far as the stage says.
LEMMA FiledKept ==
  ASSUME RuntimeTypeOK, NEW q \in Request, Filed(q),
         \/ Arrives(q) \/ Advances(q) \/ Sends(q) \/ Concludes(q) \/ Commits(q) \/ Ends(q)
  PROVE  Filed(q)'
<1>1. Len(<<>>) = 0
  OBVIOUS
<1>2. CASE Arrives(q) \/ Advances(q) \/ Sends(q) \/ Concludes(q)
  <2>1. /\ pc[q] \notin {"respond", "done"} /\ pc'[q] \notin {"respond", "done"}
        /\ audit'[q] = audit[q] /\ usage'[q] = usage[q] /\ reply'[q] = reply[q]
        /\ pc'[q] = "record" => Story(verdict'[q])
    BY <1>2 DEF Arrives, Advances, Sends, Concludes, Quiet
  <2>2. QED
    BY <1>1, <2>1 DEF Filed
<1>3. CASE Commits(q)
  <2>1. /\ audit'[q][1].decision = verdict[q].decision
        /\ audit'[q][1].outcome = verdict[q].outcome
        /\ usage'[q][1].status = verdict[q].usage
    BY <1>3, CommittedRows, RowColumns
  <2>2. QED
    BY <1>3, <2>1, CommittedRows DEF Filed, Commits
<1>4. CASE Ends(q)
  <2>1. CASE reply'[q] = "failed"
    BY <1>1, <1>4, <2>1 DEF Ends, Filed
  <2>2. CASE reply'[q] = "unauthenticated"
    BY <1>1, <1>4, <2>2 DEF Ends, Filed
  <2>3. CASE pc[q] = "respond" /\ reply'[q] \notin {"failed", "unauthenticated"}
    BY <1>4, <2>3 DEF Ends, Filed, Story
  <2>4. QED
    BY <1>4, <2>1, <2>2, <2>3 DEF Ends
<1>5. QED
  BY <1>2, <1>3, <1>4

\* A denied call leaves nothing behind.
LEMMA UntracedKept ==
  ASSUME RuntimeTypeOK, NEW q \in Request, Filed(q), Untraced(q), Justified(q),
         \/ Arrives(q) \/ Advances(q) \/ Sends(q) \/ Concludes(q) \/ Commits(q) \/ Ends(q)
  PROVE  Untraced(q)'
<1>1. calls[q] \in Nat /\ DOMAIN <<>> = {}
  BY DEF RuntimeTypeOK, SessionTypeOK
<1>2. CASE Arrives(q) \/ Advances(q) \/ Sends(q)
  <2>1. /\ audit'[q] = <<>> /\ pc'[q] \notin {"record", "respond"}
        /\ calls'[q] > 0 => pc'[q] \in {"upstream", "record", "respond", "done"}
    BY <1>1, <1>2 DEF Arrives, Advances, Sends, Quiet, Filed, Untraced
  <2>2. QED
    BY <1>1, <2>1 DEF Untraced
<1>3. CASE Concludes(q)
  <2>1. verdict'[q].decision = "deny" => secret[q] = None /\ calls[q] = 0
    BY <1>1, <1>3 DEF Concludes, Untraced, Justified
  <2>2. QED
    BY <1>3, <2>1 DEF Concludes, Untraced
<1>4. CASE Commits(q)
  <2>1. audit'[q][1].decision = verdict[q].decision /\ DOMAIN audit'[q] = {1}
    BY <1>4, CommittedRows, RowColumns
  <2>2. QED
    BY <1>4, <2>1 DEF Commits, Untraced
<1>5. CASE Ends(q)
  BY <1>5 DEF Ends, Untraced
<1>6. QED
  BY <1>2, <1>3, <1>4, <1>5

\* The rows a handler works with are of the agent's workspace.
LEMMA PlacedKept ==
  ASSUME NEW q \in Request, Placed(q), TargetKnown(q),
         \/ Arrives(q) \/ Advances(q) \/ Sends(q) \/ Concludes(q) \/ Commits(q) \/ Ends(q)
  PROVE  Placed(q)'
<1>1. CASE Arrives(q)
  BY <1>1 DEF Arrives, Placed
<1>2. CASE ~Arrives(q)
  <2>1. /\ Home(q)' = Home(q) /\ ask'[q] = ask[q]
        /\ Keeps(q) => AppOf(q)' = AppOf(q)
    BY <1>2 DEF Home, AppOf, Keeps, Advances, Sends, Concludes, Commits, Ends
  <2>2. CASE Advances(q)
    BY <2>1, <2>2 DEF Advances, Keeps, Placed, TargetKnown
  <2>3. CASE Sends(q)
    BY <2>1, <2>3 DEF Sends, Keeps, Placed
  <2>4. CASE Concludes(q)
    BY <2>1, <2>4 DEF Concludes, Placed
  <2>5. CASE Commits(q) \/ Ends(q)
    BY <2>1, <2>5 DEF Commits, Ends, Placed
  <2>6. QED
    BY <1>2, <2>2, <2>3, <2>4, <2>5
<1>3. QED
  BY <1>1, <1>2

\* So are the rows it commits.
LEMMA RowsHomeKept ==
  ASSUME NEW q \in Request, Filed(q), Placed(q), RowsHome(q),
         \/ Arrives(q) \/ Advances(q) \/ Sends(q) \/ Concludes(q) \/ Commits(q) \/ Ends(q)
  PROVE  RowsHome(q)'
<1>1. CASE Commits(q)
  <2>1. /\ verdict[q].user # None => home[verdict[q].user] = Home(q)
        /\ verdict[q].app # None => home[verdict[q].app] = Home(q)
    BY <1>1 DEF Commits, Placed
  <2>2. \A e \in {AuditRow(q), UsageRow(q)} :
          /\ e.workspace = home[e.agent]
          /\ e.user = verdict[q].user /\ e.app = verdict[q].app /\ e.workspace = Home(q)
    BY DEF AuditRow, UsageRow, Home
  <2>3. QED
    BY <1>1, <2>1, <2>2, CommittedRows DEF RowsHome
<1>2. CASE ~Commits(q)
  <2>1. audit'[q] = audit[q] /\ usage'[q] = usage[q]
    BY <1>2 DEF Arrives, Advances, Sends, Concludes, Ends, Quiet
  <2>2. QED
    BY <2>1 DEF RowsHome
<1>3. QED
  BY <1>1, <1>2

\* Only a read-only call has attempts left after the first.
LEMMA ResentKept ==
  ASSUME RuntimeTypeOK, NEW q \in Request, Untraced(q), ResentReadOnly(q),
         \/ Arrives(q) \/ Advances(q) \/ Sends(q) \/ Concludes(q) \/ Commits(q) \/ Ends(q)
  PROVE  ResentReadOnly(q)'
<1>1. calls[q] \in Nat /\ ReadOnlyAttempts \in Nat
  BY InvocationAssumption DEF RuntimeTypeOK, SessionTypeOK
<1>2. CASE Arrives(q)
  BY <1>1, <1>2 DEF Arrives, Quiet, Untraced, ResentReadOnly
<1>3. CASE Sends(q)
  BY <1>1, <1>3 DEF Sends, Keeps, Untraced, ResentReadOnly, Attempts
<1>4. CASE Advances(q)
  BY <1>1, <1>4 DEF Advances, Quiet, Untraced, ResentReadOnly
<1>5. CASE Concludes(q) \/ Commits(q) \/ Ends(q)
  <2>1. calls'[q] = calls[q] /\ target'[q] = target[q]
    BY <1>5 DEF Concludes, Commits, Ends, Keeps
  <2>2. QED
    BY <2>1 DEF ResentReadOnly
<1>6. QED
  BY <1>2, <1>3, <1>4, <1>5

-----------------------------------------------------------------------------
(* The theorems                                                            *)

\* The invariant is inductive.
LEMMA RecordStep == RecordInvariant /\ [RuntimeNext]_vars => RecordInvariant'
<1> SUFFICES ASSUME RecordInvariant, [RuntimeNext]_vars PROVE RecordInvariant'
  OBVIOUS
<1>1. /\ AuthorizationInvariant /\ AuthorizationInvariant' /\ RuntimeTypeOK
      /\ \A q \in Request : TargetKnown(q)
  BY AuthorizationStep DEF RecordInvariant, AuthorizationInvariant, RuntimeTypeOK
<1>2. SUFFICES ASSUME NEW q \in Request PROVE Recorded(q)'
  BY <1>1, RecordInvariantParts DEF RecordInvariant, RecordsStayHome, ResentOnlyIfReadOnly,
     Recorded, RowsHome, ResentReadOnly
<1>3. Recorded(q) /\ Justified(q)
  BY RecordInvariantParts DEF AuthorizationInvariant
<1>4. ASSUME pc'[q] = pc[q], ask'[q] = ask[q], secret'[q] = secret[q],
             calls'[q] = calls[q], verdict'[q] = verdict[q], audit'[q] = audit[q],
             usage'[q] = usage[q], reply'[q] = reply[q],
             target'[q] = target[q], phase'[q] = phase[q]
      PROVE  Recorded(q)'
  BY <1>3, <1>4 DEF Recorded, Filed, Untraced, Placed, RowsHome, ResentReadOnly, Home, AppOf
<1>5. CASE Runtime(q)
  <2>1. \/ Arrives(q) \/ Advances(q) \/ Sends(q) \/ Concludes(q) \/ Commits(q) \/ Ends(q)
    BY <1>1, <1>5, HandlerEffect DEF Runtime
  <2>2. QED
    BY <1>1, <1>3, <2>1, FiledKept, UntracedKept, PlacedKept, RowsHomeKept, ResentKept
       DEF Recorded
<1>6. ASSUME NEW p \in Request \ {q}, Runtime(p) PROVE Recorded(q)'
  BY <1>1, <1>4, <1>6, HandlersApart DEF Runtime
<1>7. CASE Administer \/ UNCHANGED vars
  BY <1>4, <1>7 DEF Administer, vars, sessionVars, lookupVars, recordVars
<1>8. QED
  BY <1>5, <1>6, <1>7 DEF RuntimeNext

\* Nothing is filed at first.
LEMMA RecordInit == RuntimeInit => RecordInvariant
<1> SUFFICES ASSUME RuntimeInit PROVE RecordInvariant
  OBVIOUS
<1>1. ASSUME NEW q \in Request PROVE Recorded(q)
  <2>1. /\ pc[q] = "idle" /\ audit[q] = <<>> /\ usage[q] = <<>> /\ reply[q] = "none"
        /\ calls[q] = 0
    BY DEF RuntimeInit
  <2>2. QED
    BY <2>1 DEF Recorded, Filed, Untraced, Placed, RowsHome, ResentReadOnly
<1>2. QED
  BY <1>1, AuthorizationInit, RecordInvariantParts

\* The records of a request are as far as its handler and agree with what it
\* has done, in every reachable state.
THEOREM RecordInvariantHolds == RuntimeSpec => []RecordInvariant
  BY RecordInit, RecordStep, PTL DEF RuntimeSpec

\* The client of a result or a refusal finds one audit and one usage row
\* committed that tell what it was told, whatever admins did meanwhile.
THEOREM RecordedOnce == RuntimeSpec => []RecordedOnceBeforeReply
<1>1. RecordInvariant => RecordedOnceBeforeReply
  <2> SUFFICES ASSUME RecordInvariant, NEW q \in Request
               PROVE  /\ Len(audit[q]) = Len(usage[q])
                      /\ Len(audit[q]) <= 1
                      /\ reply[q] \in {"ok", "denied", "error"} => Len(audit[q]) = 1
                      /\ reply[q] = "unauthenticated" => Len(audit[q]) = 0
                      /\ reply[q] \in {"ok", "denied", "error"} =>
                           <<reply[q], audit[q][1].decision, audit[q][1].outcome,
                             usage[q][1].status>> \in
                               {<<"ok", "allow", "success", "success">>,
                                <<"denied", "deny", "error", "denied">>,
                                <<"error", "allow", "error", "error">>}
    BY DEF RecordedOnceBeforeReply
  <2>1. Filed(q)
    BY DEF RecordInvariant
  <2>2. QED
    BY <2>1 DEF Filed, Story
<1>2. QED
  BY <1>1, RecordInvariantHolds, PTL

\* A call the audit trail calls denied has no secret and reached no application.
THEOREM DeniedUntraced == RuntimeSpec => []DeniedLeavesNoTrace
<1>1. RecordInvariant => DeniedLeavesNoTrace
  BY DEF RecordInvariant, Untraced, DeniedLeavesNoTrace
<1>2. QED
  BY <1>1, RecordInvariantHolds, PTL

\* No audit or usage row names a user or application of another workspace.
THEOREM RecordsHome == RuntimeSpec => []RecordsStayHome
<1>1. RecordInvariant => RecordsStayHome
  BY DEF RecordInvariant
<1>2. QED
  BY <1>1, RecordInvariantHolds, PTL

\* Nothing but a read-only call is sent twice, for any number of attempts.
THEOREM ResentReadOnlyHolds == RuntimeSpec => []ResentOnlyIfReadOnly
<1>1. RecordInvariant => ResentOnlyIfReadOnly
  BY DEF RecordInvariant
<1>2. QED
  BY <1>1, RecordInvariantHolds, PTL

-----------------------------------------------------------------------------
(* What a request is refused for                                           *)

\* Whatever is missing now has been noted.
LapsesCurrent(q) ==
  InFlight(q) =>
    /\ ~TokenCurrent(q) => seen[q].lapsed
    /\ \A c \in Capability :
         /\ ~Granted(q, c) => c \in seen[q].ungranted
         /\ Entitled(q, c) = {} => c \in seen[q].unentitled

\* The binding that was read is still the one that counts, or there was a
\* moment without any.
BindingHeld(q) ==
  pc[q] \in {"describe", "permit"} =>
    \/ target[q] \in seen[q].ungranted
    \/ /\ binding[q] \in Binding /\ Active(binding[q])
       /\ home[binding[q]] = Home(q)
       /\ binds[binding[q]].agent = ask[q].agent
       /\ binds[binding[q]].user = ask[q].user
       /\ binds[binding[q]].capability = target[q]

\* What the lookup has passed over was not granted at some moment.
LookedAt(q) ==
  /\ pc[q] = "tool" =>
       Capability \ (visible[q] \cup pending[q]) \subseteq seen[q].ungranted
  /\ phase[q] = "tools" /\ pc[q] \in {"binding", "describe", "permit"} =>
       Capability \ (visible[q] \cup pending[q] \cup {target[q]}) \subseteq seen[q].ungranted

CodeExplained(q, code) ==
  /\ code = "capability_denied" =>
       IF target[q] = None THEN NameLost(q)
       ELSE target[q] \in seen[q].ungranted \/ authMode[target[q]] = "admin"
  /\ code = "secret_not_found" => target[q] \in seen[q].unentitled

RefusalExplained(q) ==
  /\ pc[q] = "record" => CodeExplained(q, verdict[q].code)
  /\ \A i \in DOMAIN audit[q] : CodeExplained(q, audit[q][i].code)
  /\ reply[q] = "unauthenticated" => seen[q].lapsed

RefusalInvariant ==
  /\ RecordInvariant
  /\ OneActivePerSlot
  /\ \A q \in Request :
       LapsesCurrent(q) /\ BindingHeld(q) /\ LookedAt(q) /\ RefusalExplained(q)

-----------------------------------------------------------------------------
(* The history                                                             *)

\* What was missing once stays noted.
Fades(q) ==
  /\ seen[q].lapsed => seen'[q].lapsed
  /\ seen[q].ungranted \subseteq seen'[q].ungranted
  /\ seen[q].unentitled \subseteq seen'[q].unentitled

\* The history notes what is missing after a step and forgets nothing.
LEMMA LapsesGrow ==
  ASSUME seen \in [Request -> Seen], Witness, NEW q \in Request
  PROVE  LapsesCurrent(q)' /\ Fades(q)
<1>1. CASE ~InFlight(q)'
  BY <1>1, WitnessIs DEF LapsesCurrent, Fades
<1>2. CASE InFlight(q)'
  <2>1. /\ seen'[q].lapsed = (seen[q].lapsed \/ ~TokenCurrent(q)')
        /\ seen'[q].ungranted =
             seen[q].ungranted \cup (Capability \ {c \in Capability : Granted(q, c)'})
        /\ seen'[q].unentitled =
             seen[q].unentitled \cup {c \in Capability : Entitled(q, c)' = {}}
    BY <1>2, WitnessIs
  <2>2. QED
    BY <2>1 DEF LapsesCurrent, Fades
<1>3. QED
  BY <1>1, <1>2

\* A name that stands for nothing, and any other refusal, stays explained.
LEMMA ExplainedForGood ==
  ASSUME NEW q \in Request, Grows(q), Fades(q), Keeps(q), ask'[q] = ask[q],
         NEW code, CodeExplained(q, code)
  PROVE  CodeExplained(q, code)'
<1>1. NameLost(q) => NameLost(q)'
  BY DEF NameLost, Grows, Fades
<1>2. QED
  BY <1>1 DEF CodeExplained, Keeps, Fades

\* With nothing granted at this moment, no name stands for anything.
LEMMA NothingGranted ==
  ASSUME NEW q \in Request, RuntimeTypeOK, LapsesCurrent(q), InFlight(q),
         \A c \in Capability : ~Granted(q, c)
  PROVE  CodeExplained(q, "capability_denied")
<1>1. Capability \subseteq seen[q].ungranted
  BY DEF LapsesCurrent
<1>2. NameLost(q)
  <2>1. {} \in SUBSET seen[q].grants /\ Capability \ seen[q].ungranted \subseteq {}
    BY <1>1
  <2>2. QED
    BY <2>1 DEF NameLost
<1>3. target[q] \in Capability \cup {None}
  BY DEF RuntimeTypeOK, SessionTypeOK
<1>4. QED
  BY <1>1, <1>2, <1>3 DEF CodeExplained

-----------------------------------------------------------------------------
(* What a grant makes the handler's queries answer                         *)

\* A caller who is granted a capability passes every test of a status.
LEMMA GrantAnswers ==
  ASSUME NEW q, NEW c \in Capability, Granted(q, c)
  PROVE  /\ GetUser(Home(q), ask[q].user)
         /\ Active(ask[q].user)
         /\ GetActiveCapability(Home(q), c)
         /\ ListsCapability(Home(q), ask[q].agent, ask[q].user, c)
         /\ Active(appOf[c])
         /\ GetActiveBinding(Home(q), ask[q].agent, ask[q].user, c) # {}
         /\ InvokePermission(riskClass[c]) # "none"
<1>1. PICK b \in Binding :
        /\ binds[b].capability = c
        /\ binds[b].user = ask[q].user
        /\ binds[b].agent = ask[q].agent
        /\ \A row \in Joined[b] : Active(row) /\ home[row] = Home(q)
        /\ Requires(riskClass[c]) \cap permissions[binds[b].role] # {}
  BY DEF Granted
<1>2. Joined[b] = {b, home[b], ask[q].agent, ask[q].user, c, appOf[c], binds[b].role}
  BY <1>1 DEF Joined
<1>3. \A row \in {b, Home(q), ask[q].agent, ask[q].user, c, appOf[c], binds[b].role} :
        Active(row) /\ home[row] = Home(q)
  <2>1. home[b] = Home(q)
    BY <1>1, <1>2
  <2>2. QED
    BY <1>1, <1>2, <2>1
<1>4. Active(ask[q].user) /\ Exists(ask[q].user) /\ GetUser(Home(q), ask[q].user)
  BY <1>3 DEF GetUser, Active, Exists
<1>5. GetActiveCapability(Home(q), c) /\ Active(appOf[c])
  BY <1>3 DEF GetActiveCapability
<1>6. ListsCapability(Home(q), ask[q].agent, ask[q].user, c)
  BY <1>1, <1>3, <1>5 DEF ListsCapability
<1>7. b \in GetActiveBinding(Home(q), ask[q].agent, ask[q].user, c)
  BY <1>1, <1>3 DEF GetActiveBinding
<1>8. InvokePermission(riskClass[c]) # "none"
  BY <1>1 DEF InvokePermission, Requires
<1>9. QED
  BY <1>4, <1>5, <1>6, <1>7, <1>8

\* The one active binding of the slot is the one that grants.
LEMMA GrantByBinding ==
  ASSUME OneActivePerSlot, NEW q, NEW c, Granted(q, c), NEW b \in Binding, Active(b),
         home[b] = Home(q), binds[b].agent = ask[q].agent,
         binds[b].user = ask[q].user, binds[b].capability = c
  PROVE  /\ RoleGrantsPermission(binds[b].role, Describe)
         /\ RoleGrantsPermission(binds[b].role, InvokePermission(riskClass[c]))
<1>1. PICK g \in Binding :
        /\ binds[g].capability = c
        /\ binds[g].user = ask[q].user
        /\ binds[g].agent = ask[q].agent
        /\ \A row \in Joined[g] : Active(row) /\ home[row] = Home(q)
        /\ Describe \in permissions[binds[g].role]
        /\ Requires(riskClass[c]) \cap permissions[binds[g].role] # {}
  BY DEF Granted
<1>2. {g, binds[g].role} \subseteq Joined[g]
  BY DEF Joined
<1>3. Active(g) /\ home[g] = Home(q) /\ Active(binds[g].role)
  BY <1>1, <1>2
<1>4. SameSlot(g, b)
  BY <1>1, <1>3 DEF SameSlot
<1>5. g = b
  BY <1>3, <1>4 DEF OneActivePerSlot, Row
<1>6. InvokePermission(riskClass[c]) \in permissions[binds[g].role]
  BY <1>1 DEF InvokePermission, Requires
<1>7. QED
  BY <1>1, <1>3, <1>5, <1>6 DEF RoleGrantsPermission

\* The secrets a caller is entitled to are among those the resolver finds.
LEMMA EntitledIsUsable ==
  ASSUME NEW q, home[target[q]] = Home(q)
  PROVE  Entitled(q, target[q]) \subseteq UsableSecrets(q)
<1> SUFFICES ASSUME NEW s \in Entitled(q, target[q]) PROVE s \in UsableSecrets(q)
  OBVIOUS
<1>1. CASE authMode[target[q]] \in {"user", "user+scope"}
  BY <1>1 DEF UsableSecrets, GetActiveSecret, Entitled
<1>2. CASE authMode[target[q]] = "system"
  BY <1>2 DEF UsableSecrets, GetActiveSecret, Entitled
<1>3. CASE authMode[target[q]] \notin {"user", "user+scope", "system"}
  BY <1>3 DEF Entitled
<1>4. QED
  BY <1>1, <1>2, <1>3

\* One transaction does not hand a slot from one binding to another: when the
\* binding stops being active there is no grant at that moment.
LEMMA BindingLost ==
  ASSUME TypeOK, OneActivePerSlot, [Next]_registryVars, NEW q, NEW c, ask'[q] = ask[q],
         NEW b \in Binding, Active(b), ~Active(b)', home[b] = Home(q),
         binds[b].agent = ask[q].agent, binds[b].user = ask[q].user,
         binds[b].capability = c
  PROVE  ~Granted(q, c)'
<1> SUFFICES ASSUME Granted(q, c)' PROVE FALSE
  OBVIOUS
<1>1. PICK g \in Binding :
        /\ binds[g].agent = ask[q].agent
        /\ binds[g].user = ask[q].user
        /\ binds[g].capability = c
        /\ \A row \in Joined[g] : Active(row)' /\ home[row] = Home(q)
  BY DEF Granted, Home
<1>2. g \in Joined[g]
  BY DEF Joined
<1>3. Active(g)' /\ home[g] = Home(q)
  BY <1>1, <1>2
<1>4. g # b /\ SameSlot(b, g) /\ ~Active(g)
  BY <1>1, <1>3 DEF SameSlot, OneActivePerSlot, Row
<1>5. \A r \in Row : r \in {b, g} => status'[r] # status[r]
  BY <1>3, <1>4 DEF Active
<1>6. {b, g} \subseteq Row /\ b \notin Secret
  BY DisjointAssumption DEF Row
<1>7. ASSUME NEW r \in Row, NEW st, Create(r, st) \/ SetStatus(r, st) PROVE FALSE
  BY <1>4, <1>5, <1>6, <1>7 DEF Create, SetStatus, TypeOK
<1>8. ASSUME NEW old \in Secret, NEW new \in Secret, RotateSecret(old, new) PROVE FALSE
  BY <1>5, <1>6, <1>8 DEF RotateSecret, TypeOK
<1>9. status' # status
  BY <1>5, <1>6
<1>10. QED
  BY <1>7, <1>8, <1>9 DEF Next, RotateToken, registryVars

-----------------------------------------------------------------------------
(* Steps                                                                   *)

\* What the arguments of a refusal leave in the verdict.
LEMMA RefusalCode ==
  ASSUME RuntimeTypeOK, NEW q \in Request, NEW from, NEW user, NEW app, NEW code,
         Refuse(q, from, user, app, code)
  PROVE  pc[q] = from /\ verdict'[q].code = code
<1>1. verdict'[q] = [user |-> user, app |-> app, decision |-> "deny",
                     outcome |-> "error", usage |-> "denied", code |-> code]
  BY DEF Refuse, Record, RuntimeTypeOK, SessionTypeOK
<1>2. QED
  BY <1>1 DEF Refuse, Goto

\* What the argument of a fault leaves in the verdict.
LEMMA FaultCode ==
  ASSUME RuntimeTypeOK, NEW q \in Request, NEW from, NEW code, Fault(q, from, code)
  PROVE  verdict'[q].code = code
<1>1. verdict'[q] = [user |-> ask[q].user, app |-> AppOf(q), decision |-> "allow",
                     outcome |-> "error", usage |-> "error", code |-> code]
  BY DEF Fault, Record, RuntimeTypeOK, SessionTypeOK
<1>2. QED
  BY <1>1

\* A handler that skips or refuses the capability at hand has found its grant
\* missing, now or, for the binding it holds, since it was read.
LEMMA RejectionDue ==
  ASSUME RefusalInvariant, NEW q \in Request,
         \/ FindBinding(q) /\ Reject(q, "binding")
         \/ CheckDescribe(q) /\ Reject(q, "describe")
         \/ /\ pc[q] = "permit"
            /\ ~RoleGrantsPermission(binds[binding[q]].role, NeededPermission(q))
  PROVE  target[q] \in Capability /\ target[q] \in seen[q].ungranted
<1> USE DEF Stage
<1>1. /\ RuntimeTypeOK /\ OneActivePerSlot /\ LapsesCurrent(q) /\ BindingHeld(q)
      /\ TargetKnown(q)
  BY DEF RefusalInvariant, RecordInvariant, AuthorizationInvariant, RuntimeTypeOK
<1>2. pc \in [Request -> Stage]
  BY <1>1 DEF RuntimeTypeOK, SessionTypeOK
<1>3. pc[q] \in {"binding", "describe", "permit"}
  BY DEF FindBinding, CheckDescribe, Pass, Goto
<1>4. target[q] \in Capability /\ InFlight(q)
  BY <1>1, <1>3 DEF TargetKnown, InFlight
<1>5. ~Granted(q, target[q]) => target[q] \in seen[q].ungranted
  BY <1>1, <1>4 DEF LapsesCurrent
<1>6. CASE FindBinding(q) /\ Reject(q, "binding")
  <2>1. \/ GetActiveBinding(Home(q), ask[q].agent, ask[q].user, target[q]) = {}
        \/ NeededPermission(q) = "none"
    <3>1. pc'[q] # "describe"
      BY <1>2, <1>6 DEF Reject, Pass, Deny, Refuse, Goto
    <3>2. QED
      BY <1>2, <1>6, <3>1 DEF FindBinding, Goto
  <2>2. QED
    BY <1>4, <1>5, <2>1, GrantAnswers DEF NeededPermission
<1>7. CASE CheckDescribe(q) /\ Reject(q, "describe")
  <2>1. pc[q] = "describe" /\ pc'[q] # "permit"
    BY <1>2, <1>7 DEF Reject, Pass, Deny, Refuse, Goto
  <2>2. ~RoleGrantsPermission(binds[binding[q]].role, Describe)
    BY <1>2, <1>7, <2>1 DEF CheckDescribe, Pass, Goto
  <2>3. QED
    BY <1>1, <1>4, <1>5, <2>1, <2>2, GrantByBinding DEF BindingHeld
<1>8. CASE /\ pc[q] = "permit"
           /\ ~RoleGrantsPermission(binds[binding[q]].role, NeededPermission(q))
  BY <1>1, <1>4, <1>5, <1>8, GrantByBinding DEF BindingHeld, NeededPermission
<1>9. QED
  BY <1>4, <1>6, <1>7, <1>8

\* A statement that refuses has found what it names missing, now or, for the
\* binding it holds, since it was read; or no visible capability has the name.
LEMMA RefusalCaused ==
  ASSUME RefusalInvariant, NEW q \in Request, Handle(q), pc'[q] = "record"
  PROVE  CodeExplained(q, verdict'[q].code)
<1>1. /\ RuntimeTypeOK /\ OneActivePerSlot /\ Established(q) /\ TargetKnown(q)
      /\ LapsesCurrent(q) /\ BindingHeld(q) /\ LookedAt(q)
  BY DEF RefusalInvariant, RecordInvariant, AuthorizationInvariant, RuntimeTypeOK
<1>2. /\ pc \in [Request -> Stage] /\ ask[q] \in Ask
      /\ target[q] \in Capability \cup {None}
  BY <1>1 DEF RuntimeTypeOK, SessionTypeOK
<1>3. ASSUME NEW from \in Stage \ {"idle", "done"}, NEW user, NEW app, NEW code,
             Refuse(q, from, user, app, code), CodeExplained(q, code)
      PROVE  CodeExplained(q, verdict'[q].code)
  BY <1>1, <1>3, RefusalCode
<1>4. ASSUME NEW c, c \in {"invalid_capability_input", "adapter_error", "secret_unavailable"}
      PROVE  CodeExplained(q, c)
  BY <1>4 DEF CodeExplained
<1>5. ASSUME target[q] \in Capability, target[q] \in seen[q].ungranted
      PROVE  CodeExplained(q, "capability_denied")
  BY <1>5, InvocationAssumption DEF CodeExplained
<1>6. ASSUME NEW from \in Stage \ {"idle", "done"}, NEW user, NEW app,
             Deny(q, from, user, app), CodeExplained(q, "capability_denied")
      PROVE  CodeExplained(q, verdict'[q].code)
  BY <1>3, <1>6 DEF Deny
<1>7. ASSUME NEW from, NEW code \in {"invalid_capability_input", "adapter_error"},
             Fault(q, from, code)
      PROVE  CodeExplained(q, verdict'[q].code)
  BY <1>1, <1>4, <1>7, FaultCode
<1>8. ASSUME NEW from \in {"binding", "describe", "permit"}, Reject(q, from),
             target[q] \in Capability, target[q] \in seen[q].ungranted
      PROVE  CodeExplained(q, verdict'[q].code)
  <2>1. Deny(q, from, ask[q].user, AppOf(q))
    BY <1>2, <1>8 DEF Reject, Pass, Goto, Stage
  <2>2. QED
    BY <1>5, <1>6, <1>8, <2>1 DEF Stage
<1> USE DEF Stage
<1>9. CASE Authenticate(q)
  BY <1>2, <1>9 DEF Authenticate, Pass, Goto
<1>10. CASE SelectUser(q)
  <2>1. /\ ~(GetUser(Home(q), ask[q].user) /\ (loaded[q] \/ Active(ask[q].user)))
        /\ \E user : Deny(q, "user", user, None)
    BY <1>2, <1>10 DEF SelectUser, Goto
  <2>2. \A c \in Capability : ~Granted(q, c)
    BY <2>1, GrantAnswers
  <2>3. InFlight(q)
    BY <2>1 DEF Deny, Refuse, Goto, InFlight
  <2>4. QED
    BY <1>1, <1>6, <2>1, <2>2, <2>3, NothingGranted
<1>11. CASE ListTools(q) \/ NextTool(q)
  BY <1>2, <1>11 DEF ListTools, NextTool, Pass, Goto
<1>12. CASE ResolveTool(q)
  <2>1. /\ Deny(q, "tool", ask[q].user, None) /\ pending[q] = {}
        /\ \A c \in visible[q] : Tools!ToolNameMap(visible[q])[c] # ask[q].wants
    BY <1>2, <1>12 DEF ResolveTool, Pass, Goto
  <2>2. pc[q] = "tool" /\ target[q] = None
    BY <1>1, <2>1 DEF Deny, Refuse, Goto, TargetKnown
  <2>3. visible[q] \subseteq seen[q].grants /\ Capability \ seen[q].ungranted \subseteq visible[q]
    BY <1>1, <2>1, <2>2 DEF Established, LookedAt
  <2>4. NameLost(q)
    BY <2>1, <2>3 DEF NameLost
  <2>5. QED
    BY <1>6, <2>1, <2>2, <2>4 DEF CodeExplained
<1>13. CASE SelectCapability(q)
  <2>1. /\ pc[q] = "capability" /\ ~GetActiveCapability(Home(q), target[q])
        /\ Deny(q, "capability", ask[q].user, None)
    BY <1>2, <1>13 DEF SelectCapability, Pass, Goto
  <2>2. target[q] \in Capability
    BY <1>1, <2>1 DEF TargetKnown
  <2>3. target[q] \in seen[q].ungranted
    BY <1>1, <2>1, <2>2, GrantAnswers DEF LapsesCurrent, InFlight
  <2>4. QED
    BY <1>5, <1>6, <2>1, <2>2, <2>3
<1>14. CASE CheckApplication(q)
  <2>1. /\ pc[q] = "application" /\ ~Active(AppOf(q))
        /\ Deny(q, "application", ask[q].user, None)
    BY <1>2, <1>14 DEF CheckApplication, Pass, Goto
  <2>2. target[q] \in Capability
    BY <1>1, <2>1 DEF TargetKnown
  <2>3. target[q] \in seen[q].ungranted
    BY <1>1, <2>1, <2>2, GrantAnswers DEF LapsesCurrent, InFlight, AppOf
  <2>4. QED
    BY <1>5, <1>6, <2>1, <2>2, <2>3
<1>15. CASE FindBinding(q)
  <2>1. Reject(q, "binding")
    BY <1>2, <1>15 DEF FindBinding, Goto
  <2>2. QED
    BY <1>8, <1>15, <2>1, RejectionDue
<1>16. CASE CheckDescribe(q)
  <2>1. Reject(q, "describe")
    BY <1>2, <1>16 DEF CheckDescribe, Pass, Goto
  <2>2. QED
    BY <1>8, <1>16, <2>1, RejectionDue
<1>17. CASE CheckInvoke(q)
  <2>1. /\ Reject(q, "permit") /\ pc[q] = "permit"
        /\ ~RoleGrantsPermission(binds[binding[q]].role, NeededPermission(q))
    BY <1>2, <1>17 DEF CheckInvoke, Pass, Goto
  <2>2. QED
    BY <1>8, <2>1, RejectionDue
<1>18. CASE ValidateInput(q)
  BY <1>2, <1>7, <1>18 DEF ValidateInput, Pass, Goto
<1>19. CASE ResolveSecret(q)
  <2>1. /\ pc[q] = "secret" /\ home[target[q]] = Home(q) /\ target[q] \in Capability
    BY <1>1, <1>19 DEF ResolveSecret, Established, TargetKnown
  <2>2. CASE authMode[target[q]] = "admin" /\ Deny(q, "secret", ask[q].user, AppOf(q))
    <3>1. CodeExplained(q, "capability_denied")
      BY <2>1, <2>2, InvocationAssumption DEF CodeExplained
    <3>2. QED
      BY <1>6, <2>2, <3>1
  <2>3. CASE Refuse(q, "secret", ask[q].user, AppOf(q),
               IF UsableSecrets(q) = {} THEN "secret_not_found" ELSE "secret_unavailable")
    <3>1. CASE UsableSecrets(q) = {}
      <4>1. target[q] \in seen[q].unentitled
        BY <1>1, <2>1, <3>1, EntitledIsUsable DEF LapsesCurrent, InFlight
      <4>2. CodeExplained(q, "secret_not_found")
        BY <4>1 DEF CodeExplained
      <4>3. QED
        BY <1>3, <2>3, <3>1, <4>2
    <3>2. CASE UsableSecrets(q) # {}
      BY <1>3, <1>4, <2>3, <3>2
    <3>3. QED
      BY <3>1, <3>2
  <2>4. QED
    BY <1>2, <1>19, <2>2, <2>3 DEF ResolveSecret, Goto
<1>20. CASE RejectByAdapter(q) \/ UpstreamFails(q)
  BY <1>7, <1>20 DEF RejectByAdapter, UpstreamFails
<1>21. CASE AnswerLocally(q) \/ UpstreamSucceeds(q)
  <2>1. verdict'[q] = [user |-> ask[q].user, app |-> AppOf(q), decision |-> "allow",
                       outcome |-> "success", usage |-> "success", code |-> "none"]
    BY <1>1, <1>21 DEF AnswerLocally, UpstreamSucceeds, Record, RuntimeTypeOK, SessionTypeOK
  <2>2. QED
    BY <2>1 DEF CodeExplained
<1>22. CASE SendFirst(q) \/ Resend(q) \/ CommitRecords(q) \/ Respond(q)
  BY <1>2, <1>22 DEF SendFirst, Resend, Send, CommitRecords, Respond, Pass, Goto
<1>23. QED
  BY <1>9, <1>10, <1>11, <1>12, <1>13, <1>14, <1>15, <1>16, <1>17, <1>18, <1>19, <1>20,
     <1>21, <1>22 DEF Handle

\* The binding whose role is about to be asked is the one FindBinding returned.
LEMMA BindingRead ==
  ASSUME RuntimeTypeOK, NEW q \in Request, Arrive(q) \/ Handle(q) \/ Abort(q)
  PROVE  /\ pc'[q] = "describe" =>
              /\ ask'[q] = ask[q] /\ target'[q] = target[q]
              /\ binding'[q] \in GetActiveBinding(Home(q), ask[q].agent, ask[q].user, target[q])
         /\ pc'[q] = "permit" =>
              /\ pc[q] = "describe" /\ ask'[q] = ask[q] /\ target'[q] = target[q]
              /\ binding'[q] = binding[q]
<1> USE DEF RuntimeTypeOK, SessionTypeOK, Goto, Pass, Reject, Refuse, Deny, Fault, Send, lookupVars
<1>1. CASE FindBinding(q)
  BY <1>1 DEF FindBinding
<1>2. CASE CheckDescribe(q)
  BY <1>2 DEF CheckDescribe
<1>3. CASE Arrive(q) \/ Abort(q) \/ Authenticate(q) \/ SelectUser(q)
  BY <1>3 DEF Arrive, Abort, Authenticate, SelectUser
<1>4. CASE ListTools(q) \/ NextTool(q) \/ ResolveTool(q)
  BY <1>4 DEF ListTools, NextTool, ResolveTool
<1>5. CASE SelectCapability(q) \/ CheckApplication(q) \/ CheckInvoke(q)
  BY <1>5 DEF SelectCapability, CheckApplication, CheckInvoke
<1>6. CASE ValidateInput(q) \/ ResolveSecret(q) \/ RejectByAdapter(q) \/ AnswerLocally(q)
  BY <1>6 DEF ValidateInput, ResolveSecret, RejectByAdapter, AnswerLocally
<1>7. CASE SendFirst(q) \/ Resend(q) \/ UpstreamSucceeds(q) \/ UpstreamFails(q)
  BY <1>7 DEF SendFirst, Resend, UpstreamSucceeds, UpstreamFails
<1>8. CASE CommitRecords(q) \/ Respond(q)
  BY <1>8 DEF CommitRecords, Respond
<1>9. QED
  BY <1>1, <1>2, <1>3, <1>4, <1>5, <1>6, <1>7, <1>8 DEF Handle

\* Before authentication only that statement can run.
LEMMA OnlyAuthenticateAtAuth ==
  ASSUME NEW q, pc[q] = "auth", Handle(q)
  PROVE  Authenticate(q)
<1> USE DEF Goto, Pass, Reject, Refuse, Deny, Fault, Send
<1>1. ~(SelectUser(q) \/ ListTools(q) \/ NextTool(q) \/ ResolveTool(q))
  BY DEF SelectUser, ListTools, NextTool, ResolveTool
<1>2. ~(SelectCapability(q) \/ CheckApplication(q))
  BY DEF SelectCapability, CheckApplication
<1>3. ~(FindBinding(q) \/ CheckDescribe(q) \/ CheckInvoke(q) \/ ValidateInput(q))
  BY DEF FindBinding, CheckDescribe, CheckInvoke, ValidateInput
<1>4. ~(ResolveSecret(q) \/ RejectByAdapter(q) \/ AnswerLocally(q) \/ SendFirst(q))
  BY DEF ResolveSecret, RejectByAdapter, AnswerLocally, SendFirst
<1>5. ~(Resend(q) \/ UpstreamSucceeds(q) \/ UpstreamFails(q) \/ CommitRecords(q) \/ Respond(q))
  BY DEF Resend, UpstreamSucceeds, UpstreamFails, CommitRecords, Respond
<1>6. QED
  BY <1>1, <1>2, <1>3, <1>4, <1>5 DEF Handle

\* The lookup keeps account of every capability: still to be looked at, visible,
\* at hand, or found without a grant.
LEMMA LookupKept ==
  ASSUME RefusalInvariant, NEW q \in Request, Arrive(q) \/ Handle(q) \/ Abort(q), Fades(q)
  PROVE  LookedAt(q)'
<1> USE DEF Stage
<1>1. /\ RuntimeTypeOK /\ LapsesCurrent(q) /\ LookedAt(q) /\ TargetKnown(q)
  BY DEF RefusalInvariant, RecordInvariant, AuthorizationInvariant, RuntimeTypeOK
<1>2. /\ pc \in [Request -> Stage] /\ phase \in [Request -> Phase]
      /\ target \in [Request -> Capability \cup {None}]
      /\ pending \in [Request -> SUBSET Capability]
      /\ visible \in [Request -> SUBSET Capability]
  BY <1>1 DEF RuntimeTypeOK, SessionTypeOK
<1>3. seen[q].ungranted \subseteq seen'[q].ungranted
  BY DEF Fades
<1>4. ASSUME pc'[q] \notin {"tool", "binding", "describe", "permit"} PROVE LookedAt(q)'
  BY <1>4 DEF LookedAt
<1>5. ASSUME pc'[q] = "binding", phase'[q] = "invoke" PROVE LookedAt(q)'
  BY <1>5 DEF LookedAt
<1>6. ASSUME NEW from, NEW user, NEW app, NEW code,
             Refuse(q, from, user, app, code) \/ Fault(q, from, code)
      PROVE  LookedAt(q)'
  BY <1>2, <1>4, <1>6 DEF Refuse, Fault, Goto
<1>7. ASSUME NEW from \in {"binding", "describe", "permit"}, Reject(q, from),
             target[q] \in Capability, target[q] \in seen[q].ungranted
      PROVE  LookedAt(q)'
  <2>1. CASE Deny(q, from, ask[q].user, AppOf(q))
    BY <1>6, <2>1 DEF Deny
  <2>2. CASE ~Deny(q, from, ask[q].user, AppOf(q))
    <3>1. /\ phase[q] = "tools" /\ pc[q] = from /\ pc'[q] = "tool"
          /\ UNCHANGED <<pending, visible>>
      BY <1>2, <1>7, <2>2 DEF Reject, Pass, Goto
    <3>2. QED
      BY <1>1, <1>3, <1>7, <3>1 DEF LookedAt
  <2>3. QED
    BY <2>1, <2>2
<1>8. ASSUME pc[q] \in {"binding", "describe"}, pc'[q] \in {"describe", "permit"},
             UNCHANGED lookupVars
      PROVE  LookedAt(q)'
  BY <1>1, <1>3, <1>8 DEF LookedAt, lookupVars
<1>9. CASE Arrive(q) \/ Abort(q) \/ Authenticate(q)
  BY <1>2, <1>4, <1>9 DEF Arrive, Abort, Authenticate, Pass, Goto
<1>10. CASE SelectUser(q)
  BY <1>2, <1>4, <1>10 DEF SelectUser, Deny, Refuse, Goto
<1>11. CASE ListTools(q)
  <2>1. /\ pc[q] = "tools" /\ pc'[q] = "tool" /\ visible' = visible
        /\ pending'[q] =
             {c \in Capability : ListsCapability(Home(q), ask[q].agent, ask[q].user, c)}
    BY <1>2, <1>11 DEF ListTools, Pass, Goto
  <2>2. \A c \in Capability \ pending'[q] : c \in seen[q].ungranted
    BY <1>1, <2>1, GrantAnswers DEF LapsesCurrent, InFlight
  <2>3. QED
    BY <1>3, <2>1, <2>2 DEF LookedAt
<1>12. CASE NextTool(q)
  <2>1. PICK c \in pending[q] : /\ target'[q] = c /\ pending'[q] = pending[q] \ {c}
    BY <1>2, <1>12 DEF NextTool
  <2>2. pc[q] = "tool" /\ pc'[q] = "binding" /\ visible' = visible
    BY <1>2, <1>12 DEF NextTool, Pass, Goto
  <2>3. QED
    BY <1>1, <1>3, <2>1, <2>2 DEF LookedAt
<1>13. CASE ResolveTool(q)
  <2>1. CASE Deny(q, "tool", ask[q].user, None)
    BY <1>6, <2>1 DEF Deny
  <2>2. CASE ~Deny(q, "tool", ask[q].user, None)
    <3>1. Pass(q, "tool", "user")
      BY <1>13, <2>2 DEF ResolveTool
    <3>2. QED
      BY <1>2, <1>4, <3>1 DEF Pass, Goto
  <2>3. QED
    BY <2>1, <2>2
<1>14. CASE SelectCapability(q)
  BY <1>2, <1>4, <1>14 DEF SelectCapability, Pass, Deny, Refuse, Goto
<1>15. CASE CheckApplication(q)
  <2>1. CASE Deny(q, "application", ask[q].user, None)
    BY <1>6, <2>1 DEF Deny
  <2>2. CASE ~Deny(q, "application", ask[q].user, None)
    <3>1. pc[q] = "application" /\ pc'[q] = "binding" /\ UNCHANGED lookupVars
      BY <1>2, <1>15, <2>2 DEF CheckApplication, Pass, Goto
    <3>2. QED
      BY <1>1, <1>5, <3>1 DEF TargetKnown, lookupVars
  <2>3. QED
    BY <2>1, <2>2
<1>16. CASE FindBinding(q)
  <2>1. CASE Reject(q, "binding")
    BY <1>7, <1>16, <2>1, RejectionDue
  <2>2. CASE ~Reject(q, "binding")
    <3>1. pc[q] = "binding" /\ pc'[q] = "describe" /\ UNCHANGED lookupVars
      BY <1>2, <1>16, <2>2 DEF FindBinding, Goto
    <3>2. QED
      BY <1>8, <3>1
  <2>3. QED
    BY <2>1, <2>2
<1>17. CASE CheckDescribe(q)
  <2>1. CASE Reject(q, "describe")
    BY <1>7, <1>17, <2>1, RejectionDue
  <2>2. CASE ~Reject(q, "describe")
    <3>1. pc[q] = "describe" /\ pc'[q] = "permit" /\ UNCHANGED lookupVars
      BY <1>2, <1>17, <2>2 DEF CheckDescribe, Pass, Goto
    <3>2. QED
      BY <1>8, <3>1
  <2>3. QED
    BY <2>1, <2>2
<1>18. CASE CheckInvoke(q)
  <2> DEFINE missing == ~RoleGrantsPermission(binds[binding[q]].role, NeededPermission(q))
  <2>1. CASE missing
    <3>1. pc[q] = "permit" /\ Reject(q, "permit")
      BY <1>18, <2>1 DEF CheckInvoke
    <3>2. QED
      BY <1>7, <2>1, <3>1, RejectionDue
  <2>2. CASE ~missing /\ phase[q] = "tools"
    <3>1. /\ pc[q] = "permit" /\ pc'[q] = "tool" /\ pending' = pending
          /\ visible'[q] = visible[q] \cup {target[q]}
      BY <1>2, <1>18, <2>2 DEF CheckInvoke, Pass, Goto
    <3>2. QED
      BY <1>1, <1>3, <2>2, <3>1 DEF LookedAt
  <2>3. CASE ~missing /\ phase[q] # "tools"
    BY <1>2, <1>4, <1>18, <2>3 DEF CheckInvoke, Pass, Goto
  <2>4. QED
    BY <2>1, <2>2, <2>3
<1>19. CASE ValidateInput(q) \/ ResolveSecret(q)
  BY <1>2, <1>4, <1>19 DEF ValidateInput, ResolveSecret, Pass, Deny, Refuse, Fault, Goto
<1>20. CASE RejectByAdapter(q) \/ AnswerLocally(q) \/ SendFirst(q) \/ Resend(q)
  BY <1>2, <1>4, <1>20 DEF RejectByAdapter, AnswerLocally, SendFirst, Resend, Send, Fault, Goto
<1>21. CASE UpstreamSucceeds(q) \/ UpstreamFails(q) \/ CommitRecords(q) \/ Respond(q)
  BY <1>2, <1>4, <1>21 DEF UpstreamSucceeds, UpstreamFails, CommitRecords, Respond, Pass,
     Fault, Goto
<1>22. QED
  BY <1>9, <1>10, <1>11, <1>12, <1>13, <1>14, <1>15, <1>16, <1>17, <1>18, <1>19, <1>20,
     <1>21 DEF Handle

\* A handler leaves its own refusals explained.
LEMMA HandlerExplains ==
  ASSUME RefusalInvariant, NEW q \in Request, Runtime(q)
  PROVE  BindingHeld(q)' /\ LookedAt(q)' /\ RefusalExplained(q)'
<1>1. /\ RuntimeTypeOK /\ Filed(q) /\ LapsesCurrent(q) /\ BindingHeld(q)
      /\ RefusalExplained(q)
  BY DEF RefusalInvariant, RecordInvariant, AuthorizationInvariant
<1>2. Grows(q) /\ Fades(q)
  BY <1>1, LapsesGrow, WitnessGrows DEF Runtime, RuntimeTypeOK
<1>3. \A b : Active(b)' <=> Active(b)
  BY DEF Runtime, registryVars, Active
<1>4. \/ Arrives(q) \/ Advances(q) \/ Sends(q) \/ Concludes(q) \/ Commits(q) \/ Ends(q)
  BY <1>1, HandlerEffect DEF Runtime
<1>5. BindingHeld(q)'
  <2>1. CASE pc'[q] = "describe"
    <3>1. /\ ask'[q] = ask[q] /\ target'[q] = target[q]
          /\ binding'[q] \in GetActiveBinding(Home(q), ask[q].agent, ask[q].user, target[q])
      BY <1>1, <2>1, BindingRead DEF Runtime
    <3>2. QED
      BY <1>3, <3>1 DEF GetActiveBinding, BindingHeld, Home
  <2>2. CASE pc'[q] = "permit"
    <3>1. /\ pc[q] = "describe" /\ ask'[q] = ask[q] /\ target'[q] = target[q]
          /\ binding'[q] = binding[q]
      BY <1>1, <2>2, BindingRead DEF Runtime
    <3>2. QED
      BY <1>1, <1>2, <1>3, <3>1 DEF BindingHeld, Home, Fades
  <2>3. QED
    BY <2>1, <2>2 DEF BindingHeld
<1>6. LookedAt(q)'
  BY <1>2, LookupKept DEF Runtime
<1>7. ASSUME NEW code, CodeExplained(q, code), Keeps(q), ask'[q] = ask[q]
      PROVE  CodeExplained(q, code)'
  BY <1>2, <1>7, ExplainedForGood
<1>8. ASSUME pc[q] \notin {"respond", "done"}
      PROVE  audit[q] = <<>> /\ reply[q] = "none"
  BY <1>1, <1>8 DEF Filed
<1>9. CASE Arrives(q) \/ Advances(q) \/ Sends(q)
  <2>1. /\ pc[q] \notin {"respond", "done"} /\ pc'[q] # "record"
        /\ audit'[q] = audit[q] /\ reply'[q] = reply[q]
    BY <1>9 DEF Arrives, Advances, Sends, Quiet
  <2>2. QED
    BY <1>5, <1>6, <1>8, <2>1 DEF RefusalExplained
<1>10. CASE Concludes(q)
  <2>1. Handle(q)
    BY <1>1, <1>10 DEF Runtime, Concludes, Arrive, Abort, Goto, RuntimeTypeOK, SessionTypeOK
  <2>2. CodeExplained(q, verdict'[q].code)
    BY <1>10, <2>1, RefusalCaused DEF Concludes
  <2>3. /\ pc[q] \notin {"respond", "done"} /\ Keeps(q) /\ ask'[q] = ask[q]
        /\ audit'[q] = audit[q] /\ reply'[q] = reply[q]
    BY <1>10 DEF Concludes
  <2>4. \A code : code = verdict'[q].code => CodeExplained(q, code)'
    BY <1>7, <2>2, <2>3
  <2>5. QED
    BY <1>5, <1>6, <1>8, <2>3, <2>4 DEF RefusalExplained
<1>11. CASE Commits(q)
  <2>1. AuditRow(q).code = verdict[q].code
    BY DEF AuditRow
  <2>2. audit'[q][1].code = verdict[q].code /\ DOMAIN audit'[q] = {1}
    BY <1>1, <1>11, <2>1, CommittedRows
  <2>3. CodeExplained(q, verdict[q].code)
    BY <1>1, <1>11 DEF Commits, RefusalExplained
  <2>4. CodeExplained(q, verdict[q].code)'
    BY <1>7, <1>11, <2>3 DEF Commits
  <2>5. pc[q] = "record" /\ pc'[q] = "respond" /\ reply'[q] = reply[q]
        /\ verdict'[q] = verdict[q]
    BY <1>11 DEF Commits
  <2>6. QED
    BY <1>5, <1>6, <1>8, <2>2, <2>4, <2>5 DEF RefusalExplained
<1>12. CASE Ends(q)
  <2>1. pc[q] = "auth" /\ reply'[q] = "unauthenticated" => seen[q].lapsed
    <3> SUFFICES ASSUME pc[q] = "auth", reply'[q] = "unauthenticated"
                 PROVE  seen[q].lapsed
      OBVIOUS
    <3>1. InFlight(q)
      BY DEF InFlight
    <3>2. ~Arrive(q) /\ ~Abort(q)
      BY <1>1 DEF Arrive, Abort, Goto, RuntimeTypeOK, RecordTypeOK
    <3>3. Authenticate(q)
      BY <3>2, OnlyAuthenticateAtAuth DEF Runtime
    <3>4. reply[q] # "unauthenticated"
      BY <1>1 DEF Filed
    <3>5. ~TokenCurrent(q)
      BY <3>3, <3>4 DEF Authenticate, recordVars
    <3>6. QED
      BY <1>1, <3>1, <3>5 DEF LapsesCurrent
  <2>2. /\ pc'[q] = "done" /\ Keeps(q) /\ ask'[q] = ask[q] /\ audit'[q] = audit[q]
        /\ reply'[q] = "unauthenticated" => pc[q] = "auth"
    BY <1>12 DEF Ends
  <2>3. \A i \in DOMAIN audit[q] : CodeExplained(q, audit[q][i].code)'
    BY <1>1, <1>7, <2>2 DEF RefusalExplained
  <2>4. QED
    BY <1>2, <1>5, <1>6, <2>1, <2>2, <2>3 DEF RefusalExplained, Fades
<1>13. QED
  BY <1>4, <1>9, <1>10, <1>11, <1>12

\* The steps of everybody else keep them explained.
LEMMA OthersExplain ==
  ASSUME RefusalInvariant, NEW q \in Request, [Next]_registryVars, Witness,
         pc'[q] = pc[q], ask'[q] = ask[q], binding'[q] = binding[q],
         verdict'[q] = verdict[q], audit'[q] = audit[q], reply'[q] = reply[q],
         target'[q] = target[q], phase'[q] = phase[q],
         pending'[q] = pending[q], visible'[q] = visible[q]
  PROVE  BindingHeld(q)' /\ LookedAt(q)' /\ RefusalExplained(q)'
<1>1. /\ RuntimeTypeOK /\ BindingHeld(q) /\ LookedAt(q) /\ RefusalExplained(q)
      /\ OneActivePerSlot /\ TargetKnown(q)
  BY DEF RefusalInvariant, RecordInvariant, AuthorizationInvariant, RuntimeTypeOK
<1>2. LapsesCurrent(q)' /\ Fades(q) /\ Grows(q) /\ Keeps(q)
  BY <1>1, LapsesGrow, WitnessGrows DEF RuntimeTypeOK, Keeps
<1>3. ASSUME NEW code, CodeExplained(q, code) PROVE CodeExplained(q, code)'
  BY <1>2, <1>3, ExplainedForGood
<1>4. RefusalExplained(q)'
  BY <1>1, <1>2, <1>3 DEF RefusalExplained, Fades
<1>5. LookedAt(q)'
  BY <1>1, <1>2 DEF LookedAt, Fades
<1>6. BindingHeld(q)'
  <2>1. SUFFICES ASSUME pc[q] \in {"describe", "permit"}, target[q] \notin seen'[q].ungranted
                 PROVE  /\ Active(binding[q])' /\ binding[q] \in Binding
                        /\ home[binding[q]] = Home(q)
                        /\ binds[binding[q]].agent = ask[q].agent
                        /\ binds[binding[q]].user = ask[q].user
                        /\ binds[binding[q]].capability = target[q]
    BY DEF BindingHeld, Home, Active
  <2>2. /\ binding[q] \in Binding /\ Active(binding[q])
        /\ home[binding[q]] = Home(q)
        /\ binds[binding[q]].agent = ask[q].agent
        /\ binds[binding[q]].user = ask[q].user
        /\ binds[binding[q]].capability = target[q]
    BY <1>1, <1>2, <2>1 DEF BindingHeld, Fades
  <2>3. target[q] \in Capability
    BY <1>1, <2>1 DEF TargetKnown
  <2>4. Granted(q, target[q])'
    BY <1>2, <2>1, <2>3 DEF LapsesCurrent, InFlight
  <2>5. QED
    BY <1>1, <2>2, <2>4, BindingLost DEF RuntimeTypeOK
<1>7. QED
  BY <1>4, <1>5, <1>6

\* The invariant is inductive.
LEMMA RefusalStep == RefusalInvariant /\ [RuntimeNext]_vars => RefusalInvariant'
<1> SUFFICES ASSUME RefusalInvariant, [RuntimeNext]_vars PROVE RefusalInvariant'
  OBVIOUS
<1>1. RecordInvariant' /\ RuntimeTypeOK /\ OneActivePerSlot
  BY RecordStep DEF RefusalInvariant, RecordInvariant, AuthorizationInvariant
<1>2. [Next]_registryVars
  BY DEF RuntimeNext, Runtime, Administer, vars
<1>3. OneActivePerSlot'
  BY <1>1, <1>2, SlotStep DEF RuntimeTypeOK
<1>4. CASE UNCHANGED vars
  <2>1. ASSUME NEW q \in Request
        PROVE  /\ TokenCurrent(q)' <=> TokenCurrent(q)
               /\ Home(q)' = Home(q)
               /\ \A r : Active(r)' <=> Active(r)
    BY <1>4 DEF vars, registryVars, sessionVars, TokenCurrent, Home,
       GetActiveAgentByToken, Active
  <2>2. ASSUME NEW q \in Request, NEW c \in Capability
        PROVE  (Granted(q, c)' <=> Granted(q, c)) /\ Entitled(q, c)' = Entitled(q, c)
    BY <1>4, <2>1 DEF vars, sessionVars, Granted, Entitled
  <2>3. ASSUME NEW q \in Request
        PROVE  (LapsesCurrent(q) /\ BindingHeld(q) /\ LookedAt(q) /\ RefusalExplained(q))'
    <3>1. /\ LapsesCurrent(q) /\ BindingHeld(q) /\ LookedAt(q) /\ RefusalExplained(q)
      BY DEF RefusalInvariant
    <3>2. LapsesCurrent(q)'
      BY <1>4, <2>1, <2>2, <3>1 DEF vars, sessionVars, LapsesCurrent, InFlight
    <3>3. BindingHeld(q)' /\ LookedAt(q)'
      BY <1>4, <2>1, <3>1 DEF vars, sessionVars, lookupVars, BindingHeld, LookedAt
    <3>4. RefusalExplained(q)'
      BY <1>4, <3>1 DEF vars, sessionVars, lookupVars, recordVars, RefusalExplained,
         CodeExplained, NameLost
    <3>5. QED
      BY <3>2, <3>3, <3>4
  <2>4. QED
    BY <1>1, <1>3, <2>3 DEF RefusalInvariant
<1>5. CASE ~UNCHANGED vars
  <2>1. Witness
    BY <1>5 DEF RuntimeNext, Runtime, Administer
  <2>2. ASSUME NEW q \in Request
        PROVE  BindingHeld(q)' /\ LookedAt(q)' /\ RefusalExplained(q)'
    <3>1. CASE Runtime(q)
      BY <3>1, HandlerExplains
    <3>2. ASSUME NEW p \in Request \ {q}, Runtime(p)
          PROVE  BindingHeld(q)' /\ LookedAt(q)' /\ RefusalExplained(q)'
      <4>1. /\ pc'[q] = pc[q] /\ ask'[q] = ask[q] /\ binding'[q] = binding[q]
            /\ verdict'[q] = verdict[q] /\ audit'[q] = audit[q] /\ reply'[q] = reply[q]
            /\ phase'[q] = phase[q] /\ target'[q] = target[q]
            /\ pending'[q] = pending[q] /\ visible'[q] = visible[q]
        BY <1>1, <3>2, HandlersApart DEF Runtime
      <4>2. QED
        BY <1>2, <2>1, <4>1, OthersExplain
    <3>3. CASE Administer
      BY <1>2, <2>1, <3>3, OthersExplain DEF Administer, sessionVars, lookupVars, recordVars
    <3>4. QED
      BY <1>5, <3>1, <3>2, <3>3 DEF RuntimeNext
  <2>3. \A q \in Request : LapsesCurrent(q)'
    BY <1>1, <2>1, LapsesGrow DEF RuntimeTypeOK
  <2>4. QED
    BY <1>1, <1>3, <2>2, <2>3 DEF RefusalInvariant
<1>6. QED
  BY <1>4, <1>5

\* No request has been refused at first.
LEMMA RefusalInit == RuntimeInit => RefusalInvariant
<1> SUFFICES ASSUME RuntimeInit PROVE RefusalInvariant
  OBVIOUS
<1>1. RecordInvariant /\ OneActivePerSlot
  BY RecordInit, SlotInit DEF RuntimeInit
<1>2. ASSUME NEW q \in Request
      PROVE  LapsesCurrent(q) /\ BindingHeld(q) /\ LookedAt(q) /\ RefusalExplained(q)
  <2>1. pc[q] = "idle" /\ audit[q] = <<>> /\ reply[q] = "none"
    BY DEF RuntimeInit
  <2>2. QED
    BY <2>1 DEF LapsesCurrent, InFlight, BindingHeld, LookedAt, RefusalExplained
<1>3. QED
  BY <1>1, <1>2 DEF RefusalInvariant

\* No caller is refused whose token, grant and secret held throughout the call,
\* unless the tool name it kept stands for nothing among capabilities granted to
\* it, for any registry, any names, any number of requests and any interleaving.
THEOREM RefusalsAreDue == RuntimeSpec => []RefusedOnlyIfLapsed
<1>1. RefusalInvariant => RefusedOnlyIfLapsed
  BY DEF RefusalInvariant, RefusalExplained, CodeExplained, RefusedOnlyIfLapsed
<1>2. QED
  BY <1>1, RefusalInit, RefusalStep, PTL DEF RuntimeSpec

=============================================================================
