------------------------------ MODULE DemoSeed ------------------------------
(***************************************************************************)
(* The demo seeding command (cli/demo_workflow.py): over the Admin API it  *)
(* looks for each demo object and creates the ones that are missing, then  *)
(* rewrites the file that keeps the agent's token.  It may stop anywhere,  *)
(* a request it gave up may still be executed, other admins work beside    *)
(* it, and it is run again over whatever that has left.                    *)
(*                                                                         *)
(* The objects are rows of Registry.  Natural keys are unique whatever the *)
(* status of a row, bindings and secrets compete for a slot while active.  *)
(***************************************************************************)
EXTENDS Registry, Sequences

CONSTANTS
  named,      \* the rows that would carry the demo's slug or id, per item
  rank,       \* the order of the rows' ids
  Needed,     \* DEFAULT_ROLE_PERMISSIONS
  Touched,    \* bound: rows that other admins create or change
  MaxMeddling, \* bound: steps of other admins
  MaxRuns,    \* bound: runs of the commands
  None

Items == <<"workspace", "application", "user", "capability", "role", "agent", "binding", "secret">>

Item == {Items[i] : i \in 1 .. 8}

KeyedItem == Item \ {"binding", "secret"}

\* The table that an item is looked for in.
Table == [workspace |-> Workspace, application |-> App, user |-> User,
          capability |-> Capability, role |-> Role, agent |-> Agent]

\* The named rows are those of the demo's workspace, capabilities apart, whose
\* ids are global.  There is one agent, and a behaviour starts from natural keys
\* that are unique.
ASSUME DemoAssumption ==
  /\ named \in [KeyedItem -> SUBSET Row]
  /\ \A i \in KeyedItem : \A r \in named[i] :
       r \in Table[i] /\ (i # "capability" => home[r] \in named["workspace"])
  /\ \A i, j \in KeyedItem : i # j => Table[i] \cap Table[j] = {}
  /\ \E a \in Agent : named["agent"] = {a}
  /\ \A st \in Seed, i \in KeyedItem : \A r, s \in named[i] :
       st[r] # "absent" /\ st[s] # "absent" => r = s
  /\ rank \in [Row -> Nat]
  /\ Touched \subseteq Row
  /\ MaxMeddling \in Nat /\ MaxRuns \in Nat
  /\ None \notin Row \cup Nat

VARIABLES
  stage,    \* where the run is
  at,       \* index of the item it works on
  found,    \* the row it has found or created for an item
  passed,   \* DEMO_AGENT_TOKEN in its environment
  token,    \* the agent token of its result
  file,     \* DEMO_AGENT_TOKEN in .grantora-demo.env
  late,     \* rows that requests given up may still insert
  runs,
  meddled,  \* steps of other admins so far
  faulted,  \* history: the run failed because of a fault
  disturbed, \* history: something else changed a row during the run
  entitled, \* history: the run was passed, or issued, the agent's token
  cut       \* history: the run stopped while it rewrote the file

demoVars == <<stage, at, found, passed, token, file, late, runs, meddled,
              faulted, disturbed, entitled, cut>>

historyVars == <<disturbed, entitled, cut>>
otherVars == <<late, runs, meddled>>

-----------------------------------------------------------------------------
(* What the command looks for.  Operators named ...Mistake are wrong on    *)
(* purpose and no part of the model.                                       *)

Running == stage \notin {"idle", "done", "failed"}

\* A row is as the command would create it, its natural key aside.
Suits(r) ==
  /\ r \in Capability => /\ appOf[r] \in named["application"]
                         /\ riskClass[r] = "read_only" /\ authMode[r] = "user"
  /\ r \in Role => Needed \subseteq permissions[r]

\* The rows that belong to item i of this run.
Demo(i) ==
  CASE i = "workspace" -> named[i]
    [] i = "binding" ->
         {b \in Binding :
            /\ home[b] = found["workspace"]
            /\ binds[b] = [agent |-> found["agent"], user |-> found["user"],
                           capability |-> found["capability"], role |-> found["role"]]}
    [] i = "secret" ->
         {s \in Secret : /\ home[s] = found["workspace"]
                         /\ holds[s] = [app |-> found["application"], owner |-> found["user"]]}
    [] OTHER -> {r \in named[i] : home[r] = found["workspace"]}

KeyedOnlyMistake(i) == {r \in Demo(i) : i \in KeyedItem /\ Exists(r)}

\* What the list endpoint answers: only secrets are asked for while active.
Listed(i) ==
  {r \in Demo(i) : IF i = "secret" THEN Active(r) ELSE Exists(r)}

First(S) == CHOOSE r \in S : \A s \in S : rank[r] <= rank[s]

\* The rows that the command could create.
Fresh(i) ==
  {r \in Demo(i) : /\ Suits(r) /\ ~Exists(r)
                   /\ r \in Capability => appOf[r] = found["application"]}

\* The rows with the key of a new one: a slug is unique in its workspace, the id
\* of a capability in all of them.
Rivals(i) == IF i = "capability" THEN named[i] ELSE Demo(i)

\* The unique index has no room for a new row.
Taken(i) ==
  \/ i \in KeyedItem /\ \E r \in Rivals(i) : Exists(r)
  \/ \E r \in Demo(i) : i \notin KeyedItem /\ ~SlotFree(r, {})

-----------------------------------------------------------------------------
(* A run                                                                   *)

Begin(t) ==
  /\ ~Running
  /\ runs < MaxRuns
  /\ stage' = "find"
  /\ at' = 1
  /\ found' = [i \in Item |-> None]
  /\ passed' = t
  /\ token' = None
  /\ runs' = runs + 1
  /\ faulted' = FALSE /\ disturbed' = FALSE /\ cut' = FALSE
  /\ entitled' = \E a \in named["agent"] : Exists(a) /\ generation[a] = t
  /\ UNCHANGED <<registryVars, file, late, meddled>>

IdForTokenMistake(r, t) ==
  /\ found' = [found EXCEPT ![Items[at]] = r]
  /\ token' = IF r \in Agent THEN r ELSE token
  /\ at' = at + 1
  /\ stage' = IF at = Len(Items) THEN "seeded" ELSE "find"
  /\ UNCHANGED <<passed, file, otherVars, disturbed, cut, faulted>>

\* The next item, with the row found for this one.
Take(r, t) ==
  /\ found' = [found EXCEPT ![Items[at]] = r]
  /\ token' = IF r \in Agent THEN t ELSE token
  /\ at' = at + 1
  /\ stage' = IF at = Len(Items) THEN "seeded" ELSE "find"
  /\ UNCHANGED <<passed, file, otherVars, disturbed, cut, faulted>>

\* WorkflowError: the command ends with status 1.
Refuse ==
  /\ stage' = "failed"
  /\ UNCHANGED <<registryVars, at, found, passed, token, file, otherVars, faulted, historyVars>>

AnyStatusMistake(r) == Suits(r)

Usable(r) == Active(r) /\ Suits(r)

TokenDroppedMistake ==
  /\ stage = "find"
  /\ LET S == Listed(Items[at])
     IN  \/ S = {} /\ stage' = "post"
            /\ UNCHANGED <<at, found, passed, token, file, otherVars, faulted, disturbed, cut>>
         \/ S # {} /\ Usable(First(S)) /\ Take(First(S), None)
  /\ UNCHANGED <<registryVars, entitled>>

\* GET of a list; a row that is there is reused, with the token passed in.
Find ==
  /\ stage = "find"
  /\ LET S == Listed(Items[at])
     IN  \/ S = {} /\ stage' = "post"
            /\ UNCHANGED <<at, found, passed, token, file, otherVars, faulted, disturbed, cut>>
         \/ S # {} /\ Usable(First(S)) /\ Take(First(S), passed)
  /\ UNCHANGED <<registryVars, entitled>>

FindUnusable ==
  /\ stage = "find"
  /\ LET S == Listed(Items[at]) IN S # {} /\ ~Usable(First(S))
  /\ Refuse

\* The create handler has found the workspace and the parents active.
Accepted(r) == \A p \in (References(r) \cup {home[r]}) \ {r} : Active(p)

Post ==
  /\ stage = "post"
  /\ \E r \in Fresh(Items[at]) :
       stage' = IF Accepted(r) THEN "sent" ELSE "failed"
  /\ UNCHANGED <<registryVars, at, found, passed, token, file, otherVars, faulted, historyVars>>

\* The row is committed and the answer received, with an agent's token.
Created ==
  /\ stage = "sent"
  /\ ~Taken(Items[at])
  /\ \E r \in Fresh(Items[at]) :
       /\ Create(r, "active")
       /\ Take(r, IF r \in Agent THEN generation[r] ELSE None)
       /\ entitled' = (entitled \/ r \in Agent)

Conflict ==
  /\ stage \in {"post", "sent"}
  /\ Taken(Items[at])
  /\ Refuse

\* The token file is opened, which empties it, then written.
Rewrite ==
  /\ stage = "seeded"
  /\ stage' = "rewrite"
  /\ file' = None
  /\ UNCHANGED <<registryVars, at, found, passed, token, otherVars, faulted, historyVars>>

Fill ==
  /\ stage = "rewrite"
  /\ stage' = "written"
  /\ file' = token
  /\ UNCHANGED <<registryVars, at, found, passed, token, otherVars, faulted, historyVars>>

Complete ==
  /\ stage = "written"
  /\ stage' = "done"
  /\ UNCHANGED <<registryVars, at, found, passed, token, file, otherVars, faulted, historyVars>>

\* Stopped, timed out, disconnected or refused by a failing server: what it has
\* sent may be executed all the same.
Fault ==
  /\ Running
  /\ stage' = "failed"
  /\ faulted' = TRUE
  /\ cut' = (stage = "rewrite")
  /\ IF stage = "sent"
     THEN \E r \in Fresh(Items[at]) : late' = late \cup {r}
     ELSE UNCHANGED late
  /\ UNCHANGED <<registryVars, at, found, passed, token, file, runs, meddled, disturbed, entitled>>

-----------------------------------------------------------------------------
(* The others                                                              *)

Disturb ==
  /\ disturbed' = TRUE
  /\ UNCHANGED <<stage, at, found, passed, token, file, runs, faulted, entitled, cut>>

\* No other row has the natural key of r.
KeyFree(r) ==
  \A i \in KeyedItem : r \in named[i] => \A s \in named[i] \ {r} : ~Exists(s)

\* A request given up is executed after all, or never.
Late(r) ==
  /\ r \in late
  /\ late' = late \ {r}
  /\ \/ KeyFree(r) /\ Create(r, "active") /\ Disturb
     \/ UNCHANGED <<registryVars, stage, at, found, passed, token, file, runs,
                    faulted, historyVars>>
  /\ UNCHANGED meddled

Meddle ==
  /\ meddled < MaxMeddling
  /\ meddled' = meddled + 1
  /\ \E r \in Touched :
       \/ \E st \in {"active", "inactive"} :
            \/ KeyFree(r) /\ Create(r, st)
            \/ status[r] # st /\ SetStatus(r, st)
       \/ r \in Agent /\ RotateToken(r)
  /\ Disturb
  /\ UNCHANGED late

DemoInit ==
  /\ Init
  /\ stage = "idle" /\ at = 1
  /\ found = [i \in Item |-> None]
  /\ passed = None /\ token = None /\ file = None
  /\ late = {} /\ runs = 0 /\ meddled = 0
  /\ faulted = FALSE /\ disturbed = FALSE /\ entitled = FALSE /\ cut = FALSE

\* One step of the command, up to the file.
SeedStep == Find \/ FindUnusable \/ Post \/ Created \/ Conflict \/ Rewrite \/ Fill

-----------------------------------------------------------------------------
(* Properties                                                              *)

DemoTypeOK ==
  /\ TypeOK
  /\ stage \in {"idle", "find", "post", "sent", "seeded", "rewrite", "written", "done", "failed"}
  /\ at \in 1 .. Len(Items) + 1
  /\ found \in [Item -> Row \cup {None}]
  /\ {passed, token, file} \subseteq Nat \cup {None}
  /\ late \subseteq Row
  /\ runs \in 0 .. MaxRuns /\ meddled \in 0 .. MaxMeddling
  /\ {faulted, disturbed, entitled, cut} \subseteq BOOLEAN

\* The runtime queries of an invocation of the demo capability by the demo
\* agent and user, asked as the smoke command asks them.
Invocable ==
  LET w == found["workspace"]  a == found["agent"]
      u == found["user"]       c == found["capability"]
  IN  /\ ListsCapability(w, a, u, c)
      /\ \E b \in GetActiveBinding(w, a, u, c) :
           \A code \in Needed : RoleGrantsPermission(binds[b].role, code)
      /\ \A b \in GetActiveBinding(w, a, u, c) : Needed \subseteq permissions[binds[b].role]
      /\ GetActiveSecret(w, found["application"], u) # {}

\* When the seeding completes, whatever an earlier run, a late request or an
\* admin had left there before it began, the demo can be invoked.
CompletedMeansUsable ==
  stage \in {"seeded", "rewrite", "done"} /\ ~disturbed => Invocable

\* An admin has given a demo object another status or content, or has made a
\* capability with the demo's id for another workspace.
Obstacle ==
  \/ \E r \in named["capability"] : Exists(r) /\ home[r] \notin named["workspace"]
  \/ \E i \in KeyedItem : \E r \in named[i] : Exists(r) /\ ~Usable(r)
  \/ \E b \in Binding :
       /\ binds[b].agent \in named["agent"] /\ binds[b].user \in named["user"]
       /\ binds[b].capability \in named["capability"]
       /\ Exists(b) /\ (Active(b) <=> binds[b].role \notin named["role"])

TheAgent == CHOOSE a \in named["agent"] : TRUE

Current == generation[TheAgent]

\* The file is the only copy of the token.  A run that was passed it, or issued
\* it, and completes leaves it there, and a run that was passed it loses it at
\* most when it stops in the middle of the rewriting.
TokenKept ==
  entitled /\ ~disturbed /\ Exists(TheAgent) =>
    /\ stage \in {"written", "done"} => file = Current
    /\ passed = Current => \/ file = Current
                           \/ stage = "rewrite" /\ token = Current
                           \/ cut

=============================================================================
