# A TLA+ development for Grantora

Grantora is a gateway that lets AI agents call capabilities of business
applications. An agent authenticates with a bearer token; a *binding* says that
this agent may use this capability for this user in a role; the role's
permissions decide; a stored secret is decrypted and handed to an adapter that
calls the upstream application; every attempt is audited. All state lives in
PostgreSQL and changes through an admin API, and the routes of an APISIX gateway
are reconciled with desired rows of the same database.

The modules here model that program, TLC checks them on small instances, and
TLAPS proves the central results for every instance. Paths below are relative to
`src/src/grantora/` unless they name a document.

## 1. Inventory

| Component | State | Operations | What must be true of it |
|---|---|---|---|
| Registry (`db/models.py`, `db/queries.py`) | rows of workspaces, applications, agents, users, capabilities, roles, permissions, bindings, secrets; a status each; an agent's token hash | queries that join several statuses; partial unique indexes | references stay within one workspace; at most one active binding or secret per slot |
| Runtime plane (`api/runtime.py`, `auth/dependencies.py`, `secrets/resolution.py`, `adapters/http.py`) | one session per request; audit and usage rows | authenticate, select user, (MCP: look a tool name up), authorize, validate, resolve the secret, call upstream with retries, record, answer | nothing is used without a grant; no caller with a standing grant is refused, but for an MCP tool name that stands for nothing any more; one audit and one usage row before the answer; no resend of writes |
| Admin plane (`api/admin.py`) | one session per request; admin audit rows | create, set status, rotate secret, rotate token, define or list permissions, create role; sync | changes are whole transactions, in scope, accounted for, on parents that were active |
| MCP tool names (`openapi/tools.py`) | none on the server; names kept by clients | list, call by name | names unique, and meaning what they meant |
| Gateway reconciliation (`apisix/`, `main.py`) | desired rows, a status row, routes in APISIX | passes of a background loop and of admin requests | converges; never writes after a failed read when told so; a reported "ok" is true |
| Adapters (`adapters/`) | none | map input to one HTTP exchange, normalize the answer | bounded retries; one result or one error |
| Secrets (`secrets/`) | ciphertexts in rows | pick, decrypt | only the owner's, only active ones |
| Retention (`retention.py`, `cli/retention.py`) | one session per run; the audit and usage rows | dry run, purge | a purge is one atomic step that removes what was too old when it began; its report is not short |
| Demo workflow (`cli/demo_workflow.py`) | the rows found so far; a file with the only copy of the agent token | seed (look up or create eight objects), rewrite the file, smoke | a seeding that completes can be used; one that stopped can be run again; the token is not lost |
| Backup rehearsal (`cli/backup_restore_workflow.py`) | a dump file; containers and volumes | dump, remove, restore, start, wait, check | the last copy of the data is never destroyed unawares; success means restored; it ends |
| Shell (`main.py`, `config.py`, schemas, observability) | settings, sync task | start, stop, middleware | starts one sync, stops it on exit |

### How they interact

Runtime and admin handlers run side by side in a thread pool or on the event
loop, each with a database session of its own at READ COMMITTED; they share only
committed rows. The sync loop and the sync endpoint share the route rows, the
status row and the gateway. Clients keep tool names and tokens across requests.

### What is hard

* A handler reads its facts one SELECT at a time, so it acts on a mix of
  committed states. Both directions matter: accepting what no single state
  allows, and refusing what every state allowed.
* SQLAlchemy's identity map keeps a row as first loaded, and an UPDATE carries
  only the columns that differ from it: stale reads turn into skipped or partial
  writes.
* Checks in Python (parents active, secret active, codes present) precede the
  commit that relies on them; only the indexes are checked at the commit.
* The records of an invocation are committed after the upstream call.
* An upstream or gateway call that timed out may have been executed, or may be
  executed later.
* Reconcilers with different snapshots write to the same routes.
* A purge counts and deletes by separate statements, in two tables, beside other
  purges and beside transactions that commit rows with an earlier timestamp.
* The seeding is a client of the admin plane: it may stop after any request,
  a request it gave up may be executed during the next run, and other admins
  change what it has found.
* The rehearsal destroys the database in order to restore it, and every command
  in between can fail or be killed.

`PROJECT.json` lists these hazards line by line with the properties that guard
each.

## 2. Modules

```
Registry            committed rows, queries, one admin transaction per step
  Invocation        runtime handlers interleaved with Registry!Next
    MCGrant, MCSecret
    InvocationProofs
      OutcomeProofs
  AdminApi          admin handlers; implements Registry
    MCAdmin
    AdminProofs
  RegistryProofs
Names               the tool names of a set of capabilities (Invocation: Tools!)
  ToolNames         names clients keep while the set changes
    MCTools
    ToolNamesProofs
Reconciler          passes, operators and an unreliable gateway
  MCReconciler
  ReconcilerProofs
EventLog            the audit and usage tables with atomic purges
Retention           purges statement by statement; implements EventLog
  MCRetention
  RetentionProofs
DemoSeed            the seeding over Registry, faults, late requests, admins
  Rehearsal         the rehearsal around it, with dump and containers
    MCRehearsal
    RehearsalProofs
```

**Registry.** Columns never change after the INSERT except `status` and an
agent's `token_hash`, so columns are constant functions over the rows that may
ever exist and the state is `status` (`absent`, `active`, `inactive`) and a token
`generation`. The queries of `db/queries.py` are operators; one operator is one
SELECT. `Next` is the most that one committed admin transaction can do. It is
used twice: as the environment of `Invocation` and as the abstract specification
of `AdminApi`.

**Invocation.** `pc[q]` is the statement the handler of request `q` runs next;
each action is one SELECT with the tests on its result, the wait for the
upstream, the commit, or the answer. An MCP call (`via`) carries a tool name, any
a client may keep. `ListTools` is the SELECT of the capabilities bound to the agent
and user; `NextTool` takes each in id order through the statements of the binding
and the two permissions, which here only skip it (`Reject`); `ResolveTool` names
those found visible together, by `Names`, and takes the one with the name asked
for or refuses. Then the whole direct path runs in the same session, so the second
selection of the user sees the identity map (`loaded`). `Abort` is an uncaught error or a stopped
process. `seen` is history: what was true in some committed state since the
request arrived. The fourteen error exits appear as `Deny`, `Refuse` and `Fault`.

**AdminApi.** A request is a command and a principal's scope; its handler
authenticates, loads the target, checks each parent row with one SELECT
(`Parents` in the order of the code), seeds permissions when it must, and
commits. The commit is one step because a flushed row blocks its competitors
until the outcome. `Collides` is what the indexes refuse, `NewStatus` the UPDATE
of changed columns only. `met` is history: which statuses the request's rows had
while it ran.

**Names, ToolNames.** `ToolNameMap` is the loop that names capabilities in id order,
with a hash where normalized ids collide and a longer hash where those collide;
it is a recursive function, since the set of used names holds at each capability
the names of those `Before` it. A normalized id that is unique is taken as it is,
without a look at the names in use. When no candidate is free the code raises and
the listing or call fails (`Complete`). In `ToolNames` clients list, rights change,
clients call.

**Reconciler.** A pass is a session: it makes sure the default row exists, reads
the rows, then makes one gateway call per step in the order `fail_closed`
prescribes (`Proceed`), and records its result. `wrong` and `stale` are the
outcomes of the comparisons made so far. Any call may fail; a write that timed
out was applied, was not, or is still in `late`. The status row is updated column
by column against the copy read before, as the ORM does.

**Retention.** A run is one session (`cli/retention.py:24`): for each table
`Count`, unless nothing matches or it is a dry run `Delete`, then `Finish`
(commit or rollback). At READ COMMITTED each statement reads what is committed
then; `doomed` are the rows a run has deleted and not committed, which no other
run can delete (`Unlocked`). Writers insert rows with the time of the INSERT and
commit them together, later (`Record`). The refinement maps the tables to one
log and a commit to one `Purge`.

**DemoSeed.** `at` is the object the run works on, `found` the rows it holds.
`Find` is the GET of a list and the tests on the row in it, `Post` the parent
checks of the create handler, `Created` its commit with the answer, `Conflict`
its 409: a row with the natural key is there (`Taken`), which for a capability,
whose id is global, may be a row of another workspace that no list shows (`Rivals`).
What `Find` demands (`Usable`) is that the row is active and has the
columns the command would have written; a binding is looked for with the role and
whatever its status, a secret only while active. `Fault` ends a run anywhere, and
a POST that was under way stays in `late`, to be executed at any later time or
never. A run gets the file's token, as `make` passes it, or none, as the container
command of OPERATIONS.md:124-133 does. The rewriting of the file is two steps.

**Rehearsal.** `drill` is the command of the `try` block that runs next; `failing`
and `returning` are the ways into the `finally` block. Every command may fail; a
kill (`Break`) skips the `finally`. The postgres container serves a temporary
server before the real one, and `pg_isready`, run inside the container, accepts
both. `Wipe` is `down -v`: the rows are gone and an agent created later gets
another token. `Sync` goes on whatever its answer says, as the code does; the smoke
checks ask for another sync and do look. `trail` stands for the audit and usage rows, which no smoke check
reads. `saved` is history: what `pg_dump` read.

Operators named `...Mistake` are wrong on purpose: each imitates the operator
that follows it the way a plausible bug would, and some property must tell the
two apart. They are no part of the model.

## 3. Runs

| Run | Instance | What it asks |
|---|---|---|
| `grant` | 1 request; two bindings and two roles for one slot; a second capability of the same normalized id that comes and goes; a second workspace's rows | Do checks spread over seven SELECTs ever add up to a grant nobody had, or to a refusal nobody deserved? Types, one record before the answer, records at home, and the invariants the proofs rest on |
| `secret` | 4 capabilities over auth modes and risk classes; secrets of user and workspace; a token rotation | The right secret for the mode, no refusal without a reason, no trace after a denial, no resend of a write |
| `admin` | 2 requests of any principal; competing bindings and secrets; a role to be created and a binding that names it; rows of another workspace | `AdminInvariant`, refinement of `Registry`, indexes, workspaces, codes, truthful answers, accountable changes |
| `tools` | 3 capabilities with one normalized id, two with a common hash prefix; 1 other; 1 whose normalized id reads like the third's hashed name | Names unique, listed names work, hashed names stay |
| `routes` | a loop and a request; 2 ids; 1 edit by an operator, 1 fault | True results, writes that repair, nothing written after a failed read, convergence |
| `retention` | two runs, dry or not; a writer of both tables, a writer of one; 4 days, retention of 2 and 3 | `EventLog` is implemented, reports are not short, no run waits for ever |
| `rehearsal` | two runs of either command; 2 steps of other admins; any number of faults; three databases to start from | A completed seeding is usable, a failure has a reason, the token is kept, the data stay recoverable, success means restored, every run ends |

Bounds and why they are enough:

* *One request in `grant` and `secret`.* A runtime handler writes only records
  of its own request, so requests do not influence each other; what matters is
  the interleaving with any number of admin transactions, and these are not
  bounded (only token generations are, by `MaxGeneration`).
* *`Frozen`* names rows that admin commands leave alone in an instance. The two
  runtime runs freeze different rows: in `grant` the workspace, the user, the role
  and the bindings change, in `secret` the application, the agent and the secrets,
  with one rotation of the token (`MaxGeneration = 1`). A capability's own status
  changes in neither; in the joins it stands beside the application's. The proofs
  cover all of them together.
* *Two admin requests* suffice for every conflict of one statement with another
  transaction; each request is handled once. Requests are interchangeable
  (symmetry, used only with safety properties).
* *`MaxEdits = 1`, `MaxFaults = 1`* in `routes`: one edit is enough to make a
  snapshot stale, one fault to leave a write late, and both together with two
  passes give an old snapshot that overtakes a new one. The initial gateway
  holds any mix of labelled and foreign routes.

* *`retention`*: four days with `Days` of 2 and 3 let rows expire during a run,
  after it and never, and let each table expire without the other. Two runs are
  every pair of overlapping purges. `RetentionAssumption` says that a recording
  transaction (its rows are flushed at the commit) is shorter than the shortest
  retention, which is at least a day (`config.py:83-84`).
* *`rehearsal`*: `MaxRuns = 2` gives every rerun over what one run left;
  `MaxMeddling = 2` lets an admin disable and re-enable an object, or revoke a
  secret and rotate a token. `Touched` holds one row of each kind that is treated
  differently: the root of all parents, the agent with its token, a binding
  (found whatever its status) and a secret (found only while active). A misfit
  role, a foreign binding and another workspace, to which an admin may give a
  capability of the demo's id (`c2` in `Touched`), are in the initial databases. The second binding and
  secret are there for a run to create when the first is inactive.

Fairness. `Invocation` and `AdminApi` state none: their handlers are straight-line,
and nothing in them waits for another. In `LiveSpec` of `Reconciler` the loop starts passes for ever
(`main.py:207-211`: it swallows every error), running passes go on because every
gateway call has a timeout (`apisix/client.py:25-30`), and the gateway applies or
drops a delayed write. Nothing makes operators or admin requests act. In
`Retention` the database executes every statement that need not wait for a lock
(`Statement` is weakly fair, writers and new runs are not). In `Rehearsal` the
command goes on: requests have a timeout (`cli/demo_workflow.py:93`), both waits a
deadline, and of `docker compose` commands, which the code gives no timeout, it is
assumed that they return. The containers are under no obligation to come up.

### Where the code and its documents disagree

| Run | Says | Does |
|---|---|---|
| `lost_record` | PLAN.md:17: every attempt produces records | a stop or failed commit after the upstream call loses them |
| `rotate_revoked` | CONTRACTS.md:779: the old secret must be active | it may be revoked between the check and the commit |
| `seed_race` | CONTRACTS.md:592: seeding is idempotent | two first listings collide and one answers 500 |
| `name_moves` | CONTRACTS.md:89: tool names are stable | an unhashed name passes to another capability |
| `deletes_foreign` | CONTRACTS.md:1378: unlabelled routes are never deleted | the label was read in an earlier listing |

Observations without a run:

* An attempt of a disabled agent leaves no record, which SECURITY.md:77-80 asks
  for: the authentication dependency refuses it before any code that records
  (`auth/dependencies.py:64-71`).
* The wait for readiness (OPERATIONS.md:297) retries only on `WorkflowError`.
  `_request` converts `HTTPError` and `URLError`, but a connection that is
  accepted and closed before the answer, or a read timeout, is raised by
  `urlopen` as it is. A port proxy in front of a starting container does just
  that, so the rehearsal can end at the first poll, after the volumes are gone,
  and then delete the dump. `AwaitApi` therefore may end at any time.
* `Recoverable` speaks of one run. A run that was killed leaves the dump as the
  only copy; a later rehearsal over a new database overwrites it, keep or not.
* Without `GRANTORA_KEEP_BACKUP_DUMP` any failure after `down -v` loses the data;
  the documents call the rehearsal destructive for that reason.
* What is written between the dump and `down -v` is undone, revocations and
  rotations included.
* A seeding that fails after it has created the agent has written no file, so
  the token is lost (`TokenKept` promises it only to runs that complete or were
  passed it), and the next rehearsal, which finds the agent and is passed no token,
  fails for it (`cli/backup_restore_workflow.py:134-138`; `TokenLost` in
  `FailureExplained`). A rerun of the seeding by the container command, which is
  passed no token either, completes and drops it from the file.
* A capability of the demo's id in another workspace makes the seeding fail with a
  conflict: the id is a global primary key (`db/models.py:250`) and the list the
  seeding reads shows one workspace only. `Obstacle` in `FailureExplained` has it.
* A caller with a standing grant is refused when another capability with the same
  normalized id becomes visible to it and both names get a hash
  (`api/runtime.py:557-565`): it must list the tools again. `RefusedOnlyIfLapsed`
  says that, beside a lapse, this is the only reason for a refusal (`NameLost`).
* A disabled binding of the demo's agent, user, capability and role with the
  lowest id makes the seeding fail although an active one exists.
* A route status row can mix two passes' results, because each UPDATE has only
  the columns that differ from what the pass had read; `Converges` shows that it
  is right in the end.
* A capability whose normalized id equals the hashed name of one before it gives two
  tools of a listing one name, and a call by that name runs the earlier one:
  an id that is unique is not checked against the names in use
  (`openapi/tools.py:49-51`). `Poses` in `NamesUnique` and `ListedNamesWork` is that
  case and no other.

## 4. Proofs

All theorems hold for every set of rows, requests and principals that satisfies
the named assumptions of the modules:

* `RowAssumption` gives the columns their types, and `home[w] = w` for workspaces;
* `DisjointAssumption` separates the tables whose columns a `CASE` tells apart;
* `SeedAssumption` says that a behaviour starts from rows which refer to rows of
  their workspace and collide in no index, as every database filled through the
  admin API does;
* `InvocationAssumption` types the requests and includes what `Names` needs;
  `AdminAssumption` types the admin requests; the latter
  also makes the set of admin requests finite, which a count of rotations needs;
* `RetentionAssumption` types the writers and the periods, and bounds how long a
  recording transaction is open;
* `ReconcilerAssumption` makes the ids a finite set of numbers (the order in which
  a pass takes them) and tells rows and routes from their absence;
* `DemoAssumption` says that the demo's keys belong to rows of its workspace, capabilities
  apart, in the table each item is looked for in, and that natural keys are unique
  in the databases a behaviour starts from; `DumpAssumption` tells a dump from none and
  lets the bound on tokens be no less than those on runs and admins, each of which
  outdates a token at most once;
* `NamesAssumption` (`WellNamed`) orders a finite set of capabilities by their ids, and
  says of hashed names that they end in the digits of the hash after the last
  underscore: candidates that are equal come from digests with equal first digits.
  It says nothing of normalized ids, which may read like anything, nor that a
  candidate is always free.

TLC evaluates them in every run.

| Module | Theorem | Says |
|---|---|---|
| `RegistryProofs` | `RegistryTypeCorrect` | the tables are well typed |
| | `RowsReferHome` | `Spec => []ReferencesStayHome` |
| | `SlotsUnique` | `Spec => []OneActivePerSlot` |
| `InvocationProofs` | `RuntimeTypeCorrect` | `RuntimeSpec => []RuntimeTypeOK` |
| | `AuthorizationInvariantHolds` | `RuntimeSpec => []AuthorizationInvariant` |
| | `AuthorizedUse` | `RuntimeSpec => []UsedOnlyIfAuthorized` |
| `OutcomeProofs` | `RecordInvariantHolds` | `RuntimeSpec => []RecordInvariant` |
| | `RecordedOnce`, `DeniedUntraced`, `RecordsHome`, `ResentReadOnlyHolds` | `RecordedOnceBeforeReply`, `DeniedLeavesNoTrace`, `RecordsStayHome`, `ResentOnlyIfReadOnly` |
| | `RefusalsAreDue` | `RuntimeSpec => []RefusedOnlyIfLapsed` |
| `AdminProofs` | `AdminInvariantHolds` | `AdminSpec => []AdminInvariant` |
| | `AdminRefinesRegistry` | `AdminSpec => ImplementsRegistry` |
| | `AdminSlotsUnique`, `AdminRowsReferHome` | the two invariants of `Registry`, of `AdminApi` |
| | `OutcomeInvariantHolds` | `AdminSpec => []OutcomeInvariant` |
| | `AdminTypeCorrect`, `CodesAreKnown`, `AnswersAreTrue` | `AdminTypeOK`, `RoleCodesKnown`, `AnsweredAsApplied` |
| | `ChangesAreAccountable`, `ActivationsAreInformed` | the action properties `EveryChangeAccountable`, `ParentsWereActive` |
| `ToolNamesProofs` | `NamesInvariantHolds` | `Spec => []NamesInvariant` |
| | `ListingsAreUnambiguous`, `ListedNamesResolve` | `NamesUnique`, `ListedNamesWork` |
| | `HashedNamesStay` | the action property `HashedNamesNeverMove` |
| `ReconcilerProofs` | `ReconcilerInvariantHolds`, `ReconcilerTypeCorrect` | `Spec => []ReconcilerInvariant`, `TypeOK` |
| | `OkMeansReconciledHolds`, `ReadFailuresPreserve`, `WritesAreRepairs` | the action properties `OkMeansReconciled`, `ReadFailurePreservesRoutes`, `UndisturbedWritesRepair` |
| `RetentionProofs` | `RetentionInvariantHolds` | `Spec => []RetentionInvariant` |
| | `RetentionImplementsLog` | `Spec => PurgesAreAtomic` |
| | `ReportsHold` | `Spec => []ReportNeverShort` |
| `RehearsalProofs` | `RecoverableHolds` | `RehearsalSpec => []Recoverable` |
| | `SuccessMeansRestoredHolds` | `RehearsalSpec => []SuccessMeansRestored` |
| | `SeedInvariantHolds`, `RehearsalTypeCorrect` | `RehearsalSpec => []SeedInvariant`, `RehearsalTypeOK` |
| | `CompletionIsUsable`, `FailuresAreExplained`, `TokenIsKept` | `CompletedMeansUsable`, `FailureExplained`, `TokenKept` |

**Registry.** `ReferencesStayHome` and `OneActivePerSlot` are inductive together
with `TypeOK`. The first needs that rows never disappear (`RowsStay`) and that a
row appears only where its references are (`RowsAppear`), where the rotation is
the odd case: the new secret is inserted without any check, and fits because the
old one did. For the second, a row becomes active only in a slot that is free but
for itself and, in a rotation, the row that leaves it in the same transaction.

**Invocation.** `UsedOnlyIfAuthorized` is about history: when a secret is used,
token, grant and secret were each valid in some committed state since the request
arrived. It is not inductive, since it says nothing before the use. The
strengthening `AuthorizationInvariant` has three parts: `HistoryCurrent` (`seen`
includes what is true now), `Established` (each stage of the handler has seen what
its predecessors tested, and holds the rows they found), and `Justified` (what
was used had been seen). Every handler step is a test of the current state, so by
`HistoryCurrent` it adds to `Established`, and `Justified` follows at the use; an
admin step changes the tables but never takes from `seen`.

**Records.** The properties of the audit and usage rows speak of what was committed
or answered; `RecordInvariant` adds what the handler is about to commit. `Filed`
says how many rows there are at each stage and that they tell what the verdict
tells, `Untraced` that a denial is decided before a secret or a call, `Placed`
that user and application were looked up in the agent's workspace before they
can be named in a row. Handlers have many statements and few effects on these
variables, so the proof first shows that each statement has one of six
(`Arrives`, `Advances`, `Sends`, `Concludes`, `Commits`, `Ends`), and then works
with those. `ResentOnlyIfReadOnly` needs, beside the guard of a resend, that
nothing has been sent before the first call (`Untraced`);
`DeniedLeavesNoTrace` needs `Justified`, because a call implies a secret.

**Refusals.** `RefusedOnlyIfLapsed` is the other direction of authorization: a
check of several statements must not refuse a caller whose grant stood
throughout. `LapsesCurrent` says that what is missing now has been noted. Most
refusals then are tests of the current state. Two are not. One is the role check,
which asks about the binding read by an earlier statement: `BindingHeld` says
that this binding is still the active one of its slot or a lapse of the grant
has been noted since. It holds because of `OneActivePerSlot`: when the binding
stops being active, no other can have become active in the same transaction
(`BindingLost`), so there was a committed state without a grant. Without the
unique index, an admin who replaces a binding could cause a refusal that no
state explains. The other is the lookup of a tool name, which rests on many
statements: whatever the lookup has skipped was ungranted at some moment, and
whatever it found visible was granted at some moment, so the set it named is one
of those `NameLost` speaks of.

**Admin plane.** A commit is a `Registry` step only because of what the handler
learnt earlier, so the refinement needs `AdminInvariant`: found parents and
targets still exist, a row about to be created fits its parents (`ParentsFound`,
`Fits`, `Found`), the generated id of a new binding or secret is in nobody else's
hands (`IdsFree`), and rotations under way respect the bound (`RotationsLeft`).
It does not say that parents are still active, which is false. Steps that commit
nothing disturb only what their own handler knows (`QuietStep`); a commit leaves
the others what they know because rows stay (`OthersKeepLocal`); and
`CommitIsTransaction` shows, command by command, that the commit is the
corresponding transaction or changes no row.

**Admin outcomes.** What a client is told and what is accounted for rests on what
the handler has seen, not on what is so now. `OutcomeInvariant` compares its
knowledge with `met`, the statuses its rows had while it ran: the loaded status
was so (`LoadedMet`), so were the parents checked so far (`ParentsMet`) and, when
the checks are over, every row the target depends on (`DependenciesMet`).
`Watching` keeps `met` up to date whoever commits. With `Applied` this gives
`AnsweredAsApplied`: an UPDATE that is skipped, because the loaded copy already
has the wanted status, is still truthful, since the row had that status while the
request ran. `CodesReady` carries a role's codes from their check or seeding to the
commit, which needs that permissions are never deleted. That a request answered otherwise has filed no audit row follows from
`SilentUntilDone`. `ParentsWereActive` is about the request that commits: the row
is its target or its replacement, and its own `met` holds the parents. `Cleared` and
`SilentUntilDone` put every change in the scope of a request that files one event.

**Tool names.** The library's theorems on recursive functions and on induction
take operators as parameters, which no prover here can instantiate. Both are
therefore argued from the least element of a set of numbers: a least rank up to
which no function follows the loop's rule (`RuleHasFunction`), and a least
rank whose capability has a name that does not fit (`NamesFit`). A hashed name is
chosen outside the names before it, and two normalized ids taken as they are
differ, so when every capability gets a name only a normalized id can repeat a
hashed one given before it (`NamesDiffer`, `Poses`). `NamesInvariant` then says what a kept name
can be: the normalized id of its capability or one of its candidates.

**Reconciler.** `OkMeansReconciled` is not about a state but about a whole pass
beside others that write to the same gateway, so the invariant says what the pass
can know at each call. `Proper` is its own record: what is left to look at and to
write fits the call it makes next, and the number of routes changed so far with
those still open never exceeds the number of ids. `Compared` says that every id
is still to be looked at or written, or was right at some moment of the pass.
`Informed` says that what it read of an id that nobody else has disturbed still
holds, hence a write repairs. `ProceedProper` shows that going on to the next
call keeps these facts, for both orders of reading and writing.

**Retention.** Atomicity needs to know, when a run commits, that the rows it
deleted are exactly those that were too old when it started and are still there.
`Settled` says so table by table (`Passed`): a run holds locked every expired row
of the tables behind it. A row that is committed later cannot be among them, since
its transaction is younger than any cutoff (`Timely`, by `Lag < Days`); a row that
another run removes was locked by that run, so this one would have waited. For
the report, `Accounted` follows the rows from expired to doomed to gone: between
the count and the delete of a table the expired rows only become fewer
(`ExpiredShrink`).

**Rehearsal.** The first two theorems follow from `DrillInvariant`, which says what the
command can rely on at each step: until `down -v` the database is whole
(`WholeBefore`, `WholeAfter`), from the dump to the restore the file is what
`pg_dump` read (`DumpIsRead`), and from the restore to the end the database is
that again unless somebody has changed it (`BackAsRead`).

**Seeding.** `CompletedMeansUsable`, `FailureExplained` and `TokenKept` speak of the
end of a run, with the history of earlier runs, late requests and other admins in
the tables, and for a rehearsal with the whole database removed and restored in
between. `SeedInvariant` says what a run knows on its way: what it has found is
what it looked for (`FoundFits`) and, undisturbed, stays active (`FoundKept`); what
it is about to create is not there (`StillMissing`), so a conflict is never its own
doing, but for a capability of another workspace, which is an `Obstacle`
(`CapabilityIsObstacle`); its token is the agent's once the agent is found (`TokenRight`), and what
the file holds at each stage follows (`FileKeeps`). Each is said of the database
and, between the dump and the restore, of the dump, which is why `SaneTables` asks
of both what the constraints of the schema enforce: references, slots, and natural
keys, of which `KeysUnique` is inductive because an INSERT waits for a free key.
`TokensBounded` counts what can outdate a token: steps of admins and removals of
the volumes, at most one of which a run still owes (`Owed`).

## 5. Only model-checked

Every invariant and every action property of the passing runs has a theorem. Only
liveness (`Converges`, `EveryPurgeEnds`, `EveryRunEnds`)
stays with TLC: it rests on fairness, and so on `ENABLED`, which the prover does
not handle. The properties of the runs that expect a violation are false.

## 6. Not modelled

* *Field validation, JSON schemas, templates, OpenAPI documents, metrics, traces,
  logs, health*: no shared state; their outcome is an input (`ValidateInput`
  takes both outcomes).
* *Payload normalization of the adapters*: pure functions of the upstream's
  answer.
* *The cipher and the external secret store*: a value decrypts or it does not;
  the store is a stub that refuses.
* *OIDC*: an authenticated principal has a scope; how the proxy establishes it is
  outside the program.
* *Parts of the command line tools*: printing, settings, URLs. The seeding's test
  that the two default permissions exist is left out: the list it reads creates
  them and nothing removes them. Lists are complete, that is, shorter than the
  limit of 500 the commands ask for.
* *A registry restored in part*: when `pg_restore` fails the rows count as gone.
* *Connection pool and threads*: handlers wait for a connection; not modelled.

## 7. Plan

Done: Registry, Invocation, AdminApi, ToolNames, Reconciler, Retention, DemoSeed
and Rehearsal with the proofs of section 4, in that order: first what decides
whether a secret is used, then what changes those decisions, then what clients
and the gateway see, then the operator's commands.

Left to model, if a limit is worth it: `Invocation` with two requests of one
session pool, and what the adapters make of a provider's answer.

Left to prove: nothing that a run checks, liveness apart. Worth stating next:

1. What the seeding needs of the admin plane: `DemoSeed` takes the create handlers
   as single steps, which `AdminRefinesRegistry` justifies, and a theorem that each
   step of `DemoSeed` on the rows is a `Registry` transaction would connect the two.
2. That two undisturbed passes of `Reconciler` in a row end with `changed = 0`, the
   safety part of `Converges`.
