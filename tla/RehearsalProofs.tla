-------------------------- MODULE RehearsalProofs --------------------------
(***************************************************************************)
(* Proofs about Rehearsal: the dump outlives the database it was taken     *)
(* from, and success means that the database is what was dumped.  Both     *)
(* follow from what the command knows at each of its steps.                *)
(***************************************************************************)
EXTENDS Rehearsal, RegistryProofs, WellFoundedInduction, TLAPS

\* The steps between the dump and the restore, and those after the restore.
Dumped == {"down", "up db", "await db", "restore"}

Restored == {"up api", "await api", "sync", "smoke", "returning"}

\* Between two commands, and while it seeds, the drill is off.
DrillStage == drill # "off" => stage = "written" /\ rehearsing

\* The dump is what was read, and a snapshot.
DumpIsRead ==
  drill \in Dumped =>
    /\ dump = saved
    /\ dump = [status |-> dump.status, generation |-> dump.generation, trail |-> dump.trail]

\* After the restore the database is what was read, until somebody changes it.
BackAsRead ==
  (drill \in Restored \/ (rehearsing /\ stage = "done")) /\ ~touched => Snapshot = saved

\* Before the dump the database is as it was found.
WholeBefore == ~whole => drill # "off" \/ stage = "failed"

\* Only a run that fails can leave the database without what it held.
WholeAfter == drill \in {"dump"} \cup Restored \/ stage = "done" => whole

\* What makes the rehearsal safe for the data it removes.
DrillInvariant ==
  DrillStage /\ DumpIsRead /\ BackAsRead /\ WholeBefore /\ WholeAfter /\ Recoverable

-----------------------------------------------------------------------------
(* Steps of the seeding                                                    *)

\* What the seeding command does leaves the drill alone, and does not end a run
\* as done.
LEMMA SeedStepStages ==
  ASSUME SeedStep
  PROVE  /\ stage \in {"find", "post", "sent", "seeded", "rewrite"}
         /\ stage' \in {"find", "post", "sent", "seeded", "rewrite", "written", "failed"}
<1>1. CASE Find
  BY <1>1 DEF Find, Take
<1>2. CASE FindUnusable \/ Conflict
  BY <1>2 DEF FindUnusable, Conflict, Refuse
<1>3. CASE Post
  BY <1>3 DEF Post
<1>4. CASE Created
  BY <1>4 DEF Created, Take
<1>5. CASE Rewrite \/ Fill
  BY <1>5 DEF Rewrite, Fill
<1>6. QED
  BY <1>1, <1>2, <1>3, <1>4, <1>5 DEF SeedStep

\* Other admins and late requests change no stage.
LEMMA OthersKeepStage ==
  ASSUME Others
  PROVE  UNCHANGED stage /\ (registryVars' # registryVars => touched')
<1>1. UNCHANGED stage
  BY DEF Others, Meddle, Late, Disturb
<1>2. QED
  BY <1>1 DEF Others

-----------------------------------------------------------------------------
(* The invariant                                                           *)

\* At first the database is whole and there is no dump.
LEMMA DrillInvariantInit == RehearsalInit => DrillInvariant
BY DEF RehearsalInit, DemoInit, DrillInvariant, DrillStage, DumpIsRead, BackAsRead,
       WholeBefore, WholeAfter, Recoverable, Dumped, Restored

\* The parts of a run that do not touch the dump or the volumes.
LEMMA CommandsKeepInvariant ==
  ASSUME DrillInvariant,
         Start \/ Seeding \/ TokenMissing \/ SeedDone \/ Break
  PROVE  DrillInvariant'
<1> USE DEF DrillInvariant, DrillStage, DumpIsRead, BackAsRead, WholeBefore, WholeAfter,
            Recoverable, Dumped, Restored
<1>1. CASE Start
  BY <1>1 DEF Start, Begin, Running
<1>2. CASE Seeding
  <2>1. UNCHANGED drillVars
    BY <1>2 DEF Seeding
  <2>2. /\ stage \in {"find", "post", "sent", "seeded", "rewrite"}
        /\ stage' \in {"find", "post", "sent", "seeded", "rewrite", "written", "failed"}
    BY <1>2, SeedStepStages DEF Seeding
  <2>3. QED
    BY <2>1, <2>2 DEF drillVars
<1>3. CASE TokenMissing
  BY <1>3 DEF TokenMissing, Refuse, drillVars
<1>4. CASE SeedDone
  BY <1>4 DEF SeedDone, Complete, demoVars, hostVars, containerVars, historyOfData, Snapshot,
              registryVars
<1>5. CASE Break
  BY <1>5 DEF Break, Fault, Running, hostVars, containerVars, historyOfData
<1>6. QED
  BY <1>1, <1>2, <1>3, <1>4, <1>5

\* The commands of the try block and the finally block.
LEMMA DrillKeepsInvariant ==
  ASSUME DrillInvariant, DrillStep
  PROVE  DrillInvariant'
<1> USE DEF DrillInvariant, DrillStage, DumpIsRead, BackAsRead, WholeBefore, WholeAfter,
            Recoverable, Dumped, Restored, At, Raised, demoVars, hostVars, historyOfData,
            containerVars, dataVars, registryVars
<1>1. CASE PgDump
  BY <1>1 DEF PgDump, Snapshot
<1>2. CASE ComposeDown
  <2>1. /\ drill = "down" /\ stage = "written" /\ UNCHANGED <<stage, rehearsing, keep, dump, saved>>
        /\ drill' \in {"up db", "failing"}
    BY <1>2 DEF ComposeDown, Wipe
  <2>2. UNCHANGED whole \/ ~whole'
    BY <1>2 DEF ComposeDown, Wipe
  <2>3. QED
    BY <2>1, <2>2
<1>3. CASE UpPostgres
  BY <1>3 DEF UpPostgres
<1>4. CASE AwaitPostgres
  BY <1>4 DEF AwaitPostgres
<1>5. CASE PgRestore
  BY <1>5 DEF PgRestore, Snapshot
<1>6. CASE UpServices \/ AwaitApi \/ Sync \/ Smoke
  BY <1>6 DEF UpServices, AwaitApi, Sync, Smoke, Snapshot
<1>7. CASE Cleanup
  BY <1>7 DEF Cleanup, Snapshot
<1>8. QED
  BY <1>1, <1>2, <1>3, <1>4, <1>5, <1>6, <1>7 DEF DrillStep

\* The containers, the operator and the other admins.
LEMMA SurroundingsKeepInvariant ==
  ASSUME DrillInvariant, Operate \/ ComposeUp \/ Others \/ UNCHANGED vars
  PROVE  DrillInvariant'
<1> USE DEF DrillInvariant, DrillStage, DumpIsRead, BackAsRead, WholeBefore, WholeAfter,
            Recoverable, Dumped, Restored, hostVars, historyOfData, Snapshot, registryVars
<1>1. CASE Operate
  BY <1>1 DEF Operate, Boot, demoVars
<1>2. CASE ComposeUp
  BY <1>2 DEF ComposeUp, demoVars, dataVars
<1>3. CASE Others
  BY <1>3, OthersKeepStage DEF Others
<1>4. CASE UNCHANGED vars
  BY <1>4 DEF vars, demoVars, drillVars
<1>5. QED
  BY <1>1, <1>2, <1>3, <1>4

\* The invariant of the rehearsal holds at every step.
THEOREM DrillInvariantHolds == RehearsalSpec => []DrillInvariant
<1>1. DrillInvariant /\ [RehearsalNext]_vars => DrillInvariant'
  BY CommandsKeepInvariant, DrillKeepsInvariant, SurroundingsKeepInvariant
     DEF RehearsalNext, RunStep
<1>2. QED
  BY <1>1, DrillInvariantInit, PTL DEF RehearsalSpec

\* While the volumes are gone and the restore has not succeeded, the complete
\* dump is on the disk, unless a failing run was told not to keep it.
THEOREM RecoverableHolds == RehearsalSpec => []Recoverable
<1>1. DrillInvariant => Recoverable
  BY DEF DrillInvariant
<1>2. QED
  BY <1>1, DrillInvariantHolds, PTL

\* A rehearsal that reports success has restored what it dumped.
THEOREM SuccessMeansRestoredHolds == RehearsalSpec => []SuccessMeansRestored
<1>1. DrillInvariant => SuccessMeansRestored
  BY DEF DrillInvariant, BackAsRead, SuccessMeansRestored
<1>2. QED
  BY <1>1, DrillInvariantHolds, PTL

-----------------------------------------------------------------------------
(* What a run has found                                                    *)

\* No two rows have one natural key.
KeysUnique(st) ==
  \A i \in KeyedItem : \A r, s \in named[i] : st[r] # "absent" /\ st[s] # "absent" => r = s

\* Statuses that the constraints of the database allow.
Sane(st) ==
  /\ st \in [Row -> Status]
  /\ \A r \in Row : st[r] # "absent" =>
       /\ st[home[r]] # "absent"
       /\ \A p \in References(r) : st[p] # "absent" /\ home[p] = home[r]
  /\ \A r, s \in Row : SameSlot(r, s) /\ st[r] = "active" /\ st[s] = "active" => r = s
  /\ KeysUnique(st)

\* The database is in order, and so is what was dumped of it.
SaneTables ==
  /\ Sane(status)
  /\ drill \in Dumped => Sane(dump.status) /\ dump.trail \in BOOLEAN

\* A run that may still remove the volumes outdates the tokens once more.
Owed == IF Running /\ drill \in {"off", "dump", "down"} THEN 1 ELSE 0

TokensBounded ==
  /\ \A a \in Agent : generation[a] + Owed <= meddled + runs
  /\ drill \in Dumped => /\ dump.generation \in [Agent -> Nat]
                         /\ \A a \in Agent : dump.generation[a] <= meddled + runs

\* A run that looks for items has one to look for, and later has them all.  Once
\* it has found or created the agent, it has no token only if it was passed none.
Progress ==
  /\ at > 6 /\ token = None => passed = None
  /\ stage \in {"find", "post", "sent"} => at \in 1 .. 8
  /\ stage \in {"seeded", "rewrite", "written", "done"} => at = 9

\* What was found is what was looked for.
FoundFits ==
  \A j \in 1 .. (at - 1) : found[Items[j]] \in Demo(Items[j]) /\ Suits(found[Items[j]])

FoundIn(st) == \A j \in 1 .. (at - 1) : st[found[Items[j]]] = "active"

\* Undisturbed it stays active, in the database or in its dump.
FoundKept ==
  ~disturbed /\ stage \notin {"idle", "failed"} =>
    /\ whole => FoundIn(status)
    /\ drill \in Dumped => FoundIn(dump.status)

\* Undisturbed, what is to be created is not there.
StillMissing ==
  ~disturbed /\ stage \in {"post", "sent"} => Listed(Items[at]) = {}

\* The token of a run is the agent's, from where the agent was found.
TokenIn(st, g) ==
  st[TheAgent] # "absent" =>
    IF at <= 6 THEN passed = g[TheAgent] ELSE token = g[TheAgent]

TokenRight ==
  entitled /\ ~disturbed /\ stage \notin {"idle", "failed"} =>
    /\ TokenIn(status, generation)
    /\ drill \in Dumped => TokenIn(dump.status, dump.generation)

\* What the file keeps at each stage.
FileKeeps ==
  /\ stage = "idle" => ~entitled
  /\ stage \in {"find", "post", "sent", "seeded"} => passed \in {None, file}
  /\ stage \in {"written", "done"} => file = token
  /\ stage = "failed" /\ ~cut /\ entitled /\ ~disturbed /\ Exists(TheAgent) /\ passed = Current
       => file = Current

\* What a run knows of the rows it has found, and of the token.
SeedInvariant ==
  /\ RehearsalTypeOK /\ Progress /\ TokensBounded /\ SaneTables
  /\ FoundFits /\ FoundKept /\ StillMissing
  /\ TokenRight /\ FileKeeps
  /\ FailureExplained

-----------------------------------------------------------------------------
(* Items and the rows that belong to them                                  *)

\* The items and their order.
LEMMA ItemsAre ==
  /\ KeyedItem = {"workspace", "application", "user", "capability", "role", "agent"}
  /\ Item = KeyedItem \cup {"binding", "secret"}
  /\ Len(Items) = 8
<1>1. 1 .. 8 = {1, 2, 3, 4, 5, 6, 7, 8}
  OBVIOUS
<1>2. Item = {"workspace", "application", "user", "capability", "role", "agent",
              "binding", "secret"}
  BY <1>1 DEF Item, Items
<1>3. KeyedItem = {"workspace", "application", "user", "capability", "role", "agent"}
  BY <1>2 DEF KeyedItem
<1>4. QED
  BY <1>2, <1>3 DEF Items

\* A place in the list and what it names.
LEMMA ItemAt ==
  /\ Items[1] = "workspace" /\ Items[2] = "application" /\ Items[3] = "user"
  /\ Items[4] = "capability" /\ Items[5] = "role" /\ Items[6] = "agent"
  /\ Items[7] = "binding" /\ Items[8] = "secret"
  /\ \A j \in 1 .. 8 : Items[j] \in Item
BY DEF Items, Item

\* Of rows there is one with the lowest id.
LEMMA FirstIsOne ==
  ASSUME NEW S, S \subseteq Row, S # {}
  PROVE  First(S) \in S
<1> DEFINE T == {rank[r] : r \in S}
<1>1. T # {} /\ T \subseteq Nat
  BY DemoAssumption
<1>2. PICK m \in T : \A n \in T : ~(<<n, m>> \in OpToRel(<, Nat))
  <2>. HIDE DEF T
  <2>1. QED
    BY <1>1, NatLessThanWellFounded, WFMin
<1>3. \A n \in T : m <= n
  <2>. HIDE DEF T
  <2>. SUFFICES ASSUME NEW n \in T PROVE m <= n
    OBVIOUS
  <2>1. n < m => <<n, m>> \in OpToRel(<, Nat)
    <3>1. <<n, m>> \in Nat \X Nat /\ <<n, m>>[1] = n /\ <<n, m>>[2] = m
      BY <1>1
    <3>2. QED
      BY <3>1, Zenon DEF OpToRel
  <2>2. ~(n < m)
    BY <1>2, <2>1, Zenon
  <2>3. QED
    BY <1>1, <2>2
<1>4. PICK r \in S : rank[r] = m
  OBVIOUS
<1>5. \A s \in S : rank[r] <= rank[s]
  BY <1>3, <1>4
<1>6. QED
  BY <1>4, <1>5 DEF First

\* An agent is named, and it is the only one.
LEMMA TheAgentIsNamed == named["agent"] = {TheAgent} /\ TheAgent \in Agent /\ TheAgent \in Row
<1>1. PICK a \in Agent : named["agent"] = {a}
  BY DemoAssumption
<1>2. TheAgent = a
  BY <1>1 DEF TheAgent
<1>3. QED
  BY <1>1, <1>2 DEF Row

\* The rows of an item are rows, of its table and of the demo's natural key.
LEMMA DemoRows ==
  ASSUME NEW i \in Item, NEW r \in Demo(i)
  PROVE  /\ r \in Row
         /\ i \in KeyedItem => r \in named[i] /\ r \in Table[i]
         /\ i = "binding" => r \in Binding
         /\ i = "secret" => r \in Secret
<1>1. CASE i \in KeyedItem
  <2>1. i \notin {"binding", "secret"}
    BY <1>1, ItemsAre
  <2>2. r \in named[i]
    BY <1>1, <2>1 DEF Demo
  <2>3. r \in Row /\ r \in Table[i]
    BY <1>1, <2>2, DemoAssumption
  <2>4. QED
    BY <2>1, <2>2, <2>3
<1>2. CASE i \in {"binding", "secret"}
  BY <1>2, ItemsAre DEF Demo, Row
<1>3. QED
  BY <1>1, <1>2, ItemsAre

\* Only an agent is found for the item "agent".
LEMMA AgentsOfItems ==
  ASSUME NEW i \in Item, NEW r \in Demo(i)
  PROVE  (r \in Agent <=> i = "agent") /\ (i = "agent" => r = TheAgent)
<1>1. Table["agent"] = Agent
  BY DEF Table
<1>2. "agent" \in KeyedItem
  BY ItemsAre
<1>3. CASE i = "agent"
  BY <1>1, <1>2, <1>3, DemoRows, TheAgentIsNamed
<1>4. CASE i \in KeyedItem /\ i # "agent"
  <2>1. r \in Table[i] /\ Table[i] \cap Table["agent"] = {}
    BY <1>2, <1>4, DemoRows, DemoAssumption
  <2>2. QED
    BY <1>1, <1>4, <2>1
<1>5. CASE i \in {"binding", "secret"}
  BY <1>5, DemoRows, DisjointAssumption
<1>6. QED
  BY <1>3, <1>4, <1>5, ItemsAre

\* What belongs to an item depends on what was found alone.
LEMMA DemoSame ==
  ASSUME UNCHANGED found
  PROVE  \A i : Demo(i)' = Demo(i)
BY DEF Demo

\* Finding the row of an item leaves the rows of this item and of the ones
\* before it what they are.
LEMMA DemoStable ==
  ASSUME found \in [Item -> Row \cup {None}], at \in 1 .. 8, NEW r,
         found' = [found EXCEPT ![Items[at]] = r], NEW j \in 1 .. at
  PROVE  Demo(Items[j])' = Demo(Items[j])
<1>1. \A k \in 1 .. 8 : k # at => found'[Items[k]] = found[Items[k]]
  <2>1. \A k \in 1 .. 8 : k # at => Items[k] # Items[at]
    BY DEF Items
  <2>2. QED
    BY <2>1, ItemAt
<1>2. CASE j = 1
  BY <1>2, ItemAt DEF Demo
<1>3. CASE j \in 2 .. 6
  <2>1. found'["workspace"] = found["workspace"]
    BY <1>1, <1>3, ItemAt
  <2>2. Items[j] \notin {"workspace", "binding", "secret"}
    BY <1>3 DEF Items
  <2>3. QED
    BY <2>1, <2>2 DEF Demo
<1>4. CASE j = 7
  <2>1. \A k \in {1, 3, 4, 5, 6} : found'[Items[k]] = found[Items[k]]
    BY <1>1, <1>4
  <2>2. QED
    BY <1>4, <2>1, ItemAt DEF Demo
<1>5. CASE j = 8
  <2>1. \A k \in {1, 2, 3} : found'[Items[k]] = found[Items[k]]
    BY <1>1, <1>5
  <2>2. QED
    BY <1>5, <2>1, ItemAt DEF Demo
<1>6. QED
  BY <1>2, <1>3, <1>4, <1>5

-----------------------------------------------------------------------------
(* Steps of the tables                                                     *)

\* The order of the tables is that of the registry, with the natural keys.
LEMMA SaneIs ==
  Sane(status) <=>
    /\ status \in [Row -> Status]
    /\ ReferencesStayHome /\ OneActivePerSlot /\ KeysUnique(status)
BY DEF Sane, ReferencesStayHome, OneActivePerSlot, Exists, Active

\* A committed transaction of another admin or of the run leaves the tables in
\* order, if it inserts no second row of a natural key.
LEMMA SaneStep ==
  ASSUME TypeOK, Sane(status), NEW x \in Row, NEW st \in {"active", "inactive"},
         (KeyFree(x) /\ Create(x, st)) \/ SetStatus(x, st)
  PROVE  Sane(status') /\ TypeOK' /\ UNCHANGED generation
<1>1. [Next]_registryVars
  BY DEF Next
<1>2. TypeOK' /\ ReferencesStayHome' /\ OneActivePerSlot'
  BY <1>1, SaneIs, RegistryType, ReferencesStep, SlotStep
<1>3. KeysUnique(status')
  <2> SUFFICES ASSUME NEW i \in KeyedItem, NEW r \in named[i], NEW s \in named[i],
                      status'[r] # "absent", status'[s] # "absent"
               PROVE  r = s
    BY DEF KeysUnique
  <2>1. r \in Row /\ s \in Row
    BY DemoAssumption
  <2>2. \A q \in Row : q # x => status'[q] = status[q]
    BY DEF Create, SetStatus, TypeOK
  <2>3. KeysUnique(status)
    BY DEF Sane
  <2>4. CASE SetStatus(x, st)
    BY <2>1, <2>2, <2>3, <2>4 DEF KeysUnique, SetStatus, Exists
  <2>5. CASE KeyFree(x)
    BY <2>1, <2>2, <2>3, <2>5 DEF KeysUnique, KeyFree, Exists
  <2>6. QED
    BY <2>4, <2>5
<1>4. Sane(status')
  BY <1>2, <1>3 DEF Sane, TypeOK, ReferencesStayHome, OneActivePerSlot, Exists, Active,
                    References, SameSlot
<1>5. QED
  BY <1>2, <1>4 DEF Create, SetStatus

\* No rows, no disorder.
LEMMA EmptySane == Sane([r \in Row |-> "absent"])
<1>1. \A i \in KeyedItem : named[i] \subseteq Row
  BY DemoAssumption
<1>2. QED
  BY <1>1 DEF Sane, KeysUnique, Status

-----------------------------------------------------------------------------
(* Steps that leave the rows alone                                         *)

\* The command may still remove the volumes.
MayWipe == drill \in {"off", "dump", "down"}

\* No step begins to hold the dump, or changes the one that is held.
DumpHeld == drill' \in Dumped => drill \in Dumped /\ dump' = dump

\* Tokens and counters are numbers, which None is not.
LEMMA NumbersAreNumbers ==
  ASSUME RehearsalTypeOK
  PROVE  /\ \A a \in Agent : generation[a] \in Nat
         /\ meddled \in Nat /\ runs \in Nat
         /\ Current \in Nat /\ Current # None
<1>1. \A a \in Agent : generation[a] \in Nat
  <2>1. 0 .. MaxGeneration \subseteq Nat
    OBVIOUS
  <2>2. QED
    BY <2>1 DEF RehearsalTypeOK, DemoTypeOK, TypeOK
<1>2. meddled \in Nat /\ runs \in Nat
  <2>1. meddled \in 0 .. MaxMeddling /\ runs \in 0 .. MaxRuns
    BY DEF RehearsalTypeOK, DemoTypeOK
  <2>2. MaxMeddling \in Nat /\ MaxRuns \in Nat
    BY DemoAssumption
  <2>3. QED
    BY <2>1, <2>2
<1>3. Current \in Nat
  BY <1>1, TheAgentIsNamed DEF Current
<1>4. QED
  BY <1>1, <1>2, <1>3, DemoAssumption

\* Every step that outdates a token is counted, and tokens are numbered further.
LEMMA CountsWithinTokens ==
  ASSUME RehearsalTypeOK, NEW g \in Nat, g <= meddled + runs
  PROVE  g \in 0 .. MaxGeneration
<1>1. meddled \in 0 .. MaxMeddling /\ runs \in 0 .. MaxRuns
  BY DEF RehearsalTypeOK, DemoTypeOK
<1>2. MaxMeddling \in Nat /\ MaxRuns \in Nat
  BY DemoAssumption
<1>3. meddled \in Nat /\ runs \in Nat /\ meddled <= MaxMeddling /\ runs <= MaxRuns
  BY <1>1, <1>2
<1>4. MaxMeddling + MaxRuns <= MaxGeneration /\ MaxGeneration \in Nat
  BY DumpAssumption, RowAssumption
<1>5. QED
  BY <1>2, <1>3, <1>4

\* What waits and calls of the drill, containers and operators do is nothing to
\* the seeding.
LEMMA QuietKeeps ==
  ASSUME SeedInvariant, RehearsalTypeOK', DumpHeld, MayWipe' => MayWipe,
         UNCHANGED <<registryVars, stage, at, found, passed, token, file, runs, meddled,
                     faulted, disturbed, entitled, cut, whole, rehearsing>>
  PROVE  SeedInvariant'
<1> USE DEF SeedInvariant, registryVars, DumpHeld, MayWipe
<1>1. Progress'
  BY DEF Progress
<1>2. TokensBounded'
  <2>1. Owed' = Owed \/ (Owed' = 0 /\ Owed = 1)
    BY DEF Owed, Running
  <2>2. (\A a \in Agent : generation[a] \in Nat) /\ meddled \in Nat /\ runs \in Nat
    BY NumbersAreNumbers
  <2>3. \A a \in Agent : generation'[a] + Owed' <= meddled' + runs'
    BY <2>1, <2>2 DEF TokensBounded
  <2>4. QED
    BY <2>3 DEF TokensBounded
<1>3. SaneTables'
  BY DEF SaneTables, Sane, KeysUnique, References, SameSlot
<1>4. FoundFits'
  BY DemoSame DEF FoundFits, Suits
<1>5. FoundKept'
  BY DEF FoundKept, FoundIn
<1>6. StillMissing'
  BY DemoSame DEF StillMissing, Listed, Exists, Active
<1>7. TokenRight'
  BY DEF TokenRight, TokenIn, TheAgent
<1>8. FileKeeps'
  BY DEF FileKeeps, Exists, Current, TheAgent
<1>9. FailureExplained'
  BY DEF FailureExplained, Obstacle, TokenLost, TheAgent, Usable, Suits, Exists, Active
<1>10. QED
  BY <1>1, <1>2, <1>3, <1>4, <1>5, <1>6, <1>7, <1>8, <1>9

\* What a run keeps when it fails, its rows aside.
LEMMA FailingKeeps ==
  ASSUME SeedInvariant, Running, stage' = "failed", DumpHeld,
         UNCHANGED <<registryVars, at, found, passed, token, file, runs, meddled,
                     disturbed, entitled>>,
         late' \subseteq Row, faulted' \in BOOLEAN, cut' \in BOOLEAN,
         UNCHANGED <<rehearsing, keep, database, api, trail, whole, touched>>,
         drill' \in {drill, "off"},
         stage = "rewrite" => cut',
         ~faulted' /\ ~disturbed => Obstacle \/ TokenLost
  PROVE  SeedInvariant'
<1> USE DEF SeedInvariant, registryVars, DumpHeld
<1>1. RehearsalTypeOK'
  BY DEF RehearsalTypeOK, DemoTypeOK, TypeOK
<1>2. Progress'
  BY DEF Progress
<1>3. TokensBounded'
  <2>1. Owed' = 0 /\ Owed \in {0, 1}
    BY DEF Owed, Running
  <2>2. (\A a \in Agent : generation[a] \in Nat) /\ meddled \in Nat /\ runs \in Nat
    BY NumbersAreNumbers
  <2>3. \A a \in Agent : generation'[a] + Owed' <= meddled' + runs'
    BY <2>1, <2>2 DEF TokensBounded
  <2>4. QED
    BY <2>3 DEF TokensBounded
<1>4. SaneTables'
  BY DEF SaneTables, Sane, KeysUnique, References, SameSlot
<1>5. FoundFits'
  BY DemoSame DEF FoundFits, Suits
<1>6. FoundKept' /\ StillMissing' /\ TokenRight'
  BY DEF FoundKept, StillMissing, TokenRight
<1>7. FileKeeps'
  <2> SUFFICES ASSUME ~cut', entitled, ~disturbed, Exists(TheAgent), passed = Current
               PROVE  file = Current
    BY DEF FileKeeps, Exists, Current, TheAgent
  <2>1. Current # None
    BY NumbersAreNumbers
  <2>2. CASE stage \in {"find", "post", "sent", "seeded"}
    BY <2>1, <2>2 DEF FileKeeps
  <2>3. CASE stage = "written"
    <3>1. TokenIn(status, generation) /\ at = 9
      BY <2>3 DEF TokenRight, Progress
    <3>2. token = Current
      BY <3>1 DEF TokenIn, Current, Exists
    <3>3. QED
      BY <2>3, <3>2 DEF FileKeeps
  <2>4. stage # "rewrite"
    OBVIOUS
  <2>5. QED
    BY <2>2, <2>3, <2>4 DEF Running, RehearsalTypeOK, DemoTypeOK
<1>8. FailureExplained'
  BY DEF FailureExplained, Obstacle, TokenLost, TheAgent, Usable, Suits, Exists, Active
<1>9. QED
  BY <1>1, <1>2, <1>3, <1>4, <1>5, <1>6, <1>7, <1>8

-----------------------------------------------------------------------------
(* Steps of the seeding                                                    *)

\* What a run keeps when only its stage moves on.
LEMMA StageKeeps ==
  ASSUME SeedInvariant, Running,
         stage' \in {"find", "post", "sent", "seeded", "rewrite", "written", "done"},
         UNCHANGED <<registryVars, at, found, passed, token, late, runs, meddled, faulted,
                     disturbed, entitled, cut, drillVars>>,
         file' \in Nat \cup {None}, Progress', StillMissing', FileKeeps'
  PROVE  SeedInvariant'
<1> USE DEF SeedInvariant, registryVars, drillVars
<1>1. RehearsalTypeOK'
  BY DEF RehearsalTypeOK, DemoTypeOK, TypeOK
<1>2. TokensBounded'
  <2>1. Owed' = Owed \/ (Owed' = 0 /\ Owed = 1)
    BY DEF Owed, Running
  <2>2. (\A a \in Agent : generation[a] \in Nat) /\ meddled \in Nat /\ runs \in Nat
    BY NumbersAreNumbers
  <2>3. \A a \in Agent : generation'[a] + Owed' <= meddled' + runs'
    BY <2>1, <2>2 DEF TokensBounded
  <2>4. QED
    BY <2>3 DEF TokensBounded
<1>3. SaneTables'
  BY DEF SaneTables, Sane, KeysUnique, References, SameSlot
<1>4. FoundFits'
  BY DemoSame DEF FoundFits, Suits
<1>5. FoundKept'
  BY DEF FoundKept, FoundIn, Running
<1>6. TokenRight'
  BY DEF TokenRight, TokenIn, TheAgent, Running
<1>7. FailureExplained'
  BY DEF FailureExplained
<1>8. QED
  BY <1>1, <1>2, <1>3, <1>4, <1>5, <1>6, <1>7

\* A row found or created for the item that was due, with the agent's token.
LEMMA TakeKeeps ==
  ASSUME SeedInvariant, DrillInvariant, stage \in {"find", "sent"},
         NEW r \in Demo(Items[at]), Suits(r), NEW t \in Nat \cup {None}, Take(r, t),
         status'[r] = "active", \A q \in Row : q = r \/ status'[q] = status[q],
         TypeOK', Sane(status'), UNCHANGED generation, UNCHANGED drillVars,
         entitled' \in BOOLEAN, r \notin Agent => UNCHANGED entitled,
         r = TheAgent /\ entitled' /\ ~disturbed => t = Current,
         r = TheAgent /\ t = None => passed = None
  PROVE  SeedInvariant'
<1> USE DEF SeedInvariant, drillVars, otherVars
<1>1. at \in 1 .. 8 /\ Items[at] \in Item /\ r \in Row /\ drill = "off"
  BY ItemAt, DemoRows DEF Progress, DrillInvariant, DrillStage
<1>2. found \in [Item -> Row \cup {None}]
  BY DEF RehearsalTypeOK, DemoTypeOK
<1>3. /\ found' = [found EXCEPT ![Items[at]] = r]
      /\ token' = IF r \in Agent THEN t ELSE token
      /\ at' = at + 1
      /\ stage' = IF at = 8 THEN "seeded" ELSE "find"
      /\ UNCHANGED <<passed, file, late, runs, meddled, disturbed, cut, faulted>>
  BY ItemsAre DEF Take
<1>4. RehearsalTypeOK'
  <2>1. at' \in 1 .. Len(Items) + 1 /\ found' \in [Item -> Row \cup {None}]
    BY <1>1, <1>2, <1>3, ItemsAre
  <2>2. QED
    BY <1>3, <2>1 DEF RehearsalTypeOK, DemoTypeOK
<1>5. Progress'
  <2>1. (r \in Agent <=> at = 6) /\ (at = 6 => r = TheAgent)
    <3>1. Items[at] = "agent" <=> at = 6
      BY <1>1 DEF Items
    <3>2. QED
      BY <1>1, <3>1, AgentsOfItems
  <2>2. at' > 6 /\ token' = None => passed' = None
    BY <1>1, <1>3, <2>1 DEF Progress
  <2>3. QED
    BY <1>1, <1>3, <2>2 DEF Progress
<1>6. TokensBounded'
  <2>1. Owed' = Owed
    BY <1>1, <1>3 DEF Owed, Running
  <2>2. QED
    BY <1>1, <1>3, <2>1 DEF TokensBounded, Dumped
<1>7. SaneTables'
  BY <1>1 DEF SaneTables, Sane, KeysUnique, References, SameSlot, Dumped
<1>8. FoundFits'
  <2>. SUFFICES ASSUME NEW j \in 1 .. at
                PROVE  found'[Items[j]] \in Demo(Items[j])' /\ Suits(found'[Items[j]])
    BY <1>1, <1>3 DEF FoundFits, Suits
  <2>1. Demo(Items[j])' = Demo(Items[j])
    BY <1>1, <1>2, <1>3, DemoStable
  <2>2. CASE j = at
    BY <1>1, <1>2, <1>3, <2>1, <2>2
  <2>3. CASE j # at
    <3>1. j \in 1 .. (at - 1) /\ Items[j] # Items[at] /\ Items[j] \in Item
      BY <1>1, <2>3, ItemAt DEF Items
    <3>2. found'[Items[j]] = found[Items[j]]
      BY <1>2, <1>3, <3>1
    <3>3. QED
      BY <2>1, <3>1, <3>2 DEF FoundFits
  <2>4. QED
    BY <2>2, <2>3
<1>9. FoundKept'
  <2>. SUFFICES ASSUME ~disturbed, whole, NEW j \in 1 .. at
                PROVE  status'[found'[Items[j]]] = "active"
    BY <1>1, <1>3 DEF FoundKept, FoundIn, Dumped
  <2>1. CASE j = at
    BY <1>1, <1>2, <1>3, <2>1
  <2>2. CASE j # at
    <3>1. j \in 1 .. (at - 1) /\ Items[j] # Items[at] /\ Items[j] \in Item
      BY <1>1, <2>2, ItemAt DEF Items
    <3>2. found'[Items[j]] = found[Items[j]]
      BY <1>2, <1>3, <3>1
    <3>3. status[found[Items[j]]] = "active"
      BY <3>1 DEF FoundKept, FoundIn
    <3>4. found[Items[j]] \in Row
      BY <3>1, DemoRows DEF FoundFits
    <3>5. QED
      BY <3>2, <3>3, <3>4
  <2>3. QED
    BY <2>1, <2>2
<1>10. StillMissing'
  BY <1>3 DEF StillMissing
<1>11. TokenRight'
  <2>1. (r \in Agent <=> at = 6) /\ (at = 6 => r = TheAgent)
    <3>1. Items[at] = "agent" <=> at = 6
      BY <1>1 DEF Items
    <3>2. QED
      BY <1>1, <3>1, AgentsOfItems
  <2>. SUFFICES ASSUME entitled', ~disturbed, status'[TheAgent] # "absent"
                PROVE  IF at' <= 6 THEN passed = Current ELSE token' = Current
    BY <1>1, <1>3 DEF TokenRight, TokenIn, Current, TheAgent, Dumped
  <2>2. CASE at = 6
    BY <1>3, <2>1, <2>2
  <2>3. CASE at # 6
    <3>1. status[TheAgent] # "absent"
      BY <2>1, <2>3, TheAgentIsNamed
    <3>2. TokenIn(status, generation)
      BY <2>1, <2>3 DEF TokenRight
    <3>3. IF at <= 6 THEN passed = Current ELSE token = Current
      BY <3>1, <3>2 DEF TokenIn, Current
    <3>4. QED
      BY <1>1, <1>3, <2>1, <2>3, <3>3
  <2>4. QED
    BY <2>2, <2>3
<1>12. FileKeeps'
  BY <1>3 DEF FileKeeps
<1>13. FailureExplained'
  BY <1>3 DEF FailureExplained
<1>14. QED
  BY <1>4, <1>5, <1>6, <1>7, <1>8, <1>9, <1>10, <1>11, <1>12, <1>13

\* A list is of rows, and one that is not empty has a first one.
LEMMA ListHasFirst ==
  ASSUME NEW i \in Item, Listed(i) # {}
  PROVE  /\ First(Listed(i)) \in Demo(i) /\ First(Listed(i)) \in Row
         /\ IF i = "secret" THEN Active(First(Listed(i))) ELSE Exists(First(Listed(i)))
<1>1. Listed(i) \subseteq Row
  BY DemoRows DEF Listed
<1>2. First(Listed(i)) \in Listed(i)
  BY <1>1, FirstIsOne
<1>3. QED
  BY <1>1, <1>2 DEF Listed

\* A request of the command that finds a row, or finds none.
LEMMA FindKeeps ==
  ASSUME SeedInvariant, DrillInvariant, Find, UNCHANGED drillVars
  PROVE  SeedInvariant'
<1> DEFINE S == Listed(Items[at])
<1>1. at \in 1 .. 8 /\ Items[at] \in Item
  BY ItemAt DEF SeedInvariant, Progress, Find
<1>2. CASE S = {} /\ stage' = "post" /\
           UNCHANGED <<at, found, passed, token, file, otherVars, faulted, disturbed, cut>>
  <2>1. UNCHANGED <<registryVars, late, runs, meddled, entitled>>
    BY <1>2 DEF Find, otherVars
  <2>2. Progress'
    BY <1>1, <1>2 DEF SeedInvariant, Progress
  <2>3. StillMissing'
    BY <1>2, <2>1, DemoSame DEF StillMissing, Listed, Exists, Active, registryVars
  <2>4. FileKeeps'
    BY <1>2 DEF SeedInvariant, FileKeeps, Find
  <2>5. Running /\ file' \in Nat \cup {None}
    BY <1>2 DEF Find, Running, SeedInvariant, RehearsalTypeOK, DemoTypeOK
  <2>6. QED
    BY <1>2, <2>1, <2>2, <2>3, <2>4, <2>5, StageKeeps
<1>3. CASE S # {} /\ Usable(First(S)) /\ Take(First(S), passed)
  <2> DEFINE r == First(S)
  <2>1. r \in Demo(Items[at]) /\ r \in Row
    BY <1>1, <1>3, ListHasFirst
  <2>2. status[r] = "active" /\ Suits(r)
    BY <1>3 DEF Usable, Active
  <2>3. UNCHANGED <<status, generation, entitled>>
    BY DEF Find, registryVars
  <2>4. TypeOK' /\ Sane(status')
    BY <2>3 DEF SeedInvariant, RehearsalTypeOK, DemoTypeOK, TypeOK, SaneTables
  <2>5. passed \in Nat \cup {None} /\ entitled \in BOOLEAN
    BY DEF SeedInvariant, RehearsalTypeOK, DemoTypeOK
  <2>6. r = TheAgent /\ entitled /\ ~disturbed => passed = Current
    <3>. SUFFICES ASSUME r = TheAgent, entitled, ~disturbed PROVE passed = Current
      OBVIOUS
    <3>1. TheAgent \in Agent
      BY TheAgentIsNamed
    <3>2. Items[at] = "agent"
      BY <1>1, <2>1, <3>1, AgentsOfItems
    <3>3. at = 6
      BY <1>1, <3>2 DEF Items
    <3>4. TokenIn(status, generation)
      BY DEF Find, SeedInvariant, TokenRight
    <3>5. QED
      BY <2>2, <3>3, <3>4 DEF TokenIn, Current
  <2>7. stage \in {"find", "sent"}
    BY DEF Find
  <2>. HIDE DEF S, r
  <2>8. Take(r, passed)
    BY <1>3 DEF r
  <2>9. QED
    BY <2>1, <2>2, <2>3, <2>4, <2>5, <2>6, <2>7, <2>8, TakeKeeps
<1>4. QED
  BY <1>2, <1>3 DEF Find

\* A row of a natural key that is not taken is the first of its key.
LEMMA FreeKey ==
  ASSUME SeedInvariant, at \in 1 .. 8, ~Taken(Items[at]),
         NEW r \in Fresh(Items[at]), r \in Workspace \/ Exists(home[r])
  PROVE  KeyFree(r)
<1>1. Items[at] \in Item /\ r \in Demo(Items[at])
  BY ItemAt DEF Fresh
<1>. SUFFICES ASSUME NEW i \in KeyedItem, r \in named[i], NEW s \in named[i], s # r, Exists(s)
             PROVE  FALSE
  BY DEF KeyFree
<1>2. /\ r \in Table[i] /\ s \in Table[i] /\ r \in Row /\ s \in Row
      /\ i # "capability" => home[r] \in named["workspace"] /\ home[s] \in named["workspace"]
  BY DemoAssumption, Zenon
<1>3. Items[at] = i
  <2>1. i \in KeyedItem => i \in {"workspace", "application", "user", "capability", "role", "agent"}
    BY ItemsAre
  <2>2. r \notin Binding /\ r \notin Secret
    BY <1>2, <2>1, DisjointAssumption DEF Table
  <2>3. Items[at] \in KeyedItem
    BY <1>1, <2>2, DemoRows, ItemsAre
  <2>4. r \in Table[Items[at]]
    BY <1>1, <2>3, DemoRows
  <2>5. QED
    BY <1>2, <2>3, <2>4, DemoAssumption
<1>4. CASE i \in {"workspace", "capability"}
  BY <1>3, <1>4 DEF Taken, Rivals, Demo
<1>5. CASE i \notin {"workspace", "capability"}
  <2>1. Demo(i) = {q \in named[i] : home[q] = found["workspace"]}
    BY <1>5, ItemsAre DEF Demo
  <2>2. Exists(home[s]) /\ ReferencesStayHome /\ KeysUnique(status)
    BY <1>2, SaneIs DEF SeedInvariant, SaneTables, ReferencesStayHome
  <2>3. Table["workspace"] = Workspace /\ "workspace" \in KeyedItem
    BY ItemsAre DEF Table
  <2>4. r \notin Workspace
    BY <1>2, <1>5, <2>3, DemoAssumption
  <2>5. home[s] = home[r]
    <3>1. Exists(home[r])
      BY <2>4
    <3>2. home[r] \in named["workspace"] /\ home[s] \in named["workspace"]
      BY <1>2, <1>5
    <3>3. QED
      BY <2>2, <2>3, <3>1, <3>2 DEF KeysUnique, Exists
  <2>6. s \in Demo(i)
    BY <1>1, <1>3, <2>1, <2>5
  <2>7. QED
    BY <1>3, <1>5, <2>6 DEF Taken, Rivals
<1>6. QED
  BY <1>4, <1>5

\* A request of the command that inserts a row.
LEMMA CreatedKeeps ==
  ASSUME SeedInvariant, DrillInvariant, Created, UNCHANGED drillVars
  PROVE  SeedInvariant'
<1>1. stage = "sent" /\ at \in 1 .. 8 /\ Items[at] \in Item /\ ~Taken(Items[at])
  BY ItemAt DEF SeedInvariant, Progress, Created
<1>2. PICK r \in Fresh(Items[at]) :
        /\ Create(r, "active")
        /\ Take(r, IF r \in Agent THEN generation[r] ELSE None)
        /\ entitled' = (entitled \/ r \in Agent)
  BY DEF Created
<1> DEFINE t == IF r \in Agent THEN generation[r] ELSE None
<1>3. r \in Demo(Items[at]) /\ Suits(r)
  BY DEF Fresh
<1>4. r \in Row
  BY <1>1, <1>3, DemoRows
<1>5. KeyFree(r)
  BY <1>1, <1>2, FreeKey DEF Create
<1>6. TypeOK /\ Sane(status) /\ entitled \in BOOLEAN /\ RehearsalTypeOK
  BY DEF SeedInvariant, RehearsalTypeOK, DemoTypeOK, SaneTables
<1>7. TypeOK' /\ Sane(status') /\ UNCHANGED generation
  BY <1>2, <1>4, <1>5, <1>6, SaneStep
<1>8. status' = [status EXCEPT ![r] = "active"] /\ status \in [Row -> Status]
  BY <1>2, <1>6 DEF Create, TypeOK
<1>9. status'[r] = "active" /\ \A q \in Row : q = r \/ status'[q] = status[q]
  BY <1>4, <1>8
<1>10. t \in Nat \cup {None}
  BY <1>6, NumbersAreNumbers
<1>11. /\ entitled' \in BOOLEAN
       /\ r \notin Agent => UNCHANGED entitled
       /\ r = TheAgent /\ entitled' /\ ~disturbed => t = Current
  BY <1>2, <1>6, TheAgentIsNamed DEF Current
<1>12. Take(r, t)
  BY <1>2
<1>13. ~(r = TheAgent /\ t = None)
  BY <1>6, TheAgentIsNamed, NumbersAreNumbers DEF Current
<1>. HIDE DEF t
<1>14. QED
  BY <1>1, <1>3, <1>7, <1>9, <1>10, <1>11, <1>12, <1>13, TakeKeeps

-----------------------------------------------------------------------------
(* Why a run fails                                                         *)

\* What was found has the natural key that was asked for, and is in its table.
LEMMA FoundNamed ==
  ASSUME SeedInvariant, at \in 1 .. 9, NEW j \in 1 .. 8, j < at
  PROVE  /\ found[Items[j]] \in Demo(Items[j]) /\ found[Items[j]] \in Row
         /\ Suits(found[Items[j]])
         /\ j <= 6 => found[Items[j]] \in named[Items[j]] /\ found[Items[j]] \in Table[Items[j]]
<1>1. Items[j] \in Item /\ j \in 1 .. (at - 1)
  BY ItemAt
<1>2. j <= 6 => Items[j] \in KeyedItem
  BY ItemAt, ItemsAre
<1>3. found[Items[j]] \in Demo(Items[j]) /\ Suits(found[Items[j]])
  BY <1>1 DEF SeedInvariant, FoundFits
<1>4. QED
  BY <1>1, <1>2, <1>3, DemoRows

\* Undisturbed, the rows that the seeding has found are active.
LEMMA FoundActive ==
  ASSUME SeedInvariant, DrillInvariant, ~disturbed,
         \/ stage \in {"find", "post", "sent", "seeded", "rewrite"}
         \/ stage = "done",
         at \in 1 .. 9, NEW j \in 1 .. 8, j < at
  PROVE  Active(found[Items[j]])
<1>1. whole
  BY DEF DrillInvariant, DrillStage, WholeBefore, WholeAfter
<1>2. FoundIn(status)
  BY <1>1 DEF SeedInvariant, FoundKept
<1>3. QED
  BY <1>2 DEF FoundIn, Active

\* The parents of a row to be created are what was found for them.
LEMMA FreshParents ==
  ASSUME at \in 1 .. 8, NEW r \in Fresh(Items[at]),
         NEW p \in (References(r) \cup {home[r]}) \ {r}
  PROVE  \E j \in 1 .. (at - 1) : p = found[Items[j]]
<1>1. Items[at] \in Item /\ r \in Demo(Items[at])
  BY ItemAt DEF Fresh
<1>2. at <= 6 => r \in Table[Items[at]]
  <2>1. at <= 6 => Items[at] \in KeyedItem
    BY ItemAt, ItemsAre
  <2>2. QED
    BY <1>1, <2>1, DemoRows
<1>3. CASE at = 1
  <2>1. r \in Workspace
    BY <1>2, <1>3, ItemAt DEF Table
  <2>2. References(r) = {} /\ home[r] = r
    BY <2>1, RowAssumption, DisjointAssumption DEF References
  <2>3. QED
    BY <2>2
<1>4. at # 1 => home[r] = found[Items[1]]
  BY <1>1, ItemAt, ItemsAre DEF Demo
<1>5. CASE at \in {2, 3, 5, 6}
  <2>1. r \in App \cup User \cup Role \cup Agent
    BY <1>2, <1>5, ItemAt DEF Table
  <2>2. References(r) = {}
    BY <2>1, DisjointAssumption DEF References
  <2>3. QED
    BY <1>4, <1>5, <2>2
<1>6. CASE at = 4
  <2>1. r \in Capability
    BY <1>2, <1>6, ItemAt DEF Table
  <2>2. appOf[r] = found[Items[2]]
    BY <2>1, ItemAt DEF Fresh
  <2>3. r \notin Binding /\ r \notin Secret
    BY <2>1, DisjointAssumption
  <2>4. References(r) = {found[Items[2]]}
    BY <2>1, <2>2, <2>3 DEF References
  <2>5. QED
    BY <1>4, <1>6, <2>4
<1>7. CASE at = 7
  <2>1. r \in Binding /\ binds[r] = [agent |-> found[Items[6]], user |-> found[Items[3]],
                                     capability |-> found[Items[4]], role |-> found[Items[5]]]
    BY <1>1, <1>7, ItemAt DEF Demo
  <2>2. r \notin Capability /\ r \notin Secret
    BY <2>1, DisjointAssumption
  <2>3. References(r) = {binds[r].agent, binds[r].user, binds[r].capability, binds[r].role}
    BY <2>1, <2>2 DEF References
  <2>4. \A x \in References(r) : \E j \in {3, 4, 5, 6} : x = found[Items[j]]
    BY <2>1, <2>3
  <2>5. QED
    BY <1>4, <1>7, <2>4
<1>8. CASE at = 8
  <2>1. r \in Secret /\ holds[r] = [app |-> found[Items[2]], owner |-> found[Items[3]]]
    BY <1>1, <1>8, ItemAt DEF Demo
  <2>2. r \notin Capability /\ r \notin Binding
    BY <2>1, DisjointAssumption
  <2>3. References(r) = {found[Items[2]], found[Items[3]]}
    BY <2>1, <2>2 DEF References
  <2>4. QED
    BY <1>4, <1>8, <2>3
<1>9. QED
  BY <1>3, <1>5, <1>6, <1>7, <1>8

\* A first row that is not usable has been altered by an admin.
LEMMA UnusableIsObstacle ==
  ASSUME SeedInvariant, at \in 1 .. 8, Listed(Items[at]) # {},
         ~Usable(First(Listed(Items[at])))
  PROVE  Obstacle
<1> DEFINE r == First(Listed(Items[at]))
<1>1. Items[at] \in Item
  BY ItemAt
<1>2. /\ r \in Demo(Items[at])
      /\ IF Items[at] = "secret" THEN Active(r) ELSE Exists(r)
  BY <1>1, ListHasFirst
<1>3. ~Usable(r)
  OBVIOUS
<1>. HIDE DEF r
<1>4. CASE Items[at] \in KeyedItem
  <2>1. r \in named[Items[at]]
    BY <1>1, <1>2, <1>4, DemoRows
  <2>2. Exists(r)
    BY <1>2 DEF Exists, Active
  <2>3. QED
    BY <1>3, <1>4, <2>1, <2>2 DEF Obstacle
<1>5. CASE Items[at] = "binding"
  <2>1. at = 7
    BY <1>5 DEF Items
  <2>2. r \in Binding /\ binds[r] = [agent |-> found[Items[6]], user |-> found[Items[3]],
                                     capability |-> found[Items[4]], role |-> found[Items[5]]]
    BY <1>2, <1>5, ItemAt DEF Demo
  <2>3. Exists(r) /\ ~Active(r)
    BY <1>2, <1>3, <1>5, <2>2, DisjointAssumption DEF Usable, Suits
  <2>4. \A j \in {3, 4, 5, 6} : found[Items[j]] \in named[Items[j]]
    BY <2>1, FoundNamed
  <2>5. /\ binds[r].agent \in named["agent"] /\ binds[r].user \in named["user"]
        /\ binds[r].capability \in named["capability"] /\ binds[r].role \in named["role"]
    BY <2>2, <2>4, ItemAt
  <2>6. QED
    BY <2>2, <2>3, <2>5 DEF Obstacle
<1>6. CASE Items[at] = "secret"
  <2>1. r \in Secret /\ Active(r)
    BY <1>1, <1>2, <1>6, DemoRows
  <2>2. Suits(r)
    BY <2>1, DisjointAssumption DEF Suits
  <2>3. QED
    BY <1>3, <2>1, <2>2 DEF Usable
<1>7. QED
  BY <1>1, <1>4, <1>5, <1>6, ItemsAre

\* A capability that takes the demo's id and is not in the list of the demo's
\* workspace is of another one.
LEMMA CapabilityIsObstacle ==
  ASSUME SeedInvariant, DrillInvariant, ~disturbed, stage \in {"post", "sent"},
         at \in 1 .. 8, Items[at] = "capability", Listed(Items[at]) = {},
         \E r \in named["capability"] : Exists(r)
  PROVE  Obstacle
<1>1. PICK r \in named["capability"] : Exists(r)
  OBVIOUS
<1>2. at = 4
  BY DEF Items
<1>3. "capability" \in KeyedItem /\ "workspace" \in KeyedItem /\ r \in Row
  BY DemoAssumption, ItemsAre
<1>4. r \notin Demo("capability")
  BY <1>1 DEF Listed
<1>5. home[r] # found["workspace"]
  BY <1>4 DEF Demo
<1>6. Active(found["workspace"]) /\ found["workspace"] \in named["workspace"]
  BY <1>2, FoundActive, FoundNamed, ItemAt
<1>7. Exists(home[r]) /\ KeysUnique(status)
  BY <1>1, <1>3, SaneIs DEF SeedInvariant, SaneTables, ReferencesStayHome
<1>8. home[r] \notin named["workspace"]
  BY <1>3, <1>5, <1>6, <1>7 DEF KeysUnique, Exists, Active
<1>9. QED
  BY <1>1, <1>8 DEF Obstacle

\* Undisturbed, the only conflicts that a run meets are with a capability of the
\* demo's id in another workspace, and with a binding that was made for the demo's
\* agent, user and capability with another role.
LEMMA ConflictIsObstacle ==
  ASSUME SeedInvariant, DrillInvariant, ~disturbed, stage \in {"post", "sent"},
         at \in 1 .. 8, Taken(Items[at])
  PROVE  Obstacle
<1>1. Items[at] \in Item /\ Listed(Items[at]) = {}
  BY ItemAt DEF SeedInvariant, StillMissing
<1>2. ~(Items[at] \in KeyedItem /\ \E r \in Demo(Items[at]) : Exists(r))
  <2>1. Items[at] \in KeyedItem => Items[at] # "secret"
    BY ItemsAre
  <2>2. QED
    BY <1>1, <2>1 DEF Listed
<1>. SUFFICES ASSUME ~(Items[at] = "capability" /\ \E r \in named["capability"] : Exists(r))
             PROVE  Obstacle
  BY <1>1, CapabilityIsObstacle
<1>3. PICK r \in Demo(Items[at]) : Items[at] \notin KeyedItem /\ ~SlotFree(r, {})
  BY <1>2 DEF Taken, Rivals
<1>4. PICK s \in Row \ {r} : SameSlot(r, s) /\ Active(s)
  BY <1>3 DEF SlotFree
<1>5. Exists(s)
  BY <1>4 DEF Exists, Active
<1>6. CASE Items[at] = "binding"
  <2>1. at = 7
    BY <1>6 DEF Items
  <2>2. /\ r \in Binding /\ home[r] = found[Items[1]]
        /\ binds[r] = [agent |-> found[Items[6]], user |-> found[Items[3]],
                       capability |-> found[Items[4]], role |-> found[Items[5]]]
    BY <1>6, ItemAt DEF Demo
  <2>3. /\ s \in Binding /\ home[s] = found[Items[1]]
        /\ binds[s].agent = found[Items[6]] /\ binds[s].user = found[Items[3]]
        /\ binds[s].capability = found[Items[4]]
    BY <1>4, <2>2, DisjointAssumption DEF SameSlot
  <2>4. s \notin Demo("binding")
    BY <1>1, <1>5, <1>6 DEF Listed
  <2>5. binds[s] \in [agent: Agent, user: User, capability: Capability, role: Role]
    BY <2>3, RowAssumption
  <2>6. binds[s].role # found[Items[5]]
    <3>. SUFFICES ASSUME binds[s].role = found[Items[5]] PROVE FALSE
      OBVIOUS
    <3>1. binds[s] = [agent |-> binds[s].agent, user |-> binds[s].user,
                      capability |-> binds[s].capability, role |-> binds[s].role]
      BY <2>5
    <3>2. s \in Demo("binding")
      BY <2>3, <3>1, ItemAt DEF Demo
    <3>3. QED
      BY <2>4, <3>2
  <2>7. \A j \in {3, 4, 5, 6} : found[Items[j]] \in named[Items[j]]
    BY <2>1, FoundNamed
  <2>8. Active(found[Items[5]])
    BY <2>1, FoundActive
  <2>9. Exists(binds[s].role)
    <3>1. binds[s].role \in References(s)
      BY <2>3, DisjointAssumption DEF References
    <3>2. QED
      BY <1>5, <3>1, SaneIs DEF SeedInvariant, SaneTables, ReferencesStayHome
  <2>10. binds[s].role \notin named["role"]
    BY <2>6, <2>7, <2>8, <2>9, ItemAt, ItemsAre
       DEF SeedInvariant, SaneTables, Sane, KeysUnique, Exists, Active
  <2>11. /\ binds[s].agent \in named["agent"] /\ binds[s].user \in named["user"]
         /\ binds[s].capability \in named["capability"]
    BY <2>3, <2>7, ItemAt
  <2>12. QED
    BY <1>4, <1>5, <2>3, <2>10, <2>11 DEF Obstacle
<1>7. CASE Items[at] = "secret"
  <2>1. r \in Secret
    BY <1>1, <1>7, DemoRows
  <2>2. s \in Secret /\ home[s] = home[r] /\ holds[s] = holds[r]
    BY <1>4, <2>1, DisjointAssumption DEF SameSlot
  <2>3. s \in Demo("secret")
    BY <1>7, <2>2 DEF Demo
  <2>4. QED
    BY <1>1, <1>4, <1>7, <2>3 DEF Listed
<1>8. QED
  BY <1>1, <1>3, <1>6, <1>7, ItemsAre

-----------------------------------------------------------------------------
(* Every step keeps the invariant                                          *)

\* The requests of the seeding, and its file.
LEMMA SeedingKeepsSeed ==
  ASSUME SeedInvariant, DrillInvariant, Seeding
  PROVE  SeedInvariant'
<1>1. SeedStep /\ UNCHANGED drillVars
  BY DEF Seeding
<1>2. Running /\ RehearsalTypeOK /\ Progress /\ {file, token} \subseteq Nat \cup {None}
      /\ late \subseteq Row /\ cut \in BOOLEAN /\ faulted \in BOOLEAN
  BY <1>1, SeedStepStages DEF Running, SeedInvariant, RehearsalTypeOK, DemoTypeOK
<1>3. DumpHeld /\ UNCHANGED <<rehearsing, keep, drill, database, api, trail, whole, touched>>
  BY <1>1 DEF DumpHeld, drillVars
<1>4. CASE Find
  BY <1>1, <1>4, FindKeeps
<1>5. CASE Created
  BY <1>1, <1>5, CreatedKeeps
<1>6. ASSUME Refuse, stage # "rewrite",
             ~faulted /\ ~disturbed => Obstacle \/ TokenLost
      PROVE  SeedInvariant'
  BY <1>2, <1>3, <1>6, FailingKeeps DEF Refuse, otherVars, historyVars
<1>7. CASE FindUnusable
  <2>1. stage = "find" /\ at \in 1 .. 8 /\ Refuse
    BY <1>2, <1>7 DEF FindUnusable, Progress
  <2>2. Obstacle
    BY <1>7, <2>1, UnusableIsObstacle DEF FindUnusable
  <2>3. QED
    BY <1>6, <2>1, <2>2
<1>8. CASE Conflict
  <2>1. stage \in {"post", "sent"} /\ at \in 1 .. 8 /\ Refuse /\ Taken(Items[at])
    BY <1>2, <1>8 DEF Conflict, Progress
  <2>2. ~disturbed => Obstacle
    BY <2>1, ConflictIsObstacle
  <2>3. QED
    BY <1>6, <2>1, <2>2
<1>9. CASE Post
  <2>1. PICK r \in Fresh(Items[at]) : stage' = IF Accepted(r) THEN "sent" ELSE "failed"
    BY <1>9 DEF Post
  <2>2. /\ stage = "post" /\ at \in 1 .. 8
        /\ UNCHANGED <<registryVars, at, found, passed, token, file, late, runs, meddled,
                       faulted, disturbed, entitled, cut>>
    BY <1>2, <1>9 DEF Post, Progress, otherVars, historyVars
  <2>3. CASE stage' = "sent"
    <3>1. Progress'
      BY <1>2, <2>2, <2>3 DEF Progress
    <3>2. StillMissing'
      BY <2>2, <2>3, DemoSame DEF SeedInvariant, StillMissing, Listed, Exists, Active, registryVars
    <3>3. FileKeeps'
      BY <2>2, <2>3 DEF SeedInvariant, FileKeeps
    <3>4. QED
      BY <1>1, <1>2, <2>2, <2>3, <3>1, <3>2, <3>3, StageKeeps
  <2>4. CASE stage' = "failed" /\ ~Accepted(r)
    <3>1. disturbed
      <4>. SUFFICES ASSUME ~disturbed PROVE FALSE
        OBVIOUS
      <4>1. PICK p \in (References(r) \cup {home[r]}) \ {r} : ~Active(p)
        BY <2>4 DEF Accepted
      <4>2. PICK j \in 1 .. (at - 1) : p = found[Items[j]]
        BY <2>2, <4>1, FreshParents
      <4>3. j \in 1 .. 8 /\ j < at /\ at \in 1 .. 9
        BY <2>2
      <4>4. Active(found[Items[j]])
        BY <2>2, <4>3, FoundActive
      <4>5. QED
        BY <4>1, <4>2, <4>4
    <3>2. Refuse
      BY <1>9, <2>4 DEF Post, Refuse
    <3>3. QED
      BY <1>6, <2>2, <3>1, <3>2
  <2>5. QED
    BY <2>1, <2>3, <2>4
<1>10. CASE Rewrite \/ Fill
  <2>1. /\ UNCHANGED <<registryVars, at, found, passed, token, late, runs, meddled,
                       faulted, disturbed, entitled, cut>>
        /\ stage \in {"seeded", "rewrite"} /\ stage' \in {"rewrite", "written"}
        /\ file' \in {None, token} /\ (stage' = "written" => file' = token)
    BY <1>10 DEF Rewrite, Fill, otherVars, historyVars
  <2>2. Progress' /\ StillMissing' /\ FileKeeps'
    BY <1>2, <2>1 DEF Progress, StillMissing, FileKeeps
  <2>3. QED
    BY <1>1, <1>2, <2>1, <2>2, StageKeeps
<1>11. QED
  BY <1>1, <1>4, <1>5, <1>7, <1>8, <1>9, <1>10 DEF SeedStep

\* The ends of the seeding, and what stops a command.
LEMMA EndsKeepSeed ==
  ASSUME SeedInvariant, DrillInvariant, TokenMissing \/ SeedDone \/ Break
  PROVE  SeedInvariant'
<1> USE DEF drillVars, hostVars, containerVars, historyOfData, otherVars, historyVars
<1>1. RehearsalTypeOK /\ Progress /\ file \in Nat \cup {None} /\ late \subseteq Row
      /\ cut \in BOOLEAN /\ faulted \in BOOLEAN
  BY DEF SeedInvariant, RehearsalTypeOK, DemoTypeOK
<1>2. CASE TokenMissing
  <2>1. Running /\ at = 9 /\ at > Len(Items) /\ rehearsing /\ stage = "seeded" /\ passed = None
    BY <1>1, <1>2, ItemsAre DEF TokenMissing, Running, Progress
  <2>2. ~disturbed => TokenLost
    <3>. SUFFICES ASSUME ~disturbed PROVE Exists(TheAgent) /\ ~entitled
      BY <2>1 DEF TokenLost
    <3>1. found[Items[6]] \in Demo("agent") /\ Active(found[Items[6]])
      BY <2>1, FoundActive, FoundNamed, ItemAt
    <3>2. Exists(TheAgent)
      BY <3>1, AgentsOfItems, ItemsAre DEF Exists, Active
    <3>3. Current # None /\ token = None
      BY <1>2, NumbersAreNumbers DEF TokenMissing, SeedInvariant
    <3>4. QED
      BY <2>1, <3>2, <3>3 DEF SeedInvariant, TokenRight, TokenIn, Current, Exists
  <2>3. QED
    BY <1>1, <1>2, <2>1, <2>2, FailingKeeps DEF TokenMissing, Refuse, DumpHeld
<1>3. CASE stage = "written" /\ Complete /\ UNCHANGED drillVars
  <2>1. Progress' /\ StillMissing' /\ FileKeeps'
    BY <1>1, <1>3 DEF Complete, SeedInvariant, Progress, StillMissing, FileKeeps
  <2>2. Running
    BY <1>3 DEF Running
  <2>3. QED
    BY <1>1, <1>3, <2>1, <2>2, StageKeeps DEF Complete
<1>4. CASE drill = "off" /\ drill' = "dump"
           /\ UNCHANGED <<registryVars, demoVars, hostVars, dump, containerVars, trail,
                          historyOfData>>
  <2>1. RehearsalTypeOK'
    BY <1>1, <1>4 DEF RehearsalTypeOK, DemoTypeOK, TypeOK, demoVars, registryVars
  <2>2. QED
    BY <1>4, <2>1, QuietKeeps DEF demoVars, DumpHeld, MayWipe, Dumped
<1>5. CASE Break
  <2>1. late' \subseteq Row
    <3>1. stage = "sent" => Items[at] \in Item
      BY <1>1, ItemAt DEF Progress
    <3>2. stage = "sent" => Fresh(Items[at]) \subseteq Row
      BY <3>1, DemoRows DEF Fresh
    <3>3. QED
      BY <1>1, <1>5, <3>2 DEF Break, Fault
  <2>2. DumpHeld
    BY <1>5 DEF Break, DumpHeld, Dumped
  <2>3. Running /\ faulted' /\ cut' \in BOOLEAN /\ (stage = "rewrite" => cut')
    BY <1>5 DEF Break, Fault
  <2>4. faulted' \in BOOLEAN
    BY <1>5 DEF Break, Fault
  <2>5. QED
    BY <1>5, <2>1, <2>2, <2>3, <2>4, FailingKeeps DEF Break, Fault
<1>6. QED
  BY <1>2, <1>3, <1>4, <1>5 DEF SeedDone

\* A new run knows nothing yet, and has the token it is passed from the file.
LEMMA StartKeepsSeed ==
  ASSUME SeedInvariant, DrillInvariant, Start
  PROVE  SeedInvariant'
<1>1. PICK t \in {file, None} : Begin(t)
  BY DEF Start
<1>2. /\ ~Running /\ runs < MaxRuns
      /\ stage' = "find" /\ at' = 1 /\ found' = [i \in Item |-> None]
      /\ passed' = t /\ token' = None /\ runs' = runs + 1
      /\ faulted' = FALSE /\ disturbed' = FALSE /\ cut' = FALSE
      /\ entitled' = \E a \in named["agent"] : Exists(a) /\ generation[a] = t
      /\ UNCHANGED <<status, generation, file, late, meddled>>
  BY <1>1 DEF Begin, registryVars
<1>3. /\ drill' = "off" /\ whole' = TRUE /\ touched' = FALSE
      /\ {rehearsing', keep'} \subseteq BOOLEAN
      /\ UNCHANGED <<dump, database, api, trail>>
  BY DEF Start, containerVars
<1>4. RehearsalTypeOK'
  <2>1. runs' \in 0 .. MaxRuns
    <3>1. runs \in 0 .. MaxRuns /\ MaxRuns \in Nat
      BY DemoAssumption DEF SeedInvariant, RehearsalTypeOK, DemoTypeOK
    <3>2. QED
      BY <1>2, <3>1
  <2>2. at' \in 1 .. Len(Items) + 1
    BY <1>2, ItemsAre
  <2>3. {passed', token', file'} \subseteq Nat \cup {None}
    BY <1>2 DEF SeedInvariant, RehearsalTypeOK, DemoTypeOK
  <2>4. entitled' \in BOOLEAN
    BY <1>2
  <2>5. TypeOK'
    BY <1>2 DEF SeedInvariant, RehearsalTypeOK, DemoTypeOK, TypeOK
  <2>6. DemoTypeOK'
    BY <1>2, <2>1, <2>2, <2>3, <2>4, <2>5 DEF SeedInvariant, RehearsalTypeOK, DemoTypeOK
  <2>7. QED
    BY <1>3, <2>6 DEF SeedInvariant, RehearsalTypeOK
<1>5. Progress'
  BY <1>2 DEF Progress
<1>6. TokensBounded'
  <2>1. Owed = 0 /\ Owed' \in {0, 1}
    BY <1>2 DEF Owed
  <2>2. (\A a \in Agent : generation[a] \in Nat) /\ meddled \in Nat /\ runs \in Nat
    BY NumbersAreNumbers DEF SeedInvariant
  <2>3. \A a \in Agent : generation'[a] + Owed' <= meddled' + runs'
    BY <1>2, <2>1, <2>2 DEF SeedInvariant, TokensBounded
  <2>4. QED
    BY <1>3, <2>3 DEF TokensBounded, Dumped
<1>7. SaneTables'
  BY <1>2, <1>3 DEF SeedInvariant, SaneTables, Sane, KeysUnique, References, SameSlot, Dumped
<1>8. FoundFits' /\ FoundKept' /\ StillMissing'
  BY <1>2, <1>3 DEF FoundFits, FoundKept, FoundIn, StillMissing, Dumped
<1>9. TokenRight'
  <2>1. entitled' => passed' = Current
    BY <1>2, TheAgentIsNamed DEF Current
  <2>2. at' <= 6 /\ drill' \notin Dumped /\ UNCHANGED generation
    BY <1>2, <1>3 DEF Dumped
  <2>3. QED
    BY <2>1, <2>2 DEF TokenRight, TokenIn, Current, TheAgent
<1>10. FileKeeps' /\ FailureExplained'
  BY <1>1, <1>2 DEF FileKeeps, FailureExplained
<1>11. QED
  BY <1>4, <1>5, <1>6, <1>7, <1>8, <1>9, <1>10 DEF SeedInvariant

\* pg_dump reads tables in order, which hold what the run has found.
LEMMA DumpedKeepsSeed ==
  ASSUME SeedInvariant, DrillInvariant, PgDump
  PROVE  SeedInvariant'
<1> USE DEF SeedInvariant, dataVars, registryVars, demoVars, hostVars, containerVars,
            historyOfData, At, Raised
<1>1. CASE drill' = "failing"
  <2>1. RehearsalTypeOK'
    BY <1>1 DEF PgDump, RehearsalTypeOK, DemoTypeOK, TypeOK
  <2>2. QED
    BY <1>1, <2>1, QuietKeeps DEF demoVars, PgDump, DumpHeld, Dumped, MayWipe
<1>2. CASE drill' # "failing"
  <2>1. /\ stage = "written" /\ drill = "dump" /\ drill' = "down" /\ dump' = Snapshot
        /\ UNCHANGED <<registryVars, demoVars, rehearsing, keep, database, api, trail,
                       whole, touched>>
    BY <1>2 DEF PgDump
  <2>2. RehearsalTypeOK'
    BY <2>1 DEF RehearsalTypeOK, DemoTypeOK, TypeOK
  <2>3. /\ dump'.status = status /\ dump'.generation = generation /\ dump'.trail = trail
    BY <2>1 DEF Snapshot
  <2>4. (\A a \in Agent : generation[a] \in Nat) /\ meddled \in Nat /\ runs \in Nat
    BY NumbersAreNumbers
  <2>5. Owed = 1 /\ Owed' = 1
    BY <2>1 DEF Owed, Running
  <2>6. \A a \in Agent : generation[a] <= meddled + runs
    <3>. SUFFICES ASSUME NEW a \in Agent PROVE generation[a] <= meddled + runs
      OBVIOUS
    <3>1. generation[a] + 1 <= meddled + runs
      BY <2>5 DEF TokensBounded
    <3>2. QED
      BY <2>4, <3>1
  <2>7. TokensBounded'
    <3>1. generation \in [Agent -> Nat]
      BY <2>4 DEF RehearsalTypeOK, DemoTypeOK, TypeOK
    <3>2. QED
      BY <2>1, <2>3, <2>5, <2>6, <3>1 DEF TokensBounded
  <2>8. SaneTables'
    <3>1. Sane(status') /\ Sane(dump'.status)
      BY <2>1, <2>3 DEF SaneTables
    <3>2. dump'.trail \in BOOLEAN
      BY <2>3 DEF RehearsalTypeOK
    <3>3. QED
      BY <3>1, <3>2 DEF SaneTables, Sane, KeysUnique, References, SameSlot
  <2>9. FoundFits'
    BY <2>1, DemoSame DEF FoundFits, Suits
  <2>10. FoundKept'
    <3>1. whole
      BY <2>1 DEF DrillInvariant, WholeAfter
    <3>2. QED
      BY <2>1, <2>3, <3>1 DEF FoundKept, FoundIn
  <2>11. TokenRight'
    BY <2>1, <2>3 DEF TokenRight, TokenIn, TheAgent
  <2>12. Progress' /\ StillMissing' /\ FileKeeps' /\ FailureExplained'
    BY <2>1 DEF Progress, StillMissing, FileKeeps, FailureExplained
  <2>13. QED
    BY <2>2, <2>7, <2>8, <2>9, <2>10, <2>11, <2>12
<1>3. QED
  BY <1>1, <1>2

\* Removing the volumes removes all rows, and leaves the dump.
LEMMA DownKeepsSeed ==
  ASSUME SeedInvariant, DrillInvariant, ComposeDown
  PROVE  SeedInvariant'
<1> USE DEF SeedInvariant, demoVars, hostVars, At, Raised
<1>1. /\ stage = "written" /\ drill = "down" /\ drill' \in {"up db", "failing"}
      /\ UNCHANGED <<demoVars, rehearsing, keep, dump>>
      /\ database' = "gone" /\ api' = "gone"
  BY DEF ComposeDown
<1>2. CASE UNCHANGED <<dataVars, historyOfData>>
  <2>1. UNCHANGED <<registryVars, trail, whole, touched>>
    BY <1>2 DEF dataVars, historyOfData
  <2>2. RehearsalTypeOK'
    BY <1>1, <2>1 DEF RehearsalTypeOK, DemoTypeOK, TypeOK, registryVars
  <2>3. QED
    BY <1>1, <2>1, <2>2, QuietKeeps DEF demoVars, DumpHeld, MayWipe, Dumped
<1>3. CASE Wipe
  <2>1. (\A a \in Agent : generation[a] \in Nat) /\ meddled \in Nat /\ runs \in Nat
    BY NumbersAreNumbers
  <2>2. /\ status' = [r \in Row |-> "absent"]
        /\ generation' = [a \in Agent |-> generation[a] + 1]
        /\ trail' = FALSE /\ whole' = FALSE /\ touched' = FALSE
    BY <1>3 DEF Wipe
  <2>3. Owed = 1 /\ Owed' = 0
    BY <1>1 DEF Owed, Running
  <2>4. \A a \in Agent : /\ generation'[a] \in Nat
                        /\ generation'[a] + Owed' <= meddled' + runs'
    <3>. SUFFICES ASSUME NEW a \in Agent
                  PROVE  /\ generation'[a] \in Nat
                         /\ generation'[a] + Owed' <= meddled' + runs'
      OBVIOUS
    <3>1. generation[a] + 1 <= meddled + runs
      BY <2>3 DEF TokensBounded
    <3>2. generation'[a] = generation[a] + 1 /\ UNCHANGED <<meddled, runs>>
      BY <1>1, <2>2
    <3>3. QED
      BY <2>1, <2>3, <3>1, <3>2
  <2>5. \A a \in Agent : generation'[a] \in 0 .. MaxGeneration
    <3>. SUFFICES ASSUME NEW a \in Agent PROVE generation'[a] \in 0 .. MaxGeneration
      OBVIOUS
    <3>1. UNCHANGED <<meddled, runs>>
      BY <1>1
    <3>2. generation'[a] \in Nat /\ generation'[a] + 0 <= meddled + runs
      BY <2>3, <2>4, <3>1
    <3>3. generation'[a] <= meddled + runs
      BY <2>1, <3>2
    <3>4. QED
      BY <3>2, <3>3, CountsWithinTokens
  <2>6. TypeOK'
    <3>1. generation' \in [Agent -> 0 .. MaxGeneration]
      BY <2>2, <2>5
    <3>2. QED
      BY <2>2, <3>1 DEF TypeOK, Status
  <2>7. RehearsalTypeOK'
    BY <1>1, <2>2, <2>6 DEF RehearsalTypeOK, DemoTypeOK
  <2>8. TokensBounded'
    BY <1>1, <2>4 DEF TokensBounded, Dumped
  <2>9. SaneTables'
    <3>1. Sane(status') /\ Sane(dump'.status) /\ dump'.trail \in BOOLEAN
      BY <1>1, <2>2, EmptySane DEF SaneTables, Dumped
    <3>2. QED
      BY <3>1 DEF SaneTables, Sane, KeysUnique, References, SameSlot
  <2>10. FoundFits'
    BY <1>1, DemoSame DEF FoundFits, Suits
  <2>11. FoundKept'
    BY <1>1, <2>2 DEF FoundKept, FoundIn, Dumped
  <2>12. TokenRight'
    <3>1. status'[TheAgent] = "absent"
      BY <2>2, TheAgentIsNamed
    <3>2. drill' \in Dumped => drill \in Dumped
      BY <1>1 DEF Dumped
    <3>3. QED
      BY <1>1, <3>1, <3>2 DEF TokenRight, TokenIn, TheAgent
  <2>13. Progress' /\ StillMissing' /\ FileKeeps' /\ FailureExplained'
    BY <1>1 DEF Progress, StillMissing, FileKeeps, FailureExplained
  <2>14. QED
    BY <2>7, <2>8, <2>9, <2>10, <2>11, <2>12, <2>13
<1>4. QED
  BY <1>2, <1>3 DEF ComposeDown

\* The restore brings back rows in order, with what the run has found.
LEMMA RestoredKeepsSeed ==
  ASSUME SeedInvariant, DrillInvariant, PgRestore
  PROVE  SeedInvariant'
<1> USE DEF SeedInvariant, demoVars, hostVars, At, Raised
<1>1. /\ stage = "written" /\ drill = "restore" /\ drill' \in {"up api", "failing"}
      /\ UNCHANGED <<demoVars, rehearsing, keep, dump, database, api, touched>>
  BY DEF PgRestore, containerVars
<1>2. CASE UNCHANGED <<dataVars, whole>>
  <2>1. UNCHANGED <<registryVars, trail, whole>>
    BY <1>2 DEF dataVars
  <2>2. RehearsalTypeOK'
    BY <1>1, <2>1 DEF RehearsalTypeOK, DemoTypeOK, TypeOK, registryVars
  <2>3. QED
    BY <1>1, <2>1, <2>2, QuietKeeps DEF demoVars, DumpHeld, MayWipe, Dumped
<1>3. CASE /\ status' = dump.status /\ generation' = dump.generation /\ trail' = dump.trail
           /\ whole' = TRUE
  <2>1. drill \in Dumped /\ drill' \notin Dumped
    BY <1>1 DEF Dumped
  <2>2. /\ dump.generation \in [Agent -> Nat]
        /\ \A a \in Agent : dump.generation[a] <= meddled + runs
    BY <2>1 DEF TokensBounded
  <2>3. Sane(dump.status) /\ dump.trail \in BOOLEAN
    BY <2>1 DEF SaneTables
  <2>4. meddled \in Nat /\ runs \in Nat
    BY NumbersAreNumbers
  <2>5. TypeOK'
    <3>1. \A a \in Agent : dump.generation[a] \in 0 .. MaxGeneration
      BY <2>2, CountsWithinTokens
    <3>2. QED
      BY <1>3, <2>2, <2>3, <3>1 DEF TypeOK, Sane
  <2>6. RehearsalTypeOK'
    BY <1>1, <1>3, <2>3, <2>5 DEF RehearsalTypeOK, DemoTypeOK
  <2>7. TokensBounded'
    <3>1. Owed' = 0
      BY <1>1 DEF Owed
    <3>2. \A a \in Agent : generation'[a] + Owed' <= meddled' + runs'
      <4>. SUFFICES ASSUME NEW a \in Agent
                    PROVE  generation'[a] + Owed' <= meddled' + runs'
        OBVIOUS
      <4>1. generation'[a] = dump.generation[a] /\ UNCHANGED <<meddled, runs>>
        BY <1>1, <1>3
      <4>2. dump.generation[a] \in Nat /\ dump.generation[a] <= meddled + runs
        BY <2>2
      <4>3. QED
        BY <2>4, <3>1, <4>1, <4>2
    <3>3. QED
      BY <2>1, <3>2 DEF TokensBounded
  <2>8. SaneTables'
    <3>1. Sane(status')
      BY <1>3, <2>3
    <3>2. QED
      BY <2>1, <3>1 DEF SaneTables, Sane, KeysUnique, References, SameSlot
  <2>9. FoundFits'
    BY <1>1, DemoSame DEF FoundFits, Suits
  <2>10. FoundKept'
    BY <1>1, <1>3, <2>1 DEF FoundKept, FoundIn
  <2>11. TokenRight'
    BY <1>1, <1>3, <2>1 DEF TokenRight, TokenIn, TheAgent
  <2>12. Progress' /\ StillMissing' /\ FileKeeps' /\ FailureExplained'
    BY <1>1 DEF Progress, StillMissing, FileKeeps, FailureExplained
  <2>13. QED
    BY <2>6, <2>7, <2>8, <2>9, <2>10, <2>11, <2>12
<1>4. QED
  BY <1>2, <1>3 DEF PgRestore

\* The finally block, which decides how the run ends.
LEMMA CleanupKeepsSeed ==
  ASSUME SeedInvariant, DrillInvariant, Cleanup
  PROVE  SeedInvariant'
<1> USE DEF SeedInvariant
<1>1. /\ stage = "written" /\ drill \in {"failing", "returning"} /\ drill' = "off"
      /\ stage' = (IF drill = "returning" THEN "done" ELSE "failed")
      /\ faulted' = (drill = "failing")
      /\ UNCHANGED <<registryVars, at, found, passed, token, file, late, runs, meddled,
                     disturbed, entitled, cut, rehearsing, keep, database, api, trail,
                     whole, touched>>
  BY DEF Cleanup, dataVars, hostVars, containerVars, historyOfData, historyVars, registryVars
<1>2. Running /\ late \subseteq Row /\ cut \in BOOLEAN
  BY <1>1 DEF Running, RehearsalTypeOK, DemoTypeOK
<1>3. CASE drill = "failing"
  BY <1>1, <1>2, <1>3, FailingKeeps DEF DumpHeld, Dumped
<1>4. CASE drill = "returning"
  <2>1. RehearsalTypeOK'
    BY <1>1, <1>4 DEF RehearsalTypeOK, DemoTypeOK, TypeOK, registryVars
  <2>2. TokensBounded'
    <3>1. Owed = 0 /\ Owed' = 0
      BY <1>1, <1>4 DEF Owed, Running
    <3>2. QED
      BY <1>1, <3>1 DEF TokensBounded, Dumped, registryVars
  <2>3. SaneTables'
    BY <1>1 DEF SaneTables, Sane, KeysUnique, References, SameSlot, Dumped, registryVars
  <2>4. FoundFits'
    BY <1>1, DemoSame DEF FoundFits, Suits
  <2>5. FoundKept'
    BY <1>1 DEF FoundKept, FoundIn, Dumped, registryVars
  <2>6. TokenRight'
    BY <1>1 DEF TokenRight, TokenIn, TheAgent, Dumped, registryVars
  <2>7. Progress' /\ StillMissing' /\ FileKeeps' /\ FailureExplained'
    BY <1>1, <1>4 DEF Progress, StillMissing, FileKeeps, FailureExplained
  <2>8. QED
    BY <2>1, <2>2, <2>3, <2>4, <2>5, <2>6, <2>7
<1>5. QED
  BY <1>1, <1>3, <1>4

\* Waits and calls change containers, and no rows.
LEMMA DrillKeepsSeed ==
  ASSUME SeedInvariant, DrillInvariant, DrillStep
  PROVE  SeedInvariant'
<1>1. CASE UpPostgres \/ AwaitPostgres \/ UpServices \/ AwaitApi \/ Sync \/ Smoke
  <2> USE DEF UpPostgres, AwaitPostgres, UpServices, AwaitApi, Sync, Smoke, At, Raised,
              dataVars, hostVars, containerVars, historyOfData
  <2>1. UNCHANGED <<registryVars, demoVars, whole, dump, rehearsing, keep, trail, touched>>
    BY <1>1
  <2>2. /\ drill' \in {"await db", "restore", "await api", "sync", "smoke", "returning", "failing"}
        /\ drill' \in Dumped => drill \in Dumped
    BY <1>1 DEF Dumped
  <2>3. database' \in {database, "initdb"} /\ api' \in {api, "starting"}
    BY <1>1
  <2>4. RehearsalTypeOK'
    BY <2>1, <2>2, <2>3
       DEF SeedInvariant, RehearsalTypeOK, DemoTypeOK, TypeOK, registryVars, demoVars
  <2>5. QED
    BY <2>1, <2>2, <2>4, QuietKeeps DEF demoVars, DumpHeld, MayWipe
<1>2. QED
  BY <1>1, DumpedKeepsSeed, DownKeepsSeed, RestoredKeepsSeed, CleanupKeepsSeed DEF DrillStep

\* A change that is not the run's, and that leaves the tables in order, is noted.
LEMMA DisturbanceKeeps ==
  ASSUME SeedInvariant, Disturb, Sane(status'), TypeOK', late' \subseteq Row,
         meddled' \in 0 .. MaxMeddling,
         \A a \in Agent : generation'[a] + Owed <= meddled' + runs,
         meddled' >= meddled, touched' \in BOOLEAN,
         UNCHANGED <<rehearsing, keep, drill, dump, database, api, trail, whole>>
  PROVE  SeedInvariant'
<1> USE DEF SeedInvariant
<1>1. /\ disturbed' = TRUE
      /\ UNCHANGED <<stage, at, found, passed, token, file, runs, faulted, entitled, cut>>
  BY DEF Disturb
<1>2. RehearsalTypeOK'
  BY <1>1 DEF RehearsalTypeOK, DemoTypeOK
<1>3. TokensBounded'
  <2>1. Owed' = Owed
    BY <1>1 DEF Owed, Running
  <2>2. meddled \in Nat /\ runs \in Nat /\ meddled' \in Nat
    BY <1>2, NumbersAreNumbers
  <2>3. drill' \in Dumped => \A a \in Agent : dump'.generation[a] <= meddled' + runs'
    <3>. SUFFICES ASSUME drill' \in Dumped, NEW a \in Agent
                  PROVE  dump'.generation[a] <= meddled' + runs'
      OBVIOUS
    <3>1. dump.generation[a] \in Nat /\ dump.generation[a] <= meddled + runs
      BY DEF TokensBounded
    <3>2. QED
      BY <1>1, <2>2, <3>1
  <2>4. QED
    BY <1>1, <2>1, <2>3 DEF TokensBounded
<1>4. SaneTables'
  BY DEF SaneTables, Sane, KeysUnique, References, SameSlot
<1>5. FoundFits'
  BY <1>1, DemoSame DEF FoundFits, Suits
<1>6. Progress' /\ FoundKept' /\ StillMissing' /\ TokenRight' /\ FileKeeps' /\ FailureExplained'
  BY <1>1 DEF Progress, FoundKept, StillMissing, TokenRight, FileKeeps, FailureExplained
<1>7. QED
  BY <1>2, <1>3, <1>4, <1>5, <1>6

\* Other admins and late requests.
LEMMA OthersKeepSeed ==
  ASSUME SeedInvariant, Others
  PROVE  SeedInvariant'
<1>1. /\ RehearsalTypeOK /\ TypeOK /\ Sane(status) /\ late \subseteq Row /\ Owed \in {0, 1}
      /\ meddled \in 0 .. MaxMeddling
      /\ UNCHANGED <<rehearsing, keep, drill, dump, database, api, trail, whole>>
      /\ touched' \in BOOLEAN
  BY DEF SeedInvariant, RehearsalTypeOK, DemoTypeOK, SaneTables, Owed, Others, hostVars,
         containerVars
<1>2. (\A a \in Agent : generation[a] \in Nat) /\ meddled \in Nat /\ runs \in Nat
  BY <1>1, NumbersAreNumbers
<1>3. \A a \in Agent : generation[a] + Owed <= meddled + runs
  BY DEF SeedInvariant, TokensBounded
<1>4. CASE Meddle
  <2>1. meddled < MaxMeddling /\ meddled' = meddled + 1 /\ Disturb /\ UNCHANGED late
    BY <1>4 DEF Meddle
  <2>2. PICK r \in Touched :
          \/ \E st \in {"active", "inactive"} :
               (KeyFree(r) /\ Create(r, st)) \/ (status[r] # st /\ SetStatus(r, st))
          \/ r \in Agent /\ RotateToken(r)
    BY <1>4 DEF Meddle
  <2>3. r \in Row
    BY DemoAssumption
  <2>4. meddled' \in 0 .. MaxMeddling /\ meddled' >= meddled
    <3>1. MaxMeddling \in Nat
      BY DemoAssumption
    <3>2. QED
      BY <1>2, <2>1, <3>1
  <2>5. CASE \E st \in {"active", "inactive"} :
               (KeyFree(r) /\ Create(r, st)) \/ (status[r] # st /\ SetStatus(r, st))
    <3>1. TypeOK' /\ Sane(status') /\ UNCHANGED generation
      BY <1>1, <2>3, <2>5, SaneStep
    <3>2. \A a \in Agent : generation'[a] + Owed <= meddled' + runs
      BY <1>1, <1>2, <1>3, <2>1, <3>1
    <3>3. QED
      BY <1>1, <2>1, <2>4, <3>1, <3>2, DisturbanceKeeps
  <2>6. CASE r \in Agent /\ RotateToken(r)
    <3>1. TypeOK' /\ UNCHANGED status
      <4>1. [Next]_registryVars
        BY <2>6 DEF Next
      <4>2. QED
        BY <1>1, <2>6, <4>1, RegistryType DEF RotateToken
    <3>2. Sane(status')
      BY <1>1, <3>1
    <3>3. \A a \in Agent : generation'[a] + Owed <= meddled' + runs
      <4>. SUFFICES ASSUME NEW a \in Agent PROVE generation'[a] + Owed <= meddled' + runs
        OBVIOUS
      <4>1. generation'[a] \in {generation[a], generation[a] + 1}
        BY <1>1, <2>6 DEF RotateToken, TypeOK
      <4>2. QED
        BY <1>1, <1>2, <1>3, <2>1, <4>1
    <3>4. QED
      BY <1>1, <2>1, <2>4, <3>1, <3>2, <3>3, DisturbanceKeeps
  <2>7. QED
    BY <2>2, <2>5, <2>6
<1>5. ASSUME NEW r \in late, Late(r)
      PROVE  SeedInvariant'
  <2>1. r \in Row /\ late' \subseteq Row /\ UNCHANGED meddled
    BY <1>1, <1>5 DEF Late
  <2>2. CASE KeyFree(r) /\ Create(r, "active") /\ Disturb
    <3>1. TypeOK' /\ Sane(status') /\ UNCHANGED generation
      BY <1>1, <2>1, <2>2, SaneStep
    <3>2. meddled' >= meddled /\ \A a \in Agent : generation'[a] + Owed <= meddled' + runs
      BY <1>2, <1>3, <2>1, <3>1
    <3>3. QED
      BY <1>1, <2>1, <2>2, <3>1, <3>2, DisturbanceKeeps
  <2>3. CASE UNCHANGED <<registryVars, stage, at, found, passed, token, file, runs, faulted,
                         historyVars>>
    <3>1. UNCHANGED <<status, generation, stage, at, found, passed, token, file, runs, faulted,
                      disturbed, entitled, cut, meddled>>
      BY <2>1, <2>3 DEF registryVars, historyVars
    <3>2. RehearsalTypeOK'
      BY <1>1, <2>1, <3>1 DEF RehearsalTypeOK, DemoTypeOK, TypeOK
    <3>3. QED
      BY <1>1, <3>1, <3>2, QuietKeeps DEF SeedInvariant, registryVars, DumpHeld, MayWipe
  <2>4. QED
    BY <1>5, <2>2, <2>3 DEF Late
<1>6. QED
  BY <1>4, <1>5 DEF Others

\* The containers and those who start them.
LEMMA SurroundingsKeepSeed ==
  ASSUME SeedInvariant, Operate \/ ComposeUp \/ UNCHANGED vars
  PROVE  SeedInvariant'
<1> USE DEF vars, dataVars, hostVars, historyOfData, drillVars
<1>1. UNCHANGED <<registryVars, demoVars, rehearsing, keep, drill, dump, trail, whole, touched>>
  BY DEF Operate, Boot, ComposeUp
<1>2. database' \in {database, "temporary", "restart", "serving"} /\ api' \in {api, "up"}
  <2>1. CASE Operate
    BY <2>1 DEF Operate, Boot
  <2>2. CASE ComposeUp
    BY <2>2 DEF ComposeUp
  <2>3. QED
    BY <2>1, <2>2
<1>3. RehearsalTypeOK'
  <2>1. DemoTypeOK'
    BY <1>1 DEF SeedInvariant, RehearsalTypeOK, DemoTypeOK, TypeOK, registryVars, demoVars
  <2>2. QED
    BY <1>1, <1>2, <2>1 DEF SeedInvariant, RehearsalTypeOK
<1>4. QED
  BY <1>1, <1>3, QuietKeeps DEF demoVars, DumpHeld, MayWipe

\* Every behaviour starts from tables in order and with no file.
LEMMA SeedInvariantInit == RehearsalInit => SeedInvariant
<1> SUFFICES ASSUME RehearsalInit PROVE SeedInvariant
  OBVIOUS
<1> USE DEF RehearsalInit, DemoInit
<1>1. TypeOK /\ ReferencesStayHome /\ OneActivePerSlot /\ status \in Seed
  BY RegistryInitType, ReferencesInit, SlotInit DEF Init
<1>2. KeysUnique(status)
  BY <1>1, DemoAssumption DEF KeysUnique
<1>3. RehearsalTypeOK
  <2>1. runs \in 0 .. MaxRuns /\ meddled \in 0 .. MaxMeddling
    BY DemoAssumption
  <2>2. at \in 1 .. Len(Items) + 1
    BY ItemsAre
  <2>3. QED
    BY <1>1, <2>1, <2>2 DEF RehearsalTypeOK, DemoTypeOK
<1>4. TokensBounded
  BY DEF TokensBounded, Owed, Running, Dumped, Init
<1>5. SaneTables
  BY <1>1, <1>2, SaneIs DEF SaneTables, Dumped, TypeOK
<1>6. Progress /\ FoundFits /\ FoundKept /\ StillMissing /\ TokenRight /\ FileKeeps
      /\ FailureExplained
  BY DEF Progress, FoundFits, FoundKept, StillMissing, TokenRight, FileKeeps, FailureExplained
<1>7. QED
  BY <1>3, <1>4, <1>5, <1>6 DEF SeedInvariant

\* What a run knows holds at every step of the rehearsal.
THEOREM SeedInvariantHolds == RehearsalSpec => []SeedInvariant
<1>1. DrillInvariant /\ SeedInvariant /\ [RehearsalNext]_vars => SeedInvariant'
  BY SeedingKeepsSeed, EndsKeepSeed, StartKeepsSeed, DrillKeepsSeed, OthersKeepSeed,
     SurroundingsKeepSeed DEF RehearsalNext, RunStep
<1>2. QED
  BY <1>1, SeedInvariantInit, DrillInvariantHolds, PTL DEF RehearsalSpec

\* The command, the drill, the containers and the tables stay in their ranges.
THEOREM RehearsalTypeCorrect == RehearsalSpec => []RehearsalTypeOK
<1>1. SeedInvariant => RehearsalTypeOK
  BY DEF SeedInvariant
<1>2. QED
  BY <1>1, SeedInvariantHolds, PTL

\* What an earlier run leaves half-way does not make a later one fail: a run
\* that neither a fault nor another admin met fails at a row that an admin had
\* altered before, or for want of a token after it has found everything.
THEOREM FailuresAreExplained == RehearsalSpec => []FailureExplained
<1>1. SeedInvariant => FailureExplained
  BY DEF SeedInvariant
<1>2. QED
  BY <1>1, SeedInvariantHolds, PTL

\* The file keeps the only copy of the agent's token through every run that was
\* passed it or issued it, but for one that stops while it rewrites the file.
THEOREM TokenIsKept == RehearsalSpec => []TokenKept
<1>1. ASSUME SeedInvariant PROVE TokenKept
  <2>. SUFFICES ASSUME entitled, ~disturbed, Exists(TheAgent)
                PROVE  /\ stage \in {"written", "done"} => file = Current
                       /\ passed = Current => \/ file = Current
                                              \/ stage = "rewrite" /\ token = Current
                                              \/ cut
    BY DEF TokenKept
  <2> USE <1>1 DEF SeedInvariant
  <2>1. stage \in {"idle", "find", "post", "sent", "seeded", "rewrite", "written", "done", "failed"}
    BY DEF RehearsalTypeOK, DemoTypeOK
  <2>2. CASE stage \in {"rewrite", "written", "done"}
    <3>1. TokenIn(status, generation) /\ at = 9
      BY <2>2 DEF TokenRight, Progress
    <3>2. token = Current
      BY <3>1 DEF TokenIn, Current, Exists
    <3>3. QED
      BY <2>2, <3>2 DEF FileKeeps
  <2>3. CASE stage \in {"find", "post", "sent", "seeded"}
    <3>1. Current # None
      BY NumbersAreNumbers
    <3>2. QED
      BY <2>3, <3>1 DEF FileKeeps
  <2>4. CASE stage \in {"idle", "failed"}
    BY <2>4 DEF FileKeeps
  <2>5. QED
    BY <2>1, <2>2, <2>3, <2>4
<1>2. QED
  BY <1>1, SeedInvariantHolds, PTL

-----------------------------------------------------------------------------
(* What a completed seeding is good for                                    *)

\* With all items found active, the runtime's queries answer for the demo.
LEMMA FoundIsInvocable ==
  ASSUME SeedInvariant, at = 9,
         \A j \in 1 .. 8 : Active(found[Items[j]])
  PROVE  Invocable
<1> DEFINE w == found["workspace"]   app == found["application"]  u == found["user"]
           c == found["capability"]  ro == found["role"]          a == found["agent"]
           b == found["binding"]     s == found["secret"]
<1>1. \A j \in 1 .. 8 :
        /\ found[Items[j]] \in Demo(Items[j]) /\ found[Items[j]] \in Row
        /\ Suits(found[Items[j]])
        /\ j <= 6 => found[Items[j]] \in named[Items[j]] /\ found[Items[j]] \in Table[Items[j]]
  BY FoundNamed
<1>2. Active(w) /\ Active(app) /\ Active(u) /\ Active(c) /\ Active(ro) /\ Active(a)
      /\ Active(b) /\ Active(s)
  BY ItemAt
<1>3. w \in Workspace /\ app \in App /\ u \in User /\ c \in Capability /\ ro \in Role
      /\ a \in Agent
  <2>1. \A j \in 1 .. 6 : found[Items[j]] \in Table[Items[j]]
    BY <1>1
  <2>2. QED
    BY <2>1, ItemAt DEF Table
<1>4. app \in named["application"] /\ c \in named["capability"]
  <2>1. \A j \in 1 .. 6 : found[Items[j]] \in named[Items[j]]
    BY <1>1
  <2>2. QED
    BY <2>1, ItemAt
<1>5. home[w] = w /\ home[app] = w /\ home[u] = w /\ home[c] = w /\ home[ro] = w /\ home[a] = w
  <2>1. home[w] = w
    BY <1>3, RowAssumption
  <2>2. app \in Demo("application") /\ u \in Demo("user") /\ c \in Demo("capability")
        /\ ro \in Demo("role") /\ a \in Demo("agent")
    BY <1>1, ItemAt
  <2>3. QED
    BY <2>1, <2>2 DEF Demo
<1>6. b \in Binding /\ home[b] = w
      /\ binds[b] = [agent |-> a, user |-> u, capability |-> c, role |-> ro]
  BY <1>1, ItemAt DEF Demo
<1>7. s \in Secret /\ home[s] = w /\ holds[s] = [app |-> app, owner |-> u]
  BY <1>1, ItemAt DEF Demo
<1>8. ReferencesStayHome /\ OneActivePerSlot /\ KeysUnique(status)
  BY SaneIs DEF SeedInvariant, SaneTables
<1>9. appOf[c] = app
  <2>1. appOf[c] \in named["application"]
    BY <1>1, <1>3, ItemAt DEF Suits
  <2>2. References(c) = {appOf[c]}
    <3>1. c \notin Binding /\ c \notin Secret
      BY <1>3, DisjointAssumption
    <3>2. QED
      BY <1>3, <3>1 DEF References
  <2>3. Exists(appOf[c])
    <3>1. c \in Row /\ Exists(c)
      BY <1>2, <1>3 DEF Row, Exists, Active
    <3>2. QED
      BY <1>8, <2>2, <3>1 DEF ReferencesStayHome
  <2>4. QED
    BY <1>2, <1>4, <1>8, <2>1, <2>3, ItemsAre DEF KeysUnique, Exists, Active
<1>10. Needed \subseteq permissions[ro]
  BY <1>1, <1>3, ItemAt DEF Suits
<1>. HIDE DEF w, app, u, c, ro, a, b, s
<1>11. GetActiveBinding(w, a, u, c) = {b}
  <2>1. b \in GetActiveBinding(w, a, u, c)
    BY <1>2, <1>5, <1>6, <1>9 DEF GetActiveBinding
  <2>2. ASSUME NEW x \in GetActiveBinding(w, a, u, c) PROVE x = b
    <3>1. x \in Binding /\ Active(x) /\ home[x] = w /\ binds[x].agent = a
          /\ binds[x].user = u /\ binds[x].capability = c
      BY DEF GetActiveBinding
    <3>2. SameSlot(x, b)
      BY <1>6, <3>1 DEF SameSlot
    <3>3. QED
      BY <1>2, <1>6, <1>8, <3>1, <3>2 DEF OneActivePerSlot, Row
  <2>3. QED
    BY <2>1, <2>2
<1>12. ListsCapability(w, a, u, c)
  BY <1>2, <1>5, <1>6, <1>9 DEF ListsCapability, GetActiveCapability
<1>13. s \in GetActiveSecret(w, app, u)
  BY <1>2, <1>5, <1>7 DEF GetActiveSecret
<1>14. binds[b].role = ro
  BY <1>6
<1>15. QED
  <2>1. \A code \in Needed : RoleGrantsPermission(binds[b].role, code)
    BY <1>2, <1>10, <1>14 DEF RoleGrantsPermission
  <2>2. QED
    BY <1>10, <1>11, <1>12, <1>13, <1>14, <2>1 DEF Invocable, w, a, u, c, app

\* Whatever an earlier run, a late request or another admin had left there
\* before it began, a seeding that completes undisturbed leaves a demo that
\* the runtime lists, allows and finds the secret for.
THEOREM CompletionIsUsable == RehearsalSpec => []CompletedMeansUsable
<1>1. SeedInvariant /\ DrillInvariant => CompletedMeansUsable
  <2>. SUFFICES ASSUME SeedInvariant, DrillInvariant, stage \in {"seeded", "rewrite", "done"},
                       ~disturbed
                PROVE  Invocable
    BY DEF CompletedMeansUsable
  <2>1. at = 9
    BY DEF SeedInvariant, Progress
  <2>2. \A j \in 1 .. 8 : Active(found[Items[j]])
    BY <2>1, FoundActive
  <2>3. QED
    BY <2>1, <2>2, FoundIsInvocable
<1>2. QED
  BY <1>1, SeedInvariantHolds, DrillInvariantHolds, PTL

=============================================================================
