----------------------------- MODULE Rehearsal -----------------------------
(***************************************************************************)
(* The backup and restore rehearsal (cli/backup_restore_workflow.py): seed *)
(* the demo, dump PostgreSQL, remove the volumes, restore the dump into a  *)
(* fresh cluster, start the API and the gateway and run the smoke checks.  *)
(* Composed with DemoSeed, whose command is its first part, and with what  *)
(* the containers do on their own.                                         *)
(***************************************************************************)
EXTENDS DemoSeed

CONSTANTS
  Partial, \* a dump file that pg_dump has not finished
  Unread   \* what has been read before pg_dump has run

\* Each step of another admin, and each run, may outdate a token once.
ASSUME DumpAssumption ==
  /\ Unread \notin {None, Partial}
  /\ MaxMeddling + MaxRuns <= MaxGeneration

VARIABLES
  rehearsing, \* the command that runs is the rehearsal
  keep,       \* GRANTORA_KEEP_BACKUP_DUMP
  drill,      \* the command or wait it is at
  dump,       \* the dump file: None, Partial or a snapshot
  database,   \* the postgres container
  api,        \* the API container
  trail,      \* the audit and usage rows written so far are there
  saved,      \* history: what pg_dump read
  whole,      \* history: the database holds what it held, or what was dumped
  touched     \* history: an admin or a late request after the restore

drillVars == <<rehearsing, keep, drill, dump, database, api, trail, saved, whole,
               touched>>
vars == <<registryVars, demoVars, drillVars>>

hostVars == <<rehearsing, keep>>
historyOfData == <<saved, whole, touched>>
dataVars == <<registryVars, trail>>
containerVars == <<database, api>>

Snapshot == [status |-> status, generation |-> generation, trail |-> trail]

-----------------------------------------------------------------------------
(* The containers.  The postgres image serves a new cluster to local       *)
(* clients first by a temporary server, which pg_isready accepts, and      *)
(* restarts it.                                                            *)

Boot ==
  \/ \E step \in {<<"initdb", "temporary">>, <<"temporary", "restart">>, <<"restart", "serving">>} :
       database = step[1] /\ database' = step[2] /\ UNCHANGED <<api, trail>>
  \/ /\ api = "starting" /\ database = "serving" /\ api' = "up"
     /\ UNCHANGED <<database, trail>>

Operate ==
  /\ Boot
  /\ UNCHANGED <<registryVars, demoVars, hostVars, drill, dump, historyOfData>>

\* Between two commands somebody brings the stack up again.
ComposeUp ==
  /\ ~Running /\ api # "up"
  /\ database' = "serving" /\ api' = "up"
  /\ UNCHANGED <<dataVars, demoVars, hostVars, drill, dump, historyOfData>>

Others ==
  /\ api = "up"
  /\ (Meddle \/ \E r \in late : Late(r))
  /\ touched' = (touched \/ registryVars' # registryVars)
  /\ UNCHANGED <<hostVars, drill, dump, containerVars, trail, saved, whole>>

-----------------------------------------------------------------------------
(* The commands.  Operators named ...Mistake are wrong on purpose and no   *)
(* part of the model.                                                      *)

\* make sources the token file before it starts the command.
Start ==
  /\ \E t \in {file, None} : Begin(t)
  /\ rehearsing' \in BOOLEAN
  /\ keep' \in {FALSE, rehearsing'}
  /\ drill' = "off"
  /\ saved' = Unread /\ whole' = TRUE /\ touched' = FALSE
  /\ UNCHANGED <<dump, containerVars, trail>>

\* The rehearsal needs the token before it rewrites the file.
Seeding ==
  /\ api = "up"
  /\ SeedStep
  /\ rehearsing /\ stage = "seeded" => token # None
  /\ UNCHANGED drillVars

TokenMissing ==
  /\ rehearsing /\ stage = "seeded" /\ token = None
  /\ Refuse
  /\ UNCHANGED drillVars

SeedDone ==
  /\ stage = "written"
  /\ \/ ~rehearsing /\ Complete /\ UNCHANGED drill
     \/ rehearsing /\ drill = "off" /\ drill' = "dump" /\ UNCHANGED <<registryVars, demoVars>>
  /\ UNCHANGED <<hostVars, dump, containerVars, trail, historyOfData>>

\* Before the try block an exception ends the command; killed inside it, the
\* command leaves the dump, as far as that is written.
Break ==
  /\ Fault
  /\ drill' = "off"
  /\ UNCHANGED dump \/ (drill = "dump" /\ dump' = Partial)
  /\ UNCHANGED <<hostVars, containerVars, trail, historyOfData>>

\* One command of the try block ends: on to the next, or to the finally block.
At(here, next) ==
  /\ stage = "written" /\ drill = here
  /\ drill' = next
  /\ UNCHANGED <<demoVars, hostVars>>

Raised(here) == At(here, "failing")

UncheckedDumpMistake ==
  /\ At("dump", "down")
  /\ dump' \in {Snapshot, Partial}
  /\ saved' = Snapshot
  /\ UNCHANGED <<dataVars, containerVars, whole, touched>>

\* pg_dump reads one snapshot; what it fails to finish stays in the file.
PgDump ==
  \/ /\ At("dump", "down")
     /\ dump' = Snapshot /\ saved' = Snapshot
     /\ UNCHANGED <<dataVars, containerVars, whole, touched>>
  \/ /\ Raised("dump")
     /\ dump' \in {dump, Partial}
     /\ UNCHANGED <<dataVars, containerVars, historyOfData>>

\* The volumes are removed and with them the tokens issued so far.
Wipe ==
  /\ status' = [r \in Row |-> "absent"]
  /\ generation' = [a \in Agent |-> generation[a] + 1]
  /\ trail' = FALSE
  /\ whole' = FALSE /\ touched' = FALSE
  /\ UNCHANGED saved

ComposeDown ==
  /\ At("down", "up db") \/ Raised("down")
  /\ database' = "gone" /\ api' = "gone"
  /\ Wipe \/ (drill' = "failing" /\ UNCHANGED <<dataVars, historyOfData>>)
  /\ UNCHANGED dump

UpPostgres ==
  /\ \/ At("up db", "await db") /\ database' = "initdb"
     \/ Raised("up db") /\ UNCHANGED database
  /\ UNCHANGED <<dataVars, dump, api, historyOfData>>

\* pg_isready, once a second until the deadline.
AwaitPostgres ==
  /\ \/ At("await db", "restore") /\ database \in {"temporary", "serving"}
     \/ Raised("await db")
  /\ UNCHANGED <<dataVars, dump, containerVars, historyOfData>>

IgnoredStatusMistake ==
  /\ At("restore", "up api")
  /\ status' = dump.status /\ generation' = dump.generation
  /\ \E t \in {dump.trail, FALSE} : trail' = t
  /\ whole' = TRUE
  /\ UNCHANGED <<dump, containerVars, saved, touched>>

\* Exit status 0 means that every table is back.  Otherwise some may be: the
\* registry's are not modelled in part.
PgRestore ==
  /\ \/ /\ At("restore", "up api")
        /\ database \in {"temporary", "serving"}
        /\ status' = dump.status /\ generation' = dump.generation /\ trail' = dump.trail
        /\ whole' = TRUE
     \/ Raised("restore") /\ UNCHANGED <<dataVars, whole>>
  /\ UNCHANGED <<dump, containerVars, saved, touched>>

\* depends_on waits until postgres is healthy.
UpServices ==
  /\ \/ At("up api", "await api") /\ database \in {"temporary", "serving"} /\ api' = "starting"
     \/ Raised("up api") /\ UNCHANGED api
  /\ UNCHANGED <<dataVars, dump, database, historyOfData>>

NoDeadlineMistake ==
  /\ At("await api", "sync") /\ api = "up"
  /\ UNCHANGED <<dataVars, dump, containerVars, historyOfData>>

\* GET /readyz until the deadline; a connection that the starting container
\* accepts and drops is no WorkflowError and ends the wait at once.
AwaitApi ==
  /\ \/ At("await api", "sync") /\ api = "up"
     \/ Raised("await api")
  /\ UNCHANGED <<dataVars, dump, containerVars, historyOfData>>

\* An answer that reports a failed sync is an answer: nobody looks, and the smoke
\* checks follow.
Sync ==
  /\ (At("sync", "smoke") /\ api = "up") \/ Raised("sync")
  /\ UNCHANGED <<dataVars, dump, containerVars, historyOfData>>

\* Discovery, invocation, OpenAPI and MCP, with the token.  They need the routes:
\* another sync, whose answer is looked at, comes before them.
SmokePasses ==
  /\ api = "up"
  /\ GetActiveAgentByToken(found["agent"], token)
  /\ Invocable

Smoke ==
  /\ (At("smoke", "returning") /\ SmokePasses) \/ Raised("smoke")
  /\ UNCHANGED <<dataVars, dump, containerVars, historyOfData>>

\* The finally block.
Cleanup ==
  /\ stage = "written" /\ drill \in {"failing", "returning"}
  /\ dump' = IF keep THEN dump ELSE None
  /\ stage' = IF drill = "returning" THEN "done" ELSE "failed"
  /\ faulted' = (drill = "failing")
  /\ drill' = "off"
  /\ UNCHANGED <<dataVars, hostVars, containerVars, historyOfData, at, found, passed,
                 token, file, late, runs, meddled, historyVars>>

DrillStep ==
  \/ PgDump \/ ComposeDown \/ UpPostgres \/ AwaitPostgres \/ PgRestore
  \/ UpServices \/ AwaitApi \/ Sync \/ Smoke \/ Cleanup

-----------------------------------------------------------------------------
(* Specification                                                           *)

RehearsalInit ==
  /\ DemoInit
  /\ rehearsing = FALSE /\ keep = FALSE /\ drill = "off"
  /\ dump = None
  /\ database = "serving" /\ api = "up"
  /\ trail = TRUE
  /\ saved = Unread /\ whole = TRUE /\ touched = FALSE

RunStep == Seeding \/ TokenMissing \/ SeedDone \/ DrillStep

RehearsalNext == Start \/ RunStep \/ Break \/ Operate \/ ComposeUp \/ Others

RehearsalSpec == RehearsalInit /\ [][RehearsalNext]_vars

\* A request to a server that is not there fails.
Unreachable == api # "up" /\ stage \in {"find", "post", "sent"} /\ Break

\* Every command and request returns in the end, a wait at its deadline.  The
\* containers owe nothing.
FairSpec == RehearsalSpec /\ WF_vars(RunStep) /\ WF_vars(Unreachable)

-----------------------------------------------------------------------------
(* Properties                                                              *)

RehearsalTypeOK ==
  /\ DemoTypeOK
  /\ {rehearsing, keep, trail, whole, touched} \subseteq BOOLEAN
  /\ drill \in {"off", "dump", "down", "up db", "await db", "restore", "up api", "await api",
                "sync", "smoke", "failing", "returning"}
  /\ database \in {"gone", "initdb", "temporary", "restart", "serving"}
  /\ api \in {"gone", "starting", "up"}

\* The rehearsal has found the agent there and was not passed its token.
TokenLost ==
  /\ rehearsing /\ at > Len(Items)
  /\ Exists(TheAgent)
  /\ passed = None /\ ~entitled

\* A run fails by a fault, because rows change under it, because an admin has
\* altered a demo object or taken the capability's id, or because it rehearses
\* and the token is lost.  The last may be an earlier run's doing: stopped after
\* it has created the agent and before it has written the file, it leaves a
\* token that nobody has.  Nothing else that a run leaves half-way is in the way
\* of the next one.
FailureExplained ==
  stage = "failed" /\ ~faulted /\ ~disturbed => Obstacle \/ TokenLost

\* From the moment the volumes are removed until the database is restored, the
\* dump on the disk is all there is: it is complete, and no end of the run but
\* an exception without GRANTORA_KEEP_BACKUP_DUMP removes it.
Recoverable ==
  ~whole => \/ dump = saved
            \/ stage = "failed" /\ ~keep

\* A rehearsal reports success only when the database holds again what was
\* dumped, the audit and usage rows included, which no smoke check looks at.
SuccessMeansRestored ==
  rehearsing /\ stage = "done" /\ ~touched => Snapshot = saved

\* Whatever container never comes up, a command ends.
EveryRunEnds == Running ~> ~Running

=============================================================================
