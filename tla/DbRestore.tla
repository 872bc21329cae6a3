----------------------------- MODULE DbRestore -----------------------------
(***************************************************************************)
(* `dk <env> db restore` and `dk fetch db` (db_restore.py, fetch_db.py,    *)
(* pgbackrest_db.py, post_db_restore.py and the configuration step of      *)
(* pgbackrest_volume_config.py): archives are fetched and loaded database  *)
(* by database, or pgBackRest rewrites PGDATA offline, in a one-off        *)
(* container, while the db service is down.                                *)
(*                                                                         *)
(* One command runs at a time here; what its Docker calls leave running    *)
(* and what other terminals do to the stack are steps of their own.        *)
(***************************************************************************)
EXTENDS Naturals, FiniteSets

CONSTANTS Db,       \* the databases an archive is configured for
          Hooks,    \* [Db -> SUBSET HookKinds]: the project's post-restore hooks
          Requests  \* the command lines considered, a subset of Request

HookKinds == {"psql", "manage", "restart"}

ASSUME DbAssumption == {"app"} \subseteq Db /\ Db \subseteq {"app", "metabase"}
ASSUME HooksAssumption == Hooks \in [Db -> SUBSET HookKinds]

Request == [kind : {"file", "dumps", "plain", "fetch"},  \* restore --file, --dumps, plain
            dry  : BOOLEAN,
            mode : {"none", "read", "write"},            \* the PGBR_S3_* credentials
            via  : {"stream", "dk"}]                     \* how archives are fetched

ASSUME RequestsAssumption == Requests \subseteq Request

VARIABLES
  archive,   \* [Sources -> ...]: the dump files on this host
  conf,      \* the managed pgBackRest drop-in: for which credentials
  archiving, \* the PostgreSQL drop-in that turns WAL archiving on is there
  db,        \* the db service
  pgdata,    \* "whole", or "torn" while and after a restore did not end
  data,      \* [Db -> ...]: what each database holds
  oneoff,    \* the one-off restore container of the running command
  orphan,    \* one that outlived its command is still at work
  req, pc, todo, outcome,
  before,    \* data when the command began
  scrubbed, hooked,  \* databases whose SQL hooks, all hooks, have run
  sound,     \* every archive to load has been seen to be a dump
  blind      \* why PGDATA may have two writers

files == <<archive, conf, archiving>>
cluster == <<pgdata, data>>
runner == <<oneoff, orphan, blind>>
record == <<scrubbed, hooked>>
asked == <<req, before>>
vars == <<files, db, cluster, runner, record, asked, sound, pc, todo, outcome>>

Sources == Db \cup {"file"}
Scope   == IF req.kind = "file" THEN {"app"} ELSE Db
Src(d)  == IF req.kind = "file" THEN "file" ELSE d
Current == IF "app" \in todo THEN "app" ELSE "metabase"

\* pg_dump_archive_error asks for the magic number, dump_path_usable also for the size.
IsDump(s) == archive[s] \in {"small", "good"}
Usable(s) == archive[s] = "good"

\* pgBackRest is used when neither flag is given and credentials are complete.
ByPgBackRest(r) == r.kind = "plain" /\ r.mode # "none"

HookLabels == {"psql", "web", "manage", "restart"}
LoadLabels == {"ensureDb", "startDb", "drop", "copyIn", "loading"}
ConfLabels == {"volume", "readConf", "writeConf", "writeArchive", "confirm"}
Offline    == {"runOneOff", "restoring", "sweep", "kill", "terminate"}
PgBackRestLabels == {"probe", "stopDb", "recheck", "upDb", "wait"} \cup ConfLabels \cup Offline
Labels == {"idle", "fetch", "check"} \cup HookLabels \cup LoadLabels \cup PgBackRestLabels

Contents == {"old", "gone", "empty", "partial", "restored"}

\* How db may run beside the one-off container, and how that may outlive its command.
Unseen    == {"up", "probe"}
Outliving == {"late", "dropped", "killed"}

StackOK == /\ archive \in [Sources -> {"foreign", "small", "good"}]
           /\ conf \in {"none", "other", "read", "write"}
           /\ archiving \in BOOLEAN
           /\ db \in {"stopped", "recovering", "running"}
           /\ pgdata \in {"whole", "torn"}
           /\ data \in [Db -> Contents]

RunnerOK == /\ oneoff \in {"none", "created", "running", "ok", "bad"}
            /\ orphan \in BOOLEAN
            /\ blind \subseteq Unseen \cup Outliving

ControlOK == /\ pc \in Labels
             /\ todo \subseteq Db
             /\ pc # "idle" => todo # {}
             /\ outcome \in {"ok", "refused", "failed", "cancelled", "killed"}

RecordOK == /\ req \in Request
            /\ before \in [Db -> Contents]
            /\ scrubbed \subseteq Db /\ hooked \subseteq Db
            /\ sound \in BOOLEAN

TypeOK == StackOK /\ RunnerOK /\ ControlOK /\ RecordOK

Init == /\ archive \in [Sources -> {"foreign", "small", "good"}]
        /\ conf \in {"none", "other", "read", "write"}
        /\ archiving \in BOOLEAN
        /\ db \in {"stopped", "running"}
        /\ pgdata = "whole" /\ data = [d \in Db |-> "old"]
        /\ oneoff = "none" /\ orphan = FALSE /\ blind = {}
        /\ req = [kind |-> "fetch", dry |-> FALSE, mode |-> "none", via |-> "stream"]
        /\ pc = "idle" /\ todo = {} /\ outcome = "ok"
        /\ before = data /\ scrubbed = {} /\ hooked = {} /\ sound = FALSE

-----------------------------------------------------------------------------
At(l)       == pc = l
Goto(l)     == pc' = l /\ UNCHANGED <<todo, outcome>>
Finish(how) == pc' = "idle" /\ todo' = {} /\ outcome' = how
Step(from, to) == At(from) /\ Goto(to)
Fails(from)    == At(from) /\ Finish("failed")

\* Where a command goes first; no Docker call precedes this choice
\* (run_unified_db_restore, _ensure_local_dumps).
Entry(r) ==
  CASE r.kind = "fetch" -> "fetch"
    [] r.kind = "file"  -> IF r.dry THEN "ok" ELSE "check"
    [] r.kind = "dumps" -> IF \E d \in Db : ~Usable(d) THEN "refused"
                           ELSE IF r.dry THEN "ok" ELSE "check"
    [] ByPgBackRest(r)  -> IF r.dry THEN "ok" ELSE "volume"
    [] OTHER            -> IF ~Usable("app") THEN "fetch"
                           ELSE IF r.dry THEN "ok" ELSE "check"

\* No two writers are left, and none runs on what they made of PGDATA.
Over == ~orphan /\ (db = "stopped" \/ pgdata = "whole")

Begin(r) ==
  /\ At("idle")
  /\ req' = r
  /\ data' = [d \in Db |-> IF data[d] = "restored" THEN "old" ELSE data[d]]
  /\ before' = data'
  /\ scrubbed' = {} /\ hooked' = {}
  /\ blind' = IF Over THEN {} ELSE blind
  /\ sound' = \A d \in Db : IsDump(IF r.kind = "file" THEN "file" ELSE d)
  /\ \/ Entry(r) \in {"ok", "refused"} /\ Finish(Entry(r))
     \/ /\ Entry(r) \in Labels
        /\ pc' = Entry(r) /\ UNCHANGED outcome
        /\ todo' = IF r.kind = "file" THEN {"app"} ELSE Db
     \* no terminal to confirm in, and no --yes
     \/ Entry(r) = "volume" /\ Finish("refused")
  /\ UNCHANGED <<files, db, pgdata, oneoff, orphan>>

(* The archives. *)

\* run_fetch_database: the streamed kinds look at size and magic before they replace
\* the file, pg_dump through dk replaces it and then looks at the size.
Fetch ==
  /\ At("fetch")
  /\ \E d \in todo :
       \/ Finish("failed") /\ UNCHANGED archive
       \/ /\ req.via = "dk"
          /\ archive' = [archive EXCEPT ![d] = "small"]
          /\ Finish("failed")
       \/ /\ archive' = [archive EXCEPT ![d] = "good"]
          /\ \/ todo # {d} /\ pc' = pc /\ todo' = todo \ {d} /\ UNCHANGED outcome
             \/ /\ todo = {d}
                /\ \/ /\ \/ req.kind = "fetch"
                         \/ req.dry /\ archive'["app"] = "good"
                      /\ Finish("ok")
                   \/ /\ req.kind = "plain" /\ archive'["app"] # "good"
                      /\ Finish("failed")
                   \/ /\ req.kind = "plain" /\ ~req.dry /\ archive'["app"] = "good"
                      /\ pc' = "check" /\ todo' = Db /\ UNCHANGED outcome
  /\ sound' = (sound \/ \A d \in Scope : archive'[Src(d)] \in {"small", "good"})
  /\ UNCHANGED <<conf, archiving, db, cluster, runner, record, asked>>

CheckFirstOnly ==
  /\ \/ IsDump(Src("app")) /\ Step("check", "ensureDb")
     \/ ~IsDump(Src("app")) /\ At("check") /\ Finish("refused")
  /\ UNCHANGED <<files, db, cluster, runner, record, asked, sound>>

\* _check_archives: all of them, before anything is dropped
CheckArchives ==
  /\ \/ (\A d \in Scope : IsDump(Src(d))) /\ Step("check", "ensureDb")
     \/ (\E d \in Scope : ~IsDump(Src(d))) /\ At("check") /\ Finish("refused")
  /\ UNCHANGED <<files, db, cluster, runner, record, asked, sound>>

(* Loading an archive, the app's first. *)

\* ensure_db_service_running: an exec that fails, for whatever reason, leads to an up
EnsureDb ==
  /\ \/ db # "stopped" /\ Step("ensureDb", "drop")
     \/ Step("ensureDb", "startDb")
  /\ UNCHANGED <<files, db, cluster, runner, record, asked, sound>>

StartDb ==
  /\ \/ /\ pgdata = "whole" /\ Step("startDb", "drop")
        /\ db' = "running"
     \/ /\ Fails("startDb")
        /\ db' \in {db} \cup {x \in {"recovering"} : db = "stopped" /\ pgdata = "whole"}
  /\ UNCHANGED <<files, cluster, runner, record, asked, sound>>

\* run_drop_create_app_database: one script, dropdb, createdb, grants
DropCreate ==
  /\ \/ /\ db = "running" /\ Step("drop", "copyIn")
        /\ data' = [data EXCEPT ![Current] = "empty"]
     \/ /\ Fails("drop")
        /\ \/ UNCHANGED data
           \/ /\ db = "running"
              /\ \E c \in {"gone", "empty"} : data' = [data EXCEPT ![Current] = c]
  /\ UNCHANGED <<files, db, pgdata, runner, record, asked, sound>>

\* run_pg_restore up to the exec: the archive is looked at again and copied in
CopyIn ==
  /\ \/ /\ IsDump(Src(Current)) /\ db # "stopped"
        /\ Step("copyIn", "loading")
        /\ data' = [data EXCEPT ![Current] = "partial"]
     \/ Fails("copyIn") /\ UNCHANGED data
  /\ UNCHANGED <<files, db, pgdata, runner, record, asked, sound>>

(* The hooks of one database. *)

Done(l) ==
  /\ At(l)
  /\ hooked' = hooked \cup {Current}
  /\ todo' = todo \ {Current}
  /\ IF todo = {Current}
     THEN pc' = "idle" /\ outcome' = "ok"
     ELSE /\ pc' = IF ByPgBackRest(req) THEN "psql" ELSE "ensureDb"
          /\ UNCHANGED outcome

LoadEnds ==
  /\ \/ /\ db = "running" /\ Step("loading", "psql")
        /\ data' = [data EXCEPT ![Current] = "restored"]
     \/ Fails("loading") /\ UNCHANGED data
  /\ UNCHANGED <<files, db, pgdata, runner, record, asked, sound>>

PsqlIgnoresFailure ==
  /\ \/ /\ Hooks[Current] # {} /\ Step("psql", "web") /\ UNCHANGED hooked
        /\ scrubbed' \in {scrubbed, scrubbed \cup {Current}}
     \/ Hooks[Current] = {} /\ Done("psql") /\ UNCHANGED scrubbed
  /\ UNCHANGED <<files, db, cluster, runner, asked, sound>>

\* run_db_psql_hooks: superuser SQL first, before the web service may start.  A missing
\* placeholder fails here too, before anything has run.
Psql ==
  /\ \/ /\ Hooks[Current] # {} /\ Step("psql", "web") /\ UNCHANGED hooked
        /\ "psql" \in Hooks[Current] => db = "running"
        /\ scrubbed' = scrubbed \cup {Current}
     \/ Hooks[Current] # {} /\ Fails("psql") /\ UNCHANGED record
     \/ Hooks[Current] = {} /\ Done("psql") /\ UNCHANGED scrubbed
  /\ UNCHANGED <<files, db, cluster, runner, asked, sound>>

\* `up -d web --wait` starts what web depends on
WebUp ==
  /\ \/ /\ "manage" \notin Hooks[Current]
        /\ Step("web", "restart") /\ UNCHANGED db
     \/ /\ "manage" \in Hooks[Current] /\ (db # "stopped" \/ pgdata = "whole")
        /\ Step("web", "manage")
        /\ db' = IF db = "stopped" THEN "running" ELSE db
     \/ "manage" \in Hooks[Current] /\ Fails("web") /\ UNCHANGED db
  /\ UNCHANGED <<files, cluster, runner, record, asked, sound>>

Manage ==
  /\ (db = "running" /\ Step("manage", "restart")) \/ Fails("manage")
  /\ UNCHANGED <<files, db, cluster, runner, record, asked, sound>>

RestartServices ==
  /\ \/ Done("restart")
     \/ "restart" \in Hooks[Current] /\ Fails("restart") /\ UNCHANGED hooked
  /\ UNCHANGED <<files, db, cluster, runner, scrubbed, asked, sound>>

(* pgBackRest: the configuration, then the offline restore. *)

EnsureVolume ==
  /\ Step("volume", "readConf") \/ (At("volume") /\ Finish("refused"))
  /\ UNCHANGED <<files, db, cluster, runner, record, asked, sound>>

\* repo_settings_match compares repository and stanza, not keys or mode: what was
\* written for either kind of credentials matches the other.
Matches == conf \in {"read", "write"}

ReadConf ==
  /\ \/ Step("readConf", IF Matches THEN "confirm" ELSE "writeConf")
     \/ At("readConf") /\ Finish("refused")   \* unreadable, or configure declined
  /\ UNCHANGED <<files, db, cluster, runner, record, asked, sound>>

\* materialize_configs: the pgBackRest drop-in first; a broken pipe leaves it cut off
WriteConf ==
  /\ \/ Step("writeConf", "writeArchive") /\ conf' = req.mode
     \/ /\ At("writeConf") /\ Finish("refused")
        /\ conf' \in {conf, "none", "other"}
  /\ UNCHANGED <<archive, archiving, db, cluster, runner, record, asked, sound>>

\* then PostgreSQL's: written in write mode; in read mode removed, unchecked
WriteArchive ==
  /\ \/ /\ Step("writeArchive", "confirm")
        /\ IF req.mode = "write" THEN archiving' = TRUE ELSE archiving' \in {archiving, FALSE}
     \/ /\ req.mode = "write" /\ At("writeArchive") /\ Finish("refused")
        /\ UNCHANGED archiving
  /\ UNCHANGED <<archive, conf, db, cluster, runner, record, asked, sound>>

Confirm ==
  /\ Step("confirm", "probe") \/ (At("confirm") /\ Finish("refused"))
  /\ UNCHANGED <<files, db, cluster, runner, record, asked, sound>>

ProbeOnlyOnce ==
  /\ Step("probe", "runOneOff")
  /\ UNCHANGED <<files, db, cluster, runner, record, asked, sound>>

\* db_service_responds: `exec db true` answers whether it could be run, so an engine
\* that does not answer looks like a db that is down
Unanswered(from) == /\ Step(from, "runOneOff")
                    /\ blind' = IF db = "stopped" THEN blind ELSE blind \cup {"probe"}

ProbeDb ==
  /\ \/ db # "stopped" /\ Step("probe", "stopDb") /\ UNCHANGED blind
     \/ Unanswered("probe")
  /\ UNCHANGED <<files, db, cluster, oneoff, orphan, record, asked, sound>>

StopDb ==
  /\ \/ Step("stopDb", "recheck") /\ db' = "stopped"
     \/ Fails("stopDb") /\ db' \in {db, "stopped"}
  /\ UNCHANGED <<files, cluster, runner, record, asked, sound>>

Recheck ==
  /\ \/ Unanswered("recheck")
     \/ db # "stopped" /\ Fails("recheck") /\ UNCHANGED blind
  /\ UNCHANGED <<files, db, cluster, oneoff, orphan, record, asked, sound>>

RunOneOff ==
  /\ \/ Step("runOneOff", "restoring") /\ oneoff' = "created"
     \/ Fails("runOneOff") /\ UNCHANGED oneoff
  /\ UNCHANGED <<files, db, cluster, orphan, blind, record, asked, sound>>

AwaitIgnoresExitCode ==
  /\ oneoff \in {"ok", "bad"} /\ Step("restoring", "upDb")
  /\ oneoff' = "none"
  /\ UNCHANGED <<files, db, cluster, orphan, blind, record, asked, sound>>

\* db stays down when pgBackRest fails.  The code sees the compose client end: over
\* DOCKER_HOST=ssh a connection that drops ends it while the container is at work, and
\* only an interrupt sweeps.
AwaitOneOff ==
  /\ \/ oneoff = "ok" /\ Step("restoring", "upDb") /\ UNCHANGED <<orphan, blind>>
     \/ oneoff = "bad" /\ Fails("restoring") /\ UNCHANGED <<orphan, blind>>
     \/ oneoff = "running" /\ Fails("restoring")
          /\ orphan' = TRUE /\ blind' = blind \cup {"dropped"}
  /\ oneoff' = "none"
  /\ UNCHANGED <<files, db, cluster, record, asked, sound>>

\* _remove_interrupted_compose_run_db: `docker ps` lists what runs by now
Sweep ==
  /\ Step("sweep", IF oneoff = "running" THEN "kill" ELSE "terminate")
  /\ UNCHANGED <<files, db, cluster, runner, record, asked, sound>>

KillForgetsContainer ==
  /\ Step("kill", "terminate") /\ oneoff' = "killed"
  /\ UNCHANGED <<files, db, cluster, orphan, blind, record, asked, sound>>

KillOneOff ==
  /\ Step("kill", "terminate")
  /\ oneoff' \in {oneoff, IF oneoff = "running" THEN "none" ELSE oneoff}
  /\ UNCHANGED <<files, db, cluster, orphan, blind, record, asked, sound>>

\* then the compose client is ended; a container it has started may go on
Terminate ==
  /\ At("terminate") /\ Finish("cancelled")
  /\ oneoff' = "none"
  /\ \/ UNCHANGED <<orphan, blind>>
     \/ oneoff = "running" /\ orphan' = TRUE /\ blind' = blind \cup {"late"}
  /\ UNCHANGED <<files, db, cluster, record, asked, sound>>

\* `up -d --force-recreate db`; PostgreSQL does not start from a torn PGDATA, whose
\* pg_control pgBackRest writes last
UpDb ==
  /\ \/ /\ Step("upDb", "wait")
        /\ db' = IF pgdata = "whole" THEN "recovering" ELSE "stopped"
     \/ /\ Fails("upDb")
        /\ db' \in {db, IF pgdata = "whole" THEN "recovering" ELSE "stopped"}
  /\ UNCHANGED <<files, cluster, runner, record, asked, sound>>


\* wait_db_logs_for_recovery_ready: a deadline, an end of the log, or Ctrl-C
WaitRecovery ==
  /\ (db = "running" /\ Step("wait", "psql")) \/ Fails("wait")
  /\ UNCHANGED <<files, db, cluster, runner, record, asked, sound>>

-----------------------------------------------------------------------------
(* Around the command. *)

Restored == pgdata' = "whole" /\ data' = [d \in Db |-> "restored"]

\* Ctrl-C while pgBackRest runs (run_interruptible)
Interrupt ==
  /\ Step("restoring", "sweep")
  /\ UNCHANGED <<files, db, cluster, runner, record, asked, sound>>

\* The command is killed, or Ctrl-C meets a call that does not handle it.  The compose
\* client runs in a session of its own and survives.
Killed ==
  /\ pc # "idle" /\ Finish("killed")
  /\ oneoff' = "none"
  /\ \/ oneoff \notin {"created", "running"} /\ UNCHANGED <<orphan, blind, pgdata>>
     \/ /\ oneoff \in {"created", "running"}
        /\ orphan' = TRUE /\ blind' = blind \cup {"killed"} /\ pgdata' = "torn"
  /\ UNCHANGED <<files, db, data, record, asked, sound>>

OneOffStarts ==
  /\ oneoff = "created"
  /\ \/ oneoff' = "running" /\ pgdata' = "torn"
     \/ oneoff' = "bad" /\ UNCHANGED pgdata
  /\ UNCHANGED <<files, db, data, orphan, blind, record, asked, sound, pc, todo, outcome>>

OneOffEnds ==
  /\ oneoff = "running"
  /\ \/ oneoff' = "ok" /\ Restored
     \/ oneoff' = "bad" /\ UNCHANGED cluster
  /\ UNCHANGED <<files, db, orphan, blind, record, asked, sound, pc, todo, outcome>>

OrphanEnds ==
  /\ orphan /\ orphan' = FALSE
  /\ Restored \/ UNCHANGED cluster
  /\ UNCHANGED <<files, db, oneoff, blind, record, asked, sound, pc, todo, outcome>>

Recovers ==
  /\ db = "recovering" /\ db' = "running"
  /\ UNCHANGED <<files, cluster, runner, record, asked, sound, pc, todo, outcome>>

\* db crashes, or another terminal takes the stack down
DbStops ==
  /\ db # "stopped" /\ db' = "stopped"
  /\ UNCHANGED <<files, cluster, runner, record, asked, sound, pc, todo, outcome>>

\* another terminal, a worktree hook or an editor brings the stack up
OtherUp ==
  /\ db = "stopped" /\ pgdata = "whole" /\ db' = "running"
  /\ blind' = IF pc \in Offline THEN blind \cup {"up"} ELSE blind
  /\ UNCHANGED <<files, cluster, oneoff, orphan, record, asked, sound, pc, todo, outcome>>

\* an archive is deleted or overwritten
ArchiveGoes ==
  /\ \E s \in Sources : archive' = [archive EXCEPT ![s] = "foreign"] /\ archive' # archive
  /\ UNCHANGED <<conf, archiving, db, cluster, runner, record, asked, sound, pc, todo, outcome>>

-----------------------------------------------------------------------------
Loading == Fetch \/ CheckArchives \/ EnsureDb \/ StartDb \/ DropCreate \/ CopyIn \/ LoadEnds

HookStep == Psql \/ WebUp \/ Manage \/ RestartServices

Offlining == \/ EnsureVolume \/ ReadConf \/ WriteConf \/ WriteArchive \/ Confirm
             \/ ProbeDb \/ StopDb \/ Recheck \/ RunOneOff \/ AwaitOneOff
             \/ Sweep \/ KillOneOff \/ Terminate \/ UpDb \/ WaitRecovery

Proceed == Loading \/ HookStep \/ Offlining

World == \/ Interrupt \/ Killed \/ OneOffStarts \/ OneOffEnds \/ OrphanEnds
         \/ Recovers \/ DbStops \/ OtherUp \/ ArchiveGoes

Next == (\E r \in Requests : Begin(r)) \/ Proceed \/ World

Spec == Init /\ [][Next]_vars

\* The one wait of a restore that has a deadline (PGBR_RESTORE_RECOVERY_TIMEOUT_SEC).
FairSpec == Spec /\ WF_vars(WaitRecovery)

-----------------------------------------------------------------------------
(* Properties. *)

\* PostgreSQL does not run beside the one-off container, unless another terminal started
\* db after the last look or an exec that failed was taken for a db that is down; and
\* neither works beside a container that outlived its command, which takes a kill, a
\* connection that drops, or a sweep that missed it ("stopping `db` so the data directory
\* is not in use", run_restore_offline; nothing locks it).
OneWriter ==
  /\ oneoff = "running" /\ db # "stopped" => blind \cap Unseen # {}
  /\ orphan /\ (oneoff = "running" \/ db # "stopped") => blind \cap Outliving # {}

\* No database is dropped by a command that did not see all of its archives to be dumps,
\* also when fetching, checking and loading find the files changed in between
\* ("refusing before dropping anything", _check_archives).
NothingDroppedUnsound ==
  ~sound /\ ~ByPgBackRest(req) /\ blind = {} => data = before

\* Why both hold: what a command knows at each of its steps (the inductive invariant of
\* DbRestoreProofs).
OfflineInv ==
  /\ pc \in Offline /\ db # "stopped" => blind \cap Unseen # {}
  /\ orphan => blind \cap Outliving # {}
  /\ oneoff # "none" => pc \in {"restoring", "sweep", "kill", "terminate"}

SoundInv ==
  /\ ByPgBackRest(req) \/ pc \notin PgBackRestLabels
  /\ pc \in LoadLabels \cup HookLabels => sound \/ ByPgBackRest(req)
  /\ pc # "idle" /\ (\A d \in Scope : IsDump(Src(d))) => sound

StepInv == OfflineInv /\ SoundInv

\* A restore that reports success has replaced every database in its scope and run all
\* its hooks, and left PGDATA whole (run_unified_db_restore returns 0).
SuccessIsWhole ==
  [][pc # "idle" /\ pc' = "idle" /\ outcome' = "ok" /\ blind = {}
     /\ req.kind # "fetch" /\ ~req.dry
       => pgdata' = "whole" /\ \A d \in Scope : data'[d] = "restored" /\ d \in hooked']_vars

\* Web is started by a restore only over the restored database, after the project's SQL
\* hooks have cleaned it (README_PGBACKREST.md on db_psql; run_post_db_restore_manage_commands).
ScrubbedBeforeServed ==
  [][At("web") /\ pc' = "manage" /\ blind = {}
       => data[Current] = "restored" /\ Current \in scrubbed]_vars


\* Properties the code does not have: see the README.

\* A restore that goes on does so with configuration written for the credentials it
\* has (ensure_pgbackrest_conf_before_restore: "When materialized config differs from
\* current PGBR_S3_READ_* / PGBR_S3_WRITE_* env", it re-materializes).
ConfigMatchesCredentials ==
  [][At("confirm") /\ pc' = "probe" => conf = req.mode]_vars

\* With READ credentials db is never started with WAL archiving turned on
\* (materialize_configs: a stale drop-in is "never silent").
ReadModeNeverArchives ==
  [][At("upDb") /\ pc' = "wait" /\ req.mode = "read" => ~archiving]_vars

\* After an interrupt no one-off container is left (_remove_interrupted_compose_run_db;
\* README_PGBACKREST.md, "Ctrl-C during restore leaves containers running").
InterruptLeavesNothing ==
  outcome = "cancelled" /\ At("idle") /\ orphan => blind \cap {"dropped", "killed"} # {}

\* --dry-run fetches nothing (run_unified_db_restore).
DryRunFetchesNothing ==
  [][req.dry /\ req.kind = "plain" /\ At("fetch") => \A d \in Db : Usable(d)' => Usable(d)]_vars

\* A fetch that fails leaves a usable archive as it was (_atomic_write_from_stream does,
\* _fetch_via_dk does not).
FailedFetchKeepsArchive ==
  [][At("fetch") /\ outcome' = "failed" /\ pc' = "idle"
       => \A d \in Db : Usable(d) => archive'[d] = "good"]_vars
=============================================================================
