----------------------------- MODULE DataCopy -----------------------------
(***************************************************************************)
(* The two commands that replace one stack's database and media by         *)
(* another's while the other stack goes on serving: `dk transfer`          *)
(* (dk_transfer.py) and `dk worktree seed` (worktree.py), with the media   *)
(* methods of media_transfer.py, media_rsync.py and media_pull.py and the  *)
(* dump, drop and restore of pgbackrest_db.py.                             *)
(*                                                                         *)
(* One command runs at a time, beside the source's application, which      *)
(* saves a file before the row that names it and deletes the row before    *)
(* the file.  Every call to Docker, rsync or PostgreSQL may fail, and a    *)
(* command may be killed between any two of its steps.                     *)
(***************************************************************************)
EXTENDS FiniteSets, Naturals

CONSTANTS
  Items,        \* uploads of the source: a file and the row that names it
  Old,          \* what the destination held before
  Kinds,        \* the commands considered, a subset of {"transfer", "seed"}
  BindSource,   \* the source's media is a host bind rather than a volume
  AsSuper,      \* native.reset_db.restore_as_super
  MaxCommands   \* bound on the commands of a behaviour

ASSUME OldIsOther == Old \notin Items
ASSUME KindsAreKnown == Kinds \subseteq {"transfer", "seed"} /\ Kinds # {}
ASSUME SettingsAreBoolean == BindSource \in BOOLEAN /\ AsSuper \in BOOLEAN
ASSUME BoundIsNat == MaxCommands \in Nat

Sides == {"source", "destination"}
Objects == Items \cup {Old}

VARIABLES
  item,      \* [Items -> Stages]: the source's uploads
  volumes,   \* [Sides -> BOOLEAN]: the stack's external volumes exist
  dbUp,      \* [Sides -> BOOLEAN]: the db service answers
  database,  \* the destination's app database: state and rows
  media,     \* the files of the destination's media storage
  writers,   \* the destination's writer services run
  role,      \* the destination's APP_USER is a superuser
  pc, args,  \* the running command
  outcome,   \* how it went so far, and how the last one ended
  faults,    \* preflight collected an error
  notes,     \* what happened to its best-effort steps
  promoted,  \* its restore made APP_USER a superuser
  dump, stage, session,  \* the session directory
  began, first,  \* the uploads when the running copy, the command, began
  commands

source == <<item, volumes, dbUp>>
target == <<database, media, writers, role>>
report == <<outcome, faults, notes>>
workdir == <<dump, stage, session>>
control == <<args, commands, first>>
vars == <<source, target, pc, report, promoted, workdir, began, control>>

Stages == {"new", "saved", "live", "orphan", "gone"}
Args == [kind : Kinds, db : BOOLEAN, media : BOOLEAN, dry : BOOLEAN,
         method : {"rsync", "tar"}, keep : BOOLEAN]
Rebuilding == {"restore", "restoring"}
Copying == {"direct", "stageRsync", "stageTar", "pull", "pushRsync", "pushTar",
            "extract"}
Phases == Sides \cup Rebuilding \cup Copying \cup
  {"idle", "decide", "confirm", "stop", "dump", "drop", "media", "ensure",
   "restart", "hooks", "cleanup"}
Notes == {"stopped", "stopFailed", "unlisted", "startFailed", "skipped"}
DbStates == {"absent", "empty", "partial", "whole"}

TypeOK ==
  /\ item \in [Items -> Stages]
  /\ volumes \in [Sides -> BOOLEAN] /\ dbUp \in [Sides -> BOOLEAN]
  /\ database \in [state : DbStates, rows : SUBSET Objects]
  /\ media \subseteq Objects
  /\ writers \in BOOLEAN /\ role \in BOOLEAN
  /\ pc \in Phases /\ args \in Args
  /\ outcome \in {"none", "ok", "failed", "aborted", "killed"}
  /\ faults \in BOOLEAN /\ notes \subseteq Notes /\ promoted \in BOOLEAN
  /\ dump \subseteq Objects /\ stage \subseteq Objects /\ session \in BOOLEAN
  /\ began \in [Items -> Stages] /\ first \in [Items -> Stages]
  /\ commands \in Nat

FilesOf(uploads) == {i \in Items : uploads[i] \in {"saved", "live", "orphan"}}
Files == FilesOf(item)
Rows == {i \in Items : item[i] = "live"}
Fresh == [i \in Items |-> "new"]
NoArgs == CHOOSE a \in Args : TRUE

\* A source whose volumes are missing has never held anything.
Init ==
  /\ volumes \in [Sides -> BOOLEAN] /\ dbUp \in [Sides -> BOOLEAN]
  /\ \A s \in Sides : dbUp[s] => volumes[s]
  /\ item \in [Items -> {"new", "live"}]
  /\ ~volumes["source"] => item = Fresh
  /\ \/ database = [state |-> "whole", rows |-> {Old}] /\ media = {Old}
     \/ database = [state |-> "empty", rows |-> {}] /\ media = {}
  /\ writers \in BOOLEAN /\ role = FALSE
  /\ pc = "idle" /\ args = NoArgs /\ outcome = "none"
  /\ faults = FALSE /\ notes = {} /\ promoted = FALSE
  /\ dump = {} /\ stage = {} /\ session = FALSE
  /\ began = Fresh /\ first = Fresh /\ commands = 0

-----------------------------------------------------------------------------
(* The source's application *)

\* An upload is saved, named by a row, unnamed and removed, in this order.
Moves ==
  {<<"new", "saved">>, <<"saved", "live">>, <<"live", "orphan">>, <<"orphan", "gone">>}

SourceMoves(i) ==
  /\ volumes["source"]
  /\ \E next \in Stages :
       /\ <<item[i], next>> \in Moves
       /\ item' = [item EXCEPT ![i] = next]
  /\ UNCHANGED <<volumes, dbUp, target, pc, report, promoted, workdir, began,
                 control>>

-----------------------------------------------------------------------------
(* Steps of a command.  Goto moves on; Fail takes the path the code takes  *)
(* when a step returns a code other than 0: `transfer` restarts the        *)
(* writers first, `seed` goes to the `finally` that removes the session.   *)

Goto(phase) == pc' = phase /\ UNCHANGED <<report, control>>

\* Mutant: a failed leg goes straight to the cleanup.
OnFailureCleanup == "cleanup"

OnFailure == IF args.kind = "transfer" THEN "restart" ELSE "cleanup"

Fail ==
  /\ pc' = OnFailure /\ outcome' = "failed"
  /\ UNCHANGED <<faults, notes, control>>

\* Mutant: the media leg is entered by the name of its method.
AfterDbByMethod ==
  IF args.kind = "seed" THEN "hooks" ELSE IF args.media THEN args.method ELSE "restart"

AfterDb ==
  IF args.kind = "seed" THEN "hooks" ELSE IF args.media THEN "media" ELSE "restart"

AfterMedia ==
  IF args.kind = "transfer" THEN "restart" ELSE IF args.db THEN "ensure" ELSE "cleanup"

End(result) ==
  /\ pc' = "idle" /\ outcome' = result
  /\ UNCHANGED <<faults, notes, control>>

\* `dk transfer` checks its arguments and goes on to preflight; `dk worktree
\* seed` has none, and a dry run of it only prints.
Begin ==
  /\ pc = "idle" /\ commands < MaxCommands
  /\ \E a \in Args :
       /\ a.db \/ a.media
       /\ a.kind = "seed" => a.method = "rsync" /\ ~a.keep
       /\ args' = a
       /\ pc' = IF a.kind = "transfer" THEN "source"
                ELSE IF a.dry THEN "idle" ELSE "confirm"
       /\ outcome' = IF a.kind = "seed" /\ a.dry THEN "ok" ELSE "none"
  /\ faults' = FALSE /\ notes' = {}
  /\ dump' = {} /\ stage' = {} /\ session' = FALSE
  /\ first' = item /\ commands' = commands + 1
  /\ UNCHANGED <<source, target, promoted, began>>

-----------------------------------------------------------------------------
(* dk transfer: preflight, confirmation, the destination's writers *)

MediaVolume(s) == args.media /\ ~(s = "source" /\ BindSource)

\* Mutant: an empty bind of the source is not looked at.
\* _collect_transfer_preflight_errors, one side: list the services, create the
\* external volumes that are missing, start db when it does not answer, look at
\* the media.  What it creates and starts stays.
CheckSide(s) ==
  /\ pc = s
  /\ \E listed, ensured, started \in BOOLEAN :
       LET ensures == MediaVolume(s) => ~volumes[s]
           needed == (args.db \/ MediaVolume(s)) /\ ensures
           ready == listed /\ (needed => ensured)
       IN /\ volumes' = [volumes EXCEPT ![s] = @ \/ (needed /\ ready)]
          /\ dbUp' = [dbUp EXCEPT ![s] = @ \/ (ready /\ args.db /\ started)]
          /\ faults' = \/ faults \/ ~ready
                       \/ args.db /\ ~dbUp'[s]
                       \/ s = "source" /\ args.media /\ BindSource /\ Files = {}
  /\ pc' = IF s = "source" THEN "destination" ELSE "decide"
  /\ UNCHANGED <<item, target, outcome, notes, promoted, workdir, began, control>>

\* Preflight errors, a dry run and a refused confirmation end the command.
Decide ==
  /\ pc = "decide"
  /\ \/ faults /\ End("failed") /\ UNCHANGED session
     \/ ~faults /\ args.dry /\ End("ok") /\ UNCHANGED session
     \/ ~faults /\ ~args.dry /\ End("failed") /\ UNCHANGED session
     \/ ~faults /\ ~args.dry /\ Goto("stop") /\ session' = TRUE
  /\ UNCHANGED <<source, target, promoted, dump, stage, began>>

\* Mutant: only the database leg stops the writers.
StopWritersForDb ==
  /\ pc = "stop"
  /\ writers' = (writers /\ ~args.db) /\ notes' = notes \cup {"stopped"}
  /\ pc' = IF args.db THEN "dump" ELSE "media"
  /\ UNCHANGED <<source, database, media, role, outcome, faults, promoted,
                 workdir, began, control>>

\* _stop_dest_writers: a stop that fails is a warning, a listing of the
\* services that fails is an empty list.
StopWriters ==
  /\ pc = "stop"
  /\ \/ writers' = FALSE /\ notes' = notes \cup {"stopped"}
     \/ writers' = writers /\ notes' = notes \cup {"stopped", "stopFailed"}
     \/ writers' = writers /\ notes' = notes \cup {"stopped", "unlisted"}
  /\ pc' = IF args.db THEN "dump" ELSE "media"
  /\ UNCHANGED <<source, database, media, role, outcome, faults, promoted,
                 workdir, began, control>>

\* _start_dest_writers: `up -d` of the whole stack, a failure is a warning.
\* After a failed leg the command removes its session and returns the code.
RestartWriters ==
  /\ pc = "restart"
  /\ \/ /\ writers' = TRUE /\ notes' = notes
        /\ dbUp' = [dbUp EXCEPT !["destination"] = TRUE]
        /\ volumes' = [volumes EXCEPT !["destination"] = TRUE]
     \/ writers' = writers /\ notes' = notes \cup {"startFailed"}
          /\ UNCHANGED <<dbUp, volumes>>
  /\ IF outcome = "failed"
       THEN pc' = "idle" /\ session' = FALSE
       ELSE pc' = (IF args.db THEN "hooks" ELSE "cleanup") /\ UNCHANGED session
  /\ UNCHANGED <<item, database, media, role, outcome, faults, promoted,
                 dump, stage, began, control>>

-----------------------------------------------------------------------------
(* dk worktree seed: confirmation and the database services *)

Confirm ==
  /\ pc = "confirm"
  /\ \/ End("failed") /\ UNCHANGED session
     \/ Goto(IF args.media THEN "media" ELSE "ensure") /\ session' = TRUE
  /\ UNCHANGED <<source, target, promoted, dump, stage, began>>

\* ensure_db_service_running for both stacks, the source's first.
EnsureDatabases ==
  /\ pc = "ensure"
  /\ \E up \in {{}, {"source"}, Sides} :
       /\ dbUp' = [s \in Sides |-> dbUp[s] \/ s \in up]
       /\ volumes' = [s \in Sides |-> volumes[s] \/ s \in up]
       /\ IF dbUp'["source"] /\ dbUp'["destination"] THEN Goto("dump") ELSE Fail
  /\ UNCHANGED <<item, target, promoted, workdir, began>>

-----------------------------------------------------------------------------
(* The database: dump, drop and create, restore *)

\* run_pg_dump_to_file: one snapshot of the source, renamed when complete.
Dump ==
  /\ pc = "dump"
  /\ \/ dbUp["source"] /\ dump' = Rows /\ Goto("drop")
     \/ UNCHANGED dump /\ Fail
  /\ UNCHANGED <<source, target, promoted, stage, session, began>>

\* run_drop_create_app_database: dropdb, createdb and grants in one script that
\* stops at the first error.
DropCreate ==
  /\ pc = "drop"
  /\ \/ /\ dbUp["destination"]
        /\ database' = [state |-> "empty", rows |-> {}]
        /\ Goto("restore")
     \/ /\ database' \in {database} \cup
             [state : IF dbUp["destination"] THEN {"absent", "empty"} ELSE {},
              rows : {{}}]
        /\ Fail
  /\ UNCHANGED <<source, media, writers, role, promoted, workdir, began>>

\* run_pg_restore: copy the archive into the container, then, in one script,
\* make APP_USER a superuser unless it is one and start pg_restore.
Restore ==
  /\ pc = "restore"
  /\ \/ /\ dbUp["destination"]
        /\ database' = [state |-> "partial", rows |-> {}]
        /\ promoted' = (AsSuper /\ ~role) /\ role' = (role \/ AsSuper)
        /\ Goto("restoring")
     \/ UNCHANGED <<database, promoted, role>> /\ Fail
  /\ UNCHANGED <<source, media, writers, workdir, began>>

\* The script ends.  Its EXIT trap takes back what it granted, or fails to and
\* says nothing (ON_ERROR_STOP=0, >/dev/null, || true).
RestoreEnds ==
  /\ pc = "restoring"
  /\ role' \in {role, role /\ ~promoted} /\ promoted' = FALSE
  /\ \/ /\ dbUp["destination"]
        /\ database' = [state |-> "whole", rows |-> dump] /\ Goto(AfterDb)
     \/ /\ \E rows \in SUBSET dump :
             database' = [state |-> "partial", rows |-> rows]
        /\ Fail
  /\ UNCHANGED <<source, media, writers, workdir, began>>

\* The database container stops.  A restore that runs in it fails, and its
\* trap never runs.
DbStops ==
  /\ dbUp["destination"] /\ pc \in {"drop", "restore", "restoring"}
  /\ dbUp' = [dbUp EXCEPT !["destination"] = FALSE]
  /\ promoted' = FALSE
  /\ IF pc = "restoring" THEN Fail ELSE UNCHANGED <<pc, report, control>>
  /\ UNCHANGED <<item, volumes, database, media, writers, role, workdir, began>>

-----------------------------------------------------------------------------
(* The media: rsync between the storages, or through the session, or tar.  *)
(* A copy reads while the source's application writes: it holds every file *)
(* that was there all along and may hold any that was there at some time.  *)

Steady == FilesOf(began) \cap Files
Seen == {i \in Items : began[i] # "gone" /\ item[i] # "new"}
\* Mutant: a partial transfer counts as a copy.
CopiesPartial == SUBSET Seen

Copies == {copy \in SUBSET Seen : Steady \subseteq copy}

\* What a failed rsync --delete of `from` may leave of `before`.
Torn(before, keep, from) ==
  {left \in SUBSET (before \cup from) : before \cap keep \subseteq left}

StartCopy(phase) == Goto(phase) /\ began' = item

\* worktree.py _seed_media skips a source it knows to be empty; then
\* run_transfer_media takes tar, the direct rsync or a staged copy, by the
\* method, by whether rsync is there and by which storages it can reach.
ChooseMedia ==
  /\ pc = "media"
  /\ \/ /\ args.kind = "seed" /\ Files = {}
        /\ pc' = AfterMedia /\ notes' = notes \cup {"skipped"}
        /\ UNCHANGED <<began, outcome, faults, control, volumes>>
     \/ /\ \/ StartCopy("pull")
           \/ args.method = "rsync" /\ StartCopy("direct")
           \/ args.method = "rsync" /\ StartCopy("stageRsync")
           \/ args.method = "rsync" /\ ~BindSource /\ StartCopy("stageTar")
        /\ volumes' = [volumes EXCEPT !["destination"] = TRUE]
  /\ UNCHANGED <<item, dbUp, target, promoted, workdir>>

DirectRsync ==
  /\ pc = "direct"
  /\ \/ media' \in Copies /\ Goto(AfterMedia) /\ UNCHANGED began
     \/ media' \in Torn(media, Steady, Seen) /\ StartCopy("pull")
  /\ UNCHANGED <<source, database, writers, role, promoted, workdir>>

StageRsync ==
  /\ pc = "stageRsync"
  /\ \/ stage' \in Copies /\ Goto("pushRsync") /\ UNCHANGED began
     \/ stage' \in SUBSET Seen /\ StartCopy("pull")
  /\ UNCHANGED <<source, target, promoted, dump, session>>

\* run_pull_media extracts over what the session already holds.
PullTar ==
  /\ pc \in {"stageTar", "pull"}
  /\ \/ /\ stage' \in {stage \cup copy : copy \in Copies}
        /\ Goto(IF pc = "pull" THEN "pushTar" ELSE "pushRsync")
     \/ stage' \in {stage \cup copy : copy \in SUBSET Seen} /\ Fail
  /\ UNCHANGED <<source, target, promoted, dump, session, began>>

\* run_push_media_rsync.  A volume that cannot be inspected is SystemExit: the
\* `finally` of seed removes the session, transfer has none.
PushRsync ==
  /\ pc = "pushRsync"
  /\ \/ media' = stage /\ Goto(AfterMedia) /\ UNCHANGED session
     \/ /\ media' \in Torn(media, stage, stage)
        /\ Goto("pushTar") /\ UNCHANGED session
     \/ /\ UNCHANGED media /\ End("aborted")
        /\ session' = (args.kind = "transfer")
  /\ UNCHANGED <<source, database, writers, role, promoted, dump, stage,
                 began>>

\* Mutant: the archive is extracted over what is there.
PushTarOver ==
  /\ pc = "pushTar" /\ UNCHANGED media
  /\ Goto("extract") \/ Fail
  /\ UNCHANGED <<source, database, writers, role, promoted, workdir, began>>

\* run_push_media: find -delete, and then tar x.
PushTar ==
  /\ pc = "pushTar"
  /\ \/ media' = {} /\ Goto("extract")
     \/ UNCHANGED media /\ Fail
  /\ UNCHANGED <<source, database, writers, role, promoted, workdir, began>>

Extract ==
  /\ pc = "extract"
  /\ \/ media' = media \cup stage /\ Goto(AfterMedia)
     \/ media' \in {media \cup part : part \in SUBSET stage} /\ Fail
  /\ UNCHANGED <<source, database, writers, role, promoted, workdir, began>>

-----------------------------------------------------------------------------
(* The end of a command *)

\* run_post_db_restore_manage_commands starts the web service and runs the
\* project's commands, or does nothing when none are configured.
Hooks ==
  /\ pc = "hooks"
  /\ writers' \in {writers, TRUE}
  /\ outcome' \in {outcome, "failed"}
  /\ pc' = "cleanup"
  /\ UNCHANGED <<source, database, media, role, faults, notes, promoted,
                 workdir, began, control>>

Cleanup ==
  /\ pc = "cleanup"
  /\ session' = (args.keep /\ args.kind = "transfer")
  /\ End(IF outcome = "failed" THEN "failed" ELSE "ok")
  /\ UNCHANGED <<source, target, promoted, dump, stage, began>>

\* The command is killed.  The restore script in the container may be cut off
\* with it, or go on to its trap.
Killed ==
  /\ pc # "idle" /\ End("killed")
  /\ role' \in {role, role /\ ~promoted} /\ promoted' = FALSE
  /\ UNCHANGED <<source, database, media, writers, workdir, began>>

Step ==
  \/ \E s \in Sides : CheckSide(s)
  \/ Decide \/ StopWriters \/ RestartWriters \/ Confirm \/ EnsureDatabases
  \/ Dump \/ DropCreate \/ Restore \/ RestoreEnds
  \/ ChooseMedia \/ DirectRsync \/ StageRsync \/ PullTar \/ PushRsync
  \/ PushTar \/ Extract \/ Hooks \/ Cleanup

Next ==
  \/ Begin \/ Step \/ Killed \/ DbStops
  \/ \E i \in Items : SourceMoves(i)

Spec == Init /\ [][Next]_vars

-----------------------------------------------------------------------------
(* Properties *)

Writing == Rebuilding \cup (Copying \ {"stageRsync", "stageTar", "pull"})
Ended == pc = "idle" /\ outcome \in {"ok", "failed"}
Succeeded == pc = "idle" /\ outcome = "ok" /\ ~args.dry

\* From the drop of the destination's database to the end of its media copy the
\* destination's writers are stopped, unless stopping them failed (a warning)
\* or the services could not be listed (_stop_dest_writers).
QuietRestore ==
  args.kind = "transfer" /\ pc \in Writing /\ writers
    => notes \cap {"stopFailed", "unlisted"} # {}

\* The same, with the warning as the only excuse ("Optional writers to quiet
\* during transfer", dk_transfer.py).
QuietOrSaid ==
  args.kind = "transfer" /\ pc \in Writing /\ writers => "stopFailed" \in notes

\* A command that ended by itself, whatever step of it failed, has started the
\* writers it stopped or warned that it could not, and keeps its session
\* directory only for --keep-workdir.
LeavesNothingBehind ==
  Ended =>
    /\ "stopped" \in notes /\ ~writers => "startFailed" \in notes
    /\ session => args.keep

\* A transfer that is over without having been killed has brought the
\* destination back up or said that it could not (_start_dest_writers).
WritersComeBack ==
  pc = "idle" /\ outcome # "killed" /\ "stopped" \in notes /\ ~writers
    => "startFailed" \in notes

\* A command that reports success has made the destination's database the
\* dumped one, whole, and its media the source's: every file that was there
\* from the command's start on, none that was not there meanwhile, and nothing
\* of what the destination held, whichever copy methods failed before.
SuccessIsTheSource ==
  Succeeded =>
    /\ args.db => database = [state |-> "whole", rows |-> dump]
    /\ args.media /\ "skipped" \notin notes =>
         /\ FilesOf(first) \cap Files \subseteq media
         /\ media \subseteq {i \in Items : first[i] # "gone" /\ item[i] # "new"}

\* After a complete transfer every row of the destination's database has its
\* file, but for files the source has deleted since: transfer dumps before it
\* copies, and uploads save the file first.
RowsHaveFiles ==
  Succeeded /\ args.db /\ args.media /\ args.kind = "transfer"
    => Rows \cap database.rows \subseteq media

\* "... so image rows and the files they point at stay consistent"
\* (worktree_seed's docstring): the same of a seed.
SeedRowsHaveFiles ==
  Succeeded /\ args.db /\ args.media /\ args.kind = "seed" /\ "skipped" \notin notes
    => Rows \cap database.rows \subseteq media

\* A transfer overwrites the destination's media only if the source has had a
\* file since the command began (preflight: "refusing to overwrite destination
\* with no files").
RefusesEmptySource ==
  [][args.kind = "transfer" /\ media' # media
       => \E i \in Items : first[i] # "gone" /\ item[i] # "new"]_vars

\* A successful restore leaves APP_USER without the superuser role that was
\* "temporarily" granted, whether or not its trap could take it back and
\* whatever happened to earlier ones (_pg_restore_promote_app_superuser).
RoleIsTemporary == Succeeded /\ args.db => ~role

\* A dry run makes no change ("transfer: dry-run (no changes, no temp dir)").
DryRunChangesNothing ==
  [][args.dry /\ pc # pc' =>
       UNCHANGED <<volumes, dbUp, database, media, writers, session>>]_vars

=============================================================================
