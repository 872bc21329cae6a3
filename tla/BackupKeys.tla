----------------------------- MODULE BackupKeys ------------------------------
(***************************************************************************)
(* The write credentials of the two backups of a deploy environment, in    *)
(* its sops file: pgBackRest's half and restic's half.  They come from     *)
(* DigitalOcean Spaces (`dk <env> db|files backup|init`, which provision   *)
(* a half that is missing) or from the Garage store of a closed data       *)
(* centre (`dk <env> dc-backup provision`).                                *)
(*                                                                         *)
(* A command asks the store for a bucket and a key, whose secret is told   *)
(* once, and then sets the fields of the file one sops call at a time: it  *)
(* may fail, be interrupted (Ctrl-C, which runs its `finally`) or be       *)
(* killed before any of them.  doctl, s3cmd, garage and sops are external. *)
(***************************************************************************)
EXTENDS Integers, Sequences, FiniteSets, FiniteSetsExt, SequencesExt

CONSTANTS
    Keys,         \* ids of the access keys of the environment's name
    Duplicates,   \* keys of that name which Garage has from before
    ReadModes,    \* whether the file may hold READ credentials
    MaxTasks      \* bound: commands (a task is one) in a behaviour

ASSUME KeysAssumption ==
    /\ Keys \subseteq Nat \ {0} /\ IsFiniteSet(Keys) /\ Duplicates \subseteq Keys
    /\ ReadModes \subseteq BOOLEAN /\ MaxTasks \in Nat

VARIABLES
    creds,     \* the sops file
    read,      \* it holds READ credentials
    key,       \* the access keys at the two stores
    bucket,    \* stores with the backup bucket
    role,      \* the Garage node has its layout
    boots,     \* full-access bootstrap keys that exist at Spaces
    left,      \* of these, the ones a warning or a kill accounts for
    unheard,   \* of these, the ones whose create was never answered
    repo,      \* per store, the password its restic repository was made with
    cli,       \* key in garage-s3.env on the backup host
    torn,      \* a command stopped between two sets of the file
    task,      \* the command that runs
    result,    \* how the last one ended
    tasks      \* commands begun

keysVars == <<creds, read, key, bucket, role, boots, left, unheard, repo, cli, torn, task, result, tasks>>
stores == <<key, bucket, role, boots, left, unheard, repo, cli>>
file == <<creds, read, torn>>

Stores == {"spaces", "garage"}
Places == Stores \cup {"none"}
AKey == Keys \cup {0}
Passwords == 0..MaxTasks

PgbrFields == <<"place", "path", "key", "secret">>
ResticFields == <<"repo", "pw", "rkey", "rsecret">>
GarageFields == <<"place", "key", "secret", "path">> \o ResticFields
Fields == Range(PgbrFields \o ResticFields)
Empty == [place |-> "none", path |-> FALSE, key |-> 0, secret |-> 0,
          repo |-> "none", pw |-> 0, rkey |-> 0, rsecret |-> 0]
Files == [place : Places, path : BOOLEAN, key : AKey, secret : AKey,
          repo : Places, pw : Passwords, rkey : AKey, rsecret : AKey]

TaskKinds == {"pgbackrest", "restic", "garage"}
TaskSteps == {"idle", "load", "boot", "bucket", "assign", "cleanup", "spaceskey",
          "layout", "gbucket", "gkey", "allow", "cli", "confirm", "write"}
NoTask == [kind |-> "garage", force |-> FALSE, print |-> FALSE, pc |-> "idle",
         failed |-> FALSE, at |-> 0, todo |-> {}, order |-> <<>>, new |-> Empty]
NoResult == [kind |-> "garage", ok |-> FALSE, print |-> FALSE]

KeysTypeOK ==
    /\ creds \in Files
    /\ read \in BOOLEAN
    /\ key \in [Keys -> [at : Places \cup {"gone"}, grant : BOOLEAN, minted : BOOLEAN]]
    /\ bucket \subseteq Stores
    /\ role \in BOOLEAN
    /\ boots \in 0..MaxTasks /\ left \in 0..MaxTasks /\ unheard \in 0..MaxTasks
    /\ repo \in [Stores -> Passwords]
    /\ cli \in AKey
    /\ torn \in BOOLEAN
    /\ task.kind \in TaskKinds /\ task.pc \in TaskSteps /\ task.at \in AKey /\ task.new \in Files
    /\ task.todo \subseteq Fields /\ Range(task.order) \subseteq Fields
    /\ result \in [kind : TaskKinds, ok : BOOLEAN, print : BOOLEAN]
    /\ tasks \in 0..MaxTasks

----------------------------------------------------------------------------
(* What the file holds.  restic's half is taken for complete without the   *)
(* keys of its store: validate_restic_env asks for repository and password.*)

SomePgbr == creds.place # "none" \/ creds.path \/ creds.key # 0 \/ creds.secret # 0
SomeRestic == creds.repo # "none" \/ creds.pw # 0 \/ creds.rkey # 0 \/ creds.rsecret # 0

PgbrConflict == read /\ SomePgbr
ResticConflict == read /\ SomeRestic

PgbrOk == /\ ~read
          /\ creds.place # "none" /\ creds.path /\ creds.key # 0 /\ creds.secret # 0
ResticOk == ~read /\ creds.repo # "none" /\ creds.pw # 0

SpacesLike == creds.place = "spaces" \/ creds.repo = "spaces"

At(store) == {k \in Keys : key[k].at = store}
Unused == {k \in Keys : key[k].at = "none"}

----------------------------------------------------------------------------
(* The end of a command.                                                   *)

EndTask(ok) == /\ task' = NoTask
               /\ result' = [kind |-> task.kind, ok |-> ok, print |-> task.print]

GoTo(pc) == task' = [task EXCEPT !.pc = pc] /\ UNCHANGED result

BeginTask(kind, force, print) ==
    /\ task.pc = "idle" /\ tasks < MaxTasks
    /\ kind # "garage" => ~force /\ ~print
    /\ task' = [NoTask EXCEPT !.kind = kind, !.force = force, !.print = print, !.pc = "load"]
    /\ result' = NoResult
    /\ tasks' = tasks + 1
    /\ UNCHANGED <<stores, file>>

(* No field is set yet; the order is unknown where the fields are a set.   *)
Untouched == IF task.order # <<>> THEN task.todo = Range(task.order)
             ELSE task.todo \in {Range(PgbrFields), Range(ResticFields)}

(* A call fails, or the command is killed: what it has written stays.      *)
TaskStops ==
    /\ task.pc \notin {"idle", "bucket", "assign", "cleanup"}
    /\ torn' = (torn \/ (task.pc = "write" /\ ~Untouched))
    /\ EndTask(FALSE)
    /\ UNCHANGED <<creds, read, stores, tasks>>

(* kill -9 where a `finally` would have deleted the bootstrap key, or      *)
(* Ctrl-C in that `finally`.                                               *)
Killed ==
    /\ task.pc \in {"bucket", "assign", "cleanup"}
    /\ left' = left + 1
    /\ EndTask(FALSE)
    /\ UNCHANGED <<key, bucket, role, boots, unheard, repo, cli, file, tasks>>

----------------------------------------------------------------------------
(* The values a command is about to set.                                   *)

SpacesValues(k, place) ==
    IF task.kind = "pgbackrest"
    THEN [creds EXCEPT !.place = "spaces", !.path = TRUE, !.key = k.key, !.secret = k.secret]
    ELSE [creds EXCEPT !.repo = place, !.pw = tasks, !.rkey = k.key, !.rsecret = k.secret]

FreshPassword == tasks

(* build_credential_values: a restic password in the file is kept.         *)
Password == IF creds.pw # 0 THEN creds.pw ELSE tasks

GarageValues(k, place) ==
    [place |-> place, path |-> TRUE, key |-> k.key, secret |-> k.secret,
     repo |-> place, pw |-> Password, rkey |-> k.key, rsecret |-> k.secret]

(* parse_garage_key_info, _parse_created_spaces_key: both or an error.     *)
Pair(k) == [key |-> k, secret |-> k]
PgbrPair == [key |-> creds.key, secret |-> creds.secret]
ResticPair == [key |-> creds.rkey, secret |-> creds.rsecret]
PgbrPlace == creds.place
ResticPlace == creds.repo
PlaceOr(p, default) == IF p = "none" THEN default ELSE p

(* order is empty where the code walks a set of names.                     *)
ToWrite(values, order, pc) ==
    task' = [task EXCEPT !.pc = pc, !.new = values, !.todo = Range(order), !.order = order]

----------------------------------------------------------------------------
(* ensure_spaces_backup_credentials.                                       *)

ByOrder == IF task.kind = "pgbackrest" THEN PgbrFields ELSE ResticFields

SpacesSkipped ==
    /\ task.pc = "load" /\ task.kind # "garage"
    /\ IF task.kind = "pgbackrest" THEN PgbrOk ELSE ResticOk
    /\ EndTask(TRUE)
    /\ UNCHANGED <<stores, file, tasks>>

(* Conflicting credentials, no tty, or the answer no.                      *)
SpacesRefused ==
    /\ task.pc = "load" /\ task.kind # "garage"
    /\ IF task.kind = "pgbackrest" THEN ~PgbrOk ELSE ~ResticOk
    /\ EndTask(FALSE)
    /\ UNCHANGED <<stores, file, tasks>>

SpacesAgreed ==
    /\ task.pc = "load" /\ task.kind # "garage"
    /\ IF task.kind = "pgbackrest" THEN ~PgbrOk /\ ~PgbrConflict
                                  ELSE ~ResticOk /\ ~ResticConflict
    /\ IF task.kind = "restic" /\ PgbrOk
       THEN ToWrite(SpacesValues(PgbrPair, creds.place), ByOrder, "write")
       ELSE task' = [task EXCEPT !.pc = "boot"]
    /\ UNCHANGED <<result, stores, file, tasks>>

(* _ensure_bucket: a bootstrap key of a new name, the bucket, and in any   *)
(* case the key's deletion, which may fail with a warning.  The create is  *)
(* outside of the `try`: where its answer is lost, cannot be parsed or is  *)
(* not waited for (Ctrl-C), the key stays and nothing names it.            *)
Bootstrap ==
    /\ task.pc = "boot"
    /\ boots' = boots + 1
    /\ \/ GoTo("bucket") /\ UNCHANGED unheard
       \/ EndTask(FALSE) /\ unheard' = unheard + 1
    /\ UNCHANGED <<key, bucket, role, left, repo, cli, file, tasks>>

EnsureBucket ==
    /\ task.pc = "bucket"
    /\ \/ /\ bucket' = bucket \cup {"spaces"}
          /\ task' = [task EXCEPT !.pc = "assign"]
       \/ /\ UNCHANGED bucket
          /\ task' = [task EXCEPT !.pc = "cleanup", !.failed = TRUE]
    /\ UNCHANGED <<result, key, role, boots, left, unheard, repo, cli, file, tasks>>

(* _ensure_bucket_in_project.                                              *)
AssignBucket ==
    /\ task.pc = "assign"
    /\ \E failed \in BOOLEAN : task' = [task EXCEPT !.pc = "cleanup", !.failed = failed]
    /\ UNCHANGED <<result, stores, file, tasks>>

DeleteOnSuccess ==
    /\ task.pc = "cleanup"
    /\ IF task.failed THEN UNCHANGED boots ELSE boots' = boots - 1
    /\ IF task.failed THEN EndTask(FALSE) ELSE GoTo("spaceskey")
    /\ UNCHANGED <<key, bucket, role, left, unheard, repo, cli, file, tasks>>

FailureForgotten ==
    /\ task.pc = "cleanup"
    /\ boots' = boots - 1
    /\ GoTo("spaceskey")
    /\ UNCHANGED <<key, bucket, role, left, unheard, repo, cli, file, tasks>>

DeleteBootstrap ==
    /\ task.pc = "cleanup"
    /\ \/ boots' = boots - 1 /\ UNCHANGED left
       \/ left' = left + 1 /\ UNCHANGED boots
    /\ IF task.failed THEN EndTask(FALSE) ELSE GoTo("spaceskey")
    /\ UNCHANGED <<key, bucket, role, unheard, repo, cli, file, tasks>>

(* _create_spaces_key: a key of that name is refused.  A key whose answer  *)
(* is lost stays, its secret unknown.                                      *)
CreateSpacesKey ==
    /\ task.pc = "spaceskey"
    /\ IF At("spaces") # {}
       THEN EndTask(FALSE) /\ UNCHANGED key
       ELSE \E k \in Unused :
               /\ key' = [key EXCEPT ![k] = [at |-> "spaces", grant |-> TRUE, minted |-> TRUE]]
               /\ \/ EndTask(FALSE)
                  \/ /\ ToWrite(SpacesValues(Pair(k), PlaceOr(creds.place, "spaces")), ByOrder, "write")
                     /\ UNCHANGED result
    /\ UNCHANGED <<bucket, role, boots, left, unheard, repo, cli, file, tasks>>

----------------------------------------------------------------------------
(* cmd_dc_backup_provision.                                                *)

(* _try_install_garage_s3_cli: a failure is a warning, and the env file is *)
(* the last that has the key.                                              *)
CliMayHave(k) == {cli, k}

GarageSkipped ==
    /\ task.pc = "load" /\ task.kind = "garage"
    /\ PgbrOk /\ ResticOk /\ ~task.force /\ ~task.print
    /\ cli' \in CliMayHave(creds.key)
    /\ EndTask(TRUE)
    /\ UNCHANGED <<key, bucket, role, boots, left, unheard, repo, file, tasks>>

GarageRefused ==
    /\ task.pc = "load" /\ task.kind = "garage"
    /\ \/ PgbrConflict \/ ResticConflict
       \/ SpacesLike /\ ~(PgbrOk /\ ResticOk) /\ ~task.force /\ ~task.print
    /\ EndTask(FALSE)
    /\ UNCHANGED <<stores, file, tasks>>

Reuses == ~task.force /\ ~task.print /\ ~SpacesLike

(* One half is there: the other is made from its key and place.            *)
ReusePgbr ==
    /\ task.pc = "load" /\ task.kind = "garage"
    /\ Reuses /\ PgbrOk /\ ~ResticOk
    /\ task' = [task EXCEPT !.pc = "cli", !.at = creds.key, !.todo = Range(ResticFields),
                  !.new = GarageValues(PgbrPair, PgbrPlace)]
    /\ UNCHANGED <<result, stores, file, tasks>>

ReuseRestic ==
    /\ task.pc = "load" /\ task.kind = "garage"
    /\ Reuses /\ ResticOk /\ ~PgbrOk /\ creds.rkey # 0 /\ creds.rsecret # 0
    /\ task' = [task EXCEPT !.pc = "cli", !.at = creds.rkey, !.todo = Range(PgbrFields),
                  !.new = GarageValues(ResticPair, ResticPlace)]
    /\ UNCHANGED <<result, stores, file, tasks>>

NeedGarage ==
    /\ task.pc = "load" /\ task.kind = "garage"
    /\ ~PgbrConflict /\ ~ResticConflict
    /\ \/ task.force \/ task.print
       \/ ~SpacesLike /\ ~PgbrOk /\ ~(ResticOk /\ creds.rkey # 0 /\ creds.rsecret # 0)
    /\ GoTo("layout")
    /\ UNCHANGED <<stores, file, tasks>>

EnsureLayout ==
    /\ task.pc = "layout"
    /\ role' = TRUE
    /\ GoTo("gbucket")
    /\ UNCHANGED <<key, bucket, boots, left, unheard, repo, cli, file, tasks>>

EnsureGarageBucket ==
    /\ task.pc = "gbucket"
    /\ bucket' = bucket \cup {"garage"}
    /\ GoTo("gkey")
    /\ UNCHANGED <<key, role, boots, left, unheard, repo, cli, file, tasks>>

(* ensure_garage_key: Garage allows a second key of a name, so the names   *)
(* are listed first.                                                       *)
NewGarageKey ==
    \E k \in Unused :
       /\ key' = [key EXCEPT ![k] = [at |-> "garage", grant |-> FALSE, minted |-> TRUE]]
       /\ \/ EndTask(FALSE)
          \/ task' = [task EXCEPT !.pc = "allow", !.at = k] /\ UNCHANGED result

EnsureGarageKey ==
    /\ task.pc = "gkey"
    /\ CASE Cardinality(At("garage")) > 1 -> EndTask(FALSE) /\ UNCHANGED key
         [] At("garage") = {} -> NewGarageKey
         [] OTHER -> /\ UNCHANGED key
                     /\ \/ EndTask(FALSE)
                        \/ /\ task' = [task EXCEPT !.pc = "allow", !.at = Min(At("garage"))]
                           /\ UNCHANGED result
    /\ UNCHANGED <<bucket, role, boots, left, unheard, repo, cli, file, tasks>>

AllowKey ==
    /\ task.pc = "allow"
    /\ key' = [key EXCEPT ![task.at].grant = TRUE]
    /\ ToWrite(GarageValues(Pair(task.at), "garage"), GarageFields, "cli")
    /\ UNCHANGED <<result, bucket, role, boots, left, unheard, repo, cli, file, tasks>>

InstallCli ==
    /\ task.pc = "cli"
    /\ cli' \in CliMayHave(task.at)
    /\ IF task.print THEN EndTask(TRUE) ELSE GoTo("confirm")
    /\ UNCHANGED <<key, bucket, role, boots, left, unheard, repo, file, tasks>>

Confirm ==
    /\ task.pc = "confirm"
    /\ GoTo("write") \/ EndTask(FALSE)
    /\ UNCHANGED <<stores, file, tasks>>

----------------------------------------------------------------------------
(* apply_credential_sets: one sops call for each field, in the order of    *)
(* the dict, or in any order where the dict is built from a set.           *)

NextFields == IF task.order = <<>> THEN task.todo
         ELSE {f \in task.todo : \A g \in task.todo :
                  (CHOOSE i \in DOMAIN task.order : task.order[i] = f)
                    <= (CHOOSE i \in DOMAIN task.order : task.order[i] = g)}

SetField ==
    /\ task.pc = "write"
    /\ \E f \in NextFields :
          /\ creds' = [creds EXCEPT ![f] = task.new[f]]
          /\ IF task.todo = {f}
             THEN EndTask(TRUE) /\ torn' = (torn /\ task.order # GarageFields)
             ELSE /\ task' = [task EXCEPT !.todo = @ \ {f}]
                  /\ UNCHANGED <<result, torn>>
    /\ UNCHANGED <<read, stores, tasks>>

----------------------------------------------------------------------------
(* `files init`, and the operator who deletes a key that no file names.    *)

InitRepository ==
    /\ task.pc = "idle" /\ ResticOk /\ repo[creds.repo] = 0
    /\ repo' = [repo EXCEPT ![creds.repo] = creds.pw]
    /\ UNCHANGED <<key, bucket, role, boots, left, unheard, cli, file, task, result, tasks>>

DeleteStray(k) ==
    /\ task.pc = "idle" /\ key[k].at \in Stores
    /\ k \notin {creds.key, creds.secret, creds.rkey, creds.rsecret}
    /\ key' = [key EXCEPT ![k].at = "gone"]
    /\ UNCHANGED <<bucket, role, boots, left, unheard, repo, cli, file, task, result, tasks>>

----------------------------------------------------------------------------
NoKey == [at |-> "none", grant |-> FALSE, minted |-> FALSE]

KeysInit ==
    /\ creds = Empty
    /\ read \in ReadModes
    /\ key \in {[k \in Keys |-> IF k \in old THEN [NoKey EXCEPT !.at = "garage"] ELSE NoKey]
                  : old \in {{}, Duplicates}}
    /\ bucket = {} /\ role = FALSE /\ boots = 0 /\ left = 0 /\ unheard = 0
    /\ repo = [s \in Stores |-> 0]
    /\ cli = 0 /\ torn = FALSE
    /\ task = NoTask /\ result = NoResult /\ tasks = 0

KeysNext ==
    \/ \E k \in TaskKinds, f \in BOOLEAN, p \in BOOLEAN : BeginTask(k, f, p)
    \/ TaskStops \/ Killed
    \/ SpacesSkipped \/ SpacesRefused \/ SpacesAgreed
    \/ Bootstrap \/ EnsureBucket \/ AssignBucket \/ DeleteBootstrap \/ CreateSpacesKey
    \/ GarageSkipped \/ GarageRefused \/ ReusePgbr \/ ReuseRestic \/ NeedGarage
    \/ EnsureLayout \/ EnsureGarageBucket \/ EnsureGarageKey \/ AllowKey
    \/ InstallCli \/ Confirm \/ SetField
    \/ InitRepository \/ \E k \in Keys : DeleteStray(k)

KeysSpec == KeysInit /\ [][KeysNext]_keysVars

----------------------------------------------------------------------------
(* A half can be used: its key and secret are one key, which lives at the  *)
(* half's store with rights on a bucket that exists.                       *)
Works(place, k, secret) ==
    /\ k = secret /\ k \in Keys /\ place \in Stores
    /\ key[k].at = place /\ key[k].grant /\ place \in bucket

PgbrWorks == creds.path /\ Works(creds.place, creds.key, creds.secret)
ResticWorks == creds.pw # 0 /\ Works(creds.repo, creds.rkey, creds.rsecret)

Promised ==
    result.ok /\ ~result.print =>
        /\ result.kind \in {"pgbackrest", "garage"} => PgbrWorks
        /\ result.kind \in {"restic", "garage"} => ResticWorks

(* A command that returns 0 leaves the credentials it is about usable,     *)
(* whether it wrote both halves, one half from the other's key, or found   *)
(* them there; unless some command before stopped between two sets.        *)
SuccessIsUsable == ~torn => Promised

(* The same whatever went before: what a return of 0 "on success or when   *)
(* already configured" says (ensure_spaces_backup_credentials).            *)
ConfiguredIsUsable == Promised

(* restic can read the repository it made, through migrations to Garage,   *)
(* halves written again and writes that break off: the password in the     *)
(* file is the one that repository was made with.                          *)
ResticStaysReadable ==
    ResticOk /\ repo[creds.repo] # 0 => creds.pw = repo[creds.repo]

(* A full-access bootstrap key the command was told of outlives it only    *)
(* with a warning or after a kill, also when making the bucket fails and   *)
(* over any number of commands; the others are those whose create was not  *)
(* answered.                                                               *)
NoBootstrapKeyLeft == task.pc = "idle" => boots = left + unheard

(* The same of every bootstrap key, which the code does not keep: the      *)
(* create is outside of the `try` whose `finally` deletes the key.         *)
NoBootstrapKeyUntold == task.pc = "idle" => boots = left

(* "PGBR_S3_WRITE_* and PGBR_S3_READ_* are mutually exclusive": no command *)
(* that reports success makes the file one that every later command        *)
(* refuses.                                                                *)
ModesStayApart == result.ok => ~PgbrConflict /\ ~ResticConflict
==============================================================================
