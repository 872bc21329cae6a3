-------------------------------- MODULE Stack --------------------------------
(***************************************************************************)
(* `dk <env> ...` for an environment whose images are built on the machine *)
(* that runs it: the check of its images and containers against the git    *)
(* checkout, which precedes nearly every command (stale_stack), and what   *)
(* the commands do afterwards: up and wipe with their volumes, images and  *)
(* the configuration of pgBackRest, compose build, manage, and the db      *)
(* commands that configure pgBackRest and create its stanza.               *)
(*                                                                         *)
(* The checkout may move at any time, also while a command runs; images    *)
(* are pruned, containers stop and credentials change between commands.    *)
(* git, docker, compose, PostgreSQL and pgBackRest are external.  The      *)
(* routes an up registers are in LocalProxy, DigitalOcean's volumes in     *)
(* CloudHost, restores in DbRestore.                                       *)
(***************************************************************************)
EXTENDS Integers, Sequences, FiniteSets, SequencesExt

CONSTANTS
    Checkouts,    \* commits HEAD can be at: the image tag and the sha
    Modes,        \* PGBR_S3_* credentials the environment may have
    Kinds,        \* commands that are given
    CoBuilders,   \* other compose services that build web's image
    MaxCommands   \* bound: commands in a behaviour

ASSUME StackAssumption ==
    /\ \A c \in Checkouts : c.sha \in Nat \ {0}
    /\ Modes \subseteq {"none", "read", "write", "both"}
    /\ Kinds \subseteq {"up", "build", "down", "wipe", "manage", "configure", "stanza", "init"}
    /\ CoBuilders \cap {"db", "web"} = {} /\ MaxCommands \in Nat

VARIABLES
    checkout,   \* the commit in the working tree
    creds,      \* mode of the credentials in the sops file
    image,      \* per tag and role, the local image: label and source
    cont,       \* per role, the running container
    vols,       \* external volumes
    cluster,    \* system id of the cluster in PGDATA, 0: none
    conf,       \* the drop-ins of pgBackRest and of PostgreSQL
    archiving,  \* the running PostgreSQL archives
    stanza,     \* per repository, the cluster its stanza was created for
    cmd, outcome, commands

vars == <<checkout, creds, image, cont, vols, cluster, conf, archiving, stanza,
          cmd, outcome, commands>>
images == <<image, cont>>
data == <<vols, cluster, conf, archiving, stanza>>
world == <<checkout, creds>>

Roles == {"db", "web"}
BuildServices == <<"db", "web">>
Tags == {c.tag : c \in Checkouts}
Shas == {c.sha : c \in Checkouts}
Volumes == <<"data", "media", "conf">>
DbVolumesMisnamed == {"data", "wal"}
DbVolumes == {"data", "conf"}

NoImage == [label |-> 0, from |-> 0]
NoContainer == [tag |-> "", label |-> 0, from |-> 0]
Images == [label : Shas \cup {0}, from : Shas] \cup {NoImage}

Present(r) == image[cmd.co.tag][r] # NoImage
Running(r) == cont[r] # NoContainer
ContainerOf(im) == [tag |-> cmd.co.tag, label |-> im.label, from |-> im.from]

(* asked: the services an up or a build names, all of them when it names   *)
(* none; read: the build's label targets came from the compose file.       *)
Idle == [kind |-> "none", dry |-> FALSE, skip |-> FALSE, nobuild |-> FALSE,
         co |-> [tag |-> "", sha |-> 0], mode |-> "none", asked |-> {},
         pc |-> "idle", recreate |-> FALSE, settled |-> FALSE, read |-> FALSE]
NoOutcome == [kind |-> "none", ok |-> FALSE, nobuild |-> FALSE, skip |-> FALSE,
              co |-> Idle.co, mode |-> "none", asked |-> {}, read |-> FALSE]
Steps == {"idle", "hook", "rebuild", "recreate", "volumes", "prebuild", "repo", "archive",
          "build", "start", "exec", "stop", "remove", "dbvols", "dbstart", "stanza", "create"}

TypeOK ==
    /\ checkout \in Checkouts /\ creds \in Modes
    /\ image \in [Tags -> [Roles -> Images]]
    /\ \A r \in Roles : /\ cont[r].tag \in Tags \cup {""}
                        /\ [label |-> cont[r].label, from |-> cont[r].from] \in Images
    /\ vols \subseteq Range(Volumes)
    /\ cluster \in 0..MaxCommands
    /\ conf \in [repo : {"absent", "baseline", "read", "write"}, archive : BOOLEAN]
    /\ archiving \in BOOLEAN
    /\ stanza \in [{"read", "write"} -> -1..MaxCommands]
    /\ cmd.kind \in Kinds \cup {"none"} /\ cmd.pc \in Steps
    /\ cmd.co \in Checkouts \cup {Idle.co} /\ cmd.mode \in Modes \cup {"none"}
    /\ commands \in 0..MaxCommands

----------------------------------------------------------------------------
(* The beginning and the end of a command.                                 *)

End(ok) ==
    /\ cmd' = Idle
    /\ outcome' = [kind |-> cmd.kind, ok |-> ok, nobuild |-> cmd.nobuild,
                   skip |-> cmd.skip, co |-> cmd.co, mode |-> cmd.mode,
                   asked |-> cmd.asked, read |-> cmd.read]

Go(pc) == cmd' = [cmd EXCEPT !.pc = pc] /\ UNCHANGED outcome

(* A call fails or the command is killed.                                  *)
Stops ==
    /\ cmd.pc # "idle"
    /\ End(FALSE)
    /\ UNCHANGED <<world, images, data, commands>>

(* Where handle_env_command sends the command once the check is over.      *)
Body(kind) ==
    CASE kind = "up"                  -> "volumes"
      [] kind = "build"               -> "build"
      [] kind \in {"down", "wipe"}    -> "stop"
      [] kind = "manage"              -> "exec"
      [] kind = "init"                -> "volumes"
      [] OTHER                        -> "repo"   \* configure, stanza: see MaterializeFrom

(* materialize_configs: without credentials PostgreSQL's file goes first.  *)
MaterializeFrom(mode) == IF mode = "none" THEN "archive" ELSE "repo"
AfterChecksUnconfigured(kind, mode) ==
    IF Body(kind) = "repo" THEN IF kind = "stanza" THEN "stanza" ELSE MaterializeFrom(mode)
    ELSE Body(kind)
AfterChecks(kind, mode) == IF Body(kind) = "repo" THEN MaterializeFrom(mode) ELSE Body(kind)

(* should_ensure_stack_checkout.                                           *)
Checked(kind, skip) == ~skip /\ kind \notin {"down", "wipe"}

(* _dry_run_exits_before_compose_env, asked for the compose path alone.    *)
DryRunExits(kind) == kind \in {"up", "build", "down"}

Begin(kind, dry, skip, nobuild, asked) ==
    /\ cmd.pc = "idle" /\ commands < MaxCommands
    /\ nobuild => kind = "up"
    /\ asked = Roles \/ (asked # {} /\ kind \in {"up", "build"})
    /\ commands' = commands + 1
    /\ IF dry /\ DryRunExits(kind)
       THEN cmd' = Idle
       ELSE cmd' = [Idle EXCEPT
              !.kind = kind, !.dry = dry, !.skip = skip, !.nobuild = nobuild,
              !.co = checkout, !.mode = creds, !.asked = asked,
              !.pc = IF Checked(kind, skip) THEN "hook" ELSE AfterChecks(kind, creds)]
    /\ outcome' = NoOutcome
    /\ UNCHANGED <<world, images, data>>

----------------------------------------------------------------------------
(* Building and starting.  The labels come from what the command read when *)
(* it began, the contents from the working tree at the time of the build.  *)

(* Without the resolved compose file only the roles are labelled.          *)
LabelTargetsRoles(read) == Roles
LabelTargets(read) == Roles \cup IF read THEN CoBuilders ELSE {}

Builders(r) == IF r = "web" THEN {r} \cup CoBuilders ELSE {r}

(* Of the services that build one image the last to finish owns it.        *)
Built(service, read) ==
    [label |-> IF service \in LabelTargets(read) THEN cmd.co.sha ELSE 0,
     from  |-> checkout.sha]

(* docker compose build of the three roles: some images may be built       *)
(* before another fails.                                                   *)
BuildRoles(next) ==
    \E S \in SUBSET Roles :
        /\ image' = [image EXCEPT ![cmd.co.tag] =
                        [r \in Roles |-> IF r \in S THEN Built(r, FALSE) ELSE @[r]]]
        /\ IF S = Roles THEN cmd' = next /\ UNCHANGED outcome ELSE End(FALSE)

(* Compose takes along what the services it is given depend on.            *)
Along(S) == IF "web" \in S THEN Roles ELSE S

(* The same for the services asked for, the co-builders included.          *)
BuildAsked(read, next) ==
    \E S \in SUBSET Along(cmd.asked), owner \in [Roles -> Roles \cup CoBuilders] :
        /\ \A r \in Roles : owner[r] \in Builders(r)
        /\ image' = [image EXCEPT ![cmd.co.tag] =
                        [r \in Roles |-> IF r \in S THEN Built(owner[r], read) ELSE @[r]]]
        /\ IF cmd.asked \subseteq S THEN next ELSE End(FALSE)

(* compose up: a container whose image is still the same goes on running.  *)
Start(S) ==
    /\ \A r \in S : Present(r)
    /\ (IF S \subseteq {"db"} THEN DbVolumes ELSE Range(Volumes)) \subseteq vols
    /\ cont' = [r \in Roles |-> IF r \in S THEN ContainerOf(image[cmd.co.tag][r]) ELSE cont[r]]
    /\ LET fresh == cont'["db"] # cont["db"]
       IN  /\ archiving' = IF fresh THEN conf.archive ELSE archiving
           /\ cluster' = IF fresh /\ cluster = 0 THEN commands ELSE cluster

ComposeUp(all, next) ==
    \E S \in SUBSET Along(all) : Start(S) /\ IF all \subseteq S THEN next ELSE End(FALSE)

----------------------------------------------------------------------------
(* ensure_stack_matches_checkout.                                          *)

Mismatch(tag, label) == label = 0 \/ tag # cmd.co.tag \/ label # cmd.co.sha

(* What a check gets to see: the compose file may not resolve, docker may  *)
(* not show a running container or an image that is there.                 *)
Looks == [file : BOOLEAN, conts : SUBSET Roles, images : SUBSET Roles]

(* A running container is looked at instead of the image.                  *)
Shown(look, r) == Running(r) /\ r \in look.conts
Stale(look, r) ==
    IF Shown(look, r) THEN Mismatch(cont[r].tag, cont[r].label)
    ELSE r \notin look.images \/ Mismatch(cmd.co.tag, image[cmd.co.tag][r].label)

StaleServices(look) ==
    SelectSeq(BuildServices, LAMBDA r : look.file /\ Stale(look, r))

(* pre_up_build_is_redundant with stack_db_image_present, which may not    *)
(* find an image that is there.                                            *)
BuildIsRedundantAlways(found) == ~cmd.dry
BuildIsRedundant(found) == ~cmd.dry /\ found /\ Present("db")

Settle(found) ==
    [cmd EXCEPT !.pc = AfterChecks(cmd.kind, cmd.mode), !.settled = BuildIsRedundant(found)]

StackMatches ==
    /\ cmd.pc = "hook" /\ \E look \in Looks : StaleServices(look) = <<>>
    /\ \E found \in BOOLEAN : cmd' = Settle(found)
    /\ UNCHANGED <<world, images, data, outcome, commands>>

StaleReported ==
    /\ cmd.pc = "hook" /\ cmd.dry
    /\ \E look \in Looks : StaleServices(look) # <<>>
    /\ \E found \in BOOLEAN : cmd' = Settle(found)
    /\ UNCHANGED <<world, images, data, outcome, commands>>

(* The first stale service decides whether containers are recreated; an up *)
(* recreates them itself and loses its --no-build.                         *)
StaleFound ==
    /\ cmd.pc = "hook" /\ ~cmd.dry
    /\ \E look \in Looks :
        /\ StaleServices(look) # <<>>
        /\ cmd' = [cmd EXCEPT !.pc = "rebuild", !.nobuild = FALSE,
                              !.recreate = Shown(look, Head(StaleServices(look)))
                                           /\ cmd.kind # "up"]
    /\ UNCHANGED <<world, images, data, outcome, commands>>

Rebuild ==
    /\ cmd.pc = "rebuild"
    /\ \E found \in BOOLEAN :
        BuildRoles(IF cmd.recreate THEN [cmd EXCEPT !.pc = "recreate"]
                   ELSE [cmd EXCEPT !.pc = AfterChecks(cmd.kind, cmd.mode), !.settled = found])
    /\ UNCHANGED <<world, cont, data, commands>>

Recreate ==
    /\ cmd.pc = "recreate"
    /\ \E found \in BOOLEAN : ComposeUp(Roles, cmd' = Settle(found) /\ UNCHANGED outcome)
    /\ UNCHANGED <<world, image, vols, conf, stanza, commands>>

----------------------------------------------------------------------------
(* up: volumes, images, configuration, then compose.                       *)

(* ensure_external_stack_volumes creates them in order until one fails.    *)
EnsureVolumes ==
    /\ cmd.pc = "volumes"
    /\ \E n \in 0..Len(Volumes) :
        /\ vols' = vols \cup Range(SubSeq(Volumes, 1, n))
        /\ IF n < Len(Volumes) THEN End(FALSE)
           ELSE Go(IF cmd.kind = "up" /\ ~cmd.settled THEN "prebuild" ELSE MaterializeFrom(cmd.mode))
    /\ UNCHANGED <<world, images, cluster, conf, archiving, stanza, commands>>

PreBuild ==
    /\ cmd.pc = "prebuild"
    /\ BuildRoles([cmd EXCEPT !.pc = MaterializeFrom(cmd.mode)])
    /\ UNCHANGED <<world, cont, data, commands>>

(* materialize_configs, one volume after the other.  Each write is a run   *)
(* of the db image; conflicting credentials are refused first.             *)
RepoFile(mode) == IF mode = "none" THEN "baseline" ELSE mode

AfterMaterialize ==
    CASE cmd.kind = "up" /\ ~cmd.nobuild -> Go("build")
      [] cmd.kind = "up" /\ cmd.nobuild  -> Go("start")
      [] cmd.kind = "configure"          -> End(TRUE)
      [] cmd.kind = "stanza"             -> Go("stanza")
      [] cmd.kind = "init"               -> Go("dbvols")

MaterializeRepo ==
    /\ cmd.pc = "repo" /\ cmd.mode # "both" /\ Present("db")
    /\ vols' = vols \cup {"conf"}
    /\ conf' = [conf EXCEPT !.repo = RepoFile(cmd.mode)]
    /\ IF cmd.mode = "none" THEN AfterMaterialize ELSE Go("archive")
    /\ UNCHANGED <<world, images, cluster, archiving, stanza, commands>>

(* The file that makes PostgreSQL archive.  Its removal is not checked: a  *)
(* run that fails leaves it and the command goes on.                       *)
MaterializeArchive ==
    /\ cmd.pc = "archive" /\ cmd.mode # "both" /\ Present("db")
    /\ vols' = vols \cup {"conf"}
    /\ \E kept \in BOOLEAN :
        conf' = [conf EXCEPT !.archive = IF cmd.mode = "write" THEN TRUE ELSE conf.archive /\ kept]
    /\ IF cmd.mode = "none" THEN Go("repo") ELSE AfterMaterialize
    /\ UNCHANGED <<world, images, cluster, archiving, stanza, commands>>

(* compose build, or the --build of an up, with the label override.        *)
ComposeBuild ==
    /\ cmd.pc = "build"
    /\ \E read \in BOOLEAN :
        BuildAsked(read, IF cmd.kind # "up" THEN End(TRUE)
                         ELSE /\ cmd' = [cmd EXCEPT !.pc = "start", !.read = read]
                              /\ UNCHANGED outcome)
    /\ UNCHANGED <<world, cont, data, commands>>

ComposeStart ==
    /\ cmd.pc = "start"
    /\ ComposeUp(cmd.asked, End(TRUE))
    /\ UNCHANGED <<world, image, vols, conf, stanza, commands>>

----------------------------------------------------------------------------
(* down, and wipe with the volumes of the database and the media.          *)

ComposeDown ==
    /\ cmd.pc = "stop"
    /\ \E S \in SUBSET Roles :
        /\ cont' = [r \in Roles |-> IF r \in S THEN NoContainer ELSE cont[r]]
        /\ archiving' = (archiving /\ "db" \notin S)
        /\ IF S # Roles THEN End(FALSE)
           ELSE IF cmd.kind = "wipe" THEN Go("remove") ELSE End(TRUE)
    /\ UNCHANGED <<world, image, vols, cluster, conf, stanza, commands>>

(* remove_wipe_data_volumes tries every volume, also after one has failed. *)
RemoveVolumes ==
    /\ cmd.pc = "remove"
    /\ \E S \in SUBSET {"data", "media"} :
        /\ vols' = vols \ S
        /\ cluster' = IF "data" \in S THEN 0 ELSE cluster
        /\ End(S = {"data", "media"})
    /\ UNCHANGED <<world, images, conf, archiving, stanza, commands>>

(* manage: ./manage.py in the web container.                               *)
Exec ==
    /\ cmd.pc = "exec" /\ Running("web")
    /\ End(TRUE)
    /\ UNCHANGED <<world, images, data, commands>>

----------------------------------------------------------------------------
(* ensure_db_service_running and run_bkp_db_stanza_create_flow.            *)

DbResponds ==
    /\ cmd.pc = "dbvols" /\ Running("db")
    /\ Go(IF cmd.kind = "init" THEN "stanza" ELSE "create")
    /\ UNCHANGED <<world, images, data, commands>>

EnsureDbVolumes ==
    /\ cmd.pc = "dbvols" /\ ~Running("db")
    /\ vols' = vols \cup DbVolumes
    /\ Go("dbstart")
    /\ UNCHANGED <<world, images, cluster, conf, archiving, stanza, commands>>

StartDb ==
    /\ cmd.pc = "dbstart"
    /\ ComposeUp({"db"}, Go(IF cmd.kind = "init" THEN "stanza" ELSE "create"))
    /\ UNCHANGED <<world, image, vols, conf, stanza, commands>>

(* pgbackrest info reads the repository of the file in the volume; it does *)
(* not compare the stanza with the cluster.                                *)
StanzaHealthy == cmd.mode = "write" /\ conf.repo \in DOMAIN stanza /\ stanza[conf.repo] # 0

Initialised == cluster # 0

StanzaExists ==
    /\ cmd.pc = "stanza" /\ StanzaHealthy
    /\ End(TRUE)
    /\ UNCHANGED <<world, images, data, commands>>

StanzaMissing ==
    /\ cmd.pc = "stanza" /\ ~StanzaHealthy
    /\ Go(IF Initialised THEN "create" ELSE "dbvols")
    /\ UNCHANGED <<world, images, data, commands>>

(* run_pgbackrest_stanza_create: WRITE mode and an initialised PGDATA.     *)
CreateStanza ==
    /\ cmd.pc = "create" /\ cmd.mode = "write" /\ Initialised
    /\ stanza' = [stanza EXCEPT ![conf.repo] = cluster]
    /\ End(TRUE)
    /\ UNCHANGED <<world, images, vols, cluster, conf, archiving, commands>>

----------------------------------------------------------------------------
(* What happens around the commands, and between them as long as another   *)
(* one is to come (bound: MaxCommands).                                    *)

(* git checkout, commit or reset, also while a command runs.               *)
MoveHead ==
    /\ \E c \in Checkouts \ {checkout} : checkout' = c
    /\ UNCHANGED <<creds, images, data, cmd, outcome, commands>>

ChangeCredentials ==
    /\ cmd.pc = "idle" /\ commands < MaxCommands
    /\ \E m \in Modes \ {creds} : creds' = m
    /\ UNCHANGED <<checkout, images, data, cmd, outcome, commands>>

(* docker image rm, or an image prune.                                     *)
Prune ==
    /\ cmd.pc = "idle" /\ commands < MaxCommands
    /\ \E t \in Tags, r \in Roles : image' = [image EXCEPT ![t][r] = NoImage]
    /\ image' # image
    /\ UNCHANGED <<world, cont, data, cmd, outcome, commands>>

(* compose stop of one service, or its end.                                *)
StopOne ==
    /\ cmd.pc = "idle" /\ commands < MaxCommands
    /\ \E r \in Roles :
        /\ Running(r)
        /\ cont' = [cont EXCEPT ![r] = NoContainer]
        /\ archiving' = (archiving /\ r # "db")
    /\ outcome' = NoOutcome
    /\ UNCHANGED <<world, image, vols, cluster, conf, stanza, cmd, commands>>

----------------------------------------------------------------------------
(* Images of an earlier dk carry no labels; the repository a READ mode     *)
(* restores from has the stanza of another stack.                          *)
Init ==
    /\ checkout \in Checkouts /\ creds \in Modes
    /\ image \in {[t \in Tags |-> [r \in Roles |-> im]] :
                    im \in {NoImage, [label |-> 0, from |-> CHOOSE s \in Shas : TRUE]}}
    /\ cont = [r \in Roles |-> NoContainer]
    /\ vols = {} /\ cluster = 0
    /\ conf = [repo |-> "absent", archive |-> FALSE] /\ archiving = FALSE
    /\ stanza = [read |-> -1, write |-> 0]
    /\ cmd = Idle /\ outcome = NoOutcome /\ commands = 0

BeginAny ==
    \E kind \in Kinds, dry, skip, nobuild \in BOOLEAN, asked \in SUBSET Roles :
        Begin(kind, dry, skip, nobuild, asked)

CommandStep ==
    \/ StackMatches \/ StaleReported \/ StaleFound \/ Rebuild \/ Recreate
    \/ EnsureVolumes \/ PreBuild \/ MaterializeRepo \/ MaterializeArchive
    \/ ComposeBuild \/ ComposeStart \/ ComposeDown \/ RemoveVolumes \/ Exec
    \/ DbResponds \/ EnsureDbVolumes \/ StartDb
    \/ StanzaExists \/ StanzaMissing \/ CreateStanza

Environment == MoveHead \/ ChangeCredentials \/ Prune \/ StopOne

Next == BeginAny \/ CommandStep \/ Stops \/ Environment

Spec == Init /\ [][Next]_vars

----------------------------------------------------------------------------
(* An up that may build ends with every container it was asked for on an   *)
(* image of the checkout the up was given at, whatever was there and       *)
(* whichever service built the image last: the image bears that checkout's *)
(* tag and label, or, when the compose file could not be read for the      *)
(* label targets, no label at all, and never another commit's              *)
(* (label_target_services, _run_compose_path).                             *)
UpRunsTheCheckout ==
    outcome.ok /\ outcome.kind = "up" /\ ~outcome.nobuild =>
        \A r \in outcome.asked :
            /\ cont[r].tag = outcome.co.tag
            /\ cont[r].label = outcome.co.sha \/ (cont[r].label = 0 /\ ~outcome.read)

(* Without the exception: "a co-builder without the override silently      *)
(* strips the labels off an image dk just stamped", which the fallback to  *)
(* the three roles lets happen.                                            *)
UpAlwaysLabels ==
    outcome.ok /\ outcome.kind = "up" /\ ~outcome.nobuild =>
        \A r \in outcome.asked : cont[r].label = outcome.co.sha

(* The containers that write the configuration into the volumes run the db *)
(* image: an up that leaves out its build, because the check of the        *)
(* containers was satisfied, has that image (pre_up_build_is_redundant).   *)
VolumeWorkHasImage ==
    cmd.kind = "up" /\ cmd.pc \in {"repo", "archive"} => Present("db")

(* db init and configure stanza-create that end well leave a stanza in the *)
(* repository this stack archives to, never only in the one it had read    *)
(* from with its earlier credentials (run_bkp_db_stanza_create_flow).      *)
StanzaWhereBackupsGo ==
    outcome.ok /\ outcome.kind \in {"init", "stanza"} =>
        stanza["write"] # 0 /\ conf.repo = "write" /\ conf.archive /\ stanza["read"] = -1

(* A command that follows the check meets no container of another commit:  *)
(* `dk <env> ...` "refuses to keep using containers or images built from   *)
(* another branch or an older HEAD".                                       *)
CommandsMeetTheCheckout ==
    cmd.pc = "exec" /\ ~cmd.skip /\ ~cmd.dry =>
        \A r \in Roles : Running(r) => ~Mismatch(cont[r].tag, cont[r].label)

(* --dry-run: "only print resolved DOCKER_HOST and SITE_ORIGIN, do not run *)
(* docker compose".                                                        *)
DryRunChangesNothing == [][cmd.dry => UNCHANGED <<images, data>>]_vars

(* The labels of an image tell what it was built from.                     *)
LabelsAreTrue ==
    \A t \in Tags, r \in Roles : image[t][r].label # 0 => image[t][r].label = image[t][r].from

(* PostgreSQL is never configured to archive into a repository that this   *)
(* stack only reads.                                                       *)
ArchivesOnlyToWrite == conf.archive => conf.repo = "write"

(* After an up with WRITE credentials the database archives.               *)
UpArchives ==
    outcome.ok /\ outcome.kind = "up" /\ outcome.mode = "write" /\ "db" \in outcome.asked
        => archiving

(* The stanza that init leaves is the one of this cluster.                 *)
StanzaOfThisCluster ==
    outcome.ok /\ outcome.kind = "init" => stanza["write"] = cluster

==============================================================================
