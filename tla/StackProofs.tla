------------------------------ MODULE StackProofs ------------------------------
(***************************************************************************)
(* Theorems about Stack, for any commits, credentials, co-builders and any *)
(* number of commands: its type, that an up runs the checkout it was given *)
(* at, that what writes the volumes has its image, and that a stanza is    *)
(* made only where backups go.                                             *)
(***************************************************************************)
EXTENDS Stack, TLAPS

----------------------------------------------------------------------------
(* The type invariant, in parts, with what the steps of a command need to  *)
(* know of its kind: the configuration is written for four of them.        *)

Containers ==
    {c \in [tag : Tags \cup {""}, label : Shas \cup {0}, from : Shas \cup {0}] :
        [label |-> c.label, from |-> c.from] \in Images}
Commands ==
    [kind : Kinds \cup {"none"}, dry : BOOLEAN, skip : BOOLEAN, nobuild : BOOLEAN,
     co : Checkouts \cup {Idle.co}, mode : Modes \cup {"none"},
     asked : SUBSET Roles, pc : Steps, recreate : BOOLEAN, settled : BOOLEAN,
     read : BOOLEAN]

WorldOK == checkout \in Checkouts /\ creds \in Modes /\ commands \in 0..MaxCommands
ImageOK == image \in [Tags -> [Roles -> Images]]
ContOK == cont \in [Roles -> Containers]
DataOK ==
    /\ vols \subseteq Range(Volumes)
    /\ cluster \in 0..MaxCommands
    /\ conf \in [repo : {"absent", "baseline", "read", "write"}, archive : BOOLEAN]
    /\ archiving \in BOOLEAN
    /\ stanza \in [{"read", "write"} -> -1..MaxCommands]
KindOK ==
    /\ cmd.pc # "idle" => cmd.kind \in Kinds /\ cmd.co \in Checkouts /\ cmd.mode \in Modes
    /\ cmd.pc \in {"repo", "archive"} => cmd.kind \in {"up", "configure", "stanza", "init"}
    /\ cmd.pc = "volumes" => cmd.kind \in {"up", "init"}
    /\ cmd.pc = "prebuild" => cmd.kind = "up"
CmdOK == cmd \in Commands /\ KindOK

TypeInv == WorldOK /\ ImageOK /\ ContOK /\ DataOK /\ CmdOK

LEMMA TypeInvType == TypeInv => TypeOK
  BY DEF TypeInv, TypeOK, WorldOK, ImageOK, ContOK, DataOK, CmdOK, Commands, Containers

LEMMA IdleIsOK == ASSUME cmd' = Idle PROVE CmdOK'
<1>1. Idle \in Commands /\ Idle.pc = "idle" BY DEF Idle, Commands, Steps
<1> QED BY <1>1 DEF CmdOK, KindOK

(* Ending, and going on at a label that asks nothing of the kind.          *)
LEMMA EndKeeps == ASSUME NEW ok \in BOOLEAN, End(ok) PROVE CmdOK'
  BY DEF End, Idle, CmdOK, KindOK, Commands, Steps

Free == {"hook", "rebuild", "recreate", "build", "start", "exec", "stop", "remove", "dbvols",
         "dbstart", "stanza", "create"}
LEMMA GoKeeps ==
  ASSUME CmdOK, cmd.pc # "idle", NEW pc \in Free, Go(pc)
  PROVE  CmdOK'
  BY DEF Go, CmdOK, KindOK, Commands, Steps, Free

(* Where the check of the images sends a command.                          *)
LEMMA AfterChecksWhere ==
  ASSUME NEW kind \in Kinds, NEW mode
  PROVE  LET pc == AfterChecks(kind, mode)
         IN  /\ pc \in {"volumes", "build", "stop", "exec", "repo", "archive"}
             /\ pc \in {"repo", "archive"} => kind \in {"configure", "stanza"}
             /\ pc = "repo" => mode # "none"
             /\ pc = "archive" => mode = "none"
             /\ pc = "volumes" => kind \in {"up", "init"}
             /\ kind = "up" => pc = "volumes"
  BY StackAssumption DEF AfterChecks, Body, MaterializeFrom

LEMMA SettleKeeps ==
  ASSUME CmdOK, cmd.pc # "idle", NEW s \in BOOLEAN,
         cmd' = [cmd EXCEPT !.pc = AfterChecks(cmd.kind, cmd.mode), !.settled = s]
  PROVE  CmdOK'
<1>1. cmd.kind \in Kinds BY DEF CmdOK, KindOK
<1> DEFINE pc == AfterChecks(cmd.kind, cmd.mode)
<1>2. /\ pc \in {"volumes", "build", "stop", "exec", "repo", "archive"}
      /\ pc \in {"repo", "archive"} => cmd.kind \in {"configure", "stanza"}
      /\ pc = "volumes" => cmd.kind \in {"up", "init"}
  BY <1>1, AfterChecksWhere
<1> HIDE DEF pc
<1>3. cmd' = [cmd EXCEPT !.pc = pc, !.settled = s] BY DEF pc
<1> QED BY <1>2, <1>3 DEF CmdOK, KindOK, Commands, Steps

LEMMA SettledKeeps ==
  ASSUME CmdOK, cmd.pc # "idle", NEW found \in BOOLEAN, cmd' = Settle(found)
  PROVE  CmdOK'
<1>1. BuildIsRedundant(found) \in BOOLEAN BY DEF BuildIsRedundant, CmdOK, Commands
<1> QED BY <1>1, SettleKeeps DEF Settle

(* The compose services of an up or a build, with what they depend on.     *)
LEMMA AlongAreRoles == \A S \in SUBSET Roles : Along(S) \subseteq Roles /\ S \subseteq Along(S)
  BY DEF Along

(* A service's image is an image of the command's tag.                     *)
LEMMA BuiltIsImage ==
  ASSUME WorldOK, CmdOK, cmd.pc # "idle", NEW service, NEW read
  PROVE  /\ Built(service, read) \in Images
         /\ Built(service, read).label \in {cmd.co.sha, 0}
         /\ service \in LabelTargets(read) => Built(service, read).label = cmd.co.sha
         /\ service \in LabelTargets(read) => Built(service, read) # NoImage
  BY StackAssumption DEF Built, Images, Shas, WorldOK, CmdOK, KindOK, NoImage

LEMMA TagIsOne == ASSUME CmdOK, cmd.pc # "idle" PROVE cmd.co.tag \in Tags
  BY DEF CmdOK, KindOK, Tags

Rebuilt(found) ==
    IF cmd.recreate THEN [cmd EXCEPT !.pc = "recreate"]
    ELSE [cmd EXCEPT !.pc = AfterChecks(cmd.kind, cmd.mode), !.settled = found]

LEMMA BuildRolesKeeps ==
  ASSUME WorldOK, ImageOK, CmdOK, cmd.pc # "idle", NEW next, BuildRoles(next)
  PROVE  /\ ImageOK'
         /\ \/ cmd' = next /\ UNCHANGED outcome /\ \A r \in Roles : image'[cmd.co.tag][r] = Built(r, FALSE)
            \/ End(FALSE)
<1>1. PICK S \in SUBSET Roles :
        /\ image' = [image EXCEPT ![cmd.co.tag] =
                        [r \in Roles |-> IF r \in S THEN Built(r, FALSE) ELSE @[r]]]
        /\ IF S = Roles THEN cmd' = next /\ UNCHANGED outcome ELSE End(FALSE)
  BY DEF BuildRoles
<1>2. cmd.co.tag \in Tags BY TagIsOne
<1>3. \A r \in Roles : Built(r, FALSE) \in Images BY BuiltIsImage
<1>4. ImageOK' BY <1>1, <1>2, <1>3 DEF ImageOK
<1>5. S = Roles => \A r \in Roles : image'[cmd.co.tag][r] = Built(r, FALSE)
  BY <1>1, <1>2 DEF ImageOK
<1> QED BY <1>1, <1>4, <1>5

LEMMA StartKeeps ==
  ASSUME TypeInv, cmd.pc # "idle", NEW S \in SUBSET Roles, Start(S), UNCHANGED <<vols, conf, stanza>>
  PROVE  ContOK' /\ DataOK'
<1>1. cmd.co.tag \in Tags BY TagIsOne DEF TypeInv
<1>2. \A r \in Roles : ContainerOf(image[cmd.co.tag][r]) \in Containers
  <2> TAKE r \in Roles
  <2>1. image[cmd.co.tag][r] \in Images BY <1>1 DEF TypeInv, ImageOK
  <2> DEFINE im == image[cmd.co.tag][r]
  <2>2. im.label \in Shas \cup {0} /\ im.from \in Shas \cup {0}
    BY <2>1 DEF Images, NoImage
  <2>3. [label |-> im.label, from |-> im.from] = im
    BY <2>1 DEF Images, NoImage
  <2> HIDE DEF im
  <2>4. ContainerOf(im) \in [tag : Tags \cup {""}, label : Shas \cup {0}, from : Shas \cup {0}]
    BY <1>1, <2>2 DEF ContainerOf
  <2>5. ContainerOf(im).label = im.label /\ ContainerOf(im).from = im.from
    BY DEF ContainerOf
  <2>6. [label |-> ContainerOf(im).label, from |-> ContainerOf(im).from] \in Images
    BY <2>1, <2>3, <2>5 DEF im
  <2>7. ContainerOf(im) \in Containers BY <2>4, <2>6 DEF Containers
  <2> QED BY <2>7 DEF im
<1>3. ContOK' BY <1>2 DEF Start, TypeInv, ContOK
<1>4. /\ archiving' \in {archiving, conf.archive}
      /\ cluster' \in {cluster, commands}
  BY DEF Start
<1>5. DataOK' BY <1>4 DEF TypeInv, DataOK, WorldOK
<1> QED BY <1>3, <1>5

LEMMA NoContainerIsOne == NoContainer \in Containers
  BY DEF NoContainer, Containers, Images, NoImage

LEMMA AfterMaterializeKeeps ==
  ASSUME CmdOK, cmd.pc \in {"repo", "archive"}, AfterMaterialize
  PROVE  CmdOK'
<1>1. cmd.kind \in {"up", "configure", "stanza", "init"} BY DEF CmdOK, KindOK
<1>2. cmd.nobuild \in BOOLEAN BY DEF CmdOK, Commands
<1>3. End(TRUE) \/ \E pc \in Free : Go(pc)
  BY <1>1, <1>2 DEF AfterMaterialize, Free
<1> QED BY <1>3, EndKeeps, GoKeeps

LEMMA BuildAllKeeps ==
  ASSUME WorldOK, ImageOK, CmdOK, cmd.pc # "idle", NEW S \in SUBSET Roles,
         NEW owner \in [Roles -> Roles \cup CoBuilders], NEW read,
         image' = [image EXCEPT ![cmd.co.tag] =
                     [r \in Roles |-> IF r \in S THEN Built(owner[r], read) ELSE @[r]]]
  PROVE  /\ ImageOK'
         /\ \A r \in S : image'[cmd.co.tag][r] = Built(owner[r], read)
<1>1. cmd.co.tag \in Tags BY TagIsOne
<1>2. \A r \in Roles : Built(owner[r], read) \in Images BY BuiltIsImage
<1> QED BY <1>1, <1>2 DEF ImageOK

(* A build of the services asked for: what it leaves when it goes on to    *)
(* the start, and where it goes.                                           *)
LEMMA BuildAskedKeeps ==
  ASSUME WorldOK, ImageOK, CmdOK, ComposeBuild
  PROVE  /\ ImageOK'
         /\ \/ \E ok \in BOOLEAN : End(ok) /\ (ok => cmd.kind # "up")
            \/ \E read \in BOOLEAN, owner \in [Roles -> Roles \cup CoBuilders] :
                /\ cmd' = [cmd EXCEPT !.pc = "start", !.read = read]
                /\ cmd.kind = "up" /\ UNCHANGED outcome
                /\ \A r \in Roles : owner[r] \in Builders(r)
                /\ \A r \in cmd.asked : image'[cmd.co.tag][r] = Built(owner[r], read)
<1>1. PICK read \in BOOLEAN :
        BuildAsked(read, IF cmd.kind # "up" THEN End(TRUE)
                         ELSE /\ cmd' = [cmd EXCEPT !.pc = "start", !.read = read]
                              /\ UNCHANGED outcome)
  BY DEF ComposeBuild
<1>2. PICK S \in SUBSET Along(cmd.asked), owner \in [Roles -> Roles \cup CoBuilders] :
        /\ \A r \in Roles : owner[r] \in Builders(r)
        /\ image' = [image EXCEPT ![cmd.co.tag] =
                        [r \in Roles |-> IF r \in S THEN Built(owner[r], read) ELSE @[r]]]
        /\ IF cmd.asked \subseteq S
           THEN IF cmd.kind # "up" THEN End(TRUE)
                ELSE /\ cmd' = [cmd EXCEPT !.pc = "start", !.read = read]
                     /\ UNCHANGED outcome
           ELSE End(FALSE)
  BY <1>1 DEF BuildAsked
<1>3. S \in SUBSET Roles BY AlongAreRoles DEF CmdOK, Commands
<1>4. cmd.pc # "idle" BY DEF ComposeBuild
<1>5. ImageOK' /\ \A r \in S : image'[cmd.co.tag][r] = Built(owner[r], read)
  BY <1>2, <1>3, <1>4, BuildAllKeeps
<1>6. CASE cmd.asked \subseteq S /\ cmd.kind = "up"
  BY <1>2, <1>5, <1>6
<1>7. CASE ~(cmd.asked \subseteq S /\ cmd.kind = "up")
  BY <1>2, <1>5, <1>7
<1> QED BY <1>6, <1>7

LEMMA BuildGoesOn ==
  ASSUME WorldOK, ImageOK, CmdOK, ComposeBuild
  PROVE  \/ \E ok \in BOOLEAN : End(ok) /\ (ok => cmd.kind # "up")
         \/ /\ cmd'.pc = "start" /\ cmd'.kind = cmd.kind /\ cmd'.mode = cmd.mode
            /\ cmd.kind = "up" /\ UNCHANGED outcome /\ CmdOK'
<1>1. cmd.pc = "build" BY DEF ComposeBuild
<1>2. CASE \E ok \in BOOLEAN : End(ok) /\ (ok => cmd.kind # "up")
  BY <1>2
<1>3. CASE \E read \in BOOLEAN : /\ cmd' = [cmd EXCEPT !.pc = "start", !.read = read]
                                /\ cmd.kind = "up" /\ UNCHANGED outcome
  BY <1>1, <1>3 DEF CmdOK, KindOK, Commands, Steps
<1> QED BY <1>2, <1>3, BuildAskedKeeps

(* Every step keeps the type.                                              *)
LEMMA TypeStep == ASSUME TypeInv, [Next]_vars PROVE TypeInv'
<1>a. WorldOK /\ ImageOK /\ ContOK /\ DataOK /\ CmdOK
  BY DEF TypeInv
<1> SUFFICES WorldOK' /\ ImageOK' /\ ContOK' /\ DataOK' /\ CmdOK'
  BY DEF TypeInv
<1>0. CASE UNCHANGED vars
  BY <1>a, <1>0 DEF WorldOK, ImageOK, ContOK, DataOK, CmdOK, KindOK, vars
<1>1. ASSUME NEW kind \in Kinds, NEW dry \in BOOLEAN, NEW skip \in BOOLEAN,
             NEW nobuild \in BOOLEAN, NEW asked \in SUBSET Roles,
             Begin(kind, dry, skip, nobuild, asked)
      PROVE  WorldOK' /\ ImageOK' /\ ContOK' /\ DataOK' /\ CmdOK'
  <2>1. ImageOK' /\ ContOK' /\ DataOK'
    BY <1>a, <1>1 DEF Begin, ImageOK, ContOK, DataOK, world, images, data
  <2>2. WorldOK'
    BY <1>a, <1>1, StackAssumption DEF Begin, WorldOK, world
  <2>3. CmdOK'
    <3> DEFINE pc == IF Checked(kind, skip) THEN "hook" ELSE AfterChecks(kind, creds)
    <3>1. /\ pc \in {"hook", "volumes", "build", "stop", "exec", "repo", "archive"}
          /\ pc \in {"repo", "archive"} => kind \in {"configure", "stanza"}
          /\ pc = "volumes" => kind \in {"up", "init"}
      BY AfterChecksWhere
    <3>2. \/ cmd' = Idle
          \/ cmd' = [Idle EXCEPT
                       !.kind = kind, !.dry = dry, !.skip = skip, !.nobuild = nobuild,
                       !.co = checkout, !.mode = creds, !.asked = asked, !.pc = pc]
      BY <1>1 DEF Begin
    <3> HIDE DEF pc
    <3>3. CASE cmd' = Idle
      BY <3>3, IdleIsOK
    <3>4. CASE cmd' = [Idle EXCEPT
                         !.kind = kind, !.dry = dry, !.skip = skip, !.nobuild = nobuild,
                         !.co = checkout, !.mode = creds, !.asked = asked, !.pc = pc]
      <4>1. cmd' = [kind |-> kind, dry |-> dry, skip |-> skip, nobuild |-> nobuild,
                    co |-> checkout, mode |-> creds, asked |-> asked, pc |-> pc,
                    recreate |-> FALSE, settled |-> FALSE, read |-> FALSE]
        BY <3>4 DEF Idle
      <4>2. pc \in Steps BY <3>1 DEF Steps
      <4>3. cmd' \in Commands BY <1>a, <4>1, <4>2 DEF Commands, WorldOK
      <4>4. KindOK' BY <1>a, <3>1, <4>1 DEF KindOK, WorldOK
      <4> QED BY <4>3, <4>4 DEF CmdOK
    <3> QED BY <3>2, <3>3, <3>4
  <2> QED BY <2>1, <2>2, <2>3
<1>2. CASE StackMatches
  <2>1. WorldOK' /\ ImageOK' /\ ContOK' /\ DataOK'
    BY <1>a, <1>2 DEF StackMatches, WorldOK, ImageOK, ContOK, DataOK, world, images, data
  <2>2. CmdOK'
    BY <1>a, <1>2, SettledKeeps DEF StackMatches
  <2> QED BY <2>1, <2>2
<1>3. CASE StaleReported
  <2>1. WorldOK' /\ ImageOK' /\ ContOK' /\ DataOK'
    BY <1>a, <1>3 DEF StaleReported, WorldOK, ImageOK, ContOK, DataOK, world, images, data
  <2>2. CmdOK'
    BY <1>a, <1>3, SettledKeeps DEF StaleReported
  <2> QED BY <2>1, <2>2
<1>4. CASE StaleFound
  <2>1. WorldOK' /\ ImageOK' /\ ContOK' /\ DataOK'
    BY <1>a, <1>4 DEF StaleFound, WorldOK, ImageOK, ContOK, DataOK, world, images, data
  <2>2. CmdOK'
    <3>0. PICK look \in Looks :
            cmd' = [cmd EXCEPT !.pc = "rebuild", !.nobuild = FALSE,
                               !.recreate = Shown(look, Head(StaleServices(look)))
                                            /\ cmd.kind # "up"]
      BY <1>4 DEF StaleFound
    <3> DEFINE again == Shown(look, Head(StaleServices(look))) /\ cmd.kind # "up"
    <3>1. again \in BOOLEAN OBVIOUS
    <3>2. cmd.pc = "hook"
          /\ cmd' = [cmd EXCEPT !.pc = "rebuild", !.nobuild = FALSE, !.recreate = again]
      BY <1>4, <3>0 DEF StaleFound
    <3> HIDE DEF again
    <3> QED BY <1>a, <3>1, <3>2 DEF CmdOK, KindOK, Commands, Steps
  <2> QED BY <2>1, <2>2
<1>5. CASE Rebuild
  <2>1. WorldOK' /\ ContOK' /\ DataOK'
    BY <1>a, <1>5 DEF Rebuild, WorldOK, ContOK, DataOK, world, data
  <2>2. cmd.pc # "idle" BY <1>5 DEF Rebuild
  <2>a. PICK found \in BOOLEAN : BuildRoles(Rebuilt(found)) BY <1>5 DEF Rebuild, Rebuilt
  <2> DEFINE next == Rebuilt(found)
  <2> HIDE DEF next
  <2>b. BuildRoles(next) BY <2>a DEF next
  <2>3. ImageOK' /\ (cmd' = next \/ End(FALSE))
    BY <1>a, <2>b, <2>2, BuildRolesKeeps
  <2> USE DEF next, Rebuilt
  <2>4. CmdOK'
    <3>1. CASE End(FALSE) BY <3>1, EndKeeps
    <3>2. CASE cmd' = next /\ cmd.recreate
      BY <1>a, <2>2, <3>2 DEF CmdOK, KindOK, Commands, Steps
    <3>3. CASE cmd' = next /\ ~cmd.recreate
      BY <1>a, <2>2, <3>3, SettleKeeps
    <3> QED BY <2>3, <3>1, <3>2, <3>3
  <2> QED BY <2>1, <2>3, <2>4
<1>6. CASE Recreate
  <2>1. WorldOK' /\ ImageOK'
    BY <1>a, <1>6 DEF Recreate, WorldOK, ImageOK, world
  <2>2. cmd.pc # "idle" BY <1>6 DEF Recreate
  <2>3. ContOK' /\ DataOK'
    BY <1>6, <2>2, StartKeeps, AlongAreRoles DEF Recreate, ComposeUp
  <2>4. (\E found \in BOOLEAN : cmd' = Settle(found)) \/ End(FALSE)
    BY <1>6 DEF Recreate, ComposeUp
  <2>5. CmdOK'
    <3>1. CASE End(FALSE) BY <3>1, EndKeeps
    <3>2. CASE \E found \in BOOLEAN : cmd' = Settle(found)
      BY <1>a, <2>2, <3>2, SettledKeeps
    <3> QED BY <2>4, <3>1, <3>2
  <2> QED BY <2>1, <2>3, <2>5
<1>7. CASE EnsureVolumes
  <2>1. WorldOK' /\ ImageOK' /\ ContOK'
    BY <1>a, <1>7 DEF EnsureVolumes, WorldOK, ImageOK, ContOK, world, images
  <2>2. PICK n \in 0..Len(Volumes) :
           /\ vols' = vols \cup Range(SubSeq(Volumes, 1, n))
           /\ IF n < Len(Volumes) THEN End(FALSE)
              ELSE Go(IF cmd.kind = "up" /\ ~cmd.settled THEN "prebuild"
                      ELSE MaterializeFrom(cmd.mode))
    BY <1>7 DEF EnsureVolumes
  <2>3. Range(SubSeq(Volumes, 1, n)) \subseteq Range(Volumes)
    BY <2>2 DEF Range, Volumes
  <2>4. DataOK'
    BY <1>a, <1>7, <2>2, <2>3 DEF EnsureVolumes, DataOK
  <2>5. CmdOK'
    <3>1. CASE End(FALSE) BY <3>1, EndKeeps
    <3>2. CASE Go(IF cmd.kind = "up" /\ ~cmd.settled THEN "prebuild"
                  ELSE MaterializeFrom(cmd.mode))
      BY <1>a, <1>7, <3>2
      DEF EnsureVolumes, Go, MaterializeFrom, CmdOK, KindOK, Commands, Steps
    <3> QED BY <2>2, <3>1, <3>2
  <2> QED BY <2>1, <2>4, <2>5
<1>8. CASE PreBuild
  <2>1. WorldOK' /\ ContOK' /\ DataOK'
    BY <1>a, <1>8 DEF PreBuild, WorldOK, ContOK, DataOK, world, data
  <2>2. cmd.pc # "idle" BY <1>8 DEF PreBuild
  <2>3. ImageOK' /\ (cmd' = [cmd EXCEPT !.pc = MaterializeFrom(cmd.mode)] \/ End(FALSE))
    BY <1>a, <1>8, <2>2, BuildRolesKeeps DEF PreBuild
  <2>4. CmdOK'
    <3>1. CASE End(FALSE) BY <3>1, EndKeeps
    <3>2. CASE cmd' = [cmd EXCEPT !.pc = MaterializeFrom(cmd.mode)]
      BY <1>a, <1>8, <3>2 DEF PreBuild, MaterializeFrom, CmdOK, KindOK, Commands, Steps
    <3> QED BY <2>3, <3>1, <3>2
  <2> QED BY <2>1, <2>3, <2>4
<1>9. CASE MaterializeRepo
  <2>1. WorldOK' /\ ImageOK' /\ ContOK'
    BY <1>a, <1>9 DEF MaterializeRepo, WorldOK, ImageOK, ContOK, world, images
  <2>2. RepoFile(cmd.mode) \in {"baseline", "read", "write"}
    BY <1>a, <1>9, StackAssumption DEF MaterializeRepo, RepoFile, CmdOK, KindOK
  <2>3. DataOK'
    BY <1>a, <1>9, <2>2 DEF MaterializeRepo, DataOK, Range, Volumes
  <2>4. CmdOK'
    <3>1. CASE AfterMaterialize
      BY <1>a, <1>9, <3>1, AfterMaterializeKeeps DEF MaterializeRepo
    <3>2. CASE Go("archive")
      BY <1>a, <1>9, <3>2 DEF MaterializeRepo, Go, CmdOK, KindOK, Commands, Steps
    <3> QED BY <1>9, <3>1, <3>2 DEF MaterializeRepo
  <2> QED BY <2>1, <2>3, <2>4
<1>10. CASE MaterializeArchive
  <2>1. WorldOK' /\ ImageOK' /\ ContOK'
    BY <1>a, <1>10 DEF MaterializeArchive, WorldOK, ImageOK, ContOK, world, images
  <2>2. PICK kept \in BOOLEAN :
           conf' = [conf EXCEPT !.archive = IF cmd.mode = "write" THEN TRUE ELSE conf.archive /\ kept]
    BY <1>10 DEF MaterializeArchive
  <2>3. DataOK'
    <3> DEFINE on == IF cmd.mode = "write" THEN TRUE ELSE conf.archive /\ kept
    <3>1. on \in BOOLEAN BY <1>a DEF DataOK
    <3>2. conf' = [conf EXCEPT !.archive = on] BY <2>2
    <3> HIDE DEF on
    <3>3. conf' \in [repo : {"absent", "baseline", "read", "write"}, archive : BOOLEAN]
      BY <1>a, <3>1, <3>2 DEF DataOK
    <3>4. vols' \subseteq Range(Volumes)
      BY <1>a, <1>10 DEF MaterializeArchive, DataOK, Range, Volumes
    <3>5. cluster' \in 0..MaxCommands /\ archiving' \in BOOLEAN
          /\ stanza' \in [{"read", "write"} -> -1..MaxCommands]
      BY <1>a, <1>10 DEF MaterializeArchive, DataOK
    <3> QED BY <3>3, <3>4, <3>5 DEF DataOK
  <2>4. CmdOK'
    <3>1. CASE AfterMaterialize
      BY <1>a, <1>10, <3>1, AfterMaterializeKeeps DEF MaterializeArchive
    <3>2. CASE Go("repo")
      BY <1>a, <1>10, <3>2 DEF MaterializeArchive, Go, CmdOK, KindOK, Commands, Steps
    <3> QED BY <1>10, <3>1, <3>2 DEF MaterializeArchive
  <2> QED BY <2>1, <2>3, <2>4
<1>11. CASE ComposeBuild
  <2>1. WorldOK' /\ ContOK' /\ DataOK'
    BY <1>a, <1>11 DEF ComposeBuild, WorldOK, ContOK, DataOK, world, data
  <2>2. cmd.pc # "idle" BY <1>11 DEF ComposeBuild
  <2>3. ImageOK' BY <1>a, <1>11, BuildAskedKeeps
  <2>4. CmdOK' BY <1>a, <1>11, BuildGoesOn, EndKeeps
  <2> QED BY <2>1, <2>3, <2>4
<1>12. CASE ComposeStart
  <2>1. WorldOK' /\ ImageOK'
    BY <1>a, <1>12 DEF ComposeStart, WorldOK, ImageOK, world
  <2>2. cmd.pc # "idle" BY <1>12 DEF ComposeStart
  <2>3. ContOK' /\ DataOK'
    <3>1. cmd.asked \in SUBSET Roles BY <1>a DEF CmdOK, Commands
    <3> QED BY <1>12, <2>2, <3>1, StartKeeps, AlongAreRoles DEF ComposeStart, ComposeUp
  <2>4. \E ok \in BOOLEAN : End(ok)
    BY <1>12 DEF ComposeStart, ComposeUp
  <2>5. CmdOK' BY <2>4, EndKeeps
  <2> QED BY <2>1, <2>3, <2>5
<1>13. CASE ComposeDown
  <2>1. WorldOK' /\ ImageOK' /\ cmd.pc # "idle"
    BY <1>a, <1>13 DEF ComposeDown, WorldOK, ImageOK, world
  <2>2. ContOK' /\ DataOK'
    BY <1>a, <1>13, NoContainerIsOne DEF ComposeDown, ContOK, DataOK
  <2>3. Go("remove") \/ \E ok \in BOOLEAN : End(ok)
    BY <1>13 DEF ComposeDown
  <2>4. CmdOK'
    BY <1>a, <2>1, <2>3, GoKeeps, EndKeeps DEF Free
  <2> QED BY <2>1, <2>2, <2>4
<1>14. CASE RemoveVolumes
  <2>1. WorldOK' /\ ImageOK' /\ ContOK'
    BY <1>a, <1>14 DEF RemoveVolumes, WorldOK, ImageOK, ContOK, world, images
  <2>2. DataOK'
    BY <1>a, <1>14, StackAssumption DEF RemoveVolumes, DataOK
  <2>3. \E ok \in BOOLEAN : End(ok)
    BY <1>14 DEF RemoveVolumes
  <2>4. CmdOK' BY <2>3, EndKeeps
  <2> QED BY <2>1, <2>2, <2>4
<1>15. CASE Exec
  <2>1. WorldOK' /\ ImageOK' /\ ContOK' /\ DataOK'
    BY <1>a, <1>15 DEF Exec, WorldOK, ImageOK, ContOK, DataOK, world, images, data
  <2>2. CmdOK' BY <1>15, EndKeeps DEF Exec
  <2> QED BY <2>1, <2>2
<1>16. CASE DbResponds
  <2>1. WorldOK' /\ ImageOK' /\ ContOK' /\ DataOK'
    BY <1>a, <1>16 DEF DbResponds, WorldOK, ImageOK, ContOK, DataOK, world, images, data
  <2>2. CmdOK'
    BY <1>a, <1>16, GoKeeps DEF DbResponds, Free
  <2> QED BY <2>1, <2>2
<1>17. CASE EnsureDbVolumes
  <2>1. WorldOK' /\ ImageOK' /\ ContOK'
    BY <1>a, <1>17 DEF EnsureDbVolumes, WorldOK, ImageOK, ContOK, world, images
  <2>2. DataOK'
    BY <1>a, <1>17 DEF EnsureDbVolumes, DataOK, DbVolumes, Range, Volumes
  <2>3. CmdOK'
    BY <1>a, <1>17, GoKeeps DEF EnsureDbVolumes, Free
  <2> QED BY <2>1, <2>2, <2>3
<1>18. CASE StartDb
  <2>1. WorldOK' /\ ImageOK'
    BY <1>a, <1>18 DEF StartDb, WorldOK, ImageOK, world
  <2>2. cmd.pc # "idle" BY <1>18 DEF StartDb
  <2>3. ContOK' /\ DataOK'
    <3>1. {"db"} \in SUBSET Roles BY DEF Roles
    <3> QED BY <1>18, <2>2, <3>1, StartKeeps, AlongAreRoles DEF StartDb, ComposeUp
  <2>4. End(FALSE) \/ Go("stanza") \/ Go("create")
    BY <1>18 DEF StartDb, ComposeUp
  <2>5. CmdOK'
    BY <1>a, <2>2, <2>4, GoKeeps, EndKeeps DEF Free
  <2> QED BY <2>1, <2>3, <2>5
<1>19. CASE StanzaExists
  <2>1. WorldOK' /\ ImageOK' /\ ContOK' /\ DataOK'
    BY <1>a, <1>19 DEF StanzaExists, WorldOK, ImageOK, ContOK, DataOK, world, images, data
  <2>2. CmdOK' BY <1>19, EndKeeps DEF StanzaExists
  <2> QED BY <2>1, <2>2
<1>20. CASE StanzaMissing
  <2>1. WorldOK' /\ ImageOK' /\ ContOK' /\ DataOK'
    BY <1>a, <1>20 DEF StanzaMissing, WorldOK, ImageOK, ContOK, DataOK, world, images, data
  <2>2. CmdOK'
    BY <1>a, <1>20, GoKeeps DEF StanzaMissing, Free
  <2> QED BY <2>1, <2>2
<1>21. CASE CreateStanza
  <2>1. WorldOK' /\ ImageOK' /\ ContOK'
    BY <1>a, <1>21 DEF CreateStanza, WorldOK, ImageOK, ContOK, world, images
  <2>2. DataOK'
    <3>1. stanza' = [stanza EXCEPT ![conf.repo] = cluster] /\ cluster \in -1..MaxCommands
      BY <1>a, <1>21, StackAssumption DEF CreateStanza, DataOK
    <3>2. stanza' \in [{"read", "write"} -> -1..MaxCommands]
      BY <1>a, <3>1 DEF DataOK
    <3> QED BY <1>a, <1>21, <3>2 DEF CreateStanza, DataOK
  <2>3. CmdOK' BY <1>21, EndKeeps DEF CreateStanza
  <2> QED BY <2>1, <2>2, <2>3
<1>22. CASE Stops
  <2>1. WorldOK' /\ ImageOK' /\ ContOK' /\ DataOK'
    BY <1>a, <1>22 DEF Stops, WorldOK, ImageOK, ContOK, DataOK, world, images, data
  <2>2. CmdOK' BY <1>22, EndKeeps DEF Stops
  <2> QED BY <2>1, <2>2
<1>23. CASE MoveHead
  BY <1>a, <1>23 DEF MoveHead, WorldOK, ImageOK, ContOK, DataOK, CmdOK, KindOK, images, data
<1>24. CASE ChangeCredentials
  BY <1>a, <1>24 DEF ChangeCredentials, WorldOK, ImageOK, ContOK, DataOK, CmdOK, KindOK, images, data
<1>25. CASE Prune
  <2>1. ImageOK'
    BY <1>a, <1>25 DEF Prune, ImageOK, Images
  <2> QED BY <1>a, <1>25, <2>1 DEF Prune, WorldOK, ContOK, DataOK, CmdOK, KindOK, world, data
<1>26. CASE StopOne
  <2>1. ContOK' /\ DataOK'
    BY <1>a, <1>26, NoContainerIsOne DEF StopOne, ContOK, DataOK
  <2> QED BY <1>a, <1>26, <2>1 DEF StopOne, WorldOK, ImageOK, CmdOK, KindOK, world
<1> QED
  BY <1>0, <1>1, <1>2, <1>3, <1>4, <1>5, <1>6, <1>7, <1>8, <1>9, <1>10, <1>11, <1>12, <1>13,
     <1>14, <1>15, <1>16, <1>17, <1>18, <1>19, <1>20, <1>21, <1>22, <1>23, <1>24, <1>25, <1>26
  DEF Next, BeginAny, CommandStep, Environment

LEMMA TypeInit == Init => TypeInv
<1> SUFFICES ASSUME Init PROVE TypeInv OBVIOUS
<1>1. WorldOK BY StackAssumption DEF Init, WorldOK
<1>5. CmdOK
  <2>1. cmd.pc = "idle" /\ cmd \in Commands BY DEF Init, Idle, Commands, Steps
  <2> QED BY <2>1 DEF CmdOK, KindOK
<1>2. ContOK BY NoContainerIsOne DEF Init, ContOK
<1>3. ImageOK
  <2>1. PICK im \in {NoImage, [label |-> 0, from |-> CHOOSE s \in Shas : TRUE]} :
           image = [t \in Tags |-> [r \in Roles |-> im]]
    BY DEF Init
  <2>2. (CHOOSE s \in Shas : TRUE) \in Shas BY DEF Init, Shas
  <2>3. im \in Images BY <2>1, <2>2 DEF Images
  <2> QED BY <2>1, <2>3 DEF ImageOK
<1>4. DataOK
  <2>1. stanza \in [{"read", "write"} -> -1..MaxCommands]
    BY StackAssumption DEF Init
  <2>2. conf \in [repo : {"absent", "baseline", "read", "write"}, archive : BOOLEAN]
    BY DEF Init
  <2>3. vols \subseteq Range(Volumes) /\ archiving \in BOOLEAN /\ cluster = 0
    BY DEF Init
  <2>4. cluster \in 0..MaxCommands BY <2>3, StackAssumption
  <2> QED BY <2>1, <2>2, <2>3, <2>4 DEF DataOK
<1> QED BY <1>1, <1>2, <1>3, <1>4, <1>5 DEF TypeInv

(* The state and the running command are always of their types             *)
(* (load_managed_deploy_context, handle_env_command).                      *)
THEOREM TypeCorrect == Spec => []TypeOK
<1>1. Spec => []TypeInv
  BY TypeInit, TypeStep, PTL DEF Spec
<1> QED BY <1>1, TypeInvType, PTL

----------------------------------------------------------------------------
(* The image of the containers that write the volumes.  An up that left    *)
(* its own build out has seen the image, or the check has just built it;   *)
(* no command removes one.                                                 *)

ImagePresent ==
    cmd.kind = "up" /\ (cmd.pc \in {"repo", "archive"} \/ (cmd.pc = "volumes" /\ cmd.settled))
        => Present("db")

LEMMA Elsewhere ==
  ASSUME cmd'.pc \notin {"repo", "archive", "volumes"} PROVE ImagePresent'
  BY DEF ImagePresent

LEMMA EndsElsewhere == ASSUME NEW ok, End(ok) PROVE ImagePresent'
<1>1. cmd'.pc = "idle" BY DEF End, Idle
<1> QED BY <1>1, Elsewhere

LEMMA GoesElsewhere ==
  ASSUME CmdOK, NEW pc \in Free, Go(pc) PROVE ImagePresent'
<1>1. cmd'.pc = pc BY DEF Go, CmdOK, Commands
<1> QED BY <1>1, Elsewhere DEF Free

LEMMA SettledHasImage ==
  ASSUME CmdOK, cmd.pc # "idle", UNCHANGED image, NEW found, cmd' = Settle(found)
  PROVE  ImagePresent'
<1>1. cmd.kind \in Kinds BY DEF CmdOK, KindOK
<1>2. /\ cmd'.kind = cmd.kind /\ cmd'.co = cmd.co
      /\ cmd'.pc = AfterChecks(cmd.kind, cmd.mode)
      /\ cmd'.settled = BuildIsRedundant(found)
  BY DEF Settle, CmdOK, Commands
<1>3. cmd.kind = "up" => cmd'.pc = "volumes" BY <1>1, <1>2, AfterChecksWhere
<1> QED BY <1>2, <1>3 DEF ImagePresent, BuildIsRedundant, Present

LEMMA BuiltHasImage ==
  ASSUME TypeInv, cmd.pc # "idle",
         \A r \in Roles : image'[cmd.co.tag][r] = Built(r, FALSE), cmd'.co = cmd.co
  PROVE  ImagePresent'
<1>1. "db" \in Roles /\ "db" \in LabelTargets(FALSE) BY DEF Roles, LabelTargets
<1>2. Built("db", FALSE) # NoImage BY <1>1, BuiltIsImage DEF TypeInv
<1> QED BY <1>1, <1>2 DEF ImagePresent, Present

LEMMA ImageStep ==
  ASSUME TypeInv, ImagePresent, [Next]_vars PROVE ImagePresent'
<1>a. WorldOK /\ ImageOK /\ CmdOK BY DEF TypeInv
<1>0. CASE UNCHANGED vars
  BY <1>0 DEF ImagePresent, Present, vars
<1>1. ASSUME NEW kind \in Kinds, NEW dry \in BOOLEAN, NEW skip \in BOOLEAN,
             NEW nobuild \in BOOLEAN, NEW asked \in SUBSET Roles,
             Begin(kind, dry, skip, nobuild, asked)
      PROVE  ImagePresent'
  <2> DEFINE pc == IF Checked(kind, skip) THEN "hook" ELSE AfterChecks(kind, creds)
  <2>1. CASE cmd' = Idle
    BY <2>1, Elsewhere DEF Idle
  <2>2. CASE cmd' = [Idle EXCEPT
                       !.kind = kind, !.dry = dry, !.skip = skip, !.nobuild = nobuild,
                       !.co = checkout, !.mode = creds, !.asked = asked, !.pc = pc]
    <3>1. cmd'.kind = kind /\ cmd'.pc = pc /\ ~cmd'.settled BY <2>2 DEF Idle
    <3>2. kind = "up" => pc \in {"hook", "volumes"} BY AfterChecksWhere
    <3> QED BY <3>1, <3>2 DEF ImagePresent
  <2> QED BY <1>1, <2>1, <2>2 DEF Begin
<1>2. CASE StackMatches \/ StaleReported
  BY <1>a, <1>2, SettledHasImage DEF StackMatches, StaleReported, images
<1>3. CASE StaleFound
  BY <1>a, <1>3, Elsewhere DEF StaleFound, CmdOK, Commands
<1>4. CASE Rebuild
  <2>0. PICK found \in BOOLEAN : BuildRoles(Rebuilt(found)) BY <1>4 DEF Rebuild, Rebuilt
  <2> DEFINE next == Rebuilt(found)
  <2>2. next.co = cmd.co BY <1>a DEF CmdOK, Commands, Rebuilt
  <2> HIDE DEF next
  <2>1. cmd.pc # "idle" /\ BuildRoles(next) BY <1>4, <2>0 DEF Rebuild, next
  <2> QED BY <1>a, <2>1, <2>2, BuildRolesKeeps, BuiltHasImage, EndsElsewhere
<1>5. CASE Recreate
  <2>1. (\E found \in BOOLEAN : cmd' = Settle(found)) \/ End(FALSE)
    BY <1>5 DEF Recreate, ComposeUp
  <2> QED BY <1>a, <1>5, <2>1, SettledHasImage, EndsElsewhere DEF Recreate
<1>6. CASE EnsureVolumes
  <2>1. CASE \E ok \in BOOLEAN : End(ok) BY <2>1, EndsElsewhere
  <2>2. CASE Go(IF cmd.kind = "up" /\ ~cmd.settled THEN "prebuild" ELSE MaterializeFrom(cmd.mode))
    <3>1. cmd'.kind = cmd.kind /\ cmd'.co = cmd.co /\ UNCHANGED image
          /\ cmd'.pc = IF cmd.kind = "up" /\ ~cmd.settled THEN "prebuild" ELSE MaterializeFrom(cmd.mode)
      BY <1>a, <1>6, <2>2 DEF EnsureVolumes, Go, CmdOK, Commands, images
    <3>2. cmd.pc = "volumes" BY <1>6 DEF EnsureVolumes
    <3>3. cmd.kind = "up" /\ cmd.settled => Present("db") BY <3>2 DEF ImagePresent
    <3> QED BY <3>1, <3>3 DEF ImagePresent, Present
  <2> QED BY <1>6, <2>1, <2>2 DEF EnsureVolumes
<1>7. CASE PreBuild
  <2> DEFINE next == [cmd EXCEPT !.pc = MaterializeFrom(cmd.mode)]
  <2>1. cmd.pc # "idle" /\ BuildRoles(next) BY <1>7 DEF PreBuild
  <2>2. next.co = cmd.co BY <1>a DEF CmdOK, Commands
  <2> HIDE DEF next
  <2> QED BY <1>a, <2>1, <2>2, BuildRolesKeeps, BuiltHasImage, EndsElsewhere
<1>8. CASE MaterializeRepo \/ MaterializeArchive
  <2>1. cmd.pc \in {"repo", "archive"} /\ UNCHANGED image
    BY <1>8 DEF MaterializeRepo, MaterializeArchive, images
  <2>2. AfterMaterialize \/ Go("repo") \/ Go("archive")
    BY <1>8 DEF MaterializeRepo, MaterializeArchive
  <2>3. CASE AfterMaterialize
    <3>1. End(TRUE) \/ \E pc \in Free : Go(pc)
      BY <1>a, <2>1, <2>3 DEF AfterMaterialize, Free, CmdOK, KindOK, Commands
    <3> QED BY <1>a, <3>1, EndsElsewhere, GoesElsewhere
  <2>4. CASE Go("repo") \/ Go("archive")
    <3>1. cmd'.kind = cmd.kind /\ cmd'.co = cmd.co
      BY <1>a, <2>4 DEF Go, CmdOK, Commands
    <3> QED BY <2>1, <3>1 DEF ImagePresent, Present
  <2> QED BY <2>2, <2>3, <2>4
<1>9. CASE ComposeBuild
  BY <1>a, <1>9, BuildGoesOn, EndsElsewhere, Elsewhere
<1>10. CASE ComposeStart
  BY <1>10, EndsElsewhere DEF ComposeStart, ComposeUp
<1>11. CASE ComposeDown
  BY <1>a, <1>11, EndsElsewhere, GoesElsewhere DEF ComposeDown, Free
<1>12. CASE RemoveVolumes \/ Exec \/ StanzaExists \/ CreateStanza \/ Stops
  BY <1>12, EndsElsewhere DEF RemoveVolumes, Exec, StanzaExists, CreateStanza, Stops
<1>13. CASE DbResponds \/ EnsureDbVolumes \/ StanzaMissing
  BY <1>a, <1>13, GoesElsewhere DEF DbResponds, EnsureDbVolumes, StanzaMissing, Free
<1>14. CASE StartDb
  BY <1>a, <1>14, EndsElsewhere, GoesElsewhere DEF StartDb, ComposeUp, Free
<1>15. CASE MoveHead \/ ChangeCredentials
  BY <1>15 DEF MoveHead, ChangeCredentials, ImagePresent, Present, images
<1>16. CASE Prune \/ StopOne
  BY <1>16, Elsewhere DEF Prune, StopOne
<1> QED
  BY <1>0, <1>1, <1>2, <1>3, <1>4, <1>5, <1>6, <1>7, <1>8, <1>9, <1>10, <1>11, <1>12, <1>13,
     <1>14, <1>15, <1>16
  DEF Next, BeginAny, CommandStep, Environment

(* What an up runs to write the volumes has its image, also when the up    *)
(* leaves its build out (pre_up_build_is_redundant, materialize_configs).  *)
THEOREM VolumesHaveImage == Spec => []VolumeWorkHasImage
<1>0. ASSUME Init PROVE cmd.kind = "none" BY <1>0 DEF Init, Idle
<1>1. Init => ImagePresent BY <1>0 DEF ImagePresent
<1>2. Spec => [](TypeInv /\ ImagePresent)
  BY <1>1, TypeInit, TypeStep, ImageStep, PTL DEF Spec
<1>3. ImagePresent => VolumeWorkHasImage
  BY DEF ImagePresent, VolumeWorkHasImage
<1> QED BY <1>2, <1>3, PTL

----------------------------------------------------------------------------
(* Which commands come to which labels; a command that runs has not ended  *)
(* well.                                                                   *)

Composing == {"build", "start", "exec", "stop", "remove"}
Serving == {"exec", "stop", "remove", "dbvols", "dbstart", "stanza", "create"}
Apart ==
    /\ cmd.pc \in Composing => cmd.kind \notin {"init", "stanza"}
    /\ cmd.pc \in Serving => cmd.kind # "up"
    /\ cmd.pc # "idle" => outcome.ok = FALSE

LEMMA ApartEnd == ASSUME NEW ok, End(ok) PROVE Apart'
  BY DEF End, Idle, Apart, Composing, Serving

(* Going on at a label that comes after the present one.                   *)
LEMMA ApartGo ==
  ASSUME Apart, CmdOK, cmd.pc # "idle", UNCHANGED outcome, cmd'.kind = cmd.kind,
         cmd'.pc \in Composing => cmd.pc \in Composing \/ cmd.kind \notin {"init", "stanza"},
         cmd'.pc \in Serving => cmd.pc \in Serving \/ cmd.kind # "up"
  PROVE  Apart'
  BY DEF Apart

LEMMA ApartSettle ==
  ASSUME Apart, CmdOK, cmd.pc # "idle", UNCHANGED outcome, NEW s,
         cmd' = [cmd EXCEPT !.pc = AfterChecks(cmd.kind, cmd.mode), !.settled = s]
  PROVE  Apart'
<1>1. cmd.kind \in Kinds BY DEF CmdOK, KindOK
<1>2. cmd'.kind = cmd.kind /\ cmd'.pc = AfterChecks(cmd.kind, cmd.mode)
  BY DEF CmdOK, Commands
<1>3. cmd.kind = "init" => cmd'.pc = "volumes"
  BY <1>2 DEF AfterChecks, Body
<1>4. cmd.kind = "stanza" => cmd'.pc \in {"repo", "archive"}
  BY <1>2 DEF AfterChecks, Body, MaterializeFrom
<1>5. cmd.kind = "up" => cmd'.pc = "volumes"
  BY <1>2 DEF AfterChecks, Body
<1> QED BY <1>2, <1>3, <1>4, <1>5, ApartGo DEF Composing, Serving

LEMMA GoFields ==
  ASSUME CmdOK, NEW pc, Go(pc)
  PROVE  /\ cmd'.pc = pc /\ cmd'.kind = cmd.kind /\ cmd'.mode = cmd.mode
         /\ cmd'.co = cmd.co /\ cmd'.nobuild = cmd.nobuild
         /\ cmd'.asked = cmd.asked /\ UNCHANGED outcome
  BY DEF Go, CmdOK, Commands

LEMMA ApartGoTo ==
  ASSUME Apart, CmdOK, cmd.pc # "idle", NEW pc, Go(pc),
         pc \in Composing => cmd.pc \in Composing \/ cmd.kind \notin {"init", "stanza"},
         pc \in Serving => cmd.pc \in Serving \/ cmd.kind # "up"
  PROVE  Apart'
<1>1. cmd'.pc = pc /\ cmd'.kind = cmd.kind /\ UNCHANGED outcome BY GoFields
<1> QED BY <1>1, ApartGo

LEMMA ApartStep ==
  ASSUME TypeInv, Apart, [Next]_vars PROVE Apart'
<1>a. WorldOK /\ ImageOK /\ CmdOK BY DEF TypeInv
<1>0. CASE UNCHANGED vars
  BY <1>0 DEF Apart, vars
<1>1. ASSUME NEW kind \in Kinds, NEW dry \in BOOLEAN, NEW skip \in BOOLEAN,
             NEW nobuild \in BOOLEAN, NEW asked \in SUBSET Roles,
             Begin(kind, dry, skip, nobuild, asked)
      PROVE  Apart'
  <2> DEFINE pc == IF Checked(kind, skip) THEN "hook" ELSE AfterChecks(kind, creds)
  <2>1. outcome'.ok = FALSE BY <1>1 DEF Begin, NoOutcome
  <2>2. CASE cmd' = Idle
    BY <2>1, <2>2 DEF Idle, Apart, Composing, Serving
  <2>3. CASE cmd' = [Idle EXCEPT
                       !.kind = kind, !.dry = dry, !.skip = skip, !.nobuild = nobuild,
                       !.co = checkout, !.mode = creds, !.asked = asked, !.pc = pc]
    <3>1. cmd'.kind = kind /\ cmd'.pc = pc BY <2>3 DEF Idle
    <3>2. kind = "init" => pc \in {"hook", "volumes"}
      BY DEF AfterChecks, Body
    <3>3. kind = "stanza" => pc \in {"hook", "repo", "archive"}
      BY DEF AfterChecks, Body, MaterializeFrom
    <3>4. kind = "up" => pc \in {"hook", "volumes"}
      BY DEF AfterChecks, Body
    <3> QED BY <2>1, <3>1, <3>2, <3>3, <3>4 DEF Apart, Composing, Serving
  <2> QED BY <1>1, <2>2, <2>3 DEF Begin
<1>2. CASE StackMatches \/ StaleReported
  BY <1>a, <1>2, ApartSettle DEF StackMatches, StaleReported, Settle
<1>3. CASE StaleFound
  BY <1>a, <1>3 DEF StaleFound, CmdOK, Commands, Apart, Composing, Serving
<1>4. CASE Rebuild
  <2>1. cmd.pc = "rebuild" BY <1>4 DEF Rebuild
  <2>2. \/ End(FALSE)
        \/ /\ UNCHANGED outcome
           /\ \/ cmd' = [cmd EXCEPT !.pc = "recreate"]
              \/ \E s \in BOOLEAN :
                    cmd' = [cmd EXCEPT !.pc = AfterChecks(cmd.kind, cmd.mode), !.settled = s]
    BY <1>4 DEF Rebuild, BuildRoles
  <2>3. CASE UNCHANGED outcome /\ cmd' = [cmd EXCEPT !.pc = "recreate"]
    BY <1>a, <2>1, <2>3, ApartGo DEF CmdOK, Commands, Composing, Serving
  <2> QED BY <1>a, <2>1, <2>2, <2>3, ApartSettle, ApartEnd
<1>5. CASE Recreate
  <2>1. /\ cmd.pc = "recreate"
        /\ \/ End(FALSE)
           \/ (\E found \in BOOLEAN : cmd' = Settle(found)) /\ UNCHANGED outcome
    BY <1>5 DEF Recreate, ComposeUp
  <2> QED BY <1>a, <2>1, ApartSettle, ApartEnd DEF Settle
<1>6. CASE EnsureVolumes
  <2>1. cmd.pc = "volumes"
        /\ (End(FALSE) \/ Go("prebuild") \/ Go("repo") \/ Go("archive"))
    BY <1>6 DEF EnsureVolumes, MaterializeFrom
  <2> QED BY <1>a, <2>1, ApartGoTo, ApartEnd DEF Composing, Serving
<1>7. CASE PreBuild
  <2>1. cmd.pc = "prebuild"
        /\ (End(FALSE) \/ (UNCHANGED outcome /\ cmd' = [cmd EXCEPT !.pc = MaterializeFrom(cmd.mode)]))
    BY <1>7 DEF PreBuild, BuildRoles
  <2>2. End(FALSE) \/ Go("repo") \/ Go("archive")
    BY <2>1 DEF Go, MaterializeFrom
  <2> QED BY <1>a, <2>1, <2>2, ApartGoTo, ApartEnd DEF Composing, Serving
<1>8. CASE MaterializeRepo \/ MaterializeArchive
  <2>1. cmd.pc \in {"repo", "archive"}
    BY <1>8 DEF MaterializeRepo, MaterializeArchive
  <2>2. CASE AfterMaterialize
    <3>1. cmd.kind \in {"up", "configure", "stanza", "init"} /\ cmd.nobuild \in BOOLEAN
      BY <1>a, <2>1 DEF CmdOK, KindOK, Commands
    <3>2. \/ cmd.kind = "up" /\ (Go("build") \/ Go("start"))
          \/ End(TRUE)
          \/ cmd.kind # "up" /\ (Go("stanza") \/ Go("dbvols"))
      BY <3>1, <2>2 DEF AfterMaterialize
    <3> QED BY <1>a, <2>1, <3>2, ApartGoTo, ApartEnd DEF Composing, Serving
  <2>3. CASE Go("repo") \/ Go("archive")
    BY <1>a, <2>1, <2>3, ApartGoTo DEF Composing, Serving
  <2> QED BY <1>8, <2>2, <2>3 DEF MaterializeRepo, MaterializeArchive
<1>9. CASE ComposeBuild
  <2>1. cmd.pc = "build" BY <1>9 DEF ComposeBuild
  <2> QED BY <1>a, <1>9, <2>1, BuildGoesOn, ApartGo, ApartEnd DEF Composing, Serving
<1>10. CASE ComposeStart \/ RemoveVolumes \/ Exec \/ StanzaExists \/ CreateStanza \/ Stops
  <2>1. \E ok \in BOOLEAN : End(ok)
    BY <1>10 DEF ComposeStart, ComposeUp, RemoveVolumes, Exec, StanzaExists, CreateStanza, Stops
  <2> QED BY <2>1, ApartEnd
<1>11. CASE ComposeDown
  <2>1. cmd.pc = "stop" /\ (Go("remove") \/ \E ok \in BOOLEAN : End(ok))
    BY <1>11 DEF ComposeDown
  <2> QED BY <1>a, <2>1, ApartGoTo, ApartEnd DEF Composing, Serving
<1>12. CASE DbResponds \/ EnsureDbVolumes \/ StanzaMissing
  <2>1. cmd.pc \in {"dbvols", "stanza"}
        /\ (Go("stanza") \/ Go("create") \/ Go("dbstart") \/ Go("dbvols"))
    BY <1>12 DEF DbResponds, EnsureDbVolumes, StanzaMissing
  <2> QED BY <1>a, <2>1, ApartGoTo DEF Composing, Serving
<1>13. CASE StartDb
  <2>1. cmd.pc = "dbstart" /\ (End(FALSE) \/ Go("stanza") \/ Go("create"))
    BY <1>13 DEF StartDb, ComposeUp
  <2> QED BY <1>a, <2>1, ApartGoTo, ApartEnd DEF Composing, Serving
<1>14. CASE MoveHead \/ ChangeCredentials \/ Prune \/ StopOne
  BY <1>14 DEF MoveHead, ChangeCredentials, Prune, StopOne, Apart, Composing, Serving
<1> QED
  BY <1>0, <1>1, <1>2, <1>3, <1>4, <1>5, <1>6, <1>7, <1>8, <1>9, <1>10, <1>11, <1>12, <1>13,
     <1>14
  DEF Next, BeginAny, CommandStep, Environment

LEMMA ApartAlways == Spec => [](TypeInv /\ Apart)
<1>0. ASSUME Init PROVE cmd.pc = "idle" BY <1>0 DEF Init, Idle
<1>1. Init => Apart BY <1>0 DEF Apart, Composing, Serving
<1> QED BY <1>1, TypeInit, TypeStep, ApartStep, PTL DEF Spec

----------------------------------------------------------------------------
(* The stanza.  With WRITE credentials the repository's file is written    *)
(* before the archive's, and both before the stanza is looked at.          *)

Late == {"dbvols", "dbstart", "stanza", "create"}
Configured ==
    cmd.mode = "write" =>
        /\ cmd.pc = "archive" => conf.repo = "write"
        /\ cmd.pc \in Late => conf.repo = "write" /\ conf.archive
StanzaInv == stanza["read"] = -1 /\ Configured /\ StanzaWhereBackupsGo

LEMMA StanzaFails ==
  ASSUME StanzaInv, UNCHANGED stanza, End(FALSE) PROVE StanzaInv'
<1>1. cmd'.mode = "none" /\ outcome'.ok = FALSE BY DEF End, Idle
<1> QED BY <1>1 DEF StanzaInv, Configured, StanzaWhereBackupsGo

(* Another command has ended.                                              *)
LEMMA StanzaOther ==
  ASSUME StanzaInv, UNCHANGED stanza, NEW ok, End(ok), cmd.kind \notin {"init", "stanza"}
  PROVE  StanzaInv'
<1>1. cmd'.mode = "none" /\ outcome'.kind = cmd.kind BY DEF End, Idle
<1> QED BY <1>1 DEF StanzaInv, Configured, StanzaWhereBackupsGo

(* A command goes on, with what it needs where it needs it.                *)
LEMMA StanzaGo ==
  ASSUME StanzaInv, Apart, cmd.pc # "idle", UNCHANGED <<stanza, outcome>>, cmd'.mode = cmd.mode,
         cmd.mode = "write" /\ cmd'.pc = "archive" => conf'.repo = "write",
         cmd.mode = "write" /\ cmd'.pc \in Late => conf'.repo = "write" /\ conf'.archive
  PROVE  StanzaInv'
  BY DEF StanzaInv, Configured, StanzaWhereBackupsGo, Apart

LEMMA StanzaGoTo ==
  ASSUME StanzaInv, Apart, CmdOK, cmd.pc # "idle", UNCHANGED stanza, NEW pc, Go(pc),
         cmd.mode = "write" /\ pc = "archive" => conf'.repo = "write",
         cmd.mode = "write" /\ pc \in Late => conf'.repo = "write" /\ conf'.archive
  PROVE  StanzaInv'
<1>1. cmd'.pc = pc /\ cmd'.mode = cmd.mode /\ UNCHANGED outcome BY GoFields
<1> QED BY <1>1, StanzaGo

LEMMA StanzaSettle ==
  ASSUME StanzaInv, Apart, CmdOK, cmd.pc # "idle", UNCHANGED <<stanza, outcome>>, NEW s,
         cmd' = [cmd EXCEPT !.pc = AfterChecks(cmd.kind, cmd.mode), !.settled = s]
  PROVE  StanzaInv'
<1>1. cmd.kind \in Kinds BY DEF CmdOK, KindOK
<1>2. cmd'.mode = cmd.mode /\ cmd'.pc = AfterChecks(cmd.kind, cmd.mode)
  BY DEF CmdOK, Commands
<1>3. cmd'.pc \notin Late /\ (cmd'.pc = "archive" => cmd.mode = "none")
  BY <1>1, <1>2, AfterChecksWhere DEF Late
<1> QED BY <1>2, <1>3, StanzaGo

(* After both files: on to the build, the start, or the stanza.            *)
LEMMA StanzaMaterialized ==
  ASSUME StanzaInv, Apart, CmdOK, cmd.pc \in {"repo", "archive"}, UNCHANGED stanza,
         AfterMaterialize,
         cmd.mode = "write" => conf'.repo = "write" /\ conf'.archive
  PROVE  StanzaInv'
<1>1. cmd.kind \in {"up", "configure", "stanza", "init"} /\ cmd.nobuild \in BOOLEAN
  BY DEF CmdOK, KindOK, Commands
<1>2. \/ Go("build") \/ Go("start") \/ Go("stanza") \/ Go("dbvols")
      \/ End(TRUE) /\ cmd.kind = "configure"
  BY <1>1 DEF AfterMaterialize
<1> QED BY <1>2, StanzaGoTo, StanzaOther

LEMMA StanzaStep ==
  ASSUME TypeInv, Apart, StanzaInv, [Next]_vars PROVE StanzaInv'
<1>a. WorldOK /\ DataOK /\ CmdOK BY DEF TypeInv
<1>0. CASE UNCHANGED vars
  BY <1>0 DEF StanzaInv, Configured, StanzaWhereBackupsGo, vars
<1>1. ASSUME NEW kind \in Kinds, NEW dry \in BOOLEAN, NEW skip \in BOOLEAN,
             NEW nobuild \in BOOLEAN, NEW asked \in SUBSET Roles,
             Begin(kind, dry, skip, nobuild, asked)
      PROVE  StanzaInv'
  <2> DEFINE pc == IF Checked(kind, skip) THEN "hook" ELSE AfterChecks(kind, creds)
  <2>1. outcome'.ok = FALSE /\ UNCHANGED <<stanza, conf>> BY <1>1 DEF Begin, NoOutcome, data
  <2>2. CASE cmd' = Idle
    BY <2>1, <2>2 DEF Idle, StanzaInv, Configured, StanzaWhereBackupsGo
  <2>3. CASE cmd' = [Idle EXCEPT
                       !.kind = kind, !.dry = dry, !.skip = skip, !.nobuild = nobuild,
                       !.co = checkout, !.mode = creds, !.asked = asked, !.pc = pc]
    <3>1. cmd'.mode = creds /\ cmd'.pc = pc BY <2>3 DEF Idle
    <3>2. pc \notin Late /\ (pc = "archive" => creds = "none")
      BY AfterChecksWhere DEF Late
    <3> QED BY <2>1, <3>1, <3>2 DEF StanzaInv, Configured, StanzaWhereBackupsGo
  <2> QED BY <1>1, <2>2, <2>3 DEF Begin
<1>2. CASE StackMatches \/ StaleReported
  BY <1>a, <1>2, StanzaSettle DEF StackMatches, StaleReported, Settle, data
<1>3. CASE StaleFound
  <2>1. cmd.pc = "hook" /\ cmd'.pc = "rebuild" /\ cmd'.mode = cmd.mode
        /\ UNCHANGED <<stanza, conf, outcome>>
    BY <1>a, <1>3 DEF StaleFound, CmdOK, Commands, data
  <2> QED BY <2>1, StanzaGo DEF Late
<1>4. CASE Rebuild
  <2>1. cmd.pc = "rebuild" /\ UNCHANGED stanza BY <1>4 DEF Rebuild, data
  <2>2. \/ End(FALSE)
        \/ /\ UNCHANGED outcome
           /\ \/ cmd' = [cmd EXCEPT !.pc = "recreate"]
              \/ \E s \in BOOLEAN :
                    cmd' = [cmd EXCEPT !.pc = AfterChecks(cmd.kind, cmd.mode), !.settled = s]
    BY <1>4 DEF Rebuild, BuildRoles
  <2>3. CASE UNCHANGED outcome /\ cmd' = [cmd EXCEPT !.pc = "recreate"]
    <3>1. cmd'.pc = "recreate" /\ cmd'.mode = cmd.mode BY <1>a, <2>3 DEF CmdOK, Commands
    <3> QED BY <2>1, <2>3, <3>1, StanzaGo DEF Late
  <2> QED BY <1>a, <2>1, <2>2, <2>3, StanzaSettle, StanzaFails
<1>5. CASE Recreate
  <2>1. cmd.pc = "recreate" /\ UNCHANGED stanza
        /\ \/ End(FALSE)
           \/ (\E found \in BOOLEAN : cmd' = Settle(found)) /\ UNCHANGED outcome
    BY <1>5 DEF Recreate, ComposeUp
  <2> QED BY <1>a, <2>1, StanzaSettle, StanzaFails DEF Settle
<1>6. CASE EnsureVolumes
  <2>1. cmd.pc = "volumes" /\ UNCHANGED stanza
        /\ (End(FALSE) \/ Go("prebuild") \/ Go(MaterializeFrom(cmd.mode)))
    BY <1>6 DEF EnsureVolumes
  <2> QED BY <1>a, <2>1, StanzaGoTo, StanzaFails DEF Late, MaterializeFrom
<1>7. CASE PreBuild
  <2>1. cmd.pc = "prebuild" /\ UNCHANGED stanza
        /\ (End(FALSE) \/ (UNCHANGED outcome /\ cmd' = [cmd EXCEPT !.pc = MaterializeFrom(cmd.mode)]))
    BY <1>7 DEF PreBuild, BuildRoles, data
  <2>2. End(FALSE) \/ Go(MaterializeFrom(cmd.mode))
    BY <2>1 DEF Go
  <2> QED BY <1>a, <2>1, <2>2, StanzaGoTo, StanzaFails DEF Late, MaterializeFrom
<1>8. CASE MaterializeRepo
  <2>1. cmd.pc = "repo" /\ UNCHANGED stanza BY <1>8 DEF MaterializeRepo
  <2>2. CASE cmd.mode = "none"
    BY <1>a, <1>8, <2>1, <2>2, StanzaMaterialized DEF MaterializeRepo
  <2>3. CASE cmd.mode # "none"
    <3>1. Go("archive") /\ conf'.repo = cmd.mode
      BY <1>a, <1>8, <2>3 DEF MaterializeRepo, RepoFile, DataOK
    <3> QED BY <1>a, <2>1, <3>1, StanzaGoTo DEF Late
  <2> QED BY <2>2, <2>3
<1>9. CASE MaterializeArchive
  <2>1. cmd.pc = "archive" /\ UNCHANGED stanza BY <1>9 DEF MaterializeArchive
  <2>2. CASE cmd.mode = "none"
    <3>1. Go("repo") BY <1>9, <2>2 DEF MaterializeArchive
    <3> QED BY <1>a, <2>1, <2>2, <3>1, StanzaGoTo DEF Late
  <2>3. CASE cmd.mode # "none"
    <3>1. AfterMaterialize BY <1>9, <2>3 DEF MaterializeArchive
    <3>2. cmd.mode = "write" => conf' = [conf EXCEPT !.archive = TRUE]
      BY <1>9 DEF MaterializeArchive
    <3>3. cmd.mode = "write" => conf'.repo = "write" /\ conf'.archive
      BY <1>a, <2>1, <3>2 DEF DataOK, StanzaInv, Configured
    <3> QED BY <1>a, <2>1, <3>1, <3>3, StanzaMaterialized
  <2> QED BY <2>2, <2>3
<1>10. CASE ComposeStart \/ ComposeDown \/ RemoveVolumes \/ Exec
  <2>1. cmd.pc \in Composing /\ UNCHANGED stanza
    BY <1>10 DEF ComposeStart, ComposeDown, RemoveVolumes, Exec, Composing, data
  <2>2. cmd.pc # "idle" /\ cmd.kind \notin {"init", "stanza"} BY <2>1 DEF Apart, Composing
  <2>3. Go("remove") \/ \E ok \in BOOLEAN : End(ok)
    BY <1>10 DEF ComposeStart, ComposeUp, ComposeDown, RemoveVolumes, Exec
  <2> QED BY <1>a, <2>1, <2>2, <2>3, StanzaGoTo, StanzaOther DEF Late
<1>15. CASE ComposeBuild
  <2>1. cmd.pc = "build" /\ UNCHANGED stanza BY <1>15 DEF ComposeBuild, data
  <2>2. cmd.kind \notin {"init", "stanza"} BY <2>1 DEF Apart, Composing
  <2>3. ImageOK BY DEF TypeInv
  <2> QED BY <1>a, <1>15, <2>1, <2>2, <2>3, BuildGoesOn, StanzaGo, StanzaOther DEF Late
<1>11. CASE DbResponds \/ EnsureDbVolumes \/ StanzaMissing
  <2>1. cmd.pc \in Late /\ UNCHANGED <<conf, stanza>> /\ cmd.pc # "idle"
        /\ (Go("stanza") \/ Go("create") \/ Go("dbstart") \/ Go("dbvols"))
    BY <1>11 DEF DbResponds, EnsureDbVolumes, StanzaMissing, Late, data
  <2>2. cmd.mode = "write" => conf'.repo = "write" /\ conf'.archive
    BY <2>1 DEF StanzaInv, Configured
  <2> QED BY <1>a, <2>1, <2>2, StanzaGoTo
<1>12. CASE StartDb
  <2>1. cmd.pc \in Late /\ UNCHANGED <<conf, stanza>> /\ cmd.pc # "idle"
        /\ (End(FALSE) \/ Go("stanza") \/ Go("create"))
    BY <1>12 DEF StartDb, ComposeUp, Late
  <2>2. cmd.mode = "write" => conf'.repo = "write" /\ conf'.archive
    BY <2>1 DEF StanzaInv, Configured
  <2> QED BY <1>a, <2>1, <2>2, StanzaGoTo, StanzaFails
<1>13. CASE StanzaExists \/ CreateStanza
  <2>1. cmd.pc \in Late /\ cmd.mode = "write" /\ UNCHANGED conf /\ End(TRUE)
    BY <1>13 DEF StanzaExists, StanzaHealthy, CreateStanza, Late, data
  <2>2. conf.repo = "write" /\ conf.archive
    BY <2>1 DEF StanzaInv, Configured
  <2>3. stanza'["read"] = stanza["read"] /\ stanza'["write"] # 0
    BY <1>a, <1>13, <2>2
    DEF StanzaExists, StanzaHealthy, CreateStanza, Initialised, DataOK, data
  <2>4. cmd'.mode = "none" BY <2>1 DEF End, Idle
  <2> QED BY <2>1, <2>2, <2>3, <2>4 DEF StanzaInv, Configured, StanzaWhereBackupsGo
<1>14. CASE Stops \/ MoveHead \/ ChangeCredentials \/ Prune \/ StopOne
  <2>1. CASE Stops
    BY <2>1, StanzaFails DEF Stops, data
  <2>2. CASE MoveHead \/ ChangeCredentials \/ Prune
    BY <2>2 DEF MoveHead, ChangeCredentials, Prune, StanzaInv, Configured, StanzaWhereBackupsGo, data
  <2>3. CASE StopOne
    BY <2>3 DEF StopOne, NoOutcome, StanzaInv, Configured, StanzaWhereBackupsGo
  <2> QED BY <1>14, <2>1, <2>2, <2>3
<1> QED
  BY <1>0, <1>1, <1>2, <1>3, <1>4, <1>5, <1>6, <1>7, <1>8, <1>9, <1>10, <1>11, <1>12, <1>13,
     <1>14, <1>15
  DEF Next, BeginAny, CommandStep, Environment

(* A stanza is made only in the repository this stack archives to, and the *)
(* configuration that the command leaves is the one of that repository     *)
(* (run_bkp_db_init, run_bkp_db_stanza_create_flow, materialize_configs).  *)
THEOREM StanzaGoesWithBackups == Spec => []StanzaWhereBackupsGo
<1>0. ASSUME Init
      PROVE  cmd.mode = "none" /\ outcome.ok = FALSE /\ stanza["read"] = -1
  BY <1>0 DEF Init, Idle, NoOutcome
<1>1. Init => StanzaInv BY <1>0 DEF StanzaInv, Configured, StanzaWhereBackupsGo
<1>2. StanzaInv => StanzaWhereBackupsGo BY DEF StanzaInv
<1>3. Spec => []StanzaInv
  BY <1>1, ApartAlways, StanzaStep, PTL DEF Spec
<1> QED BY <1>2, <1>3, PTL

----------------------------------------------------------------------------
(* What an up runs.  The labels of the build before it are the checkout's, *)
(* for every service that can own one of the images, if the compose file   *)
(* could be read.                                                          *)

Labelled ==
    cmd.pc = "start" /\ cmd.kind = "up" /\ ~cmd.nobuild =>
        \A r \in cmd.asked :
            \/ image[cmd.co.tag][r].label = cmd.co.sha
            \/ image[cmd.co.tag][r].label = 0 /\ ~cmd.read
RunsInv == Labelled /\ UpRunsTheCheckout

LEMMA RunsFails == ASSUME End(FALSE) PROVE RunsInv'
<1>1. cmd'.pc = "idle" /\ outcome'.ok = FALSE BY DEF End, Idle
<1> QED BY <1>1 DEF RunsInv, Labelled, UpRunsTheCheckout

LEMMA RunsOther ==
  ASSUME NEW ok, End(ok), cmd.kind # "up" PROVE RunsInv'
<1>1. cmd'.pc = "idle" /\ outcome'.kind = cmd.kind BY DEF End, Idle
<1> QED BY <1>1 DEF RunsInv, Labelled, UpRunsTheCheckout

(* A command goes on, and has not come to its start.                       *)
LEMMA RunsGo ==
  ASSUME Apart, cmd.pc # "idle", UNCHANGED outcome, cmd'.pc # "start"
  PROVE  RunsInv'
  BY DEF RunsInv, Labelled, UpRunsTheCheckout, Apart

LEMMA RunsGoTo ==
  ASSUME Apart, CmdOK, cmd.pc # "idle", NEW pc, pc # "start", Go(pc) PROVE RunsInv'
<1>1. cmd'.pc = pc /\ UNCHANGED outcome BY GoFields
<1> QED BY <1>1, RunsGo

LEMMA RunsSettle ==
  ASSUME Apart, CmdOK, cmd.pc # "idle", UNCHANGED outcome, NEW s,
         cmd' = [cmd EXCEPT !.pc = AfterChecks(cmd.kind, cmd.mode), !.settled = s]
  PROVE  RunsInv'
<1>1. cmd.kind \in Kinds BY DEF CmdOK, KindOK
<1>2. cmd'.pc = AfterChecks(cmd.kind, cmd.mode) BY DEF CmdOK, Commands
<1>3. cmd'.pc # "start" BY <1>1, <1>2, AfterChecksWhere
<1> QED BY <1>3, RunsGo

LEMMA RunsStep ==
  ASSUME TypeInv, Apart, RunsInv, [Next]_vars PROVE RunsInv'
<1>a. WorldOK /\ ImageOK /\ ContOK /\ CmdOK BY DEF TypeInv
<1>0. CASE UNCHANGED vars
  BY <1>0 DEF RunsInv, Labelled, UpRunsTheCheckout, vars
<1>1. ASSUME NEW kind \in Kinds, NEW dry \in BOOLEAN, NEW skip \in BOOLEAN,
             NEW nobuild \in BOOLEAN, NEW asked \in SUBSET Roles,
             Begin(kind, dry, skip, nobuild, asked)
      PROVE  RunsInv'
  <2> DEFINE pc == IF Checked(kind, skip) THEN "hook" ELSE AfterChecks(kind, creds)
  <2>1. outcome'.ok = FALSE BY <1>1 DEF Begin, NoOutcome
  <2>2. CASE cmd' = Idle
    BY <2>1, <2>2 DEF Idle, RunsInv, Labelled, UpRunsTheCheckout
  <2>3. CASE cmd' = [Idle EXCEPT
                       !.kind = kind, !.dry = dry, !.skip = skip, !.nobuild = nobuild,
                       !.co = checkout, !.mode = creds, !.asked = asked, !.pc = pc]
    <3>1. cmd'.pc = pc BY <2>3 DEF Idle
    <3>2. pc # "start" BY AfterChecksWhere
    <3> QED BY <2>1, <3>1, <3>2 DEF RunsInv, Labelled, UpRunsTheCheckout
  <2> QED BY <1>1, <2>2, <2>3 DEF Begin
<1>2. CASE StackMatches \/ StaleReported
  BY <1>a, <1>2, RunsSettle DEF StackMatches, StaleReported, Settle
<1>3. CASE StaleFound
  <2>1. cmd.pc = "hook" /\ cmd'.pc = "rebuild" /\ UNCHANGED outcome
    BY <1>a, <1>3 DEF StaleFound, CmdOK, Commands
  <2> QED BY <2>1, RunsGo
<1>4. CASE Rebuild
  <2>1. cmd.pc = "rebuild" BY <1>4 DEF Rebuild
  <2>2. \/ End(FALSE)
        \/ /\ UNCHANGED outcome
           /\ \/ cmd' = [cmd EXCEPT !.pc = "recreate"]
              \/ \E s \in BOOLEAN :
                    cmd' = [cmd EXCEPT !.pc = AfterChecks(cmd.kind, cmd.mode), !.settled = s]
    BY <1>4 DEF Rebuild, BuildRoles
  <2>3. CASE UNCHANGED outcome /\ cmd' = [cmd EXCEPT !.pc = "recreate"]
    <3>1. cmd'.pc = "recreate" BY <1>a, <2>3 DEF CmdOK, Commands
    <3> QED BY <2>1, <2>3, <3>1, RunsGo
  <2> QED BY <1>a, <2>1, <2>2, <2>3, RunsSettle, RunsFails
<1>5. CASE Recreate
  <2>1. /\ cmd.pc = "recreate"
        /\ \/ End(FALSE)
           \/ (\E found \in BOOLEAN : cmd' = Settle(found)) /\ UNCHANGED outcome
    BY <1>5 DEF Recreate, ComposeUp
  <2> QED BY <1>a, <2>1, RunsSettle, RunsFails DEF Settle
<1>6. CASE EnsureVolumes
  <2>1. cmd.pc = "volumes"
        /\ (End(FALSE) \/ Go("prebuild") \/ Go(MaterializeFrom(cmd.mode)))
    BY <1>6 DEF EnsureVolumes
  <2> QED BY <1>a, <2>1, RunsGoTo, RunsFails DEF MaterializeFrom
<1>7. CASE PreBuild
  <2>1. cmd.pc = "prebuild"
        /\ (End(FALSE) \/ (UNCHANGED outcome /\ cmd' = [cmd EXCEPT !.pc = MaterializeFrom(cmd.mode)]))
    BY <1>7 DEF PreBuild, BuildRoles
  <2>2. End(FALSE) \/ Go(MaterializeFrom(cmd.mode))
    BY <2>1 DEF Go
  <2> QED BY <1>a, <2>1, <2>2, RunsGoTo, RunsFails DEF MaterializeFrom
<1>8. CASE MaterializeRepo \/ MaterializeArchive
  <2>1. cmd.pc \in {"repo", "archive"}
    BY <1>8 DEF MaterializeRepo, MaterializeArchive
  <2>2. CASE AfterMaterialize
    <3>1. cmd.kind \in {"up", "configure", "stanza", "init"} /\ cmd.nobuild \in BOOLEAN
      BY <1>a, <2>1 DEF CmdOK, KindOK, Commands
    <3>2. \/ Go("build") \/ Go("stanza") \/ Go("dbvols")
          \/ End(TRUE) /\ cmd.kind # "up"
          \/ Go("start") /\ cmd.nobuild
      BY <3>1, <2>2 DEF AfterMaterialize
    <3>3. CASE Go("start") /\ cmd.nobuild
      <4>1. cmd'.nobuild = cmd.nobuild /\ UNCHANGED outcome BY <1>a, <3>3, GoFields
      <4> QED BY <2>1, <3>3, <4>1 DEF RunsInv, Labelled, UpRunsTheCheckout, Apart
    <3> QED BY <1>a, <2>1, <3>2, <3>3, RunsGoTo, RunsOther
  <2>3. CASE Go("repo") \/ Go("archive")
    BY <1>a, <2>1, <2>3, RunsGoTo
  <2> QED BY <1>8, <2>2, <2>3 DEF MaterializeRepo, MaterializeArchive
<1>9. CASE ComposeBuild
  <2>1. cmd.pc = "build" BY <1>9 DEF ComposeBuild
  <2>2. ASSUME NEW read \in BOOLEAN, NEW owner \in [Roles -> Roles \cup CoBuilders],
               cmd' = [cmd EXCEPT !.pc = "start", !.read = read],
               cmd.kind = "up", UNCHANGED outcome,
               \A r \in Roles : owner[r] \in Builders(r),
               \A r \in cmd.asked : image'[cmd.co.tag][r] = Built(owner[r], read)
        PROVE  RunsInv'
    <3>1. cmd'.co = cmd.co /\ cmd'.asked = cmd.asked /\ cmd'.read = read /\ cmd.asked \subseteq Roles
      BY <1>a, <2>2 DEF CmdOK, Commands
    <3>2. \A r \in Roles : read => owner[r] \in LabelTargets(read)
      BY <2>2 DEF Builders, LabelTargets
    <3>3. \A r \in Roles : /\ Built(owner[r], read).label \in {cmd.co.sha, 0}
                           /\ read => Built(owner[r], read).label = cmd.co.sha
      BY <1>a, <2>1, <3>2, BuiltIsImage
    <3>4. Labelled' BY <2>2, <3>1, <3>3 DEF Labelled
    <3>5. outcome'.ok = FALSE BY <2>1, <2>2 DEF Apart
    <3> QED BY <3>4, <3>5 DEF RunsInv, UpRunsTheCheckout
  <2> QED BY <1>a, <1>9, <2>2, BuildAskedKeeps, RunsFails, RunsOther
<1>10. CASE ComposeStart
  <2>1. PICK B \in SUBSET Along(cmd.asked) :
           Start(B) /\ IF cmd.asked \subseteq B THEN End(TRUE) ELSE End(FALSE)
    BY <1>10 DEF ComposeStart, ComposeUp
  <2>2. CASE ~(cmd.asked \subseteq B) BY <2>1, <2>2, RunsFails
  <2>3. CASE cmd.asked \subseteq B /\ cmd.kind # "up" BY <2>1, <2>3, RunsOther
  <2>4. CASE cmd.asked \subseteq B /\ cmd.kind = "up"
    <3>0. cmd.asked \subseteq Roles BY <1>a DEF CmdOK, Commands
    <3>1. \A r \in cmd.asked : cont'[r] = ContainerOf(image[cmd.co.tag][r])
      BY <2>1, <2>4, <3>0 DEF Start
    <3>a. \A im : ContainerOf(im).tag = cmd.co.tag /\ ContainerOf(im).label = im.label
      BY DEF ContainerOf
    <3>2. \A r \in cmd.asked :
             cont'[r].tag = cmd.co.tag /\ cont'[r].label = image[cmd.co.tag][r].label
      BY <3>1, <3>a
    <3>3. /\ outcome'.nobuild = cmd.nobuild /\ outcome'.co = cmd.co
          /\ outcome'.asked = cmd.asked /\ outcome'.read = cmd.read
          /\ cmd'.pc = "idle"
      <4>1. End(TRUE) BY <2>1, <2>4
      <4> QED BY <4>1 DEF End, Idle
    <3>4. cmd.pc = "start" BY <1>10 DEF ComposeStart
    <3> QED BY <2>4, <3>2, <3>3, <3>4 DEF RunsInv, Labelled, UpRunsTheCheckout
  <2> QED BY <2>2, <2>3, <2>4
<1>11. CASE ComposeDown \/ RemoveVolumes \/ Exec \/ StanzaExists \/ CreateStanza
  <2>1. cmd.pc \in Serving /\ cmd.pc # "idle"
        /\ (Go("remove") \/ \E ok \in BOOLEAN : End(ok))
    BY <1>11 DEF ComposeDown, RemoveVolumes, Exec, StanzaExists, CreateStanza, Serving
  <2>2. cmd.kind # "up" BY <2>1 DEF Apart
  <2> QED BY <1>a, <2>1, <2>2, RunsGoTo, RunsOther
<1>12. CASE DbResponds \/ EnsureDbVolumes \/ StanzaMissing
  <2>1. cmd.pc # "idle" /\ (Go("stanza") \/ Go("create") \/ Go("dbstart") \/ Go("dbvols"))
    BY <1>12 DEF DbResponds, EnsureDbVolumes, StanzaMissing
  <2> QED BY <1>a, <2>1, RunsGoTo
<1>13. CASE StartDb
  <2>1. cmd.pc # "idle" /\ (End(FALSE) \/ Go("stanza") \/ Go("create"))
    BY <1>13 DEF StartDb, ComposeUp
  <2> QED BY <1>a, <2>1, RunsGoTo, RunsFails
<1>14. CASE Stops \/ MoveHead \/ ChangeCredentials \/ Prune \/ StopOne
  <2>1. CASE Stops
    BY <2>1, RunsFails DEF Stops
  <2>2. CASE MoveHead \/ ChangeCredentials
    BY <2>2 DEF MoveHead, ChangeCredentials, RunsInv, Labelled, UpRunsTheCheckout, images
  <2>3. CASE Prune \/ StopOne
    <3>1. cmd.pc = "idle" /\ UNCHANGED cmd
          /\ (UNCHANGED <<cont, outcome>> \/ outcome'.ok = FALSE)
      BY <2>3 DEF Prune, StopOne, NoOutcome
    <3> QED BY <3>1 DEF RunsInv, Labelled, UpRunsTheCheckout
  <2> QED BY <1>14, <2>1, <2>2, <2>3
<1> QED
  BY <1>0, <1>1, <1>2, <1>3, <1>4, <1>5, <1>6, <1>7, <1>8, <1>9, <1>10, <1>11, <1>12, <1>13,
     <1>14
  DEF Next, BeginAny, CommandStep, Environment

(* An up that may build ends with every container it was asked for on an   *)
(* image that bears the checkout it was given at, or no label when it had  *)
(* to do without the compose file, whatever was there and whichever        *)
(* service built the image last (label_target_services, _run_compose_path).*)
THEOREM UpRunsWhatItWasGiven == Spec => []UpRunsTheCheckout
<1>0. ASSUME Init PROVE cmd.pc = "idle" /\ outcome.ok = FALSE
  BY <1>0 DEF Init, Idle, NoOutcome
<1>1. Init => RunsInv BY <1>0 DEF RunsInv, Labelled, UpRunsTheCheckout
<1>2. RunsInv => UpRunsTheCheckout BY DEF RunsInv
<1>3. Spec => []RunsInv
  BY <1>1, ApartAlways, RunsStep, PTL DEF Spec
<1> QED BY <1>2, <1>3, PTL

==============================================================================
