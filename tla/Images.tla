-------------------------------- MODULE Images --------------------------------
(***************************************************************************)
(* dk push and dk clean-images over one registry: the images of a stack    *)
(* are built and pushed one after the other, each with its bill of         *)
(* materials, and package versions that no deployment needs are deleted    *)
(* (build_push.py, dk_stack.py, image_sbom.py, ghcr_cleanup.py).           *)
(*                                                                         *)
(* A build is a number, which stands for the digests of its images and for *)
(* their age.  oras attaches a bill of materials as a manifest that has no *)
(* name.  The registry, GitHub's list of versions, docker, sops and the    *)
(* scanners are external.                                                  *)
(***************************************************************************)
EXTENDS Integers, Sequences, FiniteSets, SequencesExt

CONSTANTS
    Users,        \* workstations and CI
    Commits,      \* what can be checked out
    TagsAt,       \* git tags of each commit, in the order git sorts them
    GivenNames,   \* names that --tag gives
    Patterns,     \* names that extra_exclude_tags matches
    Keep,         \* keep_n_tagged
    WithUntagged, \* delete_untagged
    MaxBuilds,    \* bound: builds
    MaxBegun      \* bound: commands in a behaviour

Branch == "branch"
Tags == UNION {ToSet(TagsAt[c]) : c \in Commits}
Names == {Branch} \cup GivenNames \cup Tags
Roles == {"web", "proxy", "db"}

ASSUME ImagesAssumption ==
    /\ TagsAt \in [Commits -> Seq(Tags)] /\ Patterns \subseteq Names
    /\ Keep \in Nat /\ WithUntagged \in BOOLEAN /\ MaxBuilds \in Nat \ {0} /\ MaxBegun \in Nat

VARIABLES
    builds,    \* commit of each build
    image,     \* build each name of a package stands for, 0 for none
    kept,      \* builds in each package
    boms,      \* builds in each package whose bill of materials is there
    old,       \* builds older than the cutoff, which is weeks away from a new one
    pin,       \* the name the deployment pins, and the one each user's checkout
               \* has for it; hidden: in the encrypted credentials
    settled,   \* names whose last push came to its end, alone
    doing,     \* the command of each user
    begun      \* commands begun

imagesVars == <<builds, image, kept, boms, old, pin, settled, doing, begun>>
registry == <<image, kept, boms>>

Nothing == [kind |-> "none", name |-> "none", build |-> 0, todo |-> <<>>, spared |-> {}, raced |-> FALSE]

----------------------------------------------------------------------------
(* The beginning and the end of a command.  A push of the same name, or    *)
(* one during a cleaning, makes a race of it, and a cleaning that is one   *)
(* makes a race of each beside it: its plan is stale.                      *)

Disturbs(d, c) ==
    \/ d.kind = "push" /\ (c.kind = "clean" \/ (c.kind = "push" /\ c.name = d.name))
    \/ d.kind = "clean" /\ d.raced /\ c.kind = "clean"

Begins(u, c) ==
    /\ doing[u] = Nothing /\ begun < MaxBegun
    /\ begun' = begun + 1
    /\ doing' = [v \in Users |->
                IF v = u THEN [c EXCEPT !.raced = \E x \in Users : Disturbs(doing[x], c)]
                ELSE [doing[v] EXCEPT !.raced = @ \/ Disturbs(c, doing[v])]]
    /\ UNCHANGED <<builds, registry, old, pin>>

Goes(u) == doing' = [doing EXCEPT ![u] = IF Len(@.todo) > 1 THEN [doing[u] EXCEPT !.todo = Tail(@)] ELSE Nothing]

(* A call fails or the command is killed.                                  *)
CutShort(u) ==
    /\ doing[u] # Nothing /\ doing' = [doing EXCEPT ![u] = Nothing]
    /\ UNCHANGED <<builds, registry, old, pin, settled, begun>>

Does(u, step) == doing[u].todo # <<>> /\ doing[u].todo[1][1] = step
Role(u) == doing[u].todo[1][2]

----------------------------------------------------------------------------
(* dk push.                                                                *)

(* _default_image_tag: the first git tag at HEAD, else the branch.         *)
DefaultName(c) == IF TagsAt[c] = <<>> THEN Branch ELSE TagsAt[c][1]

(* push_registry_images, in the order of registry_role_refs.               *)
PushPlan(c) == <<<<"build", c>>, <<"push", "web">>, <<"push", "proxy">>, <<"push", "db">>>>

Push(u) ==
    \E c \in Commits : \E n \in {DefaultName(c)} \cup GivenNames :
        /\ Begins(u, [Nothing EXCEPT !.kind = "push", !.name = n, !.todo = PushPlan(c)])
        /\ settled' = settled \ {n}

GoesOn(u) ==
    /\ Goes(u)
    /\ settled' = IF Len(doing[u].todo) > 1 \/ doing[u].raced THEN settled ELSE settled \cup {doing[u].name}

(* compose_yml_build: a build that finds all its layers is the earlier one.*)
Build(u) ==
    /\ Does(u, "build")
    /\ \E b \in 1..(Len(builds) + 1) :
        /\ IF b <= Len(builds) THEN builds[b] = doing[u].todo[1][2] /\ UNCHANGED builds
           ELSE b <= MaxBuilds /\ builds' = Append(builds, doing[u].todo[1][2])
        /\ doing' = [doing EXCEPT ![u].todo = Tail(@), ![u].build = b]
    /\ UNCHANGED <<registry, old, pin, settled, begun>>

PushedTo(u, r) ==
    /\ image' = [image EXCEPT ![r][doing[u].name] = doing[u].build]
    /\ kept' = [kept EXCEPT ![r] = @ \cup {doing[u].build}]

(* prepare_and_attach_image_sbom: to the digest, not to the name.          *)
AttachBom(u, r) == boms' = [boms EXCEPT ![r] = @ \cup {doing[u].build}]

PushImageUnchecked(u) ==
    /\ Does(u, "push")
    /\ PushedTo(u, Role(u)) \/ UNCHANGED <<image, kept>>
    /\ AttachBom(u, Role(u)) /\ GoesOn(u)
    /\ UNCHANGED <<builds, old, pin, begun>>

(* The loop ends where a bill of materials is not attached.                *)
PushImage(u) ==
    /\ Does(u, "push")
    /\ PushedTo(u, Role(u))
    /\ \/ AttachBom(u, Role(u)) /\ GoesOn(u)
       \/ UNCHANGED <<boms, settled>> /\ doing' = [doing EXCEPT ![u] = Nothing]
    /\ UNCHANGED <<builds, old, pin, begun>>

----------------------------------------------------------------------------
(* dk clean-images.                                                        *)

(* collect_deploy_tags reads the user's own checkout, which may be behind; *)
(* credentials that cannot be decrypted here name nothing.                 *)
DeployTags(u, readable) == IF pin.hidden /\ ~readable THEN {} ELSE {pin.trees[u]}

Clean(u) ==
    \E readable \in BOOLEAN :
        /\ Begins(u, [Nothing EXCEPT !.kind = "clean", !.name = pin.trees[u],
                                  !.spared = Patterns \cup DeployTags(u, readable),
                                  !.todo = <<<<"list">>>>])
        /\ UNCHANGED settled

NamesOf(r, b) == {n \in Names : image[r][n] = b}
Untagged(r) == {b \in kept[r] : NamesOf(r, b) = {}}
ExcludedWhole(r, b, spared) == NamesOf(r, b) \subseteq spared
Excluded(r, b, spared) == NamesOf(r, b) \cap spared # {}

(* plan_deletions.                                                         *)
OldTagged(r, spared) ==
    {b \in kept[r] \cap old : NamesOf(r, b) # {} /\ ~Excluded(r, b, spared)}
BeyondKept(r, spared) ==
    {b \in OldTagged(r, spared) : Cardinality({d \in OldTagged(r, spared) : d > b}) >= Keep}
StagedAs(kind, r, which) == SetToSeq({<<kind, r, b>> : b \in which})
Staged(spared) ==
    FlattenSeq([i \in 1..3 |->
        LET r == <<"db", "proxy", "web">>[i]
        IN  StagedAs("image", r, BeyondKept(r, spared) \cup (IF WithUntagged THEN Untagged(r) ELSE {}))
            \o IF WithUntagged /\ boms[r] # {} THEN <<<<"boms", r, 0>>>> ELSE <<>>])

(* The answer to the question comes between the plan and this.             *)
List(u) ==
    /\ Does(u, "list")
    /\ LET staged == Staged(doing[u].spared)
       IN  doing' = [doing EXCEPT ![u] = IF staged = <<>> THEN Nothing ELSE [@ EXCEPT !.todo = staged]]
    /\ UNCHANGED <<builds, registry, old, pin, settled, begun>>

(* delete_package_version: a version goes by its id, with the names it has *)
(* then.                                                                   *)
Deleted(kind, r, b) ==
    IF kind = "boms" THEN boms' = [boms EXCEPT ![r] = {}] /\ UNCHANGED <<image, kept>>
    ELSE /\ kept' = [kept EXCEPT ![r] = @ \ {b}]
         /\ image' = [image EXCEPT ![r] = [n \in Names |-> IF @[n] = b THEN 0 ELSE @[n]]]
         /\ UNCHANGED boms

(* run_cleanup goes on after a deletion that failed.                       *)
Delete(u) ==
    /\ Does(u, "image") \/ Does(u, "boms")
    /\ LET x == doing[u].todo[1] IN UNCHANGED registry \/ Deleted(x[1], x[2], x[3])
    /\ Goes(u)
    /\ UNCHANGED <<builds, old, pin, settled, begun>>

----------------------------------------------------------------------------
(* A deployment goes to a name whose images are there; its user commits    *)
(* the new pin, and the others have it when they pull.                     *)
Pin(u) ==
    /\ \E n \in Names \ {pin.name} :
        /\ \A r \in Roles : image[r][n] # 0
        /\ pin' = [pin EXCEPT !.name = n, !.trees[u] = n]
    /\ UNCHANGED <<builds, registry, old, settled, doing, begun>>

Pull(u) ==
    /\ pin' = [pin EXCEPT !.trees[u] = pin.name]
    /\ UNCHANGED <<builds, registry, old, settled, doing, begun>>

(* What was pushed before, and which of it was pushed last under a name;   *)
(* one of the names is deployed.                                           *)
ImagesInit ==
    /\ \E c, d \in Commits : c # d /\ builds = <<c, d>>
    /\ \E f \in {g \in [Names -> {0} \cup DOMAIN builds] :
                    \A n \in Names : g[n] # 0 => n \in {DefaultName(builds[g[n]])} \cup GivenNames} :
        image = [r \in Roles |-> f] /\ settled = {n \in Names : f[n] # 0}
    /\ \E n \in settled, hidden \in BOOLEAN :
        pin = [name |-> n, hidden |-> hidden, trees |-> [u \in Users |-> n]]
    /\ kept = [r \in Roles |-> DOMAIN builds] /\ boms = kept
    /\ old \in {{1}, {1, 2}}
    /\ doing = [u \in Users |-> Nothing] /\ begun = 0

ImagesNext ==
    \E u \in Users : \/ Push(u) \/ Build(u) \/ PushImage(u) \/ Clean(u) \/ List(u) \/ Delete(u)
                     \/ CutShort(u) \/ Pin(u) \/ Pull(u)

ImagesSpec == ImagesInit /\ [][ImagesNext]_imagesVars

----------------------------------------------------------------------------
(* A name whose last push came to its end, with no other push of it at the *)
(* same time, stands for one build in every package, however many pushes   *)
(* were cut short before and whatever was cleaned since                    *)
(* (push_registry_images).                                                 *)
SettledIsOneBuild ==
    \A n \in settled : \A r, s \in Roles :
        image[r][n] # 0 /\ image[s][n] # 0 => image[r][n] = image[s][n]

Raced == \E u \in Users : doing[u].kind = "clean" /\ doing[u].raced

(* The names a cleaning knows of: but for a pin it could not read.         *)
Known(c) == {n \in Patterns \cup {c.name} : n \in Patterns \/ ~pin.hidden}

KnownStay ==
    \A u \in Users :
        doing[u].kind = "clean" /\ ~doing[u].raced /\ doing'[u] # doing[u] =>
            \A r \in Roles : \A n \in Known(doing[u]) : image[r][n] # 0 => image'[r][n] # 0

NewestStay ==
    \A r \in Roles : \A b \in kept[r] \ kept'[r] :
        NamesOf(r, b) # {} => Raced \/ Cardinality({d \in kept'[r] : d > b /\ NamesOf(r, d) # {}}) >= Keep

(* What its user's checkout pinned when it began, where it could be read,  *)
(* and what extra_exclude_tags names, no cleaning takes that no push and   *)
(* no such cleaning crossed, not even while others go on cleaning with     *)
(* other pins; and of the images with a name it leaves the newest          *)
(* (collect_deploy_tags, plan_deletions, run_cleanup).                     *)
CleaningSpares == [][KnownStay /\ NewestStay]_imagesVars

(* A cleaning that nothing crossed spares what the deployment is pinned    *)
(* to, if its info.yaml says so ("deploy pins ... are kept",               *)
(* docs/GHCR_CLEANUP.md).                                                  *)
DeployPinStays ==
    [][Raced \/ pin.hidden
        \/ \A r \in Roles : image[r][pin.name] # 0 => image'[r][pin.name] # 0]_imagesVars

(* An image keeps the bill of materials that was attached to it.           *)
BomsStay == [][\A r \in Roles : \A b \in boms[r] \ boms'[r] : NamesOf(r, b) = {}]_imagesVars

(* What a deployment pins is one build: `up` pulls what was pushed as one. *)
PinIsOneBuild == \A r, s \in Roles : image[r][pin.name] = image[s][pin.name]

==============================================================================
