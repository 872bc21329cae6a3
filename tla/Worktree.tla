------------------------------ MODULE Worktree ------------------------------
(***************************************************************************)
(* `dk worktree`: the life of isolated checkouts and of the Docker stacks  *)
(* they name (worktree.py, worktree_overlay.py, worktree_claude_hook.py).  *)
(* A checkout under .worktrees/<slug> carries a marker file, and the       *)
(* marker is the only record that ties the checkout to the Compose         *)
(* project, the hostname and the volumes that bear its name.  Developers,  *)
(* agents and hooks run commands side by side; any of them may be killed.  *)
(***************************************************************************)
EXTENDS Naturals

CONSTANTS Process, Slug, Env, Branch,
          Project, Origin,
          ComposeOf,    \* ComposeOf[s, e]: derive_worktree_compose_project
          OriginOf,     \* OriginOf[s, e]: derive_worktree_site_origin
          MainProjects, \* the projects of the main checkout's environments
          RemoveModes,  \* the flags `remove` is given
          MaxTip,       \* bound: how often the ref branches are cut from moves
          None, Broken

ASSUME NamesAssumption == /\ ComposeOf \in [Slug \X Env -> Project]
                          /\ OriginOf \in [Slug \X Env -> Origin]
                          /\ MainProjects \subseteq Project
ASSUME TipAssumption == MaxTip \in Nat
Commit  == 0..MaxTip
Overlay == [project : Project, origin : Origin, branch : Branch,
            base : Commit \cup {None}]

ASSUME ModesAssumption == RemoveModes \subseteq [wipe : BOOLEAN, keep : BOOLEAN, hook : BOOLEAN]
ASSUME NoneAssumption ==
  None # Broken /\ \A x \in {None, Broken} : x \notin Branch /\ x \notin Commit /\ x \notin Overlay

\* Git, the file system and Docker.
VARIABLES tip,      \* the commit the start ref names now
          cut,      \* cut[b]: the commit branch b was cut from, None if there is no b
          tree,     \* tree[s]: the branch checked out in .worktrees/<s>, None if there
                    \*   is no such path, Broken if git has let go of what is left of it
          marker,   \* marker[s]: its overlay, None if missing, Broken if unreadable
          stack,    \* the projects that have containers
          volumes,  \* the projects that have volumes
          sites     \* the origins that have a route in the local proxy
\* One command per process.
VARIABLES pc,
          slug, env, branch,   \* its arguments
          plan,     \* the phases that are left; "seed" goes before "up"
          mode,     \* the flags of a remove
          base,     \* create: the resolved start commit; None for an existing branch
          seen      \* the overlay as the command last loaded it
\* History: per kind of what Docker keeps, the projects a remove leaves behind,
VARIABLES told,     \* and has said so,
          unsaid    \* or would have, and has deleted their marker

history == <<told, unsaid>>
world   == <<tip, cut, tree, marker, stack, volumes, sites, history>>
command == <<slug, env, branch, mode>>
vars == <<tip, cut, tree, marker, stack, volumes, sites, history,
          pc, slug, env, branch, plan, mode, base, seen>>

Plain   == [wipe |-> FALSE, keep |-> FALSE, hook |-> FALSE]
Modes   == RemoveModes \cup {Plain}
Phases  == {"seed", "up"}
Labels  == {"idle", "check", "branch", "addNew", "addExisting", "submodules",
            "marker", "load", "prepare", "route", "compose", "composing",
            "downLoad", "downCompose", "unroute",
            "removeLoad", "teardown", "wipe", "gitRemove", "report", "branchDelete"}
LeftBehind == [stack : SUBSET Project, volumes : SUBSET Project]
Nothing    == [stack |-> {}, volumes |-> {}]

TypeOK ==
  /\ tip \in Commit
  /\ cut \in [Branch -> Commit \cup {None}]
  /\ tree \in [Slug -> Branch \cup {None, Broken}]
  /\ marker \in [Slug -> Overlay \cup {None, Broken}]
  /\ stack \subseteq Project /\ volumes \subseteq Project
  /\ told \in LeftBehind /\ unsaid \in LeftBehind
  /\ sites \subseteq Origin
  /\ pc \in [Process -> Labels]
  /\ slug \in [Process -> Slug] /\ env \in [Process -> Env]
  /\ branch \in [Process -> Branch]
  /\ plan \in [Process -> SUBSET Phases]
  /\ mode \in [Process -> Modes]
  /\ base \in [Process -> Commit \cup {None}]
  /\ seen \in [Process -> Overlay \cup {None}]

\* The main checkout's environments run from the start.
Init ==
  /\ tip = 0
  /\ cut = [b \in Branch |-> None]
  /\ tree = [s \in Slug |-> None]
  /\ marker = [s \in Slug |-> None]
  /\ stack = MainProjects /\ volumes = MainProjects
  /\ sites = {} /\ told = Nothing /\ unsaid = Nothing
  /\ pc = [p \in Process |-> "idle"]
  /\ slug \in [Process -> Slug] /\ env \in [Process -> Env]
  /\ branch \in [Process -> Branch]
  /\ plan = [p \in Process |-> {}]
  /\ mode = [p \in Process |-> Plain]
  /\ base = [p \in Process |-> None]
  /\ seen = [p \in Process |-> None]

-----------------------------------------------------------------------------
At(p, l)   == pc[p] = l
Goto(p, l) == pc' = [pc EXCEPT ![p] = l]

\* The command ends, well or badly, and the process forgets what it knew.
Finish(p) == /\ Goto(p, "idle")
             /\ plan' = [plan EXCEPT ![p] = {}]
             /\ base' = [base EXCEPT ![p] = None]
             /\ seen' = [seen EXCEPT ![p] = None]

Step(p, from, to) == At(p, from) /\ Goto(p, to) /\ UNCHANGED <<plan, base, seen>>

Phase(p) == IF "seed" \in plan[p] THEN "seed" ELSE "up"

\* The next phase of a create, or the end of the command.
NextPhase(p, phases) ==
  IF phases = {} THEN Finish(p)
  ELSE Goto(p, "load") /\ plan' = [plan EXCEPT ![p] = phases] /\ UNCHANGED <<base, seen>>

Valid(s) == marker[s] \notin {None, Broken}

\* list_worktree_overlays: an unreadable marker counts as no overlay.
Overlays(except) == {marker[s] : s \in {t \in Slug \ except : tree[t] # None /\ Valid(t)}}

-----------------------------------------------------------------------------
(* create *)

BeginCreate(p, s, e, b, phases) ==
  /\ At(p, "idle") /\ Goto(p, "check")
  /\ slug' = [slug EXCEPT ![p] = s] /\ env' = [env EXCEPT ![p] = e]
  /\ branch' = [branch EXCEPT ![p] = b]
  /\ plan' = [plan EXCEPT ![p] = phases]
  /\ UNCHANGED <<world, mode, base, seen>>

\* Mutant: CheckNames looks at the path and the hostname only.
CheckPathOnly(p) ==
  /\ \/ tree[slug[p]] = None /\ Step(p, "check", "branch")
     \/ tree[slug[p]] # None /\ At(p, "check") /\ Finish(p)
  /\ UNCHANGED <<world, command>>

\* The path must be free and no overlay on disk may use the compose project or the
\* origin; then .gitignore and .worktrees/ are made sure of.
Taken(o, project, origin) == o.project = project \/ o.origin = origin

CheckNames(p) ==
  LET s == slug[p]
      name == <<s, env[p]>> IN
  /\ \/ /\ tree[s] = None
        /\ \A o \in Overlays({}) : ~Taken(o, ComposeOf[name], OriginOf[name])
        /\ Step(p, "check", "branch")
     \/ /\ \/ tree[s] # None
           \/ \E o \in Overlays({}) : Taken(o, ComposeOf[name], OriginOf[name])
        /\ At(p, "check") /\ Finish(p)
  /\ UNCHANGED <<world, command>>

\* Mutant: the start ref is resolved for an existing branch too.
\* _branch_exists, then _resolve_start_ref for a branch that is to be made
ResolveBase(p) ==
  /\ At(p, "branch")
  /\ IF cut[branch[p]] = None
     THEN Goto(p, "addNew") /\ base' = [base EXCEPT ![p] = tip]
     ELSE Goto(p, "addExisting") /\ base' = [base EXCEPT ![p] = None]
  /\ UNCHANGED <<plan, seen, world, command>>

CheckedOut(b) == \E s \in Slug : tree[s] = b

\* git worktree add: refuses a path in use, `-b` with an existing branch, and a
\* branch that is missing or checked out elsewhere
AddWorktree(p) ==
  LET s == slug[p]
      b == branch[p] IN
  /\ pc[p] \in {"addNew", "addExisting"}
  /\ \/ /\ tree[s] = None
        /\ \/ At(p, "addNew") /\ cut[b] = None /\ cut' = [cut EXCEPT ![b] = tip]
           \/ At(p, "addExisting") /\ cut[b] # None /\ ~CheckedOut(b) /\ UNCHANGED cut
        /\ tree' = [tree EXCEPT ![s] = b]
        /\ Goto(p, "submodules") /\ UNCHANGED <<plan, base, seen>>
     \/ Finish(p) /\ UNCHANGED <<cut, tree>>
  /\ UNCHANGED <<tip, marker, stack, volumes, sites, history, command>>

\* _init_worktree_submodules; a failure leaves a checkout without a marker
InitSubmodules(p) ==
  /\ \/ Step(p, "submodules", "marker")
     \/ At(p, "submodules") /\ Finish(p)
  /\ UNCHANGED <<world, command>>

With(f, g)    == [stack |-> f.stack \cup g.stack, volumes |-> f.volumes \cup g.volumes]
Without(f, q) == [stack |-> f.stack \ {q}, volumes |-> f.volumes \ {q}]

\* write_worktree_overlay: a plain write, which a kill may leave truncated
WriteMarker(p) ==
  LET s == slug[p]
      o == [project |-> ComposeOf[<<s, env[p]>>], origin |-> OriginOf[<<s, env[p]>>],
            branch |-> branch[p], base |-> base[p]] IN
  /\ At(p, "marker")
  /\ \/ /\ tree[s] # None
        /\ \/ /\ marker' = [marker EXCEPT ![s] = o]
              /\ told' = Without(told, o.project) /\ unsaid' = Without(unsaid, o.project)
              /\ NextPhase(p, plan[p])
           \/ /\ marker' = [marker EXCEPT ![s] = Broken]
              /\ Finish(p) /\ UNCHANGED history
     \/ tree[s] = None /\ Finish(p) /\ UNCHANGED <<marker, history>>
  /\ UNCHANGED <<tip, cut, tree, stack, volumes, sites, command>>

-----------------------------------------------------------------------------
(* up and seed *)

BeginPhase(p, s, phases) ==
  /\ At(p, "idle") /\ Goto(p, "load")
  /\ slug' = [slug EXCEPT ![p] = s]
  /\ plan' = [plan EXCEPT ![p] = phases]
  /\ UNCHANGED <<world, env, branch, mode, base, seen>>

\* Mutant: a marker that cannot be parsed is taken for an overlay.
LoadUnreadable(p, from, to) ==
  LET s == slug[p] IN
  /\ At(p, from)
  /\ \/ /\ tree[s] # None /\ marker[s] # None
        /\ seen' = [seen EXCEPT ![p] = marker[s]]
        /\ Goto(p, to) /\ UNCHANGED <<plan, base>>
     \/ (tree[s] = None \/ marker[s] = None) /\ Finish(p)

\* _resolve_worktree: the path and a readable marker must be there
LoadOverlay(p, from, to) ==
  LET s == slug[p] IN
  /\ At(p, from)
  /\ \/ /\ tree[s] # None /\ Valid(s)
        /\ seen' = [seen EXCEPT ![p] = marker[s]]
        /\ Goto(p, to) /\ UNCHANGED <<plan, base>>
     \/ (tree[s] = None \/ ~Valid(s)) /\ Finish(p)

Load(p) == LoadOverlay(p, "load", "prepare") /\ UNCHANGED <<world, command>>

\* The overlay is read again (an up goes through handle_env_command) and the
\* project's volumes are created before anything is composed.
Prepare(p) ==
  /\ \/ /\ LoadOverlay(p, "prepare", IF Phase(p) = "up" THEN "route" ELSE "compose")
        /\ volumes' = IF seen'[p] = None THEN volumes ELSE volumes \cup {seen'[p].project}
     \/ At(p, "prepare") /\ Finish(p) /\ UNCHANGED volumes
  /\ UNCHANGED <<tip, cut, tree, marker, stack, sites, history, command>>

\* sync_local_proxy_for_compose_action, as LocalProxy has it
RegisterSite(p) ==
  /\ At(p, "route")
  /\ \/ /\ sites' = sites \cup {seen[p].origin}
        /\ Step(p, "route", "compose")
     \/ Finish(p) /\ sites' \in {sites, sites \cup {seen[p].origin}}
  /\ UNCHANGED <<tip, cut, tree, marker, stack, volumes, history, command>>

\* docker compose reads its files from the checkout and then creates containers,
\* which takes long enough for the checkout to go meanwhile
StartCompose(p) ==
  /\ \/ tree[slug[p]] # None /\ Step(p, "compose", "composing")
     \/ At(p, "compose") /\ Finish(p)
  /\ UNCHANGED <<world, command>>

ComposeUp(p) ==
  /\ At(p, "composing")
  /\ \/ stack' = stack \cup {seen[p].project} /\ NextPhase(p, plan[p] \ {Phase(p)})
     \/ stack' \in {stack, stack \cup {seen[p].project}} /\ Finish(p)
  /\ UNCHANGED <<tip, cut, tree, marker, volumes, sites, history, command>>

-----------------------------------------------------------------------------
(* down *)

BeginDown(p, s) ==
  /\ At(p, "idle") /\ Goto(p, "downLoad")
  /\ slug' = [slug EXCEPT ![p] = s]
  /\ UNCHANGED <<world, env, branch, plan, mode, base, seen>>

DownLoad(p) == LoadOverlay(p, "downLoad", "downCompose") /\ UNCHANGED <<world, command>>

DownCompose(p) ==
  /\ At(p, "downCompose")
  /\ \/ stack' = stack \ {seen[p].project} /\ Step(p, "downCompose", "unroute")
     \/ stack' \in {stack, stack \ {seen[p].project}} /\ Finish(p)
  /\ UNCHANGED <<tip, cut, tree, marker, volumes, sites, history, command>>

Unroute(p) ==
  /\ At(p, "unroute") /\ Finish(p)
  /\ sites' \in {sites, sites \ {seen[p].origin}}
  /\ UNCHANGED <<tip, cut, tree, marker, stack, volumes, history, command>>

-----------------------------------------------------------------------------
(* remove, and the hook's remove *)

BeginRemove(p, s, m) ==
  /\ At(p, "idle") /\ Goto(p, "removeLoad")
  /\ slug' = [slug EXCEPT ![p] = s]
  /\ mode' = [mode EXCEPT ![p] = m]
  /\ UNCHANGED <<world, env, branch, plan, base, seen>>

\* A checkout without a marker is just removed; an unreadable one is refused.
RemoveLoad(p) ==
  LET s == slug[p] IN
  /\ At(p, "removeLoad")
  /\ \/ (tree[s] = None \/ marker[s] = Broken) /\ Finish(p)
     \/ /\ tree[s] # None /\ marker[s] # Broken
        /\ seen' = [seen EXCEPT ![p] = marker[s]]
        /\ Goto(p, IF marker[s] = None \/ mode[p].keep THEN "gitRemove" ELSE "teardown")
        /\ UNCHANGED <<plan, base>>
  /\ UNCHANGED <<world, command>>

\* Mutant: a failed compose down is only a warning.
\* _teardown_worktree_stack: compose down; its failure keeps the checkout
Teardown(p) ==
  /\ At(p, "teardown")
  /\ \/ /\ tree[slug[p]] # None
        /\ stack' = stack \ {seen[p].project}
        /\ Step(p, "teardown", IF mode[p].wipe THEN "wipe" ELSE "gitRemove")
     \/ stack' \in {stack, stack \ {seen[p].project}} /\ Finish(p)
  /\ UNCHANGED <<tip, cut, tree, marker, volumes, sites, history, command>>

\* Mutant: a wipe that fails is only a warning (issue #64).
WipeWarns(p) ==
  /\ Step(p, "wipe", "gitRemove")
  /\ volumes' \in {volumes, volumes \ {seen[p].project}}
  /\ UNCHANGED <<tip, cut, tree, marker, stack, sites, history, command>>

\* remove_all_external_stack_volumes: one that is in use fails the wipe
WipeVolumes(p) ==
  /\ At(p, "wipe")
  /\ \/ /\ seen[p].project \notin stack
        /\ volumes' = volumes \ {seen[p].project}
        /\ Step(p, "wipe", "gitRemove")
     \/ UNCHANGED volumes /\ Finish(p)
  /\ UNCHANGED <<tip, cut, tree, marker, stack, sites, history, command>>

\* What a remove leaves behind and says so in the end.
Reports(p) ==
  IF seen[p] = None \/ mode[p].wipe THEN Nothing
  ELSE [stack   |-> IF mode[p].keep THEN {seen[p].project} ELSE {},
        volumes |-> {seen[p].project}]

\* git worktree remove --force.  It is refused, or breaks off half way: the marker may be
\* gone with part of the files, and git may have let go of the path.  A path that is
\* already gone counts as removed.
GitRemove(p) ==
  LET s == slug[p] IN
  /\ At(p, "gitRemove")
  /\ \/ /\ tree[s] # Broken
        /\ tree' = [tree EXCEPT ![s] = None] /\ marker' = [marker EXCEPT ![s] = None]
        /\ Step(p, "gitRemove", "report")
     \/ tree[s] # None /\ Finish(p) /\ UNCHANGED <<tree, marker>>
     \/ /\ tree[s] \in Branch /\ Finish(p)
        /\ tree' \in {tree, [tree EXCEPT ![s] = Broken]}
        /\ marker' \in {marker, [marker EXCEPT ![s] = None]}
  /\ unsaid' = IF marker'[s] = None THEN With(unsaid, Reports(p)) ELSE unsaid
  /\ UNCHANGED <<tip, cut, stack, volumes, sites, told, command>>

\* The report, which names the project and how to reclaim it.
Report(p) ==
  /\ told' = With(told, Reports(p))
  /\ unsaid' = [stack   |-> unsaid.stack \ Reports(p).stack,
                volumes |-> unsaid.volumes \ Reports(p).volumes]
  /\ \/ mode[p].hook /\ seen[p] # None /\ Step(p, "report", "branchDelete")
     \/ ~(mode[p].hook /\ seen[p] # None) /\ At(p, "report") /\ Finish(p)
  /\ UNCHANGED <<tip, cut, tree, marker, stack, volumes, sites, command>>

\* claude_hook_remove: git branch -d, refused for unmerged or checked-out branches
DeleteBranch(p) ==
  /\ At(p, "branchDelete") /\ Finish(p)
  /\ \/ UNCHANGED cut
     \/ ~CheckedOut(seen[p].branch) /\ cut' = [cut EXCEPT ![seen[p].branch] = None]
  /\ UNCHANGED <<tip, tree, marker, stack, volumes, sites, history, command>>

-----------------------------------------------------------------------------
\* Commits and fetches: the ref worktrees are cut from moves on.
RefMoves ==
  /\ tip < MaxTip /\ tip' = tip + 1
  /\ UNCHANGED <<cut, tree, marker, stack, volumes, sites, history,
                 pc, plan, base, seen, command>>

\* Ctrl-C, a killed agent, a reboot of the shell.
Killed(p) ==
  /\ ~At(p, "idle") /\ Finish(p)
  /\ UNCHANGED <<world, command>>

Begin(p) ==
  \E s \in Slug :
    \/ \E e \in Env, b \in Branch, ph \in SUBSET Phases : BeginCreate(p, s, e, b, ph)
    \/ \E ph \in Phases : BeginPhase(p, s, {ph})
    \/ BeginDown(p, s)
    \/ \E m \in RemoveModes : BeginRemove(p, s, m)

Proceed(p) ==
  \/ CheckNames(p) \/ ResolveBase(p) \/ AddWorktree(p) \/ InitSubmodules(p)
  \/ WriteMarker(p) \/ Load(p) \/ Prepare(p) \/ RegisterSite(p)
  \/ StartCompose(p) \/ ComposeUp(p) \/ DownLoad(p) \/ DownCompose(p) \/ Unroute(p)
  \/ RemoveLoad(p) \/ Teardown(p) \/ WipeVolumes(p) \/ GitRemove(p) \/ Report(p)
  \/ DeleteBranch(p)

Next == RefMoves \/ \E p \in Process : Begin(p) \/ Proceed(p) \/ Killed(p)

Spec == Init /\ [][Next]_vars
-----------------------------------------------------------------------------
(* Properties *)

Names(s, q) == tree[s] # None /\ Valid(s) /\ marker[s].project = q
Named(q)    == q \in MainProjects \/ \E s \in Slug : Names(s, q)
Vanishes(q) == \/ q \in stack /\ q \notin stack'
               \/ q \in volumes /\ q \notin volumes'

\* No two checkouts share a Compose project or a hostname: worktree_create looks at
\* every overlay on disk before it takes a name, although derived names can coincide.
DistinctIdentity ==
  \A s, t \in Slug : s # t /\ Valid(s) /\ Valid(t) =>
    ~Taken(marker[s], marker[t].project, marker[t].origin)

\* Containers and volumes only disappear by a down, a teardown or a wipe of the one
\* checkout whose marker bears their name, and no other checkout's does: none takes
\* another checkout's data ("isolated", docs/WORKTREES.md).  The main checkout's go only
\* by a checkout that was given the very name of one of main's projects.
SparesOthers ==
  \A q \in Project : Vanishes(q) =>
    \E p \in Process : /\ pc[p] \in {"downCompose", "teardown", "wipe"} /\ pc'[p] # pc[p]
                       /\ Names(slug[p], q)
                       /\ \A s \in Slug \ {slug[p]} : ~Names(s, q)

WipeSparesOthers == [][SparesOthers]_vars

\* No command on a worktree takes the main checkout's containers or volumes.
SparesMain == \A q \in MainProjects : ~Vanishes(q)
WipeSparesMain == [][SparesMain]_vars

\* Whatever Docker keeps can be reached: its project is the main checkout's, or a
\* readable marker names it, or a remove has said that it stays and how to reclaim it
\* (_teardown_worktree_stack, and the end of worktree_remove).  A remove that is broken
\* off in git's removal or before its report leaves in silence no more than its flags
\* would have left with a word.
NoSilentOrphan ==
  /\ \A q \in stack : Named(q) \/ q \in told.stack \cup unsaid.stack
  /\ \A q \in volumes : Named(q) \/ q \in told.volumes \cup unsaid.volumes

\* The same with no exception, "the silent-orphan failure this command exists to prevent".
EveryOrphanIsTold ==
  /\ \A q \in stack : Named(q) \/ q \in told.stack
  /\ \A q \in volumes : Named(q) \/ q \in told.volumes

\* The recorded base is the very commit the branch was cut from (docs/WORKTREES.md).
BaseIsWhereItWasCut ==
  \A s \in Slug : tree[s] # None /\ Valid(s) /\ marker[s].base # None =>
    marker[s].base = cut[marker[s].branch]

\* A route in the shared proxy belongs to a checkout that is still there, as `dk proxy`
\* lists "live sites" and a down takes its routes away (README_DEV_PROXY.md).
RoutesHaveCheckouts ==
  \A o \in sites : \E s \in Slug : Valid(s) /\ marker[s].origin = o

=============================================================================
