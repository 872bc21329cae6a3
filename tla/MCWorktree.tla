----------------------------- MODULE MCWorktree -----------------------------
(* Small instances of Worktree.  The environment `dev_x` gives the slug "x"  *)
(* the Compose project that `dev` gives the slug "x_x", and `dev` gives the  *)
(* slug "x" the one of the main checkout's environment `dev_x`.              *)
EXTENDS Worktree, Sequences, TLC

MCSlug  == {"x_x", "x"}
TwoEnvs == {"dev", "dev_x"}

\* derive_worktree_compose_project, and derive_worktree_site_origin with the slug's
\* label (the project's own prefix and the domain are left out)
Label     == "x_x" :> "x-x" @@ "x" :> "x"
MCCompose == [n \in Slug \X Env |-> n[2] \o "_" \o n[1]]
MCOriginOf == [n \in Slug \X Env |-> n[2] \o "-" \o Label[n[1]]]
MCOrigin  == {n[2] \o "-" \o Label[n[1]] : n \in Slug \X Env}
MCProject == {n[2] \o "_" \o n[1] : n \in Slug \X Env} \cup Env

Main     == {"dev", "dev_x"}
Keep     == [wipe |-> FALSE, keep |-> TRUE, hook |-> FALSE]
Wipe     == [wipe |-> TRUE, keep |-> FALSE, hook |-> FALSE]
Hook     == [wipe |-> FALSE, keep |-> FALSE, hook |-> TRUE]
\* `remove --wipe --keep-stack`, which the command line accepts.
BothFlags == {[wipe |-> TRUE, keep |-> TRUE, hook |-> FALSE]}
AllModes  == {Plain, Keep, Wipe, Hook}
TwoModes  == {Plain, Wipe}
\* Arguments that a command has no more use for do not matter, and no step reads `sites`.
Creating(p)  == pc[p] \in {"check", "branch", "addNew", "addExisting", "submodules", "marker"}
Removing(p)  == pc[p] \in {"removeLoad", "teardown", "wipe", "gitRemove", "report", "branchDelete"}
Arguments(p) == <<IF pc[p] = "idle" THEN None ELSE slug[p],
                  IF Creating(p) THEN <<env[p], branch[p]>> ELSE <<>>,
                  IF Removing(p) THEN mode[p] ELSE Plain>>
StateView == <<tip, cut, tree, marker, stack, volumes, history,
               pc, plan, base, seen, [p \in Process |-> Arguments(p)]>>
RouteView == <<StateView, sites>>

\* What the properties of the run `worktree` tell apart.  No step reads the commit a branch
\* was cut from or who was told what, and they do not either: what counts of a branch is
\* that it is there, of an overlay its names and its branch, of the two histories their
\* union, without the projects of the main checkout, which are named in any case.
Bare(o)      == IF o \in {None, Broken} THEN o ELSE <<o.project, o.origin, o.branch>>
Known        == [told EXCEPT !.stack = (@ \cup unsaid.stack) \ MainProjects,
                             !.volumes = (@ \cup unsaid.volumes) \ MainProjects]
NamesView    == <<tip, [b \in Branch |-> cut[b] # None], tree, [s \in Slug |-> Bare(marker[s])],
                  stack, volumes, Known, pc, plan, [p \in Process |-> Bare(seen[p])],
                  [p \in Process |-> Arguments(p)]>>
Branches     == Permutations(Branch)
=============================================================================
