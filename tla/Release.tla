------------------------------- MODULE Release -------------------------------
(***************************************************************************)
(* dk cut-release and dk next-branch (cut_release.py) on several clones of *)
(* one repository: a final release merges the line into main, tags it and  *)
(* pushes both; a beta tags the line; the next line starts from a release. *)
(*                                                                         *)
(* A command is a list of git calls, each of which may fail or be the last *)
(* one before a kill.  A commit is a number and anc[c] the set of commits  *)
(* in its history.  A version is a number too: of its names the code needs *)
(* no more than that equal versions have equal names.  Conflicts of a      *)
(* merge and a working tree that is not clean are calls that fail.         *)
(***************************************************************************)
EXTENDS Integers, Sequences, FiniteSets, SequencesExt, FiniteSetsExt

CONSTANTS
    Clones,       \* working copies, each with its user
    Lines,        \* versions
    MaxBeta,      \* bound: beta tags of a line
    MaxCommits,   \* bound: commits
    MaxCommands,  \* bound: commands of dk in a behaviour
    MaxMoves,     \* bound: what users do by themselves
    Meanwhile     \* users go on in a clone while dk there waits for an answer

ASSUME ReleaseAssumption ==
    /\ Lines \subseteq Nat \ {0} /\ {1, 2} \subseteq Lines
    /\ MaxBeta \in Nat /\ MaxCommits \in Nat \ {0, 1}
    /\ MaxCommands \in Nat /\ MaxMoves \in Nat /\ Meanwhile \in BOOLEAN

VARIABLES
    anc,       \* the histories of the commits
    origin,    \* branches and tags of the shared repository, 0 for none
    local,     \* branches and tags of each clone
    head,      \* branch each clone is on, or the commit
    cmd, outcome, commands, moves

vars == <<anc, origin, local, head, cmd, outcome, commands, moves>>

Main == <<"main">>
Dev(k) == <<"dev", k>>
Tag(k) == <<"v", k>>
Beta(k, w) == <<"beta", k, w>>
Finals == {Tag(k) : k \in Lines}
Betas == {Beta(k, w) : k \in Lines, w \in 1..MaxBeta}
Tags == Finals \cup Betas
DevLines == {Dev(k) : k \in Lines}
Branches == {Main} \cup DevLines
Refs == Branches \cup Tags

Commits == 1..Len(anc)
Holds(c, old) == old = 0 \/ old \in anc[c]
At(w) == IF head[w] \in Branches THEN local[w][head[w]] ELSE head[w][2]

Idle == [kind |-> "none", todo |-> <<>>, from |-> <<>>, ref |-> <<>>, tip |-> 0]
NoOutcome == [kind |-> "none", ok |-> FALSE, from |-> <<>>, ref |-> <<>>, tip |-> 0]

----------------------------------------------------------------------------
(* What a command consists of, after the question.                         *)

FinalPlanTagFirst == <<"ask", "fetch", "look", "main", "pull", "merge", "tag", "pushref", "pushmain">>
FinalPlanUnmerged == <<"ask", "fetch", "look", "main", "pull", "tag", "pushmain", "pushref">>
FinalPlan == <<"ask", "fetch", "look", "main", "pull", "merge", "tag", "pushmain", "pushref">>
BetaPlan == <<"ask", "fetch", "look", "tag", "pushline", "pushref">>
NextPlan == <<"ask", "fetch", "lookline", "branch", "switch", "modules", "pushref">>

(* next_beta_w: one more than the largest of the tags this clone knows.    *)
NextBeta(w, k) == 1 + Max({0} \cup {b \in 1..MaxBeta : local[w][Beta(k, b)] # 0})

(* _exact_tag_at_head.                                                     *)
FinalAtHead(w) == {t \in Finals : local[w][t] = At(w)}

Begins(w, kind, plan, from, ref) ==
    /\ cmd[w] = Idle /\ commands < MaxCommands
    /\ commands' = commands + 1
    /\ cmd' = [cmd EXCEPT ![w] = [kind |-> kind, todo |-> plan, from |-> from, ref |-> ref, tip |-> At(w)]]
    /\ outcome' = [outcome EXCEPT ![w] = NoOutcome]
    /\ UNCHANGED <<anc, origin, local, head, moves>>

(* build_final_plan: on dev-X.Y.                                           *)
CutFinal(w) == \E k \in Lines : head[w] = Dev(k) /\ Begins(w, "final", FinalPlan, Dev(k), Tag(k))

(* build_beta_plan: on dev-X.Y, or on main with --tag.                     *)
CutBeta(w) ==
    \/ \E k \in Lines, b \in 1..MaxBeta :
        /\ head[w] = Dev(k) \/ head[w] = Main
        /\ Begins(w, "beta", BetaPlan, head[w], Beta(k, b))
    \/ \E k \in Lines :
        /\ head[w] = Dev(k) /\ NextBeta(w, k) \in 1..MaxBeta
        /\ Begins(w, "beta", BetaPlan, head[w], Beta(k, NextBeta(w, k)))

(* build_next_branch_plan: at a final tag, detached or on any branch.      *)
NextBranch(w) ==
    \E k \in Lines : FinalAtHead(w) # {} /\ Begins(w, "next", NextPlan, <<>>, Dev(k))

----------------------------------------------------------------------------
(* The calls.                                                              *)

Does(w, step) == cmd[w].todo # <<>> /\ cmd[w].todo[1] = step

Finish(w, ok) ==
    /\ cmd' = [cmd EXCEPT ![w] = Idle]
    /\ outcome' = [outcome EXCEPT ![w] = [kind |-> cmd[w].kind, ok |-> ok, from |-> cmd[w].from,
                                          ref |-> cmd[w].ref, tip |-> cmd[w].tip]]

Goes(w) ==
    IF Len(cmd[w].todo) = 1 THEN Finish(w, TRUE)
    ELSE cmd' = [cmd EXCEPT ![w].todo = Tail(@)] /\ UNCHANGED outcome

Bounds == <<commands, moves>>

(* A call fails, the answer is no, the tree is not clean, or a kill.       *)
Stops(w) ==
    /\ cmd[w] # Idle /\ Finish(w, FALSE)
    /\ UNCHANGED <<anc, origin, local, head, Bounds>>

Ask(w) == Does(w, "ask") /\ Goes(w) /\ UNCHANGED <<anc, origin, local, head, Bounds>>

(* fetch --tags never moves a tag the clone has, and fails over it.        *)
Fetch(w) ==
    /\ Does(w, "fetch")
    /\ local' = [local EXCEPT ![w] = [r \in Refs |-> IF r \in Tags /\ @[r] = 0 THEN origin[r] ELSE @[r]]]
    /\ IF \A t \in Tags : 0 \in {origin[t], local[w][t]} \/ origin[t] = local[w][t]
       THEN Goes(w) ELSE Finish(w, FALSE)
    /\ UNCHANGED <<anc, origin, head, Bounds>>

(* An ls-remote that fails is taken for a name that is free.               *)
Look(w) ==
    /\ \/ Does(w, "look") /\ local[w][cmd[w].ref] = 0
       \/ Does(w, "lookline")
    /\ \E answered \in BOOLEAN : answered => origin[cmd[w].ref] = 0
    /\ Goes(w)
    /\ UNCHANGED <<anc, origin, local, head, Bounds>>

CheckoutMain(w) ==
    /\ Does(w, "main")
    /\ head' = [head EXCEPT ![w] = Main]
    /\ Goes(w)
    /\ UNCHANGED <<anc, origin, local, Bounds>>

(* pull --ff-only fails when main went two ways.                           *)
PullMain(w) ==
    LET mine == local[w][Main]
    IN  /\ Does(w, "pull")
        /\ Holds(origin[Main], mine) \/ Holds(mine, origin[Main])
        /\ local' = [local EXCEPT ![w][Main] = IF Holds(mine, origin[Main]) THEN mine ELSE origin[Main]]
        /\ Goes(w)
        /\ UNCHANGED <<anc, origin, head, Bounds>>

NewCommit(parents) ==
    /\ Len(anc) < MaxCommits
    /\ anc' = Append(anc, {Len(anc) + 1} \cup UNION {anc[p] : p \in parents})

(* merge --ff-only, else a merge commit, of the branch as it is here.      *)
Merge(w) ==
    LET mine == At(w)  line == local[w][cmd[w].from]
    IN  /\ Does(w, "merge") /\ line # 0
        /\ IF Holds(mine, line) THEN UNCHANGED <<anc, local>>
           ELSE /\ IF Holds(line, mine) THEN UNCHANGED anc ELSE NewCommit({mine, line})
                /\ local' = [local EXCEPT ![w][head[w]] = IF Holds(line, mine) THEN line ELSE Len(anc) + 1]
        /\ Goes(w)
        /\ UNCHANGED <<origin, head, Bounds>>

TagHead(w) ==
    /\ Does(w, "tag") /\ local[w][cmd[w].ref] = 0
    /\ local' = [local EXCEPT ![w][cmd[w].ref] = At(w)]
    /\ Goes(w)
    /\ UNCHANGED <<anc, origin, head, Bounds>>

(* git push is refused unless it moves a branch forward or makes a tag,    *)
(* and when there is no such ref here.                                     *)
Pushes(w, ref) ==
    /\ local[w][ref] # 0
    /\ IF ref \in Tags THEN origin[ref] \in {0, local[w][ref]} ELSE Holds(local[w][ref], origin[ref])
    /\ origin' = [origin EXCEPT ![ref] = local[w][ref]]

Push(w) ==
    /\ \/ Does(w, "pushmain") /\ Pushes(w, Main)
       \/ Does(w, "pushline") /\ Pushes(w, cmd[w].from)
       \/ Does(w, "pushref") /\ Pushes(w, cmd[w].ref)
    /\ Goes(w)
    /\ UNCHANGED <<anc, local, head, Bounds>>

CreateBranch(w) ==
    /\ Does(w, "branch") /\ local[w][cmd[w].ref] = 0
    /\ local' = [local EXCEPT ![w][cmd[w].ref] = At(w)]
    /\ Goes(w)
    /\ UNCHANGED <<anc, origin, head, Bounds>>

CheckoutNext(w) ==
    /\ Does(w, "switch")
    /\ head' = [head EXCEPT ![w] = cmd[w].ref]
    /\ Goes(w)
    /\ UNCHANGED <<anc, origin, local, Bounds>>

(* _update_gitmodules_branch: a commit when .gitmodules names the line.    *)
TrackNext(w) ==
    /\ Does(w, "modules")
    /\ \/ UNCHANGED <<anc, local>>
       \/ NewCommit({At(w)}) /\ local' = [local EXCEPT ![w][head[w]] = Len(anc) + 1]
    /\ Goes(w)
    /\ UNCHANGED <<origin, head, Bounds>>

----------------------------------------------------------------------------
(* What users do themselves.                                               *)

Free(w) == (cmd[w] = Idle \/ (Meanwhile /\ Does(w, "ask"))) /\ moves < MaxMoves /\ moves' = moves + 1
Others == <<cmd, outcome, commands>>

Work(w) ==
    /\ Free(w) /\ head[w] \in Branches
    /\ NewCommit({At(w)}) /\ local' = [local EXCEPT ![w][head[w]] = Len(anc) + 1]
    /\ UNCHANGED <<origin, head, Others>>

(* A branch that only origin has comes with its first checkout.            *)
Switch(w) ==
    /\ Free(w)
    /\ \/ \E b \in Branches \ {head[w]} :
            /\ {local[w][b], origin[b]} # {0}
            /\ local' = [local EXCEPT ![w][b] = IF @ = 0 THEN origin[b] ELSE @]
            /\ head' = [head EXCEPT ![w] = b]
       \/ \E t \in Finals :
            /\ local[w][t] # 0 /\ head' = [head EXCEPT ![w] = <<"at", local[w][t]>>]
            /\ UNCHANGED local
    /\ UNCHANGED <<anc, origin, Others>>

PushBranch(w) ==
    /\ Free(w) /\ head[w] \in Branches /\ Pushes(w, head[w])
    /\ origin' # origin
    /\ UNCHANGED <<anc, local, head, Others>>

PullBranch(w) ==
    /\ Free(w) /\ head[w] \in Branches /\ origin[head[w]] \notin {0, At(w)}
    /\ Holds(origin[head[w]], At(w))
    /\ local' = [local EXCEPT ![w][head[w]] = origin[head[w]]]
    /\ UNCHANGED <<anc, origin, head, Others>>

(* Taking away what a command that stopped has left.                       *)
DropRef(w) ==
    /\ Free(w)
    /\ \E r \in (Tags \cup DevLines) \ {head[w]} :
        /\ local[w][r] # 0 /\ origin[r] = 0
        /\ local' = [local EXCEPT ![w][r] = 0]
    /\ UNCHANGED <<anc, origin, head, Others>>

(* One release on main, and the line after it.                             *)
Init ==
    /\ anc = <<{1}, {1, 2}>>
    /\ origin = [r \in Refs |-> IF r \in {Main, Tag(1)} THEN 1 ELSE IF r = Dev(2) THEN 2 ELSE 0]
    /\ local = [w \in Clones |-> origin]
    /\ head = [w \in Clones |-> Dev(2)]
    /\ cmd = [w \in Clones |-> Idle] /\ outcome = [w \in Clones |-> NoOutcome]
    /\ commands = 0 /\ moves = 0

Commands(w) == CutFinal(w) \/ CutBeta(w) \/ NextBranch(w)
Steps(w) ==
    \/ Ask(w) \/ Fetch(w) \/ Look(w) \/ CheckoutMain(w) \/ PullMain(w) \/ Merge(w) \/ TagHead(w) \/ Push(w)
    \/ CreateBranch(w) \/ CheckoutNext(w) \/ TrackNext(w) \/ Stops(w)
Users(w) == Work(w) \/ Switch(w) \/ PushBranch(w) \/ PullBranch(w) \/ DropRef(w)

Next == \E w \in Clones : Commands(w) \/ Steps(w) \/ Users(w)

Spec == Init /\ [][Next]_vars

----------------------------------------------------------------------------
(* A release that can be seen is on main, wherever its command stopped and *)
(* whoever else pushed in between: main goes before the tag                *)
(* (execute_final_plan).                                                   *)
ReleasesAreOnMain ==
    \A t \in Finals : origin[t] # 0 => Holds(origin[Main], origin[t])

(* A command that reports success has published what it is named for: a    *)
(* final release is on origin with the line the user was on when it began, *)
(* a beta is on origin in the branch that was pushed with it. Which of two *)
(* clones made a tag is not told: two tags of one commit are one here, and *)
(* what a beta holds of the user's tip is BetaIsOnItsLine's.               *)
SuccessIsPublished ==
    \A w \in Clones :
        LET o == outcome[w]
        IN  /\ o.ok /\ o.kind = "final" => origin[o.ref] # 0 /\ Holds(origin[o.ref], o.tip)
            /\ o.ok /\ o.kind = "beta" => origin[o.ref] # 0 /\ Holds(origin[o.from], origin[o.ref])

(* "next-branch requires HEAD at a final tag": a new line starts from a    *)
(* release that others can see.                                            *)
NextLineIsFromARelease ==
    \A w \in Clones : outcome[w].ok /\ outcome[w].kind = "next" => \E t \in Finals : origin[t] = outcome[w].tip

(* A beta tag is on the branch that the plan showed.                       *)
BetaIsOnItsLine ==
    \A w \in Clones : outcome[w].ok /\ outcome[w].kind = "beta" => Holds(origin[outcome[w].from], origin[outcome[w].ref])
==============================================================================
