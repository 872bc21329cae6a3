--------------------------- MODULE WorktreeProofs ---------------------------
(* Theorems about Worktree, for any number of processes, slugs, environments *)
(* and branches.                                                             *)
EXTENDS Worktree, TLAPS

WorldOK ==
  /\ tip \in Commit
  /\ cut \in [Branch -> Commit \cup {None}]
  /\ tree \in [Slug -> Branch \cup {None, Broken}]
  /\ marker \in [Slug -> Overlay \cup {None, Broken}]
  /\ stack \subseteq Project /\ volumes \subseteq Project
  /\ told \in LeftBehind /\ unsaid \in LeftBehind
  /\ sites \subseteq Origin

ArgumentsOK ==
  /\ slug \in [Process -> Slug] /\ env \in [Process -> Env]
  /\ branch \in [Process -> Branch]
  /\ mode \in [Process -> Modes]

\* What a command knows of its checkout at these points is an overlay.
Loaded == {"prepare", "route", "compose", "composing", "downCompose", "unroute",
           "teardown", "wipe", "branchDelete"}
SeenOK == \A p \in Process : pc[p] \in Loaded => seen[p] # None

ControlOK ==
  /\ pc \in [Process -> Labels]
  /\ plan \in [Process -> SUBSET Phases]
  /\ base \in [Process -> Commit \cup {None}]
  /\ seen \in [Process -> Overlay \cup {None}]
  /\ SeenOK

TypeInv == WorldOK /\ ArgumentsOK /\ ControlOK

LEMMA TypeParts == TypeInv => TypeOK
  BY DEF TypeInv, TypeOK, WorldOK, ArgumentsOK, ControlOK

-----------------------------------------------------------------------------
(* What the control helpers keep. *)

LEMMA FinishControl == ASSUME ControlOK, NEW p \in Process, Finish(p) PROVE ControlOK'
  BY DEF ControlOK, SeenOK, Loaded, Finish, Goto, Labels

LEMMA StepControl ==
  ASSUME ControlOK, NEW p \in Process, NEW from, NEW to \in Labels, Step(p, from, to),
         to \in Loaded => seen[p] # None
  PROVE  ControlOK'
  BY DEF ControlOK, SeenOK, Step, At, Goto

LEMMA PhaseControl ==
  ASSUME ControlOK, NEW p \in Process, NEW phases \in SUBSET Phases, NextPhase(p, phases)
  PROVE  ControlOK'
  BY FinishControl DEF ControlOK, SeenOK, Loaded, NextPhase, Goto, Labels

LEMMA LoadControl ==
  ASSUME WorldOK, ArgumentsOK, ControlOK, NEW p \in Process, NEW from,
         NEW to \in Labels, LoadOverlay(p, from, to)
  PROVE  ControlOK'
<1>1. CASE tree[slug[p]] # None /\ Valid(slug[p]) /\ Goto(p, to)
           /\ seen' = [seen EXCEPT ![p] = marker[slug[p]]] /\ UNCHANGED <<plan, base>>
  <2>1. marker[slug[p]] \in Overlay
    BY <1>1 DEF WorldOK, ArgumentsOK, Valid
  <2>2. marker[slug[p]] # None
    BY <1>1 DEF Valid
  <2> QED BY <1>1, <2>1, <2>2 DEF ControlOK, SeenOK, Goto
<1>2. CASE Finish(p)
  BY <1>2, FinishControl
<1> QED BY <1>1, <1>2 DEF LoadOverlay

LEMMA SeenProject ==
  ASSUME ControlOK, NEW p \in Process, seen[p] # None
  PROVE  seen[p] \in Overlay /\ seen[p].project \in Project /\ seen[p].origin \in Origin
  BY DEF ControlOK, Overlay

LEMMA WithoutType == ASSUME NEW f \in LeftBehind, NEW q PROVE Without(f, q) \in LeftBehind
  BY DEF LeftBehind, Without

LEMMA WithType ==
  ASSUME NEW f \in LeftBehind, NEW g \in LeftBehind PROVE With(f, g) \in LeftBehind
  BY DEF LeftBehind, With

LEMMA ReportsType == ASSUME ControlOK, NEW p \in Process PROVE Reports(p) \in LeftBehind
<1>1. seen[p] # None => {seen[p].project} \subseteq Project
  BY DEF ControlOK, Overlay
<1> QED BY <1>1 DEF Reports, LeftBehind, Nothing

-----------------------------------------------------------------------------
LEMMA BeginCreateTypes ==
  ASSUME TypeInv, NEW p \in Process, NEW s \in Slug, NEW e \in Env, NEW b \in Branch,
         NEW ph \in SUBSET Phases, BeginCreate(p, s, e, b, ph)
  PROVE  TypeInv'
<1> WorldOK /\ ArgumentsOK /\ ControlOK
  BY DEF TypeInv
<1>1. ControlOK'
  BY DEF ControlOK, SeenOK, BeginCreate, Goto, Labels, Loaded
<1>2. WorldOK'
  BY DEF WorldOK, BeginCreate, world, history
<1>3. ArgumentsOK'
  BY DEF ArgumentsOK, BeginCreate
<1> QED BY <1>1, <1>2, <1>3 DEF TypeInv

LEMMA BeginPhaseTypes ==
  ASSUME TypeInv, NEW p \in Process, NEW s \in Slug, NEW ph \in SUBSET Phases, BeginPhase(p, s, ph)
  PROVE  TypeInv'
<1> WorldOK /\ ArgumentsOK /\ ControlOK
  BY DEF TypeInv
<1>1. ControlOK'
  BY DEF ControlOK, SeenOK, BeginPhase, Goto, Labels, Loaded
<1>2. WorldOK'
  BY DEF WorldOK, BeginPhase, world, history
<1>3. ArgumentsOK'
  BY DEF ArgumentsOK, BeginPhase
<1> QED BY <1>1, <1>2, <1>3 DEF TypeInv

LEMMA BeginDownTypes ==
  ASSUME TypeInv, NEW p \in Process, NEW s \in Slug, BeginDown(p, s)
  PROVE  TypeInv'
<1> WorldOK /\ ArgumentsOK /\ ControlOK
  BY DEF TypeInv
<1>1. ControlOK'
  BY DEF ControlOK, SeenOK, BeginDown, Goto, Labels, Loaded
<1>2. WorldOK'
  BY DEF WorldOK, BeginDown, world, history
<1>3. ArgumentsOK'
  BY DEF ArgumentsOK, BeginDown
<1> QED BY <1>1, <1>2, <1>3 DEF TypeInv

LEMMA BeginRemoveTypes ==
  ASSUME TypeInv, NEW p \in Process, NEW s \in Slug, NEW m \in RemoveModes, BeginRemove(p, s, m)
  PROVE  TypeInv'
<1> WorldOK /\ ArgumentsOK /\ ControlOK
  BY DEF TypeInv
<1>1. ControlOK'
  BY DEF ControlOK, SeenOK, BeginRemove, Goto, Labels, Loaded
<1>2. WorldOK'
  BY DEF WorldOK, BeginRemove, world, history
<1>3. ArgumentsOK'
  BY DEF ArgumentsOK, BeginRemove, Modes
<1> QED BY <1>1, <1>2, <1>3 DEF TypeInv

LEMMA CheckNamesTypes ==
  ASSUME TypeInv, NEW p \in Process, CheckNames(p)
  PROVE  TypeInv'
<1> WorldOK /\ ArgumentsOK /\ ControlOK
  BY DEF TypeInv
<1>1. ControlOK'
  BY StepControl, FinishControl DEF CheckNames, Labels, Loaded
<1>2. WorldOK'
  BY DEF WorldOK, CheckNames, world, history
<1>3. ArgumentsOK'
  BY DEF ArgumentsOK, CheckNames, command
<1> QED BY <1>1, <1>2, <1>3 DEF TypeInv

LEMMA ResolveBaseTypes ==
  ASSUME TypeInv, NEW p \in Process, ResolveBase(p)
  PROVE  TypeInv'
<1> WorldOK /\ ArgumentsOK /\ ControlOK
  BY DEF TypeInv
<1>1. ControlOK'
  BY DEF ControlOK, WorldOK, SeenOK, ResolveBase, Goto, Labels, Loaded
<1>2. WorldOK'
  BY DEF WorldOK, ResolveBase, world, history
<1>3. ArgumentsOK'
  BY DEF ArgumentsOK, ResolveBase, command
<1> QED BY <1>1, <1>2, <1>3 DEF TypeInv

LEMMA AddWorktreeTypes ==
  ASSUME TypeInv, NEW p \in Process, AddWorktree(p)
  PROVE  TypeInv'
<1> WorldOK /\ ArgumentsOK /\ ControlOK
  BY DEF TypeInv
<1>1. ControlOK'
  <2>1. CASE Finish(p)
    BY <2>1, FinishControl
  <2>2. CASE Goto(p, "submodules") /\ UNCHANGED <<plan, base, seen>>
    BY <2>2 DEF ControlOK, SeenOK, Goto, Labels, Loaded
  <2> QED BY <2>1, <2>2 DEF AddWorktree
<1>2. WorldOK'
  BY DEF WorldOK, ArgumentsOK, AddWorktree, history
<1>3. ArgumentsOK'
  BY DEF ArgumentsOK, AddWorktree, command
<1> QED BY <1>1, <1>2, <1>3 DEF TypeInv

LEMMA InitSubmodulesTypes ==
  ASSUME TypeInv, NEW p \in Process, InitSubmodules(p)
  PROVE  TypeInv'
<1> WorldOK /\ ArgumentsOK /\ ControlOK
  BY DEF TypeInv
<1>1. ControlOK'
  BY StepControl, FinishControl DEF InitSubmodules, Labels, Loaded
<1>2. WorldOK'
  BY DEF WorldOK, InitSubmodules, world, history
<1>3. ArgumentsOK'
  BY DEF ArgumentsOK, InitSubmodules, command
<1> QED BY <1>1, <1>2, <1>3 DEF TypeInv

LEMMA WriteMarkerTypes ==
  ASSUME TypeInv, NEW p \in Process, WriteMarker(p)
  PROVE  TypeInv'
<1> WorldOK /\ ArgumentsOK /\ ControlOK
  BY DEF TypeInv
<1>1. ControlOK'
  <2>1. plan[p] \in SUBSET Phases
    BY DEF ControlOK
  <2> QED BY <2>1, PhaseControl, FinishControl DEF WriteMarker
<1>2. WorldOK'
  <2>1. /\ slug[p] \in Slug /\ env[p] \in Env /\ branch[p] \in Branch
        /\ base[p] \in Commit \cup {None}
    BY DEF ArgumentsOK, ControlOK
  <2>2. ComposeOf[<<slug[p], env[p]>>] \in Project /\ OriginOf[<<slug[p], env[p]>>] \in Origin
    BY <2>1, NamesAssumption
  <2>3. [project |-> ComposeOf[<<slug[p], env[p]>>], origin |-> OriginOf[<<slug[p], env[p]>>],
         branch |-> branch[p], base |-> base[p]] \in Overlay
    BY <2>1, <2>2 DEF Overlay
  <2>4. UNCHANGED <<tip, cut, tree, stack, volumes, sites>>
    BY DEF WriteMarker
  <2>7. told' \in LeftBehind /\ unsaid' \in LeftBehind
    BY WithoutType DEF WorldOK, WriteMarker, history
  <2>5. marker' \in [Slug -> Overlay \cup {None, Broken}]
    BY <2>1, <2>3 DEF WorldOK, WriteMarker
  <2> QED BY <2>4, <2>5, <2>7 DEF WorldOK
<1>3. ArgumentsOK'
  BY DEF ArgumentsOK, WriteMarker, command
<1> QED BY <1>1, <1>2, <1>3 DEF TypeInv

LEMMA LoadTypes ==
  ASSUME TypeInv, NEW p \in Process, Load(p)
  PROVE  TypeInv'
<1> WorldOK /\ ArgumentsOK /\ ControlOK
  BY DEF TypeInv
<1>1. ControlOK'
  BY LoadControl DEF Load, Labels
<1>2. WorldOK'
  BY DEF WorldOK, Load, world, history
<1>3. ArgumentsOK'
  BY DEF ArgumentsOK, Load, command
<1> QED BY <1>1, <1>2, <1>3 DEF TypeInv

LEMMA PrepareTypes ==
  ASSUME TypeInv, NEW p \in Process, Prepare(p)
  PROVE  TypeInv'
<1> WorldOK /\ ArgumentsOK /\ ControlOK
  BY DEF TypeInv
<1>1. ControlOK'
  <2>1. CASE LoadOverlay(p, "prepare", IF Phase(p) = "up" THEN "route" ELSE "compose")
    <3>1. (IF Phase(p) = "up" THEN "route" ELSE "compose") \in Labels
      BY DEF Labels
    <3> QED BY <2>1, <3>1, LoadControl
  <2>2. CASE Finish(p)
    BY <2>2, FinishControl
  <2> QED BY <2>1, <2>2 DEF Prepare
<1>2. WorldOK'
  <2>1. volumes' \subseteq Project
    <3>1. seen'[p] # None => seen'[p].project \in Project
      BY <1>1 DEF ControlOK, Overlay
    <3> QED BY <3>1 DEF WorldOK, Prepare
  <2>2. UNCHANGED <<tip, cut, tree, marker, stack, sites, history>>
    BY DEF Prepare
  <2> QED BY <2>1, <2>2 DEF WorldOK, history
<1>3. ArgumentsOK'
  BY DEF ArgumentsOK, Prepare, command
<1> QED BY <1>1, <1>2, <1>3 DEF TypeInv

LEMMA RegisterSiteTypes ==
  ASSUME TypeInv, NEW p \in Process, RegisterSite(p)
  PROVE  TypeInv'
<1> WorldOK /\ ArgumentsOK /\ ControlOK
  BY DEF TypeInv
<1>0. At(p, "route") => seen[p] \in Overlay
  BY DEF ControlOK, SeenOK, Loaded, At
<1>1. ControlOK'
  BY <1>0, StepControl, FinishControl DEF RegisterSite, Labels, Step, At, ControlOK, SeenOK, Loaded
<1>2. WorldOK'
  <2>1. sites' \subseteq Origin
    BY <1>0 DEF WorldOK, RegisterSite, Overlay
  <2> QED BY <2>1 DEF WorldOK, RegisterSite, history
<1>3. ArgumentsOK'
  BY DEF ArgumentsOK, RegisterSite, command
<1> QED BY <1>1, <1>2, <1>3 DEF TypeInv

LEMMA StartComposeTypes ==
  ASSUME TypeInv, NEW p \in Process, StartCompose(p)
  PROVE  TypeInv'
<1> WorldOK /\ ArgumentsOK /\ ControlOK
  BY DEF TypeInv
<1>1. ControlOK'
  BY StepControl, FinishControl DEF StartCompose, Labels, Step, At, ControlOK, SeenOK, Loaded
<1>2. WorldOK'
  BY DEF WorldOK, StartCompose, world, history
<1>3. ArgumentsOK'
  BY DEF ArgumentsOK, StartCompose, command
<1> QED BY <1>1, <1>2, <1>3 DEF TypeInv

LEMMA ComposeUpTypes ==
  ASSUME TypeInv, NEW p \in Process, ComposeUp(p)
  PROVE  TypeInv'
<1> WorldOK /\ ArgumentsOK /\ ControlOK
  BY DEF TypeInv
<1>0. At(p, "composing") => seen[p] \in Overlay
  BY DEF ControlOK, SeenOK, Loaded, At
<1>1. ControlOK'
  <2>1. plan[p] \ {Phase(p)} \in SUBSET Phases
    BY DEF ControlOK
  <2> QED BY <2>1, PhaseControl, FinishControl DEF ComposeUp
<1>2. WorldOK'
  <2>1. stack' \subseteq Project
    BY <1>0 DEF WorldOK, ComposeUp, Overlay
  <2> QED BY <2>1 DEF WorldOK, ComposeUp, history
<1>3. ArgumentsOK'
  BY DEF ArgumentsOK, ComposeUp, command
<1> QED BY <1>1, <1>2, <1>3 DEF TypeInv

LEMMA DownLoadTypes ==
  ASSUME TypeInv, NEW p \in Process, DownLoad(p)
  PROVE  TypeInv'
<1> WorldOK /\ ArgumentsOK /\ ControlOK
  BY DEF TypeInv
<1>1. ControlOK'
  BY LoadControl DEF DownLoad, Labels
<1>2. WorldOK'
  BY DEF WorldOK, DownLoad, world, history
<1>3. ArgumentsOK'
  BY DEF ArgumentsOK, DownLoad, command
<1> QED BY <1>1, <1>2, <1>3 DEF TypeInv

LEMMA DownComposeTypes ==
  ASSUME TypeInv, NEW p \in Process, DownCompose(p)
  PROVE  TypeInv'
<1> WorldOK /\ ArgumentsOK /\ ControlOK
  BY DEF TypeInv
<1>1. ControlOK'
  BY StepControl, FinishControl DEF DownCompose, Labels, Step, At, ControlOK, SeenOK, Loaded
<1>2. WorldOK'
  BY DEF WorldOK, DownCompose, history
<1>3. ArgumentsOK'
  BY DEF ArgumentsOK, DownCompose, command
<1> QED BY <1>1, <1>2, <1>3 DEF TypeInv

LEMMA UnrouteTypes ==
  ASSUME TypeInv, NEW p \in Process, Unroute(p)
  PROVE  TypeInv'
<1> WorldOK /\ ArgumentsOK /\ ControlOK
  BY DEF TypeInv
<1>1. ControlOK'
  BY FinishControl DEF Unroute
<1>2. WorldOK'
  BY DEF WorldOK, Unroute, history
<1>3. ArgumentsOK'
  BY DEF ArgumentsOK, Unroute, command
<1> QED BY <1>1, <1>2, <1>3 DEF TypeInv

LEMMA RemoveLoadTypes ==
  ASSUME TypeInv, NEW p \in Process, RemoveLoad(p)
  PROVE  TypeInv'
<1> WorldOK /\ ArgumentsOK /\ ControlOK
  BY DEF TypeInv
<1>1. ControlOK'
  <2>1. CASE Finish(p)
    BY <2>1, FinishControl
  <2>2. CASE ~Finish(p)
    <3>1. marker[slug[p]] \in Overlay \cup {None}
      BY <2>2 DEF RemoveLoad, WorldOK, ArgumentsOK
    <3>2. /\ seen' = [seen EXCEPT ![p] = marker[slug[p]]]
          /\ UNCHANGED <<plan, base>>
          /\ pc' = [pc EXCEPT ![p] = IF marker[slug[p]] = None \/ mode[p].keep
                                     THEN "gitRemove" ELSE "teardown"]
      BY <2>2 DEF RemoveLoad, Goto
    <3> QED BY <3>1, <3>2 DEF ControlOK, SeenOK, Labels, Loaded
  <2> QED BY <2>1, <2>2
<1>2. WorldOK'
  BY DEF WorldOK, RemoveLoad, world, history
<1>3. ArgumentsOK'
  BY DEF ArgumentsOK, RemoveLoad, command
<1> QED BY <1>1, <1>2, <1>3 DEF TypeInv

LEMMA TeardownTypes ==
  ASSUME TypeInv, NEW p \in Process, Teardown(p)
  PROVE  TypeInv'
<1> WorldOK /\ ArgumentsOK /\ ControlOK
  BY DEF TypeInv
<1>1. ControlOK'
  BY StepControl, FinishControl DEF Teardown, Labels, Step, At, ControlOK, SeenOK, Loaded
<1>2. WorldOK'
  BY DEF WorldOK, Teardown, history
<1>3. ArgumentsOK'
  BY DEF ArgumentsOK, Teardown, command
<1> QED BY <1>1, <1>2, <1>3 DEF TypeInv

LEMMA WipeVolumesTypes ==
  ASSUME TypeInv, NEW p \in Process, WipeVolumes(p)
  PROVE  TypeInv'
<1> WorldOK /\ ArgumentsOK /\ ControlOK
  BY DEF TypeInv
<1>1. ControlOK'
  BY StepControl, FinishControl DEF WipeVolumes, Labels, Step, At, ControlOK, SeenOK, Loaded
<1>2. WorldOK'
  BY DEF WorldOK, WipeVolumes, history
<1>3. ArgumentsOK'
  BY DEF ArgumentsOK, WipeVolumes, command
<1> QED BY <1>1, <1>2, <1>3 DEF TypeInv

LEMMA GitRemoveTypes ==
  ASSUME TypeInv, NEW p \in Process, GitRemove(p)
  PROVE  TypeInv'
<1> WorldOK /\ ArgumentsOK /\ ControlOK
  BY DEF TypeInv
<1>1. ControlOK'
  BY StepControl, FinishControl DEF GitRemove, Labels, Loaded
<1>2. WorldOK'
  <2>1. unsaid' \in LeftBehind
    BY WithType, ReportsType DEF WorldOK, GitRemove
  <2>2. /\ tree' \in [Slug -> Branch \cup {None, Broken}]
        /\ marker' \in [Slug -> Overlay \cup {None, Broken}]
    BY DEF WorldOK, GitRemove
  <2> QED BY <2>1, <2>2 DEF WorldOK, GitRemove
<1>3. ArgumentsOK'
  BY DEF ArgumentsOK, GitRemove, command
<1> QED BY <1>1, <1>2, <1>3 DEF TypeInv

LEMMA ReportTypes ==
  ASSUME TypeInv, NEW p \in Process, Report(p)
  PROVE  TypeInv'
<1> WorldOK /\ ArgumentsOK /\ ControlOK
  BY DEF TypeInv
<1>1. ControlOK'
  BY StepControl, FinishControl DEF Report, Labels
<1>2. WorldOK'
  <2>1. told' \in LeftBehind
    BY WithType, ReportsType DEF WorldOK, Report
  <2>2. unsaid' \in LeftBehind
    BY DEF WorldOK, Report, LeftBehind
  <2> QED BY <2>1, <2>2 DEF WorldOK, Report
<1>3. ArgumentsOK'
  BY DEF ArgumentsOK, Report, command
<1> QED BY <1>1, <1>2, <1>3 DEF TypeInv

LEMMA DeleteBranchTypes ==
  ASSUME TypeInv, NEW p \in Process, DeleteBranch(p)
  PROVE  TypeInv'
<1> WorldOK /\ ArgumentsOK /\ ControlOK
  BY DEF TypeInv
<1>1. ControlOK'
  BY FinishControl DEF DeleteBranch
<1>2. WorldOK'
  BY DEF WorldOK, DeleteBranch, history
<1>3. ArgumentsOK'
  BY DEF ArgumentsOK, DeleteBranch, command
<1> QED BY <1>1, <1>2, <1>3 DEF TypeInv

LEMMA KilledTypes ==
  ASSUME TypeInv, NEW p \in Process, Killed(p)
  PROVE  TypeInv'
<1> WorldOK /\ ArgumentsOK /\ ControlOK
  BY DEF TypeInv
<1>1. ControlOK'
  BY FinishControl DEF Killed
<1>2. WorldOK'
  BY DEF WorldOK, Killed, world, history
<1>3. ArgumentsOK'
  BY DEF ArgumentsOK, Killed, command
<1> QED BY <1>1, <1>2, <1>3 DEF TypeInv

LEMMA RefMovesTypes == TypeInv /\ RefMoves => TypeInv'
  BY TipAssumption
     DEF TypeInv, WorldOK, ArgumentsOK, ControlOK, SeenOK, RefMoves, Commit, command, history

LEMMA StutterTypes == TypeInv /\ UNCHANGED vars => TypeInv'
  BY DEF TypeInv, WorldOK, ArgumentsOK, ControlOK, SeenOK, vars, history

LEMMA InitTypes == Init => TypeInv
<1> SUFFICES ASSUME Init PROVE TypeInv
  OBVIOUS
<1>1. WorldOK
  BY NamesAssumption, TipAssumption DEF Init, WorldOK, Commit, LeftBehind, Nothing
<1>2. ArgumentsOK
  BY DEF Init, ArgumentsOK, Modes
<1>3. ControlOK
  BY DEF Init, ControlOK, SeenOK, Loaded, Labels
<1> QED BY <1>1, <1>2, <1>3 DEF TypeInv

LEMMA NextTypes == TypeInv /\ [Next]_vars => TypeInv'
<1> SUFFICES ASSUME TypeInv, [Next]_vars PROVE TypeInv'
  OBVIOUS
<1>1. CASE RefMoves
  BY <1>1, RefMovesTypes
<1>2. ASSUME NEW p \in Process, Begin(p) PROVE TypeInv'
  <2>1. \A ph \in Phases : {ph} \in SUBSET Phases
    OBVIOUS
  <2> QED BY <1>2, <2>1, BeginCreateTypes, BeginPhaseTypes, BeginDownTypes, BeginRemoveTypes DEF Begin
<1>3. ASSUME NEW p \in Process, Proceed(p) PROVE TypeInv'
  BY <1>3, CheckNamesTypes, ResolveBaseTypes, AddWorktreeTypes, InitSubmodulesTypes,
     WriteMarkerTypes, LoadTypes, PrepareTypes, RegisterSiteTypes,
     StartComposeTypes, ComposeUpTypes, DownLoadTypes, DownComposeTypes,
     UnrouteTypes, RemoveLoadTypes, TeardownTypes, WipeVolumesTypes,
     GitRemoveTypes, ReportTypes, DeleteBranchTypes
     DEF Proceed
<1>4. ASSUME NEW p \in Process, Killed(p) PROVE TypeInv'
  BY <1>4, KilledTypes
<1>5. CASE UNCHANGED vars
  BY <1>5, StutterTypes
<1> QED BY <1>1, <1>2, <1>3, <1>4, <1>5 DEF Next

LEMMA TypesHold == Spec => []TypeInv
  BY InitTypes, NextTypes, PTL DEF Spec

\* Every variable keeps its type, and a command that is to touch Docker has an overlay in
\* hand, however many commands interleave and wherever they are killed.
THEOREM TypeCorrect == Spec => []TypeOK
  BY TypesHold, TypeParts, PTL

-----------------------------------------------------------------------------
(* What a step does to what a command knows of its checkout.                 *)

\* A process between two commands knows of no checkout.
IdleBlank == \A p \in Process : At(p, "idle") => seen[p] = None

\* The four things a step can do to what a command knows.
Ends(p)   == Finish(p) /\ UNCHANGED slug
Goes(p)   == \E l \in Labels \ {"idle"} : Goto(p, l)
Quiet(p)  == Goes(p) /\ UNCHANGED <<slug, seen>>
Reads(p)  == /\ Goes(p) /\ UNCHANGED slug /\ marker[slug[p]] # Broken
             /\ seen' = [seen EXCEPT ![p] = marker[slug[p]]]
Starts(p) == /\ Goes(p) /\ At(p, "idle") /\ UNCHANGED seen
             /\ \E s \in Slug : slug' = [slug EXCEPT ![p] = s]
Effect(p) == Ends(p) \/ Quiet(p) \/ Reads(p) \/ Starts(p)

LEMMA StepEffect ==
  ASSUME NEW p \in Process, NEW from, NEW to \in Labels \ {"idle"}, Step(p, from, to), UNCHANGED slug
  PROVE  Effect(p)
  BY DEF Effect, Quiet, Goes, Step

LEMMA LoadEffect ==
  ASSUME NEW p \in Process, NEW from, NEW to \in Labels \ {"idle"}, LoadOverlay(p, from, to),
         UNCHANGED slug
  PROVE  Effect(p)
  BY DEF Effect, Reads, Ends, Goes, LoadOverlay, Valid

LEMMA PhaseEffect ==
  ASSUME NEW p \in Process, NEW phases, NextPhase(p, phases), UNCHANGED slug
  PROVE  Effect(p)
  BY DEF Effect, Ends, Quiet, Goes, NextPhase, Labels

LEMMA BeginEffect == ASSUME NEW p \in Process, Begin(p) PROVE Effect(p)
<1>1. ASSUME NEW s \in Slug, NEW e \in Env, NEW b \in Branch, NEW ph \in SUBSET Phases,
             BeginCreate(p, s, e, b, ph)
      PROVE  Starts(p)
  BY <1>1 DEF BeginCreate, Starts, Goes, Labels
<1>2. ASSUME NEW s \in Slug, NEW ph \in Phases, BeginPhase(p, s, {ph}) PROVE Starts(p)
  BY <1>2 DEF BeginPhase, Starts, Goes, Labels
<1>3. ASSUME NEW s \in Slug, BeginDown(p, s) PROVE Starts(p)
  BY <1>3 DEF BeginDown, Starts, Goes, Labels
<1>4. ASSUME NEW s \in Slug, NEW m \in RemoveModes, BeginRemove(p, s, m) PROVE Starts(p)
  BY <1>4 DEF BeginRemove, Starts, Goes, Labels
<1> QED BY <1>1, <1>2, <1>3, <1>4 DEF Begin, Effect

LEMMA ProceedEffect == ASSUME NEW p \in Process, Proceed(p) PROVE Effect(p)
<1>1. Finish(p) /\ UNCHANGED command => Effect(p)
  BY DEF command, Effect, Ends
<1>2. CASE CheckNames(p) \/ InitSubmodules(p) \/ RegisterSite(p) \/ StartCompose(p)
  BY <1>1, <1>2, StepEffect
     DEF CheckNames, InitSubmodules, RegisterSite, StartCompose, command, Labels
<1>3. CASE DownCompose(p) \/ Teardown(p) \/ WipeVolumes(p) \/ GitRemove(p) \/ Report(p)
  BY <1>1, <1>3, StepEffect
     DEF DownCompose, Teardown, WipeVolumes, GitRemove, Report, command, Labels
<1>4. CASE ResolveBase(p)
  BY <1>4 DEF ResolveBase, Effect, Quiet, Goes, Labels, command
<1>5. CASE AddWorktree(p)
  BY <1>1, <1>5 DEF AddWorktree, Effect, Quiet, Goes, Labels, command
<1>6. CASE WriteMarker(p)
  BY <1>1, <1>6, PhaseEffect DEF WriteMarker, command
<1>7. CASE Load(p) \/ DownLoad(p)
  BY <1>7, LoadEffect DEF Load, DownLoad, command, Labels
<1>8. CASE Prepare(p)
  <2>1. (IF Phase(p) = "up" THEN "route" ELSE "compose") \in Labels \ {"idle"}
    BY DEF Labels
  <2> QED BY <1>1, <1>8, <2>1, LoadEffect DEF Prepare, command
<1>9. CASE ComposeUp(p)
  BY <1>1, <1>9, PhaseEffect DEF ComposeUp, command
<1>10. CASE Unroute(p) \/ DeleteBranch(p)
  BY <1>1, <1>10 DEF Unroute, DeleteBranch
<1>11. CASE RemoveLoad(p)
  <2>1. (IF marker[slug[p]] = None \/ mode[p].keep THEN "gitRemove" ELSE "teardown")
          \in Labels \ {"idle"}
    BY DEF Labels
  <2> QED BY <1>1, <1>11, <2>1 DEF RemoveLoad, Effect, Reads, Goes, command
<1> QED BY <1>2, <1>3, <1>4, <1>5, <1>6, <1>7, <1>8, <1>9, <1>10, <1>11 DEF Proceed

LEMMA EffectBlank ==
  ASSUME TypeInv, IdleBlank, NEW p \in Process, Effect(p)
  PROVE  IdleBlank'
<1>1. pc \in [Process -> Labels] /\ seen \in [Process -> Overlay \cup {None}]
  BY DEF TypeInv, ControlOK
<1> QED BY <1>1 DEF IdleBlank, Effect, Ends, Quiet, Reads, Starts, Goes, Finish, Goto, At

LEMMA BlankKept == ASSUME TypeInv, IdleBlank, [Next]_vars PROVE IdleBlank'
<1>1. CASE UNCHANGED <<pc, seen>>
  BY <1>1 DEF IdleBlank, At
<1>2. ASSUME NEW p \in Process, Begin(p) \/ Proceed(p) \/ Killed(p) PROVE IdleBlank'
  <2>1. Effect(p)
    BY <1>2, BeginEffect, ProceedEffect DEF Killed, Effect, Ends, command
  <2> QED BY <2>1, EffectBlank
<1> QED BY <1>1, <1>2 DEF Next, RefMoves, vars

\* Only two steps touch a marker.
Unmarked(p) == ~WriteMarker(p) /\ ~GitRemove(p)

LEMMA MarkerFrame ==
  ASSUME NEW p \in Process, Begin(p) \/ Killed(p) \/ (Proceed(p) /\ Unmarked(p))
  PROVE  UNCHANGED marker
<1>1. CASE Begin(p)
  BY <1>1 DEF Begin, BeginCreate, BeginPhase, BeginDown, BeginRemove, world, history
<1>2. CASE Killed(p)
  BY <1>2 DEF Killed, world, history
<1>3. CASE Proceed(p) /\ Unmarked(p)
  BY <1>3 DEF Proceed, Unmarked, CheckNames, ResolveBase, AddWorktree, InitSubmodules, Load,
     Prepare, RegisterSite, StartCompose, ComposeUp, DownLoad, DownCompose, Unroute,
     RemoveLoad, Teardown, WipeVolumes, Report, DeleteBranch, world, history
<1> QED BY <1>1, <1>2, <1>3

-----------------------------------------------------------------------------
(* What a step may take from Docker. *)

LEMMA Removers ==
  ASSUME NEW q \in Project, [Next]_vars, Vanishes(q)
  PROVE  \E p \in Process : DownCompose(p) \/ Teardown(p) \/ WipeVolumes(p)
<1>1. CASE UNCHANGED <<stack, volumes>>
  BY <1>1 DEF Vanishes
<1>2. ASSUME NEW p \in Process, Begin(p) PROVE UNCHANGED <<stack, volumes>>
  BY <1>2 DEF Begin, BeginCreate, BeginPhase, BeginDown, BeginRemove, world, history
<1>3. ASSUME NEW p \in Process, Proceed(p), ~Prepare(p), ~ComposeUp(p),
             ~DownCompose(p), ~Teardown(p), ~WipeVolumes(p)
      PROVE  UNCHANGED <<stack, volumes>>
  BY <1>3 DEF Proceed, CheckNames, ResolveBase, AddWorktree, InitSubmodules, WriteMarker,
     Load, RegisterSite, StartCompose, DownLoad, Unroute, RemoveLoad, GitRemove, Report,
     DeleteBranch, world
<1>4. ASSUME NEW p \in Process, Prepare(p) PROVE stack' = stack /\ volumes \subseteq volumes'
  BY <1>4 DEF Prepare
<1>5. ASSUME NEW p \in Process, ComposeUp(p) PROVE stack \subseteq stack' /\ volumes' = volumes
  BY <1>5 DEF ComposeUp
<1>6. CASE \E p \in Process : Killed(p)
  BY <1>1, <1>6 DEF Killed, world, history
<1> QED BY <1>1, <1>2, <1>3, <1>4, <1>5, <1>6 DEF Next, RefMoves, vars, Vanishes

\* A remover acts on the project that it read from its own checkout's marker.
LEMMA RemoverOwn ==
  ASSUME TypeInv, NEW p \in Process, NEW q \in Project, Vanishes(q),
         DownCompose(p) \/ Teardown(p) \/ WipeVolumes(p)
  PROVE  /\ pc[p] \in {"downCompose", "teardown", "wipe"} /\ pc'[p] # pc[p]
         /\ seen[p] # None /\ seen[p].project = q
<1>1. pc \in [Process -> Labels] /\ SeenOK
  BY DEF TypeInv, ControlOK
<1>2. pc[p] \in {"downCompose", "teardown", "wipe"}
  BY DEF DownCompose, Teardown, WipeVolumes, Step, At
<1>3. seen[p].project = q
  BY DEF DownCompose, Teardown, WipeVolumes, Vanishes
<1>4. \/ Finish(p)
      \/ Step(p, "downCompose", "unroute")
      \/ Step(p, "teardown", IF mode[p].wipe THEN "wipe" ELSE "gitRemove")
      \/ Step(p, "wipe", "gitRemove")
  BY DEF DownCompose, Teardown, WipeVolumes
<1>5. pc'[p] # pc[p]
  BY <1>1, <1>2, <1>4 DEF Finish, Step, Goto, At
<1> QED BY <1>1, <1>2, <1>3, <1>5 DEF SeenOK, Loaded

-----------------------------------------------------------------------------
(* One command at a time, but names that may coincide: the check suffices.   *)

OneProcess == \A p, q \in Process : p = q
Creating   == {"branch", "addNew", "addExisting", "submodules", "marker"}

Held     == \A s \in Slug : marker[s] # None => tree[s] # None
NameFree == \A p \in Process : pc[p] \in Creating =>
  \A s \in Slug : Valid(s) =>
    ~Taken(marker[s], ComposeOf[<<slug[p], env[p]>>], OriginOf[<<slug[p], env[p]>>])
AloneInv == Held /\ NameFree /\ DistinctIdentity

LEMMA HeldKept == ASSUME TypeInv, Held, [Next]_vars PROVE Held'
<1>1. /\ tree \in [Slug -> Branch \cup {None, Broken}] /\ marker \in [Slug -> Overlay \cup {None, Broken}]
      /\ slug \in [Process -> Slug] /\ branch \in [Process -> Branch]
  BY DEF TypeInv, WorldOK, ArgumentsOK
<1>2. CASE UNCHANGED <<tree, marker>>
  BY <1>2 DEF Held
<1>3. ASSUME NEW p \in Process, AddWorktree(p) PROVE Held'
  <2>1. branch[p] # None
    BY <1>1, NoneAssumption
  <2>2. UNCHANGED marker /\ tree' \in {tree, [tree EXCEPT ![slug[p]] = branch[p]]}
    BY <1>3 DEF AddWorktree
  <2> QED BY <1>1, <2>1, <2>2 DEF Held
<1>4. ASSUME NEW p \in Process, WriteMarker(p) PROVE Held'
  <2>1. UNCHANGED tree /\ (UNCHANGED marker \/ (/\ tree[slug[p]] # None
                                               /\ \A s \in Slug \ {slug[p]} : marker'[s] = marker[s]))
    BY <1>1, <1>4 DEF WriteMarker
  <2> QED BY <2>1 DEF Held
<1>5. ASSUME NEW p \in Process, GitRemove(p) PROVE Held'
  <2>1. CASE UNCHANGED <<tree, marker>>
    BY <1>2, <2>1
  <2>2. CASE tree' = [tree EXCEPT ![slug[p]] = None] /\ marker' = [marker EXCEPT ![slug[p]] = None]
    BY <1>1, <2>2 DEF Held
  <2>3. CASE /\ tree[slug[p]] \in Branch
             /\ tree' \in {tree, [tree EXCEPT ![slug[p]] = Broken]}
             /\ marker' \in {marker, [marker EXCEPT ![slug[p]] = None]}
    BY <1>1, <2>3, NoneAssumption DEF Held
  <2> QED BY <1>5, <2>1, <2>2, <2>3 DEF GitRemove
<1>6. ASSUME NEW p \in Process, Begin(p) \/ Killed(p) PROVE UNCHANGED <<tree, marker>>
  BY <1>6 DEF Begin, BeginCreate, BeginPhase, BeginDown, BeginRemove, Killed, world, history
<1>7. ASSUME NEW p \in Process, Proceed(p), ~AddWorktree(p), ~WriteMarker(p), ~GitRemove(p)
      PROVE  UNCHANGED <<tree, marker>>
  BY <1>7 DEF Proceed, CheckNames, ResolveBase, InitSubmodules, Load, Prepare, RegisterSite,
     StartCompose, ComposeUp, DownLoad, DownCompose, Unroute, RemoveLoad, Teardown,
     WipeVolumes, Report, DeleteBranch, world
<1> QED BY <1>2, <1>3, <1>4, <1>5, <1>6, <1>7 DEF Next, RefMoves, vars

LEMMA FreeKept == ASSUME OneProcess, TypeInv, AloneInv, [Next]_vars PROVE NameFree'
<1>1. /\ tree \in [Slug -> Branch \cup {None, Broken}] /\ marker \in [Slug -> Overlay \cup {None, Broken}]
      /\ slug \in [Process -> Slug] /\ pc \in [Process -> Labels]
  BY DEF TypeInv, WorldOK, ArgumentsOK, ControlOK
<1>2. ASSUME NEW p \in Process, pc'[p] \notin Creating PROVE NameFree'
  BY <1>2, OneProcess DEF OneProcess, NameFree
<1>3. CASE UNCHANGED <<pc, slug, env, marker>>
  BY <1>3 DEF AloneInv, NameFree, Valid
<1>4. ASSUME NEW p \in Process, CheckNames(p) PROVE NameFree'
  <2>1. CASE Finish(p)
    BY <1>1, <1>2, <2>1 DEF Finish, Goto, Creating
  <2>2. CASE ~Finish(p)
    <3>1. \A o \in Overlays({}) : ~Taken(o, ComposeOf[<<slug[p], env[p]>>],
                                          OriginOf[<<slug[p], env[p]>>])
      BY <1>4, <2>2 DEF CheckNames
    <3>2. \A s \in Slug : Valid(s) => marker[s] \in Overlays({})
      BY DEF Overlays, AloneInv, Held, Valid
    <3>3. UNCHANGED <<marker, slug, env>>
      BY <1>4 DEF CheckNames, world, history, command
    <3> QED BY <3>1, <3>2, <3>3, OneProcess DEF NameFree, OneProcess, Valid
  <2> QED BY <2>1, <2>2
<1>5. ASSUME NEW p \in Process, pc[p] \in Creating, UNCHANGED <<slug, env, marker>>
      PROVE  NameFree'
  BY <1>5, OneProcess DEF AloneInv, NameFree, OneProcess, Valid
<1>6. ASSUME NEW p \in Process, ResolveBase(p) \/ AddWorktree(p) \/ InitSubmodules(p)
      PROVE  NameFree'
  BY <1>5, <1>6 DEF ResolveBase, AddWorktree, InitSubmodules, Step, At, Creating, world, history, command
<1>7. ASSUME NEW p \in Process, WriteMarker(p) PROVE NameFree'
  BY <1>1, <1>2, <1>7 DEF WriteMarker, NextPhase, Finish, Goto, Creating
<1>8. ASSUME NEW p \in Process, Begin(p) \/ Killed(p) PROVE pc'[p] \notin Creating
  BY <1>1, <1>8 DEF Begin, BeginCreate, BeginPhase, BeginDown, BeginRemove, Killed, Finish,
     Goto, Creating
<1>9. ASSUME NEW p \in Process, Load(p) \/ Prepare(p) \/ DownLoad(p) \/ RemoveLoad(p)
      PROVE  pc'[p] \notin Creating
  BY <1>1, <1>9 DEF Load, Prepare, DownLoad, RemoveLoad, LoadOverlay, Finish, Goto, Creating
<1>10. ASSUME NEW p \in Process, RegisterSite(p) \/ StartCompose(p) \/ ComposeUp(p)
                                 \/ DownCompose(p) \/ Unroute(p)
       PROVE  pc'[p] \notin Creating
  BY <1>1, <1>10 DEF RegisterSite, StartCompose, ComposeUp, DownCompose, Unroute, NextPhase,
     Step, Finish, Goto, Creating
<1>11. ASSUME NEW p \in Process, Teardown(p) \/ WipeVolumes(p) \/ GitRemove(p) \/ Report(p)
                                 \/ DeleteBranch(p)
       PROVE  pc'[p] \notin Creating
  BY <1>1, <1>11
     DEF Teardown, WipeVolumes, GitRemove, Report, DeleteBranch, Step, Finish, Goto, Creating
<1>12. ASSUME NEW p \in Process, Proceed(p) PROVE NameFree'
  BY <1>2, <1>4, <1>6, <1>7, <1>9, <1>10, <1>11, <1>12 DEF Proceed
<1>13. UNCHANGED <<pc, slug, env, marker>> \/ \E p \in Process : Begin(p) \/ Killed(p) \/ Proceed(p)
  BY DEF Next, RefMoves, vars, command
<1> QED BY <1>2, <1>3, <1>8, <1>12, <1>13

LEMMA DistinctKept == ASSUME OneProcess, TypeInv, AloneInv, [Next]_vars PROVE DistinctIdentity'
<1>1. marker \in [Slug -> Overlay \cup {None, Broken}]
  BY DEF TypeInv, WorldOK
<1>2. CASE UNCHANGED marker
  BY <1>2 DEF AloneInv, DistinctIdentity, Valid
<1>3. ASSUME NEW p \in Process, GitRemove(p) PROVE DistinctIdentity'
  <2>1. marker' \in {marker, [marker EXCEPT ![slug[p]] = None]}
    BY <1>3 DEF GitRemove
  <2> QED BY <1>1, <2>1 DEF AloneInv, DistinctIdentity, Valid
<1>4. ASSUME NEW p \in Process, WriteMarker(p) PROVE DistinctIdentity'
  <2> DEFINE name == <<slug[p], env[p]>>
             o == [project |-> ComposeOf[name], origin |-> OriginOf[name],
                   branch |-> branch[p], base |-> base[p]]
  <2>1. pc[p] \in Creating
    BY <1>4 DEF WriteMarker, At, Creating
  <2>2. \A s \in Slug : Valid(s) => ~Taken(marker[s], ComposeOf[name], OriginOf[name])
    BY <2>1 DEF AloneInv, NameFree
  <2>3. \/ UNCHANGED marker
        \/ marker' = [marker EXCEPT ![slug[p]] = Broken]
        \/ marker' = [marker EXCEPT ![slug[p]] = o]
    BY <1>4 DEF WriteMarker
  <2>4. o.project = ComposeOf[name] /\ o.origin = OriginOf[name]
    OBVIOUS
  <2> HIDE DEF o
  <2> SUFFICES ASSUME NEW s \in Slug, NEW t \in Slug, s # t, Valid(s)', Valid(t)'
               PROVE  ~Taken(marker[s], marker[t].project, marker[t].origin)'
    BY DEF DistinctIdentity
  <2>5. CASE UNCHANGED marker
    BY <1>2, <2>5 DEF DistinctIdentity
  <2>6. CASE marker' = [marker EXCEPT ![slug[p]] = Broken]
    BY <1>1, <2>6 DEF AloneInv, DistinctIdentity, Valid, Taken
  <2>7. CASE marker' = [marker EXCEPT ![slug[p]] = o]
    <3>1. CASE s # slug[p] /\ t # slug[p]
      BY <1>1, <2>7, <3>1 DEF AloneInv, DistinctIdentity, Valid, Taken
    <3>2. CASE s = slug[p] \/ t = slug[p]
      BY <1>1, <2>2, <2>4, <2>7, <3>2 DEF Valid, Taken
    <3> QED BY <3>1, <3>2
  <2> QED BY <2>3, <2>5, <2>6, <2>7
<1>5. ASSUME NEW p \in Process, Begin(p) \/ Killed(p) \/ (Proceed(p) /\ Unmarked(p))
      PROVE  UNCHANGED marker
  BY <1>5, MarkerFrame
<1> QED BY <1>2, <1>3, <1>4, <1>5 DEF Next, RefMoves, vars, Unmarked

\* One command at a time, create's check keeps identities distinct even where two slugs
\* derive the same project or hostname, and whatever fails or is killed on the way.
THEOREM AloneDistinct == ASSUME OneProcess PROVE Spec => []DistinctIdentity
<1>1. Init => TypeInv /\ AloneInv
  <2>1. Init => AloneInv
    BY DEF Init, AloneInv, Held, NameFree, Creating, DistinctIdentity, Valid
  <2> QED BY <2>1, InitTypes
<1>2. TypeInv /\ AloneInv /\ [Next]_vars => (TypeInv /\ AloneInv)'
  BY NextTypes, HeldKept, FreeKept, DistinctKept, OneProcess DEF AloneInv
<1>3. AloneInv => DistinctIdentity
  BY DEF AloneInv
<1> QED BY <1>1, <1>2, <1>3, PTL DEF Spec

-----------------------------------------------------------------------------
(* Commands that run one at a time take nothing of another checkout's, and   *)
(* orphan nothing in silence.                                                *)

\* What a command has read stands in its checkout's marker until it is removed.
SeenStands == \A p \in Process : seen[p] # None =>
  /\ pc[p] \notin Creating \cup {"check"}
  /\ pc[p] \notin {"report", "branchDelete"} => marker[slug[p]] = seen[p]
StandInv == TypeInv /\ IdleBlank /\ AloneInv /\ SeenStands

LEMMA CreatesFirst ==
  ASSUME TypeInv, NEW p \in Process, Proceed(p), ~Finish(p)
  PROVE  /\ pc[p] # "branchDelete" /\ (pc[p] = "report" => pc'[p] = "branchDelete")
         /\ pc'[p] \in Creating \cup {"check"} => pc[p] \in Creating \cup {"check"} /\ UNCHANGED seen
<1>1. pc \in [Process -> Labels]
  BY DEF TypeInv, ControlOK
<1>2. CASE CheckNames(p) \/ ResolveBase(p) \/ AddWorktree(p) \/ InitSubmodules(p)
  BY <1>1, <1>2 DEF CheckNames, ResolveBase, AddWorktree, InitSubmodules, Step, At, Goto, Creating
<1>3. CASE WriteMarker(p) \/ Load(p) \/ Prepare(p) \/ DownLoad(p) \/ RemoveLoad(p)
  BY <1>1, <1>3 DEF WriteMarker, Load, Prepare, DownLoad, RemoveLoad, LoadOverlay, NextPhase,
     At, Goto, Creating
<1>4. CASE RegisterSite(p) \/ StartCompose(p) \/ ComposeUp(p) \/ DownCompose(p) \/ Unroute(p)
  BY <1>1, <1>4 DEF RegisterSite, StartCompose, ComposeUp, DownCompose, Unroute, NextPhase,
     Step, At, Goto, Creating
<1>5. CASE Teardown(p) \/ WipeVolumes(p) \/ GitRemove(p) \/ Report(p) \/ DeleteBranch(p)
  BY <1>1, <1>5
     DEF Teardown, WipeVolumes, GitRemove, Report, DeleteBranch, Step, At, Goto, Creating
<1> QED BY <1>2, <1>3, <1>4, <1>5 DEF Proceed

LEMMA StandsKept ==
  ASSUME OneProcess, TypeInv, IdleBlank, SeenStands, [Next]_vars PROVE SeenStands'
<1>1. /\ pc \in [Process -> Labels] /\ slug \in [Process -> Slug]
      /\ seen \in [Process -> Overlay \cup {None}]
  BY DEF TypeInv, ArgumentsOK, ControlOK
<1>2. CASE UNCHANGED <<marker, pc, seen, slug>>
  BY <1>2 DEF SeenStands
<1>3. ASSUME NEW p \in Process, seen'[p] = None PROVE SeenStands'
  BY <1>3, OneProcess DEF SeenStands, OneProcess
<1>4. ASSUME NEW p \in Process, Finish(p) PROVE SeenStands'
  BY <1>1, <1>3, <1>4 DEF Finish
<1>5. ASSUME NEW p \in Process, Begin(p) PROVE SeenStands'
  <2>1. At(p, "idle") /\ UNCHANGED seen
    BY <1>5 DEF Begin, BeginCreate, BeginPhase, BeginDown, BeginRemove
  <2> QED BY <1>3, <2>1 DEF IdleBlank
<1>6. ASSUME NEW p \in Process, Proceed(p), ~Finish(p) PROVE SeenStands'
  <2>1. CASE WriteMarker(p)
    <3>1. pc[p] = "marker" /\ UNCHANGED seen
      BY <1>6, <2>1 DEF WriteMarker, NextPhase, At
    <3> QED BY <1>3, <3>1 DEF SeenStands, Creating
  <2>2. CASE GitRemove(p)
    <3>1. pc'[p] = "report"
      BY <1>1, <1>6, <2>2 DEF GitRemove, Step, Goto
    <3> QED BY <3>1, OneProcess DEF SeenStands, OneProcess, Creating
  <2>3. CASE Unmarked(p)
    <3>1. UNCHANGED marker
      BY <1>6, <2>3, MarkerFrame
    <3>2. Effect(p)
      BY <1>6, ProceedEffect
    <3>3. UNCHANGED slug /\ (UNCHANGED seen \/ seen'[p] = marker[slug[p]])
      <4>1. ~At(p, "idle")
        BY <1>6 DEF Proceed, CheckNames, ResolveBase, AddWorktree, InitSubmodules, WriteMarker,
           Load, Prepare, RegisterSite, StartCompose, ComposeUp, DownLoad, DownCompose, Unroute,
           RemoveLoad, Teardown, WipeVolumes, GitRemove, Report, DeleteBranch, LoadOverlay, Step, At
      <4> QED BY <1>1, <1>6, <3>2, <4>1 DEF Effect, Ends, Quiet, Reads, Starts
    <3>4. /\ pc[p] # "branchDelete" /\ (pc[p] = "report" => pc'[p] = "branchDelete")
          /\ pc'[p] \in Creating \cup {"check"} =>
               pc[p] \in Creating \cup {"check"} /\ UNCHANGED seen
      BY <1>6, CreatesFirst
    <3>5. ASSUME seen'[p] # None
          PROVE  /\ pc'[p] \notin Creating \cup {"check"}
                 /\ pc'[p] \notin {"report", "branchDelete"} => marker[slug[p]] = seen'[p]
      BY <3>3, <3>4, <3>5 DEF SeenStands
    <3> QED BY <3>1, <3>3, <3>5, OneProcess DEF SeenStands, OneProcess
  <2> QED BY <2>1, <2>2, <2>3 DEF Unmarked
<1> QED BY <1>2, <1>4, <1>5, <1>6 DEF Next, RefMoves, vars, command, Killed

LEMMA StandsHold == ASSUME OneProcess PROVE Spec => []StandInv
<1>1. Init => StandInv
  <2>1. Init => AloneInv /\ SeenStands
    BY DEF Init, AloneInv, Held, NameFree, Creating, DistinctIdentity, Valid, SeenStands
  <2>2. Init => IdleBlank
    BY DEF Init, IdleBlank
  <2> QED BY <2>1, <2>2, InitTypes DEF StandInv
<1>2. StandInv /\ [Next]_vars => StandInv'
  BY NextTypes, BlankKept, HeldKept, FreeKept, DistinctKept, StandsKept, OneProcess
     DEF StandInv, AloneInv
<1> QED BY <1>1, <1>2, PTL DEF Spec

\* One command at a time, a down, a teardown or a wipe takes what its own checkout's marker
\* names and no other checkout's does, even where two slugs derive the same project, and
\* whatever commands were refused, failed or were killed before.
THEOREM AloneSpares == ASSUME OneProcess PROVE Spec => WipeSparesOthers
<1>1. ASSUME StandInv, [Next]_vars, NEW q \in Project, Vanishes(q)
      PROVE  \E p \in Process : /\ pc[p] \in {"downCompose", "teardown", "wipe"} /\ pc'[p] # pc[p]
                                /\ Names(slug[p], q)
                                /\ \A s \in Slug \ {slug[p]} : ~Names(s, q)
  <2>1. PICK p \in Process : DownCompose(p) \/ Teardown(p) \/ WipeVolumes(p)
    BY <1>1, Removers
  <2>2. /\ pc[p] \in {"downCompose", "teardown", "wipe"} /\ pc'[p] # pc[p]
        /\ seen[p] # None /\ seen[p].project = q
    BY <1>1, <2>1, RemoverOwn DEF StandInv
  <2>3. slug[p] \in Slug /\ seen[p] \in Overlay
    BY <1>1, <2>2 DEF StandInv, TypeInv, ArgumentsOK, ControlOK
  <2>4. marker[slug[p]] = seen[p] /\ Valid(slug[p])
    BY <1>1, <2>2, <2>3, NoneAssumption DEF StandInv, SeenStands, Valid
  <2>5. Names(slug[p], q)
    BY <1>1, <2>2, <2>3, <2>4 DEF Names, StandInv, AloneInv, Held
  <2>6. ASSUME NEW s \in Slug \ {slug[p]}, Names(s, q) PROVE FALSE
    BY <1>1, <2>2, <2>3, <2>4, <2>6 DEF Names, StandInv, AloneInv, DistinctIdentity, Taken
  <2> QED BY <2>2, <2>5, <2>6
<1>2. StandInv /\ [Next]_vars => [SparesOthers]_vars
  BY <1>1 DEF SparesOthers
<1> QED BY <1>2, StandsHold, OneProcess, PTL DEF Spec, WipeSparesOthers

-----------------------------------------------------------------------------

\* A marker is written where there was none, and a checkout of which nothing was read
\* is only removed when it has none.
NothingLost == \A p \in Process :
  pc[p] \in {"submodules", "marker"} \/ (pc[p] = "gitRemove" /\ seen[p] = None) =>
    marker[slug[p]] = None
\* What a remove does not leave behind on purpose has gone before its checkout goes.
WipedIsGone == \A p \in Process : pc[p] = "gitRemove" /\ seen[p] # None =>
  /\ ~mode[p].keep => seen[p].project \notin stack
  /\ mode[p].wipe => seen[p].project \notin stack \cup volumes
CommandInv == NothingLost /\ WipedIsGone
OrphanInv  == StandInv /\ CommandInv /\ NoSilentOrphan

\* No remove is given --wipe and --keep-stack at once (argparse lets both pass).
FlagsApart == \A m \in RemoveModes : ~(m.wipe /\ m.keep)

LEMMA EndedCommand ==
  ASSUME OneProcess, TypeInv, NEW p \in Process, Finish(p)
  PROVE  CommandInv'
<1>1. pc'[p] = "idle" /\ seen'[p] = None
  BY DEF TypeInv, ControlOK, Finish, Goto
<1>2. \A q \in Process : q = p
  BY OneProcess DEF OneProcess
<1> QED BY <1>1, <1>2 DEF CommandInv, NothingLost, WipedIsGone

\* Docker holds no more than before, and no marker and nothing a remove left has gone.
LeftKept == /\ told.stack \cup unsaid.stack \subseteq (told.stack \cup unsaid.stack)'
            /\ told.volumes \cup unsaid.volumes \subseteq (told.volumes \cup unsaid.volumes)'

LEMMA NothingNew ==
  ASSUME NoSilentOrphan, stack' \subseteq stack, volumes' \subseteq volumes, UNCHANGED marker,
         LeftKept, \A s \in Slug : tree[s] # None => tree'[s] # None
  PROVE  NoSilentOrphan'
  BY DEF NoSilentOrphan, Named, Names, Valid, LeftKept

LEMMA LeftAlone == ASSUME UNCHANGED history PROVE LeftKept
  BY DEF history, LeftKept

\* What Docker gets is named by the marker of the command that makes it.
LEMMA NewIsNamed ==
  ASSUME OrphanInv, NEW p \in Process, NEW o, marker[slug[p]] = o, o \in Overlay,
         stack' \subseteq stack \cup {o.project}, volumes' \subseteq volumes \cup {o.project},
         UNCHANGED <<tree, marker, history>>
  PROVE  NoSilentOrphan'
<1>1. slug[p] \in Slug
  BY DEF OrphanInv, StandInv, AloneInv, TypeInv, ArgumentsOK
<1>2. Valid(slug[p])
  BY NoneAssumption DEF Valid
<1>3. tree[slug[p]] # None
  BY <1>1, <1>2 DEF OrphanInv, StandInv, AloneInv, Held, Valid
<1>4. Names(slug[p], o.project)
  BY <1>2, <1>3 DEF Names
<1> QED BY <1>1, <1>4 DEF OrphanInv, StandInv, AloneInv, NoSilentOrphan, Named, Names, Valid, history

\* A step on the way of a command that leaves the markers and what it knows alone.
LEMMA OnTheWay ==
  ASSUME OneProcess, TypeInv, CommandInv, NEW p \in Process, NEW l \in Labels,
         Goto(p, l), UNCHANGED <<seen, slug, marker>>,
         l \notin Creating \cup {"gitRemove"}
  PROVE  CommandInv'
<1>1. pc'[p] = l
  BY DEF TypeInv, ControlOK, Goto
<1>2. \A q \in Process : q = p
  BY OneProcess DEF OneProcess
<1> QED BY <1>1, <1>2 DEF CommandInv, NothingLost, WipedIsGone, Creating

LEMMA BeginReach ==
  ASSUME OneProcess, OrphanInv, NEW p \in Process, Begin(p)
  PROVE  CommandInv' /\ NoSilentOrphan'
<1>1. /\ UNCHANGED <<world, seen>> /\ At(p, "idle")
      /\ pc'[p] \in {"check", "load", "downLoad", "removeLoad"}
  BY DEF OrphanInv, StandInv, AloneInv, TypeInv, ControlOK, Begin, BeginCreate, BeginPhase,
     BeginDown, BeginRemove, Goto
<1>2. seen'[p] = None
  BY <1>1 DEF OrphanInv, StandInv, IdleBlank
<1>3. \A q \in Process : q = p
  BY OneProcess DEF OneProcess
<1>4. CommandInv'
  BY <1>1, <1>2, <1>3 DEF CommandInv, NothingLost, WipedIsGone
<1>5. NoSilentOrphan'
  BY <1>1, NothingNew, LeftAlone DEF OrphanInv, world
<1> QED BY <1>4, <1>5

LEMMA KilledReach ==
  ASSUME OneProcess, OrphanInv, NEW p \in Process, Killed(p)
  PROVE  CommandInv' /\ NoSilentOrphan'
  BY EndedCommand, NothingNew, LeftAlone DEF OrphanInv, StandInv, AloneInv, Killed, world

\* create, up to the marker
LEMMA CreateReach ==
  ASSUME OneProcess, OrphanInv, NEW p \in Process,
         CheckNames(p) \/ ResolveBase(p) \/ AddWorktree(p) \/ InitSubmodules(p)
  PROVE  CommandInv' /\ NoSilentOrphan'
<1>1. /\ pc \in [Process -> Labels] /\ slug \in [Process -> Slug] /\ branch \in [Process -> Branch]
      /\ tree \in [Slug -> Branch \cup {None, Broken}]
  BY DEF OrphanInv, StandInv, AloneInv, TypeInv, WorldOK, ArgumentsOK, ControlOK
<1>2. \A q \in Process : q = p
  BY OneProcess DEF OneProcess
<1>3. UNCHANGED <<stack, volumes, history, marker, slug>>
  BY DEF CheckNames, ResolveBase, AddWorktree, InitSubmodules, world, command
<1>4. \A s \in Slug : tree[s] # None => tree'[s] # None
  <2>1. branch[p] # None
    BY <1>1, NoneAssumption
  <2> QED BY <1>1, <2>1 DEF CheckNames, ResolveBase, AddWorktree, InitSubmodules, world, history
<1>5. NoSilentOrphan'
  BY <1>3, <1>4, NothingNew, LeftAlone DEF OrphanInv, StandInv, AloneInv
<1>6. CASE Finish(p)
  BY <1>6, <1>5, EndedCommand DEF OrphanInv, StandInv, AloneInv
<1>7. CASE ~Finish(p)
  <2>1. /\ pc[p] \in Creating \cup {"check"} /\ pc'[p] \in Creating /\ UNCHANGED seen
    BY <1>1, <1>7 DEF CheckNames, ResolveBase, AddWorktree, InitSubmodules, Step, At, Goto, Creating
  <2>2. seen[p] = None
    BY <2>1 DEF OrphanInv, StandInv, AloneInv, CommandInv, SeenStands
  <2>3. pc'[p] \in {"submodules", "marker"} => marker[slug[p]] = None
    <3>1. CASE AddWorktree(p)
      <4>1. tree[slug[p]] = None
        BY <3>1, <1>7 DEF AddWorktree
      <4> QED BY <1>1, <4>1 DEF OrphanInv, StandInv, AloneInv, Held
    <3>2. CASE InitSubmodules(p)
      <4>1. pc[p] = "submodules"
        BY <3>2, <1>7 DEF InitSubmodules, Step, At
      <4> QED BY <4>1 DEF OrphanInv, StandInv, AloneInv, CommandInv, NothingLost
    <3>3. CASE CheckNames(p) \/ ResolveBase(p)
      BY <1>1, <1>7, <3>3 DEF CheckNames, ResolveBase, Step, Goto
    <3> QED BY <3>1, <3>2, <3>3
  <2>4. CommandInv'
    BY <1>2, <1>3, <2>1, <2>2, <2>3 DEF CommandInv, NothingLost, WipedIsGone, Creating
  <2> QED BY <1>5, <2>4
<1> QED BY <1>6, <1>7

LEMMA WriteReach ==
  ASSUME OneProcess, OrphanInv, NEW p \in Process, WriteMarker(p)
  PROVE  CommandInv' /\ NoSilentOrphan'
<1> DEFINE s == slug[p]
           o == [project |-> ComposeOf[<<s, env[p]>>], origin |-> OriginOf[<<s, env[p]>>],
                 branch |-> branch[p], base |-> base[p]]
<1>1. /\ pc \in [Process -> Labels] /\ slug \in [Process -> Slug]
      /\ marker \in [Slug -> Overlay \cup {None, Broken}]
  BY DEF OrphanInv, StandInv, AloneInv, TypeInv, WorldOK, ArgumentsOK, ControlOK
<1>2. \A q \in Process : q = p
  BY OneProcess DEF OneProcess
<1>3. pc[p] = "marker"
  BY DEF WriteMarker, At
<1>4. marker[s] = None /\ seen[p] = None
  BY <1>3 DEF OrphanInv, StandInv, AloneInv, CommandInv, NothingLost, SeenStands, Creating
<1>5. CommandInv'
  <2>1. CASE Finish(p)
    BY <2>1, EndedCommand DEF OrphanInv, StandInv, AloneInv
  <2>2. CASE ~Finish(p)
    <3>1. Goto(p, "load") /\ UNCHANGED seen
      BY <2>2 DEF WriteMarker, NextPhase
    <3> QED BY <1>1, <1>2, <1>4, <3>1
            DEF Goto, CommandInv, NothingLost, WipedIsGone
  <2> QED BY <2>1, <2>2
<1>6. \A t \in Slug : Valid(t) => t # s
  BY <1>4 DEF Valid
<1>7. UNCHANGED <<stack, volumes, tree>>
  BY DEF WriteMarker
<1>8. CASE UNCHANGED <<marker, history>>
  BY <1>5, <1>7, <1>8, NothingNew, LeftAlone DEF OrphanInv, StandInv, AloneInv
<1>9. CASE ~UNCHANGED <<marker, history>>
  <2>1. /\ tree[s] # None
        /\ \/ /\ marker' = [marker EXCEPT ![s] = o]
              /\ told' = Without(told, o.project) /\ unsaid' = Without(unsaid, o.project)
           \/ marker' = [marker EXCEPT ![s] = Broken] /\ UNCHANGED history
    BY <1>9 DEF WriteMarker
  <2>2. o.project = ComposeOf[<<s, env[p]>>] /\ o.project \in Project /\ o \notin {None, Broken}
    <3>1. o \in Overlay
      <4>1. /\ slug[p] \in Slug /\ env[p] \in Env /\ branch[p] \in Branch
            /\ base[p] \in Commit \cup {None}
        BY DEF OrphanInv, StandInv, AloneInv, TypeInv, ArgumentsOK, ControlOK
      <4>2. ComposeOf[<<s, env[p]>>] \in Project /\ OriginOf[<<s, env[p]>>] \in Origin
        BY <4>1, NamesAssumption
      <4> QED BY <4>1, <4>2 DEF Overlay
    <3>2. o.project \in Project
      BY <3>1 DEF Overlay
    <3> QED BY <3>1, <3>2, NoneAssumption
  <2> HIDE DEF o
  <2>3. s \in Slug /\ stack \subseteq Project /\ volumes \subseteq Project
    BY <1>1 DEF OrphanInv, StandInv, AloneInv, TypeInv, WorldOK
  <2>4. \A t \in Slug, q \in Project : Names(t, q) => Names(t, q)'
    BY <1>1, <1>6, <1>7, <2>1 DEF Names, Valid
  <2>5. \A q \in Project : Named(q) => Named(q)'
    BY <2>4 DEF Named
  <2>6. CASE marker' = [marker EXCEPT ![s] = Broken] /\ UNCHANGED history
    <3>1. NoSilentOrphan'
      BY <1>7, <2>3, <2>5, <2>6 DEF OrphanInv, NoSilentOrphan, history
    <3> QED BY <1>5, <3>1
  <2>7. CASE /\ marker' = [marker EXCEPT ![s] = o]
             /\ told' = Without(told, o.project) /\ unsaid' = Without(unsaid, o.project)
    <3>1. PICK t \in Slug : t = s
      BY <2>3
    <3>2. tree'[t] # None /\ marker'[t] = o
      <4> HIDE DEF s
      <4> QED BY <1>1, <1>7, <2>1, <2>7, <3>1
    <3>3. PICK q \in Project : q = o.project
      BY <2>2
    <3>4. Names(t, q)'
      BY <2>2, <3>2, <3>3 DEF Names, Valid
    <3>5. Named(q)'
      BY <3>4 DEF Named
    <3>6. /\ told'.stack = told.stack \ {q} /\ told'.volumes = told.volumes \ {q}
          /\ unsaid'.stack = unsaid.stack \ {q} /\ unsaid'.volumes = unsaid.volumes \ {q}
      BY <2>7, <3>3 DEF Without
    <3>7. NoSilentOrphan'
      BY <1>7, <2>3, <2>5, <3>5, <3>6 DEF OrphanInv, NoSilentOrphan
    <3> QED BY <1>5, <3>7
  <2> QED BY <2>1, <2>6, <2>7
<1> QED BY <1>8, <1>9

\* up and seed, down: what is read is the marker, and Docker gets what it names
LEMMA LoadReach ==
  ASSUME OneProcess, OrphanInv, NEW p \in Process, NEW from, NEW to \in Labels,
         to \notin Creating \cup {"gitRemove"},
         LoadOverlay(p, from, to), UNCHANGED <<marker, slug>>
  PROVE  CommandInv' /\ (seen'[p] # None => seen'[p] = marker[slug[p]] /\ seen'[p] \in Overlay)
<1>1. /\ pc \in [Process -> Labels] /\ slug \in [Process -> Slug]
      /\ seen \in [Process -> Overlay \cup {None}] /\ marker \in [Slug -> Overlay \cup {None, Broken}]
  BY DEF OrphanInv, StandInv, AloneInv, TypeInv, WorldOK, ArgumentsOK, ControlOK
<1>2. CASE Finish(p)
  BY <1>1, <1>2, EndedCommand DEF OrphanInv, StandInv, AloneInv, Finish
<1>3. CASE ~Finish(p)
  <2>1. /\ Valid(slug[p]) /\ pc' = [pc EXCEPT ![p] = to]
        /\ seen' = [seen EXCEPT ![p] = marker[slug[p]]]
    BY <1>3 DEF LoadOverlay, Goto
  <2>2. seen'[p] = marker[slug[p]] /\ pc'[p] = to /\ marker[slug[p]] \in Overlay
    BY <1>1, <2>1 DEF Valid
  <2>3. \A q \in Process : q = p
    BY OneProcess DEF OneProcess
  <2>4. CommandInv'
    BY <2>2, <2>3, NoneAssumption DEF CommandInv, NothingLost, WipedIsGone, Creating
  <2> QED BY <2>2, <2>4
<1> QED BY <1>2, <1>3

LEMMA PrepareReach ==
  ASSUME OneProcess, OrphanInv, NEW p \in Process, Load(p) \/ Prepare(p) \/ DownLoad(p)
  PROVE  CommandInv' /\ NoSilentOrphan'
<1>1. UNCHANGED <<marker, slug, tree, history, stack>>
  BY DEF Load, Prepare, DownLoad, world, command
<1>2. CASE Load(p) \/ DownLoad(p)
  <2>1. CommandInv'
    BY <1>1, <1>2, LoadReach DEF Load, DownLoad, Labels, Creating
  <2>2. NoSilentOrphan'
    BY <1>2, NothingNew, LeftAlone DEF OrphanInv, StandInv, AloneInv, Load, DownLoad, world
  <2> QED BY <2>1, <2>2
<1>3. CASE Prepare(p)
  <2>1. CASE Finish(p) /\ UNCHANGED volumes
    BY <1>1, <2>1, EndedCommand, NothingNew, LeftAlone DEF OrphanInv, StandInv, AloneInv
  <2>2. CASE ~(Finish(p) /\ UNCHANGED volumes)
    <3>1. /\ LoadOverlay(p, "prepare", IF Phase(p) = "up" THEN "route" ELSE "compose")
          /\ volumes' = IF seen'[p] = None THEN volumes ELSE volumes \cup {seen'[p].project}
      BY <1>3, <2>2 DEF Prepare
    <3>2. (IF Phase(p) = "up" THEN "route" ELSE "compose") \in {"route", "compose"}
      OBVIOUS
    <3>3. /\ CommandInv'
          /\ seen'[p] # None => seen'[p] = marker[slug[p]] /\ seen'[p] \in Overlay
      BY <1>1, <3>1, <3>2, LoadReach DEF Labels, Creating
    <3>4. CASE seen'[p] = None
      BY <1>1, <3>1, <3>3, <3>4, NothingNew, LeftAlone DEF OrphanInv, StandInv, AloneInv
    <3>5. CASE seen'[p] # None
      <4>1. stack' = stack /\ volumes' = volumes \cup {seen'[p].project}
        BY <1>1, <3>1, <3>5
      <4> DEFINE o == seen'[p]
      <4>2. marker[slug[p]] = o /\ o \in Overlay
        BY <3>3, <3>5
      <4>3. stack' \subseteq stack \cup {o.project} /\ volumes' \subseteq volumes \cup {o.project}
        BY <4>1
      <4> HIDE DEF o
      <4>4. NoSilentOrphan'
        BY <1>1, <4>2, <4>3, NewIsNamed
      <4> QED BY <3>3, <4>4
    <3> QED BY <3>4, <3>5
  <2> QED BY <2>1, <2>2
<1> QED BY <1>2, <1>3

LEMMA UpReach ==
  ASSUME OneProcess, OrphanInv, NEW p \in Process,
         RegisterSite(p) \/ StartCompose(p) \/ ComposeUp(p) \/ DownCompose(p) \/ Unroute(p)
  PROVE  CommandInv' /\ NoSilentOrphan'
<1>1. UNCHANGED <<marker, slug, tree, history, volumes>>
  BY DEF RegisterSite, StartCompose, ComposeUp, DownCompose, Unroute, world, command
<1>2. CommandInv'
  <2>1. CASE Finish(p)
    BY <2>1, EndedCommand DEF OrphanInv, StandInv, AloneInv
  <2>2. CASE ~Finish(p)
    <3>1. /\ UNCHANGED seen
          /\ \E l \in {"compose", "composing", "load", "unroute"} : Goto(p, l)
      BY <2>2 DEF RegisterSite, StartCompose, ComposeUp, DownCompose, Unroute, NextPhase, Step, At
    <3> QED BY <1>1, <3>1, OnTheWay DEF OrphanInv, StandInv, AloneInv, Labels, Creating
  <2> QED BY <2>1, <2>2
<1>3. CASE ComposeUp(p)
  <2>1. seen[p] # None /\ seen[p] \in Overlay
    BY <1>3 DEF OrphanInv, StandInv, AloneInv, TypeInv, ControlOK, SeenOK, Loaded, ComposeUp, At
  <2>2. marker[slug[p]] = seen[p]
    BY <1>3, <2>1 DEF OrphanInv, StandInv, AloneInv, CommandInv, SeenStands, ComposeUp, At
  <2>3. /\ stack' \subseteq stack \cup {seen[p].project}
        /\ volumes' \subseteq volumes \cup {seen[p].project}
    BY <1>1, <1>3 DEF ComposeUp
  <2> QED BY <1>1, <1>2, <2>1, <2>2, <2>3, NewIsNamed
<1>4. CASE ~ComposeUp(p)
  <2>1. stack' \subseteq stack
    BY <1>4 DEF RegisterSite, StartCompose, DownCompose, Unroute, world
  <2> QED BY <1>1, <1>2, <2>1, NothingNew, LeftAlone DEF OrphanInv, StandInv, AloneInv
<1> QED BY <1>3, <1>4

\* remove, up to git's part
LEMMA RemoveReach ==
  ASSUME OneProcess, FlagsApart, OrphanInv, NEW p \in Process,
         RemoveLoad(p) \/ Teardown(p) \/ WipeVolumes(p)
  PROVE  CommandInv' /\ NoSilentOrphan'
<1>1. /\ pc \in [Process -> Labels] /\ slug \in [Process -> Slug] /\ mode \in [Process -> Modes]
      /\ seen \in [Process -> Overlay \cup {None}] /\ marker \in [Slug -> Overlay \cup {None, Broken}]
  BY DEF OrphanInv, StandInv, AloneInv, TypeInv, WorldOK, ArgumentsOK, ControlOK
<1>2. UNCHANGED <<marker, slug, tree, history, mode>>
  BY DEF RemoveLoad, Teardown, WipeVolumes, world, command
<1>3. stack' \subseteq stack /\ volumes' \subseteq volumes
  BY DEF RemoveLoad, Teardown, WipeVolumes, world
<1>4. NoSilentOrphan'
  BY <1>2, <1>3, NothingNew, LeftAlone DEF OrphanInv, StandInv, AloneInv
<1>5. \A q \in Process : q = p
  BY OneProcess DEF OneProcess
<1>6. CASE Finish(p)
  BY <1>4, <1>6, EndedCommand DEF OrphanInv, StandInv, AloneInv
<1>7. CASE RemoveLoad(p) /\ ~Finish(p)
  <2>1. /\ marker[slug[p]] # Broken /\ seen' = [seen EXCEPT ![p] = marker[slug[p]]]
        /\ pc' = [pc EXCEPT ![p] = IF marker[slug[p]] = None \/ mode[p].keep
                                   THEN "gitRemove" ELSE "teardown"]
    BY <1>7 DEF RemoveLoad, Goto
  <2>2. /\ seen'[p] = marker[slug[p]] /\ pc'[p] \in {"gitRemove", "teardown"}
        /\ pc'[p] = "gitRemove" => marker[slug[p]] = None \/ mode[p].keep
    BY <1>1, <2>1
  <2>3. ~(mode[p].wipe /\ mode[p].keep)
    <3>1. mode[p] \in RemoveModes \cup {Plain}
      BY <1>1 DEF Modes
    <3> QED BY <3>1, FlagsApart DEF FlagsApart, Plain
  <2>4. NothingLost'
    BY <1>2, <1>5, <2>2 DEF NothingLost
  <2>5. WipedIsGone'
    BY <1>2, <1>5, <2>2, <2>3 DEF WipedIsGone
  <2> QED BY <1>4, <2>4, <2>5 DEF CommandInv
<1>8. CASE (Teardown(p) \/ WipeVolumes(p)) /\ ~Finish(p)
  <2>1. /\ pc[p] \in {"teardown", "wipe"} /\ UNCHANGED seen /\ pc'[p] \in {"wipe", "gitRemove"}
        /\ pc'[p] = "gitRemove" /\ mode[p].wipe => WipeVolumes(p)
        /\ Teardown(p) => stack' = stack \ {seen[p].project}
    BY <1>1, <1>8 DEF Teardown, WipeVolumes, Step, At, Goto
  <2>2. seen[p] # None
    BY <2>1 DEF OrphanInv, StandInv, AloneInv, TypeInv, ControlOK, SeenOK, Loaded
  <2>3. NothingLost'
    BY <1>2, <1>5, <2>1, <2>2 DEF NothingLost
  <2>4. WipeVolumes(p) => seen[p].project \notin stack' \cup volumes'
    BY <1>8 DEF WipeVolumes
  <2>5. seen[p].project \notin stack'
    BY <1>8, <2>1, <2>4
  <2>6. WipedIsGone'
    BY <1>2, <1>5, <2>1, <2>4, <2>5 DEF WipedIsGone
  <2> QED BY <1>4, <2>3, <2>6 DEF CommandInv
<1> QED BY <1>6, <1>7, <1>8

LEMMA GitReach ==
  ASSUME OneProcess, FlagsApart, OrphanInv, NEW p \in Process, GitRemove(p)
  PROVE  CommandInv' /\ NoSilentOrphan'
<1> DEFINE s == slug[p]
<1>1. /\ pc \in [Process -> Labels] /\ slug \in [Process -> Slug]
      /\ seen \in [Process -> Overlay \cup {None}] /\ mode \in [Process -> Modes]
      /\ tree \in [Slug -> Branch \cup {None, Broken}]
      /\ marker \in [Slug -> Overlay \cup {None, Broken}] /\ told \in LeftBehind /\ unsaid \in LeftBehind
  BY DEF OrphanInv, StandInv, AloneInv, TypeInv, WorldOK, ArgumentsOK, ControlOK
<1>2. \A q \in Process : q = p
  BY OneProcess DEF OneProcess
<1>3. pc[p] = "gitRemove" /\ UNCHANGED <<stack, volumes, told>>
  BY DEF GitRemove, Step, At
<1>4. CommandInv'
  <2>1. CASE Finish(p)
    BY <2>1, EndedCommand DEF OrphanInv, StandInv, AloneInv
  <2>2. CASE ~Finish(p)
    <3>1. pc'[p] = "report"
      BY <1>1, <2>2 DEF GitRemove, Step, Goto
    <3> QED BY <1>2, <3>1 DEF CommandInv, NothingLost, WipedIsGone, Creating
  <2> QED BY <2>1, <2>2
<1>5. /\ \A t \in Slug \ {s} : tree'[t] = tree[t] /\ marker'[t] = marker[t]
      /\ marker'[s] # None => UNCHANGED marker /\ (tree[s] # None => tree'[s] # None)
  <2>1. Broken # None
    BY NoneAssumption
  <2> QED BY <1>1, <2>1 DEF GitRemove
<1>6. CASE marker'[s] # None
  <2>1. \A t \in Slug : tree[t] # None => tree'[t] # None
    BY <1>5, <1>6
  <2>2. UNCHANGED <<marker, history>>
    BY <1>3, <1>5, <1>6 DEF GitRemove, history
  <2> QED BY <1>3, <1>4, <2>1, <2>2, NothingNew, LeftAlone DEF OrphanInv
<1>7. CASE marker'[s] = None
  <2>1. unsaid' = With(unsaid, Reports(p))
    BY <1>7 DEF GitRemove
  <2>2. /\ unsaid'.stack = unsaid.stack \cup Reports(p).stack
        /\ unsaid'.volumes = unsaid.volumes \cup Reports(p).volumes
    BY <2>1 DEF With
  <2>3. \A t \in Slug \ {s} : \A q : Names(t, q) => Names(t, q)'
    BY <1>5 DEF Names, Valid
  <2>4. CASE seen[p] = None
    <3>1. \A q : ~Names(s, q)
      BY <1>3, <2>4 DEF OrphanInv, CommandInv, NothingLost, Names, Valid
    <3>2. \A q : Named(q) => Named(q)'
      BY <2>3, <3>1 DEF Named
    <3> QED BY <1>3, <1>4, <2>2, <3>2 DEF OrphanInv, NoSilentOrphan
  <2>5. CASE seen[p] # None
    <3>1. marker[s] = seen[p]
      BY <1>3, <2>5 DEF OrphanInv, StandInv, SeenStands
    <3>2. \A q : Names(s, q) => q = seen[p].project
      BY <3>1 DEF Names
    <3>3. \A q : Named(q) => Named(q)' \/ q = seen[p].project
      BY <2>3, <3>2 DEF Named
    <3>4. ~(mode[p].wipe /\ mode[p].keep)
      <4>1. mode[p] \in RemoveModes \cup {Plain}
        BY <1>1 DEF Modes
      <4> QED BY <4>1, FlagsApart DEF FlagsApart, Plain
    <3>5. /\ ~mode[p].keep => seen[p].project \notin stack
          /\ mode[p].wipe => seen[p].project \notin volumes
      BY <1>3, <2>5 DEF OrphanInv, CommandInv, WipedIsGone
    <3>6. /\ ~mode[p].wipe => seen[p].project \in Reports(p).volumes
          /\ mode[p].keep => seen[p].project \in Reports(p).stack
      BY <2>5, <3>4 DEF Reports
    <3> QED BY <1>3, <1>4, <2>2, <3>3, <3>5, <3>6 DEF OrphanInv, NoSilentOrphan
  <2> QED BY <2>4, <2>5
<1> QED BY <1>6, <1>7

\* The report, and the hook's branch
LEMMA ReportReach ==
  ASSUME OneProcess, OrphanInv, NEW p \in Process, Report(p) \/ DeleteBranch(p)
  PROVE  CommandInv' /\ NoSilentOrphan'
<1>1. \A q \in Process : q = p
  BY OneProcess DEF OneProcess
<1>2. UNCHANGED <<stack, volumes, tree, marker>>
  BY DEF Report, DeleteBranch
<1>3. LeftKept
  BY DEF Report, DeleteBranch, With, LeftKept, history
<1>4. CommandInv'
  <2>1. CASE Finish(p)
    BY <2>1, EndedCommand DEF OrphanInv, StandInv, AloneInv
  <2>2. CASE ~Finish(p)
    <3>1. pc'[p] = "branchDelete"
      BY <2>2 DEF Report, DeleteBranch, Step, Goto, OrphanInv, StandInv, TypeInv, ControlOK
    <3> QED BY <1>1, <3>1 DEF CommandInv, NothingLost, WipedIsGone
  <2> QED BY <2>1, <2>2
<1> QED BY <1>2, <1>3, <1>4, NothingNew DEF OrphanInv

LEMMA NextReach ==
  ASSUME OneProcess, FlagsApart, OrphanInv, [Next]_vars
  PROVE  CommandInv' /\ NoSilentOrphan'
<1>1. CASE RefMoves \/ UNCHANGED vars
  <2>1. UNCHANGED <<tree, marker, stack, volumes, history, pc, seen, slug, mode>>
    BY <1>1 DEF RefMoves, vars, command
  <2>2. CommandInv'
    BY <2>1 DEF OrphanInv, StandInv, AloneInv, CommandInv, NothingLost, WipedIsGone
  <2> QED BY <2>1, <2>2, NothingNew, LeftAlone DEF OrphanInv
<1>2. ASSUME NEW p \in Process, Begin(p) \/ Proceed(p) \/ Killed(p)
      PROVE  CommandInv' /\ NoSilentOrphan'
  <2>1. CASE Begin(p) \/ Killed(p)
    BY <2>1, BeginReach, KilledReach
  <2>2. CASE Proceed(p)
    BY <2>2, CreateReach, WriteReach, PrepareReach, UpReach, RemoveReach, GitReach,
       ReportReach DEF Proceed
  <2> QED BY <1>2, <2>1, <2>2
<1> QED BY <1>1, <1>2 DEF Next

\* Commands run one at a time, killed anywhere (also in the middle of git's removal and
\* before a remove's report), leave no containers or volumes without a readable marker, but
\* for those that a remove was told to leave and has said or was about to say that it left,
\* if no remove is given --wipe and --keep-stack together: it would remove no volume and,
\* for the sake of --wipe, not say so.
THEOREM AloneOrphans == ASSUME OneProcess, FlagsApart PROVE Spec => []NoSilentOrphan
<1>1. Init => CommandInv /\ NoSilentOrphan
  BY DEF Init, CommandInv, NothingLost, WipedIsGone, NoSilentOrphan, Named
<1>2. StandInv /\ CommandInv /\ NoSilentOrphan /\ [Next]_vars => (CommandInv /\ NoSilentOrphan)'
  BY NextReach, OneProcess, FlagsApart DEF OrphanInv
<1> QED BY <1>1, <1>2, StandsHold, OneProcess, PTL DEF Spec

=============================================================================
