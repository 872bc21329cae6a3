-------------------------- MODULE LocalProxyProofs --------------------------
(***************************************************************************)
(* What holds of LocalProxy for every set of processes, environments,      *)
(* upstreams and LAN addresses.                                            *)
(***************************************************************************)
EXTENDS LocalProxy, TLAPS

-----------------------------------------------------------------------------
(* Moving a process keeps the types of everything that is a command's own. *)

\* An ordinary step of a command.
LEMMA StepControl ==
  ASSUME TypeOK, NEW p \in Process, NEW from, NEW to \in Labels, Step(p, from, to)
  PROVE  ControlOK'
BY DEF TypeOK, ControlOK, Step, Goto

\* The end of a command.
LEMMA FinishControl ==
  ASSUME TypeOK, NEW p \in Process, NEW how \in {"ok", "noted", "failed"},
         Finish(p, how), excused' \subseteq Env
  PROVE  ControlOK'
BY DEF TypeOK, ControlOK, Finish, Goto, Labels

\* A proxy error.
LEMMA AbandonControl ==
  ASSUME TypeOK, NEW p \in Process, Abandon(p)
  PROVE  ControlOK'
<1>1. CASE cmd[p] = "transfer"
  BY <1>1 DEF TypeOK, ControlOK, CommandOK, Abandon, Goto, Labels
<1>2. CASE cmd[p] # "transfer"
  BY <1>2, FinishControl DEF TypeOK, ControlOK, Abandon
<1> QED BY <1>1, <1>2

\* The proxy is ready.
LEMMA EnsuredControl ==
  ASSUME TypeOK, NEW p \in Process, Ensured(p), UNCHANGED excused
  PROVE  ControlOK'
<1>1. CASE Syncs(p)
  BY <1>1 DEF TypeOK, ControlOK, Ensured, Goto, Labels
<1>2. CASE ~Syncs(p)
  BY <1>2, FinishControl DEF TypeOK, ControlOK, Ensured
<1> QED BY <1>1, <1>2

-----------------------------------------------------------------------------
\* Every variable keeps its type (the state local_proxy.py and Docker hold).
THEOREM TypeCorrect == Spec => []TypeOK
<1>1. Init => TypeOK
  <2> SUFFICES ASSUME Init PROVE TypeOK
    OBVIOUS
  <2>1. EngineOK
    BY DEF Init, EngineOK
  <2>2. CommandOK
    BY DEF Init, CommandOK, Commands
  <2>3. ControlOK
    BY DEF Init, ControlOK, Labels
  <2> QED BY <2>1, <2>2, <2>3 DEF TypeOK
<1>2. TypeOK /\ [Next]_vars => TypeOK'
  <2> SUFFICES ASSUME TypeOK, [Next]_vars PROVE TypeOK'
    OBVIOUS
  <2>a. EngineOK /\ CommandOK /\ ControlOK
    BY DEF TypeOK
  <2>q. ASSUME Quiet, network' \in BOOLEAN, attached' \in BOOLEAN,
               stale' \in BOOLEAN, routes' \subseteq Route,
               proxy' \in {"absent", "exited", "starting", "serving"}
        PROVE  EngineOK' /\ CommandOK'
    BY <2>a, <2>q DEF Quiet, command, EngineOK, CommandOK
  <2>1. ASSUME NEW p \in Process, NEW c \in Commands, NEW e \in Env,
               NEW d \in Upstream, Begin(p, c, e, d)
        PROVE  TypeOK'
    <3>1. IdsOf(e, lan) \subseteq Id
      BY <2>a DEF IdsOf, Id, Ip, EngineOK
    <3>2. EngineOK' /\ CommandOK'
      <4>1. /\ cmd' = [cmd EXCEPT ![p] = c] /\ env' = [env EXCEPT ![p] = e]
            /\ dial' = [dial EXCEPT ![p] = d] /\ skipped' = [skipped EXCEPT ![p] = {}]
            /\ \E ids \in {IdsOf(e, lan), {}} : found' = [found EXCEPT ![p] = ids]
            /\ UNCHANGED <<engine, lan, stack, raced>>
        BY <2>1 DEF Begin
      <4>2. EngineOK'
        BY <4>1, <2>a DEF engine, EngineOK
      <4>3. CommandOK'
        BY <4>1, <2>a, <3>1 DEF CommandOK
      <4> QED BY <4>2, <4>3
    <3>3. ControlOK'
      BY <2>1, <2>a, <3>1, <3>2 DEF Begin, Goto, ControlOK, CommandOK, Labels
    <3> QED BY <3>2, <3>3 DEF TypeOK
  <2>2. ASSUME NEW p \in Process, CheckEndpoint(p) PROVE TypeOK'
    <3>1. EngineOK' /\ CommandOK'
      BY <2>2, <2>a, <2>q DEF CheckEndpoint, engine, EngineOK, ForgetRoutes
    <3>2. ControlOK'
      BY <2>2, StepControl, AbandonControl DEF CheckEndpoint, Fails, Labels
    <3> QED BY <3>1, <3>2 DEF TypeOK
  <2>3. ASSUME NEW p \in Process, EnsureNetwork(p) PROVE TypeOK'
    <3>1. EngineOK' /\ CommandOK'
      BY <2>3, <2>a, <2>q DEF EnsureNetwork, engine, EngineOK, ForgetRoutes
    <3>2. ControlOK'
      BY <2>3, StepControl, AbandonControl DEF EnsureNetwork, Fails, Labels
    <3> QED BY <3>1, <3>2 DEF TypeOK
  <2>4. ASSUME NEW p \in Process, Probe(p) PROVE TypeOK'
    <3>1. EngineOK' /\ CommandOK'
      BY <2>4, <2>a, <2>q DEF Probe, engine, EngineOK, ForgetRoutes
    <3>2. ControlOK'
      BY <2>4, StepControl, AbandonControl DEF Probe, Fails, Labels
    <3> QED BY <3>1, <3>2 DEF TypeOK
  <2>5. ASSUME NEW p \in Process, Exists(p) PROVE TypeOK'
    <3>1. EngineOK' /\ CommandOK'
      BY <2>5, <2>a, <2>q DEF Exists, engine, EngineOK, ForgetRoutes
    <3>2. ControlOK'
      BY <2>5, StepControl, AbandonControl DEF Exists, Fails, Labels
    <3> QED BY <3>1, <3>2 DEF TypeOK
  <2>6. ASSUME NEW p \in Process, InspectMount(p) PROVE TypeOK'
    <3>1. EngineOK' /\ CommandOK'
      BY <2>6, <2>a, <2>q DEF InspectMount, engine, EngineOK, ForgetRoutes
    <3>2. ControlOK'
      BY <2>6, StepControl, AbandonControl DEF InspectMount, Fails, Labels
    <3> QED BY <3>1, <3>2 DEF TypeOK
  <2>7. ASSUME NEW p \in Process, RemoveStale(p) PROVE TypeOK'
    <3>1. EngineOK' /\ CommandOK'
      BY <2>7, <2>a, <2>q DEF RemoveStale, engine, EngineOK, ForgetRoutes
    <3>2. ControlOK'
      BY <2>7, <2>a, AbandonControl DEF RemoveStale, Goto, ForgetRoutes, ControlOK, Labels
    <3> QED BY <3>1, <3>2 DEF TypeOK
  <2>8. ASSUME NEW p \in Process, StartExisting(p) PROVE TypeOK'
    <3>1. EngineOK' /\ CommandOK'
      BY <2>8, <2>a, <2>q DEF StartExisting, engine, EngineOK, ForgetRoutes
    <3>2. ControlOK'
      BY <2>8, StepControl, AbandonControl DEF StartExisting, Fails, Labels
    <3> QED BY <3>1, <3>2 DEF TypeOK
  <2>9. ASSUME NEW p \in Process, RunNew(p) PROVE TypeOK'
    <3>1. EngineOK' /\ CommandOK'
      BY <2>9, <2>a, <2>q DEF RunNew, engine, EngineOK, ForgetRoutes
    <3>2. ControlOK'
      BY <2>9, StepControl, AbandonControl DEF RunNew, Fails, Labels
    <3> QED BY <3>1, <3>2 DEF TypeOK
  <2>10. ASSUME NEW p \in Process, Settle(p) PROVE TypeOK'
    <3>1. EngineOK' /\ CommandOK'
      BY <2>10, <2>a, <2>q DEF Settle, engine, EngineOK, ForgetRoutes
    <3>2. ControlOK'
      BY <2>10, StepControl, AbandonControl, EnsuredControl DEF Settle, Fails, Labels
    <3> QED BY <3>1, <3>2 DEF TypeOK
  <2>11. ASSUME NEW p \in Process, Attach(p) PROVE TypeOK'
    <3>1. EngineOK' /\ CommandOK'
      BY <2>11, <2>a, <2>q DEF Attach, engine, EngineOK, ForgetRoutes
    <3>2. ControlOK'
      BY <2>11, AbandonControl, EnsuredControl DEF Attach
    <3> QED BY <3>1, <3>2 DEF TypeOK
  <2>12. ASSUME NEW p \in Process, WaitAdmin(p) PROVE TypeOK'
    <3>1. EngineOK' /\ CommandOK'
      BY <2>12, <2>a, <2>q DEF WaitAdmin, engine, EngineOK, ForgetRoutes
    <3>2. ControlOK'
      BY <2>12, StepControl, AbandonControl DEF WaitAdmin, Fails, Labels
    <3> QED BY <3>1, <3>2 DEF TypeOK
  <2>13. ASSUME NEW p \in Process, ReadServer(p) PROVE TypeOK'
    <3>1. EngineOK' /\ CommandOK'
      BY <2>13, <2>a, <2>q DEF ReadServer, engine, EngineOK, ForgetRoutes
    <3>2. ControlOK'
      BY <2>13, <2>a, AbandonControl DEF ReadServer, Goto, ControlOK, EngineOK, Labels
    <3> QED BY <3>1, <3>2 DEF TypeOK
  <2>14. ASSUME NEW p \in Process, PatchServer(p) PROVE TypeOK'
    <3>1. CommandOK'
      BY <2>14, <2>a DEF PatchServer, command, CommandOK
    <3>2. PICK i \in todo[p] :
            LET r == [id |-> i, dial |-> dial[p]] IN
            \/ routes' = Merged(snap[p], r)
            \/ UNCHANGED routes
      BY <2>14 DEF PatchServer
    <3>3. routes' \subseteq Route
      BY <2>a, <3>2 DEF ControlOK, CommandOK, EngineOK, Merged, Without, Route
    <3>4. raced' \in BOOLEAN
      BY <2>14, <2>a DEF PatchServer, EngineOK
    <3>5. EngineOK'
      BY <2>14, <2>a, <3>3, <3>4 DEF PatchServer, EngineOK
    <3>6. ControlOK'
      BY <2>14, <2>a, AbandonControl DEF PatchServer, Goto, ControlOK, Labels
    <3> QED BY <3>1, <3>5, <3>6 DEF TypeOK
  <2>15. ASSUME NEW p \in Process, ComposeUp(p) PROVE TypeOK'
    <3>1. CommandOK'
      BY <2>15, <2>a DEF ComposeUp, command, CommandOK
    <3>2. EngineOK'
      BY <2>15, <2>a DEF ComposeUp, engine, EngineOK
    <3>3. ControlOK'
      BY <2>15, <2>a, FinishControl DEF ComposeUp, ControlOK
    <3> QED BY <3>1, <3>2, <3>3 DEF TypeOK
  <2>16. ASSUME NEW p \in Process, ComposeDown(p) PROVE TypeOK'
    <3>1. IdsOf(env[p], lan) \subseteq Id
      BY <2>a DEF IdsOf, Id, Ip, EngineOK, CommandOK
    <3>2. CommandOK'
      BY <2>16, <2>a DEF ComposeDown, command, CommandOK
    <3>3. EngineOK'
      BY <2>16, <2>a DEF ComposeDown, engine, EngineOK
    <3>4. ControlOK'
      BY <2>16, <2>a, <3>1, FinishControl DEF ComposeDown, Goto, ControlOK, Labels
    <3> QED BY <3>2, <3>3, <3>4 DEF TypeOK
  <2>17. ASSUME NEW p \in Process, Unroute(p) PROVE TypeOK'
    <3>1. CommandOK'
      <4>1. PICK i \in todo[p] :
              skipped' \in {skipped, [skipped EXCEPT ![p] = @ \cup {i}], [skipped EXCEPT ![p] = @]}
        BY <2>17 DEF Unroute
      <4>2. i \in Id
        BY <4>1, <2>a DEF ControlOK
      <4>3. skipped' \in [Process -> SUBSET Id]
        BY <4>1, <4>2, <2>a DEF CommandOK
      <4> QED BY <2>17, <2>a, <4>3 DEF Unroute, command, CommandOK
    <3>2. EngineOK'
      BY <2>17, <2>a DEF Unroute, EngineOK, Without
    <3>3. ControlOK'
      BY <2>17, <2>a DEF Unroute, ControlOK
    <3> QED BY <3>1, <3>2, <3>3 DEF TypeOK
  <2>18. ASSUME NEW p \in Process, Unrouted(p) PROVE TypeOK'
    <3>1. EngineOK' /\ CommandOK'
      BY <2>18, <2>a, <2>q DEF Unrouted, engine, EngineOK, ForgetRoutes
    <3>2. ControlOK'
      BY <2>18, <2>a, FinishControl DEF Unrouted, ControlOK
    <3> QED BY <3>1, <3>2 DEF TypeOK
  <2>19. ASSUME NEW p \in Process, StopCheck(p) PROVE TypeOK'
    <3>1. EngineOK' /\ CommandOK'
      BY <2>19, <2>a, <2>q DEF StopCheck, engine, EngineOK, ForgetRoutes
    <3>2. ControlOK'
      BY <2>19, <2>a, StepControl, FinishControl DEF StopCheck, ControlOK, Labels
    <3> QED BY <3>1, <3>2 DEF TypeOK
  <2>20. ASSUME NEW p \in Process, StopRemove(p) PROVE TypeOK'
    <3>1. EngineOK' /\ CommandOK'
      BY <2>20, <2>a, <2>q DEF StopRemove, engine, EngineOK, ForgetRoutes
    <3>2. ControlOK'
      BY <2>20, <2>a, FinishControl DEF StopRemove, ForgetRoutes, ControlOK
    <3> QED BY <3>1, <3>2 DEF TypeOK
  <2>21. CASE BecomesReady
    BY <2>21, <2>a DEF BecomesReady, command, engine, ForgetRoutes, TypeOK,
                     EngineOK, CommandOK, ControlOK
  <2>22. CASE Exits
    BY <2>22, <2>a DEF Exits, command, engine, ForgetRoutes, TypeOK,
                     EngineOK, CommandOK, ControlOK
  <2>23. CASE InstallVanishes
    BY <2>23, <2>a DEF InstallVanishes, command, engine, ForgetRoutes, TypeOK,
                     EngineOK, CommandOK, ControlOK
  <2>24. CASE LanMoves
    BY <2>24, <2>a DEF LanMoves, command, engine, ForgetRoutes, TypeOK,
                     EngineOK, CommandOK, ControlOK
  <2>25. CASE UNCHANGED vars
    BY <2>25, <2>a DEF vars, TypeOK, EngineOK, CommandOK, ControlOK
  <2> QED
    BY <2>1, <2>2, <2>3, <2>4, <2>5, <2>6, <2>7, <2>8, <2>9, <2>10, <2>11, <2>12,
       <2>13, <2>14, <2>15, <2>16, <2>17, <2>18, <2>19, <2>20, <2>21, <2>22, <2>23, <2>24, <2>25
    DEF Next, Proceed, World
<1> QED BY <1>1, <1>2, PTL DEF Spec

-----------------------------------------------------------------------------
\* Writing back one route keeps the ids of a server unique (upsert_route).
LEMMA MergedUnique ==
  ASSUME NEW S, UniqueIn(S), NEW r
  PROVE  UniqueIn(Merged(S, r))
BY DEF UniqueIn, Merged, Without

\* Only three actions read or write the table of routes; every other one leaves
\* it and the readings of it alone, or empties them.
TableMove(p) ==
  /\ routes' \in {routes, {}}
  /\ snap' \in {snap, [snap EXCEPT ![p] = {}]}

LEMMA TableFrame ==
  ASSUME TypeOK, NEW p \in Process, Proceed(p)
  PROVE  TableMove(p) \/ ReadServer(p) \/ PatchServer(p) \/ Unroute(p)
<1> USE DEF TableMove, Step, Fails, Abandon, Finish, engine, ForgetRoutes
<1>1. ASSUME CheckEndpoint(p) \/ EnsureNetwork(p) \/ Probe(p) \/ Exists(p) \/ InspectMount(p)
      PROVE  TableMove(p)
  BY <1>1 DEF CheckEndpoint, EnsureNetwork, Probe, Exists, InspectMount
<1>2. ASSUME RemoveStale(p) \/ StartExisting(p) \/ RunNew(p) PROVE TableMove(p)
  BY <1>2 DEF RemoveStale, StartExisting, RunNew
<1>3. ASSUME Settle(p) \/ Attach(p) \/ WaitAdmin(p) PROVE TableMove(p)
  BY <1>3 DEF Settle, Attach, WaitAdmin, Ensured
<1>4. ASSUME ComposeUp(p) \/ ComposeDown(p) \/ Unrouted(p) PROVE TableMove(p)
  BY <1>4 DEF ComposeUp, ComposeDown, Unrouted
<1>5. ASSUME StopCheck(p) \/ StopRemove(p) PROVE TableMove(p)
  BY <1>5 DEF StopCheck, StopRemove
<1> QED BY <1>1, <1>2, <1>3, <1>4, <1>5 DEF Proceed

SnapsUnique == \A p \in Process : UniqueIn(snap[p])

\* However commands interleave, no id appears twice in Caddy (upsert_route): the
\* reading a PATCH starts from had the property, for it was the server once.
THEOREM IdsUnique == Spec => []UniqueIds
<1> DEFINE Inv == UniqueIds /\ SnapsUnique
<1>1. Init => Inv
  BY DEF Init, UniqueIds, SnapsUnique, UniqueIn
<1>2. TypeOK /\ Inv /\ [Next]_vars => Inv'
  <2> SUFFICES ASSUME TypeOK, Inv, [Next]_vars PROVE Inv'
    OBVIOUS
  <2>0. UniqueIn({}) /\ snap \in [Process -> SUBSET Route]
    BY DEF UniqueIn, TypeOK, ControlOK
  <2>1. ASSUME NEW p \in Process, Proceed(p) PROVE Inv'
    <3>1. CASE TableMove(p)
      BY <3>1, <2>0 DEF TableMove, UniqueIds, SnapsUnique
    <3>2. CASE ReadServer(p)
      BY <3>2, <2>0 DEF ReadServer, Abandon, Finish, engine, UniqueIds, SnapsUnique
    <3>3. CASE PatchServer(p)
      <4>1. \/ UNCHANGED routes
            \/ \E r \in [id : todo[p], dial : {dial[p]}] : routes' = Merged(snap[p], r)
        BY <3>3 DEF PatchServer
      <4>2. UniqueIds'
        BY <4>1, MergedUnique DEF UniqueIds, SnapsUnique
      <4>3. snap' \in {snap, [snap EXCEPT ![p] = {}]}
        BY <3>3 DEF PatchServer, Abandon, Finish
      <4> QED BY <4>2, <4>3, <2>0 DEF SnapsUnique
    <3>4. CASE Unroute(p)
      BY <3>4 DEF Unroute, Without, UniqueIds, UniqueIn, SnapsUnique
    <3> QED BY <2>1, <3>1, <3>2, <3>3, <3>4, TableFrame
  <2>2. ASSUME NEW p \in Process, NEW c \in Commands, NEW e \in Env,
               NEW d \in Upstream, Begin(p, c, e, d)
        PROVE  Inv'
    BY <2>2 DEF Begin, engine, UniqueIds, SnapsUnique
  <2>3. CASE World
    BY <2>3, <2>0 DEF World, BecomesReady, Exits, InstallVanishes, LanMoves, engine,
                      ForgetRoutes, UniqueIds, SnapsUnique
  <2>4. CASE UNCHANGED vars
    BY <2>4 DEF vars, UniqueIds, SnapsUnique
  <2> QED BY <2>1, <2>2, <2>3, <2>4 DEF Next
<1>3. Inv => UniqueIds
  OBVIOUS
<1> QED BY <1>1, <1>2, <1>3, TypeCorrect, PTL DEF Spec

-----------------------------------------------------------------------------
(* No site disappears under an environment that is up.                     *)

\* What the actions have in common that neither register, compose nor unroute:
\* the process walks on toward "admin", or reaches "read", or gives up; routes are
\* only lost in full, with every environment excused.
Walks(p) ==
  \/ pc'[p] \in {"idle", "stop", "rm"}
  \/ pc[p] \in Before /\ pc'[p] \in Before \cup {"read"} /\ todo'[p] = todo[p]
     /\ (pc'[p] \in {"admin", "read"} => Syncs(p))
  \/ pc[p] = "read" /\ pc'[p] = "patch" /\ todo'[p] = todo[p]
  \/ pc'[p] = "compose" /\ cmd[p] = "transfer" /\ env[p] \in excused' /\ todo'[p] = {}

QuietMove(p) ==
  /\ UNCHANGED <<stack, raced, cmd, env, found>>
  /\ \/ UNCHANGED routes /\ excused \subseteq excused'
     \/ excused' = Env
  /\ \A q \in Process \ {p} : pc'[q] = pc[q] /\ todo'[q] = todo[q]
  /\ Walks(p)

LEMMA AbandonMoves ==
  ASSUME TypeOK, NEW p \in Process, Abandon(p)
  PROVE  /\ \A q \in Process \ {p} : pc'[q] = pc[q] /\ todo'[q] = todo[q]
         /\ excused \subseteq excused'
         /\ \/ pc'[p] = "idle"
            \/ pc'[p] = "compose" /\ cmd[p] = "transfer" /\ env[p] \in excused' /\ todo'[p] = {}
BY DEF Abandon, Finish, Goto, TypeOK, ControlOK

LEMMA StepMoves ==
  ASSUME TypeOK, NEW p \in Process, NEW from, NEW to, Step(p, from, to)
  PROVE  /\ \A q \in Process \ {p} : pc'[q] = pc[q] /\ todo'[q] = todo[q]
         /\ excused = excused' /\ pc[p] = from /\ pc'[p] = to
         /\ todo'[p] = todo[p]
BY DEF Step, Goto, At, TypeOK, ControlOK

LEMMA EnsuredMoves ==
  ASSUME TypeOK, NEW p \in Process, Ensured(p)
  PROVE  /\ \A q \in Process \ {p} : pc'[q] = pc[q] /\ todo'[q] = todo[q]
         /\ \/ pc'[p] = "idle"
            \/ Syncs(p) /\ pc'[p] = "admin" /\ todo'[p] = todo[p]
BY DEF Ensured, Finish, Goto, TypeOK, ControlOK

LEMMA QuietFrame ==
  ASSUME TypeOK, SyncOrder, NEW p \in Process, Proceed(p)
  PROVE  QuietMove(p) \/ PatchServer(p) \/ ComposeUp(p) \/ ComposeDown(p) \/ Unroute(p)
<1> USE DEF QuietMove, Walks, Quiet, command, engine, Before
<1>1. ASSUME CheckEndpoint(p) \/ EnsureNetwork(p) PROVE QuietMove(p)
  <2>1. CASE Abandon(p) /\ pc[p] \in Before
    BY <1>1, <2>1, AbandonMoves DEF CheckEndpoint, EnsureNetwork
  <2>2. CASE CheckEndpoint(p) /\ ~Abandon(p)
    BY <2>2, StepMoves DEF CheckEndpoint, Fails
  <2>3. CASE EnsureNetwork(p) /\ ~Abandon(p)
    BY <2>3, StepMoves DEF EnsureNetwork, Fails
  <2> QED BY <1>1, <2>1, <2>2, <2>3 DEF CheckEndpoint, EnsureNetwork, Fails, Step, At
<1>2. ASSUME Probe(p) \/ Exists(p) \/ InspectMount(p) PROVE QuietMove(p)
  BY <1>2, StepMoves DEF Probe, Exists, InspectMount
<1>3. ASSUME RemoveStale(p) PROVE QuietMove(p)
  <2>1. CASE Abandon(p)
    BY <1>3, <2>1, AbandonMoves DEF RemoveStale, ForgetRoutes
  <2>2. CASE ForgetRoutes /\ Goto(p, "run") /\ UNCHANGED todo
    BY <1>3, <2>2 DEF RemoveStale, ForgetRoutes, Goto, At, TypeOK, ControlOK
  <2> QED BY <1>3, <2>1, <2>2 DEF RemoveStale
<1>4. ASSUME StartExisting(p) \/ RunNew(p) PROVE QuietMove(p)
  BY <1>4, StepMoves, AbandonMoves DEF StartExisting, RunNew, Fails
<1>5. ASSUME Settle(p) PROVE QuietMove(p)
  BY <1>5, StepMoves, AbandonMoves, EnsuredMoves DEF Settle, Fails, At
<1>6. ASSUME Attach(p) PROVE QuietMove(p)
  BY <1>6, AbandonMoves, EnsuredMoves DEF Attach, At
<1>7. ASSUME WaitAdmin(p) PROVE QuietMove(p)
  BY <1>7, StepMoves, AbandonMoves DEF WaitAdmin, Fails, SyncOrder
<1>8. ASSUME ReadServer(p) PROVE QuietMove(p)
  BY <1>8, AbandonMoves DEF ReadServer, At, Goto, TypeOK, ControlOK
<1>9. ASSUME Unrouted(p) \/ StopCheck(p) \/ StopRemove(p) PROVE QuietMove(p)
  BY <1>9, StepMoves DEF Unrouted, StopCheck, StopRemove, Finish, Goto, ForgetRoutes,
                         TypeOK, ControlOK
<1> QED BY <1>1, <1>2, <1>3, <1>4, <1>5, <1>6, <1>7, <1>8, <1>9 DEF Proceed

\* A quiet move keeps the order of registration and composition.
LEMMA QuietSync ==
  ASSUME TypeOK, TypeOK', SyncOrder, SitesStayRegistered, NEW p \in Process, QuietMove(p)
  PROVE  SyncOrder' /\ SitesStayRegistered'
<1>1. ASSUME NEW e \in Env, e \notin excused' PROVE e \notin excused /\ (e \in Served => e \in Served')
  BY <1>1 DEF QuietMove, Served
<1>2. SitesStayRegistered'
  BY <1>1 DEF QuietMove, SitesStayRegistered
<1>3. ASSUME NEW q \in Process
      PROVE /\ pc'[q] \in Before /\ Syncs(q)' => BaseId(env'[q]) \in todo'[q]
            /\ pc'[q] \in {"admin", "read", "patch", "compose"} => Syncs(q)'
            /\ /\ pc'[q] \in {"read", "patch", "compose"}
               /\ BaseId(env'[q]) \notin todo'[q] /\ env'[q] \notin excused' /\ ~raced'
               => env'[q] \in Served'
            /\ pc'[q] = "compose" => todo'[q] = {}
            /\ pc'[q] = "unroute" => \A i \in todo'[q] : i[1] = env'[q]
  <2>1. cmd' = cmd /\ env' = env /\ raced' = raced /\ env[q] \in Env
    BY DEF QuietMove, TypeOK, CommandOK
  <2>2. CASE q # p
    BY <2>1, <2>2, <1>1 DEF QuietMove, SyncOrder, Syncs
  <2>3. CASE q = p
    BY <2>1, <2>3, <1>1 DEF QuietMove, Walks, SyncOrder, Syncs, Before
  <2> QED BY <2>2, <2>3
<1>4. SyncOrder'
  BY <1>3 DEF SyncOrder, Syncs, BaseId
<1> QED BY <1>2, <1>4

\* The PATCH registers a route; unless it raced it drops none.
LEMMA PatchSync ==
  ASSUME TypeOK, TypeOK', SyncOrder, SitesStayRegistered, NEW p \in Process, PatchServer(p)
  PROVE  SyncOrder' /\ SitesStayRegistered'
<1> USE DEF TypeOK, EngineOK, CommandOK, ControlOK
<1>0. UNCHANGED <<cmd, env, stack>> /\ pc[p] = "patch"
  BY DEF PatchServer, command, At
<1>1. PICK i \in todo[p] :
        /\ \/ /\ routes' = Merged(snap[p], [id |-> i, dial |-> dial[p]])
              /\ raced' = (raced \/ \E x \in routes : x \notin snap[p] /\ x.id # i)
              /\ \/ /\ todo' = [todo EXCEPT ![p] = @ \ {i}]
                    /\ Goto(p, IF todo[p] = {i} THEN "compose" ELSE "read")
                    /\ excused' = excused \ {e \in Env : BaseId(e) = i}
                 \/ Abandon(p)
           \/ Abandon(p) /\ UNCHANGED <<routes, raced>>
        /\ BaseId(env[p]) \in todo[p] => i = BaseId(env[p])
  BY DEF PatchServer
<1>2. ASSUME ~raced' PROVE ~raced /\ Served \subseteq Served'
  <2>1. CASE UNCHANGED <<routes, raced>>
    BY <1>2, <2>1 DEF Served
  <2>2. CASE /\ routes' = Merged(snap[p], [id |-> i, dial |-> dial[p]])
             /\ raced' = (raced \/ \E x \in routes : x \notin snap[p] /\ x.id # i)
    <3>1. ~raced /\ \A x \in routes : x.id # i => x \in snap[p]
      BY <1>2, <2>2
    <3>2. Ids(routes) \subseteq Ids(routes')
      BY <2>2, <3>1 DEF Merged, Without, Ids
    <3> QED BY <3>1, <3>2 DEF Served
  <2> QED BY <1>1, <2>1, <2>2
<1>3. ASSUME ~raced', NEW e \in Env, e \notin excused' PROVE e \notin excused \/ e \in Served'
  <2>1. CASE Abandon(p)
    BY <1>3, <2>1, AbandonMoves
  <2>2. CASE /\ routes' = Merged(snap[p], [id |-> i, dial |-> dial[p]])
             /\ excused' = excused \ {f \in Env : BaseId(f) = i}
    <3>1. [id |-> i, dial |-> dial[p]] \in routes'
      BY <2>2 DEF Merged
    <3>2. BaseId(e) = i => e \in Served'
      BY <3>1 DEF Served, Ids
    <3> QED BY <1>3, <2>2, <3>2
  <2> QED BY <1>1, <2>1, <2>2
<1>4. SitesStayRegistered'
  BY <1>0, <1>2, <1>3 DEF SitesStayRegistered
<1>5. \A q \in Process \ {p} : pc'[q] = pc[q] /\ todo'[q] = todo[q]
  BY <1>1, AbandonMoves DEF Goto
<1>6. ASSUME NEW q \in Process
      PROVE /\ pc'[q] \in Before /\ Syncs(q)' => BaseId(env'[q]) \in todo'[q]
            /\ pc'[q] \in {"admin", "read", "patch", "compose"} => Syncs(q)'
            /\ /\ pc'[q] \in {"read", "patch", "compose"}
               /\ BaseId(env'[q]) \notin todo'[q] /\ env'[q] \notin excused' /\ ~raced'
               => env'[q] \in Served'
            /\ pc'[q] = "compose" => todo'[q] = {}
            /\ pc'[q] = "unroute" => \A t \in todo'[q] : t[1] = env'[q]
  <2>1. env[q] \in Env /\ (Syncs(q) <=> Syncs(q)')
    BY <1>0 DEF Syncs
  <2>2. CASE q # p
    BY <1>0, <1>2, <1>3, <1>5, <2>1, <2>2 DEF SyncOrder
  <2>3. CASE q = p
    <3>1. CASE Abandon(p)
      BY <1>0, <2>1, <2>3, <3>1, AbandonMoves DEF Before, SyncOrder
    <3>2. CASE /\ routes' = Merged(snap[p], [id |-> i, dial |-> dial[p]])
               /\ todo' = [todo EXCEPT ![p] = @ \ {i}]
               /\ Goto(p, IF todo[p] = {i} THEN "compose" ELSE "read")
               /\ excused' = excused \ {e \in Env : BaseId(e) = i}
      <4>1. pc'[p] \in {"compose", "read"} /\ Syncs(p)
        BY <1>0, <3>2 DEF Goto, SyncOrder
      <4>2. CASE i = BaseId(env[p])
        <5>1. [id |-> i, dial |-> dial[p]] \in routes'
          BY <3>2 DEF Merged
        <5>2. env[p] \in Served'
          BY <2>1, <4>2, <5>1 DEF Served, Ids
        <5>3. pc'[p] = "compose" => todo'[p] = {}
          BY <1>0, <3>2 DEF Goto
        <5> QED BY <1>0, <2>1, <2>3, <3>2, <4>1, <5>2, <5>3 DEF Before
      <4>3. CASE i # BaseId(env[p])
        <5>1. BaseId(env[p]) \notin todo[p]
          BY <1>1, <4>3
        <5>2. env[p] \notin excused' /\ ~raced' => env[p] \in Served
          BY <1>0, <1>2, <3>2, <4>3, <5>1, <2>1, <2>3 DEF SyncOrder
        <5>3. pc'[p] = "compose" => todo'[p] = {}
          BY <1>0, <3>2 DEF Goto
        <5> QED BY <1>0, <1>2, <2>1, <2>3, <4>1, <5>1, <5>2, <5>3 DEF Before
      <4> QED BY <4>2, <4>3
    <3> QED BY <1>1, <3>1, <3>2
  <2> QED BY <2>2, <2>3
<1>7. SyncOrder'
  BY <1>6 DEF SyncOrder, Syncs, BaseId
<1> QED BY <1>4, <1>7

\* `compose up` comes last: what it brings up has been registered.
LEMMA ComposeSync ==
  ASSUME TypeOK, TypeOK', SyncOrder, SitesStayRegistered, NEW p \in Process,
         ComposeUp(p) \/ ComposeDown(p)
  PROVE  SyncOrder' /\ SitesStayRegistered'
<1> USE DEF TypeOK, EngineOK, CommandOK, ControlOK
<1>0. UNCHANGED <<cmd, env, routes, excused, raced>>
  BY DEF ComposeUp, ComposeDown, command, engine
<1>1. \A q \in Process \ {p} : pc'[q] = pc[q] /\ todo'[q] = todo[q]
  BY DEF ComposeUp, ComposeDown, Finish, Goto
<1>2. pc'[p] \in {"idle", "unroute"}
  BY DEF ComposeUp, ComposeDown, Finish, Goto
<1>3. ASSUME NEW e \in Env, stack'[e] = "up", stack[e] # "up"
      PROVE  e \notin excused /\ ~raced => e \in Served
  <2>1. ComposeUp(p) /\ e = env[p]
    BY <1>3 DEF ComposeUp, ComposeDown
  <2>2. pc[p] = "compose"
    BY <2>1 DEF ComposeUp, At
  <2> QED BY <1>3, <2>1, <2>2, <1>0 DEF SyncOrder
<1>4. SitesStayRegistered'
  BY <1>0, <1>3 DEF SitesStayRegistered, Served
<1>5. SyncOrder'
  <2>1. pc'[p] = "unroute" => \A i \in todo'[p] : i[1] = env[p]
    BY DEF ComposeUp, ComposeDown, Finish, Goto, IdsOf
  <2> QED BY <1>0, <1>1, <1>2, <2>1 DEF SyncOrder, Syncs, Before, Served
<1> QED BY <1>4, <1>5

\* A DELETE takes a route only from an environment that is down, or it raced.
LEMMA UnrouteSync ==
  ASSUME TypeOK, TypeOK', SyncOrder, SitesStayRegistered, NEW p \in Process, Unroute(p)
  PROVE  SyncOrder' /\ SitesStayRegistered'
<1>0. UNCHANGED <<cmd, env, pc, stack, excused>> /\ pc[p] = "unroute"
  BY DEF Unroute, command, At
<1>1. \A q \in Process \ {p} : todo'[q] = todo[q]
  BY DEF Unroute, TypeOK, ControlOK
<1>2. PICK i \in todo[p] :
        \/ UNCHANGED <<routes, raced>>
        \/ routes' = Without(routes, i) /\ raced' = (raced \/ Promised(p, env[p]))
  BY Zenon DEF Unroute
<1>3. ASSUME ~raced', NEW e \in Env, e \in Served
      PROVE  ~raced /\ (e \in Served' \/ (e = env[p] /\ ~Promised(p, e)))
  <2>1. CASE UNCHANGED <<routes, raced>>
    BY <1>3, <2>1 DEF Served
  <2>2. CASE routes' = Without(routes, i) /\ raced' = (raced \/ Promised(p, env[p]))
    <3>0. ~raced /\ ~Promised(p, env[p])
      BY <1>3, <2>2, Zenon
    <3>1. PICK r \in routes : r.id = BaseId(e)
      BY <1>3 DEF Served, Ids
    <3>2. CASE r.id # i
      BY <1>3, <2>2, <3>0, <3>1, <3>2 DEF Served, Ids, Without
    <3>3. CASE r.id = i
      <4>1. e = env[p]
        <5>1. i[1] = env[p]
          BY <1>0 DEF SyncOrder
        <5>2. i = <<e, NoIp>>
          BY <3>1, <3>3 DEF BaseId
        <5> QED BY <5>1, <5>2
      <4> QED BY <3>0, <4>1
    <3> QED BY <3>2, <3>3
  <2> QED BY <1>2, <2>1, <2>2
<1>4. ASSUME ~raced' PROVE ~raced
  BY <1>2, <1>4
<1>5. SitesStayRegistered'
  BY <1>0, <1>3, <1>4 DEF SitesStayRegistered, Promised
<1>6. ASSUME NEW q \in Process
      PROVE /\ pc'[q] \in Before /\ Syncs(q)' => BaseId(env'[q]) \in todo'[q]
            /\ pc'[q] \in {"admin", "read", "patch", "compose"} => Syncs(q)'
            /\ /\ pc'[q] \in {"read", "patch", "compose"}
               /\ BaseId(env'[q]) \notin todo'[q] /\ env'[q] \notin excused' /\ ~raced'
               => env'[q] \in Served'
            /\ pc'[q] = "compose" => todo'[q] = {}
            /\ pc'[q] = "unroute" => \A j \in todo'[q] : j[1] = env'[q]
  <2>1. env[q] \in Env /\ (Syncs(q) <=> Syncs(q)')
    BY <1>0 DEF Syncs, TypeOK, CommandOK
  <2>2. CASE q # p
    BY <1>0, <1>1, <1>3, <1>4, <2>1, <2>2 DEF SyncOrder, Promised
  <2>3. CASE q = p
    BY <1>0, <2>3 DEF SyncOrder, Before, Unroute, TypeOK, ControlOK
  <2> QED BY <2>2, <2>3
<1>7. SyncOrder'
  BY <1>6 DEF SyncOrder, Syncs, BaseId
<1> QED BY <1>5, <1>7

\* A site stays in Caddy while its environment is up, for any number of commands:
\* what takes it away is a stop of the proxy, a warned transfer, or a race.  The
\* two races are a PATCH over a change made since its GET, and the DELETE of a
\* `down` while another command brings the same environment up.
THEOREM SitesStay == Spec => [](SitesStayRegistered /\ SyncOrder)
<1> DEFINE Inv == SitesStayRegistered /\ SyncOrder
<1>1. Init => Inv
  BY DEF Init, SitesStayRegistered, SyncOrder, Before
<1>2. TypeOK /\ TypeOK' /\ Inv /\ [Next]_vars => Inv'
  <2> SUFFICES ASSUME TypeOK, TypeOK', Inv, [Next]_vars PROVE Inv'
    OBVIOUS
  <2>1. ASSUME NEW p \in Process, Proceed(p) PROVE Inv'
    BY <2>1, QuietFrame, QuietSync, PatchSync, ComposeSync, UnrouteSync
  <2>2. ASSUME NEW p \in Process, NEW c \in Commands, NEW e \in Env,
               NEW d \in Upstream, Begin(p, c, e, d)
        PROVE  Inv'
    <3>0. /\ UNCHANGED <<routes, stack, excused, raced>>
          /\ \A q \in Process \ {p} : /\ pc'[q] = pc[q] /\ todo'[q] = todo[q]
                                      /\ cmd'[q] = cmd[q] /\ env'[q] = env[q]
          /\ cmd'[p] = c /\ env'[p] = e
          /\ pc'[p] \in {"composeDown", "preNetwork", "endpoint"}
          /\ c \in {"up", "transfer"} => BaseId(e) \in todo'[p]
      BY <2>2 DEF Begin, Goto, engine, TypeOK, ControlOK, CommandOK, BaseId, IdsOf
    <3>1. SitesStayRegistered'
      BY <3>0 DEF SitesStayRegistered, Served
    <3>2. SyncOrder'
      BY <3>0, ZenonT(60) DEF SyncOrder, Syncs, Served, Before, BaseId
    <3> QED BY <3>1, <3>2
  <2>3. CASE World
    <3>1. UNCHANGED <<stack, raced, pc, todo, cmd, env>>
      BY <2>3 DEF World, BecomesReady, Exits, InstallVanishes, LanMoves, command
    <3>2. UNCHANGED <<routes, excused>> \/ excused' = Env
      BY <2>3 DEF World, BecomesReady, Exits, InstallVanishes, LanMoves, engine, ForgetRoutes
    <3> QED BY <3>1, <3>2 DEF SitesStayRegistered, SyncOrder, Syncs, Served, BaseId,
                              TypeOK, CommandOK
  <2>4. CASE UNCHANGED vars
    BY <2>4 DEF vars, SitesStayRegistered, SyncOrder, Syncs, Served
  <2> QED BY <2>1, <2>2, <2>3, <2>4 DEF Next
<1> QED BY <1>1, <1>2, TypeCorrect, PTL DEF Spec

-----------------------------------------------------------------------------
(* One command at a time. *)

OneProcess == \A p, q \in Process : p = q

\* What the only process read from a Caddy that still runs is what Caddy has: it
\* could only have changed after a restart, and nobody else restarts it.
Alone == /\ ~raced
         /\ \A p \in Process :
              /\ pc[p] = "patch" => /\ proxy # "starting"
                                    /\ proxy = "serving" => snap[p] = routes
              /\ pc[p] = "unroute" => stack[env[p]] = "down"

LEMMA AloneStep ==
  ASSUME OneProcess, TypeOK, TypeOK', SyncOrder, Alone, NEW p \in Process, Proceed(p)
  PROVE  Alone'
<1>0. ASSUME NEW q \in Process PROVE q = p
  BY DEF OneProcess
<1>1. CASE QuietMove(p)
  <2>1. pc'[p] # "unroute" /\ ~raced'
    BY <1>1 DEF QuietMove, Walks, Before, Alone
  <2>2. CASE pc'[p] = "patch"
    <3>1. pc[p] = "read"
      BY <1>1, <2>2 DEF QuietMove, Walks, Before
    <3>2. ReadServer(p)
      BY <3>1 DEF Proceed, CheckEndpoint, EnsureNetwork, Probe, Exists, InspectMount,
                  RemoveStale, StartExisting, RunNew, Settle, Attach, WaitAdmin,
                  PatchServer, ComposeUp, ComposeDown, Unroute, Unrouted, StopCheck,
                  StopRemove, Step, Fails, At
    <3>3. proxy' = "serving" /\ snap'[p] = routes /\ routes' = routes
      BY <2>2, <3>2, AbandonMoves DEF ReadServer, engine, TypeOK, ControlOK
    <3> QED BY <1>0, <2>1, <3>3 DEF Alone
  <2>3. CASE pc'[p] # "patch"
    BY <1>0, <2>1, <2>3 DEF Alone
  <2> QED BY <2>2, <2>3
<1>2. CASE PatchServer(p)
  <2>1. pc[p] = "patch"
    BY <1>2 DEF PatchServer, At
  <2>2. pc'[p] \in {"compose", "read", "idle"}
    BY <1>2, AbandonMoves DEF PatchServer, Goto, TypeOK, ControlOK
  <2>3. \/ raced' = raced
        \/ /\ proxy = "serving"
           /\ \E i \in Id : raced' = (raced \/ \E x \in routes : x \notin snap[p] /\ x.id # i)
    <3>1. todo[p] \subseteq Id
      BY DEF TypeOK, ControlOK
    <3> QED BY <1>2, <3>1, Zenon DEF PatchServer
  <2>4. ~raced'
    BY <2>1, <2>3 DEF Alone
  <2> QED BY <1>0, <2>2, <2>4 DEF Alone
<1>3. CASE ComposeUp(p) \/ ComposeDown(p)
  <2>1. ~raced' /\ pc'[p] # "patch"
    BY <1>3 DEF ComposeUp, ComposeDown, Finish, Goto, Alone, TypeOK, ControlOK
  <2>2. pc'[p] = "unroute" => stack'[env'[p]] = "down"
    BY <1>3 DEF ComposeUp, ComposeDown, Finish, Goto, command, TypeOK, ControlOK,
                CommandOK, EngineOK
  <2> QED BY <1>0, <2>1, <2>2 DEF Alone
<1>4. CASE Unroute(p)
  <2>1. pc[p] = "unroute" /\ UNCHANGED <<pc, stack, env>>
    BY <1>4 DEF Unroute, At, command
  <2>2. ~Promised(p, env[p])
    BY <1>0, <2>1, Zenon DEF Promised, Alone, EngineOK
  <2>3. raced' = raced \/ raced' = (raced \/ Promised(p, env[p]))
    BY <1>4, Zenon DEF Unroute
  <2>4. ~raced'
    BY <2>2, <2>3, Zenon DEF Alone
  <2> QED BY <1>0, <2>1, <2>4 DEF Alone
<1> QED BY <1>1, <1>2, <1>3, <1>4, QuietFrame

LEMMA AloneAlways == ASSUME OneProcess PROVE Spec => []Alone
<1>1. Init => Alone
  BY DEF Init, Alone
<1>2. TypeOK /\ TypeOK' /\ SyncOrder /\ Alone /\ [Next]_vars => Alone'
  <2> SUFFICES ASSUME TypeOK, TypeOK', SyncOrder, Alone, [Next]_vars PROVE Alone'
    OBVIOUS
  <2>1. ASSUME NEW p \in Process, Proceed(p) PROVE Alone'
    BY <2>1, AloneStep
  <2>2. ASSUME NEW p \in Process, NEW c \in Commands, NEW e \in Env,
               NEW d \in Upstream, Begin(p, c, e, d)
        PROVE  Alone'
    <3>1. \A q \in Process : pc'[q] \notin {"patch", "unroute"}
      BY <2>2 DEF Begin, Goto, OneProcess, TypeOK, ControlOK
    <3> QED BY <2>2, <3>1 DEF Begin, Alone
  <2>3. CASE World
    BY <2>3 DEF World, BecomesReady, Exits, InstallVanishes, LanMoves, command, engine,
                ForgetRoutes, Alone
  <2>4. CASE UNCHANGED vars
    BY <2>4 DEF vars, Alone
  <2> QED BY <2>1, <2>2, <2>3, <2>4 DEF Next
<1> QED BY <1>1, <1>2, TypeCorrect, SitesStay, PTL DEF Spec

\* With one command at a time a site that is up stays registered, without the
\* exception for races: README_DEV_PROXY.md's promise for `up`.
THEOREM SitesStayAlone ==
  ASSUME OneProcess PROVE Spec => []SitesSurviveOtherCommands
<1>1. Alone /\ SitesStayRegistered => SitesSurviveOtherCommands
  BY DEF Alone, SitesStayRegistered, SitesSurviveOtherCommands
<1> QED BY <1>1, AloneAlways, SitesStay, PTL

\* With one command at a time every admin request changes one entry of the table
\* and no other: LocalProxy implements RouteRegistry.
THEOREM Implements == ASSUME OneProcess PROVE Spec => ImplementsRegistry
<1>1. Init => Registry!Init
  BY DEF Init, Registry!Init
<1>2. TypeOK /\ Alone /\ [Next]_vars => [Registry!Next]_routes
  <2> SUFFICES ASSUME TypeOK, Alone, [Next]_vars PROVE [Registry!Next]_routes
    OBVIOUS
  <2>1. ASSUME routes' \in {routes, {}} PROVE [Registry!Next]_routes
    BY <2>1 DEF Registry!Next, Registry!Forget
  <2>2. ASSUME NEW p \in Process, Proceed(p) PROVE [Registry!Next]_routes
    <3>1. CASE TableMove(p)
      BY <3>1, <2>1 DEF TableMove
    <3>2. CASE ReadServer(p)
      BY <3>2, <2>1 DEF ReadServer, engine
    <3>3. CASE PatchServer(p)
      <4>1. PICK i \in todo[p] :
              \/ UNCHANGED routes
              \/ proxy = "serving" /\ routes' = Merged(snap[p], [id |-> i, dial |-> dial[p]])
        BY <3>3 DEF PatchServer
      <4>2. snap[p] = routes \/ proxy # "serving"
        BY <3>3 DEF PatchServer, At, Alone
      <4>3. [id |-> i, dial |-> dial[p]] \in Route
        BY DEF Route, TypeOK, ControlOK, CommandOK
      <4>4. CASE routes' = Merged(routes, [id |-> i, dial |-> dial[p]])
        <5>1. Registry!Register([id |-> i, dial |-> dial[p]])
          BY <4>4 DEF Registry!Register, Merged, Without, RouteId
        <5> QED BY <4>3, <5>1 DEF Registry!Next
      <4> QED BY <4>1, <4>2, <4>4
    <3>4. CASE Unroute(p)
      <4>1. PICK i \in todo[p] : UNCHANGED routes \/ routes' = Without(routes, i)
        BY <3>4 DEF Unroute
      <4>2. [id |-> i, dial |-> dial[p]] \in Route
        BY DEF Route, TypeOK, ControlOK, CommandOK
      <4>3. CASE routes' = Without(routes, i)
        <5>1. Registry!Unregister(RouteId([id |-> i, dial |-> dial[p]]))
          BY <4>3 DEF Registry!Unregister, Without, RouteId
        <5> QED BY <4>2, <5>1 DEF Registry!Next
      <4> QED BY <4>1, <4>3
    <3> QED BY <2>2, <3>1, <3>2, <3>3, <3>4, TableFrame
  <2>3. ASSUME NEW p \in Process, NEW c \in Commands, NEW e \in Env,
               NEW d \in Upstream, Begin(p, c, e, d)
        PROVE  routes' = routes
    BY <2>3 DEF Begin, engine
  <2>4. CASE World
    BY <2>1, <2>4 DEF World, BecomesReady, Exits, InstallVanishes, LanMoves, engine,
                      ForgetRoutes
  <2>5. CASE UNCHANGED vars
    BY <2>5 DEF vars
  <2> QED BY <2>2, <2>3, <2>4, <2>5 DEF Next
<1> QED BY <1>1, <1>2, TypeCorrect, AloneAlways, PTL
        DEF Spec, ImplementsRegistry, Registry!Spec

-----------------------------------------------------------------------------
(* What an up has registered when it composes, and what a down has removed *)
(* when it ends, with one command at a time.                               *)

\* The routes are Caddy's, in its memory.
EmptyInv == proxy # "serving" => routes = {}

\* Of the ids an up began with, each is still to do or in the table, unless the
\* base route went in before the table was lost.
RoutedOf(p) ==
  \/ BaseId(env[p]) \notin todo[p] /\ env[p] \in excused
  \/ /\ found[p] \subseteq todo[p] \cup Ids(routes)
     /\ BaseId(env[p]) \in todo[p] => found[p] \subseteq todo[p]

RoutedInv ==
  \A p \in Process :
    Syncs(p) /\ pc[p] \in Before \cup {"read", "patch", "compose"} => RoutedOf(p)

\* The machine stays on its network.
LanStays == \A s, t \in LanSets : s = t

\* What a down that noted nothing has not removed is still to do, or it skipped it.
UnroutedInv ==
  \A p \in Process :
    pc[p] = "unroute" /\ outcome[p] = "ok"
      => \A r \in routes : r.id[1] = env[p] => r.id \in todo[p] \cup skipped[p]

LEMMA EmptyStep == TypeOK /\ EmptyInv /\ [Next]_vars => EmptyInv'
<1> SUFFICES ASSUME TypeOK, EmptyInv, [Next]_vars PROVE EmptyInv'
  OBVIOUS
<1> USE DEF EmptyInv, engine
<1>1. ASSUME NEW p \in Process, Proceed(p) PROVE EmptyInv'
  <2>1. CASE CheckEndpoint(p) \/ Probe(p) \/ Exists(p) \/ InspectMount(p) \/ Settle(p)
             \/ WaitAdmin(p) \/ ReadServer(p) \/ Unrouted(p) \/ StopCheck(p)
    BY <2>1 DEF CheckEndpoint, Probe, Exists, InspectMount, Settle, WaitAdmin, ReadServer,
                Unrouted, StopCheck
  <2>2. CASE EnsureNetwork(p) \/ Attach(p) \/ ComposeUp(p) \/ ComposeDown(p)
    BY <2>2 DEF EnsureNetwork, Attach, ComposeUp, ComposeDown
  <2>3. CASE RemoveStale(p) \/ StopRemove(p)
    BY <2>3 DEF RemoveStale, StopRemove, ForgetRoutes
  <2>4. CASE StartExisting(p) \/ RunNew(p)
    BY <2>4 DEF StartExisting, RunNew, Running
  <2>5. CASE PatchServer(p)
    <3>1. proxy' = proxy /\ (proxy = "serving" \/ routes' = routes)
      BY <2>5 DEF PatchServer
    <3> QED BY <3>1
  <2>6. CASE Unroute(p)
    <3>1. proxy' = proxy /\ (proxy = "serving" \/ routes' = routes)
      BY <2>6 DEF Unroute
    <3> QED BY <3>1
  <2> QED BY <1>1, <2>1, <2>2, <2>3, <2>4, <2>5, <2>6 DEF Proceed
<1>2. ASSUME NEW p \in Process, NEW c \in Commands, NEW e \in Env,
             NEW d \in Upstream, Begin(p, c, e, d)
      PROVE  EmptyInv'
  BY <1>2 DEF Begin
<1>3. CASE World
  BY <1>3 DEF World, BecomesReady, Exits, InstallVanishes, LanMoves, ForgetRoutes
<1>4. CASE UNCHANGED vars
  BY <1>4 DEF vars
<1> QED BY <1>1, <1>2, <1>3, <1>4 DEF Next

LEMMA EmptyAlways == Spec => []EmptyInv
<1>1. Init => EmptyInv
  BY DEF Init, EmptyInv
<1> QED BY <1>1, EmptyStep, TypeCorrect, PTL DEF Spec

\* The PATCH of the only process puts its route beside the ones that are there.
LEMMA PatchAdds ==
  ASSUME TypeOK, Alone, NEW p \in Process, PatchServer(p)
  PROVE  /\ UNCHANGED <<cmd, env, found>> /\ pc[p] = "patch"
         /\ \/ Abandon(p)
            \/ \E i \in todo[p] :
                 /\ BaseId(env[p]) \in todo[p] => i = BaseId(env[p])
                 /\ Ids(routes) \cup {i} \subseteq Ids(routes')
                 /\ todo'[p] = todo[p] \ {i}
                 /\ excused' = excused \ {e \in Env : BaseId(e) = i}
                 /\ pc'[p] \in {"compose", "read"}
<1>1. UNCHANGED <<cmd, env, found>> /\ pc[p] = "patch"
  BY DEF PatchServer, command, At
<1>2. PICK i \in todo[p] :
        /\ BaseId(env[p]) \in todo[p] => i = BaseId(env[p])
        /\ \/ /\ proxy = "serving"
              /\ routes' = Merged(snap[p], [id |-> i, dial |-> dial[p]])
              /\ todo' = [todo EXCEPT ![p] = @ \ {i}]
              /\ Goto(p, IF todo[p] = {i} THEN "compose" ELSE "read")
              /\ excused' = excused \ {e \in Env : BaseId(e) = i}
           \/ Abandon(p)
  BY DEF PatchServer
<1>3. ASSUME proxy = "serving",
             routes' = Merged(snap[p], [id |-> i, dial |-> dial[p]])
      PROVE  Ids(routes) \cup {i} \subseteq Ids(routes')
  <2>1. snap[p] = routes
    BY <1>1, <1>3 DEF Alone
  <2>2. [id |-> i, dial |-> dial[p]] \in routes'
    BY <1>3 DEF Merged
  <2>3. i \in Ids(routes')
    BY <2>2 DEF Ids
  <2>4. ASSUME NEW x \in routes, x.id # i PROVE x \in routes'
    BY <1>3, <2>1, <2>4 DEF Merged, Without
  <2> QED BY <2>3, <2>4 DEF Ids
<1>4. ASSUME todo' = [todo EXCEPT ![p] = @ \ {i}],
             Goto(p, IF todo[p] = {i} THEN "compose" ELSE "read")
      PROVE  todo'[p] = todo[p] \ {i} /\ pc'[p] \in {"compose", "read"}
  BY <1>4 DEF Goto, TypeOK, ControlOK
<1> QED BY <1>1, <1>2, <1>3, <1>4

LEMMA RoutedStep ==
  ASSUME OneProcess, TypeOK, TypeOK', SyncOrder, Alone, RoutedInv, [Next]_vars
  PROVE  RoutedInv'
<1> DEFINE Registering == Before \cup {"read", "patch", "compose"}
<1>0. ASSUME NEW p \in Process, NEW q \in Process PROVE q = p
  BY DEF OneProcess
<1>1. ASSUME NEW p \in Process, Proceed(p) PROVE RoutedInv'
  <2> SUFFICES ASSUME Syncs(p)', pc'[p] \in Registering PROVE RoutedOf(p)'
    BY <1>0, <1>1 DEF RoutedInv
  <2>1. env[p] \in Env /\ excused \subseteq Env
    BY DEF TypeOK, CommandOK, ControlOK
  <2>2. CASE QuietMove(p)
    <3>1. cmd' = cmd /\ env' = env /\ found' = found /\ Syncs(p)
      BY <2>2 DEF QuietMove, Syncs
    <3>2. CASE todo'[p] = {} /\ env[p] \in excused'
      BY <3>1, <3>2 DEF RoutedOf
    <3>3. CASE todo'[p] = todo[p] /\ pc[p] \in Registering
      <4>1. RoutedOf(p)
        BY <3>1, <3>3 DEF RoutedInv
      <4>2. \/ routes' = routes /\ excused \subseteq excused'
            \/ excused' = Env
        BY <2>2 DEF QuietMove
      <4>3. CASE BaseId(env[p]) \notin todo[p] /\ env[p] \in excused'
        BY <3>1, <3>3, <4>3 DEF RoutedOf, BaseId
      <4>4. CASE BaseId(env[p]) \in todo[p]
        BY <3>1, <3>3, <4>1, <4>4 DEF RoutedOf, BaseId, IdsOf
      <4>5. CASE routes' = routes
        BY <3>1, <3>3, <4>1, <4>2, <4>3, <4>4, <4>5, <2>1 DEF RoutedOf, BaseId, IdsOf, Ids
      <4> QED BY <2>1, <4>2, <4>3, <4>4, <4>5
    <3> QED BY <2>2, <3>1, <3>2, <3>3 DEF QuietMove, Walks, Before
  <2>3. CASE PatchServer(p)
    <3>1. cmd' = cmd /\ env' = env /\ found' = found /\ pc[p] = "patch" /\ Syncs(p)
      BY <2>3, PatchAdds DEF Syncs
    <3>2. RoutedOf(p)
      BY <3>1 DEF RoutedInv
    <3>3. CASE Abandon(p)
      <4>1. env[p] \in excused' /\ todo'[p] = {}
        BY <3>3, AbandonMoves DEF Before
      <4> QED BY <3>1, <4>1 DEF RoutedOf, BaseId
    <3>4. ASSUME NEW i \in todo[p],
                 BaseId(env[p]) \in todo[p] => i = BaseId(env[p]),
                 Ids(routes) \cup {i} \subseteq Ids(routes'),
                 todo'[p] = todo[p] \ {i},
                 excused' = excused \ {e \in Env : BaseId(e) = i}
          PROVE  RoutedOf(p)'
      <4>1. BaseId(env[p]) \notin todo'[p]
        BY <3>4
      <4>2. CASE BaseId(env[p]) \notin todo[p] /\ env[p] \in excused
        BY <3>1, <3>4, <4>1, <4>2 DEF RoutedOf, BaseId
      <4>3. ASSUME found[p] \subseteq todo[p] \cup Ids(routes)
            PROVE  RoutedOf(p)'
        <5>1. found[p] \subseteq todo'[p] \cup Ids(routes')
          BY <3>4, <4>3
        <5> QED BY <3>1, <4>1, <5>1 DEF RoutedOf, BaseId, Ids
      <4> QED BY <3>2, <4>2, <4>3 DEF RoutedOf
    <3> QED BY <2>3, <3>3, <3>4, PatchAdds
  <2>4. CASE ComposeUp(p) \/ ComposeDown(p)
    <3>1. pc'[p] \in {"idle", "unroute"}
      BY <2>4 DEF ComposeUp, ComposeDown, Finish, Goto, TypeOK, ControlOK
    <3> QED BY <3>1 DEF Before
  <2>5. CASE Unroute(p)
    <3>1. pc'[p] = "unroute"
      BY <2>5 DEF Unroute, At
    <3> QED BY <3>1 DEF Before
  <2> QED BY <1>1, <2>2, <2>3, <2>4, <2>5, QuietFrame
<1>2. ASSUME NEW p \in Process, NEW c \in Commands, NEW e \in Env,
             NEW d \in Upstream, Begin(p, c, e, d)
      PROVE  RoutedInv'
  <2> SUFFICES ASSUME Syncs(p)', pc'[p] \in Registering PROVE RoutedOf(p)'
    BY <1>0, <1>2 DEF RoutedInv
  <2>1. cmd'[p] = c /\ env'[p] = e
    BY <1>2 DEF Begin, TypeOK, CommandOK
  <2>2. found'[p] = todo'[p]
    BY <1>2 DEF Begin, TypeOK, ControlOK
  <2> QED BY <2>2 DEF RoutedOf
<1>3. CASE World
  <2>1. UNCHANGED <<pc, todo, cmd, env, found>>
    BY <1>3 DEF World, BecomesReady, Exits, InstallVanishes, LanMoves, command
  <2>2. UNCHANGED <<routes, excused>> \/ excused' = Env
    BY <1>3 DEF World, BecomesReady, Exits, InstallVanishes, LanMoves, engine, ForgetRoutes
  <2> SUFFICES ASSUME NEW p \in Process, Syncs(p)', pc'[p] \in Registering PROVE RoutedOf(p)'
    BY DEF RoutedInv
  <2>3. RoutedOf(p) /\ env[p] \in Env
    BY <2>1 DEF RoutedInv, Syncs, TypeOK, CommandOK
  <2> QED BY <2>1, <2>2, <2>3 DEF RoutedOf, BaseId, IdsOf, Ids
<1>4. CASE UNCHANGED vars
  BY <1>4 DEF vars, RoutedInv, RoutedOf, Syncs, BaseId, IdsOf, Ids
<1> QED BY <1>1, <1>2, <1>3, <1>4 DEF Next

\* With one command at a time an up composes only when the host and every LAN
\* address it found when it began have their routes, wherever the machine has
\* moved since, unless its user knows better
\* (sync_local_proxy_for_compose_action).
THEOREM RoutedAlone == ASSUME OneProcess PROVE Spec => []ComposesFullyRouted
<1>1. Init => RoutedInv
  BY DEF Init, RoutedInv, Before
<1>2. TypeOK /\ TypeOK' /\ SyncOrder /\ Alone /\ RoutedInv /\ [Next]_vars => RoutedInv'
  BY RoutedStep
<1>3. SyncOrder /\ RoutedInv => ComposesFullyRouted
  <2> SUFFICES ASSUME SyncOrder, RoutedInv, NEW p \in Process, pc[p] = "compose",
                      env[p] \notin excused
               PROVE  found[p] \subseteq Ids(routes)
    BY DEF ComposesFullyRouted, At
  <2>1. Syncs(p) /\ todo[p] = {}
    BY DEF SyncOrder
  <2> QED BY <2>1 DEF RoutedInv, RoutedOf
<1> QED BY <1>1, <1>2, <1>3, TypeCorrect, SitesStay, AloneAlways, PTL DEF Spec

\* The DELETEs of the only process leave of its environment what is still to do.
LEMMA UnroutedStep ==
  ASSUME OneProcess, LanStays, TypeOK, TypeOK', SyncOrder, EmptyInv, UnroutedInv, [Next]_vars
  PROVE  UnroutedInv'
<1>0. ASSUME NEW p \in Process, NEW q \in Process PROVE q = p
  BY DEF OneProcess
<1>1. ASSUME NEW p \in Process, Proceed(p) PROVE UnroutedInv'
  <2>1. CASE Unroute(p)
    <3>1. env' = env /\ pc' = pc /\ pc[p] = "unroute"
      BY <2>1 DEF Unroute, At, command
    <3>2. PICK i \in todo[p] :
            /\ todo' = [todo EXCEPT ![p] = @ \ {i}]
            /\ \/ /\ skipped' = [skipped EXCEPT ![p] = IF Running THEN @ \cup {i} ELSE @]
                  /\ UNCHANGED <<routes, outcome>>
               \/ routes' = Without(routes, i) /\ UNCHANGED <<outcome, skipped>>
               \/ outcome' = [outcome EXCEPT ![p] = IF @ = "failed" THEN @ ELSE "noted"]
               \/ outcome' = [outcome EXCEPT ![p] = "failed"]
      BY <2>1, Zenon DEF Unroute
    <3>3. todo'[p] = todo[p] \ {i}
      BY <3>2 DEF TypeOK, ControlOK
    <3> SUFFICES ASSUME outcome'[p] = "ok", NEW r \in routes', r.id[1] = env[p]
                 PROVE  r.id \in todo'[p] \cup skipped'[p]
      BY <1>0, <3>1 DEF UnroutedInv
    <3>4. outcome' # [outcome EXCEPT ![p] = IF @ = "failed" THEN @ ELSE "noted"]
      BY DEF TypeOK, ControlOK
    <3>5. outcome' # [outcome EXCEPT ![p] = "failed"]
      BY DEF TypeOK, ControlOK
    <3>6. CASE /\ skipped' = [skipped EXCEPT ![p] = IF Running THEN @ \cup {i} ELSE @]
               /\ UNCHANGED <<routes, outcome>>
      <4>1. Running
        BY <3>6 DEF EmptyInv, Running
      <4>2. skipped'[p] = skipped[p] \cup {i}
        BY <3>6, <4>1 DEF TypeOK, CommandOK
      <4> QED BY <3>1, <3>3, <3>6, <4>2 DEF UnroutedInv
    <3>7. CASE routes' = Without(routes, i) /\ UNCHANGED <<outcome, skipped>>
      BY <3>1, <3>3, <3>7 DEF UnroutedInv, Without
    <3> QED BY <3>2, <3>4, <3>5, <3>6, <3>7
  <2>2. CASE ComposeDown(p)
    <3>1. env' = env /\ routes' = routes
      BY <2>2 DEF ComposeDown, command, engine
    <3> SUFFICES ASSUME pc'[p] = "unroute", NEW r \in routes, r.id[1] = env[p]
                 PROVE  r.id \in todo'[p] \cup skipped'[p]
      BY <1>0, <3>1 DEF UnroutedInv
    <3>2. todo'[p] = IdsOf(env[p], lan)
      BY <2>2 DEF ComposeDown, Finish, Goto, TypeOK, ControlOK
    <3>3. Ip = lan
      BY DEF LanStays, Ip, TypeOK, EngineOK
    <3>4. r.id \in Env \X (Ip \cup {NoIp})
      BY DEF TypeOK, EngineOK, Route, Id
    <3> QED BY <3>2, <3>3, <3>4 DEF IdsOf
  <2>3. CASE QuietMove(p) \/ PatchServer(p) \/ ComposeUp(p)
    <3>1. pc'[p] # "unroute"
      <4>1. CASE QuietMove(p)
        BY <4>1 DEF QuietMove, Walks, Before
      <4>2. CASE PatchServer(p)
        BY <4>2, AbandonMoves DEF PatchServer, Goto, TypeOK, ControlOK
      <4>3. CASE ComposeUp(p)
        BY <4>3 DEF ComposeUp, Finish, Goto, TypeOK, ControlOK
      <4> QED BY <2>3, <4>1, <4>2, <4>3
    <3> QED BY <1>0, <3>1 DEF UnroutedInv
  <2> QED BY <1>1, <2>1, <2>2, <2>3, QuietFrame
<1>2. ASSUME NEW p \in Process, NEW c \in Commands, NEW e \in Env,
             NEW d \in Upstream, Begin(p, c, e, d)
      PROVE  UnroutedInv'
  <2>1. pc'[p] # "unroute"
    BY <1>2 DEF Begin, Goto, TypeOK, ControlOK
  <2> QED BY <1>0, <2>1 DEF UnroutedInv
<1>3. CASE World
  <2>1. UNCHANGED <<pc, todo, env, outcome, skipped>>
    BY <1>3 DEF World, BecomesReady, Exits, InstallVanishes, LanMoves, command
  <2>2. routes' \in {routes, {}}
    BY <1>3 DEF World, BecomesReady, Exits, InstallVanishes, LanMoves, engine, ForgetRoutes
  <2> QED BY <2>1, <2>2 DEF UnroutedInv
<1>4. CASE UNCHANGED vars
  BY <1>4 DEF vars, UnroutedInv
<1> QED BY <1>1, <1>2, <1>3, <1>4 DEF Next

\* With one command at a time, on a machine that keeps its LAN addresses, a `down`
\* that ends well and noted nothing has left no route of its environment but those
\* it skipped because docker did not show it the running proxy (remove_route for
\* each of the environment's routes).
THEOREM DownRemoves ==
  ASSUME OneProcess, LanStays PROVE Spec => DownRemovesRoutes
<1>1. Init => UnroutedInv
  BY DEF Init, UnroutedInv
<1>2. TypeOK /\ TypeOK' /\ SyncOrder /\ EmptyInv /\ UnroutedInv /\ [Next]_vars => UnroutedInv'
  BY UnroutedStep
<1>3. TypeOK /\ UnroutedInv /\ [Next]_vars =>
        [\A p \in Process :
           At(p, "unroute") /\ pc'[p] = "idle" /\ outcome'[p] = "ok"
             => \A r \in routes : r.id[1] = env[p] => r.id \in skipped[p]]_vars
  <2> SUFFICES ASSUME TypeOK, UnroutedInv, [Next]_vars, NEW p \in Process, pc[p] = "unroute",
                      pc'[p] = "idle", outcome'[p] = "ok"
               PROVE  \A r \in routes : r.id[1] = env[p] => r.id \in skipped[p]
    BY DEF At
  <2>1. Unrouted(p)
    <3>1. pc'[p] # pc[p]
      OBVIOUS
    <3>2. ~UNCHANGED vars /\ ~World
      BY <3>1 DEF vars, World, BecomesReady, Exits, InstallVanishes, LanMoves
    <3>3. ASSUME NEW q \in Process, NEW c \in Commands, NEW e \in Env,
                 NEW d \in Upstream, Begin(q, c, e, d)
          PROVE  FALSE
      <4>1. q = p
        BY DEF OneProcess
      <4> QED BY <3>3, <4>1 DEF Begin, At
    <3>4. Proceed(p)
      <4>1. ASSUME NEW q \in Process PROVE q = p
        BY DEF OneProcess
      <4> QED BY <3>2, <3>3, <4>1 DEF Next
    <3>5. ~Unroute(p)
      BY <3>1 DEF Unroute
    <3> QED BY <3>4, <3>5
            DEF Proceed, CheckEndpoint, EnsureNetwork, Probe, Exists, InspectMount,
                RemoveStale, StartExisting, RunNew, Settle, Attach, WaitAdmin, ReadServer,
                PatchServer, ComposeUp, ComposeDown, StopCheck, StopRemove, Step, Fails, At
  <2>2. todo[p] = {} /\ outcome[p] = "ok"
    BY <2>1 DEF Unrouted, Finish, TypeOK, ControlOK
  <2> QED BY <2>2 DEF UnroutedInv
<1> QED BY <1>1, <1>2, <1>3, TypeCorrect, SitesStay, EmptyAlways, PTL
        DEF Spec, DownRemovesRoutes
=============================================================================
