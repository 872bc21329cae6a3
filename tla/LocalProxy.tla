----------------------------- MODULE LocalProxy -----------------------------
(***************************************************************************)
(* The machine-wide Caddy container `catalpa-local-proxy` and the commands *)
(* that share it (local_proxy.py, local_proxy_cli.py and the callers in    *)
(* env_handlers.py and dk_transfer.py).  Every `dk` command is a process   *)
(* of its own, nothing locks the proxy between them, and each Docker call  *)
(* or admin-API request is one step.                                       *)
(***************************************************************************)
EXTENDS Naturals, FiniteSets

CONSTANTS Process,    \* the terminals, hooks and agents that run commands
          Env,        \* the environments of this machine (compose projects)
          Upstream,   \* the dial addresses an info.yaml may give an environment
          NoIp,       \* the address part of a base route
          LanSets     \* the address sets detect_dev_lan_ipv4 returns over time

ASSUME LanAssumption == /\ LanSets # {}
                        /\ \A s \in LanSets : NoIp \notin s
ASSUME UpstreamAssumption == Upstream # {}

Ip == UNION LanSets

Id    == Env \X (Ip \cup {NoIp})
Route == [id : Id, dial : Upstream]

\* The Docker engine and the Caddy it runs.
VARIABLES network,    \* does catalpa-local-proxy-net exist?
          proxy,      \* the container: "absent", "exited", "starting", "serving"
          attached,   \* is the container on that network?
          stale,      \* has its Caddyfile bind source vanished from the host?
          routes,     \* routes of the :443 server in the running Caddy
          lan,        \* this machine's LAN addresses now
          stack       \* stack[e]: "up" or "down", the containers of environment e
\* One command per process.
VARIABLES pc, cmd, env,
          dial,       \* the upstream the command read from its environment's info
          found,      \* the ids an up worked out when it began (history)
          todo,       \* the ids still to register or to remove
          snap,       \* the server's routes as GET returned them
          outcome     \* of its last command: "ok", "noted" or "failed"
\* History.
VARIABLES excused,    \* environments whose user knows the site may be missing
          raced,      \* has a command undone the work of a concurrent one?
          skipped     \* ids a down left because docker showed it no running proxy

engine  == <<network, proxy, attached, stale, routes>>
command == <<cmd, env, dial, found>>
vars == <<network, proxy, attached, stale, routes, lan, stack,
          pc, cmd, env, dial, found, todo, snap, outcome, excused, raced, skipped>>

Running == proxy \in {"starting", "serving"}

IdsOf(e, ips) == {e} \X (ips \cup {NoIp})
BaseId(e)     == <<e, NoIp>>
Ids(S)        == {r.id : r \in S}
Without(S, i) == {r \in S : r.id # i}

Commands == {"up", "transfer", "down", "proxyUp", "proxyDown"}
Labels   == {"idle", "preNetwork", "endpoint", "network", "probe", "exists", "inspect",
             "remove", "run", "start", "settleRun", "settleStart", "attach",
             "admin", "read", "patch", "compose", "composeDown", "unroute",
             "stop", "rm"}

EngineOK ==
  /\ network \in BOOLEAN /\ attached \in BOOLEAN /\ stale \in BOOLEAN
  /\ proxy \in {"absent", "exited", "starting", "serving"}
  /\ routes \subseteq Route
  /\ lan \in LanSets
  /\ stack \in [Env -> {"up", "down"}]
  /\ raced \in BOOLEAN

CommandOK ==
  /\ cmd \in [Process -> Commands]
  /\ env \in [Process -> Env]
  /\ dial \in [Process -> Upstream]
  /\ found \in [Process -> SUBSET Id]
  /\ skipped \in [Process -> SUBSET Id]

ControlOK ==
  /\ pc \in [Process -> Labels]
  /\ todo \in [Process -> SUBSET Id]
  /\ snap \in [Process -> SUBSET Route]
  /\ outcome \in [Process -> {"ok", "noted", "failed"}]
  /\ excused \subseteq Env

TypeOK == EngineOK /\ CommandOK /\ ControlOK

\* A machine may hold a proxy container of an earlier day: stopped or running,
\* made before the shared network existed or by an install since deleted.
Init ==
  /\ network \in BOOLEAN
  /\ proxy \in {"absent", "exited", "serving"}
  /\ attached \in BOOLEAN
  /\ attached => (network /\ proxy # "absent")
  /\ stale \in BOOLEAN
  /\ stale => proxy # "absent"
  /\ routes = {}
  /\ lan \in LanSets
  /\ stack = [e \in Env |-> "down"]
  /\ pc = [p \in Process |-> "idle"]
  /\ cmd \in [Process -> {"up"}]
  /\ env \in [Process -> Env] /\ dial \in [Process -> Upstream]
  /\ found = [p \in Process |-> {}]
  /\ todo = [p \in Process |-> {}]
  /\ snap = [p \in Process |-> {}]
  /\ outcome = [p \in Process |-> "ok"]
  /\ excused = {}
  /\ raced = FALSE
  /\ skipped = [p \in Process |-> {}]

-----------------------------------------------------------------------------
(* Moving a process. *)

At(p, l)  == pc[p] = l
Goto(p, l) == pc' = [pc EXCEPT ![p] = l]

Finish(p, how) == /\ Goto(p, "idle")
                  /\ outcome' = [outcome EXCEPT ![p] = how]
                  /\ todo' = [todo EXCEPT ![p] = {}]
                  /\ snap' = [snap EXCEPT ![p] = {}]

Syncs(p) == cmd[p] \in {"up", "transfer"}

\* A proxy error ends the command, except that resuming a stack after a media
\* transfer only warns and goes on to compose (dk_transfer.py).
Abandon(p) ==
  IF cmd[p] = "transfer"
  THEN /\ Goto(p, "compose")
       /\ todo' = [todo EXCEPT ![p] = {}]
       /\ snap' = [snap EXCEPT ![p] = {}]
       /\ excused' = excused \cup {env[p]}
       /\ UNCHANGED outcome
  ELSE Finish(p, "failed") /\ UNCHANGED excused

\* ensure_proxy_running returned 0: `dk proxy up` is done, an up goes on.
Ensured(p) == IF Syncs(p)
              THEN Goto(p, "admin") /\ UNCHANGED <<outcome, todo, snap>>
              ELSE Finish(p, "ok")

Step(p, from, to) == /\ At(p, from)
                     /\ Goto(p, to)
                     /\ UNCHANGED <<outcome, todo, snap, excused>>

Fails(p, from) == At(p, from) /\ Abandon(p)

\* The stopped or removed Caddy takes its routes along (they are only in memory:
\* `caddy run --config` without --resume), and whoever did it, or a crash, is
\* visible to the user of every site.
ForgetRoutes == routes' = {} /\ excused' = Env

Quiet == UNCHANGED <<lan, stack, raced, skipped>> /\ UNCHANGED command

-----------------------------------------------------------------------------
(* The commands. *)

\* `dk <env> up`, the up that resumes a stack after a transfer, `dk <env> down`,
\* `dk proxy up|down`.
Begin(p, c, e, d) ==
  /\ At(p, "idle")
  /\ cmd' = [cmd EXCEPT ![p] = c]
  /\ env' = [env EXCEPT ![p] = e]
  /\ dial' = [dial EXCEPT ![p] = d]
  /\ Goto(p, IF c = "down" THEN "composeDown"
             ELSE IF c \in {"up", "transfer"} THEN "preNetwork" ELSE "endpoint")
  \* local_proxy_routes runs before the proxy is touched on `up`
  /\ found' = [found EXCEPT ![p] = IF c \in {"up", "transfer"}
                                   THEN IdsOf(e, lan) ELSE {}]
  /\ todo' = [todo EXCEPT ![p] = found'[p]]
  /\ skipped' = [skipped EXCEPT ![p] = {}]
  /\ UNCHANGED <<engine, lan, stack, snap, outcome, excused, raced>>

\* require_local_docker_endpoint
CheckEndpoint(p) ==
  /\ \/ Step(p, "endpoint", IF cmd[p] = "proxyDown" THEN "stop" ELSE "network")
     \/ Fails(p, "endpoint")
  /\ UNCHANGED engine /\ Quiet

\* ensure_proxy_network: `docker network create` may fail, as it does for a network
\* `inspect` did not show.  An up calls it once before the endpoint is checked,
\* perhaps on an engine that is not this machine's.
EnsureNetwork(p) ==
  /\ \/ Step(p, "network", "probe") /\ network' = TRUE
     \/ Step(p, "preNetwork", "endpoint") /\ network' \in {network, TRUE}
     \/ /\ UNCHANGED network
        /\ Fails(p, "network") \/ Fails(p, "preNetwork")
  /\ UNCHANGED <<proxy, attached, stale, routes>> /\ Quiet

\* Mutants (here and below): a slip each property must notice.
\* `docker ps -q`: a running proxy is left as it is.  Here and in the next two a
\* `docker` that fails shows nothing, for its return code is not looked at.
Probe(p) ==
  /\ \/ Running /\ Step(p, "probe", "attach")
     \/ Step(p, "probe", "exists")
  /\ UNCHANGED engine /\ Quiet

\* `docker ps -aq`
Exists(p) ==
  /\ \/ proxy # "absent" /\ Step(p, "exists", "inspect")
     \/ Step(p, "exists", "run")
  /\ UNCHANGED engine /\ Quiet

\* proxy_caddyfile_mount_is_stale (a missing container has no mounts to report);
\* a container without the SELinux label is one more reason to recreate it.
InspectMount(p) ==
  /\ \/ stale /\ proxy # "absent" /\ Step(p, "inspect", "remove")
     \/ Step(p, "inspect", "start")
  /\ UNCHANGED engine /\ Quiet

\* `docker rm -f`, whatever the container is doing by now
RemoveStale(p) ==
  /\ At(p, "remove")
  /\ \/ /\ Goto(p, "run")
        /\ proxy' = "absent" /\ attached' = FALSE /\ stale' = FALSE
        /\ ForgetRoutes
        /\ UNCHANGED <<outcome, todo, snap>>
     \/ Abandon(p) /\ UNCHANGED <<proxy, attached, stale, routes>>
  /\ UNCHANGED network /\ Quiet

\* `docker start` of what exists: nothing to do for a running container, an
\* error for a vanished container or Caddyfile
StartExisting(p) ==
  /\ At(p, "start")
  /\ \/ /\ Running \/ (proxy = "exited" /\ ~stale)
        /\ Step(p, "start", "settleStart")
        /\ proxy' = IF Running THEN proxy ELSE "starting"
     \/ /\ ~Running
        /\ Fails(p, "start")
        /\ UNCHANGED proxy
  /\ UNCHANGED <<network, attached, stale, routes>> /\ Quiet

\* `docker run -d --name`: refused when the name is taken; with the ports taken
\* the container is left behind, created but not running
RunNew(p) ==
  /\ At(p, "run")
  /\ \/ /\ proxy = "absent"
        /\ Step(p, "run", "settleRun")
        /\ proxy' = "starting" /\ attached' = TRUE /\ stale' = FALSE
     \/ /\ Fails(p, "run")
        /\ \/ UNCHANGED <<proxy, attached, stale>>
           \/ /\ proxy = "absent"
              /\ proxy' = "exited" /\ attached' = TRUE /\ stale' = FALSE
  /\ UNCHANGED <<network, routes>> /\ Quiet

\* wait_for_proxy_to_stay_up: false only for a container seen not running; one
\* that cannot be inspected outlasts the settle window and counts as up
Settle(p) ==
  /\ \/ Step(p, "settleStart", "attach")
     \/ At(p, "settleRun") /\ Ensured(p) /\ UNCHANGED excused
     \/ /\ proxy = "exited"
        /\ Fails(p, "settleStart") \/ Fails(p, "settleRun")
  /\ UNCHANGED engine /\ Quiet

\* ensure_proxy_on_network: connects a running container, ignores one that is not
\* or that `docker ps` does not show
Attach(p) ==
  /\ At(p, "attach")
  /\ \/ /\ Ensured(p) /\ UNCHANGED excused
        /\ attached' \in {attached, attached \/ Running}
     \/ /\ Running
        /\ Abandon(p) /\ UNCHANGED attached
  /\ UNCHANGED <<network, proxy, stale, routes>> /\ Quiet

WaitAdminForever(p) ==
  /\ proxy = "serving" /\ Step(p, "admin", "read")
  /\ UNCHANGED engine /\ Quiet

\* wait_for_proxy_admin: polls for 15 seconds
WaitAdmin(p) ==
  /\ \/ proxy = "serving" /\ Step(p, "admin", "read")
     \/ proxy # "serving" /\ Fails(p, "admin")
  /\ UNCHANGED engine /\ Quiet

\* upsert_route, first half: GET the :443 server with all its routes
ReadServer(p) ==
  /\ At(p, "read")
  /\ \/ /\ proxy = "serving"
        /\ Goto(p, "patch")
        /\ snap' = [snap EXCEPT ![p] = routes]
        /\ UNCHANGED <<outcome, todo, excused>>
     \/ Abandon(p)
  /\ UNCHANGED engine /\ Quiet

MergedDropsOthers(S, r) == {r}
MergedDialsHost(S, r)   == Without(S, r.id) \cup {[r EXCEPT !.dial = r.id[1]]}

\* What upsert_route writes back: the routes it read, the old one of that id
\* taken out and the new one appended.
Merged(S, r) == Without(S, r.id) \cup {r}

\* upsert_route, second half: PATCH the whole server.  The request may fail, or
\* be applied and its answer lost.
PatchServer(p) ==
  /\ At(p, "patch")
  /\ \E i \in todo[p] :
       LET r == [id |-> i, dial |-> dial[p]] IN
       /\ BaseId(env[p]) \in todo[p] => i = BaseId(env[p])   \* LAN routes follow
       /\
          \/ /\ proxy = "serving"
             /\ routes' = Merged(snap[p], r)
             /\ raced' = (raced \/ \E x \in routes : x \notin snap[p] /\ x.id # i)
             /\ \/ /\ todo' = [todo EXCEPT ![p] = @ \ {i}]
                   /\ snap' = [snap EXCEPT ![p] = {}]
                   /\ Goto(p, IF todo[p] = {i} THEN "compose" ELSE "read")
                   /\ excused' = excused \ {e \in Env : BaseId(e) = i}
                   /\ UNCHANGED outcome
                \/ Abandon(p)
          \/ Abandon(p) /\ UNCHANGED <<routes, raced>>
  /\ UNCHANGED <<network, proxy, attached, stale, lan, stack, skipped>>
  /\ UNCHANGED command

\* docker compose up: containers may be there even when it fails
ComposeUp(p) ==
  /\ At(p, "compose")
  /\ \/ /\ stack' = [stack EXCEPT ![env[p]] = "up"]
        /\ Finish(p, "ok") \/ Finish(p, "failed")
     \/ UNCHANGED stack /\ Finish(p, "failed")
  /\ UNCHANGED <<engine, lan, excused, raced, skipped>> /\ UNCHANGED command

ComposeDownIgnoresFailure(p) ==
  /\ At(p, "composeDown")
  /\ stack' \in {stack, [stack EXCEPT ![env[p]] = "down"]}
  /\ Goto(p, "unroute")
  /\ todo' = [todo EXCEPT ![p] = IdsOf(env[p], lan)]
  /\ outcome' = [outcome EXCEPT ![p] = "ok"]
  /\ UNCHANGED snap
  /\ UNCHANGED <<engine, lan, excused, raced, skipped>> /\ UNCHANGED command

ComposeDownForgetsLan(p) ==
  /\ At(p, "composeDown")
  /\ \/ /\ stack' = [stack EXCEPT ![env[p]] = "down"]
        /\ Goto(p, "unroute")
        /\ todo' = [todo EXCEPT ![p] = {BaseId(env[p])}]
        /\ outcome' = [outcome EXCEPT ![p] = "ok"]
        /\ UNCHANGED snap
     \/ UNCHANGED stack /\ Finish(p, "failed")
  /\ UNCHANGED <<engine, lan, excused, raced, skipped>> /\ UNCHANGED command

\* docker compose down comes first; only its success reaches the routes, and
\* these are worked out from the addresses the machine has now
ComposeDown(p) ==
  /\ At(p, "composeDown")
  /\ \/ /\ stack' = [stack EXCEPT ![env[p]] = "down"]
        /\ Goto(p, "unroute")
        /\ todo' = [todo EXCEPT ![p] = IdsOf(env[p], lan)]
        /\ outcome' = [outcome EXCEPT ![p] = "ok"]
        /\ UNCHANGED snap
     \/ UNCHANGED stack /\ Finish(p, "failed")
  /\ UNCHANGED <<engine, lan, excused, raced, skipped>> /\ UNCHANGED command

\* Some other command has made, or is making, a promise about this environment.
Promised(p, e) == \/ stack[e] = "up"
                  \/ \E q \in Process \ {p} :
                        Syncs(q) /\ env[q] = e /\ pc[q] # "idle"

\* remove_route, for each route in turn: skipped without a word when `docker ps`
\* shows no proxy, be it that none runs or that docker failed; an API that cannot
\* be reached is noted; an HTTP error fails the command but not the loop
Unroute(p) ==
  /\ At(p, "unroute")
  /\ \E i \in todo[p] :
       /\ todo' = [todo EXCEPT ![p] = @ \ {i}]
       /\ \/ /\ skipped' = [skipped EXCEPT ![p] = IF Running THEN @ \cup {i} ELSE @]
             /\ UNCHANGED <<routes, raced, outcome>>
          \/ /\ proxy = "serving"
             /\ routes' = Without(routes, i)
             /\ raced' = (raced \/ Promised(p, env[p]))
             /\ UNCHANGED skipped
             /\ \/ UNCHANGED outcome
                \/ outcome' = [outcome EXCEPT ![p] =
                                 IF @ = "failed" THEN @ ELSE "noted"]
          \/ /\ Running
             /\ outcome' = [outcome EXCEPT ![p] =
                              IF @ = "failed" THEN @ ELSE "noted"]
             /\ UNCHANGED <<routes, raced, skipped>>
          \/ /\ proxy = "serving"
             /\ outcome' = [outcome EXCEPT ![p] = "failed"]
             /\ UNCHANGED <<routes, raced, skipped>>
  /\ UNCHANGED <<network, proxy, attached, stale, lan, stack, pc, snap, excused>>
  /\ UNCHANGED command

Unrouted(p) ==
  /\ At(p, "unroute") /\ todo[p] = {}
  /\ Finish(p, outcome[p])
  /\ UNCHANGED <<engine, excused>> /\ Quiet

\* stop_proxy: done when docker shows no container
StopCheck(p) ==
  /\ \/ proxy # "absent" /\ Step(p, "stop", "rm")
     \/ At(p, "stop") /\ Finish(p, "ok") /\ UNCHANGED excused
  /\ UNCHANGED engine /\ Quiet

StopRemove(p) ==
  /\ At(p, "rm")
  /\ Finish(p, "ok")
  /\ \/ /\ proxy' = "absent" /\ attached' = FALSE /\ stale' = FALSE
        /\ ForgetRoutes
     \/ UNCHANGED <<proxy, attached, stale, routes, excused>>
  /\ UNCHANGED network /\ Quiet

-----------------------------------------------------------------------------
(* The world around the commands. *)

\* The container answers its admin API a moment after Docker reports it started.
BecomesReady ==
  /\ proxy = "starting" /\ proxy' = "serving"
  /\ UNCHANGED <<network, attached, stale, routes, lan, stack, pc, todo, snap,
                 outcome, excused, raced, skipped>>
  /\ UNCHANGED command

\* It exits: a crash, an unreadable Caddyfile, a reboot (it has no restart policy).
Exits ==
  /\ Running /\ proxy' = "exited"
  /\ ForgetRoutes
  /\ UNCHANGED <<network, attached, stale, lan, stack, pc, todo, snap,
                 outcome, raced, skipped>> /\ UNCHANGED command

\* The virtualenv that held its Caddyfile is rebuilt or moved.
InstallVanishes ==
  /\ proxy # "absent" /\ ~stale /\ stale' = TRUE
  /\ UNCHANGED <<network, proxy, attached, routes, lan, stack, pc, todo, snap,
                 outcome, excused, raced, skipped>>
  /\ UNCHANGED command

\* The machine joins another network.
LanMoves ==
  /\ lan' \in LanSets \ {lan}
  /\ UNCHANGED <<engine, stack, pc, todo, snap, outcome, excused, raced, skipped>>
  /\ UNCHANGED command

-----------------------------------------------------------------------------
Proceed(p) ==
  \/ CheckEndpoint(p) \/ EnsureNetwork(p) \/ Probe(p) \/ Exists(p)
  \/ InspectMount(p) \/ RemoveStale(p) \/ StartExisting(p) \/ RunNew(p)
  \/ Settle(p) \/ Attach(p) \/ WaitAdmin(p) \/ ReadServer(p) \/ PatchServer(p)
  \/ ComposeUp(p) \/ ComposeDown(p) \/ Unroute(p) \/ Unrouted(p)
  \/ StopCheck(p) \/ StopRemove(p)

World == BecomesReady \/ Exits \/ InstallVanishes \/ LanMoves

Next == \/ \E p \in Process :
             \/ \E c \in Commands, e \in Env, d \in Upstream : Begin(p, c, e, d)
             \/ Proceed(p)
        \/ World

Spec == Init /\ [][Next]_vars

\* A command that was started keeps running: nothing it waits for is unbounded.
FairSpec == Spec /\ \A p \in Process : WF_vars(Proceed(p))

-----------------------------------------------------------------------------
(* Properties. *)

\* UniqueIds: no two routes of the running Caddy have the same @id, also after an upstream
\* changed or a PATCH replaced the server with an older reading of it
\* (upsert_route filters the old entry; Caddy addresses routes by id).
UniqueIn(S) == \A x, y \in S : x.id = y.id => x = y

UniqueIds == UniqueIn(routes)

Served == {e \in Env : BaseId(e) \in Ids(routes)}

\* An environment that is up has its site in the proxy, unless its user was told
\* (the proxy stopped, a transfer warned) or two commands raced: routes are
\* registered before `compose up` and removed after `compose down`, and no other
\* environment's command takes them away (sync_local_proxy_for_compose_action).
SitesStayRegistered ==
  \A e \in Env : stack[e] = "up" /\ e \notin excused /\ ~raced => e \in Served

\* Why it holds: a command registers the base route before the others and composes
\* last (the inductive invariant of LocalProxyProofs).
Before == {"preNetwork", "endpoint", "network", "probe", "exists", "inspect",
           "remove", "run", "start", "settleRun", "settleStart", "attach", "admin"}

SyncOrder ==
  \A p \in Process :
    /\ pc[p] \in Before /\ Syncs(p) => BaseId(env[p]) \in todo[p]
    /\ pc[p] \in {"admin", "read", "patch", "compose"} => Syncs(p)
    /\ /\ pc[p] \in {"read", "patch", "compose"}
       /\ BaseId(env[p]) \notin todo[p] /\ env[p] \notin excused /\ ~raced
       => env[p] \in Served
    /\ pc[p] = "compose" => todo[p] = {}
    /\ pc[p] = "unroute" => \A i \in todo[p] : i[1] = env[p]

\* An up composes only when the host and every LAN address it found when it began
\* have their routes, also if the machine has since moved to another network
\* (sync_local_proxy_for_compose_action registers each route before the compose call).
ComposesFullyRouted ==
  \A p \in Process :
    At(p, "compose") /\ env[p] \notin excused => found[p] \subseteq Ids(routes)

\* The same with no exception for races: what "registers route(s)" means to the
\* reader of README_DEV_PROXY.md.  One command at a time has it; two have not.
SitesSurviveOtherCommands ==
  \A e \in Env : stack[e] = "up" /\ e \notin excused => e \in Served

\* Of a `down` that ends well, having printed no note about the proxy, the only
\* routes of its environment left are those it skipped while docker failed to show
\* the running proxy (remove_route; "that env's route(s) are removed",
\* README_DEV_PROXY.md).
DownRemovesRoutes ==
  [][\A p \in Process :
       At(p, "unroute") /\ pc'[p] = "idle" /\ outcome'[p] = "ok"
         => \A r \in routes : r.id[1] = env[p] => r.id \in skipped[p]]_vars

\* The same without that exception, which the code has not: a `docker ps` that fails
\* is a proxy that does not run (proxy_container_id), and the route stays unannounced.
QuietDownRemovesRoutes ==
  [][\A p \in Process :
       At(p, "unroute") /\ pc'[p] = "idle" /\ outcome'[p] = "ok"
         => \A r \in routes : r.id[1] # env[p]]_vars

\* `docker rm -f` on the way up hits only a container that was not running: the
\* shared proxy is never recreated under the sites it serves
\* (ensure_proxy_running: "if it is not already running").
RecreatesOnlyStopped ==
  [][\A p \in Process : At(p, "remove") /\ pc'[p] = "run" => ~Running]_vars

\* Every command ends, whatever the containers do meanwhile: each wait has a
\* deadline and each loop over routes gets shorter.
EveryCommandEnds ==
  \A p \in Process : ~At(p, "idle") ~> At(p, "idle")

\* One command at a time implements the table RouteRegistry promises.
RouteId(r) == r.id

Registry == INSTANCE RouteRegistry
              WITH Entry <- Route, IdOf <- RouteId, table <- routes

ImplementsRegistry == Registry!Spec
=============================================================================
