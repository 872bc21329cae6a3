----------------------------- MODULE BackupHosts -----------------------------
(***************************************************************************)
(* What dk installs on the deploy host and on the backup host of a closed  *)
(* data centre: the systemd units of the pgBackRest and restic backups, of *)
(* the offsite copy and of the Zabbix agent, the TLS material, the Garage  *)
(* stack, and the log rotation of the Docker daemon.                       *)
(*                                                                         *)
(* A command reads the configuration once and then carries out a fixed     *)
(* list of remote steps over ssh, each of which may fail or be the last    *)
(* one before a kill.  A step either happens or does not; a file cut short *)
(* by a broken scp is not modelled.  systemd, docker, Garage and Caddy are *)
(* external.  Provisioning the bucket and its keys is in BackupKeys.       *)
(***************************************************************************)
EXTENDS Integers, Sequences, FiniteSets, SequencesExt

CONSTANTS
    Kinds,        \* commands that are given
    Completions,  \* sets of timer units for which credentials may be complete
    MaxVersion,   \* bound: versions of credentials and info.yaml
    MaxCommands   \* bound: commands in a behaviour

AllKinds == {"pgbr", "restic", "offsite", "offsite-run", "agent", "agent-local", "enable", "disable",
             "restart", "issue", "tls", "bootstrap", "stack", "logging", "logcheck"}

ASSUME BackupHostsAssumption ==
    /\ Kinds \subseteq AllKinds
    /\ Completions \subseteq SUBSET {"pgbr", "restic", "offsite"}
    /\ MaxVersion \in Nat \ {0} /\ MaxCommands \in Nat

VARIABLES
    creds,     \* version of the credentials and of info.yaml
    complete,  \* timer units whose credentials are complete
    sops,      \* the encrypted files: the command that made each
    disk,      \* files on the hosts: version, 0 missing, -1 a directory
    own,       \* the operator's keys are in the agent's environment
    db,        \* whose database the environment of the pgBackRest backup names
    exec,      \* timer units whose script may be executed
    loaded,    \* unit files as systemd has read them
    enabled,   \* enabled timers, and the agent's service
    agent,     \* what the running agent was started with
    wanted,    \* systemd keeps the agent running
    wrote,     \* history: the version of each file in the agent's last whole installation
    garage,    \* what the running Garage and Caddy were started with
    daemon,    \* log driver of the running daemon, and of daemon.json
    torn,      \* history: installations that did not come to their end
    reported,  \* history: what Garage's log was when log rotation was last reported in force
    cmd, outcome, commands

vars == <<creds, complete, sops, disk, own, db, exec, loaded, enabled, agent, wanted, wrote,
          garage, daemon, torn, reported, cmd, outcome, commands>>
config == <<creds, complete>>
bodies == <<own, db>>
service == <<agent, wanted>>
installs == <<wrote, torn>>
units == <<exec, loaded, enabled, service, installs>>
backup == <<garage, daemon, reported>>

Timers == {"pgbr", "restic", "offsite"}
Units == Timers \cup {"agent"}

(* The script of the agent is its file of user parameters.                 *)
Parts == {"script", "env", "unit"}
UnitFiles == Units \X Parts
TlsFiles == {<<"tls", f>> : f \in {"ca", "crt", "key"}}
StackFiles == {<<"garage", f>> : f \in {"compose", "toml", "caddy"}}
AppCa == <<"app", "ca">>
Files == UnitFiles \cup TlsFiles \cup StackFiles \cup {AppCa}

Versions == 0..(MaxVersion + MaxCommands + 1)
Databases == {"own", "other", "third"}
NoAgent == [env |-> 0, script |-> 0, unit |-> 0]
NoGarage == [toml |-> 0, crt |-> 0, key |-> 0, log |-> "none"]
Idle == [kind |-> "none", todo |-> <<>>]
NoOutcome == [kind |-> "none", ok |-> FALSE]

TypeOK ==
    /\ creds \in 1..MaxVersion /\ complete \in Completions
    /\ own \in BOOLEAN /\ db \in {"none"} \cup Databases
    /\ sops \in [{"tls", "stack"} -> Versions \cup {-1}]
    /\ disk \in [Files -> Versions \cup {-1}]
    /\ exec \subseteq Timers /\ enabled \subseteq Units /\ torn \subseteq Units \cup {"agent-local"}
    /\ loaded \in [Units -> Versions]
    /\ agent \in [Parts -> Versions \cup {-1}] /\ wanted \in BOOLEAN
    /\ wrote \in [Parts -> Versions]
    /\ reported \in {"nothing", "capped", "uncapped"}
    /\ garage.log \in {"none", "json-file", "local"}
    /\ daemon \in [running : {"json-file", "local"}, file : {"json-file", "local"}]
    /\ cmd.kind \in Kinds \cup {"none"} /\ outcome.kind \in Kinds \cup {"none"}
    /\ commands \in 0..MaxCommands

----------------------------------------------------------------------------
(* The steps of a command, and what a command consists of.  `at` is a file *)
(* or a unit, `v` the version written.                                     *)

Step(op, at, v) == [op |-> op, at |-> at, v |-> v]
Reload == Step("reload", <<>>, 0)

(* What is rendered from the credentials and info.yaml, by their version.  *)
Put(u, part) == Step("install", <<u, part>>, creds)
UnitFile(u) == Put(u, "unit")
OffsiteEnv == Put("offsite", "env")
AgentUnit(op) == Step(op, <<"agent", "unit">>, creds)
AgentParameters == Step("tee", <<"agent", "script">>, creds)

(* _merge_env_keys starts from the file on the host, when it was read.     *)
AgentEnv(keep) == Step("merge", keep, creds)

(* discover_db_container: the one container of the project, or the only    *)
(* database that runs at all.                                              *)
Discovered(running) ==
    IF "own" \in running THEN {"own"}
    ELSE IF Cardinality(running) = 1 THEN running ELSE {}

PgbrEnv(container) == Step("dbenv", container, creds)

EnableBoth(u) == <<Step("enable", "pgbr", 0), Step("enable", "restic", 0)>>
EnableTimer(u) == <<Step("enable", u, 0)>>
Enabling(u, enable) == IF enable THEN EnableTimer(u) ELSE <<>>

(* cmd_install_systemd_backups for one half, and offsite install.          *)
BackupsPlan(u, env, enable) ==
    <<Put(u, "script"), Step("chmod", u, 0), UnitFile(u), env, Reload>> \o Enabling(u, enable)

OffsitePlan(enable) ==
    <<Put("offsite", "script"), Step("chmod", "offsite", 0), OffsiteEnv, UnitFile("offsite"), Reload>>
        \o Enabling("offsite", enable)

OffsiteRunPlan == <<OffsiteEnv, Step("start", "offsite", 0)>>

(* _remote_install_script writes through tee; cmd_install, on the machine  *)
(* itself, copies and leaves out the user parameters.                      *)
AgentPlan(keep) == <<AgentEnv(keep), AgentParameters, AgentUnit("tee"), Reload>>
AgentLocalPlan(keep) == <<AgentEnv(keep), AgentUnit("install"), Reload>>

(* cmd_dc_backup_tls_install: the backup host first.                       *)
TlsPlanAppFirst ==
    <<Step("install", AppCa, sops.tls), Step("install", <<"tls", "ca">>, sops.tls),
      Step("install", <<"tls", "crt">>, sops.tls), Step("install", <<"tls", "key">>, sops.tls)>>
TlsPlan ==
    <<Step("install", <<"tls", "ca">>, sops.tls), Step("install", <<"tls", "crt">>, sops.tls),
      Step("install", <<"tls", "key">>, sops.tls), Step("install", AppCa, sops.tls)>>

(* cmd_dc_backup_install.                                                  *)
StackPlan(up) ==
    <<Step("require", <<>>, 0),
      Step("install", <<"garage", "compose">>, sops.stack), Step("install", <<"garage", "toml">>, sops.stack),
      Step("install", <<"garage", "caddy">>, sops.stack)>>
        \o (IF up THEN <<Step("up", <<>>, 0)>> ELSE <<>>)

(* write_encrypted_yaml.                                                   *)
WritePlan(file) == <<Step("plain", file, 0), Step("encrypt", file, MaxVersion + commands + 1)>>

(* HostLogStatus.daemon_ok, and what the check of the containers adds.     *)
DaemonOkByFile == daemon.file = "local"
DaemonOk == daemon.running = "local" /\ daemon.file = "local"
Capped == garage.log # "json-file"

LoggingPlan == <<Step("daemon", <<>>, 0), Step("dockerd", <<>>, 0), Step("probe", <<>>, 0)>>

----------------------------------------------------------------------------
(* The beginning and the end of a command.                                 *)

Finish(ok) == cmd' = Idle /\ outcome' = [kind |-> cmd.kind, ok |-> ok]

Begins(kind, plan) ==
    /\ cmd.kind = "none" /\ kind \in Kinds /\ commands < MaxCommands
    /\ commands' = commands + 1
    /\ cmd' = [kind |-> kind, todo |-> plan] /\ outcome' = NoOutcome
    /\ UNCHANGED <<config, bodies, sops, disk, exec, loaded, enabled, service, wrote, backup>>

Installs(u) == torn' = torn \cup {u}

(* Refused without credentials; --enable is confirmed before anything is   *)
(* copied.                                                                 *)
InstallBackups ==
    \E enable \in BOOLEAN :
        \/ /\ "pgbr" \in complete /\ Installs("pgbr")
           /\ \E running \in SUBSET Databases : \E container \in Discovered(running) :
                Begins("pgbr", BackupsPlan("pgbr", PgbrEnv(container), enable))
        \/ /\ "restic" \in complete /\ Installs("restic")
           /\ Begins("restic", BackupsPlan("restic", Put("restic", "env"), enable))

InstallOffsite ==
    \E enable \in BOOLEAN :
        "offsite" \in complete /\ Begins("offsite", OffsitePlan(enable)) /\ Installs("offsite")

RunOffsite ==
    "offsite" \in complete /\ Begins("offsite-run", OffsiteRunPlan) /\ UNCHANGED torn

(* A file that cannot be read is taken for one that is not there.          *)
InstallAgent == \E read \in BOOLEAN : Begins("agent", AgentPlan(read)) /\ Installs("agent")
InstallAgentLocally ==
    \E read \in BOOLEAN : Begins("agent-local", AgentLocalPlan(read)) /\ Installs("agent-local")

(* enable and restart ask for the environment file alone.                  *)
ControlAgent ==
    \E kind \in {"enable", "disable", "restart"} :
        /\ kind # "disable" => disk[<<"agent", "env">>] # 0
        /\ Begins(kind, <<Step(kind, "agent", 0)>>)
        /\ UNCHANGED torn

(* tls issue and bootstrap refuse to overwrite their file, however damaged *)
(* it is, unless they are forced.                                          *)
MakeSecrets ==
    \E file \in {"tls", "stack"}, force \in BOOLEAN :
        /\ sops[file] # 0 => force
        /\ Begins(IF file = "tls" THEN "issue" ELSE "bootstrap", WritePlan(file))
        /\ UNCHANGED torn

InstallTls == sops.tls > 0 /\ Begins("tls", TlsPlan) /\ UNCHANGED torn

InstallStack ==
    \E up \in BOOLEAN : sops.stack > 0 /\ Begins("stack", StackPlan(up)) /\ UNCHANGED torn

(* daemon.json that cannot be read is taken for one that is not there, and *)
(* containers that cannot be listed for none (probe_host_logging).         *)
ApplyLogging ==
    \E read \in BOOLEAN : ~(DaemonOk /\ read) /\ Begins("logging", LoggingPlan) /\ UNCHANGED torn

InForce(ok) ==
    reported' = IF ok THEN IF Capped THEN "capped" ELSE "uncapped" ELSE reported

(* Nothing to apply, or only a check.                                      *)
CheckLogging ==
    \E kind \in {"logging", "logcheck"}, read, listed \in BOOLEAN :
        LET inForce == DaemonOk /\ read IN
        /\ kind = "logging" => inForce
        /\ kind \in Kinds /\ cmd.kind = "none" /\ commands < MaxCommands
        /\ commands' = commands + 1
        /\ outcome' = [kind |-> kind, ok |-> inForce /\ (listed => Capped)]
        /\ InForce(inForce)
        /\ UNCHANGED <<config, bodies, sops, disk, units, garage, daemon, cmd>>

----------------------------------------------------------------------------
(* One step.  The last one ends the command.                               *)

Next1 == IF Len(cmd.todo) = 1 THEN Finish(TRUE)
         ELSE cmd' = [cmd EXCEPT !.todo = Tail(@)] /\ UNCHANGED outcome

Does(op) == cmd.todo # <<>> /\ Head(cmd.todo).op = op
At == Head(cmd.todo).at
Version == Head(cmd.todo).v

(* A call fails, or the command is killed before it.                       *)
Stops ==
    /\ cmd.kind # "none"
    /\ Finish(FALSE)
    /\ UNCHANGED <<config, bodies, sops, disk, units, backup, commands>>

(* install, scp and cp put the file into a directory of that name and      *)
(* report success; tee and the shell script it is in fail.                 *)
InstallFile ==
    /\ Does("install")
    /\ disk' = [disk EXCEPT ![At] = IF @ = -1 THEN -1 ELSE Version]
    /\ Next1
    /\ UNCHANGED <<config, bodies, sops, units, backup, commands>>

(* The environments, which have more to them than their version.           *)
MergeEnv ==
    /\ Does("merge")
    /\ disk' = [disk EXCEPT ![<<"agent", "env">>] = Version]
    /\ own' = (own /\ At)
    /\ Next1
    /\ UNCHANGED <<config, db, sops, units, backup, commands>>

WriteDbEnv ==
    /\ Does("dbenv")
    /\ disk' = [disk EXCEPT ![<<"pgbr", "env">>] = Version]
    /\ db' = At
    /\ Next1
    /\ UNCHANGED <<config, own, sops, units, backup, commands>>

TeeFile ==
    /\ Does("tee") /\ disk[At] # -1
    /\ disk' = [disk EXCEPT ![At] = Version]
    /\ Next1
    /\ UNCHANGED <<config, bodies, sops, units, backup, commands>>

Chmod ==
    /\ Does("chmod")
    /\ exec' = exec \cup {At}
    /\ Next1
    /\ UNCHANGED <<config, bodies, sops, disk, loaded, enabled, service, installs, backup, commands>>

(* Each host has a systemd of its own: the offsite copy is on the backup   *)
(* host, the rest on the deploy host.                                      *)
HostOf(u) == IF u = "offsite" THEN {"offsite"} ELSE {"pgbr", "restic", "agent"}
ReadUnits(us) == [u \in Units |-> IF u \in us THEN disk[<<u, "unit">>] ELSE loaded[u]]

Target == CASE cmd.kind \in Timers -> cmd.kind [] cmd.kind = "offsite-run" -> "offsite"
            [] OTHER -> "agent"

(* The end of an installation.  The one on the machine itself leaves the   *)
(* user parameters as they are.                                            *)
Mended == IF cmd.kind = "agent" THEN {"agent", "agent-local"} ELSE {cmd.kind}
Covered == CASE cmd.kind = "agent" -> Parts [] cmd.kind = "agent-local" -> {"env", "unit"} [] OTHER -> {}

DaemonReload ==
    /\ Does("reload")
    /\ loaded' = ReadUnits(HostOf(Target))
    /\ torn' = torn \ Mended
    /\ wrote' = [p \in Parts |-> IF p \in Covered THEN creds ELSE wrote[p]]
    /\ Next1
    /\ UNCHANGED <<config, bodies, sops, disk, exec, enabled, service, backup, commands>>

EnableUnit ==
    /\ Does("enable") /\ At \in Timers /\ disk[<<At, "unit">>] # 0
    /\ enabled' = enabled \cup {At}
    /\ loaded' = ReadUnits(HostOf(At))
    /\ Next1
    /\ UNCHANGED <<config, bodies, sops, disk, exec, service, installs, backup, commands>>

(* systemctl start of the oneshot service waits for its end.               *)
StartOffsite ==
    /\ Does("start") /\ loaded["offsite"] # 0 /\ "offsite" \in exec
    /\ Next1
    /\ UNCHANGED <<config, bodies, sops, disk, units, backup, commands>>

----------------------------------------------------------------------------
(* The agent.  docker run makes a directory of a bind source it misses.    *)

WithMounts == [disk EXCEPT ![<<"agent", "script">>] = IF @ = 0 THEN -1 ELSE @]

AgentStarts(unit) ==
    /\ disk[<<"agent", "env">>] > 0
    /\ disk' = WithMounts
    /\ agent' = [env |-> disk[<<"agent", "env">>], script |-> disk'[<<"agent", "script">>], unit |-> unit]

(* The unit is of Type=simple: systemctl reports success as soon as docker *)
(* run is started, which then fails or not.  ExecStop and ExecStopPost     *)
(* have taken the container of before away.                                *)
AgentLaunches(unit) ==
    /\ unit # 0 /\ wanted' = TRUE
    /\ \/ AgentStarts(unit)
       \/ agent' = NoAgent /\ disk' \in {disk, WithMounts}

(* enable --now reads the unit files, and leaves a started service alone.  *)
EnableAgent ==
    /\ Does("enable") /\ At = "agent" /\ disk[<<"agent", "unit">>] # 0
    /\ enabled' = enabled \cup {"agent"}
    /\ loaded' = ReadUnits(HostOf("agent"))
    /\ IF wanted THEN UNCHANGED <<service, disk>> ELSE AgentLaunches(disk[<<"agent", "unit">>])
    /\ Next1
    /\ UNCHANGED <<config, bodies, sops, exec, installs, backup, commands>>

DisableAgent ==
    /\ Does("disable")
    /\ enabled' = enabled \ {"agent"} /\ agent' = NoAgent /\ wanted' = FALSE
    /\ Next1
    /\ UNCHANGED <<config, bodies, sops, disk, exec, loaded, installs, backup, commands>>

RestartAgentIfStopped ==
    /\ Does("restart")
    /\ IF wanted THEN UNCHANGED <<service, disk>> ELSE AgentLaunches(loaded["agent"])
    /\ Next1
    /\ UNCHANGED <<config, bodies, sops, exec, loaded, enabled, installs, backup, commands>>

RestartAgent ==
    /\ Does("restart")
    /\ AgentLaunches(loaded["agent"])
    /\ Next1
    /\ UNCHANGED <<config, bodies, sops, exec, loaded, enabled, installs, backup, commands>>

----------------------------------------------------------------------------
(* The encrypted files.  A failing sops takes the plain text away, and     *)
(* what the file held before with it; a kill leaves the plain text.        *)
WritePlain ==
    /\ Does("plain")
    /\ sops' = [sops EXCEPT ![At] = -1]
    /\ Next1
    /\ UNCHANGED <<config, bodies, disk, units, backup, commands>>

Encrypt ==
    /\ Does("encrypt")
    /\ \/ sops' = [sops EXCEPT ![At] = Version] /\ Next1
       \/ sops' = [sops EXCEPT ![At] = 0] /\ Finish(FALSE)
    /\ UNCHANGED <<config, bodies, disk, units, backup, commands>>

----------------------------------------------------------------------------
(* Garage and Caddy on the backup host.                                    *)

IsFile(f) == disk[f] > 0

(* _require_garage_tls_on_host, and the look for directories.              *)
RequireTls == \A f \in TlsFiles : IsFile(f)

RequireFiles ==
    /\ Does("require") /\ RequireTls
    /\ \A f \in StackFiles : disk[f] # -1
    /\ Next1
    /\ UNCHANGED <<config, bodies, sops, disk, units, backup, commands>>

Started(log) == [toml |-> disk[<<"garage", "toml">>], crt |-> disk[<<"tls", "crt">>],
                 key |-> disk[<<"tls", "key">>], log |-> log]

(* compose up leaves a container alone whose definition is the same.       *)
StackUp ==
    /\ Does("up")
    /\ garage' = IF garage = NoGarage THEN Started(daemon.running) ELSE garage
    /\ Next1
    /\ UNCHANGED <<config, bodies, sops, disk, units, daemon, reported, commands>>

(* _write_daemon_json, then the restart of docker, which starts every      *)
(* container again with the log driver it was created with.                *)
WriteDaemon ==
    /\ Does("daemon")
    /\ daemon' = [daemon EXCEPT !.file = "local"]
    /\ Next1
    /\ UNCHANGED <<config, bodies, sops, disk, units, garage, reported, commands>>

RestartedGarage == IF garage = NoGarage THEN NoGarage ELSE Started(garage.log)

RestartDocker ==
    /\ Does("dockerd")
    /\ daemon' = [daemon EXCEPT !.running = daemon.file]
    /\ garage' = RestartedGarage
    /\ Next1
    /\ UNCHANGED <<config, bodies, sops, disk, units, reported, commands>>

Probe ==
    /\ Does("probe")
    /\ \E read \in BOOLEAN : Finish(DaemonOk /\ read) /\ InForce(DaemonOk /\ read)
    /\ UNCHANGED <<config, bodies, sops, disk, units, garage, daemon, commands>>

----------------------------------------------------------------------------
(* What happens on the hosts and in the repository by itself.              *)

ChangeConfig ==
    /\ cmd.kind = "none" /\ creds < MaxVersion
    /\ creds' = creds + 1 /\ complete' \in Completions
    /\ UNCHANGED <<bodies, sops, disk, units, backup, cmd, outcome, commands>>

(* "edit freely", says the file.                                           *)
EditAgentEnv ==
    /\ cmd.kind = "none" /\ disk[<<"agent", "env">>] # 0
    /\ ~own /\ own' = TRUE
    /\ UNCHANGED <<config, db, sops, disk, units, backup, cmd, outcome, commands>>

(* dk passes the authority to docker run and compose as soon as its        *)
(* encrypted file exists (apply_inferred_dc_backup_ca_file).               *)
MountCa ==
    /\ sops.tls # 0 /\ disk[AppCa] = 0
    /\ disk' = [disk EXCEPT ![AppCa] = -1]
    /\ UNCHANGED <<config, bodies, sops, units, backup, cmd, outcome, commands>>

(* A reboot of the deploy host.                                            *)
RebootApp ==
    /\ loaded' = ReadUnits(HostOf("agent"))
    /\ IF "agent" \in enabled THEN AgentLaunches(loaded'["agent"])
       ELSE agent' = NoAgent /\ wanted' = FALSE /\ UNCHANGED disk
    /\ <<loaded', service', disk'>> # <<loaded, service, disk>>
    /\ outcome' = NoOutcome
    /\ UNCHANGED <<config, bodies, sops, exec, enabled, installs, backup, cmd, commands>>

RebootBackup ==
    /\ loaded' = ReadUnits(HostOf("offsite"))
    /\ garage' = RestartedGarage /\ daemon' = [daemon EXCEPT !.running = daemon.file]
    /\ <<loaded', garage', daemon'>> # <<loaded, garage, daemon>>
    /\ outcome' = NoOutcome
    /\ UNCHANGED <<config, bodies, sops, disk, exec, enabled, service, installs, reported, cmd, commands>>

(* The agent leaves its container, or docker run fails: systemd tries      *)
(* again every ten seconds (Restart=always) with the unit it has read.     *)
AgentFails ==
    /\ wanted
    /\ AgentLaunches(loaded["agent"])
    /\ agent' # agent
    /\ UNCHANGED <<config, bodies, sops, exec, loaded, enabled, installs, backup, cmd, outcome, commands>>

(* Hosts as they come, and hosts on which everything is installed once and *)
(* enabled; Garage is installed without --up, or runs as it was created    *)
(* before the daemon got its log driver.                                   *)
Init ==
    /\ creds = 1 /\ complete \in Completions
    /\ \E old \in {0, 1}, up \in {0, 1} :
        /\ up <= old
        /\ sops = [tls |-> old, stack |-> old]
        /\ disk = [f \in Files |-> old] /\ loaded = [u \in Units |-> old]
        /\ exec = {u \in Timers : old = 1} /\ enabled = {u \in Units : old = 1}
        /\ agent = [env |-> old, script |-> old, unit |-> old] /\ wanted = (old = 1)
        /\ wrote = [p \in Parts |-> old]
        /\ db = IF old = 0 THEN "none" ELSE "own"
        /\ garage = IF up = 0 THEN NoGarage ELSE [toml |-> 1, crt |-> 1, key |-> 1, log |-> "json-file"]
    /\ own = FALSE /\ torn = {} /\ reported = "nothing"
    /\ daemon = [running |-> "json-file", file |-> "json-file"]
    /\ cmd = Idle /\ outcome = NoOutcome /\ commands = 0

Commands ==
    \/ InstallBackups \/ InstallOffsite \/ RunOffsite \/ InstallAgent \/ InstallAgentLocally
    \/ ControlAgent \/ MakeSecrets \/ InstallTls \/ InstallStack \/ ApplyLogging \/ CheckLogging

CommandStep ==
    \/ InstallFile \/ TeeFile \/ MergeEnv \/ WriteDbEnv \/ Chmod \/ DaemonReload \/ EnableUnit \/ StartOffsite
    \/ EnableAgent \/ DisableAgent \/ RestartAgent \/ WritePlain \/ Encrypt
    \/ RequireFiles \/ StackUp \/ WriteDaemon \/ RestartDocker \/ Probe

Environment == ChangeConfig \/ EditAgentEnv \/ MountCa \/ RebootApp \/ RebootBackup \/ AgentFails

Next == Commands \/ CommandStep \/ Stops \/ Environment

Spec == Init /\ [][Next]_vars

----------------------------------------------------------------------------
(* Whatever installations were cut short, an enabled timer fires a service *)
(* that systemd has read, with a script that can be executed and an        *)
(* environment file, which the unit itself would not miss                  *)
(* (cmd_install_systemd_backups, cmd_dc_backup_offsite_install).           *)
EnabledJobsAreWhole ==
    \A u \in enabled \cap Timers :
        /\ loaded[u] # 0 /\ u \in exec
        /\ disk[<<u, "script">>] # 0 /\ disk[<<u, "env">>] # 0

(* The app host is never given an authority before the files that go with  *)
(* it are on the backup host: wherever installations stop, the file there  *)
(* is at least as new as the app's copy (cmd_dc_backup_tls_install).  What *)
(* the running Caddy was started with is StackServesItsFiles.              *)
AppNeverAhead ==
    \A f \in TlsFiles : disk[AppCa] <= disk[f]

(* An installation that writes this part was cut short.                    *)
CutShort(p) == "agent" \in torn \/ ("agent-local" \in torn /\ p # "script")

(* An agent that runs after a restart that reported success runs, of its   *)
(* environment, user parameters and unit, what the last installation that  *)
(* came to its end wrote of each, or something newer from one that was cut *)
(* short: nothing it ran before, whoever reloaded systemd, however often   *)
(* docker run failed meanwhile (cmd_restart_remote,                        *)
(* _remote_install_script).                                                *)
RestartRunsTheInstall ==
    outcome.ok /\ outcome.kind = "restart" /\ agent # NoAgent =>
        \A p \in Parts : wrote[p] # 0 =>
            agent[p] = wrote[p] \/ (agent[p] > wrote[p] /\ CutShort(p))

(* Once log rotation was reported to be in force, by a check or at the end *)
(* of an --apply, the daemon that runs has it, and no container without it *)
(* is added to those there were: a later --apply that stops half way, a    *)
(* restart or a reboot takes nothing back (cmd_host_logging).              *)
LogsAreCapped ==
    /\ reported # "nothing" => daemon.running = "local"
    /\ reported = "capped" => garage.log # "json-file"

(* A check that has nothing to say is right about the containers too.      *)
NothingToSayIsTrue ==
    outcome.ok /\ outcome.kind = "logcheck" => garage.log # "json-file"

(* What the operator adds to the agent's environment stays there.          *)
OwnKeysStay == [][own => own']_vars

(* The backup that is enabled is of this project's database.               *)
BacksUpItsOwn == "pgbr" \in enabled => db = "own"

(* A running agent has its user parameters: install writes them.           *)
AgentHasItsParameters == agent # NoAgent => agent.script > 0

(* tls install leaves the authority at the app host.                       *)
TlsInstallGivesTheCa == outcome.ok /\ outcome.kind = "tls" => IsFile(AppCa)

(* After install --up Caddy serves the certificate that is installed.      *)
StackServesItsFiles ==
    outcome.ok /\ outcome.kind = "stack" /\ garage # NoGarage =>
        garage.toml = disk[<<"garage", "toml">>] /\ garage.crt = disk[<<"tls", "crt">>]

(* Caddy is started with a key that belongs to its certificate.            *)
KeyFitsCertificate == garage.key = garage.crt

(* An enabled timer uses the credentials there are.                        *)
EnabledJobsAreCurrent ==
    \A u \in (enabled \cap Timers) \ torn : disk[<<u, "env">>] = creds
==============================================================================
