------------------------------ MODULE CloudHost ------------------------------
(***************************************************************************)
(* `dk <env> host create`, `host --write`, `host --sync-dns` and `host`:   *)
(* the droplet of a deploy environment, found by name, put into the        *)
(* configured project, written to info.yaml as docker_host, made known to  *)
(* ssh, given its block volumes and its DNS records, and verified.         *)
(*                                                                         *)
(* Every step is a call of doctl, ssh or the resolver.  Between two of     *)
(* them droplets boot, listings catch up and records propagate, and the    *)
(* command may die: by Ctrl-C, or by an API error that nobody catches.     *)
(* The droplets below all bear the environment's name; doctl is an         *)
(* external service, modelled from the calls made to it.                   *)
(***************************************************************************)
EXTENDS Integers, FiniteSets, FiniteSetsExt

CONSTANTS
    Ids,         \* droplet ids, the smallest first in a listing of a project
    Ips,         \* public addresses; one is used again when its droplet is gone
    Sites,       \* hostnames of site_origin and redirect_origins in DO zones
    Volumes,     \* storage entries with a digitalocean block
    InitialDns,  \* the record tables a run may start from
    ByProject,   \* tooling.yaml names a project: lookups are scoped to it
    NoIp, NoSite,
    MaxAwait,    \* looks at the project's listing after an assignment
    MaxCommands  \* bound: commands in a behaviour

Address == Ips \cup {NoIp}
Records == [a : Address, cname : Sites \cup {NoSite}, legacy : BOOLEAN]

ASSUME HostAssumption ==
    /\ Ids \subseteq Nat \ {0} /\ IsFiniteSet(Ids) /\ IsFiniteSet(Sites)
    /\ InitialDns \subseteq [Sites -> Records]
    /\ NoIp \notin Ips /\ NoSite \notin Sites
    /\ MaxAwait \in Nat \ {0} /\ MaxCommands \in Nat

VARIABLES
    droplet,   \* the account: state, address and project of each droplet
    sshd,      \* droplets whose ssh port answers
    info,      \* docker_host in info.yaml
    known,     \* known_hosts: pairs of an address and the droplet whose key it is
    volume,    \* block volumes
    taken,     \* droplets with something else mounted at a volume's path
    dns,       \* records in the DO zones
    public,    \* what the public resolver says
    cmd,       \* the command that runs
    outcome,   \* how the last command ended, until the world changes
    late,      \* its droplet was destroyed after its last look at it
    commands   \* commands begun

vars == <<droplet, sshd, info, known, volume, taken, dns, public, cmd, outcome, late, commands>>
world == <<droplet, sshd, info, known, volume, taken, dns, public>>

Kinds == {"create", "write", "sync", "check"}
Steps == {"idle", "project", "account", "create", "assign", "await", "find", "known",
          "again", "attached", "ensure", "attach", "mount", "dns", "verify", "public"}
Droplets == [state : {"none", "new", "active", "gone"}, ip : Address,
             project : {"out", "assigned", "listed"}]
VolumeStates == [made : BOOLEAN, on : Ids \cup {0}, formats : 0..2,  \* 2: again
                 mounted : Ids \cup {0}, fstab : Ids \cup {0}]
Idle == [kind |-> "check", pc |-> "idle", reuse |-> TRUE, at |-> 0, ip |-> NoIp,
         failed |-> FALSE, vols |-> {}, sites |-> {}, tries |-> 0]
Commands == [kind : Kinds, pc : Steps, reuse : BOOLEAN, at : Ids \cup {0}, ip : Address,
             failed : BOOLEAN, vols : SUBSET Volumes, sites : SUBSET Sites, tries : 0..MaxAwait]
NoOutcome == [kind |-> "check", ok |-> FALSE]

TypeOK ==
    /\ droplet \in [Ids -> Droplets]
    /\ sshd \subseteq Ids
    /\ info \in Address
    /\ known \subseteq Ips \X Ids
    /\ volume \in [Volumes -> VolumeStates]
    /\ taken \subseteq Ids \X Volumes
    /\ dns \in [Sites -> Records]
    /\ public \in [Sites -> Address]
    /\ cmd \in Commands
    /\ outcome \in [kind : Kinds, ok : BOOLEAN]
    /\ late \in BOOLEAN
    /\ commands \in 0..MaxCommands

----------------------------------------------------------------------------
(* What the API and the hosts answer.                                      *)

Exists(d) == droplet[d].state \in {"new", "active"}
Listed(d) == Exists(d) /\ droplet[d].project = "listed"

(* find_droplet_for_link: the first of the project by id, or any droplet   *)
(* of the account with the name.                                           *)
Found ==
    IF ByProject
    THEN LET inProject == {d \in Ids : Listed(d)}
         IN  IF inProject = {} THEN {} ELSE {Min(inProject)}
    ELSE {d \in Ids : Exists(d)}

(* do_dns_resolve_ipv4: an A record, or the CNAME's target, never twice    *)
(* the same name and at most eight names.                                  *)
Depth == Min({8, Cardinality(Sites)})
Answer(table, s) ==
    LET follow[n \in 0..Depth] ==
            [x \in Sites \cup {NoSite} |->
                IF n = 0 \/ x = NoSite THEN NoIp
                ELSE IF table[x].a # NoIp THEN table[x].a
                ELSE follow[n - 1][table[x].cname]]
    IN  follow[Depth][s]

Resolve(s) == Answer(dns, s)

(* The droplet that ssh to docker_host reaches: its key must be a known    *)
(* one.                                                                    *)
Reached == {d \in sshd : /\ droplet[d].state = "active"
                         /\ droplet[d].ip = info
                         /\ <<info, d>> \in known}

----------------------------------------------------------------------------
(* The end of a command, and a failure that host create notes and goes on  *)
(* after.                                                                  *)

End(ok) == /\ cmd' = Idle
           /\ outcome' = [kind |-> cmd.kind, ok |-> ok]

Go(pc) == cmd' = [cmd EXCEPT !.pc = pc] /\ UNCHANGED outcome

Note(pc) == /\ cmd' = [cmd EXCEPT !.pc = pc, !.failed = TRUE]
            /\ UNCHANGED outcome

Begin(kind, reuse) ==
    /\ cmd.pc = "idle" /\ commands < MaxCommands
    /\ reuse \/ kind = "create"
    /\ cmd' = [Idle EXCEPT !.kind = kind, !.reuse = reuse,
                           !.pc = IF kind = "create" THEN "project" ELSE "find"]
    /\ outcome' = NoOutcome /\ late' = FALSE
    /\ commands' = commands + 1
    /\ UNCHANGED world

(* mount_do_volume_at_path, a script on the host: a path at which anything *)
(* is mounted is left alone; a device that blkid cannot read, blank or     *)
(* not, is formatted; then mount and fstab.  What is left of one that      *)
(* breaks off:                                                             *)
InUse(v) == volume[v].mounted = volume[v].on \/ <<volume[v].on, v>> \in taken
Formats(v) == IF volume[v].formats = 0 THEN {1} ELSE {volume[v].formats, 2}
Mounted(v, n) == [volume[v] EXCEPT !.formats = n, !.mounted = volume[v].on]
InFstab(v, n) == [Mounted(v, n) EXCEPT !.fstab = volume[v].on]

ScriptBreaksOff ==
    \/ UNCHANGED volume
    \/ \E v \in cmd.vols : \E n \in Formats(v) :
          /\ volume[v].on \in Reached /\ ~InUse(v)
          /\ volume' \in {[volume EXCEPT ![v].formats = n], [volume EXCEPT ![v] = Mounted(v, n)],
                          [volume EXCEPT ![v] = InFstab(v, n)]}

(* Ctrl-C, or a DoctlCommandError outside the calls that catch it.         *)
Stops ==
    /\ cmd.pc # "idle"
    /\ End(FALSE)
    /\ IF cmd.pc = "mount" THEN ScriptBreaksOff ELSE UNCHANGED volume
    /\ UNCHANGED <<droplet, sshd, info, known, taken, dns, public, late, commands>>

----------------------------------------------------------------------------
(* create_droplet.                                                         *)

LookInProject ==
    /\ cmd.pc = "project"
    /\ IF \E d \in Ids : Listed(d)
       THEN IF cmd.reuse THEN Go("find") ELSE End(FALSE)
       ELSE Go("account")
    /\ UNCHANGED <<world, late, commands>>

AccountNotAsked ==
    /\ cmd.pc = "account"
    /\ Go("create")
    /\ UNCHANGED <<world, late, commands>>

LookInAccount ==
    /\ cmd.pc = "account"
    /\ \/ /\ \A d \in Ids : ~Exists(d)
          /\ Go("create")
       \/ /\ \E d \in Ids : Exists(d)
          /\ ~cmd.reuse
          /\ End(FALSE)
       \/ \E d \in Ids : /\ Exists(d)
                         /\ cmd.reuse
                         /\ cmd' = [cmd EXCEPT !.pc = "assign", !.at = d]
                         /\ UNCHANGED outcome
    /\ UNCHANGED <<world, late, commands>>

Free == {i \in Ips : \A d \in Ids : Exists(d) => droplet[d].ip # i}

(* doctl create --wait: it comes back with an active droplet, or fails,    *)
(* with the droplet made or without.                                       *)
CreateDroplet ==
    /\ cmd.pc = "create"
    /\ \/ UNCHANGED droplet /\ End(FALSE)
       \/ \E d \in Ids :
          /\ droplet[d].state = "none"
          /\ \/ \E i \in Free :
                   /\ droplet' = [droplet EXCEPT ![d] =
                          [state |-> "active", ip |-> i, project |-> "assigned"]]
                   /\ cmd' = [cmd EXCEPT !.pc = "assign", !.at = d]
                   /\ UNCHANGED outcome
             \/ /\ droplet' = [droplet EXCEPT ![d] =
                          [state |-> "new", ip |-> NoIp, project |-> "assigned"]]
                /\ End(FALSE)
    /\ UNCHANGED <<sshd, info, known, volume, taken, dns, public, late, commands>>

(* ensure_droplet_in_project: an assignment made already is left alone.    *)
Assigned(d) == [droplet EXCEPT ![d].project = IF @ = "out" THEN "assigned" ELSE @]

AssignDroplet ==
    /\ cmd.pc = "assign"
    /\ droplet' = Assigned(cmd.at)
    /\ Go("await")
    /\ UNCHANGED <<sshd, info, known, volume, taken, dns, public, late, commands>>

(* wait_for_project_droplet_by_name.                                       *)
AwaitListing ==
    /\ cmd.pc = "await"
    /\ \/ /\ \E d \in Ids : Listed(d)
          /\ Go("find")
       \/ /\ \A d \in Ids : ~Listed(d)
          /\ IF cmd.tries + 1 = MaxAwait
             THEN End(FALSE)
             ELSE /\ cmd' = [cmd EXCEPT !.tries = @ + 1]
                  /\ UNCHANGED outcome
    /\ UNCHANGED <<world, late, commands>>

----------------------------------------------------------------------------
(* cmd_env_host: alone, or as the first part of _finish_host_provisioning, *)
(* which notes its failure and goes on.                                    *)

HostFails == IF cmd.kind = "create" THEN Note("again") ELSE End(FALSE)

(* _cmd_env_host_manual: only the public records of the configured host.   *)
ManualHost ==
    IF cmd.kind \in {"check", "sync"} /\ info # NoIp
    THEN /\ cmd' = [cmd EXCEPT !.pc = "public", !.ip = info]
         /\ UNCHANGED outcome
    ELSE HostFails

FindNothing ==
    /\ cmd.pc = "find"
    /\ Found = {}
    /\ ManualHost
    /\ UNCHANGED <<world, late, commands>>

(* No doctl on the PATH, or digitalocean.disabled; host create has stopped *)
(* before.                                                                 *)
NoDoctl ==
    /\ cmd.pc = "find" /\ cmd.kind # "create"
    /\ ManualHost
    /\ UNCHANGED <<world, late, commands>>

(* A DoctlCommandError of the lookup, which is caught here.                *)
FindErrs ==
    /\ cmd.pc = "find"
    /\ HostFails
    /\ UNCHANGED <<world, late, commands>>

FindUnready ==
    /\ cmd.pc = "find"
    /\ \E d \in Found : droplet[d].state # "active" \/ droplet[d].ip = NoIp
    /\ HostFails
    /\ UNCHANGED <<world, late, commands>>

(* patch_info_docker_host.                                                 *)
Patched(d) == IF cmd.kind \in {"create", "write"} THEN droplet[d].ip ELSE info

FindDroplet ==
    /\ cmd.pc = "find"
    /\ \E d \in Found :
          /\ droplet[d].state = "active" /\ droplet[d].ip # NoIp
          /\ info' = Patched(d)
          /\ cmd' = [cmd EXCEPT !.ip = droplet[d].ip, !.sites = Sites,
                        !.pc = CASE cmd.kind = "sync" -> "dns"
                                 [] cmd.kind = "check" -> "verify"
                                 [] OTHER -> "known"]
    /\ UNCHANGED <<droplet, sshd, known, volume, taken, dns, public, outcome, late, commands>>

(* ensure_known_host: an address with any entry is known; otherwise the    *)
(* key is scanned once the port answers, until the time is up.             *)
HasEntry(i) == \E d \in Ids : <<i, d>> \in known

KnowHost ==
    /\ cmd.pc = "known"
    /\ \/ /\ HasEntry(cmd.ip)
          /\ UNCHANGED known
       \/ /\ ~HasEntry(cmd.ip)
          /\ \E d \in sshd : /\ Exists(d) /\ droplet[d].ip = cmd.ip
                             /\ known' = known \cup {<<cmd.ip, d>>}
    /\ IF cmd.kind = "create" THEN Go("again") ELSE End(TRUE)
    /\ UNCHANGED <<droplet, sshd, info, volume, taken, dns, public, late, commands>>

KnowTimesOut ==
    /\ cmd.pc = "known"
    /\ ~HasEntry(cmd.ip)
    /\ HostFails
    /\ UNCHANGED <<world, late, commands>>

----------------------------------------------------------------------------
(* The rest of _finish_host_provisioning: info.yaml and the droplet are    *)
(* read again, then volumes, records and checks, each noted when it fails. *)

AfterVolumes == [cmd EXCEPT !.pc = "dns", !.vols = {}]

FindAgain ==
    /\ cmd.pc = "again"
    /\ \/ /\ Found = {} \/ \E d \in Found : droplet[d].ip = NoIp
          /\ End(FALSE)
       \/ \E d \in Found :
             /\ droplet[d].ip # NoIp
             /\ cmd' = [cmd EXCEPT !.ip = droplet[d].ip, !.vols = Volumes, !.sites = Sites,
                           !.pc = IF Volumes = {} THEN "dns" ELSE "attached"]
             /\ UNCHANGED outcome
    /\ UNCHANGED <<world, late, commands>>

(* ensure_do_block_volumes_for_specs: the droplet the volumes go to.       *)
VolumeTarget ==
    /\ cmd.pc = "attached"
    /\ \/ /\ info = NoIp \/ Found = {}
          /\ cmd' = [AfterVolumes EXCEPT !.failed = TRUE]
       \/ \E d \in Found : /\ info # NoIp
                           /\ cmd' = [cmd EXCEPT !.pc = "ensure", !.at = d]
    /\ UNCHANGED <<world, outcome, late, commands>>

EnsureVolume ==
    /\ cmd.pc = "ensure"
    /\ \E v \in cmd.vols : volume' = [volume EXCEPT ![v].made = TRUE]
    /\ Go("attach")
    /\ UNCHANGED <<droplet, sshd, info, known, taken, dns, public, late, commands>>

Attachable(v) == volume[v].made /\ volume[v].on \in {0, cmd.at}

AttachVolume ==
    /\ cmd.pc = "attach"
    /\ \E v \in cmd.vols :
          \/ /\ Attachable(v) /\ Exists(cmd.at)
             /\ volume' = [volume EXCEPT ![v].on = cmd.at]
             /\ Go("mount")
          \/ /\ volume[v].on # cmd.at
             /\ cmd' = [AfterVolumes EXCEPT !.failed = TRUE]
             /\ UNCHANGED <<volume, outcome>>
    /\ UNCHANGED <<droplet, sshd, info, known, taken, dns, public, late, commands>>

(* The script runs on the host that docker_host names, where the device    *)
(* must be.                                                                *)
MountVolume ==
    /\ cmd.pc = "mount"
    /\ \E v \in cmd.vols :
          /\ volume[v].on = cmd.at /\ cmd.at \in Reached
          /\ \/ InUse(v) /\ UNCHANGED volume
             \/ ~InUse(v) /\ \E n \in Formats(v) : volume' = [volume EXCEPT ![v] = InFstab(v, n)]
          /\ cmd' = IF cmd.vols = {v} THEN AfterVolumes
                    ELSE [cmd EXCEPT !.pc = "ensure", !.vols = @ \ {v}]
    /\ UNCHANGED <<droplet, sshd, info, known, taken, dns, public, outcome, late, commands>>

MountFails ==
    /\ cmd.pc = "mount"
    /\ ScriptBreaksOff
    /\ cmd' = [AfterVolumes EXCEPT !.failed = TRUE]
    /\ UNCHANGED <<droplet, sshd, info, known, taken, dns, public, outcome, late, commands>>

(* _upsert_a_record: a legacy apex record goes first, a CNAME stays, an A  *)
(* record is created or pointed at the droplet.                            *)
Upsert(s) ==
    [dns EXCEPT ![s] = IF @.cname # NoSite THEN [@ EXCEPT !.legacy = FALSE]
                       ELSE [@ EXCEPT !.legacy = FALSE, !.a = cmd.ip]]

SyncRecord ==
    /\ cmd.pc = "dns"
    /\ \E s \in cmd.sites :
          /\ dns' = Upsert(s)
          /\ cmd' = [cmd EXCEPT !.sites = @ \ {s}]
    /\ UNCHANGED <<droplet, sshd, info, known, volume, taken, public, outcome, late, commands>>

SyncFails ==
    /\ cmd.pc = "dns"
    /\ \E s \in cmd.sites : dns' \in {dns, [dns EXCEPT ![s].legacy = FALSE]}
    /\ IF cmd.kind = "sync" THEN End(FALSE) ELSE Note("verify")
    /\ UNCHANGED <<droplet, sshd, info, known, volume, taken, public, late, commands>>

SyncDone ==
    /\ cmd.pc = "dns" /\ cmd.sites = {}
    /\ IF cmd.kind = "sync" THEN End(TRUE) ELSE Go("verify")
    /\ UNCHANGED <<world, late, commands>>

(* verify_host_dns, then verify_public_dns: both are asked.                *)
RecordsMatch == \A s \in Sites : Resolve(s) = cmd.ip
PublicMatches == \A s \in Sites : public[s] = cmd.ip

LastCheckCounts ==
    /\ cmd.pc = "public"
    /\ End(PublicMatches)
    /\ UNCHANGED <<world, late, commands>>

VerifyRecords ==
    /\ cmd.pc = "verify"
    /\ IF RecordsMatch THEN Go("public") ELSE Note("public")
    /\ UNCHANGED <<world, late, commands>>

VerifyPublic ==
    /\ cmd.pc = "public"
    /\ End(~cmd.failed /\ PublicMatches)
    /\ UNCHANGED <<world, late, commands>>

----------------------------------------------------------------------------
(* The world.                                                              *)

Addressed(d) ==
    /\ droplet[d].state = "new" /\ droplet[d].ip = NoIp
    /\ \E i \in Free : droplet' = [droplet EXCEPT ![d].ip = i]
    /\ UNCHANGED <<sshd, info, known, volume, taken, dns, public, cmd, outcome, late, commands>>

Boots(d) ==
    /\ droplet[d].state = "new" /\ droplet[d].ip # NoIp
    /\ droplet' = [droplet EXCEPT ![d].state = "active"]
    /\ UNCHANGED <<sshd, info, known, volume, taken, dns, public, cmd, outcome, late, commands>>

SshAnswers(d) ==
    /\ droplet[d].state = "active" /\ d \notin sshd
    /\ sshd' = sshd \cup {d}
    /\ UNCHANGED <<droplet, info, known, volume, taken, dns, public, cmd, outcome, late, commands>>

ListingCatchesUp(d) ==
    /\ Exists(d) /\ droplet[d].project = "assigned"
    /\ droplet' = [droplet EXCEPT ![d].project = "listed"]
    /\ UNCHANGED <<sshd, info, known, volume, taken, dns, public, cmd, outcome, late, commands>>

Propagates(s) ==
    /\ public[s] # Resolve(s)
    /\ public' = [public EXCEPT ![s] = Resolve(s)]
    /\ UNCHANGED <<droplet, sshd, info, known, volume, taken, dns, cmd, outcome, late, commands>>

(* Something else is mounted at the path of a volume: the one that had the *)
(* entry before it was renamed, or a disk of the host.                     *)
PathTaken(d, v) ==
    /\ Exists(d) /\ volume[v].mounted # d
    /\ taken' = taken \cup {<<d, v>>}
    /\ UNCHANGED <<droplet, sshd, info, known, volume, dns, public, cmd, outcome, late, commands>>

(* Someone destroys a droplet in the control panel, at any time.           *)
Checks == {"dns", "verify", "public"}
Destroyed(d) ==
    /\ Exists(d)
    /\ droplet' = [droplet EXCEPT ![d].state = "gone"]
    /\ sshd' = sshd \ {d}
    /\ volume' = [v \in Volumes |->
                    [volume[v] EXCEPT !.on = IF @ = d THEN 0 ELSE @,
                                      !.mounted = IF @ = d THEN 0 ELSE @,
                                      !.fstab = IF @ = d THEN 0 ELSE @]]
    /\ taken' = {t \in taken : t[1] # d}
    /\ outcome' = NoOutcome
    /\ late' = (late \/ cmd.pc \in Checks)
    /\ UNCHANGED <<info, known, dns, public, cmd, commands>>

----------------------------------------------------------------------------
Init ==
    /\ droplet \in {[d \in Ids |-> [state |-> "none", ip |-> NoIp, project |-> "out"]]} \cup
          {[d \in Ids |-> [state |-> IF d = Min(Ids) THEN "active" ELSE "none",
                           ip |-> IF d = Min(Ids) THEN i ELSE NoIp,
                           project |-> "out"]] : i \in Ips}
    /\ sshd = {} /\ info = NoIp /\ known = {}
    /\ volume = [v \in Volumes |-> [made |-> FALSE, on |-> 0, formats |-> 0,
                               mounted |-> 0, fstab |-> 0]]
    /\ taken = {}
    /\ dns \in InitialDns
    /\ public = [s \in Sites |-> NoIp]
    /\ cmd = Idle /\ outcome = NoOutcome /\ late = FALSE /\ commands = 0

CommandStep ==
    \/ LookInProject \/ LookInAccount \/ CreateDroplet \/ AssignDroplet \/ AwaitListing
    \/ FindNothing \/ NoDoctl \/ FindErrs \/ FindUnready \/ FindDroplet \/ KnowHost \/ KnowTimesOut
    \/ FindAgain \/ VolumeTarget \/ EnsureVolume \/ AttachVolume \/ MountVolume \/ MountFails
    \/ SyncRecord \/ SyncFails \/ SyncDone \/ VerifyRecords \/ VerifyPublic

World ==
    \/ \E d \in Ids : \/ Addressed(d) \/ Boots(d) \/ SshAnswers(d)
                      \/ ListingCatchesUp(d) \/ Destroyed(d)
                      \/ \E v \in Volumes : PathTaken(d, v)
    \/ \E s \in Sites : Propagates(s)

Next == CommandStep \/ Stops \/ World \/ \E k \in Kinds, r \in BOOLEAN : Begin(k, r)

Spec == Init /\ [][Next]_vars

----------------------------------------------------------------------------
(* A second droplet of the environment's name is never made, however       *)
(* creates fail, are killed and run again: create_droplet looks in the     *)
(* project and in the account, and takes over what it finds.               *)
OneDroplet == Cardinality({d \in Ids : Exists(d)}) <= 1

Delivered == outcome = [kind |-> "create", ok |-> TRUE]

(* A `host create` that reports success leaves the records pointing at     *)
(* docker_host, in the zones and in public, and docker_host is the address *)
(* of a listed droplet that is up, whose address known_hosts has and which *)
(* has something mounted at the path of every volume: each its volume,     *)
(* formatted, unless the path was taken before.  A droplet destroyed at    *)
(* any step before the last volume is mounted makes the command fail; one  *)
(* destroyed while the records are made and checked does not.              *)
(* _finish_host_provisioning goes on after a failed part and must not      *)
(* forget it.                                                              *)
PathServed(v, d) ==
    \/ volume[v].mounted = d /\ volume[v].formats > 0
    \/ <<d, v>> \in taken

CreateDelivers ==
    Delivered =>
        /\ \A s \in Sites : Resolve(s) = info /\ public[s] = info
        /\ ~late => \E d \in Ids :
                       /\ Listed(d) /\ droplet[d].state = "active" /\ droplet[d].ip = info
                       /\ HasEntry(info)
                       /\ \A v \in Volumes : PathServed(v, d)

(* The three things that the mount script does not ensure: a success mounts*)
(* the volumes themselves (it asks only whether anything is mounted at the *)
(* path), with their line in fstab (a script that broke off before it is   *)
(* not taken up again), and no volume is formatted twice (any failure of   *)
(* blkid counts as a blank device).                                        *)
CreateMounts ==
    Delivered /\ ~late => \A v \in Volumes : \E d \in Ids : Listed(d) /\ volume[v].mounted = d
MountsOutliveReboots ==
    Delivered /\ ~late => \A v \in Volumes : volume[v].fstab = volume[v].mounted
VolumesKeepData == \A v \in Volumes : volume[v].formats <= 1

(* After a successful `host create` known_hosts has the key of the droplet *)
(* that docker_host names.  ensure_known_host takes any entry for the      *)
(* address, also that of a droplet which had the address before.           *)
KnownKeyIsCurrent ==
    Delivered /\ ~late =>
        \E d \in Ids : Exists(d) /\ droplet[d].ip = info /\ <<info, d>> \in known

(* What _print_host_provisioning_recovery says of a `host create` that     *)
(* noted a failure: "Droplet and docker_host are ready".                   *)
RecoveryHintIsTrue ==
    cmd.kind = "create" /\ cmd.pc = "public" /\ cmd.failed => info = cmd.ip

==============================================================================
