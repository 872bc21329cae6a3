---------------------------- MODULE MCBackupHosts ----------------------------
(* Every command, with the credentials of all units or without restic's.   *)
EXTENDS BackupHosts

UnitKinds == {"pgbr", "restic", "offsite", "offsite-run", "agent", "agent-local",
              "enable", "disable", "restart"}
GarageKinds == {"issue", "tls", "bootstrap", "stack", "logging", "logcheck"}
WithOrWithout == {{"pgbr", "restic", "offsite"}, {"pgbr"}}

(* No step reads an outcome, whose database the environment names, or which*)
(* installation was cut short; the run's invariants read of them only a    *)
(* restart that succeeded and the agent's installations.                   *)
View == <<config, sops, disk, own, exec, loaded, enabled, service, wrote, backup, cmd, commands,
          torn \cap {"agent", "agent-local"}, outcome = [kind |-> "restart", ok |-> TRUE]>>
==============================================================================
