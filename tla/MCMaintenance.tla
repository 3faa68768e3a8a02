---------------------------- MODULE MCMaintenance ----------------------------
(* Two files, so that a job may stop between them; two backups where one   *)
(* may be pruned.                                                          *)
EXTENDS Maintenance

CONSTANTS database, config

SomeFiles == {database, config}
SomeSchedules == {{"backup"}, {"backup", "restore"}, {"backup", "update"}, {"writeback"}, {"migrate"}}
SomeBackups == [s \in SomeSchedules |-> IF s = {"backup"} THEN 2 ELSE 1]
=============================================================================
