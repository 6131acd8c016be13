-------------------------- MODULE MCBackupFreshness --------------------------
(***************************************************************************)
(* Values for the constants of BackupFreshness: the clock runs on a grid   *)
(* of TickHours through the hours of the two crons.                        *)
(***************************************************************************)
EXTENDS BackupFreshness

CONSTANTS a, b, erp, web

\* Instances with one database, or with none at the moment.
OneInstance == {[s \in Stages |-> L] : L \in SUBSET {a}}

\* Two instances that share database a; erp may lose its only one.
Shared == {[s \in Stages |-> IF s = web THEN {a, b} ELSE L] : L \in {{}, {a}}}

\* The list of databases never changes.
Fixed == {[s \in Stages |-> DBs]}

=============================================================================
