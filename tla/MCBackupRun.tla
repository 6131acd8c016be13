------------------------------ MODULE MCBackupRun ------------------------------
(* Small instances of BackupRun for TLC. *)
EXTENDS BackupRun, TLC

CONSTANTS r1, r2, x, y, a1

DailyAndZip == (r1 :> "daily") @@ (r2 :> "zip")
BothAndOne == (r1 :> {x, y}) @@ (r2 :> {y}) @@ (a1 :> {y})
DailyAndSql == (r1 :> "daily") @@ (r2 :> "sql")
SameDb == (r1 :> {x}) @@ (r2 :> {x})
=============================================================================
