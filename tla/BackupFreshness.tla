--------------------------- MODULE BackupFreshness ---------------------------
(***************************************************************************)
(* When an instance counts as backed up.  The truth is the bucket: the age *)
(* of the newest object of each database.  The manager keeps a time stamp  *)
(* per instance and per server (last_backup), which the runs, the agent's  *)
(* report and the daily verify cron write, and it shows an instance as     *)
(* overdue when its stamp is too old.  Stamps are written at confirmation  *)
(* time, so a stamp may be younger than the backup it stands for.          *)
(*                                                                         *)
(* One server.  Time is in hours, advances by TickHours, and every age is  *)
(* capped at Old, which also stands for "never".                           *)
(***************************************************************************)
EXTENDS Naturals, FiniteSets, FiniteSetsExt

CONSTANTS
  Stages,       \* server.stage records of the server
  DBs,          \* database names
  Lists,        \* what a database refresh may report: functions [Stages -> SUBSET DBs]
  TickHours,    \* granularity of time
  BackupHour,   \* ir.config_parameter server.backup.hour
  VerifyHour,   \* hour of day the verify cron runs (08:00 in ir_cron.xml)
  MaxAgeParam,  \* server.backup.max_age_hours
  DailyAgeParam,\* server.backup.daily_age_hours
  MaxDelay      \* bound: hours the verify pass may take to be done with this server

ASSUME FreshnessAssumption ==
  /\ Lists \subseteq [Stages -> SUBSET DBs]
  /\ TickHours \in Nat \ {0} /\ MaxAgeParam \in Nat /\ DailyAgeParam \in Nat /\ MaxDelay \in 0..24
  /\ BackupHour \in 0..23 /\ VerifyHour \in 0..23
  /\ BackupHour % TickHours = VerifyHour % TickHours /\ 24 % TickHours = 0

VARIABLES
  hour,       \* hour of the day (UTC)
  object,     \* age of the newest non-empty daily object of each database
  dbs,        \* available_databases of each stage
  stamp,      \* age of stage.last_backup
  hostStamp,  \* age of host.last_backup
  review,     \* stage.backup_review_needed
  hostReview, \* host.backup_review_needed
  agent,      \* the agent on the server: none, idle, uploaded (about to report)
  verify,     \* the verify pass: idle, due (reached another server first), fallback done
  elapsed,    \* hours since the pass took its `now`
  covered,    \* history: databases a stage had when it was last stamped
  confirmed   \* history: stages the last verify pass stamped

vars == <<hour, object, dbs, stamp, hostStamp, review, hostReview, agent, verify,
          elapsed, covered, confirmed>>

-----------------------------------------------------------------------------
\* The two freshness windows.
MaxAge   == Max({24, MaxAgeParam})
DailyAge == Max({1, Min({DailyAgeParam, MaxAge - 4})})

Old == MaxAge + DailyAge + TickHours
Ages == 0..Old
Older(a) == Min({a + TickHours, Old})

\* _expects_backup on a server whose key is authorized.
Expects(s, lists) == lists[s] # {}
Expecting(lists) == {s \in Stages : Expects(s, lists)}

\* _compute_backup_overdue
Overdue(s) == Expects(s, dbs) /\ stamp[s] > MaxAge

\* _backup_targets: every database of every stage, once.
Targets(lists) == UNION {lists[s] : s \in Stages}

AllFreshForMaxAge(s, lists, bucket) == \A d \in lists[s] : bucket[d] <= MaxAge

\* s._backup_dbs() <= _recent_backup_dbs(daily_age)
AllFresh(s, lists, bucket) == \A d \in lists[s] : bucket[d] <= DailyAge

\* host.last_backup.date() == today
StampedToday == hostStamp <= hour

\* The bucket after the databases in S were uploaded.
Uploaded(S) == [d \in DBs |-> IF d \in S THEN 0 ELSE object[d]]

Init ==
  /\ hour = BackupHour
  /\ object = [d \in DBs |-> Old]
  /\ dbs \in Lists
  /\ stamp = [s \in Stages |-> Old]
  /\ hostStamp = Old
  /\ review = [s \in Stages |-> FALSE]
  /\ hostReview = FALSE
  /\ agent = "none"
  /\ verify = "idle"
  /\ elapsed = 0
  /\ covered = [s \in Stages |-> {}]
  /\ confirmed = {}

-----------------------------------------------------------------------------
\* Here and below, an operator that no action uses is a wrong variant of the
\* operator after it, for checking the properties.
StampOnlyOverdue(lists, bucket, age, hostAge) ==
  LET expecting == Expecting(lists)
      fresh == {s \in expecting : AllFresh(s, lists, bucket)}
      restamp == {s \in fresh : stamp[s] > MaxAge}
  IN /\ stamp' = [s \in Stages |-> IF s \in restamp THEN age ELSE stamp[s]]
     /\ covered' = [s \in Stages |-> IF s \in restamp THEN lists[s] ELSE covered[s]]
     /\ review' = [s \in Stages |-> IF s \in expecting THEN s \notin fresh ELSE review[s]]
     /\ hostReview' = (fresh # expecting)
     /\ hostStamp' = IF fresh = expecting THEN age ELSE hostAge

\* The stamping half shared by _reconcile_backup_state and _cron_verify_backups:
\* `age` is the age of the caller's `now`, hostAge what last_backup is otherwise.
StampAll(lists, bucket, age, hostAge) ==
  LET expecting == Expecting(lists)
      fresh == {s \in expecting : AllFresh(s, lists, bucket)}
  IN /\ stamp' = [s \in Stages |-> IF s \in fresh THEN age ELSE stamp[s]]
     /\ covered' = [s \in Stages |-> IF s \in fresh THEN lists[s] ELSE covered[s]]
     /\ review' = [s \in Stages |-> IF s \in expecting THEN s \notin fresh ELSE review[s]]
     /\ hostReview' = (fresh # expecting)
     /\ hostStamp' = IF fresh = expecting THEN age ELSE hostAge

NothingExpectedClearsAll(hostAge) ==
  /\ hostReview' = FALSE
  /\ hostStamp' = hostAge
  /\ review' = [s \in Stages |-> FALSE]
  /\ UNCHANGED <<stamp, covered>>

\* No instance expects a backup: only the server's own flag is cleared.
NothingExpected(hostAge) ==
  /\ hostReview' = FALSE
  /\ hostStamp' = hostAge
  /\ UNCHANGED <<stamp, covered, review>>

Reconcile(lists, bucket, hostAge) ==
  \/ Expecting(lists) = {} /\ NothingExpected(hostAge)
  \/ Expecting(lists) # {} /\ StampAll(lists, bucket, 0, hostAge)

RunStampAlways(S) == 0

\* _run_daily_backup stamps the server when at least one database was uploaded.
RunStamp(S) == IF S = {} THEN hostStamp ELSE 0

-----------------------------------------------------------------------------
\* 15-minute cron: the lists of all instances come from one probe.
RefreshDatabases ==
  /\ dbs' \in Lists
  /\ UNCHANGED <<hour, object, stamp, hostStamp, review, hostReview, agent, verify,
                 elapsed, covered, confirmed>>

\* The nightly cron on a server without an agent: refresh, back up (any part of
\* the targets may fail), reconcile, one commit.  A failing reconcile is skipped;
\* a failing commit loses the rows but not the uploads.
DailyBackup ==
  /\ hour = BackupHour /\ agent = "none" /\ ~StampedToday
  /\ \E lists \in Lists : \E S \in SUBSET Targets(lists) :
       /\ object' = Uploaded(S)
       /\ \/ dbs' = lists /\ Reconcile(lists, object', RunStamp(S))
          \/ dbs' = lists /\ hostStamp' = RunStamp(S)
             /\ UNCHANGED <<stamp, review, hostReview, covered>>
          \/ UNCHANGED <<dbs, stamp, hostStamp, review, hostReview, covered>>
  /\ UNCHANGED <<hour, agent, verify, elapsed, confirmed>>

\* The hourly cron that installs the agent, or the button.
DeployAgent ==
  /\ agent = "none"
  /\ agent' = "idle"
  /\ UNCHANGED <<hour, object, dbs, stamp, hostStamp, review, hostReview, verify, elapsed,
                 covered, confirmed>>

\* The agent uploads by itself, at the backup hour of the server.
AgentUpload ==
  /\ hour = BackupHour /\ agent = "idle"
  /\ \E S \in SUBSET Targets(dbs) : S # {} /\ object' = Uploaded(S)
  /\ agent' = "uploaded"
  /\ UNCHANGED <<hour, dbs, stamp, hostStamp, review, hostReview, verify, elapsed,
                 covered, confirmed>>

\* It reports only after an upload; the report may be lost or fail.
AgentReport ==
  /\ agent = "uploaded"
  /\ agent' = "idle"
  /\ \/ Reconcile(dbs, object, hostStamp)
     \/ UNCHANGED <<stamp, hostStamp, review, hostReview, covered>>
  /\ UNCHANGED <<hour, object, dbs, verify, elapsed, confirmed>>

\* "Run backup": no guard on the time and no reconciliation of the instances.
\* Phase 2 stamps the server if anything was uploaded, or gives up.
RunBackupNow ==
  /\ \E S \in SUBSET Targets(dbs) :
       /\ object' = Uploaded(S)
       /\ hostStamp' \in {RunStamp(S), hostStamp}
  /\ UNCHANGED <<hour, dbs, stamp, review, hostReview, agent, verify, elapsed, covered, confirmed>>

\* The verify pass is done with this server; `stamped` were confirmed.
EndPass(stamped) ==
  /\ verify' = "idle" /\ elapsed' = 0 /\ confirmed' = stamped

FreshNow == {s \in Expecting(dbs) : AllFresh(s, dbs, object)}
FreshDbs == UNION {dbs[s] : s \in FreshNow}
StaleDbs == UNION {dbs[s] : s \in Expecting(dbs) \ FreshNow}

\* Nothing to heal: stamp and commit (or the commit fails and the server is skipped).
VerifyFresh ==
  /\ verify = "due" /\ FreshNow = Expecting(dbs)
  /\ \/ /\ Expecting(dbs) = {} /\ NothingExpected(hostStamp)
        /\ EndPass({})
     \/ /\ Expecting(dbs) # {} /\ StampAll(dbs, object, elapsed, hostStamp)
        /\ EndPass(FreshNow)
     \/ /\ UNCHANGED <<stamp, hostStamp, review, hostReview, covered>>
        /\ EndPass({})
  /\ UNCHANGED <<hour, object, dbs, agent>>

\* Some instance is stale: back up exactly the databases of the stale ones.
\* The transaction is rolled back after that, with the stamp of the run.
VerifyFallback ==
  /\ verify = "due" /\ FreshNow # Expecting(dbs)
  /\ \E S \in SUBSET StaleDbs : object' = Uploaded(S)
  /\ verify' = "fallback"
  /\ UNCHANGED <<hour, dbs, stamp, hostStamp, review, hostReview, agent, elapsed, covered, confirmed>>

\* Re-read everything, list the bucket again, stamp with the pass's `now`.
VerifyAfterFallback ==
  /\ verify = "fallback"
  /\ \/ /\ StampAll(dbs, object, elapsed, hostStamp)
        /\ EndPass(FreshNow)
     \/ /\ UNCHANGED <<stamp, hostStamp, review, hostReview, covered>>
        /\ EndPass({})
  /\ UNCHANGED <<hour, object, dbs, agent>>

\* Time passes; the verify pass starts at its hour, every day.
Tick ==
  /\ verify = "idle" \/ elapsed + TickHours <= MaxDelay
  /\ hour' = (hour + TickHours) % 24
  /\ object' = [d \in DBs |-> Older(object[d])]
  /\ stamp' = [s \in Stages |-> Older(stamp[s])]
  /\ hostStamp' = Older(hostStamp)
  /\ verify' = IF hour' = VerifyHour THEN "due" ELSE verify
  /\ elapsed' = IF verify = "idle" THEN 0 ELSE elapsed + TickHours
  /\ UNCHANGED <<dbs, review, hostReview, agent, covered, confirmed>>

Verify == VerifyFresh \/ VerifyFallback \/ VerifyAfterFallback

Next ==
  \/ RefreshDatabases \/ DailyBackup \/ DeployAgent \/ AgentUpload \/ AgentReport
  \/ RunBackupNow \/ Verify \/ Tick

Spec == Init /\ [][Next]_vars

\* The verify cron runs; a fallback that is tried every day is not incomplete
\* for ever, nor is its commit refused for ever.
FullFallback == VerifyFallback /\ \A d \in StaleDbs : object'[d] = 0
ConfirmingPass == Verify /\ confirmed' # {}
HealingSpec ==
  Spec /\ WF_vars(Tick) /\ WF_vars(Verify) /\ SF_vars(FullFallback) /\ SF_vars(ConfirmingPass)

-----------------------------------------------------------------------------
(* Properties.                                                             *)

\* Every variable keeps its type.
TypeOK ==
  /\ hour \in 0..23
  /\ object \in [DBs -> Ages]
  /\ dbs \in [Stages -> SUBSET DBs]
  /\ stamp \in [Stages -> Ages] /\ hostStamp \in Ages
  /\ review \in [Stages -> BOOLEAN] /\ hostReview \in BOOLEAN
  /\ agent \in {"none", "idle", "uploaded"}
  /\ verify \in {"idle", "due", "fallback"}
  /\ elapsed \in 0..MaxDelay
  /\ covered \in [Stages -> SUBSET DBs]
  /\ confirmed \subseteq Stages

\* A green instance really has backups: of every database it had when it was
\* last stamped, and at most DailyAge older than the stamp says.
GreenMeansBackedUp ==
  \A s \in Stages : Expects(s, dbs) /\ ~Overdue(s) =>
    \A d \in covered[s] : object[d] <= stamp[s] + DailyAge

\* What _backup_daily_age_hours promises: an instance a verify pass confirmed
\* does not age into 'overdue' before the next pass is done with it.
ConfirmedNotOverdue ==
  \A s \in confirmed : ~Overdue(s)

\* "Already backed up today?  Skip.": when the nightly run skips a server,
\* something was uploaded from it since midnight.
SkipIsJustified ==
  [][hour' # hour /\ hour' = BackupHour /\ agent = "none" /\ StampedToday'
       => \E d \in DBs : object'[d] <= hour']_vars

\* An instance's flag is taken away only by a backup, not older than DailyAge,
\* of every database it has.
ClearedByBackup ==
  [][\A s \in Stages : review[s] /\ ~review'[s] =>
       dbs'[s] # {} /\ \A d \in dbs'[s] : object'[d] <= DailyAge]_vars

\* The monitor heals: an overdue instance does not stay overdue.
OverdueHeals ==
  \A s \in Stages : Overdue(s) ~> ~Overdue(s)

\* _backup_max_age_hours: "A server with no successful backup newer than this
\* is 'overdue'".
OldMeansOverdue ==
  \A s \in Stages : Expects(s, dbs) /\ (\E d \in dbs[s] : object[d] > MaxAge) => Overdue(s)

\* The reason the flag is raised with: "No backup found in the bucket for
\* instance ... in the last <max_age>h".
ReasonIsTrue ==
  [][\A s \in Stages : ~review[s] /\ review'[s] => \E d \in dbs'[s] : object'[d] > MaxAge]_vars

\* "Host-level rollup (drives the Servers list)": a flagged instance flags its
\* server.
FlagRollsUp ==
  (\E s \in Stages : review[s]) => hostReview

=============================================================================
