# Verification of the Odoo server-management addon

TLA+ models of `src/odoo_server_management`, an Odoo addon that manages a fleet
of Odoo servers: it runs start/stop/pull/upgrade/backup operations on instances
over SSH (Ansible), discovers what a server runs, keeps and watches nightly
backups in an S3 bucket, and decides which user may act on which instance.
Paths below are relative to `src/odoo_server_management/`.

- [Inventory](#inventory)
- [Modules](#modules)
- [Runs](#runs)
- [Proofs](#proofs)
- [Disagreements](#disagreements-between-code-and-documentation)
- [Not modelled](#not-modelled)
- [Plan](#plan)

Tools: `tlc -config X.cfg M` in this directory for a run, `tlapm M.tla` for a
proof module. `PROJECT.json` lists runs, mutants, hazards, theorems, and for
every definition the source lines it stands for.

## Inventory

| Component | State | Operations | What makes it correct |
|---|---|---|---|
| Stage operation runner (`models/stage.py` `_run_bg`, `models/server_host.py` `_register_hook`) | `op_state`, `op_label`, `op_detail` of a stage; one daemon thread per operation | click, guard under `FOR UPDATE`, work (phase 1), outcome (phase 2, 5 tries), restart hook | operations on an instance exclude each other; the outcome shown is the one of the operation named; nothing stays "running" without a reason; the remote side effect happens once |
| Backup freshness (`server_host.py`, `stage.py`, `controllers/backup_agent.py`) | `last_backup`, `backup_review_needed` of stages and hosts, the age of objects in the bucket | nightly cron, agent upload and report, Run Backup, verify pass with fallback, database refresh | a green instance has backups; a missed backup is noticed and made up for |
| Backup runs and storage (`server_host.py`, `models/backup_storage.py`, `ansible/playbooks/backup_run.yml`, `files/smart_backup.py`, `files/backup_agent.sh.j2`) | objects and multipart uploads in the bucket, the URL map file on the server, the script's result | mint URLs, run the script, complete/abort, prune, manual purge, the agent's upload and clean-up | objects are whole; "uploaded" is true; the last backup survives pruning; an upload that stays open is explained |
| Discovery (`server_host.py` `action_discover`, `_sync_instances`, `files/discover.py`) | `server.stage` records of a host | scan (phase 1), sync with a savepoint per instance (phase 2, 5 tries), prune | one stage per service, unique names, user corrections kept, only what is gone is pruned |
| Access grid (`models/stage_access.py`, `res_users.py`, `security/`) | roles, Client Server flag, `server.stage.access` rows | materialise rows, re-default on a Tech Lead flip, toggles, Refresh | whoever is enrolled gets rows with the default of the moment, what was toggled stays, buttons and server check agree |
| Host operations (`server_host.py` `action_discover`, `action_run_backup_now`, `_mark_failed`) | `op_state`, `op_label` of the server; one daemon thread per run of a request | click (no lock, no guard), work, outcome (5 tries), the failure of a discovery (1 try) | "running" is shown only while somebody works or the log says why, and ends |
| Instance status and auto-stop (`server_host.py` `_refresh_status`, `_refresh_and_commit`, `_auto_stop`; `stage.py` `action_check_status`, service actions; `files/check_status.py`, `files/auto_stop.py`) | `odoo_status` of a stage, the service's state on the server | cron, status buttons, start/stop/restart/pull/upgrade/check, auto-stop | what is shown was true when somebody looked, does not go back, and settles on the truth |
| Web terminal (`controllers/terminal.py`, `static/ws/terminal_server.py`) | one event loop, one executor; per session a socket, an SSH client, a shell, two coroutines | token, connect, shell, relay, close | a session that lost its tab or its shell closes everything |
| Live log (`controllers/log_stream.py`) | an ssh process, its pipe, Python's read buffer | select, readline, keepalive, end after 10 minutes | feeds end and leave no process; lines are pushed |
| Wizards, browser, settings, web client, playbooks, scripts | little or none | | see [Not modelled](#not-modelled) |

How they interact. Everything meets in the rows of `server.stage` and
`server.host`: the runner, three refresh crons, discovery, the verify pass and
users write the same rows, each in its own PostgreSQL transaction. Odoo runs them
at REPEATABLE READ: a write to a row that somebody committed after the snapshot
was taken is refused. Odoo reruns a *request* that is refused; *threads* and
*crons* have to do that themselves, and do so in different ways (5 tries, a
savepoint, a log line, not at all). Long work (Ansible over SSH) happens outside
of transactions or in one that is rolled back. The bucket and the managed server
are shared without any transaction.

What is hard here: two clicks or two Odoo processes at once; a thread that
outlives, or is outlived by, the request that started it; a request that Odoo runs
again although its first run has started a thread; a process that stops
with operations in flight; values read before minutes of SSH and used after it;
stamps that are times of confirmation, not of backup; retries that must not
repeat a side effect; a fixed file name on a server; defaults that are written
down as rows. `PROJECT.json` lists each of them at its line (`hazards`) with the
properties that watch it, or with the reason why none does.

## Modules

Conventions. A definition keeps the code's name where it can. An operator that
no action uses and whose comment says "wrong" (or that stands directly before
the operator it imitates) is a plausible bug of that operator: `mutants` in
`PROJECT.json` names the property each of them breaks. Every bound is a CONSTANT.

### StageOps

One action per step that another actor can see. A request: `OpenRequest` (its
snapshot starts), `Busy` or `Launch` (the guard under the row lock; the thread is
started here, before the commit), `CommitRequest` ("running" becomes visible),
`RetryRequest` (Odoo's rerun after a refused snapshot), `LoseRequest` (the transaction
fails after the thread was started, which goes on; Odoo's rerun of such a request is one
more click). The thread: `BeginWork`, `FinishWork` (the side effect; its outcome is a
choice) or `CrashBeforeWork` (the outer `except` of phase 1: an outcome without work),
`BeginPersist`, `Persist`, `PersistConflict` (next try, or the log line after the last
one).
Others: `CronWrite` (any cron that commits the row), `Delete` (wizard or prune),
`RestartService` (all processes) and `ReloadRegistry` (one of them), which kill
threads and requests and run `_register_hook`. `row.label` and `row.shown` name
the operation whose label and whose outcome the row carries; `stale` is the set of
open snapshots that a commit has overtaken; `reported` are the stages for which
the log says that they were left "running".

### OpSlot, and StageOps as its implementation

`OpSlot` is what the runner promises to everything that is started through it, in
four variables: `row` (what an instance shows), `holder` (the operation that has
the instance: at most one, from its acceptance to its outcome), `used` (operations
that have had their turn) and `reported` (instances left "running", with a line in
the log). An operation acquires the slot, announces itself, concludes with its
own outcome or leaves; a restart frees all slots. `StageOps!ImplementsOpSlot` is
`Slot!Spec` under the mapping

- `holder`: the operations on the instance whose thread is alive (it is started
  before the request commits),
- `used`: the operations that have started a thread,

with `row` and `reported` as they are. Every action of StageOps is one action of
OpSlot or a stutter; in particular a second click, which the guard answers with
"busy", changes nothing. The exceptions are `ReloadRegistry` and `LoseRequest`: after
either, a thread lives that no row names. `Undisturbed` says that neither has happened
so far, and everything that says who owns an instance is said of such behaviours.

### StatusSync

Composes `OpSlot` (one operation at a time on an instance, its outcome at the end)
with everything that looks at or moves a service. `history[s]` are the states a
service has been in, `status[s]` the status shown together with the length of the
history when its writer looked; so "older" and "was true" can be said. The
cron and the buttons: `BeginRefresh` (snapshot), `AskUnit` for each unit
(`check_status.py` asks one after the other) or `Unreachable`, `CommitRefresh`
or `RefreshConflict`, which asks again. Operations: `StartService`,
`StopService`, `TakeDown`/`BringUp` (restart, pull and upgrade, in which the
service is down for a while and may stay so), `CheckStatus`, and `Conclude`, which
writes what phase 1 saw. `FindOld`, `StopOld`, `EndAutoStop` are auto-stop,
`Outside` is a person, a crash or a reboot on the server, `GrowOld` the days that
pass. Of the words of systemd the code distinguishes "active" (also "activating"),
others, and none.

### HostOps

The same pattern as StageOps for a server, with its differences as its subject.
`Launch` starts the thread with no guard; `CommitRequest` is the flush of
"running", `RerunRequest` Odoo's second run of a request whose flush was refused,
which starts a second thread beside the first. A thread of a discovery that failed,
or whose phase 2 gave up, goes through `_mark_failed` ("marking", one try). `row.label`
is the click whose label is shown: nothing makes it the click whose outcome is
written, so the properties only ask that "running" is explained. The server is
not deleted.

### Terminal

The bridge process. `At` is a coroutine that runs because none keeps the loop;
`AskShell` keeps it (invoke_shell is called on the loop), the executor's threads
(`EndVerify`, `EndConnect`) and the SSH library's (`Output`, `ShellExits`) do not
need it. `Poll` and `AskExit` are the two looks of `ssh_to_ws`, between which output
and exit may arrive. `NeverLeaks` is the safety half of closing (a session that is over
has let go of everything it opened, at whichever step it was refused or cut off),
`EverySessionCloses` the liveness half, which the code does not keep
(`terminal_hang.cfg`): nothing makes `GetShell` happen, since `invoke_shell` has no time
limit. `SessionsClose` says the same under the condition that each of its calls returns.

### LogFeed

One generator. `pipe`, `text` and `part` say where a line is: in the pipe that
`select` sees, in the buffer of `readline` that it does not see, or not finished.
`Turn` is the clock and the `select`, `ReadLine` one `readline`, which takes what the pipe
holds and returns one line.

### BackupFreshness

Ages in hours instead of times. `object` is the truth (the newest object of each
database), `stamp`/`hostStamp` what the manager believes, `review`/`hostReview`
the flags. `StampAll` is the half that `_reconcile_backup_state` and
`_cron_verify_backups` share. The verify pass is three steps (due, fallback,
after the fallback), since hours of SSH lie between them and its `now` is taken
once. `covered` and `confirmed` are history variables. One upload is one step:
BackupRun looks into it.

### BackupRun

One day of one server. `Mint` creates the upload, `CopyMap`, `StartScript` and
`RemoveMap` are the tasks of `backup_run.yml` with the one file all runs share,
`PutPart`/`PutWhole`/`ScriptFails` are the script, which lives on when the run has
given it up (`GiveUp`: unreachable, or six hours), `Complete`, `Accept` and
`Abort` are the ways `_backup_db_to_key` returns. It may also raise, before
(`MintFails`: the upload may exist by then) or after (`RunRaises`) its URLs are minted;
the loop then logs it and nobody aborts the upload, and `AbortUpload` may fail, which
is swallowed. `logged` are the attempts whose exception is in the log. `Misled` says
that a script executed the map which a Backup Now of the same database wrote. `EndOfLoop` and `Prune` list
and delete; `AgentPut`, `AgentList`, `AgentClean` do the same on the server's
side. What an object is made of is the set of scripts whose parts it has; the
bucket accepts a multipart upload only with the ETags of the parts it holds (this
is S3's doing, and what makes `WholeObjects` true). Pruning knows three ages:
today's key and two keys past their retention.

### Discovery

A scan reports for each unit the name it is served under. `CommitSync` is the
whole of phase 2 (`SyncCommits`) as one function of the snapshot, the report, the rows
others committed since and the instances (`broken`) for which `_sync_repos` raises inside
the savepoint: `Synced` applies `SyncOne` to the units in the order of the scan,
as the loop of `_sync_instances` does, including the savepoint that skips an
instance; `Pruned` follows. `FailSync` is a refused write outside the
savepoints. `SiteChange` is what happens on the servers; the user renames,
resumes the sync, deletes and creates; `CronWrite` commits a row.

### AccessGrid

A request reads at `Open` (in `SaveUser`, `SaveGroups`, `CreateStage`, `Refresh`) and
writes at `Commit`, so another one may commit in between; `Overtake` marks those that
update a row written meanwhile (Odoo reruns them: `Retry`) and takes what has changed
out of `current`, a history variable with the pairs a request has read and nobody has
changed since; `Clash` marks those whose insert fails (`Fail`). `Toggle`, `Unlink`,
`FlipClient` and `DeleteStage` are immediate: their own staleness is Odoo's, not this
code's. `Allowed` is the server's check, `Shown` the computed buttons, `Sees` the record
rules. DevOps and Administrator are one role, since the grid treats them alike.

Roles change in two ways. `SaveUser` is what the code hears of: `create`, and a `write`
whose values have a `groups_id` key (a script, the signup hook after its create).
`SaveGroups` is what it does not hear of: the user form under Settings, whose values have
`sel_groups_*` and `in_group_*` keys that Odoo converts further down the MRO, after this
`write` has looked for `groups_id` (`models/res_users.py:46`), and a write on the users of a
group. It changes the role and nothing else. `Moves` and `UnseenMoves` are the changes a
run allows on either way.

## Runs

All bounds are small because the interesting cases need few actors: two
operations on one row, two syncs of one host, two requests on one grid; each
property was seen to fail on its mutant within the same bounds.

| Run | Instance | Shows |
|---|---|---|
| `stageops` | 2 stages, 3 clicks, 1 process, 2 tries of phase 2, 1 cron commit, 1 restart; no request lost, no process recycled alone | exclusion, outcomes and labels, at most one side effect and one before "done", the refinement of OpSlot |
| `stageops_live` | 1 stage, 2 clicks, 2 processes of which one may be recycled alone, 1 request that may be lost after its launch, 1 restart, 1 cron commit | every click is decided, every launch answered, "running" ends or is logged; `ToldIsNotRunning` and `StuckIsReported` also with a recycled process and a lost request |
| `status` | 1 instance with Auto-Stop, cron, 1 button, 1 operation of any kind, 2 tries; 3 events in all, of which at most 1 change on the server, 1 failed question, 1 restart | the status shown was true when its writer looked; a refresh brings back nothing older; when the services rest the status settles on the truth |
| `hostops` | 2 clicks of either kind, 2 runs of one request (1 rerun in all), 2 tries; 1 event: a cron commit, a restart or the hook of another process | "running" is explained and ends |
| `terminal` | 2 sessions, a pool of 1 thread, 1 piece of unread output each | tabs closed at any moment and shells that end: if every `invoke_shell` returns the session ends; one that has ended holds no SSH client, shell, page or loop, whether or not they return |
| `feed_lags` (violation) | 1 feed, up to 3 lines at once | lines that were read stay unsent while the feed sends keepalives |
| `freshness` | 1 instance whose list may be empty, shipped windows and hours, time in steps of 2 h, pass of at most 4 h | green means backed up, confirmed stays green, skips and cleared flags are earned, an overdue instance turns green again |
| `discovery` | 2 hosts, 2 units on one that may claim the same domain and none on the other, 2 overlapping discoveries; changes on the servers, user edits (of names plain and as the numbering would give them), a cron commit and 1 instance whose repository sync raises, within `MaxEvents` = 2 | one stage per service, corrections survive, detected services are not pruned, an undisturbed sync mirrors its scan but for the instance that raised, a sync prunes its own host only |
| `discovery_missed` (violation) | 1 unit may fail to be read | it is taken for gone |
| `backup_run` | 2 databases (one multipart, 2 parts), a daily run over both, a Backup Now of the small one, an agent over the small one, a stop of Odoo, two objects past retention; minting, the playbook call and aborting may raise | objects are whole, "uploaded" is true unless the run was misled by that Backup Now, pruning leaves a backup, an upload left open is explained |
| `backup_false` (violation) | a daily run and a database-only Backup Now of one database | "uploaded" is false |
| `access` | 1 user, 2 stages (a Client Server whose switch is used, and a new one), both created and deleted, 2 overlapping requests, any change of role on either way, rows deleted by hand | buttons and check agree; a request leaves a row for every pair it read and nobody changed; nothing read before a toggle overwrites it; new and reset rows have the default of their moment; a Refresh changes no rights but by what it read too early |

`MaxAttempts` is 2 instead of 5: one retry and one last try are all the code
distinguishes. In `freshness`, hours are a grid because only hours 2 and 8 and the
windows 20 and 28 are compared; ages are capped above every comparison.
The grid of 2 h puts hour 0 between midnight and the nightly run, so that a manual
backup can be what the run skips for; 4 h is the longest pass the daily window
allows for (`max_age - 24`).
`CHECK_DEADLOCK FALSE` where clicks, scans, runs and budgets are used up and the
system then rests. Symmetry is used for interchangeable operations, scans,
requests and users, and only in runs without liveness.

`DoneIsStored` and `TrueMeansStored` differ in one case, `Misled`: the script of a daily
run executed the map that a Backup Now of the same database had written, both need no
multipart upload (or the other does not), the database of the result is the right one, and
nothing compares keys (`server_host.py:784`, `backup_run.yml:14`). `backup_run` contains
the case and shows that it is the only one: a stolen map of another database is not found
in the result, one of another upload has the wrong ETags, and one of another daily run
stores under the same key. `backup_false` shows that it happens. `OpenIsOwned` and
`UploadIsClosed` are related in the same way: the first lists every reason for which an
upload stays open, the second is what the docstring says.

In `status`, one instance and one operation are enough because the properties are
about one row; the races are between its writers, and all four kinds are there. In
`terminal`, two sessions are what it takes for one to keep the loop or the pool
from the other. `logfeed.cfg`, which passes, checks `FeedsEnd` (a feed ends, busy or silent,
with its page or without, and no ssh process outlives it) by hand, under the
assumption that begun lines are finished; `feed_cap.cfg` shows why it is needed.

### Fairness

`StageOps!FairSpec`: weak fairness of every request and of every thread. A started
thread runs (Python threads, no lock is held across the work) and a request that
passed its guard ends, committed or lost; nobody has to click, no cron has to write,
nothing has to crash. The bounded number of cron commits stands for "they do not overtake
every try for ever". `BackupFreshness!HealingSpec`: time passes and the verify
cron runs (weak), and the fallback and the commit of its outcome do not fail every
single time (strong). The code cannot guarantee the last two, and says what it
does when they fail for long: it keeps the flag.

`StatusSync!FairSpec`: the cron comes again, asks and commits (weak fairness of
its steps; Odoo runs it every five minutes). That nobody overtakes it for ever is
the bound on events: a status button pressed for ever could. Nobody has to click or to
repair anything. `HostOps!FairSpec`: requests are finished and threads run, as in
StageOps. `Terminal!FairSpec`: strong fairness of the coroutines' steps, because
another session takes the loop again and again and asyncio runs ready callbacks
in the order they became ready; weak fairness of what ends by itself (the
executor's jobs: a look into the database, and a connect with its time limits of 15 s; the
exit status is asked of the library). No fairness of `GetShell`: `invoke_shell` waits for the
server's answers without a limit, so `SessionsClose` has its return as a hypothesis. No
fairness of tabs, shells, output. A
browser that takes nothing is dropped by the pings (`ping_interval`), so `Send` ends.
`LogFeed!FairSpec`: the generator runs and time passes.

## Proofs

`StageOpsProofs` proves, for any number of stages, clicks, processes, tries, cron
commits, restarts, recycled processes and lost requests, `TypeOK`, `StuckIsReported`,
`ToldIsNotRunning` and `WorkRunsOnce`. `ExclusiveOperation` and `OutcomeBelongsToLabel`
hold in every state before a process is recycled alone or a launched request is lost
(`[](Undisturbed => ...)`); `FinalUntilNextOperation` and the refinement in every
behaviour in which that does not happen (`Spec /\ []Undisturbed => ...`), whatever the
bounds allow. The condition is part of the statements because it is part of the truth:
after either event a thread is alive that no row names, and `stageops_interrupted` is the
counterexample.

The properties are not inductive. `Always` is what holds whatever happens: `Lifecycle`
ties the phases of request and thread together, `AttemptsLeft` bounds the counter,
`OutcomeKnown` says that a persisting thread has an outcome, `LabelCommitted` that a row
names only requests that have ended, `LockHeld` and `LockedIsLive` that a request not yet
committed keeps its row and that its thread cannot have ended, `FreshSeesStage` that a
request whose snapshot is not stale sees the committed row. `Owned` is what an undisturbed
behaviour adds: that two live threads have different targets, because a live thread owns
its row either as the holder of its lock or as the label of a row that says "running"
(`Owner`). There is one lemma per action for each half; `ReloadStep` and `RestartOwned`
are the long ones, since the hook touches every row.

`WorkIsDoneOnce` has an invariant of its own: `Counted` says that a thread before its work
has done it zero times, one past it once, or zero times with the outcome "failed" (the outer
`except`); a thread that a restart or reload killed may have done either, and never starts
again. So "done" is told only of work that was done; "failed" may be told of work that was
never entered.

`BackupFreshnessProofs` proves `TypeOK` and `GreenMeansBackedUp` for every set of
instances and databases and every window and hour, with `TypeOK /\ StampBounds`
as the invariant: the newest object of a covered database is at most `DailyAge`
older than the stamp, also when both have reached the cap. (No run lists `TypeOK`
of this module: what it bounds is the model's own cap.) It needs only the
constants' assumptions; `Windows` derives `DailyAge <= MaxAge` from the clamps of
the two configuration readers. `ClearedByBackup` follows from the same typing.
The two properties about time rest on the clock: `OnTheHour` (a grid that divides
the day and contains the verify hour never jumps over it) and `ClockRuns` (while a
pass is not done, its delay is the time since the verify hour).
`ConfirmedNotOverdue` then has the invariant `ConfirmedIsRecent` (the stamp of a
confirmed instance is not older than the last pass, or the one before while one is
under way), under `SameDay` (a pass is done with its server on the day it began) and
`RoomForDelay` (`24 + MaxDelay <= MaxAge`): a pass slower than that does let a
confirmed instance age into "overdue". `SkipIsJustified` has `StampIsUpload`, under
`SameDay` and `BackupHour <= VerifyHour`, which `freshness_skip.cfg` shows to be needed.

The refinement is `Implements`, in `StageOpsProofs`: `Spec /\ []Undisturbed =>
ImplementsOpSlot`. The initial state is one of OpSlot; then each action of
StageOps is matched with its abstract one (`Launch` acquires, `CommitRequest`
announces, `Persist` concludes, `GiveUp` and the end of a deleted stage's thread
leave, `RestartService` restarts, all others stutter), using `Calm`, which is
`Always /\ Owned`, where the abstract guard must be shown: that a launched
operation finds the slot free, and that the one that concludes holds it.

`HostOpsProofs` proves `TypeOK` and `RunningIsAlive` for any number of clicks, reruns,
tries, cron commits, restarts and registry loads by other processes (nothing like
`Undisturbed` is needed: an announced "running" only asks for an explanation). The
step in danger is `CommitRequest`, which writes "running" after its thread started and
may find it finished. `LaunchedIsAlive` is the reason it does not: a thread that wrote
its outcome has overtaken its request, which is then refused, and one that gave up is
in the log. It rests on `Unstarted` (a run that has not come to its launch has no
thread of its own, so a launch never revives an ended one) and `RunsCounted`.

`BackupRunProofs` proves, for any number of databases, runs, agents and parts, with
`Known` (what runs, scripts, maps and uploads carry) under all four of them:

- `WholeObjects` without a hypothesis. Every step leaves an object alone, deletes it
  or replaces it by one attempt's dump. The step in danger is `Complete`, since the
  parts of an upload come from several scripts when maps are stolen; it succeeds only
  if the ETags its run heard of are the stored parts', so all of them are from the one
  attempt (`CompletedIsOwn`).
- `AlwaysABackup` without a hypothesis. Lists of what may be deleted grow stale while
  other pruners delete; `DoomedReplaceable` says what keeps them harmless: no list names
  an object of today, and an older nightly object is on one only while a newer one is
  stored. It is inductive with `MovesOn` (a step deletes nothing of today, and something
  older only when newer is there).
- `OpenIsOwned` without a hypothesis. An attempt is `Owned` while its run is at work on it
  or its open upload is `Explained`: the run was stopped, the log has an exception of the
  attempt, or its script executed a map for a single PUT. `WorkEnds` is the case that
  matters: whichever way a run leaves an attempt, the upload is closed or explained;
  and explanations stay (`ExplainedStays`).
- `DoneIsStored` without a hypothesis: the invariant `OkIsStored` says that a script
  whose result will be accepted stored the database it was asked for under the run's key,
  unless it was `Misled`, in which case it stays so (`TargetStays`).

`AccessGridProofs` proves for any number of users, stages, actions and requests:

- `ShownIsAllowed`, and `TogglesStick`: a toggle dooms the requests whose rows it
  overtakes, and what the others will write was read after it (`ResetsCurrent` in `Known`);
- `EnrolsWhatItRead`, `DefaultsOfTheMoment` and `RefreshKeepsRights`, from the invariant
  `CurrentIsServed` on top of `Known`: for every pair a request has read and nobody has
  changed since, it still sees the role and the type as they are or as it makes them itself,
  and either the row is there or it is about to be inserted with the default of that role
  and type, or reset to it (`Serves`, with `Shape` for what kinds of request write). The
  long part is that others cannot spoil it: whoever commits takes the pairs whose user,
  stage or row it changed out of `current` (`StillServed`, `CommitServed`).

All of them hold however requests overlap, for changes of role on either way, and without
a hypothesis. What they leave out is named in them: pairs changed behind a request's back.
`DefaultsHold`, `NeverMisses` and `ClientIsOptIn`, which say the same of every moment
instead of the moment of a commit, are false (see below).

`StatusSyncProofs` proves `TypeOK`, `ShownWasTrue` and `RefreshNeverGoesBack` for any
number of instances, operations, buttons, tries and restarts; the cron's and the
buttons' refreshes, the operations and the auto-stop job are all in it. An
observation is `Sound` when it is of its service's past and says what was true then:
histories only grow (`Grows`), so everything that carries one stays sound. `Owned`
says that an operation's observation is of the one instance it ever holds, and `Ahead`
that a refresh which no commit has overtaken asked after the status that is shown was
looked at. The last is the induction that a test cannot see: it needs that asking
follows the snapshot, that a retry asks again, and that every commit of a status,
also that of an operation, overtakes the open refreshes of its row.

`DiscoveryProofs` proves `TypeOK`, `OneStagePerService`, `OverrideSticks` and
`DetectedNotPruned` for any servers, units, names, discoveries and bounds, without a
hypothesis. It has two halves. `Sound` says what a transaction has done after any
number of units: everything it wrote is a record of its host for a reported service,
either new or not overtaken, with its name if a user keeps that; the services of the
host's records differ; and there are as many free ids as services still to be given a
record. It is an induction over the units of a scan: `SyncedIs` gives the steps of the
recursive function, `SoundStep` is the step, and `Induction` is derived from the library's
fact that `<` is well-founded, since the induction theorems themselves cannot be
instantiated here. `Fits` says what an open snapshot knows: a row not overtaken is as it
shows it, and while the row of the host is not overtaken no record for a unit of the host
has been added. The two meet in `CommitRows`; that the row of the host is written by every
sync is what makes one of two overlapping ones start again, and all that
`OneStagePerService` rests on.

`QuietMirrors` (`QuietSyncMirrorsScan`, also without a hypothesis) needs more than that.
The instances whose repository sync raises keep the record they had; the others must be
mirrored, although a sync may also skip an instance whose name it cannot write: it must then
not have been undisturbed. A name is refused when another record bears it, and the numbering only
looks at the names its transaction can see. The argument: the names to avoid are finitely many, so
one of more numbers than there are such names is free (`FreeNumber`, by pigeonhole;
the loop of `_unique_stage_name` ends); names differ in every committed table, whoever
writes it (`Named`); and a sync that nobody overtook sees the committed table, so a name it
finds free is free, and a name its user keeps is borne by no other record
(`QuietWrites`). So nothing else that was reported is skipped (`Done`, by induction over the units),
and what is left after the prune is one record for each.

`TerminalProofs` proves `TypeOK` and `NeverLeaks` for any number of sessions, threads
and pieces of output, without fairness: a session that is over has closed its SSH client,
its shell and its socket and does not hold the loop. `Inv` follows a session through its
phases: nothing is held before it begins (`NotBegun`), what a session holds while it
waits for the executor or the loop is on the way to be closed (`ClosingComes`), only
`invoke_shell` and the two coroutines' steps hold the loop (`HeldByCall`), and the jobs that
run are at most as many as the pool has threads (`PoolFits`).

The hypotheses that theorems have are stated with them: `Undisturbed` in StageOps,
`SameDay`, `RoomForDelay` and the order of the two hours in BackupFreshness. Each is true of
the configuration that checks the property, where a configuration without it finds the
counterexample (`stageops_interrupted`, `freshness_skip`), and TLC found the inductive
invariants true on those instances as well.

Only model-checked: liveness (`RunningEnds` of both runners, `EveryLaunchAnswered`,
`EveryClickDecided`, `OverdueHeals`, `SettlesOnTruth`, `SessionsClose`), which is outside
the prover's reach, as is ENABLED. `feed_lags` states a property the code violates, so
LogFeed has nothing to prove.

## Disagreements between code and documentation

In the suite (see `findings` for quotes):

- `discovery_missed`: a unit whose reading raised is pruned
  (`models/server_host.py:1729`, `files/discover.py:636-640`).
- `backup_false` (`TrueMeansStored`): a run that executes the URL map of a Backup Now for
  the same database reports success without an object of its own (`models/server_host.py:784`,
  `ansible/playbooks/backup_run.yml:14`, against `:735-736` "Returns True on success").
- `feed_lags`: log lines that arrive together are read together and pushed one by
  one as new output comes (`controllers/log_stream.py:111`, against `:23` "pushing
  each line as an SSE event").

Further ones, each with a configuration that reproduces it by hand (the property is
violated; these are not part of the regular suite):

| Configuration | Property | What happens |
|---|---|---|
| `stageops_interrupted.cfg` | `InterruptedIsDead` | `_register_hook` fails operations that are alive in another Odoo process (`server_host.py:154`); an instance can then be operated on twice at once |
| `hostops_twice.cfg` | `OneRunPerClick` | a request whose flush is refused is run again by Odoo and starts a second backup or discovery beside the first (`server_host.py:865`, against `:1427` "run discovery (ansible) ONCE") |
| `status_kept.cfg` | `BlindCheckKeeps` | a check that cannot determine the state writes back the status its phase 1 read, over a newer one (`stage.py:746`, against `:744` "Keep the last known status") |
| `status_young.cfg` | `StopsOnlyOld` | a service that was started again between auto-stop's look and its stop is stopped although it is young (`files/auto_stop.py:57`, against `:7` "services older than the threshold are stopped") |
| `terminal_tail.cfg` | `OutputIsShown` | output and exit arrive between `recv_ready` and `exit_status_ready`: the session ends without it (`static/ws/terminal_server.py:235`, against `:9` "pipes bytes both ways") |
| `feed_cap.cfg` | `FeedsEnd` | `readline` waits for the end of a line that never comes; neither the closed tab nor the cap is noticed (`controllers/log_stream.py:113`, against `:10` "Hard cap so a forgotten browser tab can't hold a streaming request forever") |
| `freshness_overdue.cfg` | `OldMeansOverdue` | stamps are confirmation times of backups up to `daily_age` old, so a newest backup of more than 28 h may be green (`server_host.py:187` "no successful backup newer than this is 'overdue'") |
| `freshness_reason.cfg` | `ReasonIsTrue` | a flag raised after 20 h says "no backup ... in the last 28h" (`server_host.py:1209`) |
| `freshness_rollup.cfg` | `FlagRollsUp` | an instance that lost its last database keeps its flag while the server's is cleared (`server_host.py:1253`) |
| `freshness_skip.cfg` | `SkipIsJustified` | with a backup hour after 8, the verify pass's confirmation of yesterday's backup makes the nightly run skip ("already backed up today", `server_host.py:1071`) |
| `discovery_conflict.cfg` | `ConflictIsRetried` | the savepoint swallows the serialization error that phase 2 is meant to retry; the instance is skipped and the scan reports done (`server_host.py:1718`, against `:1451`) |
| `discovery_rename.cfg` | `KeepsName` | names are given before the prune, so the same report renames a stage in the next sync (`server_host.py:1578`, against `:1573`) |
| `discovery_byhand.cfg` | `HandMadeSurvives` | the first discovery removes stages without a service name, which is what the form creates (`server_host.py:1729`) |
| `backup_leak.cfg` | `UploadIsClosed` | an upload was created and then presigning, the playbook call or the abort raises; nobody closes it (`models/server_host.py:692`, `models/backup_storage.py:194`, against `:735` "completing/aborting the multipart upload") |
| `terminal_hang.cfg` | `EverySessionCloses` | `invoke_shell` has no time limit and runs on the event loop: a call that never returns keeps every session open (`static/ws/terminal_server.py:223`, against `:187` "always close the ssh client + websocket") |
| `access_unseen.cfg` | `NeverMisses` | roles assigned on the user form, the way the user guide names, do not reach the grid (`models/res_users.py:46`, against `:49` and `USER_GUIDE.md:30`); a Tech Lead demoted there keeps the allowing rows of Client Servers (against `:51` "demotion revokes it") |
| `access_promoted.cfg` | `DefaultsHold` | an instance created during a promotion denies the new Tech Lead (`models/stage_access.py:92`, against `models/res_users.py:51`) |
| `access_flip.cfg` | `ClientIsOptIn` | marking an instance as Client Server leaves the allowing rows of all developers (`views/stage_access.xml:99` "read-only until you add a row") |
| `access_detour.cfg` | `DefaultsHold` | a Tech Lead who leaves the grid and returns as Developer keeps the allowing rows (`models/stage_access.py:113`, against `models/res_users.py:51`) |
| `access_missed.cfg` | `NeverMisses` | a user and an instance created at once do not see each other (`models/stage.py:297`) |
| `access_undone.cfg` | `SaveSurvives` | an insert that fails aborts the transaction although its error is swallowed (`models/res_users.py:32`) |

`freshness_shared.cfg` checks `GreenMeansBackedUp` on a second instance by hand (two
stages that share a database, one of which may lose its list; 6 h grid); it passes.

## Not modelled

- Pure I/O around one command: playbooks and hardening scripts. Their success or
  failure is a choice in the models.
- The stored-backup browser and the forms of the wizards: transient copies of a
  listing, replaced at every refresh.
- Repositories, branches, settings: plain records.
- The web client: toasts and reloads on bus messages.
- Secrets: encryption is a library call. The creation of the key file is listed as
  a hazard.
- `/presign` and `/finalize` of the agent controller: used by the former Python
  agent only.
- The half-written zip that a second agent run may leave under the first one's
  name, and the scratch directory that the agent wipes: listed as hazards. In
  BackupRun dump, check and put of the agent are one step.
- Of discovery: the repository links that `_sync_repos` writes (that it may raise inside
  the savepoint is modelled), the review flags for missing values and ambiguous domains, and
  a user who moves a stage to another server on its form (`views/stage_views.xml:91`): the
  prune and the search of a sync go by the server of a record, so a moved stage is one of
  the other server's from then on.
- `service_status` and `last_status_check`: nothing reads them back. The refresh of
  status and databases that follows a discovery (`server_host.py:1481`): these are
  `StatusSync!CommitRefresh` and `BackupFreshness!RefreshDatabases` without a retry.
  The refresh of commits writes a label.
- Of the terminal: characters cut in two by a read, the size of the window, and who
  is given a token.

## Plan

Order: what changes most state under most concurrency first.

1. Done: StageOps, BackupFreshness, Discovery, AccessGrid, BackupRun with their
   runs; theorems of StageOps and BackupFreshness.
2. Done: `OpSlot`, StageOps shown and proved to implement it; `StatusSync` on top of
   it; `HostOps`; `Terminal` and `LogFeed`.
3. Done: theorems for every safety property and action property that the passing runs
   check, and for the refinement; liveness stays with TLC.
4. Left: two agents at once in BackupRun, with the work directory as state; the links
   of the repository sync and stages moved between servers in Discovery.
