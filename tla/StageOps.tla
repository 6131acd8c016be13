------------------------------ MODULE StageOps ------------------------------
(***************************************************************************)
(* The runner of one-instance operations: start, stop, restart, check      *)
(* status, pull, upgrade and manual backup all go through                  *)
(* ServerStage._run_bg.  A request locks the stage row, refuses when an    *)
(* operation is already running, starts a daemon thread and only then      *)
(* commits op_state = 'running'.  The thread does the work once (phase 1)  *)
(* and writes the outcome in a short transaction that it retries when a    *)
(* concurrent commit overtook its snapshot (phase 2).  Threads and         *)
(* requests live in Odoo processes; a process that loads the registry runs *)
(* ServerHost._register_hook, which fails every row still 'running'.       *)
(*                                                                         *)
(* Transactions are PostgreSQL REPEATABLE READ: a write (or FOR UPDATE)    *)
(* waits for the row lock and is refused when the row was committed by     *)
(* somebody else after the snapshot was taken.                             *)
(***************************************************************************)
EXTENDS Naturals, FiniteSets

CONSTANTS
  Stages,         \* server.stage records
  Ops,            \* operation requests (clicks), each one used once
  Procs,          \* Odoo processes that serve requests and host the threads
  None,           \* no stage / no operation / no process
  MaxAttempts,    \* tries of phase 2 (5 in the code)
  MaxCronWrites,  \* bound: commits of the refresh crons to stage rows
  MaxRestarts,    \* bound: restarts of the whole Odoo service
  MaxReloads,     \* bound: one process dies and loads the registry again,
                  \* while the others keep running
  MaxLost         \* bound: requests whose commit fails after their launch

ASSUME StageOpsAssumption ==
  /\ None \notin Stages \union Ops \union Procs
  /\ MaxAttempts \in Nat \ {0}
  /\ MaxCronWrites \in Nat /\ MaxRestarts \in Nat /\ MaxReloads \in Nat
  /\ MaxLost \in Nat

VARIABLES
  row,      \* committed op_* columns of each stage (label: whose op_label,
            \* shown: whose outcome op_state/op_detail carry)
  lock,     \* holder of the row lock taken by SELECT ... FOR UPDATE
  req,      \* the request's transaction
  worker,   \* the daemon thread of the operation
  target,   \* stage the operation is for
  home,     \* process the request and its thread run in
  result,   \* outcome of phase 1
  attempt,  \* failed tries of phase 2
  stale,    \* operations whose open snapshot was overtaken by a commit
  runs,     \* how often the work of the operation was entered
  reported, \* stages the log names as left 'running' (gave up, hook error)
  budget    \* what is left of the bounds

vars == <<row, lock, req, worker, target, home, result, attempt, stale, runs,
          reported, budget>>

OpState == {"idle", "running", "done", "failed"}
Row == [exists: BOOLEAN, op_state: OpState, label: Ops \union {None},
        shown: Ops \union {None}]
NewRow  == [exists |-> TRUE, op_state |-> "idle", label |-> None, shown |-> None]
Deleted == [exists |-> FALSE, op_state |-> "idle", label |-> None, shown |-> None]

\* An existing row after a write of its op_* columns.
Shows(state, label, outcome) ==
  [exists |-> TRUE, op_state |-> state, label |-> label, shown |-> outcome]

Request == {"unborn", "open", "locked", "ended"}
LiveWorker == {"started", "working", "worked", "persisting"}
Worker == {"none", "told", "gone", "gave_up", "killed"} \union LiveWorker
Budget == [cron: 0..MaxCronWrites, restart: 0..MaxRestarts, reload: 0..MaxReloads,
           lost: 0..MaxLost]

Live(c) == worker[c] \in LiveWorker
LiveReq(c) == req[c] \in {"open", "locked"}
Running(s) == row[s].exists /\ row[s].op_state = "running"

\* Transactions on stage s whose snapshot a commit to its row overtakes.
Overtaken(s, committer) ==
  {c \in Ops \ {committer} : target[c] = s /\ (req[c] = "open" \/ worker[c] = "persisting")}

Init ==
  /\ row = [s \in Stages |-> NewRow]
  /\ lock = [s \in Stages |-> None]
  /\ req = [c \in Ops |-> "unborn"]
  /\ worker = [c \in Ops |-> "none"]
  /\ target = [c \in Ops |-> None]
  /\ home = [c \in Ops |-> None]
  /\ result = [c \in Ops |-> "none"]
  /\ attempt = [c \in Ops |-> 0]
  /\ stale = {}
  /\ runs = [c \in Ops |-> 0]
  /\ reported = {}
  /\ budget = [cron |-> MaxCronWrites, restart |-> MaxRestarts, reload |-> MaxReloads,
               lost |-> MaxLost]

-----------------------------------------------------------------------------
(* The request.  Here and below, an operator that no action uses is a      *)
(* wrong variant of the operator after it, for checking the properties.    *)

\* The request reads the stage (access check): its snapshot starts here.
OpenRequest(c, s, p) ==
  /\ req[c] = "unborn"
  /\ row[s].exists
  /\ req' = [req EXCEPT ![c] = "open"]
  /\ target' = [target EXCEPT ![c] = s]
  /\ home' = [home EXCEPT ![c] = p]
  /\ stale' = stale \ {c}
  /\ UNCHANGED <<row, lock, worker, result, attempt, runs, reported, budget>>

RetryOnOldSnapshot(c) ==
  /\ req[c] = "open" /\ c \in stale
  /\ UNCHANGED <<req, stale>>
  /\ UNCHANGED <<row, lock, worker, target, home, result, attempt, runs, reported, budget>>

\* FOR UPDATE refuses an overtaken snapshot; Odoo then reruns the request in a
\* new transaction, which raises when the record is gone.
RetryRequest(c) ==
  /\ req[c] = "open" /\ c \in stale
  /\ req' = [req EXCEPT ![c] = IF row[target[c]].exists THEN "open" ELSE "ended"]
  /\ stale' = stale \ {c}
  /\ UNCHANGED <<row, lock, worker, target, home, result, attempt, runs, reported, budget>>

\* The row says 'running': _busy_toast, nothing is launched.
Busy(c) ==
  /\ req[c] = "open" /\ c \notin stale
  /\ lock[target[c]] = None
  /\ row[target[c]].op_state = "running"
  /\ req' = [req EXCEPT ![c] = "ended"]
  /\ UNCHANGED <<row, lock, worker, target, home, result, attempt, stale, runs,
                 reported, budget>>

LaunchUnchecked(c) ==
  /\ req[c] = "open" /\ c \notin stale
  /\ lock[target[c]] = None
  /\ req' = [req EXCEPT ![c] = "locked"]
  /\ lock' = [lock EXCEPT ![target[c]] = c]
  /\ worker' = [worker EXCEPT ![c] = "started"]
  /\ UNCHANGED <<row, target, home, result, attempt, stale, runs, reported, budget>>

LaunchUnlocked(c) ==
  /\ req[c] = "open" /\ c \notin stale
  /\ row[target[c]].op_state # "running"
  /\ req' = [req EXCEPT ![c] = "locked"]
  /\ worker' = [worker EXCEPT ![c] = "started"]
  /\ UNCHANGED <<row, lock, target, home, result, attempt, stale, runs, reported, budget>>

\* The guard passes: the row stays locked and the thread starts at once,
\* before the transaction that says 'running' commits.
Launch(c) ==
  /\ req[c] = "open" /\ c \notin stale
  /\ lock[target[c]] = None
  /\ row[target[c]].op_state # "running"
  /\ req' = [req EXCEPT ![c] = "locked"]
  /\ lock' = [lock EXCEPT ![target[c]] = c]
  /\ worker' = [worker EXCEPT ![c] = "started"]
  /\ UNCHANGED <<row, target, home, result, attempt, stale, runs, reported, budget>>

\* End of the request: flush, commit, and the row lock is released.
CommitRequest(c) ==
  /\ req[c] = "locked"
  /\ req' = [req EXCEPT ![c] = "ended"]
  /\ lock' = [lock EXCEPT ![target[c]] = None]
  /\ row' = [row EXCEPT ![target[c]] = Shows("running", c, None)]
  /\ stale' = stale \union Overtaken(target[c], None)
  /\ UNCHANGED <<worker, target, home, result, attempt, runs, reported, budget>>

\* The transaction fails after the thread was started: the row stays as it was
\* and is unlocked, and the thread goes on.  Odoo's rerun is another click.
LoseRequest(c) ==
  /\ req[c] = "locked"
  /\ budget.lost > 0
  /\ req' = [req EXCEPT ![c] = "ended"]
  /\ lock' = [lock EXCEPT ![target[c]] = None]
  /\ budget' = [budget EXCEPT !.lost = @ - 1]
  /\ UNCHANGED <<row, worker, target, home, result, attempt, stale, runs, reported>>

-----------------------------------------------------------------------------
(* The worker thread.                                                      *)

\* Phase 1 opens its own cursor; a stage deleted meanwhile ends the thread.
BeginWork(c) ==
  /\ worker[c] = "started"
  /\ worker' = [worker EXCEPT ![c] = IF row[target[c]].exists THEN "working" ELSE "gone"]
  /\ UNCHANGED <<row, lock, req, target, home, result, attempt, stale, runs, reported, budget>>

\* The outer except of phase 1: the cursor, the registry or the look at the
\* record fails before work(stage) is entered; that is an outcome too.
CrashBeforeWork(c) ==
  /\ worker[c] = "started"
  /\ worker' = [worker EXCEPT ![c] = "worked"]
  /\ result' = [result EXCEPT ![c] = "failed"]
  /\ UNCHANGED <<row, lock, req, target, home, attempt, stale, runs, reported, budget>>

\* work(stage) returned or raised: either way there is an outcome.
FinishWork(c) ==
  /\ worker[c] = "working"
  /\ worker' = [worker EXCEPT ![c] = "worked"]
  /\ \E r \in {"done", "failed"} : result' = [result EXCEPT ![c] = r]
  /\ runs' = [runs EXCEPT ![c] = @ + 1]
  /\ UNCHANGED <<row, lock, req, target, home, attempt, stale, reported, budget>>

\* Phase 2: each try is a fresh transaction.
BeginPersist(c) ==
  /\ worker[c] = "worked"
  /\ worker' = [worker EXCEPT ![c] = "persisting"]
  /\ stale' = stale \ {c}
  /\ UNCHANGED <<row, lock, req, target, home, result, attempt, runs, reported, budget>>

\* The outcome and the bus message commit together; a deleted stage only
\* gets the message.
Persist(c) ==
  /\ worker[c] = "persisting" /\ c \notin stale
  /\ lock[target[c]] = None
  /\ worker' = [worker EXCEPT ![c] = "told"]
  /\ \/ /\ row[target[c]].exists
        /\ row' = [row EXCEPT ![target[c]] = Shows(result[c], row[target[c]].label, c)]
        /\ stale' = stale \union Overtaken(target[c], c)
     \/ /\ ~row[target[c]].exists
        /\ UNCHANGED <<row, stale>>
  /\ UNCHANGED <<lock, req, target, home, result, attempt, runs, reported, budget>>

LastTryLate(c) == attempt[c] >= MaxAttempts
LastTry(c) == attempt[c] + 1 >= MaxAttempts

\* Back to the head of the loop of phase 2.
RetryPhaseOne(c) == worker' = [worker EXCEPT ![c] = "started"] /\ UNCHANGED reported
RetryNever(c) == worker' = [worker EXCEPT ![c] = "none"] /\ UNCHANGED reported
RetryPersist(c) == worker' = [worker EXCEPT ![c] = "worked"] /\ UNCHANGED reported

GiveUpSilently(c) == worker' = [worker EXCEPT ![c] = "gave_up"] /\ UNCHANGED reported
GiveUp(c) ==
  worker' = [worker EXCEPT ![c] = "gave_up"] /\ reported' = reported \union {target[c]}

\* Serialization failure: sleep and try again, or log that it gave up.
PersistConflict(c) ==
  /\ worker[c] = "persisting" /\ c \in stale
  /\ attempt' = [attempt EXCEPT ![c] = @ + 1]
  /\ stale' = stale \ {c}
  /\ \/ ~LastTry(c) /\ RetryPersist(c)
     \/ LastTry(c) /\ GiveUp(c)
  /\ UNCHANGED <<row, lock, req, target, home, result, runs, budget>>

-----------------------------------------------------------------------------
(* Everybody else who touches the row.                                     *)

\* A refresh cron (status, databases, commits) commits other columns.
CronWrite(s) ==
  /\ budget.cron > 0
  /\ row[s].exists /\ lock[s] = None
  /\ stale' = stale \union Overtaken(s, None)
  /\ budget' = [budget EXCEPT !.cron = @ - 1]
  /\ UNCHANGED <<row, lock, req, worker, target, home, result, attempt, runs, reported>>

\* unlink() by the delete wizard or by discovery's prune: nothing looks at op_state.
Delete(s) ==
  /\ row[s].exists /\ lock[s] = None
  /\ row' = [row EXCEPT ![s] = Deleted]
  /\ stale' = stale \union Overtaken(s, None)
  /\ reported' = reported \ {s}
  /\ UNCHANGED <<lock, req, worker, target, home, result, attempt, runs, budget>>

KillRequests(D) ==
  /\ req' = [c \in Ops |-> IF LiveReq(c) /\ home[c] \in D THEN "ended" ELSE req[c]]
  /\ lock' = [s \in Stages |->
                IF lock[s] # None /\ home[lock[s]] \in D THEN None ELSE lock[s]]
  /\ UNCHANGED worker

\* Threads and open transactions of the processes in D vanish.
Kill(D) ==
  /\ req' = [c \in Ops |-> IF LiveReq(c) /\ home[c] \in D THEN "ended" ELSE req[c]]
  /\ worker' = [c \in Ops |-> IF Live(c) /\ home[c] \in D THEN "killed" ELSE worker[c]]
  /\ lock' = [s \in Stages |->
                IF lock[s] # None /\ home[lock[s]] \in D THEN None ELSE lock[s]]

RegisterNothing(D) == UNCHANGED <<row, stale, reported>>

\* _register_hook: every row still 'running' becomes failed/interrupted; an
\* exception is logged and never blocks the start.
RegisterHook(D) ==
  LET survivors(s) == {c \in Overtaken(s, None) : home[c] \notin D}
  IN \/ /\ row' = [s \in Stages |->
                     IF Running(s) THEN Shows("failed", row[s].label, None) ELSE row[s]]
        /\ stale' = stale \union UNION {survivors(s) : s \in {t \in Stages : Running(t)}}
        /\ reported' = {}
     \/ /\ reported' = reported \union {s \in Stages : Running(s)}
        /\ UNCHANGED <<row, stale>>

RestartService ==
  /\ budget.restart > 0
  /\ budget' = [budget EXCEPT !.restart = @ - 1]
  /\ Kill(Procs)
  /\ RegisterHook(Procs)
  /\ UNCHANGED <<target, home, result, attempt, runs>>

\* One worker process is recycled (or another program, such as the terminal
\* bridge, opens the registry) while the remaining processes keep running.
ReloadRegistry(p) ==
  /\ budget.reload > 0
  /\ budget' = [budget EXCEPT !.reload = @ - 1]
  /\ Kill({p})
  /\ RegisterHook({p})
  /\ UNCHANGED <<target, home, result, attempt, runs>>

-----------------------------------------------------------------------------
RequestStep(c) ==
  RetryRequest(c) \/ Busy(c) \/ Launch(c) \/ CommitRequest(c) \/ LoseRequest(c)

WorkerStep(c) ==
  \/ BeginWork(c) \/ CrashBeforeWork(c) \/ FinishWork(c)
  \/ BeginPersist(c) \/ Persist(c) \/ PersistConflict(c)

Next ==
  \/ \E c \in Ops, s \in Stages, p \in Procs : OpenRequest(c, s, p)
  \/ \E c \in Ops : RequestStep(c) \/ WorkerStep(c)
  \/ \E s \in Stages : CronWrite(s) \/ Delete(s)
  \/ RestartService
  \/ \E p \in Procs : ReloadRegistry(p)

Spec == Init /\ [][Next]_vars

\* Started threads run and an accepted request ends, committed or lost; nobody
\* has to click, no cron has to write, nothing has to crash.
FairSpec == Spec /\ \A c \in Ops : WF_vars(RequestStep(c)) /\ WF_vars(WorkerStep(c))

-----------------------------------------------------------------------------
(* The promise: module OpSlot, held by the operation whose thread lives.   *)

Slot == INSTANCE OpSlot WITH
  holder <- [s \in Stages |-> {c \in Ops : Live(c) /\ target[c] = s}],
  used   <- {c \in Ops : worker[c] # "none"}

-----------------------------------------------------------------------------
(* Properties.                                                             *)

\* Every variable keeps its type; budgets never go below zero.
TypeOK ==
  /\ row \in [Stages -> Row]
  /\ lock \in [Stages -> Ops \union {None}]
  /\ req \in [Ops -> Request]
  /\ worker \in [Ops -> Worker]
  /\ target \in [Ops -> Stages \union {None}]
  /\ home \in [Ops -> Procs \union {None}]
  /\ result \in [Ops -> {"none", "done", "failed"}]
  /\ attempt \in [Ops -> 0..MaxAttempts]
  /\ stale \subseteq Ops
  /\ runs \in [Ops -> Nat]
  /\ reported \subseteq Stages
  /\ budget \in Budget

\* So far no process has been recycled alone and no launched request has been
\* lost: after either, an operation may be alive that no row names.
Undisturbed == budget.reload = MaxReloads /\ budget.lost = MaxLost

\* Two operations never run on one instance at the same time: what the
\* FOR UPDATE guard of _run_bg is there for.
ExclusiveOperation ==
  \A c, d \in Ops : c # d /\ Live(c) /\ Live(d) => target[c] # target[d]

\* A stage shows 'running' only while the thread of the operation it names is
\* alive, unless the log has reported the stage (phase 2 gave up, or the start
\* hook failed): no unexplained phantom.
StuckIsReported ==
  \A s \in Stages : Running(s) =>
    \/ s \in reported
    \/ \E c \in Ops : row[s].label = c /\ target[c] = s /\ Live(c)

\* The outcome shown on a stage is the outcome of the operation whose label
\* is shown, or 'interrupted'; never that of another operation.
OutcomeBelongsToLabel ==
  \A s \in Stages : row[s].exists /\ row[s].op_state \in {"done", "failed"} =>
    row[s].shown \in {row[s].label, None}

\* An operation whose outcome was told is never shown 'running' again, though
\* its thread starts before the request that writes 'running' commits.
ToldIsNotRunning ==
  \A c \in Ops : worker[c] = "told" /\ target[c] \in Stages =>
    ~(Running(target[c]) /\ row[target[c]].label = c)

\* However often phase 2 is retried, the remote side effect happens at most
\* once, and a user is told "done" only of work that was done.  ("Failed" may be
\* told of work that was never entered: the outer except of phase 1.)
WorkRunsOnce ==
  \A c \in Ops : /\ runs[c] <= 1
                 /\ worker[c] = "told" /\ result[c] = "done" => runs[c] = 1

\* Threads, snapshots, locks, retries and restarts together look like one slot
\* per instance, taken and left by one operation at a time: _run_bg implements
\* OpSlot.
ImplementsOpSlot == Slot!Spec

\* A final outcome is replaced only by the next operation's 'running'.
FinalUntilNextOperation ==
  [][\A s \in Stages :
       row[s].op_state \in {"done", "failed"} /\ row'[s].exists /\ row'[s] # row[s]
         => row'[s].op_state = "running" /\ row'[s].label # row[s].label]_vars

\* What _register_hook's comment says of the rows it fails: the thread of an
\* operation it marks 'interrupted' has been killed.
InterruptedIsDead ==
  [][\A s \in Stages :
       Running(s) /\ row'[s].op_state = "failed" /\ row'[s].shown = None
         => \A c \in Ops : c = row[s].label => worker'[c] \notin LiveWorker]_vars

\* A stage does not stay 'running' for ever without a line in the log.
RunningEnds ==
  \A s \in Stages : Running(s) ~> (~Running(s) \/ s \in reported)

\* Every launched operation is answered on the bus, unless the process died,
\* its stage was deleted before it began, or phase 2 gave up.
EveryLaunchAnswered ==
  \A c \in Ops : worker[c] = "started" ~> worker[c] \in {"told", "gone", "gave_up", "killed"}

\* Every click is decided: launched and committed, refused, or failed.
EveryClickDecided ==
  \A c \in Ops : req[c] = "open" ~> req[c] = "ended"

=============================================================================
