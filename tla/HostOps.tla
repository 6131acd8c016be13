------------------------------ MODULE HostOps ------------------------------
(***************************************************************************)
(* The two background operations of a server: Discover (action_discover)   *)
(* and Run Backup (action_run_backup_now).  They are built like the        *)
(* operations of one instance (StageOps), with three differences:          *)
(*   - the request takes no row lock and does not look at op_state, so     *)
(*     any number of them run side by side and share one set of op_*       *)
(*     columns (the buttons are hidden while a form shows 'running');      *)
(*   - it writes 'running' only when it is flushed, after the thread was   *)
(*     started; refused by a concurrent commit, the whole request is run   *)
(*     again by Odoo and starts another thread;                            *)
(*   - a discovery that failed is recorded in one try.                     *)
(***************************************************************************)
EXTENDS Naturals

CONSTANTS
  Clicks,         \* requests, each made once
  None,
  MaxTries,       \* runs of one request (Odoo: 5)
  MaxAttempts,    \* tries of phase 2 (5 in the code)
  MaxCronWrites,  \* bound: commits of the crons to the server's row
  MaxRestarts,    \* bound: restarts of Odoo
  MaxReloads,     \* bound: another process loads the registry
  MaxEvents,      \* bound: all three together
  MaxReruns       \* bound: requests that are run again, all clicks together

ASSUME HostOpsAssumption ==
  /\ None \notin Clicks
  /\ Clicks \cap (Clicks \X (1..MaxTries)) = {}  \* a click is not a thread
  /\ MaxTries \in Nat \ {0} /\ MaxAttempts \in Nat \ {0}
  /\ MaxCronWrites \in Nat /\ MaxRestarts \in Nat /\ MaxReloads \in Nat /\ MaxEvents \in Nat /\ MaxReruns \in Nat

\* A click starts one thread each time its request is run.
Threads == Clicks \X (1..MaxTries)

VARIABLES
  row,       \* op_state, and the click whose op_label the row shows
  kind,      \* what the click asks for
  req,       \* the request: its state, and how often it was run
  thread,    \* the daemon threads
  result,    \* outcome of phase 1
  attempt,   \* failed tries of phase 2
  stale,     \* requests and threads whose snapshot a commit has overtaken
  reported,  \* clicks of which the log says that an outcome was not written
  budget

vars == <<row, kind, req, thread, result, attempt, stale, reported, budget>>

LiveThread == {"working", "worked", "persisting", "failed", "marking"}
Live(t) == thread[t] \in LiveThread
Running == row.op_state = "running"

\* Transactions that are open and will write the server's row.
Open ==
  {c \in Clicks : req[c].state \in {"open", "launched"}}
    \union {t \in Threads : thread[t] \in {"persisting", "marking"}}

\* The commit of one of them overtakes the others.
Committed(by) == stale' = stale \union (Open \ {by})

Init ==
  /\ row = [op_state |-> "none", label |-> None]
  /\ kind \in [Clicks -> {"discover", "backup"}]
  /\ req = [c \in Clicks |-> [state |-> "unborn", runs |-> 0]]
  /\ thread = [t \in Threads |-> "none"]
  /\ result = [t \in Threads |-> "none"]
  /\ attempt = [t \in Threads |-> 0]
  /\ stale = {} /\ reported = {}
  /\ budget = [cron |-> MaxCronWrites, restart |-> MaxRestarts, reload |-> MaxReloads,
               event |-> MaxEvents, rerun |-> MaxReruns]

-----------------------------------------------------------------------------
(* The request.  (Here and below, an operator that no action uses is a     *)
(* wrong variant of the operator after it, for checking the properties.)   *)

\* Access and settings are read: the snapshot.
OpenRequest(c) ==
  /\ req[c].state = "unborn"
  /\ req' = [req EXCEPT ![c] = [state |-> "open", runs |-> 1]]
  /\ UNCHANGED <<row, kind, thread, result, attempt, stale, reported, budget>>

\* 'running' is assigned, not yet written, and the thread is started.
Launch(c) ==
  /\ req[c].state = "open"
  /\ req' = [req EXCEPT ![c].state = "launched"]
  /\ thread' = [thread EXCEPT ![<<c, req[c].runs>>] = "working"]
  /\ UNCHANGED <<row, kind, result, attempt, stale, reported, budget>>

RefusesNothing(c) == FALSE

\* The flush is refused when the row was committed after the snapshot.
Refused(c) == c \in stale

CommitRequest(c) ==
  /\ req[c].state = "launched" /\ ~Refused(c)
  /\ req' = [req EXCEPT ![c].state = "ended"]
  /\ row' = [op_state |-> "running", label |-> c]
  /\ Committed(c)
  /\ UNCHANGED <<kind, thread, result, attempt, reported, budget>>

\* Odoo runs a refused request again, from the start, or answers an error.
RerunRequest(c) ==
  /\ req[c].state = "launched" /\ Refused(c)
  /\ \/ /\ req[c].runs < MaxTries /\ budget.rerun > 0
        /\ req' = [req EXCEPT ![c] = [state |-> "open", runs |-> @.runs + 1]]
        /\ budget' = [budget EXCEPT !.rerun = @ - 1]
     \/ req' = [req EXCEPT ![c].state = "ended"] /\ UNCHANGED budget
  /\ stale' = stale \ {c}
  /\ UNCHANGED <<row, kind, thread, result, attempt, reported>>

-----------------------------------------------------------------------------
(* The thread.                                                             *)

Goes(t, state) == thread' = [thread EXCEPT ![t] = state]

\* A thread that ends takes its variables with it.
Ends(t, state) ==
  /\ Goes(t, state)
  /\ result' = [result EXCEPT ![t] = "none"] /\ attempt' = [attempt EXCEPT ![t] = 0]

\* Phase 1.  A discovery that failed goes to _mark_failed; a backup brings its
\* outcome to phase 2.
Work(t) ==
  /\ thread[t] = "working"
  /\ \/ result' = [result EXCEPT ![t] = "done"] /\ Goes(t, "worked")
     \/ /\ result' = [result EXCEPT ![t] = "failed"]
        /\ Goes(t, IF kind[t[1]] = "discover" THEN "failed" ELSE "worked")
  /\ UNCHANGED <<row, kind, req, attempt, stale, reported, budget>>

\* A try of phase 2, or the one try of _mark_failed, opens its cursor.
BeginWrite(t) ==
  /\ \/ thread[t] = "worked" /\ Goes(t, "persisting")
     \/ thread[t] = "failed" /\ Goes(t, "marking")
  /\ stale' = stale \ {t}
  /\ UNCHANGED <<row, kind, req, result, attempt, reported, budget>>

\* The outcome (for a discovery with the sync, for a backup with last_backup)
\* and the message commit together; the label stays whose it is.
Write(t) ==
  /\ thread[t] \in {"persisting", "marking"} /\ t \notin stale
  /\ row' = [row EXCEPT !.op_state = IF thread[t] = "marking" THEN "failed" ELSE result[t]]
  /\ Committed(t)
  /\ Ends(t, "told")
  /\ UNCHANGED <<kind, req, reported, budget>>

LastTryLate(t) == attempt[t] >= MaxAttempts
LastTry(t) == attempt[t] + 1 >= MaxAttempts

\* The outcome is not written; warnings or a traceback are in the log.
GiveUpSilently(t) == Ends(t, "gave_up") /\ UNCHANGED reported
GiveUp(t) == Ends(t, "gave_up") /\ reported' = reported \union {t[1]}

\* Phase 2 tries again.  In the end a discovery tries to say that it failed,
\* and a backup says nothing more.
Again(t, state) ==
  /\ Goes(t, state)
  /\ attempt' = [attempt EXCEPT ![t] = @ + 1]
  /\ UNCHANGED <<result, reported>>

WriteConflict(t) ==
  /\ thread[t] = "persisting" /\ t \in stale
  /\ \/ ~LastTry(t) /\ Again(t, "worked")
     \/ LastTry(t) /\ kind[t[1]] = "discover" /\ Again(t, "failed")
     \/ LastTry(t) /\ kind[t[1]] = "backup" /\ GiveUp(t)
  /\ stale' = stale \ {t}
  /\ UNCHANGED <<row, kind, req, budget>>

\* _mark_failed catches its own conflict and logs it.
MarkConflict(t) ==
  /\ thread[t] = "marking" /\ t \in stale
  /\ GiveUp(t)
  /\ stale' = stale \ {t}
  /\ UNCHANGED <<row, kind, req, budget>>

-----------------------------------------------------------------------------
(* The crons and the start of Odoo.                                        *)

Spend(what) ==
  /\ budget[what] > 0 /\ budget.event > 0
  /\ budget' = [budget EXCEPT ![what] = @ - 1, !.event = @ - 1]

\* Stamps of the backup monitor, the agent's report, the agent cron.
CronWrite ==
  /\ Spend("cron")
  /\ Committed(None)
  /\ UNCHANGED <<row, kind, req, thread, result, attempt, reported>>

\* _register_hook: a row still 'running' is failed; an exception is logged.
HookSkipsHosts == UNCHANGED <<row, reported>>
Hook ==
  \/ /\ Running
     /\ row' = [row EXCEPT !.op_state = "failed"]
     /\ UNCHANGED reported
  \/ Running /\ reported' = reported \union {row.label} /\ UNCHANGED row
  \/ ~Running /\ UNCHANGED <<row, reported>>

RestartOdoo ==
  /\ Spend("restart")
  /\ thread' = [t \in Threads |-> IF Live(t) THEN "killed" ELSE thread[t]]
  /\ req' = [c \in Clicks |-> IF req[c].state \in {"open", "launched"}
                                THEN [req[c] EXCEPT !.state = "ended"] ELSE req[c]]
  /\ result' = [t \in Threads |-> "none"] /\ attempt' = [t \in Threads |-> 0]
  /\ stale' = {}
  /\ Hook
  /\ UNCHANGED kind

\* Another process starts and runs the hook; the threads here go on.
ReloadRegistry ==
  /\ Spend("reload")
  /\ Hook
  /\ IF row' # row THEN Committed(None) ELSE UNCHANGED stale
  /\ UNCHANGED <<kind, req, thread, result, attempt>>

-----------------------------------------------------------------------------
RequestStep(c) == Launch(c) \/ CommitRequest(c) \/ RerunRequest(c)
ThreadStep(t) ==
  Work(t) \/ BeginWrite(t) \/ Write(t) \/ WriteConflict(t) \/ MarkConflict(t)

Next ==
  \/ \E c \in Clicks : OpenRequest(c) \/ RequestStep(c)
  \/ \E t \in Threads : ThreadStep(t)
  \/ CronWrite \/ RestartOdoo \/ ReloadRegistry

Spec == Init /\ [][Next]_vars

\* Requests are finished and threads run; nobody has to click again.
FairSpec ==
  /\ Spec
  /\ \A c \in Clicks : WF_vars(RequestStep(c))
  /\ \A t \in Threads : WF_vars(ThreadStep(t))

-----------------------------------------------------------------------------
(* Properties.                                                             *)

\* Every variable keeps its type; phase 2 is tried MaxAttempts times.
TypeOK ==
  /\ row \in [op_state : {"none", "running", "done", "failed"}, label : Clicks \union {None}]
  /\ kind \in [Clicks -> {"discover", "backup"}]
  /\ req \in [Clicks -> [state : {"unborn", "open", "launched", "ended"}, runs : 0..MaxTries]]
  /\ thread \in [Threads -> LiveThread \union {"none", "told", "gave_up", "killed"}]
  /\ result \in [Threads -> {"none", "done", "failed"}]
  /\ attempt \in [Threads -> 0..MaxAttempts]
  /\ stale \subseteq Clicks \union Threads /\ reported \subseteq Clicks
  /\ budget \in [cron : 0..MaxCronWrites, restart : 0..MaxRestarts, reload : 0..MaxReloads,
                event : 0..MaxEvents, rerun : 0..MaxReruns]

\* Without a lock, a guard or an order between a thread and its own request, a
\* server still shows 'running' only while a thread of the click it names is
\* alive, or the log tells that an outcome of that click was lost.
RunningIsAlive ==
  Running => \/ row.label \in reported
             \/ \E t \in Threads : t[1] = row.label /\ Live(t)

\* A server does not stay 'running' for ever without a word in the log.
RunningEnds == Running ~> (~Running \/ row.label \in reported)

\* What action_discover's comment says of phase 1: it is run once.
OneRunPerClick == \A c \in Clicks : \A n \in 2..MaxTries : thread[<<c, n>>] = "none"

=============================================================================
