---------------------------- MODULE HostOpsProofs ---------------------------
(***************************************************************************)
(* Proof of RunningIsAlive for any number of requests, reruns, tries,      *)
(* restarts and cron commits.  The step that could break it is the commit  *)
(* of a request, which writes 'running' after its thread was started: the  *)
(* thread may be done by then.  If it has written its outcome, that commit *)
(* has overtaken the request, which is refused; if it gave up, the log     *)
(* says so (LaunchedIsAlive).                                              *)
(***************************************************************************)
EXTENDS HostOps, TLAPS

\* The thread of a request that can still commit is alive, or in the log.
LaunchedIsAlive ==
  \A c \in Clicks : req[c].state = "launched" /\ c \notin stale =>
    c \in reported \/ Live(<<c, req[c].runs>>)

\* A request that has started has a run to count its thread by.
RunsCounted ==
  \A c \in Clicks : req[c].state \in {"open", "launched"} => req[c].runs \in 1..MaxTries

\* A run that has not come to its launch has no thread.
Unlaunched(t) ==
  \/ req[t[1]].state = "unborn" \/ t[2] > req[t[1]].runs
  \/ t[2] = req[t[1]].runs /\ req[t[1]].state = "open"
Unstarted == \A t \in Threads : Unlaunched(t) => thread[t] = "none"

\* Phase 2 has an outcome to write.
OutcomeKnown ==
  \A t \in Threads : thread[t] \in {"worked", "persisting"} => result[t] \in {"done", "failed"}

\* Tries are left until phase 2 has failed.
AttemptsLeft ==
  \A t \in Threads : thread[t] \notin {"failed", "marking"} => attempt[t] < MaxAttempts

\* A row that says 'running' names a click.
LabelKnown == Running => row.label \in Clicks

Inv ==
  /\ TypeOK /\ LaunchedIsAlive /\ RunsCounted /\ Unstarted /\ OutcomeKnown
  /\ AttemptsLeft /\ LabelKnown /\ RunningIsAlive

-----------------------------------------------------------------------------
LEMMA InitInv == Init => Inv
<1> USE HostOpsAssumption
<1> SUFFICES ASSUME Init PROVE Inv
  OBVIOUS
<1>1. TypeOK
  BY DEF Init, TypeOK, LiveThread, Threads
<1>2. LaunchedIsAlive /\ RunsCounted /\ Unstarted
  BY DEF Init, LaunchedIsAlive, RunsCounted, Unstarted, Unlaunched
<1>3. OutcomeKnown /\ AttemptsLeft
  BY DEF Init, OutcomeKnown, AttemptsLeft
<1>4. LabelKnown /\ RunningIsAlive
  BY DEF Init, LabelKnown, RunningIsAlive, Running
<1> QED
  BY <1>1, <1>2, <1>3, <1>4 DEF Inv

-----------------------------------------------------------------------------
(* One lemma per action.  A row that stays, with logs and live threads that *)
(* are not fewer, keeps both properties.                                    *)

LEMMA ThreadOfClick ==
  ASSUME NEW t \in Threads
  PROVE  t[1] \in Clicks /\ t[2] \in 1..MaxTries /\ t = <<t[1], t[2]>>
BY DEF Threads

Budgets == [cron : 0..MaxCronWrites, restart : 0..MaxRestarts, reload : 0..MaxReloads,
            event : 0..MaxEvents, rerun : 0..MaxReruns]

LEMMA SpendTyped ==
  ASSUME budget \in Budgets, NEW what \in {"cron", "restart", "reload"}, Spend(what)
  PROVE  budget' \in Budgets
<1>1. /\ budget.cron \in 0..MaxCronWrites /\ budget.restart \in 0..MaxRestarts
      /\ budget.reload \in 0..MaxReloads /\ budget.event \in 0..MaxEvents
      /\ budget.rerun \in 0..MaxReruns
      /\ budget = [cron |-> budget.cron, restart |-> budget.restart, reload |-> budget.reload,
                   event |-> budget.event, rerun |-> budget.rerun]
  BY DEF Budgets
<1>2. budget[what] > 0 /\ budget.event - 1 \in 0..MaxEvents
  <2>1. budget[what] > 0 /\ budget.event > 0
    BY DEF Spend
  <2> QED
    BY <1>1, <2>1, HostOpsAssumption
<1>3. budget' = [budget EXCEPT ![what] = budget[what] - 1, !.event = budget.event - 1]
  BY DEF Spend
<1>4. CASE what = "cron"
  <2>1. budget.cron - 1 \in 0..MaxCronWrites
    BY <1>1, <1>2, <1>4, HostOpsAssumption
  <2> QED
    BY <1>1, <1>2, <1>3, <1>4, <2>1 DEF Budgets
<1>5. CASE what = "restart"
  <2>1. budget.restart - 1 \in 0..MaxRestarts
    BY <1>1, <1>2, <1>5, HostOpsAssumption
  <2> QED
    BY <1>1, <1>2, <1>3, <1>5, <2>1 DEF Budgets
<1>6. CASE what = "reload"
  <2>1. budget.reload - 1 \in 0..MaxReloads
    BY <1>1, <1>2, <1>6, HostOpsAssumption
  <2> QED
    BY <1>1, <1>2, <1>3, <1>6, <2>1 DEF Budgets
<1> QED
  BY <1>4, <1>5, <1>6

\* What is alive stays alive, unless its outcome was written or reported.
LEMMA KeepsAlive ==
  ASSUME Inv,
         row' = row, reported \subseteq reported',
         \A t \in Threads : Live(t) => Live(t)' \/ t[1] \in reported'
  PROVE  RunningIsAlive' /\ LabelKnown'
<1>1. LabelKnown'
  BY DEF Inv, LabelKnown, Running
<1>2. RunningIsAlive'
  BY DEF Inv, RunningIsAlive, Running
<1> QED
  BY <1>1, <1>2

LEMMA OpenRequestStep ==
  ASSUME Inv, NEW c \in Clicks, OpenRequest(c)
  PROVE  Inv'
<1> USE HostOpsAssumption DEF OpenRequest
<1>1. TypeOK'
  BY DEF Inv, TypeOK
<1>2. LaunchedIsAlive' /\ RunsCounted'
  <2> SUFFICES ASSUME NEW d \in Clicks
               PROVE  /\ req'[d].state = "launched" /\ d \notin stale' =>
                           d \in reported' \/ thread'[<<d, req'[d].runs>>] \in LiveThread
                      /\ req'[d].state \in {"open", "launched"} => req'[d].runs \in 1..MaxTries
    BY DEF LaunchedIsAlive, RunsCounted, Live
  <2>1. CASE d = c
    <3>1. req'[c] = [state |-> "open", runs |-> 1]
      BY DEF Inv, TypeOK
    <3> QED
      BY <2>1, <3>1
  <2>2. CASE d # c
    <3>1. req'[d] = req[d]
      BY <2>2 DEF Inv, TypeOK
    <3> QED
      BY <3>1 DEF Inv, LaunchedIsAlive, RunsCounted, Live
  <2> QED
    BY <2>1, <2>2
<1>5. Unstarted'
  <2> SUFFICES ASSUME NEW t \in Threads,
                      \/ req'[t[1]].state = "unborn" \/ t[2] > req'[t[1]].runs
                      \/ t[2] = req'[t[1]].runs /\ req'[t[1]].state = "open"
               PROVE  thread[t] = "none"
    BY DEF Unstarted, Unlaunched
  <2>1. t[1] \in Clicks /\ t[2] \in 1..MaxTries
    BY ThreadOfClick
  <2>2. CASE t[1] = c
    BY <2>2 DEF Inv, Unstarted, Unlaunched
  <2>3. CASE t[1] # c
    <3>1. req'[t[1]] = req[t[1]]
      BY <2>1, <2>3 DEF Inv, TypeOK
    <3> QED
      BY <3>1 DEF Inv, Unstarted, Unlaunched
  <2> QED
    BY <2>2, <2>3
<1>3. OutcomeKnown' /\ AttemptsLeft'
  BY DEF Inv, OutcomeKnown, AttemptsLeft
<1>4. RunningIsAlive' /\ LabelKnown'
  BY KeepsAlive DEF Live
<1> QED
  BY <1>1, <1>2, <1>3, <1>4, <1>5 DEF Inv

LEMMA LaunchStep ==
  ASSUME Inv, NEW c \in Clicks, Launch(c)
  PROVE  Inv'
<1> USE HostOpsAssumption DEF Launch
<1> DEFINE new == <<c, req[c].runs>>
<1>0. new \in Threads /\ req[c].runs \in 1..MaxTries
  BY DEF Inv, RunsCounted, Threads
<1>1. TypeOK'
  BY <1>0 DEF Inv, TypeOK, LiveThread
<1>2. RunsCounted' /\ Unstarted'
  BY DEF Inv, TypeOK, RunsCounted, Unstarted, Unlaunched, Threads
<1>3. LaunchedIsAlive'
  BY <1>0 DEF Inv, TypeOK, LaunchedIsAlive, Live, LiveThread, RunsCounted, Threads
<1>4. OutcomeKnown'
  BY <1>0 DEF Inv, TypeOK, OutcomeKnown
<1>5. AttemptsLeft'
  <2>1. thread[new] = "none"
    BY <1>0 DEF Inv, Unstarted, Unlaunched
  <2> QED
    BY <1>0, <2>1 DEF Inv, TypeOK, AttemptsLeft
<1>6. RunningIsAlive' /\ LabelKnown'
  BY <1>0, KeepsAlive DEF Inv, TypeOK, Live, LiveThread
<1> QED
  BY <1>1, <1>2, <1>3, <1>4, <1>5, <1>6 DEF Inv

\* The commit of 'running': the request was not overtaken, so its thread is
\* alive or has given up.
LEMMA CommitRequestStep ==
  ASSUME Inv, NEW c \in Clicks, CommitRequest(c)
  PROVE  Inv'
<1> USE HostOpsAssumption DEF CommitRequest
<1>1. TypeOK'
  BY DEF Inv, TypeOK, Committed, Open, Threads
<1>2. RunsCounted' /\ Unstarted'
  BY DEF Inv, TypeOK, RunsCounted, Unstarted, Unlaunched, Threads
<1>3. LaunchedIsAlive'
  BY DEF Inv, TypeOK, LaunchedIsAlive, Live, Committed, Open
<1>4. OutcomeKnown' /\ AttemptsLeft'
  BY DEF Inv, OutcomeKnown, AttemptsLeft
<1>5. LabelKnown'
  BY DEF LabelKnown
<1>6. RunningIsAlive'
  <2> DEFINE t == <<c, req[c].runs>>
  <2>1. t \in Threads /\ t[1] = c
    BY DEF Inv, RunsCounted, Threads
  <2>2. c \in reported \/ Live(t)
    BY DEF Inv, LaunchedIsAlive, Refused
  <2>3. row'.label = c /\ reported' = reported /\ (Live(t) => Live(t)')
    BY DEF Live
  <2> QED
    BY <2>1, <2>2, <2>3 DEF RunningIsAlive
<1> QED
  BY <1>1, <1>2, <1>3, <1>4, <1>5, <1>6 DEF Inv

LEMMA RerunRequestStep ==
  ASSUME Inv, NEW c \in Clicks, RerunRequest(c)
  PROVE  Inv'
<1> USE HostOpsAssumption DEF RerunRequest
<1>0. /\ req[c].state = "launched" /\ req[c].runs \in 1..MaxTries
      /\ req'[c].runs \in 1..MaxTries /\ req'[c].state \in {"open", "ended"}
      /\ req'[c].runs >= req[c].runs
      /\ req'[c].state = "open" => req'[c].runs > req[c].runs
      /\ req' = [req EXCEPT ![c] = [state |-> req'[c].state, runs |-> req'[c].runs]]
  <2>1. req[c] \in [state : {"unborn", "open", "launched", "ended"}, runs : 0..MaxTries]
    BY DEF Inv, TypeOK
  <2>2. req[c].runs \in 1..MaxTries
    BY DEF Inv, RunsCounted
  <2>3. c \in DOMAIN req
    BY DEF Inv, TypeOK
  <2>4. CASE req[c].runs < MaxTries /\ req' = [req EXCEPT ![c] = [state |-> "open", runs |-> @.runs + 1]]
    <3>1. req'[c] = [state |-> "open", runs |-> req[c].runs + 1]
      BY <2>3, <2>4
    <3>2. req' = [req EXCEPT ![c] = [state |-> "open", runs |-> req[c].runs + 1]]
      BY <2>4
    <3>3. req[c].runs + 1 \in 1..MaxTries /\ req[c].runs + 1 > req[c].runs
      BY <2>2, <2>4
    <3> QED
      BY <2>2, <3>1, <3>2, <3>3
  <2>5. CASE req' = [req EXCEPT ![c].state = "ended"]
    <3>1. req'[c] = [state |-> "ended", runs |-> req[c].runs]
      BY <2>1, <2>3, <2>5
    <3>2. req' = [req EXCEPT ![c] = [state |-> "ended", runs |-> req[c].runs]]
      BY <2>1, <2>3, <2>5
    <3> QED
      BY <2>2, <3>1, <3>2
  <2> QED
    BY <2>4, <2>5
<1>1. TypeOK'
  <2>1. req' \in [Clicks -> [state : {"unborn", "open", "launched", "ended"}, runs : 0..MaxTries]]
    BY <1>0 DEF Inv, TypeOK
  <2>2. budget' \in Budgets
    <3>1. budget \in Budgets
      BY DEF Inv, TypeOK, Budgets
    <3>2. CASE budget.rerun > 0 /\ budget' = [budget EXCEPT !.rerun = budget.rerun - 1]
      BY <3>1, <3>2 DEF Budgets
    <3> QED
      BY <3>1, <3>2
  <2> QED
    BY <2>1, <2>2 DEF Inv, TypeOK, Budgets
<1>2. RunsCounted'
  BY <1>0 DEF Inv, TypeOK, RunsCounted
<1>3. LaunchedIsAlive'
  BY <1>0 DEF Inv, TypeOK, LaunchedIsAlive, Live
<1>4. OutcomeKnown' /\ AttemptsLeft'
  BY DEF Inv, OutcomeKnown, AttemptsLeft
<1>5. RunningIsAlive' /\ LabelKnown'
  BY KeepsAlive DEF Live
<1>6. Unstarted'
  <2> SUFFICES ASSUME NEW t \in Threads,
                      \/ req'[t[1]].state = "unborn" \/ t[2] > req'[t[1]].runs
                      \/ t[2] = req'[t[1]].runs /\ req'[t[1]].state = "open"
               PROVE  thread[t] = "none"
    BY DEF Unstarted, Unlaunched
  <2>1. t[1] \in Clicks /\ t[2] \in 1..MaxTries
    BY ThreadOfClick
  <2>2. CASE t[1] = c
    <3>1. t[2] > req[c].runs
      BY <1>0, <2>1, <2>2
    <3> QED
      BY <2>2, <3>1 DEF Inv, Unstarted, Unlaunched
  <2>3. CASE t[1] # c
    <3>1. req'[t[1]] = req[t[1]]
      BY <1>0, <2>1, <2>3 DEF Inv, TypeOK
    <3> QED
      BY <3>1 DEF Inv, Unstarted, Unlaunched
  <2> QED
    BY <2>2, <2>3
<1> QED
  BY <1>1, <1>2, <1>3, <1>4, <1>5, <1>6 DEF Inv

LEMMA WorkStep ==
  ASSUME Inv, NEW t \in Threads, Work(t)
  PROVE  Inv'
<1> USE HostOpsAssumption DEF Work, Goes
<1>1. TypeOK'
  BY DEF Inv, TypeOK, LiveThread
<1>2. RunsCounted' /\ Unstarted'
  BY DEF Inv, TypeOK, RunsCounted, Unstarted, Unlaunched
<1>3. \A u \in Threads : Live(u) => Live(u)'
  BY DEF Inv, TypeOK, Live, LiveThread
<1>4. LaunchedIsAlive'
  BY <1>3 DEF Inv, TypeOK, LaunchedIsAlive, RunsCounted, Threads
<1>5. OutcomeKnown' /\ AttemptsLeft'
  BY DEF Inv, TypeOK, OutcomeKnown, AttemptsLeft
<1>6. RunningIsAlive' /\ LabelKnown'
  BY <1>3, KeepsAlive
<1> QED
  BY <1>1, <1>2, <1>4, <1>5, <1>6 DEF Inv

LEMMA BeginWriteStep ==
  ASSUME Inv, NEW t \in Threads, BeginWrite(t)
  PROVE  Inv'
<1> USE HostOpsAssumption DEF BeginWrite, Goes
<1>0. t \notin Clicks
  BY DEF Threads
<1>1. TypeOK'
  BY DEF Inv, TypeOK, LiveThread
<1>2. RunsCounted' /\ Unstarted'
  BY DEF Inv, TypeOK, RunsCounted, Unstarted, Unlaunched
<1>3. \A u \in Threads : Live(u) => Live(u)'
  BY DEF Inv, TypeOK, Live, LiveThread
<1>4. LaunchedIsAlive'
  BY <1>0, <1>3 DEF Inv, TypeOK, LaunchedIsAlive, RunsCounted, Threads
<1>5. OutcomeKnown' /\ AttemptsLeft'
  BY DEF Inv, TypeOK, OutcomeKnown, AttemptsLeft
<1>6. RunningIsAlive' /\ LabelKnown'
  BY <1>3, KeepsAlive
<1> QED
  BY <1>1, <1>2, <1>4, <1>5, <1>6 DEF Inv

\* An outcome ends 'running' and overtakes every request that could commit.
LEMMA WriteStep ==
  ASSUME Inv, NEW t \in Threads, Write(t)
  PROVE  Inv'
<1> USE HostOpsAssumption DEF Write, Ends, Goes
<1>0. t \notin Clicks /\ thread[t] \in {"persisting", "marking"}
  BY DEF Threads
<1>1. row'.op_state \in {"done", "failed"} /\ row'.label = row.label
  BY DEF Inv, TypeOK, OutcomeKnown
<1>2. TypeOK'
  <2>1. row' \in [op_state : {"none", "running", "done", "failed"}, label : Clicks \union {None}]
    BY DEF Inv, TypeOK, OutcomeKnown
  <2>2. stale' \subseteq Clicks \union Threads
    BY DEF Inv, TypeOK, Committed, Open
  <2> QED
    BY <2>1, <2>2 DEF Inv, TypeOK, LiveThread
<1>3. RunsCounted' /\ Unstarted'
  BY DEF Inv, TypeOK, RunsCounted, Unstarted, Unlaunched
<1>4. LaunchedIsAlive'
  BY <1>0 DEF LaunchedIsAlive, Committed, Open
<1>5. OutcomeKnown' /\ AttemptsLeft'
  BY DEF Inv, TypeOK, OutcomeKnown, AttemptsLeft
<1>6. RunningIsAlive' /\ LabelKnown'
  BY <1>1 DEF RunningIsAlive, LabelKnown, Running
<1> QED
  BY <1>2, <1>3, <1>4, <1>5, <1>6 DEF Inv

LEMMA WriteConflictStep ==
  ASSUME Inv, NEW t \in Threads, WriteConflict(t)
  PROVE  Inv'
<1> USE HostOpsAssumption DEF WriteConflict, GiveUp, Again, Ends, Goes, LastTry
<1>0. t \notin Clicks /\ t[1] \in Clicks
  BY DEF Threads
<1>1. TypeOK'
  <2>1. attempt[t] \in 0..MaxAttempts /\ attempt[t] < MaxAttempts
    BY DEF Inv, TypeOK, AttemptsLeft
  <2> QED
    BY <1>0, <2>1 DEF Inv, TypeOK, LiveThread
<1>2. RunsCounted' /\ Unstarted'
  BY DEF Inv, TypeOK, RunsCounted, Unstarted, Unlaunched
<1>3. \A u \in Threads : Live(u) => Live(u)' \/ u[1] \in reported'
  BY DEF Inv, TypeOK, Live, LiveThread
<1>4. LaunchedIsAlive'
  <2> SUFFICES ASSUME NEW c \in Clicks, req[c].state = "launched", c \notin stale'
               PROVE  c \in reported' \/ Live(<<c, req[c].runs>>)'
    BY DEF LaunchedIsAlive
  <2>1. c \in reported \/ Live(<<c, req[c].runs>>)
    BY <1>0 DEF Inv, LaunchedIsAlive
  <2>2. <<c, req[c].runs>> \in Threads /\ <<c, req[c].runs>>[1] = c
    BY DEF Inv, RunsCounted, Threads
  <2> QED
    BY <1>3, <2>1, <2>2
<1>5. OutcomeKnown'
  BY DEF Inv, TypeOK, OutcomeKnown
<1>6. AttemptsLeft'
  BY DEF Inv, TypeOK, AttemptsLeft
<1>7. RunningIsAlive' /\ LabelKnown'
  BY <1>3, KeepsAlive
<1> QED
  BY <1>1, <1>2, <1>4, <1>5, <1>6, <1>7 DEF Inv

LEMMA MarkConflictStep ==
  ASSUME Inv, NEW t \in Threads, MarkConflict(t)
  PROVE  Inv'
<1> USE HostOpsAssumption DEF MarkConflict, GiveUp, Ends, Goes
<1>0. t \notin Clicks /\ t[1] \in Clicks
  BY DEF Threads
<1>1. TypeOK'
  BY <1>0 DEF Inv, TypeOK, LiveThread
<1>2. RunsCounted' /\ Unstarted'
  BY DEF Inv, TypeOK, RunsCounted, Unstarted, Unlaunched
<1>3. \A u \in Threads : Live(u) => Live(u)' \/ u[1] \in reported'
  BY DEF Inv, TypeOK, Live, LiveThread
<1>4. LaunchedIsAlive'
  <2> SUFFICES ASSUME NEW c \in Clicks, req[c].state = "launched", c \notin stale'
               PROVE  c \in reported' \/ Live(<<c, req[c].runs>>)'
    BY DEF LaunchedIsAlive
  <2>1. c \in reported \/ Live(<<c, req[c].runs>>)
    BY <1>0 DEF Inv, LaunchedIsAlive
  <2>2. <<c, req[c].runs>> \in Threads /\ <<c, req[c].runs>>[1] = c
    BY DEF Inv, RunsCounted, Threads
  <2> QED
    BY <1>3, <2>1, <2>2
<1>5. OutcomeKnown' /\ AttemptsLeft'
  BY DEF Inv, TypeOK, OutcomeKnown, AttemptsLeft
<1>6. RunningIsAlive' /\ LabelKnown'
  BY <1>3, KeepsAlive
<1> QED
  BY <1>1, <1>2, <1>4, <1>5, <1>6 DEF Inv

LEMMA CronWriteStep == Inv /\ CronWrite => Inv'
<1> SUFFICES ASSUME Inv, CronWrite PROVE Inv'
  OBVIOUS
<1> USE HostOpsAssumption DEF CronWrite
<1>1. TypeOK'
  <2>1. budget' \in Budgets
    BY SpendTyped DEF Inv, TypeOK, Budgets
  <2> QED
    BY <2>1 DEF Inv, TypeOK, Budgets, Committed, Open
<1>2. LaunchedIsAlive' /\ RunsCounted' /\ Unstarted'
  BY DEF Inv, LaunchedIsAlive, RunsCounted, Unstarted, Unlaunched, Committed, Live
<1>3. OutcomeKnown' /\ AttemptsLeft'
  BY DEF Inv, OutcomeKnown, AttemptsLeft
<1>4. RunningIsAlive' /\ LabelKnown'
  BY KeepsAlive DEF Live
<1> QED
  BY <1>1, <1>2, <1>3, <1>4 DEF Inv

\* The hook explains the row, whatever became of the threads.
LEMMA HookExplains ==
  ASSUME Inv, Hook
  PROVE  /\ Running' => row'.label \in Clicks /\ row'.label \in reported'
         /\ reported \subseteq reported' /\ reported' \subseteq Clicks
         /\ row' \in [op_state : {"none", "running", "done", "failed"},
                      label : Clicks \union {None}]
BY DEF Inv, Hook, TypeOK, LabelKnown, Running

LEMMA RestartOdooStep == Inv /\ RestartOdoo => Inv'
<1> SUFFICES ASSUME Inv, RestartOdoo PROVE Inv'
  OBVIOUS
<1> USE HostOpsAssumption DEF RestartOdoo
<1>0. Hook
  OBVIOUS
<1>1. TypeOK'
  <2>1. budget' \in Budgets
    BY SpendTyped DEF Inv, TypeOK, Budgets
  <2>2. req' \in [Clicks -> [state : {"unborn", "open", "launched", "ended"}, runs : 0..MaxTries]]
    BY DEF Inv, TypeOK
  <2>3. thread' \in [Threads -> LiveThread \union {"none", "told", "gave_up", "killed"}]
    BY DEF Inv, TypeOK
  <2>4. result' \in [Threads -> {"none", "done", "failed"}] /\ attempt' \in [Threads -> 0..MaxAttempts]
    OBVIOUS
  <2> QED
    BY <1>0, <2>1, <2>2, <2>3, <2>4, HookExplains DEF Inv, TypeOK, Budgets
<1>2. LaunchedIsAlive' /\ RunsCounted'
  BY DEF Inv, TypeOK, LaunchedIsAlive, RunsCounted
<1>3. Unstarted'
  <2> SUFFICES ASSUME NEW t \in Threads,
                      \/ req'[t[1]].state = "unborn" \/ t[2] > req'[t[1]].runs
                      \/ t[2] = req'[t[1]].runs /\ req'[t[1]].state = "open"
               PROVE  thread'[t] = "none"
    BY DEF Unstarted, Unlaunched
  <2>1. t[1] \in Clicks
    BY ThreadOfClick
  <2>2. req'[t[1]].runs = req[t[1]].runs /\ req'[t[1]].state \in {req[t[1]].state, "ended"}
    BY <2>1 DEF Inv, TypeOK
  <2>3. thread[t] = "none"
    BY <2>2 DEF Inv, Unstarted, Unlaunched
  <2>4. thread'[t] = IF Live(t) THEN "killed" ELSE thread[t]
    OBVIOUS
  <2> QED
    BY <2>3, <2>4 DEF Live, LiveThread
<1>4. OutcomeKnown' /\ AttemptsLeft'
  <2> SUFFICES ASSUME NEW t \in Threads
               PROVE  thread'[t] \notin {"worked", "persisting"} /\ attempt'[t] < MaxAttempts
    BY DEF OutcomeKnown, AttemptsLeft
  <2>1. thread'[t] = IF Live(t) THEN "killed" ELSE thread[t]
    OBVIOUS
  <2>2. thread'[t] \notin {"worked", "persisting"}
    BY <2>1 DEF Live, LiveThread
  <2>3. attempt'[t] = 0
    OBVIOUS
  <2> QED
    BY <2>2, <2>3
<1>5. RunningIsAlive' /\ LabelKnown'
  BY <1>0, HookExplains DEF RunningIsAlive, LabelKnown
<1> QED
  BY <1>1, <1>2, <1>3, <1>4, <1>5 DEF Inv

LEMMA ReloadRegistryStep == Inv /\ ReloadRegistry => Inv'
<1> SUFFICES ASSUME Inv, ReloadRegistry PROVE Inv'
  OBVIOUS
<1> USE HostOpsAssumption DEF ReloadRegistry
<1>0. Hook
  OBVIOUS
<1>1. TypeOK'
  <2>1. budget' \in Budgets
    BY SpendTyped DEF Inv, TypeOK, Budgets
  <2>2. stale' \subseteq Clicks \union Threads
    BY DEF Inv, TypeOK, Committed, Open
  <2> QED
    BY <1>0, <2>1, <2>2, HookExplains DEF Inv, TypeOK, Budgets
<1>2. LaunchedIsAlive' /\ RunsCounted' /\ Unstarted'
  BY <1>0, HookExplains DEF Inv, LaunchedIsAlive, RunsCounted, Unstarted, Unlaunched, Committed, Live
<1>3. OutcomeKnown' /\ AttemptsLeft'
  BY DEF Inv, OutcomeKnown, AttemptsLeft
<1>4. RunningIsAlive' /\ LabelKnown'
  BY <1>0, HookExplains DEF RunningIsAlive, LabelKnown
<1> QED
  BY <1>1, <1>2, <1>3, <1>4 DEF Inv

-----------------------------------------------------------------------------
LEMMA Step == Inv /\ [Next]_vars => Inv'
<1> SUFFICES ASSUME Inv, [Next]_vars PROVE Inv'
  OBVIOUS
<1>1. CASE \E c \in Clicks : OpenRequest(c) \/ RequestStep(c)
  BY <1>1, OpenRequestStep, LaunchStep, CommitRequestStep, RerunRequestStep DEF RequestStep
<1>2. CASE \E t \in Threads : ThreadStep(t)
  BY <1>2, WorkStep, BeginWriteStep, WriteStep, WriteConflictStep, MarkConflictStep
     DEF ThreadStep
<1>3. CASE CronWrite \/ RestartOdoo \/ ReloadRegistry
  BY <1>3, CronWriteStep, RestartOdooStep, ReloadRegistryStep
<1>4. CASE UNCHANGED vars
  <2>1. TypeOK' /\ LaunchedIsAlive' /\ RunsCounted' /\ Unstarted'
    BY <1>4 DEF Inv, vars, TypeOK, LaunchedIsAlive, RunsCounted, Unstarted, Unlaunched, Live
  <2>2. OutcomeKnown' /\ AttemptsLeft' /\ LabelKnown' /\ RunningIsAlive'
    BY <1>4 DEF Inv, vars, OutcomeKnown, AttemptsLeft, LabelKnown, RunningIsAlive, Running, Live
  <2> QED
    BY <2>1, <2>2 DEF Inv
<1> QED
  BY <1>1, <1>2, <1>3, <1>4 DEF Next

LEMMA Inductive == Spec => []Inv
BY InitInv, Step, PTL DEF Spec

\* The variables keep their types; in particular phase 2 is tried at most
\* MaxAttempts times and a request is run at most MaxTries times.
THEOREM TypeCorrect == Spec => []TypeOK
<1>1. Inv => TypeOK
  BY DEF Inv
<1> QED
  BY <1>1, Inductive, PTL

\* Without lock, guard or order between request and thread, a server that shows
\* 'running' has a thread of the click it names, or that click is in the log.
THEOREM NoSilentPhantom == Spec => []RunningIsAlive
<1>1. Inv => RunningIsAlive
  BY DEF Inv
<1> QED
  BY <1>1, Inductive, PTL

=============================================================================
