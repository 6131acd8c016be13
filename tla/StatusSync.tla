----------------------------- MODULE StatusSync -----------------------------
(***************************************************************************)
(* The status shown for the instances of one server (odoo_status) and the  *)
(* systemd services behind them.  Four kinds of writers, each with its own *)
(* idea of when it looked:                                                 *)
(*   - the 5-minute cron and the status buttons open a transaction, ask    *)
(*     the server, write and commit; a commit of somebody else in between  *)
(*     makes them start again and ask again (_refresh_and_commit);         *)
(*   - an operation (start, stop, restart, pull, upgrade, check) looks in  *)
(*     phase 1 and writes in phase 2, without asking again;                *)
(*   - the auto-stop job stops services and leaves the status alone;       *)
(*   - services change by themselves or by hand on the server.             *)
(* That one operation at a time works on an instance is taken from OpSlot, *)
(* which the runner implements (StageOps!ImplementsOpSlot).                *)
(***************************************************************************)
EXTENDS Naturals, Sequences, FiniteSets

CONSTANTS
  Stages,       \* instances of the server that have a service
  AutoStop,     \* those with Auto-Stop ticked
  Ops,          \* operations, each requested once
  Cron,         \* the refresh cron
  Buttons,      \* threads of action_check_status, each used once
  None,
  MaxAttempts,  \* tries of a refresh on serialization failures (5 in the code)
  MaxChanges,   \* bound: changes of services that the manager has no part in
  MaxBlind,     \* bound: questions to the server that fail
  MaxRestarts,  \* bound: restarts of Odoo
  MaxEvents     \* bound: all of these, clicks, and services that grow old

ASSUME StatusSyncAssumption ==
  /\ AutoStop \subseteq Stages /\ Cron \notin Buttons /\ None \notin Buttons \union {Cron}
  /\ MaxAttempts \in Nat \ {0} /\ MaxChanges \in Nat /\ MaxBlind \in Nat
  /\ MaxRestarts \in Nat /\ MaxEvents \in Nat

VARIABLES
  row, holder, used, reported,  \* the slots of module OpSlot
  history,  \* states each service has been in; the last one is its state
  old,      \* services active for longer than the configured days
  status,   \* odoo_status, and the length of history when it was looked at
  refresh,  \* transactions of the cron and the buttons
  stale,    \* those whose snapshot a commit has overtaken
  task,     \* the work of the operations
  doomed,   \* services the auto-stop script has found active and old
  halted,   \* services it has stopped, before its transaction ends
  clicked,  \* buttons that have been used
  budget    \* what is left of the bounds

slot == <<row, holder, used, reported>>
server == <<history, old>>
vars == <<slot, server, status, refresh, stale, task, doomed, halted, clicked, budget>>

Slot == INSTANCE OpSlot

Refreshers == Buttons \union {Cron}
Kinds == {"start", "stop", "restart", "upgrade", "pull", "check"}
Status == {"running", "stopped", "unknown"}
Answers == Status \union {"missing", "unasked"}
Now(s) == Len(history[s])
Service(s) == history[s][Now(s)]

\* What is read of a service: the word of check_status.py, as it is mapped.
\* (Here and below, an operator that no action uses is a wrong variant of the
\* one after it, for checking the properties.)
ReadsInactiveOnly(state) ==
  CASE state = "active" -> "running" [] state = "inactive" -> "stopped" [] OTHER -> "missing"
Reads(state) == IF state = "active" THEN "running" ELSE "stopped"

Look(s) == [value |-> Reads(Service(s)), at |-> Now(s)]
NotAsked == [s \in Stages |-> [value |-> "unasked", at |-> 0]]
Off == [open |-> FALSE, scope |-> {}, seen |-> NotAsked, tries |-> 0]
NoTask == [kind |-> "none", step |-> "new", ok |-> FALSE, result |-> [value |-> "none", at |-> 0]]

\* systemd brings services in S into a state; one already in it does not move.
Becomes(S, state) ==
  /\ history' = [s \in Stages |-> IF s \in S /\ Service(s) # state
                                    THEN Append(history[s], state) ELSE history[s]]
  /\ old' = old \ {s \in S : Service(s) # state}

\* A commit to the rows of S overtakes the open refreshes that cover them.
Overtaken(S, committer) ==
  {r \in Refreshers \ {committer} : refresh[r].open /\ refresh[r].scope \cap S # {}}

\* One event is taken from the bounds; Spend also counts its kind.
Event == budget.events > 0 /\ budget' = [budget EXCEPT !.events = @ - 1]
Spend(kind) ==
  /\ budget.events > 0 /\ budget[kind] > 0
  /\ budget' = [budget EXCEPT !.events = @ - 1, ![kind] = @ - 1]

Init ==
  /\ Slot!Init
  /\ history \in [Stages -> {<<"active">>, <<"inactive">>}]
  /\ old = {}
  /\ status = [s \in Stages |-> [value |-> "unknown", at |-> 1]]
  /\ refresh = [r \in Refreshers |-> Off]
  /\ stale = {}
  /\ task = [c \in Ops |-> NoTask]
  /\ doomed = {} /\ halted = {} /\ clicked = {}
  /\ budget = [changes |-> MaxChanges, blind |-> MaxBlind, restarts |-> MaxRestarts,
               events |-> MaxEvents]

-----------------------------------------------------------------------------
(* The refresh of the cron and of the buttons.                             *)

\* Reading which services to ask about opens the snapshot; only then the
\* server is asked.
BeginRefresh(r, S) ==
  /\ ~refresh[r].open
  /\ \/ r = Cron /\ S = Stages /\ UNCHANGED <<clicked, budget>>
     \/ r \in Buttons \ clicked /\ S # {} /\ clicked' = clicked \union {r} /\ Event
  /\ refresh' = [refresh EXCEPT ![r] = [Off EXCEPT !.open = TRUE, !.scope = S]]
  /\ stale' = stale \ {r}
  /\ UNCHANGED <<slot, server, status, task, doomed, halted>>

Unasked(r) == {s \in refresh[r].scope : refresh[r].seen[s].value = "unasked"}

\* check_status.py asks systemd one unit after the other; a question that
\* fails is answered 'unknown'.
AskUnit(r, s) ==
  /\ refresh[r].open /\ s \in Unasked(r)
  /\ \/ /\ refresh' = [refresh EXCEPT ![r].seen[s] = Look(s)]
        /\ UNCHANGED budget
     \/ /\ refresh' = [refresh EXCEPT ![r].seen[s] = [value |-> "unknown", at |-> Now(s)]]
        /\ Spend("blind")
  /\ UNCHANGED <<slot, server, status, stale, task, doomed, halted, clicked>>

\* The playbook fails as a whole: no service has an answer.
Unreachable(r) ==
  /\ refresh[r].open /\ Unasked(r) # {}
  /\ refresh' = [refresh EXCEPT ![r].seen =
                   [s \in Stages |-> [value |-> "missing", at |-> Now(s)]]]
  /\ Spend("blind")
  /\ UNCHANGED <<slot, server, status, stale, task, doomed, halted, clicked>>

WrittenAsStopped(before, answer) ==
  IF answer.value \in {"missing", "unknown"} THEN [answer EXCEPT !.value = "stopped"] ELSE answer

\* No answer leaves the status; 'unknown' is shown as it is.
Written(before, answer) == IF answer.value = "missing" THEN before ELSE answer

\* All rows are stamped, so all of them are written.
CommitRefresh(r) ==
  /\ refresh[r].open /\ Unasked(r) = {} /\ r \notin stale
  /\ status' = [s \in Stages |->
                  IF s \in refresh[r].scope THEN Written(status[s], refresh[r].seen[s])
                  ELSE status[s]]
  /\ stale' = stale \union Overtaken(refresh[r].scope, r)
  /\ refresh' = [refresh EXCEPT ![r] = Off]
  /\ UNCHANGED <<slot, server, task, doomed, halted, clicked, budget>>

RetriesLeftLate(r) == refresh[r].tries < MaxAttempts
RetriesLeft(r) == refresh[r].tries + 1 < MaxAttempts
RetrySameAnswers(r) == [refresh[r] EXCEPT !.tries = @ + 1]
RetryFresh(r) == [refresh[r] EXCEPT !.seen = NotAsked, !.tries = @ + 1]

\* Serialization failure: roll back and ask again, or leave it to the next
\* round after the last try.
RefreshConflict(r) ==
  /\ refresh[r].open /\ Unasked(r) = {} /\ r \in stale
  /\ refresh' = [refresh EXCEPT ![r] =
                   IF RetriesLeft(r) THEN RetryFresh(r) ELSE Off]
  /\ stale' = stale \ {r}
  /\ UNCHANGED <<slot, server, status, task, doomed, halted, clicked, budget>>

-----------------------------------------------------------------------------
(* Operations on one instance.                                             *)

Request(c, s, k) ==
  /\ Slot!Acquire(s, c)
  /\ task' = [task EXCEPT ![c].kind = k]
  /\ Event
  /\ UNCHANGED <<server, status, refresh, stale, doomed, halted, clicked>>

\* op_state = 'running' commits.
Announce(c, s) ==
  /\ Slot!Announce(s, c)
  /\ stale' = stale \union Overtaken({s}, None)
  /\ UNCHANGED <<server, status, refresh, task, doomed, halted, clicked, budget>>

Ended(c, ok, result) ==
  task' = [task EXCEPT ![c].step = "ended", ![c].ok = ok, ![c].result = result]
NoStatus == [value |-> "none", at |-> 0]

\* Phase 1 opens its cursor: what it will read of the row is the row of now.
BeginWork(c, s) ==
  /\ holder[s] = {c} /\ task[c].step = "new"
  /\ task' = [task EXCEPT ![c].step = "begun",
                            ![c].result = IF task[c].kind = "check" THEN status[s] ELSE NoStatus]
  /\ UNCHANGED <<slot, server, status, refresh, stale, doomed, halted, clicked, budget>>

Begun(c, s, K) == holder[s] = {c} /\ task[c].step = "begun" /\ task[c].kind \in K

\* start_service.yml; a service that does not come up fails.
StartService(c, s) ==
  /\ Begun(c, s, {"start"})
  /\ \/ /\ Becomes({s}, "active")
        /\ Ended(c, TRUE, [value |-> "running", at |-> Len(history'[s])])
     \/ Service(s) # "active" /\ Becomes({s}, "failed") /\ Ended(c, FALSE, NoStatus)
  /\ UNCHANGED <<slot, status, refresh, stale, doomed, halted, clicked, budget>>

\* stop_service.yml; a service that has failed is stopped already.
StopService(c, s) ==
  /\ Begun(c, s, {"stop"})
  /\ IF Service(s) = "active" THEN Becomes({s}, "inactive") ELSE UNCHANGED server
  /\ Ended(c, TRUE, [value |-> "stopped", at |-> Len(history'[s])])
  /\ UNCHANGED <<slot, status, refresh, stale, doomed, halted, clicked, budget>>

\* The first half of restart_service.yml and of the last task of pull_code.yml,
\* and the first task of upgrade_module.yml.
TakeDown(c, s) ==
  /\ Begun(c, s, {"restart", "pull", "upgrade"})
  /\ IF Service(s) = "active" THEN Becomes({s}, "inactive") ELSE UNCHANGED server
  /\ task' = [task EXCEPT ![c].step = "down"]
  /\ UNCHANGED <<slot, status, refresh, stale, doomed, halted, clicked, budget>>

\* The service comes up again, or does not, or the upgrade fails and it is
\* left down.  Only a restart says what the status is now.
BringUp(c, s) ==
  /\ holder[s] = {c} /\ task[c].step = "down"
  /\ \/ /\ Becomes({s}, "active")
        /\ Ended(c, TRUE, IF task[c].kind = "restart"
                            THEN [value |-> "running", at |-> Len(history'[s])] ELSE NoStatus)
     \/ Becomes({s}, "failed") /\ Ended(c, FALSE, NoStatus)
     \/ task[c].kind = "upgrade" /\ UNCHANGED server /\ Ended(c, FALSE, NoStatus)
  /\ UNCHANGED <<slot, status, refresh, stale, doomed, halted, clicked, budget>>

\* The playbook does not get as far as the service, or git fails before it.
FailEarly(c, s) ==
  /\ Begun(c, s, Kinds \ {"check"})
  /\ Ended(c, FALSE, NoStatus)
  /\ UNCHANGED <<slot, server, status, refresh, stale, doomed, halted, clicked, budget>>

\* _status_check_work: an answer, or what the row said when the work began.
CheckStatus(c, s) ==
  /\ Begun(c, s, {"check"})
  /\ \/ Ended(c, TRUE, Look(s)) /\ UNCHANGED budget
     \/ /\ task' = [task EXCEPT ![c].step = "blind", ![c].ok = TRUE]
        /\ Spend("blind")
  /\ UNCHANGED <<slot, server, status, refresh, stale, doomed, halted, clicked>>

StatusAfter(c, s) ==
  IF task[c].ok /\ task[c].result.value # "none" THEN task[c].result ELSE status[s]

\* Phase 2 writes the outcome and the status that phase 1 returned.
Conclude(c, s) ==
  /\ task[c].step \in {"ended", "blind"}
  /\ Slot!Conclude(s, c, IF task[c].ok THEN "done" ELSE "failed")
  /\ status' = [status EXCEPT ![s] = StatusAfter(c, s)]
  /\ stale' = stale \union Overtaken({s}, None)
  /\ task' = [task EXCEPT ![c] = NoTask]
  /\ UNCHANGED <<server, refresh, doomed, halted, clicked, budget>>

\* Phase 2 gives up; the status is lost with the outcome.
GiveUp(c, s) ==
  /\ holder[s] = {c} /\ task[c].step \in {"ended", "blind"} /\ row[s].op_state = "running"
  /\ reported' = reported \union {s}
  /\ Slot!Leave(s)
  /\ task' = [task EXCEPT ![c] = NoTask]
  /\ UNCHANGED <<server, status, refresh, stale, doomed, halted, clicked, budget>>

-----------------------------------------------------------------------------
(* Everything else that moves a service.                                   *)

\* Somebody on the server, a crash, a reboot.
Outside(s, state) ==
  /\ Service(s) # state
  /\ Becomes({s}, state)
  /\ Spend("changes")
  /\ UNCHANGED <<slot, status, refresh, stale, task, doomed, halted, clicked>>

\* Days pass.
GrowOld(s) ==
  /\ Service(s) = "active" /\ s \notin old
  /\ old' = old \union {s}
  /\ Event
  /\ UNCHANGED <<slot, history, status, refresh, stale, task, doomed, halted, clicked>>

\* auto_stop.py reads when the service became active ...
FindOld(s) ==
  /\ s \in AutoStop \intersect old /\ Service(s) = "active"
  /\ s \notin doomed \union halted
  /\ doomed' = doomed \union {s}
  /\ UNCHANGED <<slot, server, status, refresh, stale, task, halted, clicked, budget>>

\* ... and stops it a few commands later.
StopOld(s) ==
  /\ s \in doomed
  /\ IF Service(s) = "active" THEN Becomes({s}, "inactive") ELSE UNCHANGED server
  /\ doomed' = doomed \ {s} /\ halted' = halted \union {s}
  /\ UNCHANGED <<slot, status, refresh, stale, task, clicked, budget>>

\* The job's transaction: service_status of what was stopped, or nothing when
\* it fails.  odoo_status is not written.
EndAutoStop ==
  /\ halted # {} /\ doomed = {}
  /\ halted' = {}
  /\ \E S \in {{}, halted} : stale' = stale \union Overtaken(S, None)
  /\ UNCHANGED <<slot, server, status, refresh, task, doomed, clicked, budget>>

\* Odoo restarts: threads and open transactions are gone.
RestartOdoo ==
  /\ Slot!Restart
  /\ refresh' = [r \in Refreshers |-> Off]
  /\ task' = [c \in Ops |-> NoTask]
  /\ stale' = {}
  /\ Spend("restarts")
  /\ UNCHANGED <<server, status, doomed, halted, clicked>>

-----------------------------------------------------------------------------
RefreshStep(r) ==
  \/ \E S \in SUBSET Stages : BeginRefresh(r, S)
  \/ \E s \in Stages : AskUnit(r, s)
  \/ Unreachable(r) \/ CommitRefresh(r) \/ RefreshConflict(r)

OpStep(c, s) ==
  \/ \E k \in Kinds : Request(c, s, k)
  \/ Announce(c, s) \/ BeginWork(c, s)
  \/ StartService(c, s) \/ StopService(c, s) \/ TakeDown(c, s) \/ BringUp(c, s)
  \/ FailEarly(c, s) \/ CheckStatus(c, s) \/ Conclude(c, s) \/ GiveUp(c, s)

Next ==
  \/ \E r \in Refreshers : RefreshStep(r)
  \/ \E c \in Ops, s \in Stages : OpStep(c, s)
  \/ \E s \in Stages :
       \/ \E state \in {"active", "inactive", "failed"} : Outside(s, state)
       \/ GrowOld(s) \/ FindOld(s) \/ StopOld(s)
  \/ EndAutoStop
  \/ RestartOdoo

Spec == Init /\ [][Next]_vars

\* The cron comes again, asks and commits; nobody clicks or repairs anything.
FairSpec == Spec /\ WF_vars(RefreshStep(Cron))

-----------------------------------------------------------------------------
(* Properties.                                                             *)

Truth(state) == IF state = "active" THEN "running" ELSE "stopped"
Observation(V) == [value : V, at : Nat]

\* Every variable keeps its type.
TypeOK ==
  /\ \A s \in Stages : holder[s] \subseteq Ops /\ Cardinality(holder[s]) <= 1
  /\ used \subseteq Ops /\ reported \subseteq Stages
  /\ \A s \in Stages : \A i \in DOMAIN history[s] :
       history[s][i] \in {"active", "inactive", "failed"}
  /\ old \subseteq Stages /\ doomed \subseteq AutoStop /\ halted \subseteq AutoStop
  /\ status \in [Stages -> Observation(Status)]
  /\ refresh \in [Refreshers -> [open : BOOLEAN, scope : SUBSET Stages,
                    seen : [Stages -> Observation(Answers)], tries : 0..(MaxAttempts - 1)]]
  /\ stale \subseteq Refreshers /\ clicked \subseteq Buttons
  /\ task \in [Ops -> [kind : Kinds \union {"none"}, step : {"new", "begun", "down", "ended", "blind"},
                 ok : BOOLEAN, result : Observation(Status \union {"none"})]]
  /\ budget \in [changes : 0..MaxChanges, blind : 0..MaxBlind, restarts : 0..MaxRestarts,
                events : 0..MaxEvents]

\* 'Running' and 'stopped' are shown only for what the service was when the
\* writer looked, whoever wrote it last: a failed question is never 'stopped'.
ShownWasTrue ==
  \A s \in Stages : status[s].value # "unknown" =>
    status[s].value = Truth(history[s][status[s].at])

\* A refresh never replaces what was seen later by what it saw before: its
\* snapshot is older than its questions, and a retry asks again.
RefreshNeverGoesBack ==
  [][\A s \in Stages : status'[s].at < status[s].at => holder'[s] # holder[s]]_vars

\* However the writers overtake each other, when services stop moving the list
\* comes to show what they are.
SettlesOnTruth == <>[](\A s \in Stages : status[s].value = Truth(Service(s)))

\* What the comment in _status_check_work says: a check that cannot determine
\* the state keeps the last known status.
BlindCheckKeeps ==
  [][\A c \in Ops, s \in Stages :
       holder[s] = {c} /\ task[c].step = "blind" => status'[s] = status[s] \/ holder'[s] = {c}]_vars

\* What auto_stop.py says of itself: it stops only services that are old.
StopsOnlyOld ==
  [][\A s \in Stages : s \in doomed \ doomed' /\ history'[s] # history[s] => s \in old]_vars

=============================================================================
