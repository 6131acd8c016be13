-------------------------- MODULE StatusSyncProofs --------------------------
(***************************************************************************)
(* Proof, for any number of instances, operations, buttons, tries, changes *)
(* of services and restarts, that the status shown was true when its       *)
(* writer looked, and that a refresh never replaces it by an older look.   *)
(* Everybody who can write a status carries an observation, and all of     *)
(* them are sound: the history of a service only grows, so what was true   *)
(* at its place in it stays true (Sound).  An operation's observation is   *)
(* of the instance it holds, which is the only one it ever holds (Owned).  *)
(* A refresh that no commit has overtaken has asked after the status that  *)
(* is shown was looked at (Ahead): its snapshot is older than its          *)
(* questions, and whoever commits a status overtakes the others.           *)
(***************************************************************************)
EXTENDS StatusSync, FiniteSetTheorems, TLAPS

States == {"active", "inactive", "failed"}
Results == Status \union {"none"}
RefreshRec == [open : BOOLEAN, scope : SUBSET Stages,
               seen : [Stages -> Observation(Answers)], tries : 0..(MaxAttempts - 1)]
TaskRec == [kind : Kinds \union {"none"}, step : {"new", "begun", "down", "ended", "blind"},
            ok : BOOLEAN, result : Observation(Results)]
Budgets == [changes : 0..MaxChanges, blind : 0..MaxBlind, restarts : 0..MaxRestarts,
            events : 0..MaxEvents]

TypedSlot ==
  /\ holder \in [Stages -> {{}} \union {{c} : c \in Ops}]
  /\ used \subseteq Ops /\ reported \subseteq Stages
TypedServer ==
  /\ history \in [Stages -> Seq(States)] /\ \A s \in Stages : Now(s) >= 1
  /\ old \subseteq Stages
TypedRefresh ==
  /\ status \in [Stages -> Observation(Status)] /\ refresh \in [Refreshers -> RefreshRec]
  /\ stale \subseteq Refreshers /\ clicked \subseteq Buttons
TypedTask == task \in [Ops -> TaskRec]
TypedRest == doomed \subseteq AutoStop /\ halted \subseteq AutoStop /\ budget \in Budgets
Typed == TypedSlot /\ TypedServer /\ TypedRefresh /\ TypedTask /\ TypedRest

\* An observation of a service is of its past, and says what was true then.
Sound(s, o) ==
  /\ o.at <= Now(s)
  /\ o.value \in {"running", "stopped"} => o.at >= 1 /\ o.value = Truth(history[s][o.at])

\* What is shown, what the refreshes have been told, what the operations found.
AllSound ==
  /\ \A s \in Stages : Sound(s, status[s])
  /\ \A r \in Refreshers, s \in Stages : Sound(s, refresh[r].seen[s])
  /\ \A c \in Ops, s \in Stages : holder[s] = {c} => Sound(s, task[c].result)

\* An operation holds one instance and, before that, has found nothing.
Owned ==
  /\ \A c \in Ops, s \in Stages : holder[s] = {c} => c \in used
  /\ \A c \in Ops, s, z \in Stages : holder[s] = {c} /\ holder[z] = {c} => s = z
  /\ \A c \in Ops \ used : task[c].result = NoStatus

\* A refresh that nobody has overtaken asked after what is shown was seen.
Ahead ==
  \A r \in Refreshers \ stale, s \in Stages :
    /\ refresh[r].open /\ s \in refresh[r].scope
    /\ refresh[r].seen[s].value \notin {"unasked", "missing"}
    => status[s].at <= refresh[r].seen[s].at

Inv == Typed /\ AllSound /\ Owned /\ Ahead

\* A service's past is not rewritten.
Grows ==
  \A s \in Stages :
    /\ Now(s) <= Now(s)'
    /\ \A i \in 1..Now(s) : history'[s][i] = history[s][i]

-----------------------------------------------------------------------------
(* What the operators of the model give.                                   *)

LEMMA ConstantsTyped ==
  /\ NoTask \in TaskRec /\ NoStatus \in Observation(Results) /\ Off \in RefreshRec
  /\ NotAsked \in [Stages -> Observation(Answers)]
  /\ NoTask.result = NoStatus /\ Off.seen = NotAsked /\ ~Off.open
<1>1. 0 \in 0..(MaxAttempts - 1)
  BY StatusSyncAssumption
<1>2. NoStatus \in Observation(Results) /\ NoTask.result = NoStatus
  BY DEF NoStatus, Observation, Results, NoTask
<1>3. NoTask \in TaskRec
  BY <1>2 DEF NoTask, TaskRec, NoStatus
<1>4. NotAsked \in [Stages -> Observation(Answers)]
  BY DEF NotAsked, Observation, Answers
<1>5. Off \in RefreshRec /\ Off.seen = NotAsked /\ ~Off.open
  BY <1>1, <1>4 DEF Off, RefreshRec
<1> QED
  BY <1>2, <1>3, <1>4, <1>5

LEMMA NowIs ==
  ASSUME TypedServer, NEW s \in Stages
  PROVE  Now(s) \in Nat \ {0} /\ history[s] \in Seq(States) /\ Service(s) \in States
<1>1. history[s] \in Seq(States) /\ Now(s) >= 1 /\ Now(s) \in Nat
  BY DEF TypedServer, Now
<1> QED
  BY <1>1 DEF Service, Now

LEMMA LookIs ==
  ASSUME TypedServer, NEW s \in Stages
  PROVE  Look(s) \in Observation(Status) /\ Sound(s, Look(s)) /\ Look(s).at = Now(s)
<1>1. Now(s) \in Nat \ {0} /\ Service(s) \in States
  BY NowIs
<1>2. Look(s) \in Observation(Status) /\ Look(s).at = Now(s) /\ Look(s).value = Truth(Service(s))
  BY <1>1 DEF Look, Reads, Truth, Observation, Status
<1> QED
  BY <1>1, <1>2 DEF Sound, Service

LEMMA BecomesIs ==
  ASSUME TypedServer, NEW S \in SUBSET Stages, NEW state \in States, Becomes(S, state)
  PROVE  /\ TypedServer' /\ Grows
         /\ \A s \in S : Service(s)' = state
<1>1. ASSUME NEW s \in Stages
      PROVE  /\ history'[s] \in Seq(States) /\ Now(s)' >= 1 /\ Now(s) <= Now(s)'
             /\ \A i \in 1..Now(s) : history'[s][i] = history[s][i]
             /\ s \in S => Service(s)' = state
  <2>1. Now(s) \in Nat \ {0} /\ history[s] \in Seq(States) /\ Len(history[s]) = Now(s)
    BY NowIs DEF Now
  <2>2. CASE s \in S /\ Service(s) # state
    <3>1. history'[s] = Append(history[s], state)
      BY <2>2 DEF Becomes
    <3>2. /\ history'[s] \in Seq(States) /\ Len(history'[s]) = Now(s) + 1
          /\ history'[s][Now(s) + 1] = state
          /\ \A i \in 1..Now(s) : history'[s][i] = history[s][i]
      BY <2>1, <3>1
    <3> QED
      BY <2>1, <3>2 DEF Now, Service
  <2>3. CASE ~(s \in S /\ Service(s) # state)
    <3>1. history'[s] = history[s]
      BY <2>3 DEF Becomes
    <3> QED
      BY <2>1, <2>3, <3>1 DEF Now, Service
  <2> QED
    BY <2>2, <2>3
<1>2. history' \in [Stages -> Seq(States)]
  <2>1. history' = [s \in Stages |-> history'[s]]
    BY DEF Becomes
  <2> QED
    BY <1>1, <2>1
<1>3. old' \subseteq Stages
  BY DEF Becomes, TypedServer
<1> QED
  BY <1>1, <1>2, <1>3 DEF TypedServer, Grows

LEMMA ServerStays ==
  ASSUME TypedServer, UNCHANGED server
  PROVE  TypedServer' /\ Grows /\ \A s \in Stages : Service(s)' = Service(s) /\ Now(s)' = Now(s)
<1>1. history' = history /\ old' = old
  BY DEF server
<1>2. \A s \in Stages : Now(s)' = Now(s) /\ Service(s)' = Service(s) /\ Now(s) \in Nat
  BY <1>1, NowIs DEF Now, Service
<1> QED
  BY <1>1, <1>2 DEF TypedServer, Grows

LEMMA EventTyped ==
  ASSUME budget \in Budgets, Event
  PROVE  budget' \in Budgets
<1>1. budget.events \in 0..MaxEvents /\ budget.events > 0
  BY DEF Budgets, Event
<1>2. budget.events - 1 \in 0..MaxEvents
  BY <1>1, StatusSyncAssumption
<1>3. budget' = [budget EXCEPT !.events = budget.events - 1]
  BY DEF Event
<1> QED
  BY <1>2, <1>3 DEF Budgets

LEMMA SpendTyped ==
  ASSUME budget \in Budgets, NEW kind \in {"changes", "blind", "restarts"}, Spend(kind)
  PROVE  budget' \in Budgets
<1>1. /\ budget.changes \in 0..MaxChanges /\ budget.blind \in 0..MaxBlind
      /\ budget.restarts \in 0..MaxRestarts /\ budget.events \in 0..MaxEvents
      /\ budget = [changes |-> budget.changes, blind |-> budget.blind,
                   restarts |-> budget.restarts, events |-> budget.events]
  BY DEF Budgets
<1>2. budget[kind] > 0 /\ budget.events - 1 \in 0..MaxEvents
  <2>1. budget[kind] > 0 /\ budget.events > 0
    BY DEF Spend
  <2> QED
    BY <1>1, <2>1, StatusSyncAssumption
<1>3. budget' = [budget EXCEPT !.events = budget.events - 1, ![kind] = budget[kind] - 1]
  BY DEF Spend
<1>4. CASE kind = "changes"
  <2>1. budget.changes - 1 \in 0..MaxChanges
    BY <1>1, <1>2, <1>4, StatusSyncAssumption
  <2> QED
    BY <1>1, <1>2, <1>3, <1>4, <2>1 DEF Budgets
<1>5. CASE kind = "blind"
  <2>1. budget.blind - 1 \in 0..MaxBlind
    BY <1>1, <1>2, <1>5, StatusSyncAssumption
  <2> QED
    BY <1>1, <1>2, <1>3, <1>5, <2>1 DEF Budgets
<1>6. CASE kind = "restarts"
  <2>1. budget.restarts - 1 \in 0..MaxRestarts
    BY <1>1, <1>2, <1>6, StatusSyncAssumption
  <2> QED
    BY <1>1, <1>2, <1>3, <1>6, <2>1 DEF Budgets
<1> QED
  BY <1>4, <1>5, <1>6

\* A commit overtakes every other open refresh of its rows.
LEMMA OvertakenIs ==
  ASSUME NEW S
  PROVE  /\ Overtaken(S, None) \subseteq Refreshers
         /\ \A r \in Refreshers : refresh[r].open /\ refresh[r].scope \cap S # {} => r \in Overtaken(S, None)
BY StatusSyncAssumption DEF Overtaken, Refreshers

-----------------------------------------------------------------------------
(* What steps of one kind keep.                                            *)

LEMMA SoundStays ==
  ASSUME TypedServer, TypedServer', Grows, NEW s \in Stages, NEW v, NEW n \in Nat, n <= Now(s),
         v \in {"running", "stopped"} => n >= 1 /\ v = Truth(history[s][n])
  PROVE  n <= Now(s)' /\ (v \in {"running", "stopped"} => n >= 1 /\ v = Truth(history'[s][n]))
<1>1. Now(s) \in Nat /\ Now(s)' \in Nat /\ Now(s) <= Now(s)'
  BY DEF TypedServer, Grows, Now
<1>2. n >= 1 => history'[s][n] = history[s][n]
  BY <1>1 DEF Grows
<1> QED
  BY <1>1, <1>2

LEMMA StaySound ==
  ASSUME Inv, TypedServer', Grows,
         \A s \in Stages : status'[s] = status[s] \/ Sound(s, status[s])',
         \A r \in Refreshers, s \in Stages :
           refresh'[r].seen[s] = refresh[r].seen[s] \/ Sound(s, refresh[r].seen[s])',
         \A c \in Ops, s \in Stages : holder'[s] = {c} =>
           \/ holder[s] = {c} /\ task'[c].result = task[c].result
           \/ Sound(s, task[c].result)'
  PROVE  AllSound'
<1>1. \A s \in Stages : status[s].at \in Nat
  BY DEF Inv, Typed, TypedRefresh, Observation
<1>2. \A r \in Refreshers, s \in Stages : refresh[r].seen[s].at \in Nat
  BY DEF Inv, Typed, TypedRefresh, RefreshRec, Observation
<1>3. \A c \in Ops : task[c].result.at \in Nat
  BY DEF Inv, Typed, TypedTask, TaskRec, Observation
<1>0. TypedServer /\ AllSound
  BY DEF Inv, Typed
<1>4. ASSUME NEW s \in Stages PROVE Sound(s, status[s])'
  <2>1. Sound(s, status[s])
    BY <1>0 DEF AllSound
  <2>2. /\ status[s].at <= Now(s)'
        /\ status[s].value \in {"running", "stopped"} =>
             status[s].at >= 1 /\ status[s].value = Truth(history'[s][status[s].at])
    BY <1>0, <1>1, <2>1, SoundStays DEF Sound
  <2> QED
    BY <2>2 DEF Sound
<1>5. ASSUME NEW r \in Refreshers, NEW s \in Stages PROVE Sound(s, refresh[r].seen[s])'
  <2> DEFINE n == refresh[r].seen[s].at
             v == refresh[r].seen[s].value
  <2>1. n \in Nat /\ n <= Now(s) /\ (v \in {"running", "stopped"} => n >= 1 /\ v = Truth(history[s][n]))
    BY <1>0, <1>2 DEF AllSound, Sound
  <2>2. n <= Now(s)' /\ (v \in {"running", "stopped"} => n >= 1 /\ v = Truth(history'[s][n]))
    <3> HIDE DEF n, v
    <3> QED
      BY <1>0, <2>1, SoundStays
  <2> QED
    BY <2>2 DEF Sound
<1>6. ASSUME NEW c \in Ops, NEW s \in Stages, holder'[s] = {c} PROVE Sound(s, task[c].result)'
  <2>1. CASE Sound(s, task[c].result)'
    BY <2>1
  <2>2. CASE holder[s] = {c} /\ task'[c].result = task[c].result
    <3>1. Sound(s, task[c].result)
      BY <1>0, <2>2 DEF AllSound
    <3>2. /\ task[c].result.at <= Now(s)'
          /\ task[c].result.value \in {"running", "stopped"} =>
               task[c].result.at >= 1 /\ task[c].result.value = Truth(history'[s][task[c].result.at])
      BY <1>0, <1>3, <3>1, SoundStays, ZenonT(60) DEF Sound
    <3> QED
      BY <2>2, <3>2 DEF Sound
  <2> QED
    BY <1>6, <2>1, <2>2
<1> QED
  BY <1>4, <1>5, <1>6 DEF AllSound

LEMMA StayOwned ==
  ASSUME Owned, UNCHANGED <<holder, used>>, \A c \in Ops \ used : task'[c].result = task[c].result
  PROVE  Owned'
BY DEF Owned

\* A step that writes no status overtakes whom it likes.
LEMMA StayAhead ==
  ASSUME Ahead, UNCHANGED <<status, refresh>>, stale \subseteq stale'
  PROVE  Ahead'
BY DEF Ahead

\* A step of the service's own, of the auto-stop job or of the slots.
LEMMA Elsewhere ==
  ASSUME Inv, TypedServer', TypedSlot', TypedRest', Grows,
         UNCHANGED <<holder, used, status, refresh, task, clicked>>,
         stale \subseteq stale', stale' \subseteq Refreshers
  PROVE  Inv'
<1>1. Typed'
  BY DEF Inv, Typed, TypedRefresh, TypedTask
<1>2. AllSound'
  BY StaySound DEF Inv
<1>3. Owned' /\ Ahead'
  BY StayOwned, StayAhead DEF Inv
<1> QED
  BY <1>1, <1>2, <1>3 DEF Inv

\* A step of the work of the operation on s.
LEMMA WorkStep ==
  ASSUME Inv, NEW c \in Ops, NEW s \in Stages, holder[s] = {c},
         TypedServer', TypedTask', TypedRest', Grows,
         UNCHANGED <<slot, status, refresh, stale, clicked>>,
         \A d \in Ops \ {c} : task'[d] = task[d],
         task'[c].result = task[c].result \/ Sound(s, task[c].result)'
  PROVE  Inv'
<1>0. UNCHANGED <<holder, used, reported>>
  BY DEF slot
<1>1. Typed'
  BY <1>0 DEF Inv, Typed, TypedRefresh, TypedSlot
<1>2. AllSound'
  <2>1. ASSUME NEW d \in Ops, NEW z \in Stages, holder'[z] = {d}
        PROVE  \/ holder[z] = {d} /\ task'[d].result = task[d].result
               \/ Sound(z, task[d].result)'
    BY <1>0, <2>1 DEF Inv, Owned
  <2> QED
    BY <2>1, StaySound DEF Inv
<1>3. Owned'
  BY <1>0, StayOwned DEF Inv, Owned
<1>4. Ahead'
  BY StayAhead DEF Inv
<1> QED
  BY <1>1, <1>2, <1>3, <1>4 DEF Inv

\* A step that ends the work on s, or leaves the result as it was.
LEMMA EndedIs ==
  ASSUME TypedTask, NEW c \in Ops, NEW ok \in BOOLEAN, NEW result \in Observation(Results),
         Ended(c, ok, result)
  PROVE  TypedTask' /\ task'[c].result = result /\ \A d \in Ops \ {c} : task'[d] = task[d]
<1> DEFINE t == [task[c] EXCEPT !.step = "ended", !.ok = ok, !.result = result]
<1>1. task[c] \in TaskRec
  BY DEF TypedTask
<1>2. t \in TaskRec /\ t.result = result
  BY <1>1 DEF TaskRec
<1>3. task' = [task EXCEPT ![c] = t]
  BY DEF Ended, TypedTask
<1> QED
  BY <1>2, <1>3 DEF TypedTask

-----------------------------------------------------------------------------
(* The refreshes.                                                          *)

\* A refresh that begins, starts again or gives up has asked nothing.
LEMMA AskAnew ==
  ASSUME Inv, NEW r \in Refreshers, NEW t \in RefreshRec, t.seen = NotAsked,
         refresh' = [refresh EXCEPT ![r] = t], stale' = stale \ {r},
         clicked' \subseteq Buttons, budget' \in Budgets,
         UNCHANGED <<slot, server, status, task, doomed, halted>>
  PROVE  Inv'
<1>1. UNCHANGED <<holder, used, reported>>
  BY DEF slot
<1>2. TypedServer' /\ Grows
  BY ServerStays DEF Inv, Typed
<1>3. refresh'[r] = t /\ refresh' \in [Refreshers -> RefreshRec] /\ \A q \in Refreshers \ {r} : refresh'[q] = refresh[q]
  BY DEF Inv, Typed, TypedRefresh
<1>4. Typed'
  BY <1>1, <1>2, <1>3 DEF Inv, Typed, TypedSlot, TypedRefresh, TypedTask, TypedRest
<1>5. AllSound'
  <2>1. ASSUME NEW s \in Stages PROVE Sound(s, refresh[r].seen[s])'
    <3>1. refresh'[r].seen[s] = [value |-> "unasked", at |-> 0]
      BY <1>3 DEF NotAsked
    <3>2. Now(s)' \in Nat
      BY <1>2 DEF TypedServer, Now
    <3> QED
      BY <3>1, <3>2 DEF Sound
  <2> QED
    BY <1>1, <1>2, <1>3, <2>1, StaySound
<1>6. Owned'
  BY <1>1, StayOwned DEF Inv
<1>7. Ahead'
  <2> SUFFICES ASSUME NEW q \in Refreshers \ stale', NEW s \in Stages,
                      refresh'[q].open, s \in refresh'[q].scope,
                      refresh'[q].seen[s].value \notin {"unasked", "missing"}
               PROVE  status'[s].at <= refresh'[q].seen[s].at
    BY DEF Ahead
  <2>1. q # r
    BY <1>3 DEF NotAsked
  <2> QED
    BY <1>3, <2>1 DEF Inv, Ahead
<1> QED
  BY <1>4, <1>5, <1>6, <1>7 DEF Inv

LEMMA BeginRefreshStep ==
  ASSUME Inv, NEW r \in Refreshers, NEW S \in SUBSET Stages, BeginRefresh(r, S)
  PROVE  Inv'
<1> DEFINE t == [Off EXCEPT !.open = TRUE, !.scope = S]
<1>1. t \in RefreshRec /\ t.seen = NotAsked
  BY ConstantsTyped DEF RefreshRec
<1>2. /\ refresh' = [refresh EXCEPT ![r] = t] /\ stale' = stale \ {r}
      /\ UNCHANGED <<slot, server, status, task, doomed, halted>>
  BY DEF BeginRefresh
<1>3. clicked' \subseteq Buttons /\ budget' \in Budgets
  BY EventTyped DEF BeginRefresh, Inv, Typed, TypedRefresh, TypedRest
<1> HIDE DEF t
<1> QED
  BY <1>1, <1>2, <1>3, AskAnew

\* An answer is of now, so after whatever is shown was looked at.
LEMMA AnswerStep ==
  ASSUME Inv, NEW r \in Refreshers, NEW answers \in [Stages -> Observation(Answers)],
         refresh' = [refresh EXCEPT ![r].seen = answers],
         \A s \in Stages : answers[s] = refresh[r].seen[s]
                             \/ (answers[s].at = Now(s) /\ Sound(s, answers[s])),
         budget' \in Budgets,
         UNCHANGED <<slot, server, status, stale, task, doomed, halted, clicked>>
  PROVE  Inv'
<1> DEFINE t == [refresh[r] EXCEPT !.seen = answers]
<1>1. /\ t \in RefreshRec /\ t.seen = answers /\ (t.open <=> refresh[r].open) /\ t.scope = refresh[r].scope
  BY DEF Inv, Typed, TypedRefresh, RefreshRec
<1>2. refresh' = [refresh EXCEPT ![r] = t]
  BY DEF Inv, Typed, TypedRefresh
<1> HIDE DEF t
<1>3. UNCHANGED <<holder, used, reported>>
  BY DEF slot
<1>4. TypedServer' /\ Grows /\ history' = history
  BY ServerStays DEF Inv, Typed, server
<1>5. refresh'[r] = t /\ refresh' \in [Refreshers -> RefreshRec] /\ \A q \in Refreshers \ {r} : refresh'[q] = refresh[q]
  BY <1>1, <1>2 DEF Inv, Typed, TypedRefresh
<1>6. Typed'
  BY <1>3, <1>4, <1>5 DEF Inv, Typed, TypedSlot, TypedRefresh, TypedTask, TypedRest
<1>7. AllSound'
  <2>1. ASSUME NEW s \in Stages
        PROVE  refresh'[r].seen[s] = refresh[r].seen[s] \/ Sound(s, refresh[r].seen[s])'
    <3>1. refresh'[r].seen[s] = answers[s]
      BY <1>1, <1>5
    <3> QED
      BY <1>4, <3>1 DEF Sound, Now
  <2> QED
    BY <1>3, <1>4, <1>5, <2>1, StaySound
<1>8. Owned'
  BY <1>3, StayOwned DEF Inv
<1>9. Ahead'
  <2> SUFFICES ASSUME NEW q \in Refreshers \ stale, NEW s \in Stages,
                      refresh'[q].open, s \in refresh'[q].scope,
                      refresh'[q].seen[s].value \notin {"unasked", "missing"}
               PROVE  status[s].at <= refresh'[q].seen[s].at
    BY DEF Ahead
  <2>1. CASE q # r
    BY <1>5, <2>1 DEF Inv, Ahead
  <2>2. CASE q = r
    <3>1. refresh'[r].seen[s] = answers[s]
      BY <1>1, <1>5
    <3>2. CASE answers[s] = refresh[r].seen[s]
      BY <1>1, <1>5, <2>2, <3>1, <3>2 DEF Inv, Ahead
    <3>3. CASE answers[s].at = Now(s)
      <4>1. status[s].at <= Now(s)
        BY DEF Inv, AllSound, Sound
      <4> QED
        BY <2>2, <3>1, <3>3, <4>1
    <3> QED
      BY <3>2, <3>3
  <2> QED
    BY <2>1, <2>2
<1> QED
  BY <1>6, <1>7, <1>8, <1>9 DEF Inv

LEMMA AskUnitStep ==
  ASSUME Inv, NEW r \in Refreshers, NEW s \in Stages, AskUnit(r, s)
  PROVE  Inv'
<1>1. ASSUME NEW answer \in Observation(Answers), answer.at = Now(s), Sound(s, answer),
             refresh' = [refresh EXCEPT ![r].seen[s] = answer], budget' \in Budgets
      PROVE  Inv'
  <2> DEFINE answers == [refresh[r].seen EXCEPT ![s] = answer]
  <2>1. refresh[r].seen \in [Stages -> Observation(Answers)]
    BY DEF Inv, Typed, TypedRefresh, RefreshRec
  <2>2. answers \in [Stages -> Observation(Answers)] /\ answers[s] = answer
        /\ \A z \in Stages : z # s => answers[z] = refresh[r].seen[z]
    BY <1>1, <2>1
  <2>3. refresh' = [refresh EXCEPT ![r].seen = answers]
    BY <1>1
  <2>4. UNCHANGED <<slot, server, status, stale, task, doomed, halted, clicked>>
    BY DEF AskUnit
  <2>5. \A z \in Stages : answers[z] = refresh[r].seen[z] \/ (answers[z].at = Now(z) /\ Sound(z, answers[z]))
    BY <1>1, <2>2
  <2> HIDE DEF answers
  <2> QED
    BY <1>1, <2>2, <2>3, <2>4, <2>5, AnswerStep
<1>2. CASE refresh' = [refresh EXCEPT ![r].seen[s] = Look(s)] /\ UNCHANGED budget
  BY <1>1, <1>2, LookIs DEF Inv, Typed, TypedRest, Observation, Answers
<1>3. CASE refresh' = [refresh EXCEPT ![r].seen[s] = [value |-> "unknown", at |-> Now(s)]] /\ Spend("blind")
  <2>1. Now(s) \in Nat
    BY NowIs DEF Inv, Typed
  <2>2. budget' \in Budgets
    BY <1>3, SpendTyped DEF Inv, Typed, TypedRest
  <2>3. [value |-> "unknown", at |-> Now(s)] \in Observation(Answers)
    BY <2>1 DEF Observation, Answers, Status
  <2>4. Sound(s, [value |-> "unknown", at |-> Now(s)])
    BY <2>1 DEF Sound
  <2> QED
    BY <1>1, <1>3, <2>2, <2>3, <2>4
<1> QED
  BY <1>2, <1>3 DEF AskUnit

LEMMA UnreachableStep ==
  ASSUME Inv, NEW r \in Refreshers, Unreachable(r)
  PROVE  Inv'
<1> DEFINE answers == [s \in Stages |-> [value |-> "missing", at |-> Now(s)]]
<1>1. \A s \in Stages : Now(s) \in Nat
  BY NowIs DEF Inv, Typed
<1>2. answers \in [Stages -> Observation(Answers)]
  BY <1>1 DEF Observation, Answers
<1>3. \A s \in Stages : answers[s].at = Now(s) /\ Sound(s, answers[s])
  BY <1>1 DEF Sound
<1>4. budget' \in Budgets
  BY SpendTyped DEF Unreachable, Inv, Typed, TypedRest
<1>5. /\ refresh' = [refresh EXCEPT ![r].seen = answers]
      /\ UNCHANGED <<slot, server, status, stale, task, doomed, halted, clicked>>
  BY DEF Unreachable
<1> HIDE DEF answers
<1> QED
  BY <1>2, <1>3, <1>4, <1>5, AnswerStep

LEMMA RefreshConflictStep ==
  ASSUME Inv, NEW r \in Refreshers, RefreshConflict(r)
  PROVE  Inv'
<1> DEFINE t == IF RetriesLeft(r) THEN RetryFresh(r) ELSE Off
<1>1. t \in RefreshRec /\ t.seen = NotAsked
  <2>1. CASE RetriesLeft(r)
    <3>1. refresh[r] \in RefreshRec /\ refresh[r].tries + 1 \in 0..(MaxAttempts - 1)
      BY <2>1, StatusSyncAssumption DEF RetriesLeft, Inv, Typed, TypedRefresh, RefreshRec
    <3>2. RetryFresh(r) = [refresh[r] EXCEPT !.seen = NotAsked, !.tries = refresh[r].tries + 1]
      BY DEF RetryFresh
    <3> QED
      BY <2>1, <3>1, <3>2, ConstantsTyped DEF RefreshRec
  <2>2. CASE ~RetriesLeft(r)
    BY <2>2, ConstantsTyped
  <2> QED
    BY <2>1, <2>2
<1>2. /\ refresh' = [refresh EXCEPT ![r] = t] /\ stale' = stale \ {r}
      /\ UNCHANGED <<slot, server, status, task, doomed, halted, clicked, budget>>
  BY DEF RefreshConflict
<1>3. clicked' \subseteq Buttons /\ budget' \in Budgets
  BY <1>2 DEF Inv, Typed, TypedRefresh, TypedRest
<1> HIDE DEF t
<1> QED
  BY <1>1, <1>2, <1>3, AskAnew

\* What a refresh writes is what it was told; the refreshes it does not
\* overtake cover other rows.
LEMMA CommitRefreshStep ==
  ASSUME Inv, NEW r \in Refreshers, CommitRefresh(r)
  PROVE  /\ Inv'
         /\ \A s \in Stages : status[s].at <= status'[s].at
<1>1. /\ refresh[r].open /\ Unasked(r) = {} /\ r \notin stale
      /\ status' = [s \in Stages |-> IF s \in refresh[r].scope THEN Written(status[s], refresh[r].seen[s])
                                     ELSE status[s]]
      /\ stale' = stale \union Overtaken(refresh[r].scope, r) /\ refresh' = [refresh EXCEPT ![r] = Off]
      /\ UNCHANGED <<slot, server, task, doomed, halted, clicked, budget>>
  BY DEF CommitRefresh
<1>2. UNCHANGED <<holder, used, reported>>
  BY <1>1 DEF slot
<1>3. TypedServer' /\ Grows /\ history' = history
  BY <1>1, ServerStays DEF Inv, Typed, server
<1>4. refresh'[r] = Off /\ refresh' \in [Refreshers -> RefreshRec] /\ \A q \in Refreshers \ {r} : refresh'[q] = refresh[q]
  BY <1>1, ConstantsTyped DEF Inv, Typed, TypedRefresh
<1>5. ASSUME NEW s \in Stages
      PROVE  /\ status'[s] \in Observation(Status) /\ Sound(s, status'[s])
             /\ status[s].at <= status'[s].at
             /\ s \notin refresh[r].scope => status'[s] = status[s]
  <2>1. /\ status[s] \in Observation(Status) /\ Sound(s, status[s])
        /\ refresh[r].seen[s] \in Observation(Answers) /\ Sound(s, refresh[r].seen[s])
    BY DEF Inv, Typed, TypedRefresh, RefreshRec, AllSound
  <2>2. status[s].at \in Nat
    BY <2>1 DEF Observation
  <2>3. CASE status'[s] = status[s]
    BY <2>1, <2>2, <2>3
  <2>4. CASE s \in refresh[r].scope /\ refresh[r].seen[s].value # "missing"
    <3>1. status'[s] = refresh[r].seen[s]
      BY <1>1, <2>4 DEF Written
    <3>2. refresh[r].seen[s].value # "unasked"
      BY <1>1, <2>4 DEF Unasked
    <3>3. status[s].at <= refresh[r].seen[s].at
      BY <1>1, <2>4, <3>2 DEF Inv, Ahead
    <3>4. refresh[r].seen[s] \in Observation(Status)
      BY <2>1, <2>4, <3>2 DEF Observation, Answers
    <3> QED
      BY <2>1, <2>4, <3>1, <3>3, <3>4
  <2> QED
    BY <1>1, <2>3, <2>4 DEF Written
<1>6. Typed'
  <2>1. status' \in [Stages -> Observation(Status)]
    BY <1>1, <1>5
  <2>2. stale' \subseteq Refreshers
    BY <1>1 DEF Overtaken, Inv, Typed, TypedRefresh
  <2> QED
    BY <1>1, <1>2, <1>3, <1>4, <2>1, <2>2 DEF Inv, Typed, TypedSlot, TypedRefresh, TypedTask, TypedRest
<1>7. AllSound'
  <2>1. ASSUME NEW s \in Stages PROVE Sound(s, status[s])'
    BY <1>3, <1>5 DEF Sound, Now
  <2>2. ASSUME NEW s \in Stages PROVE Sound(s, refresh[r].seen[s])'
    <3>1. refresh'[r].seen[s] = [value |-> "unasked", at |-> 0]
      BY <1>4, ConstantsTyped DEF NotAsked
    <3>2. Now(s)' \in Nat
      BY <1>3 DEF TypedServer, Now
    <3> QED
      BY <3>1, <3>2 DEF Sound
  <2> QED
    BY <1>1, <1>2, <1>3, <1>4, <2>1, <2>2, StaySound
<1>8. Owned'
  BY <1>1, <1>2, StayOwned DEF Inv
<1>9. Ahead'
  <2> SUFFICES ASSUME NEW q \in Refreshers \ stale', NEW s \in Stages,
                      refresh'[q].open, s \in refresh'[q].scope,
                      refresh'[q].seen[s].value \notin {"unasked", "missing"}
               PROVE  status'[s].at <= refresh'[q].seen[s].at
    BY DEF Ahead
  <2>1. q # r
    BY <1>4, ConstantsTyped
  <2>2. s \notin refresh[r].scope /\ q \notin stale
    BY <1>1, <1>4, <2>1 DEF Overtaken
  <2> QED
    BY <1>4, <1>5, <2>1, <2>2 DEF Inv, Ahead
<1> QED
  BY <1>5, <1>6, <1>7, <1>8, <1>9 DEF Inv

-----------------------------------------------------------------------------
(* The operations.                                                         *)

LEMMA RequestStep ==
  ASSUME Inv, NEW c \in Ops, NEW s \in Stages, NEW k \in Kinds, Request(c, s, k)
  PROVE  Inv'
<1>1. /\ holder[s] = {} /\ c \notin used /\ holder' = [holder EXCEPT ![s] = {c}]
      /\ used' = used \union {c} /\ reported' = reported
  BY DEF Request, Slot!Acquire
<1>2. /\ task' = [task EXCEPT ![c].kind = k] /\ Event
      /\ UNCHANGED <<server, status, refresh, stale, doomed, halted, clicked>>
  BY DEF Request
<1> DEFINE t == [task[c] EXCEPT !.kind = k]
<1>3. t \in TaskRec /\ t.result = task[c].result
  BY DEF Inv, Typed, TypedTask, TaskRec
<1>4. TypedTask' /\ \A d \in Ops : task'[d].result = task[d].result
  <2>1. task' = [task EXCEPT ![c] = t]
    BY <1>2 DEF Inv, Typed, TypedTask
  <2> HIDE DEF t
  <2> QED
    BY <1>3, <2>1 DEF Inv, Typed, TypedTask
<1>5. TypedServer' /\ Grows
  BY <1>2, ServerStays DEF Inv, Typed
<1>6. TypedSlot' /\ holder'[s] = {c} /\ \A z \in Stages \ {s} : holder'[z] = holder[z]
  BY <1>1 DEF Inv, Typed, TypedSlot
<1>7. Typed'
  <2>1. budget' \in Budgets
    BY <1>2, EventTyped DEF Inv, Typed, TypedRest
  <2> QED
    BY <1>2, <1>4, <1>5, <1>6, <2>1 DEF Inv, Typed, TypedRefresh, TypedRest
<1>8. Owned'
  BY <1>1, <1>4, <1>6 DEF Inv, Owned
<1>9. AllSound'
  <2>1. Sound(s, task[c].result)'
    <3>1. task'[c].result = NoStatus
      BY <1>1, <1>4 DEF Inv, Owned
    <3>2. Now(s)' \in Nat
      BY <1>5 DEF TypedServer, Now
    <3> QED
      BY <3>1, <3>2 DEF Sound, NoStatus
  <2>2. ASSUME NEW d \in Ops, NEW z \in Stages, holder'[z] = {d}
        PROVE  \/ holder[z] = {d} /\ task'[d].result = task[d].result
               \/ Sound(z, task[d].result)'
    <3>1. CASE z = s
      <4>1. d = c
        BY <1>6, <2>2, <3>1
      <4> QED
        BY <2>1, <3>1, <4>1
    <3>2. CASE z # s
      BY <1>4, <1>6, <2>2, <3>2
    <3> QED
      BY <3>1, <3>2
  <2> QED
    BY <1>2, <1>5, <2>2, StaySound
<1>10. Ahead'
  BY <1>2, StayAhead DEF Inv
<1> QED
  BY <1>7, <1>8, <1>9, <1>10 DEF Inv

LEMMA AnnounceStep ==
  ASSUME Inv, NEW c \in Ops, NEW s \in Stages, Announce(c, s)
  PROVE  Inv'
<1>1. UNCHANGED <<holder, used, reported>>
  BY DEF Announce, Slot!Announce
<1>2. /\ stale' = stale \union Overtaken({s}, None)
      /\ UNCHANGED <<server, status, refresh, task, doomed, halted, clicked, budget>>
  BY DEF Announce
<1>3. TypedServer' /\ Grows
  BY <1>2, ServerStays DEF Inv, Typed
<1>4. TypedSlot' /\ TypedRest'
  BY <1>1, <1>2 DEF Inv, Typed, TypedSlot, TypedRest
<1>5. stale \subseteq stale' /\ stale' \subseteq Refreshers
  BY <1>2, OvertakenIs DEF Inv, Typed, TypedRefresh
<1> QED
  BY <1>1, <1>2, <1>3, <1>4, <1>5, Elsewhere

LEMMA BeginWorkStep ==
  ASSUME Inv, NEW c \in Ops, NEW s \in Stages, BeginWork(c, s)
  PROVE  Inv'
<1> DEFINE t == [task[c] EXCEPT !.step = "begun",
                                !.result = IF task[c].kind = "check" THEN status[s] ELSE NoStatus]
<1>1. /\ holder[s] = {c} /\ task' = [task EXCEPT ![c] = t]
      /\ UNCHANGED <<slot, server, status, refresh, stale, doomed, halted, clicked, budget>>
  BY DEF BeginWork, Inv, Typed, TypedTask
<1>2. t \in TaskRec /\ (t.result = status[s] \/ t.result = NoStatus)
  <2>1. status[s] \in Observation(Results) /\ NoStatus \in Observation(Results)
    BY ConstantsTyped DEF Inv, Typed, TypedRefresh, Observation, Results
  <2>2. task[c] \in TaskRec
    BY DEF Inv, Typed, TypedTask
  <2> QED
    BY <2>1, <2>2 DEF TaskRec
<1> HIDE DEF t
<1>3. TypedTask' /\ task'[c] = t /\ \A d \in Ops \ {c} : task'[d] = task[d]
  BY <1>1, <1>2 DEF Inv, Typed, TypedTask
<1>4. TypedServer' /\ Grows /\ history' = history
  BY <1>1, ServerStays DEF Inv, Typed, server
<1>5. Sound(s, task[c].result)'
  <2>1. Sound(s, status[s]) /\ Now(s) \in Nat
    BY NowIs DEF Inv, Typed, AllSound
  <2>2. Sound(s, t.result)
    BY <1>2, <2>1 DEF Sound, NoStatus
  <2> QED
    BY <1>3, <1>4, <2>2 DEF Sound, Now
<1>6. TypedRest'
  BY <1>1 DEF Inv, Typed, TypedRest
<1> QED
  BY <1>1, <1>3, <1>4, <1>5, <1>6, WorkStep

\* Ending the work on s with nothing, or with what the service has become.
LEMMA EndStep ==
  ASSUME Inv, NEW c \in Ops, NEW s \in Stages, holder[s] = {c}, TypedServer', Grows,
         NEW ok \in BOOLEAN, NEW result \in Observation(Results), Ended(c, ok, result),
         \/ result = NoStatus
         \/ result.at <= Now(s)' /\ result.at >= 1 /\ result.value = Truth(history'[s][result.at]),
         UNCHANGED <<slot, status, refresh, stale, doomed, halted, clicked, budget>>
  PROVE  Inv'
<1>1. TypedTask' /\ task'[c].result = result /\ \A d \in Ops \ {c} : task'[d] = task[d]
  BY EndedIs DEF Inv, Typed
<1>2. Sound(s, task[c].result)'
  <2>1. Now(s)' \in Nat
    BY DEF TypedServer, Now
  <2> QED
    BY <1>1, <2>1 DEF Sound, NoStatus
<1>3. TypedRest'
  BY DEF Inv, Typed, TypedRest
<1> QED
  BY <1>1, <1>2, <1>3, WorkStep

\* What is found of a service that has just come to a state.
LEMMA Found ==
  ASSUME TypedServer, TypedServer', NEW s \in Stages, NEW v \in {"running", "stopped"},
         v = Truth(Service(s)')
  PROVE  /\ [value |-> v, at |-> Len(history'[s])] \in Observation(Results)
         /\ [value |-> v, at |-> Len(history'[s])].at <= Now(s)'
         /\ [value |-> v, at |-> Len(history'[s])].at >= 1
         /\ [value |-> v, at |-> Len(history'[s])].value =
              Truth(history'[s][[value |-> v, at |-> Len(history'[s])].at])
<1>1. Len(history'[s]) \in Nat /\ Len(history'[s]) >= 1
  BY DEF TypedServer, Now
<1> QED
  BY <1>1 DEF Observation, Results, Status, Service, Now

\* A service that is told to stop, or had stopped.
LEMMA StoppedIs ==
  ASSUME TypedServer, NEW s \in Stages,
         IF Service(s) = "active" THEN Becomes({s}, "inactive") ELSE UNCHANGED server
  PROVE  TypedServer' /\ Grows /\ Truth(Service(s)') = "stopped"
<1>1. CASE Service(s) = "active"
  BY <1>1, BecomesIs DEF States, Truth
<1>2. CASE Service(s) # "active"
  BY <1>2, ServerStays DEF Truth
<1> QED
  BY <1>1, <1>2

LEMMA StartServiceStep ==
  ASSUME Inv, NEW c \in Ops, NEW s \in Stages, StartService(c, s)
  PROVE  Inv'
<1>1. /\ holder[s] = {c}
      /\ UNCHANGED <<slot, status, refresh, stale, doomed, halted, clicked, budget>>
  BY DEF StartService, Begun
<1>2. CASE Becomes({s}, "active") /\ Ended(c, TRUE, [value |-> "running", at |-> Len(history'[s])])
  <2>1. TypedServer' /\ Grows /\ Truth(Service(s)') = "running"
    BY <1>2, BecomesIs DEF Inv, Typed, States, Truth
  <2> DEFINE o == [value |-> "running", at |-> Len(history'[s])]
  <2>2. /\ o \in Observation(Results) /\ o.at <= Now(s)' /\ o.at >= 1
        /\ o.value = Truth(history'[s][o.at])
    BY <2>1, Found DEF Inv, Typed
  <2>3. Ended(c, TRUE, o)
    BY <1>2
  <2> HIDE DEF o
  <2> QED
    BY <1>1, <2>1, <2>2, <2>3, EndStep
<1>3. CASE Becomes({s}, "failed") /\ Ended(c, FALSE, NoStatus)
  <2>1. TypedServer' /\ Grows
    BY <1>3, BecomesIs DEF Inv, Typed, States
  <2> QED
    BY <1>1, <1>3, <2>1, ConstantsTyped, EndStep
<1> QED
  BY <1>2, <1>3 DEF StartService

LEMMA StopServiceStep ==
  ASSUME Inv, NEW c \in Ops, NEW s \in Stages, StopService(c, s)
  PROVE  Inv'
<1> DEFINE o == [value |-> "stopped", at |-> Len(history'[s])]
<1>1. /\ holder[s] = {c} /\ Ended(c, TRUE, o)
      /\ UNCHANGED <<slot, status, refresh, stale, doomed, halted, clicked, budget>>
  BY DEF StopService, Begun
<1>2. TypedServer' /\ Grows /\ Truth(Service(s)') = "stopped"
  BY StoppedIs DEF Inv, Typed, StopService
<1>3. /\ o \in Observation(Results) /\ o.at <= Now(s)' /\ o.at >= 1
      /\ o.value = Truth(history'[s][o.at])
  BY <1>2, Found DEF Inv, Typed
<1> HIDE DEF o
<1> QED
  BY <1>1, <1>2, <1>3, EndStep

LEMMA TakeDownStep ==
  ASSUME Inv, NEW c \in Ops, NEW s \in Stages, TakeDown(c, s)
  PROVE  Inv'
<1> DEFINE t == [task[c] EXCEPT !.step = "down"]
<1>1. /\ holder[s] = {c} /\ task' = [task EXCEPT ![c] = t]
      /\ UNCHANGED <<slot, status, refresh, stale, doomed, halted, clicked, budget>>
  BY DEF TakeDown, Begun, Inv, Typed, TypedTask
<1>2. t \in TaskRec /\ t.result = task[c].result
  BY DEF Inv, Typed, TypedTask, TaskRec
<1> HIDE DEF t
<1>3. TypedTask' /\ task'[c] = t /\ \A d \in Ops \ {c} : task'[d] = task[d]
  BY <1>1, <1>2 DEF Inv, Typed, TypedTask
<1>4. TypedServer' /\ Grows
  BY StoppedIs DEF Inv, Typed, TakeDown
<1>5. TypedRest'
  BY <1>1 DEF Inv, Typed, TypedRest
<1> QED
  BY <1>1, <1>2, <1>3, <1>4, <1>5, WorkStep

LEMMA BringUpStep ==
  ASSUME Inv, NEW c \in Ops, NEW s \in Stages, BringUp(c, s)
  PROVE  Inv'
<1>1. /\ holder[s] = {c}
      /\ UNCHANGED <<slot, status, refresh, stale, doomed, halted, clicked, budget>>
  BY DEF BringUp
<1>2. CASE /\ Becomes({s}, "active")
           /\ Ended(c, TRUE, IF task[c].kind = "restart"
                               THEN [value |-> "running", at |-> Len(history'[s])] ELSE NoStatus)
  <2>1. TypedServer' /\ Grows /\ Truth(Service(s)') = "running"
    BY <1>2, BecomesIs DEF Inv, Typed, States, Truth
  <2> DEFINE o == [value |-> "running", at |-> Len(history'[s])]
             found == IF task[c].kind = "restart" THEN o ELSE NoStatus
  <2>2. /\ o \in Observation(Results) /\ o.at <= Now(s)' /\ o.at >= 1
        /\ o.value = Truth(history'[s][o.at])
    BY <2>1, Found DEF Inv, Typed
  <2>3. Ended(c, TRUE, found)
    BY <1>2
  <2> HIDE DEF o
  <2>4. found \in Observation(Results) /\ (found = o \/ found = NoStatus)
    BY <2>2, ConstantsTyped
  <2> HIDE DEF found
  <2> QED
    BY <1>1, <2>1, <2>2, <2>3, <2>4, EndStep
<1>3. CASE Becomes({s}, "failed") /\ Ended(c, FALSE, NoStatus)
  <2>1. TypedServer' /\ Grows
    BY <1>3, BecomesIs DEF Inv, Typed, States
  <2> QED
    BY <1>1, <1>3, <2>1, ConstantsTyped, EndStep
<1>4. CASE UNCHANGED server /\ Ended(c, FALSE, NoStatus)
  <2>1. TypedServer' /\ Grows
    BY <1>4, ServerStays DEF Inv, Typed
  <2> QED
    BY <1>1, <1>4, <2>1, ConstantsTyped, EndStep
<1> QED
  BY <1>2, <1>3, <1>4 DEF BringUp

LEMMA FailEarlyStep ==
  ASSUME Inv, NEW c \in Ops, NEW s \in Stages, FailEarly(c, s)
  PROVE  Inv'
<1>1. /\ holder[s] = {c} /\ Ended(c, FALSE, NoStatus)
      /\ UNCHANGED <<slot, server, status, refresh, stale, doomed, halted, clicked, budget>>
  BY DEF FailEarly, Begun
<1>2. TypedServer' /\ Grows
  BY <1>1, ServerStays DEF Inv, Typed
<1> QED
  BY <1>1, <1>2, ConstantsTyped, EndStep

LEMMA CheckStatusStep ==
  ASSUME Inv, NEW c \in Ops, NEW s \in Stages, CheckStatus(c, s)
  PROVE  Inv'
<1>1. /\ holder[s] = {c}
      /\ UNCHANGED <<slot, server, status, refresh, stale, doomed, halted, clicked>>
  BY DEF CheckStatus, Begun
<1>2. TypedServer' /\ Grows /\ history' = history
  BY <1>1, ServerStays DEF Inv, Typed, server
<1>3. CASE Ended(c, TRUE, Look(s)) /\ UNCHANGED budget
  <2>1. /\ Look(s) \in Observation(Results) /\ Look(s).at = Now(s) /\ Sound(s, Look(s))
        /\ Look(s).value \in {"running", "stopped"}
    BY LookIs DEF Inv, Typed, Observation, Results, Look, Reads
  <2>2. Look(s).at <= Now(s)' /\ Look(s).at >= 1 /\ Look(s).value = Truth(history'[s][Look(s).at])
    BY <1>2, <2>1 DEF Sound, Now
  <2> QED
    BY <1>1, <1>2, <1>3, <2>1, <2>2, EndStep
<1>4. CASE task' = [task EXCEPT ![c].step = "blind", ![c].ok = TRUE] /\ Spend("blind")
  <2> DEFINE t == [task[c] EXCEPT !.step = "blind", !.ok = TRUE]
  <2>1. t \in TaskRec /\ t.result = task[c].result
    BY DEF Inv, Typed, TypedTask, TaskRec
  <2>2. task' = [task EXCEPT ![c] = t]
    BY <1>4 DEF Inv, Typed, TypedTask
  <2> HIDE DEF t
  <2>3. TypedTask' /\ task'[c] = t /\ \A d \in Ops \ {c} : task'[d] = task[d]
    BY <2>1, <2>2 DEF Inv, Typed, TypedTask
  <2>4. TypedRest'
    BY <1>1, <1>4, SpendTyped DEF Inv, Typed, TypedRest
  <2> QED
    BY <1>1, <1>2, <2>1, <2>3, <2>4, WorkStep
<1> QED
  BY <1>3, <1>4 DEF CheckStatus

\* Phase 2 writes what the work found of its own instance, or nothing; the
\* refreshes of that instance are overtaken.
LEMMA ConcludeStep ==
  ASSUME Inv, NEW c \in Ops, NEW s \in Stages, Conclude(c, s)
  PROVE  /\ Inv' /\ holder'[s] # holder[s]
         /\ \A z \in Stages \ {s} : status'[z] = status[z]
<1>1. /\ holder[s] = {c} /\ holder' = [holder EXCEPT ![s] = {}] /\ UNCHANGED <<used, reported>>
  BY DEF Conclude, Slot!Conclude
<1>2. /\ status' = [status EXCEPT ![s] = StatusAfter(c, s)] /\ task' = [task EXCEPT ![c] = NoTask]
      /\ stale' = stale \union Overtaken({s}, None)
      /\ UNCHANGED <<server, refresh, doomed, halted, clicked, budget>>
  BY DEF Conclude
<1>3. TypedServer' /\ Grows /\ history' = history
  BY <1>2, ServerStays DEF Inv, Typed, server
<1>4. StatusAfter(c, s) \in Observation(Status) /\ Sound(s, StatusAfter(c, s))
  <2>1. /\ status[s] \in Observation(Status) /\ Sound(s, status[s])
        /\ task[c].result \in Observation(Results) /\ Sound(s, task[c].result)
    BY <1>1 DEF Inv, Typed, TypedRefresh, TypedTask, TaskRec, AllSound
  <2>2. task[c].result.value # "none" => task[c].result \in Observation(Status)
    BY <2>1 DEF Observation, Results
  <2> QED
    BY <2>1, <2>2 DEF StatusAfter
<1>5. /\ status' \in [Stages -> Observation(Status)] /\ status'[s] = StatusAfter(c, s)
      /\ \A z \in Stages \ {s} : status'[z] = status[z]
  BY <1>2, <1>4 DEF Inv, Typed, TypedRefresh
<1>6. TypedSlot' /\ holder'[s] = {} /\ \A z \in Stages \ {s} : holder'[z] = holder[z]
  BY <1>1 DEF Inv, Typed, TypedSlot
<1>7. TypedTask' /\ task'[c] = NoTask /\ \A d \in Ops \ {c} : task'[d] = task[d]
  BY <1>2, ConstantsTyped DEF Inv, Typed, TypedTask
<1>8. stale' \subseteq Refreshers
  BY <1>2, OvertakenIs DEF Inv, Typed, TypedRefresh
<1>9. Typed'
  BY <1>2, <1>3, <1>5, <1>6, <1>7, <1>8 DEF Inv, Typed, TypedRefresh, TypedRest
<1>10. AllSound'
  <2>1. ASSUME NEW z \in Stages PROVE status'[z] = status[z] \/ Sound(z, status[z])'
    <3>1. CASE z = s
      BY <1>3, <1>4, <1>5, <3>1 DEF Sound, Now
    <3>2. CASE z # s
      BY <1>5, <3>2
    <3> QED
      BY <3>1, <3>2
  <2>2. ASSUME NEW d \in Ops, NEW z \in Stages, holder'[z] = {d}
        PROVE  holder[z] = {d} /\ task'[d].result = task[d].result
    <3>1. z # s /\ holder[z] = {d}
      BY <1>6, <2>2
    <3>2. d # c
      BY <1>1, <3>1 DEF Inv, Owned
    <3> QED
      BY <1>7, <3>1, <3>2
  <2> QED
    BY <1>2, <1>3, <2>1, <2>2, StaySound
<1>11. Owned'
  BY <1>1, <1>6, <1>7, ConstantsTyped DEF Inv, Owned
<1>12. Ahead'
  <2> SUFFICES ASSUME NEW q \in Refreshers \ stale', NEW z \in Stages,
                      refresh[q].open, z \in refresh[q].scope,
                      refresh[q].seen[z].value \notin {"unasked", "missing"}
               PROVE  status'[z].at <= refresh[q].seen[z].at
    BY <1>2 DEF Ahead
  <2>1. q \notin stale /\ z # s
    BY <1>2, OvertakenIs
  <2> QED
    BY <1>5, <2>1 DEF Inv, Ahead
<1> QED
  BY <1>1, <1>5, <1>6, <1>9, <1>10, <1>11, <1>12 DEF Inv

\* An operation that leaves without writing a status takes nothing with it.
LEMMA Leaves ==
  ASSUME Inv, TypedSlot', TypedTask', TypedRest', used' = used,
         refresh' \in [Refreshers -> RefreshRec], stale' \subseteq Refreshers,
         \A s \in Stages : holder'[s] # {} => holder'[s] = holder[s],
         \A c \in Ops : task'[c] = NoTask \/ (task'[c] = task[c]
                                              /\ \A s \in Stages : holder'[s] = holder[s] \/ holder[s] # {c}),
         \/ UNCHANGED <<refresh, stale>>
         \/ \A r \in Refreshers : refresh'[r] = Off,
         UNCHANGED <<server, status, clicked>>
  PROVE  Inv'
<1>1. TypedServer' /\ Grows
  BY ServerStays DEF Inv, Typed
<1>2. Typed'
  BY <1>1 DEF Inv, Typed, TypedRefresh
<1>3. AllSound'
  <2>1. ASSUME NEW r \in Refreshers, NEW s \in Stages
        PROVE  refresh'[r].seen[s] = refresh[r].seen[s] \/ Sound(s, refresh[r].seen[s])'
    <3>1. CASE refresh'[r] = refresh[r]
      BY <3>1
    <3>2. CASE refresh'[r] = Off
      <4>1. refresh'[r].seen[s] = [value |-> "unasked", at |-> 0]
        BY <3>2, ConstantsTyped DEF NotAsked
      <4>2. Now(s)' \in Nat
        BY <1>1 DEF TypedServer, Now
      <4> QED
        BY <4>1, <4>2 DEF Sound
    <3> QED
      BY <3>1, <3>2
  <2>2. ASSUME NEW c \in Ops, NEW s \in Stages, holder'[s] = {c}
        PROVE  \/ holder[s] = {c} /\ task'[c].result = task[c].result
               \/ Sound(s, task[c].result)'
    <3>1. holder[s] = {c}
      BY <2>2
    <3>2. CASE task'[c] = task[c]
      BY <3>1, <3>2
    <3>3. CASE task'[c] = NoTask
      <4>1. Now(s)' \in Nat
        BY <1>1 DEF TypedServer, Now
      <4> QED
        BY <3>3, <4>1, ConstantsTyped DEF Sound, NoStatus
    <3> QED
      BY <3>2, <3>3
  <2> QED
    BY <1>1, <2>1, <2>2, StaySound
<1>4. Owned'
  <2>1. \A c \in Ops, s \in Stages : holder'[s] = {c} => holder[s] = {c}
    OBVIOUS
  <2>2. \A c \in Ops \ used : task'[c].result = NoStatus
    BY ConstantsTyped DEF Inv, Owned
  <2> QED
    BY <2>1, <2>2 DEF Inv, Owned
<1>5. Ahead'
  <2>1. CASE UNCHANGED <<refresh, stale>>
    BY <2>1, StayAhead DEF Inv
  <2>2. CASE \A r \in Refreshers : refresh'[r] = Off
    BY <2>2, ConstantsTyped DEF Ahead
  <2> QED
    BY <2>1, <2>2
<1> QED
  BY <1>2, <1>3, <1>4, <1>5 DEF Inv

LEMMA GiveUpStep ==
  ASSUME Inv, NEW c \in Ops, NEW s \in Stages, GiveUp(c, s)
  PROVE  Inv'
<1>1. /\ holder' = [holder EXCEPT ![s] = {}] /\ used' = used /\ reported' = reported \union {s}
      /\ task' = [task EXCEPT ![c] = NoTask]
      /\ UNCHANGED <<server, status, refresh, stale, doomed, halted, clicked, budget>>
  BY DEF GiveUp, Slot!Leave
<1>2. TypedSlot' /\ \A z \in Stages : holder'[z] # {} => holder'[z] = holder[z]
  BY <1>1 DEF Inv, Typed, TypedSlot
<1>3. TypedTask' /\ task'[c] = NoTask /\ \A d \in Ops \ {c} : task'[d] = task[d]
  BY <1>1, ConstantsTyped DEF Inv, Typed, TypedTask
<1>4. \A d \in Ops \ {c}, z \in Stages : holder'[z] = holder[z] \/ holder[z] # {d}
  <2>1. holder[s] = {c}
    BY DEF GiveUp
  <2> QED
    BY <1>1, <2>1 DEF Inv, Typed, TypedSlot
<1>5. TypedRest' /\ refresh' \in [Refreshers -> RefreshRec] /\ stale' \subseteq Refreshers
  BY <1>1 DEF Inv, Typed, TypedRest, TypedRefresh
<1> QED
  BY <1>1, <1>2, <1>3, <1>4, <1>5, Leaves

LEMMA RestartOdooStep ==
  ASSUME Inv, RestartOdoo
  PROVE  Inv'
<1>1. /\ holder' = [s \in Stages |-> {}] /\ used' = used /\ reported' \subseteq Stages
      /\ refresh' = [r \in Refreshers |-> Off] /\ task' = [c \in Ops |-> NoTask]
      /\ stale' = {} /\ Spend("restarts")
      /\ UNCHANGED <<server, status, doomed, halted, clicked>>
  BY DEF RestartOdoo, Slot!Restart, Inv, Typed, TypedSlot
<1>2. TypedSlot' /\ \A z \in Stages : holder'[z] = {}
  BY <1>1 DEF Inv, Typed, TypedSlot
<1>3. TypedTask' /\ \A d \in Ops : task'[d] = NoTask
  BY <1>1, ConstantsTyped DEF TypedTask
<1>4. refresh' \in [Refreshers -> RefreshRec] /\ \A r \in Refreshers : refresh'[r] = Off
  BY <1>1, ConstantsTyped
<1>5. TypedRest' /\ stale' \subseteq Refreshers
  BY <1>1, SpendTyped DEF Inv, Typed, TypedRest
<1> QED
  BY <1>1, <1>2, <1>3, <1>4, <1>5, Leaves

-----------------------------------------------------------------------------
(* Everything else that moves a service.                                   *)

LEMMA OutsideStep ==
  ASSUME Inv, NEW s \in Stages, NEW state \in States, Outside(s, state)
  PROVE  Inv'
<1>1. Becomes({s}, state) /\ Spend("changes")
      /\ UNCHANGED <<slot, status, refresh, stale, task, doomed, halted, clicked>>
  BY DEF Outside
<1>2. TypedServer' /\ Grows
  BY <1>1, BecomesIs DEF Inv, Typed
<1>3. TypedSlot' /\ TypedRest' /\ UNCHANGED <<holder, used>>
  BY <1>1, SpendTyped DEF Inv, Typed, TypedRest, TypedSlot, slot
<1>4. stale \subseteq stale' /\ stale' \subseteq Refreshers
  BY <1>1 DEF Inv, Typed, TypedRefresh
<1> QED
  BY <1>1, <1>2, <1>3, <1>4, Elsewhere

LEMMA GrowOldStep ==
  ASSUME Inv, NEW s \in Stages, GrowOld(s)
  PROVE  Inv'
<1>1. old' = old \union {s} /\ Event
      /\ UNCHANGED <<slot, history, status, refresh, stale, task, doomed, halted, clicked>>
  BY DEF GrowOld
<1>2. TypedServer' /\ Grows
  <2>1. \A z \in Stages : Now(z) \in Nat /\ Now(z)' = Now(z)
    BY <1>1, NowIs DEF Inv, Typed, Now
  <2> QED
    BY <1>1, <2>1 DEF Inv, Typed, TypedServer, Grows
<1>3. TypedSlot' /\ TypedRest' /\ UNCHANGED <<holder, used>>
  BY <1>1, EventTyped DEF Inv, Typed, TypedRest, TypedSlot, slot
<1>4. stale \subseteq stale' /\ stale' \subseteq Refreshers
  BY <1>1 DEF Inv, Typed, TypedRefresh
<1> QED
  BY <1>1, <1>2, <1>3, <1>4, Elsewhere

LEMMA AutoStopStep ==
  ASSUME Inv, (\E s \in Stages : FindOld(s) \/ StopOld(s)) \/ EndAutoStop
  PROVE  Inv'
<1>1. ASSUME NEW s \in Stages, FindOld(s) PROVE Inv'
  <2>1. s \in AutoStop /\ doomed' = doomed \union {s}
        /\ UNCHANGED <<slot, server, status, refresh, stale, task, halted, clicked, budget>>
    BY <1>1 DEF FindOld
  <2>2. TypedServer' /\ Grows
    BY <2>1, ServerStays DEF Inv, Typed
  <2>3. TypedSlot' /\ TypedRest' /\ UNCHANGED <<holder, used>>
    BY <2>1 DEF Inv, Typed, TypedRest, TypedSlot, slot
  <2>4. stale \subseteq stale' /\ stale' \subseteq Refreshers
    BY <2>1 DEF Inv, Typed, TypedRefresh
  <2> QED
    BY <2>1, <2>2, <2>3, <2>4, Elsewhere
<1>2. ASSUME NEW s \in Stages, StopOld(s) PROVE Inv'
  <2>1. s \in doomed /\ doomed' = doomed \ {s} /\ halted' = halted \union {s}
        /\ UNCHANGED <<slot, status, refresh, stale, task, clicked, budget>>
    BY <1>2 DEF StopOld
  <2>2. TypedServer' /\ Grows
    BY <1>2, StoppedIs DEF StopOld, Inv, Typed
  <2>3. TypedSlot' /\ TypedRest' /\ UNCHANGED <<holder, used>>
    BY <2>1 DEF Inv, Typed, TypedRest, TypedSlot, slot
  <2>4. stale \subseteq stale' /\ stale' \subseteq Refreshers
    BY <2>1 DEF Inv, Typed, TypedRefresh
  <2> QED
    BY <2>1, <2>2, <2>3, <2>4, Elsewhere
<1>3. ASSUME EndAutoStop PROVE Inv'
  <2>1. PICK S \in {{}, halted} : stale' = stale \union Overtaken(S, None)
    BY <1>3 DEF EndAutoStop
  <2>2. halted' = {} /\ UNCHANGED <<slot, server, status, refresh, task, doomed, clicked, budget>>
    BY <1>3 DEF EndAutoStop
  <2>3. TypedServer' /\ Grows
    BY <2>2, ServerStays DEF Inv, Typed
  <2>4. TypedSlot' /\ TypedRest' /\ UNCHANGED <<holder, used>>
    BY <2>2 DEF Inv, Typed, TypedRest, TypedSlot, slot
  <2>5. stale \subseteq stale' /\ stale' \subseteq Refreshers
    BY <2>1, OvertakenIs DEF Inv, Typed, TypedRefresh
  <2> QED
    BY <2>2, <2>3, <2>4, <2>5, Elsewhere
<1> QED
  BY <1>1, <1>2, <1>3

-----------------------------------------------------------------------------
LEMMA InitInv == Init => Inv
<1> SUFFICES ASSUME Init PROVE Inv
  OBVIOUS
<1>1. TypedSlot /\ \A s \in Stages : holder[s] = {}
  BY DEF Init, Slot!Init, TypedSlot
<1>2. ASSUME NEW s \in Stages PROVE history[s] \in Seq(States) /\ Len(history[s]) = 1
  <2>1. history[s] = <<"active">> \/ history[s] = <<"inactive">>
    BY DEF Init
  <2>2. "active" \in States /\ "inactive" \in States
    BY DEF States
  <2>3. \A v \in States : <<v>> \in Seq(States) /\ Len(<<v>>) = 1
    OBVIOUS
  <2> QED
    BY <2>1, <2>2, <2>3
<1>3. TypedServer
  BY <1>2 DEF Init, TypedServer, Now
<1>4. TypedRefresh
  BY ConstantsTyped DEF Init, TypedRefresh, Observation, Status
<1>5. TypedTask /\ \A c \in Ops : task[c].result = NoStatus
  BY ConstantsTyped DEF Init, TypedTask
<1>6. TypedRest
  BY StatusSyncAssumption DEF Init, TypedRest, Budgets
<1>7. AllSound
  <2>1. ASSUME NEW s \in Stages PROVE Sound(s, status[s])
    <3>1. status[s].value = "unknown" /\ status[s].at = 1
      BY DEF Init
    <3>2. Now(s) = 1
      BY <1>2 DEF Now
    <3> QED
      BY <3>1, <3>2 DEF Sound
  <2>2. ASSUME NEW r \in Refreshers, NEW s \in Stages PROVE Sound(s, refresh[r].seen[s])
    <3>1. refresh[r].seen[s] = [value |-> "unasked", at |-> 0]
      BY ConstantsTyped DEF Init, NotAsked
    <3> QED
      BY <1>2, <3>1 DEF Sound, Now
  <2> QED
    BY <1>1, <2>1, <2>2 DEF AllSound
<1>8. Owned
  BY <1>1, <1>5 DEF Owned
<1>9. Ahead
  BY ConstantsTyped DEF Init, Ahead
<1> QED
  BY <1>1, <1>3, <1>4, <1>5, <1>6, <1>7, <1>8, <1>9 DEF Inv, Typed

LEMMA InvStep ==
  ASSUME Inv, [Next]_vars
  PROVE  Inv' /\ \A s \in Stages : status'[s].at < status[s].at => holder'[s] # holder[s]
<1>0. \A s \in Stages : status[s].at \in Nat
  BY DEF Inv, Typed, TypedRefresh, Observation
<1>1. ASSUME NEW r \in Refreshers, CommitRefresh(r)
      PROVE  Inv' /\ \A s \in Stages : status[s].at <= status'[s].at
  BY <1>1, CommitRefreshStep
<1>2. ASSUME NEW c \in Ops, NEW s \in Stages, Conclude(c, s)
      PROVE  Inv' /\ \A z \in Stages : status'[z] # status[z] => holder'[z] # holder[z]
  BY <1>2, ConcludeStep
<1>3. ASSUME NEW r \in Refreshers, RefreshStep(r), ~CommitRefresh(r)
      PROVE  Inv' /\ status' = status
  <2>1. Inv'
    BY <1>3, BeginRefreshStep, AskUnitStep, UnreachableStep, RefreshConflictStep DEF RefreshStep
  <2> QED
    BY <1>3, <2>1 DEF RefreshStep, BeginRefresh, AskUnit, Unreachable, RefreshConflict
<1>4. ASSUME NEW c \in Ops, NEW s \in Stages, OpStep(c, s), ~Conclude(c, s)
      PROVE  Inv' /\ status' = status
  <2>1. Inv'
    BY <1>4, RequestStep, AnnounceStep, BeginWorkStep, StartServiceStep, StopServiceStep, TakeDownStep,
       BringUpStep, FailEarlyStep, CheckStatusStep, GiveUpStep DEF OpStep
  <2> QED
    BY <1>4, <2>1 DEF OpStep, Request, Announce, BeginWork, StartService, StopService, TakeDown,
                      BringUp, FailEarly, CheckStatus, GiveUp
<1>5. ASSUME NEW s \in Stages, \/ \E state \in {"active", "inactive", "failed"} : Outside(s, state)
                               \/ GrowOld(s) \/ FindOld(s) \/ StopOld(s)
      PROVE  Inv' /\ status' = status
  <2>1. Inv'
    BY <1>5, OutsideStep, GrowOldStep, AutoStopStep DEF States
  <2> QED
    BY <1>5, <2>1 DEF Outside, GrowOld, FindOld, StopOld
<1>6. ASSUME EndAutoStop \/ RestartOdoo PROVE Inv' /\ status' = status
  BY <1>6, AutoStopStep, RestartOdooStep DEF EndAutoStop, RestartOdoo
<1>7. CASE UNCHANGED vars
  <2>1. UNCHANGED <<slot, server, status, refresh, stale, task, doomed, halted, clicked, budget>>
    BY <1>7 DEF vars
  <2>2. TypedServer' /\ Grows
    BY <2>1, ServerStays DEF Inv, Typed
  <2>3. TypedSlot' /\ TypedRest' /\ UNCHANGED <<holder, used>>
    BY <2>1 DEF Inv, Typed, TypedRest, TypedSlot, slot
  <2>4. stale \subseteq stale' /\ stale' \subseteq Refreshers
    BY <2>1 DEF Inv, Typed, TypedRefresh
  <2> QED
    BY <1>0, <2>1, <2>2, <2>3, <2>4, Elsewhere
<1>8. CASE Next
  <2>1. CASE \E r \in Refreshers : CommitRefresh(r)
    <3>1. Inv' /\ \A s \in Stages : status[s].at <= status'[s].at
      BY <1>1, <2>1
    <3>2. \A s \in Stages : status'[s].at \in Nat
      BY <3>1 DEF Inv, Typed, TypedRefresh, Observation
    <3> QED
      BY <1>0, <3>1, <3>2
  <2>2. CASE \E c \in Ops, s \in Stages : Conclude(c, s)
    BY <1>0, <1>2, <2>2
  <2>3. CASE ~(\E r \in Refreshers : CommitRefresh(r)) /\ ~(\E c \in Ops, s \in Stages : Conclude(c, s))
    <3>1. Inv' /\ status' = status
      BY <1>3, <1>4, <1>5, <1>6, <1>8, <2>3 DEF Next
    <3> QED
      BY <1>0, <3>1
  <2> QED
    BY <2>1, <2>2, <2>3
<1> QED
  BY <1>7, <1>8

LEMMA AlwaysInv == Spec => []Inv
<1>1. Inv /\ [Next]_vars => Inv'
  BY InvStep
<1> QED
  BY <1>1, InitInv, PTL DEF Spec

-----------------------------------------------------------------------------
\* Every variable keeps its type, and an instance one operation at most.
THEOREM TypeCorrect == Spec => []TypeOK
<1>1. Inv => TypeOK
  <2> SUFFICES ASSUME Inv PROVE TypeOK
    OBVIOUS
  <2>1. ASSUME NEW s \in Stages PROVE holder[s] \subseteq Ops /\ Cardinality(holder[s]) <= 1
    <3>1. holder[s] = {} \/ \E c \in Ops : holder[s] = {c}
      BY DEF Inv, Typed, TypedSlot
    <3>2. CASE holder[s] = {}
      BY <3>2, FS_EmptySet
    <3>3. ASSUME NEW c \in Ops, holder[s] = {c} PROVE Cardinality(holder[s]) = 1
      BY <3>3, FS_Singleton
    <3> QED
      BY <3>1, <3>2, <3>3
  <2>2. ASSUME NEW s \in Stages, NEW i \in DOMAIN history[s]
        PROVE  history[s][i] \in {"active", "inactive", "failed"}
    BY DEF Inv, Typed, TypedServer, States
  <2>3. used \subseteq Ops /\ reported \subseteq Stages /\ old \subseteq Stages
    BY DEF Inv, Typed, TypedSlot, TypedServer
  <2>4. /\ status \in [Stages -> Observation(Status)] /\ refresh \in [Refreshers -> RefreshRec]
        /\ stale \subseteq Refreshers /\ clicked \subseteq Buttons
    BY DEF Inv, Typed, TypedRefresh
  <2>5. /\ task \in [Ops -> TaskRec] /\ doomed \subseteq AutoStop /\ halted \subseteq AutoStop
        /\ budget \in Budgets
    BY DEF Inv, Typed, TypedTask, TypedRest
  <2> QED
    BY <2>1, <2>2, <2>3, <2>4, <2>5 DEF TypeOK, RefreshRec, TaskRec, Results, Budgets
<1> QED
  BY <1>1, AlwaysInv, PTL

\* 'Running' and 'stopped' are shown only for what the service was when the
\* writer looked, whoever wrote it last: cron, button or operation.
THEOREM ShownIsTrue == Spec => []ShownWasTrue
<1>1. Inv => ShownWasTrue
  <2> SUFFICES ASSUME Inv, NEW s \in Stages, status[s].value # "unknown"
               PROVE  status[s].value = Truth(history[s][status[s].at])
    BY DEF ShownWasTrue
  <2>1. status[s].value \in {"running", "stopped"}
    BY DEF Inv, Typed, TypedRefresh, Observation, Status
  <2> QED
    BY <2>1 DEF Inv, AllSound, Sound
<1> QED
  BY <1>1, AlwaysInv, PTL

\* Only an operation that ends can replace what was seen later by what was
\* seen before: no order of commits, retries and answers makes a refresh do it.
THEOREM RefreshesGoForward == Spec => RefreshNeverGoesBack
<1>1. Inv /\ [Next]_vars =>
        [\A s \in Stages : status'[s].at < status[s].at => holder'[s] # holder[s]]_vars
  BY InvStep
<1> QED
  BY <1>1, AlwaysInv, PTL DEF Spec, RefreshNeverGoesBack
=============================================================================
