--------------------------- MODULE StageOpsProofs ---------------------------
(***************************************************************************)
(* Proofs about StageOps for any number of stages, operations, processes,  *)
(* restarts, reloads and lost requests.  Always is inductive whatever      *)
(* happens.  Owned says who owns a stage: while an operation's thread      *)
(* lives, either its request still holds the row lock or the committed row *)
(* is 'running' under its label; so the guard of Launch can only pass on   *)
(* an unowned stage.  A process that is recycled alone and a request that  *)
(* is lost after its launch both leave a thread that no row names: Owned   *)
(* holds as long as the behaviour is Undisturbed by them.                  *)
(***************************************************************************)
EXTENDS StageOps, TLAPS

\* An unborn or open request has no thread; a request past its opening has a
\* stage.
Lifecycle ==
  \A c \in Ops :
    /\ req[c] \in {"unborn", "open"} => worker[c] = "none"
    /\ req[c] # "unborn" => target[c] \in Stages

\* What lives, lives in a process.
HasHome ==
  \A c \in Ops : Live(c) \/ LiveReq(c) => home[c] \in Procs

\* The lock of a stage and the request that holds it determine each other, and
\* a locked row is an existing one that is not 'running'.
LockHeld ==
  /\ \A s \in Stages : lock[s] # None =>
       /\ req[lock[s]] = "locked" /\ target[lock[s]] = s
       /\ row[s].exists /\ row[s].op_state # "running"
  /\ \A c \in Ops : req[c] = "locked" => lock[target[c]] = c

\* While its request holds the lock nobody can overtake the thread, so it is
\* still alive when the request commits.
LockedIsLive ==
  \A c \in Ops : req[c] = "locked" => Live(c) /\ c \notin stale

\* A snapshot that nothing overtook shows the stage as it is: it exists.
FreshSeesStage ==
  \A c \in Ops : req[c] = "open" /\ c \notin stale => row[target[c]].exists

\* Tries are left as long as the thread lives.
AttemptsLeft ==
  \A c \in Ops : worker[c] \in {"none"} \union LiveWorker => attempt[c] < MaxAttempts

\* Phase 2 has an outcome to write.
OutcomeKnown ==
  \A c \in Ops : worker[c] \in {"worked", "persisting"} => result[c] # "none"

\* A label on a row is that of a committed request.
LabelCommitted ==
  \A s \in Stages : row[s].label # None => req[row[s].label] = "ended"

\* A stage that shows 'running' shows no outcome.
RunningShowsNothing == \A s \in Stages : Running(s) => row[s].shown = None

Always ==
  /\ TypeOK /\ Lifecycle /\ HasHome /\ LockHeld /\ LockedIsLive /\ FreshSeesStage
  /\ AttemptsLeft /\ OutcomeKnown /\ LabelCommitted /\ RunningShowsNothing
  /\ StuckIsReported /\ ToldIsNotRunning

\* The owner of a stage.
Owner ==
  \A c \in Ops : Live(c) /\ row[target[c]].exists =>
    lock[target[c]] = c \/ (Running(target[c]) /\ row[target[c]].label = c)

Owned == Owner /\ ExclusiveOperation /\ OutcomeBelongsToLabel

Inv == Always /\ (Undisturbed => Owned)

-----------------------------------------------------------------------------
LEMMA InitInv == Init => Inv
BY StageOpsAssumption
DEF Init, Inv, Always, Owned, TypeOK, Lifecycle, HasHome, LiveReq, LockHeld, LockedIsLive,
    FreshSeesStage, Owner, AttemptsLeft, OutcomeKnown, LabelCommitted, RunningShowsNothing,
    ExclusiveOperation, StuckIsReported, OutcomeBelongsToLabel, ToldIsNotRunning, Live,
    LiveWorker, Running, Row, OpState, NewRow, Request, Worker, Budget

LEMMA OpenRequestStep ==
  ASSUME Always, NEW c \in Ops, NEW s \in Stages, NEW p \in Procs, OpenRequest(c, s, p)
  PROVE  Always'
<1>1. TypeOK'
  BY StageOpsAssumption DEF Always, TypeOK, OpenRequest, Request, Worker, LiveWorker,
      Row, OpState, Budget, AttemptsLeft, Lifecycle
<1>2. Lifecycle' /\ HasHome' /\ LockHeld' /\ LockedIsLive' /\ FreshSeesStage'
  BY StageOpsAssumption DEF Always, TypeOK, OpenRequest, Lifecycle, HasHome, LiveReq,
      LockHeld, LockedIsLive, FreshSeesStage, Live, LiveWorker
<1>3. AttemptsLeft' /\ OutcomeKnown' /\ LabelCommitted' /\ RunningShowsNothing'
  BY StageOpsAssumption DEF Always, TypeOK, OpenRequest, Lifecycle, AttemptsLeft,
      OutcomeKnown, LabelCommitted, RunningShowsNothing, Running, LiveWorker
<1>4. StuckIsReported' /\ ToldIsNotRunning'
  BY StageOpsAssumption DEF Always, TypeOK, OpenRequest, Lifecycle, LockedIsLive,
      OutcomeKnown, StuckIsReported, ToldIsNotRunning, Live, LiveWorker, Running
<1> QED BY <1>1, <1>2, <1>3, <1>4 DEF Always

LEMMA RetryRequestStep ==
  ASSUME Always, NEW c \in Ops, RetryRequest(c)
  PROVE  Always'
<1>1. TypeOK'
  BY StageOpsAssumption DEF Always, TypeOK, RetryRequest, Request, Worker, LiveWorker,
      Row, OpState, Budget, AttemptsLeft, Lifecycle
<1>2. Lifecycle' /\ HasHome' /\ LockHeld' /\ LockedIsLive' /\ FreshSeesStage'
  BY StageOpsAssumption DEF Always, TypeOK, RetryRequest, Lifecycle, HasHome, LiveReq,
      LockHeld, LockedIsLive, FreshSeesStage, Live, LiveWorker
<1>3. AttemptsLeft' /\ OutcomeKnown' /\ LabelCommitted' /\ RunningShowsNothing'
  BY StageOpsAssumption DEF Always, TypeOK, RetryRequest, Lifecycle, AttemptsLeft,
      OutcomeKnown, LabelCommitted, RunningShowsNothing, Running, LiveWorker
<1>4. StuckIsReported' /\ ToldIsNotRunning'
  BY StageOpsAssumption DEF Always, TypeOK, RetryRequest, Lifecycle, LockedIsLive,
      OutcomeKnown, StuckIsReported, ToldIsNotRunning, Live, LiveWorker, Running
<1> QED BY <1>1, <1>2, <1>3, <1>4 DEF Always

LEMMA BusyStep ==
  ASSUME Always, NEW c \in Ops, Busy(c)
  PROVE  Always'
<1>1. TypeOK'
  BY StageOpsAssumption DEF Always, TypeOK, Busy, Request, Worker, LiveWorker, Row,
      OpState, Budget, AttemptsLeft, Lifecycle
<1>2. Lifecycle' /\ HasHome' /\ LockHeld' /\ LockedIsLive' /\ FreshSeesStage'
  BY StageOpsAssumption DEF Always, TypeOK, Busy, Lifecycle, HasHome, LiveReq, LockHeld,
      LockedIsLive, FreshSeesStage, Live, LiveWorker
<1>3. AttemptsLeft' /\ OutcomeKnown' /\ LabelCommitted' /\ RunningShowsNothing'
  BY StageOpsAssumption DEF Always, TypeOK, Busy, Lifecycle, AttemptsLeft, OutcomeKnown,
      LabelCommitted, RunningShowsNothing, Running, LiveWorker
<1>4. StuckIsReported' /\ ToldIsNotRunning'
  BY StageOpsAssumption DEF Always, TypeOK, Busy, Lifecycle, LockedIsLive, OutcomeKnown,
      StuckIsReported, ToldIsNotRunning, Live, LiveWorker, Running
<1> QED BY <1>1, <1>2, <1>3, <1>4 DEF Always

LEMMA LaunchStep ==
  ASSUME Always, NEW c \in Ops, Launch(c)
  PROVE  Always'
<1>1. TypeOK'
  BY StageOpsAssumption DEF Always, TypeOK, Launch, Request, Worker, LiveWorker, Row,
      OpState, Budget, AttemptsLeft, Lifecycle
<1>2. Lifecycle' /\ HasHome' /\ LockHeld' /\ LockedIsLive' /\ FreshSeesStage'
  BY StageOpsAssumption DEF Always, TypeOK, Launch, Lifecycle, HasHome, LiveReq,
      LockHeld, LockedIsLive, FreshSeesStage, Live, LiveWorker
<1>3. AttemptsLeft' /\ OutcomeKnown' /\ LabelCommitted' /\ RunningShowsNothing'
  BY StageOpsAssumption DEF Always, TypeOK, Launch, Lifecycle, AttemptsLeft,
      OutcomeKnown, LabelCommitted, RunningShowsNothing, Running, LiveWorker
<1>4. StuckIsReported' /\ ToldIsNotRunning'
  BY StageOpsAssumption DEF Always, TypeOK, Launch, Lifecycle, LockedIsLive,
      OutcomeKnown, StuckIsReported, ToldIsNotRunning, Live, LiveWorker, Running
<1> QED BY <1>1, <1>2, <1>3, <1>4 DEF Always

LEMMA CommitRequestStep ==
  ASSUME Always, NEW c \in Ops, CommitRequest(c)
  PROVE  Always'
<1>1. TypeOK'
  BY StageOpsAssumption DEF Always, TypeOK, CommitRequest, Shows, Overtaken, Request,
      Worker, LiveWorker, Row, OpState, Budget, AttemptsLeft, Lifecycle
<1>2. Lifecycle' /\ HasHome' /\ LockHeld' /\ LockedIsLive' /\ FreshSeesStage'
  BY StageOpsAssumption DEF Always, TypeOK, CommitRequest, Shows, Overtaken, Lifecycle,
      HasHome, LiveReq, LockHeld, LockedIsLive, FreshSeesStage, Live, LiveWorker
<1>3. AttemptsLeft' /\ OutcomeKnown' /\ LabelCommitted' /\ RunningShowsNothing'
  BY StageOpsAssumption DEF Always, TypeOK, CommitRequest, Shows, Overtaken, Lifecycle,
      AttemptsLeft, OutcomeKnown, LabelCommitted, RunningShowsNothing, Running,
      LiveWorker
<1>4. StuckIsReported' /\ ToldIsNotRunning'
  BY StageOpsAssumption DEF Always, TypeOK, CommitRequest, Shows, Overtaken, Lifecycle,
      LockedIsLive, OutcomeKnown, StuckIsReported, ToldIsNotRunning, Live, LiveWorker,
      Running
<1> QED BY <1>1, <1>2, <1>3, <1>4 DEF Always

LEMMA LoseRequestStep ==
  ASSUME Always, NEW c \in Ops, LoseRequest(c)
  PROVE  Always'
<1>1. TypeOK'
  BY StageOpsAssumption DEF Always, TypeOK, LoseRequest, Request, Worker, LiveWorker,
      Row, OpState, Budget, AttemptsLeft, Lifecycle
<1>2. Lifecycle' /\ HasHome' /\ LockHeld' /\ LockedIsLive' /\ FreshSeesStage'
  BY StageOpsAssumption DEF Always, TypeOK, LoseRequest, Lifecycle, HasHome, LiveReq,
      LockHeld, LockedIsLive, FreshSeesStage, Live, LiveWorker
<1>3. AttemptsLeft' /\ OutcomeKnown' /\ LabelCommitted' /\ RunningShowsNothing'
  BY StageOpsAssumption DEF Always, TypeOK, LoseRequest, Lifecycle, AttemptsLeft,
      OutcomeKnown, LabelCommitted, RunningShowsNothing, Running, LiveWorker
<1>4. StuckIsReported' /\ ToldIsNotRunning'
  BY StageOpsAssumption DEF Always, TypeOK, LoseRequest, Lifecycle, LockedIsLive,
      OutcomeKnown, StuckIsReported, ToldIsNotRunning, Live, LiveWorker, Running
<1> QED BY <1>1, <1>2, <1>3, <1>4 DEF Always

LEMMA BeginWorkStep ==
  ASSUME Always, NEW c \in Ops, BeginWork(c)
  PROVE  Always'
<1>1. TypeOK'
  BY StageOpsAssumption DEF Always, TypeOK, BeginWork, Request, Worker, LiveWorker, Row,
      OpState, Budget, AttemptsLeft, Lifecycle
<1>2. Lifecycle' /\ HasHome' /\ LockHeld' /\ LockedIsLive' /\ FreshSeesStage'
  BY StageOpsAssumption DEF Always, TypeOK, BeginWork, Lifecycle, HasHome, LiveReq,
      LockHeld, LockedIsLive, FreshSeesStage, Live, LiveWorker
<1>3. AttemptsLeft' /\ OutcomeKnown' /\ LabelCommitted' /\ RunningShowsNothing'
  BY StageOpsAssumption DEF Always, TypeOK, BeginWork, Lifecycle, AttemptsLeft,
      OutcomeKnown, LabelCommitted, RunningShowsNothing, Running, LiveWorker
<1>4. StuckIsReported' /\ ToldIsNotRunning'
  BY StageOpsAssumption DEF Always, TypeOK, BeginWork, Lifecycle, LockedIsLive,
      OutcomeKnown, StuckIsReported, ToldIsNotRunning, Live, LiveWorker, Running
<1> QED BY <1>1, <1>2, <1>3, <1>4 DEF Always

LEMMA CrashBeforeWorkStep ==
  ASSUME Always, NEW c \in Ops, CrashBeforeWork(c)
  PROVE  Always'
<1>1. TypeOK'
  BY StageOpsAssumption DEF Always, TypeOK, CrashBeforeWork, Request, Worker,
      LiveWorker, Row, OpState, Budget, AttemptsLeft, Lifecycle
<1>2. Lifecycle' /\ HasHome' /\ LockHeld' /\ LockedIsLive' /\ FreshSeesStage'
  BY StageOpsAssumption DEF Always, TypeOK, CrashBeforeWork, Lifecycle, HasHome,
      LiveReq, LockHeld, LockedIsLive, FreshSeesStage, Live, LiveWorker
<1>3. AttemptsLeft' /\ OutcomeKnown' /\ LabelCommitted' /\ RunningShowsNothing'
  BY StageOpsAssumption DEF Always, TypeOK, CrashBeforeWork, Lifecycle, AttemptsLeft,
      OutcomeKnown, LabelCommitted, RunningShowsNothing, Running, LiveWorker
<1>4. StuckIsReported' /\ ToldIsNotRunning'
  BY StageOpsAssumption DEF Always, TypeOK, CrashBeforeWork, Lifecycle, LockedIsLive,
      OutcomeKnown, StuckIsReported, ToldIsNotRunning, Live, LiveWorker, Running
<1> QED BY <1>1, <1>2, <1>3, <1>4 DEF Always

LEMMA FinishWorkStep ==
  ASSUME Always, NEW c \in Ops, FinishWork(c)
  PROVE  Always'
<1>1. TypeOK'
  BY StageOpsAssumption DEF Always, TypeOK, FinishWork, Request, Worker, LiveWorker,
      Row, OpState, Budget, AttemptsLeft, Lifecycle
<1>2. Lifecycle' /\ HasHome' /\ LockHeld' /\ LockedIsLive' /\ FreshSeesStage'
  BY StageOpsAssumption DEF Always, TypeOK, FinishWork, Lifecycle, HasHome, LiveReq,
      LockHeld, LockedIsLive, FreshSeesStage, Live, LiveWorker
<1>3. AttemptsLeft' /\ OutcomeKnown' /\ LabelCommitted' /\ RunningShowsNothing'
  BY StageOpsAssumption DEF Always, TypeOK, FinishWork, Lifecycle, AttemptsLeft,
      OutcomeKnown, LabelCommitted, RunningShowsNothing, Running, LiveWorker
<1>4. StuckIsReported' /\ ToldIsNotRunning'
  BY StageOpsAssumption DEF Always, TypeOK, FinishWork, Lifecycle, LockedIsLive,
      OutcomeKnown, StuckIsReported, ToldIsNotRunning, Live, LiveWorker, Running
<1> QED BY <1>1, <1>2, <1>3, <1>4 DEF Always

LEMMA BeginPersistStep ==
  ASSUME Always, NEW c \in Ops, BeginPersist(c)
  PROVE  Always'
<1>1. TypeOK'
  BY StageOpsAssumption DEF Always, TypeOK, BeginPersist, Request, Worker, LiveWorker,
      Row, OpState, Budget, AttemptsLeft, Lifecycle
<1>2. Lifecycle' /\ HasHome' /\ LockHeld' /\ LockedIsLive' /\ FreshSeesStage'
  BY StageOpsAssumption DEF Always, TypeOK, BeginPersist, Lifecycle, HasHome, LiveReq,
      LockHeld, LockedIsLive, FreshSeesStage, Live, LiveWorker
<1>3. AttemptsLeft' /\ OutcomeKnown' /\ LabelCommitted' /\ RunningShowsNothing'
  BY StageOpsAssumption DEF Always, TypeOK, BeginPersist, Lifecycle, AttemptsLeft,
      OutcomeKnown, LabelCommitted, RunningShowsNothing, Running, LiveWorker
<1>4. StuckIsReported' /\ ToldIsNotRunning'
  BY StageOpsAssumption DEF Always, TypeOK, BeginPersist, Lifecycle, LockedIsLive,
      OutcomeKnown, StuckIsReported, ToldIsNotRunning, Live, LiveWorker, Running
<1> QED BY <1>1, <1>2, <1>3, <1>4 DEF Always

LEMMA PersistStep ==
  ASSUME Always, NEW c \in Ops, Persist(c)
  PROVE  Always'
<1>1. TypeOK'
  <2>1. target[c] \in Stages /\ result[c] \in {"done", "failed"}
    BY DEF Always, TypeOK, Lifecycle, OutcomeKnown, Persist
  <2>2. row[target[c]].label \in Ops \union {None}
    BY <2>1 DEF Always, TypeOK, Row
  <2>3. Shows(result[c], row[target[c]].label, c) \in Row
    BY <2>1, <2>2 DEF Shows, Row, OpState
  <2>4. row' \in [Stages -> Row] /\ stale' \subseteq Ops
    BY <2>1, <2>3 DEF Always, TypeOK, Persist, Overtaken
  <2> QED BY <2>4 DEF Always, TypeOK, Persist, Worker
<1>2. Lifecycle' /\ HasHome' /\ LockHeld' /\ LockedIsLive' /\ FreshSeesStage'
  BY StageOpsAssumption DEF Always, TypeOK, Persist, Shows, Overtaken, Lifecycle,
      HasHome, LiveReq, LockHeld, LockedIsLive, FreshSeesStage, Live, LiveWorker
<1>3. AttemptsLeft' /\ OutcomeKnown' /\ LabelCommitted' /\ RunningShowsNothing'
  BY StageOpsAssumption DEF Always, TypeOK, Persist, Shows, Overtaken, Lifecycle,
      AttemptsLeft, OutcomeKnown, LabelCommitted, RunningShowsNothing, Running,
      LiveWorker
<1>4. StuckIsReported' /\ ToldIsNotRunning'
  BY StageOpsAssumption DEF Always, TypeOK, Persist, Shows, Overtaken, Lifecycle,
      LockedIsLive, OutcomeKnown, StuckIsReported, ToldIsNotRunning, Live, LiveWorker,
      Running
<1> QED BY <1>1, <1>2, <1>3, <1>4 DEF Always

LEMMA PersistConflictStep ==
  ASSUME Always, NEW c \in Ops, PersistConflict(c)
  PROVE  Always'
<1>1. TypeOK'
  BY StageOpsAssumption DEF Always, TypeOK, PersistConflict, LastTry, RetryPersist,
      GiveUp, Request, Worker, LiveWorker, Row, OpState, Budget, AttemptsLeft, Lifecycle
<1>2. Lifecycle' /\ HasHome' /\ LockHeld' /\ LockedIsLive' /\ FreshSeesStage'
  BY StageOpsAssumption DEF Always, TypeOK, PersistConflict, LastTry, RetryPersist,
      GiveUp, Lifecycle, HasHome, LiveReq, LockHeld, LockedIsLive, FreshSeesStage, Live,
      LiveWorker
<1>3. AttemptsLeft' /\ OutcomeKnown' /\ LabelCommitted' /\ RunningShowsNothing'
  BY StageOpsAssumption DEF Always, TypeOK, PersistConflict, LastTry, RetryPersist,
      GiveUp, Lifecycle, AttemptsLeft, OutcomeKnown, LabelCommitted,
      RunningShowsNothing, Running, LiveWorker
<1>4. StuckIsReported' /\ ToldIsNotRunning'
  BY StageOpsAssumption DEF Always, TypeOK, PersistConflict, LastTry, RetryPersist,
      GiveUp, Lifecycle, LockedIsLive, OutcomeKnown, StuckIsReported, ToldIsNotRunning,
      Live, LiveWorker, Running
<1> QED BY <1>1, <1>2, <1>3, <1>4 DEF Always

LEMMA CronWriteStep ==
  ASSUME Always, NEW s \in Stages, CronWrite(s)
  PROVE  Always'
<1>1. TypeOK'
  BY StageOpsAssumption DEF Always, TypeOK, CronWrite, Overtaken, Request, Worker,
      LiveWorker, Row, OpState, Budget, AttemptsLeft, Lifecycle
<1>2. Lifecycle' /\ HasHome' /\ LockHeld' /\ LockedIsLive' /\ FreshSeesStage'
  BY StageOpsAssumption DEF Always, TypeOK, CronWrite, Overtaken, Lifecycle, HasHome,
      LiveReq, LockHeld, LockedIsLive, FreshSeesStage, Live, LiveWorker
<1>3. AttemptsLeft' /\ OutcomeKnown' /\ LabelCommitted' /\ RunningShowsNothing'
  BY StageOpsAssumption DEF Always, TypeOK, CronWrite, Overtaken, Lifecycle,
      AttemptsLeft, OutcomeKnown, LabelCommitted, RunningShowsNothing, Running,
      LiveWorker
<1>4. StuckIsReported' /\ ToldIsNotRunning'
  BY StageOpsAssumption DEF Always, TypeOK, CronWrite, Overtaken, Lifecycle,
      LockedIsLive, OutcomeKnown, StuckIsReported, ToldIsNotRunning, Live, LiveWorker,
      Running
<1> QED BY <1>1, <1>2, <1>3, <1>4 DEF Always

LEMMA DeleteStep ==
  ASSUME Always, NEW s \in Stages, Delete(s)
  PROVE  Always'
<1>1. TypeOK'
  BY StageOpsAssumption DEF Always, TypeOK, Delete, Deleted, Overtaken, Request, Worker,
      LiveWorker, Row, OpState, Budget, AttemptsLeft, Lifecycle
<1>2. Lifecycle' /\ HasHome' /\ LockHeld' /\ LockedIsLive' /\ FreshSeesStage'
  BY StageOpsAssumption DEF Always, TypeOK, Delete, Deleted, Overtaken, Lifecycle,
      HasHome, LiveReq, LockHeld, LockedIsLive, FreshSeesStage, Live, LiveWorker
<1>3. AttemptsLeft' /\ OutcomeKnown' /\ LabelCommitted' /\ RunningShowsNothing'
  BY StageOpsAssumption DEF Always, TypeOK, Delete, Deleted, Overtaken, Lifecycle,
      AttemptsLeft, OutcomeKnown, LabelCommitted, RunningShowsNothing, Running,
      LiveWorker
<1>4. StuckIsReported' /\ ToldIsNotRunning'
  BY StageOpsAssumption DEF Always, TypeOK, Delete, Deleted, Overtaken, Lifecycle,
      LockedIsLive, OutcomeKnown, StuckIsReported, ToldIsNotRunning, Live, LiveWorker,
      Running
<1> QED BY <1>1, <1>2, <1>3, <1>4 DEF Always

\* Processes die, all of them or some, and the registry is loaded again.
LEMMA ReloadStep ==
  ASSUME Always, NEW D \in SUBSET Procs, Kill(D), RegisterHook(D), budget' \in Budget,
         UNCHANGED <<target, home, result, attempt, runs>>
  PROVE  Always'
<1>1. /\ req' = [c \in Ops |-> IF LiveReq(c) /\ home[c] \in D THEN "ended" ELSE req[c]]
      /\ worker' = [c \in Ops |-> IF Live(c) /\ home[c] \in D THEN "killed" ELSE worker[c]]
      /\ lock' = [s \in Stages |->
            IF lock[s] # None /\ home[lock[s]] \in D THEN None ELSE lock[s]]
  BY DEF Kill
<1>2. /\ row' \in [Stages -> Row] /\ stale' \subseteq Ops /\ reported' \subseteq Stages
      /\ \A s \in Stages : row'[s].label = row[s].label /\ row'[s].exists = row[s].exists
      /\ \A s \in Stages : Running(s)' => Running(s) /\ s \in reported' /\ row'[s] = row[s]
      /\ \A s \in Stages : ~Running(s) => row'[s] = row[s]
      /\ \A c \in Ops : c \in stale' =>
           c \in stale \/ ((req[c] = "open" \/ worker[c] = "persisting") /\ Running(target[c]))
      /\ stale \subseteq stale'
  <2>1. CASE /\ row' = [s \in Stages |->
                     IF Running(s) THEN Shows("failed", row[s].label, None) ELSE row[s]]
             /\ stale' = stale \union UNION {{c \in Overtaken(s, None) : home[c] \notin D} :
                                              s \in {t \in Stages : Running(t)}}
             /\ reported' = {}
    <3>1. row' \in [Stages -> Row] /\ reported' \subseteq Stages
      BY <2>1 DEF Always, TypeOK, Shows, Row, OpState, Running
    <3>2. \A s \in Stages : ~Running(s)' /\ (~Running(s) => row'[s] = row[s])
      BY <2>1 DEF Shows, Running
    <3>3. \A s \in Stages : row'[s].label = row[s].label /\ row'[s].exists = row[s].exists
      BY <2>1 DEF Shows, Running
    <3>4. /\ stale' \subseteq Ops /\ stale \subseteq stale'
          /\ \A c \in Ops : c \in stale' =>
               c \in stale \/ ((req[c] = "open" \/ worker[c] = "persisting") /\ Running(target[c]))
      BY <2>1 DEF Always, TypeOK, Overtaken
    <3> QED BY <3>1, <3>2, <3>3, <3>4
  <2>2. CASE reported' = reported \union {s \in Stages : Running(s)} /\ UNCHANGED <<row, stale>>
    BY <2>2 DEF Always, TypeOK, Running
  <2> QED BY <2>1, <2>2 DEF RegisterHook
<1>3. TypeOK'
  BY <1>1, <1>2 DEF Always, TypeOK, Request, Worker
<1>4. Lifecycle' /\ HasHome' /\ AttemptsLeft' /\ OutcomeKnown' /\ LabelCommitted'
  <2>1. Lifecycle' /\ HasHome'
    BY <1>1 DEF Always, Lifecycle, HasHome, Live, LiveReq, LiveWorker
  <2>2. AttemptsLeft' /\ OutcomeKnown'
    BY <1>1 DEF Always, AttemptsLeft, OutcomeKnown, LiveWorker
  <2>3. LabelCommitted'
    BY <1>1, <1>2 DEF Always, TypeOK, Row, LabelCommitted, LiveReq
  <2> QED BY <2>1, <2>2, <2>3
<1>5. LockHeld' /\ LockedIsLive' /\ FreshSeesStage'
  <2>1. LockHeld'
    BY <1>1, <1>2, StageOpsAssumption DEF Always, TypeOK, Lifecycle, LockHeld, LiveReq, Running
  <2>2. LockedIsLive'
    BY <1>1, <1>2, StageOpsAssumption
    DEF Always, TypeOK, Lifecycle, LockHeld, LockedIsLive, LiveReq, Live, LiveWorker, Running
  <2>3. FreshSeesStage'
    BY <1>1, <1>2 DEF Always, Lifecycle, FreshSeesStage, LiveReq
  <2> QED BY <2>1, <2>2, <2>3
<1>6. RunningShowsNothing' /\ StuckIsReported' /\ ToldIsNotRunning'
  BY <1>1, <1>2 DEF Always, RunningShowsNothing, StuckIsReported, ToldIsNotRunning, Live,
     LiveWorker
<1> QED BY <1>3, <1>4, <1>5, <1>6 DEF Always

LEMMA AlwaysStep == Always /\ [Next]_vars => Always'
<1> SUFFICES ASSUME Always, [Next]_vars PROVE Always'
  OBVIOUS
<1>1. CASE UNCHANGED vars
  BY <1>1
  DEF vars, Always, TypeOK, Lifecycle, HasHome, LiveReq, LockHeld, LockedIsLive,
      FreshSeesStage, AttemptsLeft, OutcomeKnown, LabelCommitted, RunningShowsNothing,
      StuckIsReported, ToldIsNotRunning, Live, Running
<1>2. ASSUME NEW c \in Ops, RequestStep(c) PROVE Always'
  BY <1>2, RetryRequestStep, BusyStep, LaunchStep, CommitRequestStep, LoseRequestStep
  DEF RequestStep
<1>3. ASSUME NEW c \in Ops, WorkerStep(c) PROVE Always'
  BY <1>3, BeginWorkStep, CrashBeforeWorkStep, FinishWorkStep, BeginPersistStep, PersistStep,
     PersistConflictStep
  DEF WorkerStep
<1>4. CASE RestartService
  <2>1. budget' \in Budget
    BY <1>4, StageOpsAssumption DEF Always, TypeOK, RestartService, Budget
  <2> QED BY <1>4, <2>1, ReloadStep DEF RestartService
<1>5. ASSUME NEW p \in Procs, ReloadRegistry(p) PROVE Always'
  <2>1. budget' \in Budget
    BY <1>5, StageOpsAssumption DEF Always, TypeOK, ReloadRegistry, Budget
  <2> QED BY <1>5, <2>1, ReloadStep DEF ReloadRegistry
<1> QED
  BY <1>1, <1>2, <1>3, <1>4, <1>5, OpenRequestStep, CronWriteStep, DeleteStep DEF Next

-----------------------------------------------------------------------------
(* Who owns a stage, while nothing disturbs.                               *)

LEMMA OpenRequestOwned ==
  ASSUME Always, Owned, NEW c \in Ops, NEW s \in Stages, NEW p \in Procs, OpenRequest(c, s, p)
  PROVE  Owned'
BY StageOpsAssumption DEF Always, TypeOK, Owned, OpenRequest, Lifecycle, Owner,
    ExclusiveOperation, OutcomeBelongsToLabel, Live, LiveWorker, Running

LEMMA RetryRequestOwned ==
  ASSUME Always, Owned, NEW c \in Ops, RetryRequest(c)
  PROVE  Owned'
BY StageOpsAssumption DEF Always, TypeOK, Owned, RetryRequest, Owner,
    ExclusiveOperation, OutcomeBelongsToLabel, Live, LiveWorker, Running

LEMMA BusyOwned ==
  ASSUME Always, Owned, NEW c \in Ops, Busy(c)
  PROVE  Owned'
BY StageOpsAssumption DEF Always, TypeOK, Owned, Busy, Owner, ExclusiveOperation,
    OutcomeBelongsToLabel, Live, LiveWorker, Running

LEMMA LaunchOwned ==
  ASSUME Always, Owned, NEW c \in Ops, Launch(c)
  PROVE  Owned'
BY StageOpsAssumption DEF Always, TypeOK, Owned, Launch, FreshSeesStage, Lifecycle,
    Owner, ExclusiveOperation, OutcomeBelongsToLabel, Live, LiveWorker, Running

LEMMA CommitRequestOwned ==
  ASSUME Always, Owned, NEW c \in Ops, CommitRequest(c)
  PROVE  Owned'
BY StageOpsAssumption DEF Always, TypeOK, Owned, CommitRequest, Shows, LockedIsLive,
    LockHeld, Owner, ExclusiveOperation, OutcomeBelongsToLabel, Live, LiveWorker,
    Running

LEMMA BeginWorkOwned ==
  ASSUME Always, Owned, NEW c \in Ops, BeginWork(c)
  PROVE  Owned'
BY StageOpsAssumption DEF Always, TypeOK, Owned, BeginWork, Owner, ExclusiveOperation,
    OutcomeBelongsToLabel, Live, LiveWorker, Running

LEMMA CrashBeforeWorkOwned ==
  ASSUME Always, Owned, NEW c \in Ops, CrashBeforeWork(c)
  PROVE  Owned'
BY StageOpsAssumption DEF Always, TypeOK, Owned, CrashBeforeWork, Owner,
    ExclusiveOperation, OutcomeBelongsToLabel, Live, LiveWorker, Running

LEMMA FinishWorkOwned ==
  ASSUME Always, Owned, NEW c \in Ops, FinishWork(c)
  PROVE  Owned'
BY StageOpsAssumption DEF Always, TypeOK, Owned, FinishWork, Owner, ExclusiveOperation,
    OutcomeBelongsToLabel, Live, LiveWorker, Running

LEMMA BeginPersistOwned ==
  ASSUME Always, Owned, NEW c \in Ops, BeginPersist(c)
  PROVE  Owned'
BY StageOpsAssumption DEF Always, TypeOK, Owned, BeginPersist, Owner,
    ExclusiveOperation, OutcomeBelongsToLabel, Live, LiveWorker, Running

LEMMA PersistConflictOwned ==
  ASSUME Always, Owned, NEW c \in Ops, PersistConflict(c)
  PROVE  Owned'
BY StageOpsAssumption DEF Always, TypeOK, Owned, PersistConflict, LastTry, RetryPersist,
    GiveUp, Owner, ExclusiveOperation, OutcomeBelongsToLabel, Live, LiveWorker, Running

LEMMA CronWriteOwned ==
  ASSUME Always, Owned, NEW s \in Stages, CronWrite(s)
  PROVE  Owned'
BY StageOpsAssumption DEF Always, TypeOK, Owned, CronWrite, Owner, ExclusiveOperation,
    OutcomeBelongsToLabel, Live, LiveWorker, Running

LEMMA DeleteOwned ==
  ASSUME Always, Owned, NEW s \in Stages, Delete(s)
  PROVE  Owned'
BY StageOpsAssumption DEF Always, TypeOK, Owned, Delete, Deleted, Owner,
    ExclusiveOperation, OutcomeBelongsToLabel, Live, LiveWorker, Running

\* The thread that writes its outcome owns its stage.
LEMMA PersistOwned ==
  ASSUME Always, Owned, NEW c \in Ops, Persist(c)
  PROVE  Owned'
<1> DEFINE s == target[c]
<1>1. s \in Stages /\ Live(c) /\ lock[s] = None /\ result[c] \in {"done", "failed"}
  BY DEF Always, TypeOK, Lifecycle, OutcomeKnown, Persist, Live, LiveWorker
<1>2. row[s].exists => Running(s) /\ row[s].label = c
  BY <1>1, StageOpsAssumption DEF Owned, Owner
<1>3. worker' = [worker EXCEPT ![c] = "told"] /\ UNCHANGED <<lock, target>>
  BY DEF Persist
<1>4. \A d \in Ops : Live(d)' <=> Live(d) /\ d # c
  BY <1>1, <1>3 DEF Always, TypeOK, Live, LiveWorker
<1>5. \/ row[s].exists /\ row' = [row EXCEPT ![s] = Shows(result[c], c, c)]
      \/ UNCHANGED row
  BY <1>2 DEF Persist
<1>6. Owner' /\ ExclusiveOperation'
  <2>1. \A d \in Ops : Live(d)' => Live(d) /\ target[d] # s /\ row'[target[d]] = row[target[d]]
    BY <1>1, <1>4, <1>5
    DEF Always, TypeOK, Lifecycle, Live, LiveWorker, Owned, ExclusiveOperation
  <2> QED
    BY <1>3, <1>4, <2>1 DEF Owned, Owner, ExclusiveOperation, Running
<1>7. OutcomeBelongsToLabel'
  BY <1>1, <1>5 DEF Always, TypeOK, Owned, OutcomeBelongsToLabel, Shows
<1> QED BY <1>6, <1>7 DEF Owned

\* After a restart of the whole service no thread lives.
LEMMA RestartOwned ==
  ASSUME Always, Owned, RestartService
  PROVE  Owned'
<1>1. worker' = [c \in Ops |-> IF Live(c) /\ home[c] \in Procs THEN "killed" ELSE worker[c]]
  BY DEF RestartService, Kill
<1>2. \A c \in Ops : ~Live(c)'
  BY <1>1 DEF Always, HasHome, Live, LiveWorker
<1>3. \/ row' = [s \in Stages |->
                   IF Running(s) THEN Shows("failed", row[s].label, None) ELSE row[s]]
      \/ UNCHANGED row
  BY DEF RestartService, RegisterHook
<1>4. OutcomeBelongsToLabel'
  BY <1>3 DEF Owned, OutcomeBelongsToLabel, Shows
<1> QED BY <1>2, <1>4 DEF Owned, Owner, ExclusiveOperation

\* What disturbs a behaviour stays counted.
LEMMA StaysCounted ==
  ASSUME TypeOK, [Next]_vars, Undisturbed'
  PROVE  /\ Undisturbed
         /\ \A p \in Procs : ~ReloadRegistry(p)
         /\ \A c \in Ops : ~LoseRequest(c)
<1> USE StageOpsAssumption DEF TypeOK, Budget, Undisturbed
<1>1. CASE UNCHANGED budget
  BY <1>1 DEF ReloadRegistry, LoseRequest
<1>2. ASSUME NEW s \in Stages, CronWrite(s) PROVE UNCHANGED <<budget.reload, budget.lost>>
  BY <1>2 DEF CronWrite
<1>3. CASE RestartService
  BY <1>3 DEF RestartService, ReloadRegistry, LoseRequest
<1>4. ASSUME NEW p \in Procs, ReloadRegistry(p) PROVE FALSE
  BY <1>4 DEF ReloadRegistry
<1>5. ASSUME NEW c \in Ops, LoseRequest(c) PROVE FALSE
  BY <1>5 DEF LoseRequest
<1>6. UNCHANGED budget \/ (\E s \in Stages : CronWrite(s)) \/ RestartService
  BY <1>4, <1>5
  DEF Next, vars, OpenRequest, RequestStep, RetryRequest, Busy, Launch, CommitRequest,
      WorkerStep, BeginWork, CrashBeforeWork, FinishWork, BeginPersist, Persist,
      PersistConflict, Delete
<1> QED BY <1>1, <1>2, <1>3, <1>4, <1>5, <1>6

LEMMA OwnedStep ==
  ASSUME Always, Owned, [Next]_vars, Undisturbed'
  PROVE  Owned'
<1>1. CASE UNCHANGED vars
  BY <1>1
  DEF vars, Owned, Owner, ExclusiveOperation, OutcomeBelongsToLabel, Live, Running
<1>2. (\A p \in Procs : ~ReloadRegistry(p)) /\ (\A c \in Ops : ~LoseRequest(c))
  BY StaysCounted DEF Always
<1>3. ASSUME NEW c \in Ops, RequestStep(c) PROVE Owned'
  BY <1>2, <1>3, RetryRequestOwned, BusyOwned, LaunchOwned, CommitRequestOwned DEF RequestStep
<1>4. ASSUME NEW c \in Ops, WorkerStep(c) PROVE Owned'
  BY <1>4, BeginWorkOwned, CrashBeforeWorkOwned, FinishWorkOwned, BeginPersistOwned,
     PersistOwned, PersistConflictOwned
  DEF WorkerStep
<1> QED
  BY <1>1, <1>2, <1>3, <1>4, OpenRequestOwned, CronWriteOwned, DeleteOwned, RestartOwned
  DEF Next

LEMMA InvHolds == Spec => []Inv
<1>1. Init => Inv
  BY InitInv
<1>2. Inv /\ [Next]_vars => Inv'
  BY AlwaysStep, OwnedStep, StaysCounted DEF Inv, Always
<1> QED BY <1>1, <1>2, PTL DEF Spec

-----------------------------------------------------------------------------
\* Type correctness of the operation runner, whatever is reloaded or lost.
THEOREM TypeCorrect == Spec => []TypeOK
<1>1. Inv => TypeOK
  BY DEF Inv, Always
<1> QED BY <1>1, InvHolds, PTL

\* A stage that shows 'running' has a living thread under its label, or a line
\* in the log says that it has not: also when processes reload alone and
\* launched requests are lost.
THEOREM NoSilentPhantom == Spec => []StuckIsReported
<1>1. Inv => StuckIsReported
  BY DEF Inv, Always
<1> QED BY <1>1, InvHolds, PTL

\* An operation that was answered is not shown 'running' by the late commit of
\* its own request, whatever is reloaded or lost.
THEOREM AnsweredIsOver == Spec => []ToldIsNotRunning
<1>1. Inv => ToldIsNotRunning
  BY DEF Inv, Always
<1> QED BY <1>1, InvHolds, PTL

\* No two live operations on one instance: the promise of the guard in _run_bg,
\* until a process loads the registry next to a living one or a request is
\* lost after its launch.
THEOREM Exclusive == Spec => [](Undisturbed => ExclusiveOperation)
<1>1. Inv => (Undisturbed => ExclusiveOperation)
  BY DEF Inv, Owned
<1> QED BY <1>1, InvHolds, PTL

\* Label and outcome on a stage are of one operation, under the same condition.
THEOREM OutcomesConsistent == Spec => [](Undisturbed => OutcomeBelongsToLabel)
<1>1. Inv => (Undisturbed => OutcomeBelongsToLabel)
  BY DEF Inv, Owned
<1> QED BY <1>1, InvHolds, PTL

\* Only these actions write op_state, and the hook only among them when nothing
\* disturbs.
LEMMA RowStep ==
  ASSUME Always, [Next]_vars, Undisturbed', row' # row
  PROVE  \/ \E c \in Ops : CommitRequest(c) \/ Persist(c)
         \/ \E s \in Stages : Delete(s)
         \/ RestartService
<1>1. \A p \in Procs : ~ReloadRegistry(p)
  BY StaysCounted DEF Always
<1> QED
  BY <1>1
  DEF Next, vars, OpenRequest, RequestStep, RetryRequest, Busy, Launch, LoseRequest,
      WorkerStep, BeginWork, CrashBeforeWork, FinishWork, BeginPersist, PersistConflict,
      RetryPersist, GiveUp, CronWrite

\* A final outcome stays until the next operation on the instance starts, in a
\* behaviour that nothing disturbs.
THEOREM FinalStays == Spec /\ []Undisturbed => FinalUntilNextOperation
<1> DEFINE Stays == \A s \in Stages :
       row[s].op_state \in {"done", "failed"} /\ row'[s].exists /\ row'[s] # row[s]
         => row'[s].op_state = "running" /\ row'[s].label # row[s].label
<1>1. ASSUME Inv, Undisturbed, Undisturbed', [Next]_vars PROVE [Stays]_vars
  <2> SUFFICES ASSUME NEW s \in Stages, row[s].op_state \in {"done", "failed"},
                      row'[s].exists, row'[s] # row[s]
               PROVE  row'[s].op_state = "running" /\ row'[s].label # row[s].label
    OBVIOUS
  <2>1. ASSUME NEW c \in Ops, CommitRequest(c)
        PROVE  row'[s].op_state = "running" /\ row'[s].label # row[s].label
    <3>1. target[c] = s /\ row'[s] = Shows("running", c, None) /\ req[c] = "locked"
      BY <1>1, <2>1 DEF CommitRequest
    <3>2. row[s].label # c
      BY <1>1, <3>1, StageOpsAssumption DEF Inv, Always, LabelCommitted
    <3> QED BY <3>1, <3>2 DEF Shows
  <2>2. ASSUME NEW c \in Ops, Persist(c) PROVE FALSE
    <3>1. target[c] = s /\ row[s].exists /\ Live(c) /\ lock[s] = None
      BY <1>1, <2>2 DEF Inv, Always, TypeOK, Persist, Live, LiveWorker
    <3> QED BY <1>1, <3>1, StageOpsAssumption DEF Inv, Owned, Owner, Running
  <2>3. ASSUME NEW t \in Stages, Delete(t) PROVE FALSE
    BY <1>1, <2>3 DEF Delete, Deleted
  <2>4. ASSUME RestartService PROVE FALSE
    BY <1>1, <2>4 DEF RestartService, RegisterHook, Running
  <2> QED BY <1>1, <2>1, <2>2, <2>3, <2>4, RowStep DEF Inv
<1> QED BY <1>1, InvHolds, PTL DEF Spec, FinalUntilNextOperation

-----------------------------------------------------------------------------
(* The side effect.  This needs none of the above: a process that dies     *)
(* takes the thread with it.                                               *)

\* A thread that has not finished phase 1 has had no effect, one past it has
\* had its effect once unless phase 1 crashed before it, and no thread starts
\* twice.
Counted ==
  \A c \in Ops :
    /\ req[c] \in {"unborn", "open"} => worker[c] = "none"
    /\ runs[c] \in {0, 1}
    /\ worker[c] \in {"none", "started", "working", "gone"} => runs[c] = 0
    /\ worker[c] \in {"worked", "persisting", "told", "gave_up"} /\ result[c] = "done" =>
         runs[c] = 1

Threads ==
  /\ req \in [Ops -> Request] /\ worker \in [Ops -> Worker] /\ runs \in [Ops -> Nat]
  /\ result \in [Ops -> {"none", "done", "failed"}]
  /\ Counted

LEMMA KillCounted ==
  ASSUME Threads, NEW D, Kill(D), UNCHANGED <<runs, result>>
  PROVE  Threads'
<1>1. \A c \in Ops : /\ req'[c] = IF LiveReq(c) /\ home[c] \in D THEN "ended" ELSE req[c]
                     /\ worker'[c] = IF Live(c) /\ home[c] \in D THEN "killed" ELSE worker[c]
  BY DEF Kill
<1>2. req' \in [Ops -> Request] /\ worker' \in [Ops -> Worker]
  BY DEF Kill, Threads, Request, Worker
<1>3. Counted'
  BY <1>1 DEF Threads, Counted, Live, LiveWorker
<1> QED
  BY <1>2, <1>3 DEF Threads

LEMMA ThreadsStep == Threads /\ [Next]_vars => Threads'
<1> SUFFICES ASSUME Threads, [Next]_vars PROVE Threads'
  OBVIOUS
<1> USE DEF Threads, Counted
<1>1. ASSUME NEW c \in Ops, NEW s \in Stages, NEW p \in Procs, OpenRequest(c, s, p) PROVE Threads'
  BY <1>1 DEF OpenRequest, Request
<1>2. ASSUME NEW c \in Ops, RequestStep(c) PROVE Threads'
  <2>1. CASE RetryRequest(c) \/ Busy(c)
    BY <2>1 DEF RetryRequest, Busy, Request
  <2>2. CASE Launch(c)
    BY <2>2 DEF Launch, Request, Worker, LiveWorker
  <2>3. CASE CommitRequest(c) \/ LoseRequest(c)
    BY <2>3 DEF CommitRequest, LoseRequest, Request
  <2> QED
    BY <1>2, <2>1, <2>2, <2>3 DEF RequestStep
<1>3. ASSUME NEW c \in Ops, WorkerStep(c) PROVE Threads'
  <2>1. CASE BeginWork(c) \/ BeginPersist(c) \/ Persist(c)
    BY <2>1 DEF BeginWork, BeginPersist, Persist, Worker, LiveWorker
  <2>2. CASE FinishWork(c) \/ CrashBeforeWork(c)
    BY <2>2 DEF FinishWork, CrashBeforeWork, Worker, LiveWorker
  <2>3. CASE PersistConflict(c)
    BY <2>3 DEF PersistConflict, RetryPersist, GiveUp, Worker, LiveWorker
  <2> QED
    BY <1>3, <2>1, <2>2, <2>3 DEF WorkerStep
<1>4. CASE \E s \in Stages : CronWrite(s) \/ Delete(s)
  BY <1>4 DEF CronWrite, Delete
<1>5. CASE RestartService
  BY <1>5, KillCounted DEF RestartService
<1>6. ASSUME NEW p \in Procs, ReloadRegistry(p) PROVE Threads'
  BY <1>6, KillCounted DEF ReloadRegistry
<1>7. CASE UNCHANGED vars
  BY <1>7 DEF vars
<1> QED
  BY <1>1, <1>2, <1>3, <1>4, <1>5, <1>6, <1>7 DEF Next

\* Phase 2 may be retried, phase 1 may crash and processes may die: the work of
\* an operation is done at most once, and was done when the user is told "done".
THEOREM WorkIsDoneOnce == Spec => []WorkRunsOnce
<1>1. Init => Threads
  BY DEF Init, Threads, Counted, Request, Worker
<1>2. Threads => WorkRunsOnce
  BY DEF Threads, Counted, WorkRunsOnce
<1> QED
  BY <1>1, <1>2, ThreadsStep, PTL DEF Spec

-----------------------------------------------------------------------------
(* The runner implements OpSlot, for any number of stages, operations and  *)
(* processes.  A stage is held by the set of its live threads; the         *)
(* invariant makes that set a singleton whose member owns the row, as long *)
(* as nothing disturbs.                                                    *)

Holder == [s \in Stages |-> {c \in Ops : Live(c) /\ target[c] = s}]
Used   == {c \in Ops : worker[c] # "none"}

Calm == Always /\ Owned

-----------------------------------------------------------------------------
LEMMA InitRefines == Init => Slot!Init
BY DEF Init, Slot!Init, Slot!Idle, NewRow, Live, LiveWorker

\* A step that no thread, row or log line can see is a stutter of the slots.
LEMMA Unseen ==
  ASSUME UNCHANGED <<row, reported, target>>, \A c \in Ops : worker'[c] = worker[c]
  PROVE  UNCHANGED Slot!slots
BY DEF Slot!slots, Live

\* So is a step of a thread that stays alive.
LEMMA StaysAlive ==
  ASSUME Calm, NEW c \in Ops, Live(c), NEW w \in LiveWorker, worker' = [worker EXCEPT ![c] = w],
         UNCHANGED <<row, reported, target>>
  PROVE  UNCHANGED Slot!slots
<1>1. \A d \in Ops : (Live(d)' <=> Live(d)) /\ (worker'[d] # "none" <=> worker[d] # "none")
  BY DEF Calm, Always, Owned, TypeOK, Live, LiveWorker
<1> QED BY <1>1 DEF Slot!slots

\* The live thread of an operation is the only holder of its stage.
LEMMA SoleHolder ==
  ASSUME Calm, NEW c \in Ops, Live(c)
  PROVE  /\ target[c] \in Stages
         /\ {d \in Ops : Live(d) /\ target[d] = target[c]} = {c}
<1>1. target[c] \in Stages
  BY DEF Calm, Always, Owned, Lifecycle, Live, LiveWorker, TypeOK, Request
<1> QED BY <1>1 DEF Calm, Always, Owned, ExclusiveOperation

\* When that thread ends, its stage is free and every other one as before.
LEMMA Frees ==
  ASSUME Calm, NEW c \in Ops, Live(c), NEW w \in {"told", "gone", "gave_up"},
         worker' = [worker EXCEPT ![c] = w], UNCHANGED target
  PROVE  /\ Holder' = [Holder EXCEPT ![target[c]] = {}]
         /\ Used' = Used
<1>1. \A d \in Ops : (Live(d)' <=> Live(d) /\ d # c) /\ (worker'[d] # "none" <=> worker[d] # "none")
  BY DEF Calm, Always, Owned, TypeOK, Live, LiveWorker
<1>2. target[c] \in Stages /\ \A d \in Ops : Live(d) /\ target[d] = target[c] => d = c
  BY SoleHolder
<1> QED BY <1>1, <1>2 DEF Holder, Used

LEMMA LaunchRefines ==
  ASSUME Calm, NEW c \in Ops, Launch(c)
  PROVE  Slot!Acquire(target[c], c)
<1> DEFINE s == target[c]
<1>1. s \in Stages /\ worker[c] = "none" /\ row[s].exists /\ row[s].op_state # "running"
  BY DEF Calm, Always, Owned, Lifecycle, FreshSeesStage, Launch
<1>2. \A d \in Ops : Live(d) => target[d] # s
  BY <1>1, StageOpsAssumption DEF Calm, Always, Owned, Owner, Launch, Running
<1>3. \A d \in Ops : /\ Live(d)' <=> Live(d) \/ d = c
                     /\ worker'[d] # "none" <=> worker[d] # "none" \/ d = c
                     /\ target'[d] = target[d]
  BY DEF Calm, Always, Owned, TypeOK, Launch, Live, LiveWorker
<1>4. Holder[s] = {} /\ Holder' = [Holder EXCEPT ![s] = {c}]
  BY <1>1, <1>2, <1>3 DEF Holder
<1>5. c \notin Used /\ Used' = Used \union {c}
  BY <1>1, <1>3 DEF Used
<1>6. UNCHANGED <<row, reported>>
  BY DEF Launch
<1> QED BY <1>1, <1>4, <1>5, <1>6 DEF Slot!Acquire, Slot!ShownRunning, Holder, Used

LEMMA CommitRefines ==
  ASSUME Calm, NEW c \in Ops, CommitRequest(c)
  PROVE  Slot!Announce(target[c], c)
<1> DEFINE s == target[c]
<1>1. Live(c) /\ lock[s] = c /\ s \in Stages
  BY DEF Calm, Always, Owned, Lifecycle, LockHeld, LockedIsLive, CommitRequest
<1>2. row[s].exists /\ row[s].op_state # "running"
  BY <1>1, StageOpsAssumption DEF Calm, Always, Owned, LockHeld
<1>3. Holder[s] = {c}
  BY <1>1, SoleHolder DEF Holder
<1>4. row' = [row EXCEPT ![s] = Slot!AtWork(c)]
  BY DEF CommitRequest, Shows, Slot!AtWork
<1>5. UNCHANGED <<worker, target, reported>>
  BY DEF CommitRequest
<1>6. Holder' = Holder /\ Used' = Used
  BY <1>5 DEF Holder, Used, Live
<1> QED BY <1>2, <1>3, <1>4, <1>5, <1>6 DEF Slot!Announce, Slot!ShownRunning, Holder, Used

LEMMA BeginWorkRefines ==
  ASSUME Calm, NEW c \in Ops, BeginWork(c)
  PROVE  Slot!Leave(target[c]) \/ UNCHANGED Slot!slots
<1>1. Live(c) /\ target[c] \in Stages /\ UNCHANGED <<row, reported, target>>
  BY SoleHolder DEF BeginWork, Live, LiveWorker
<1>2. CASE row[target[c]].exists
  BY <1>1, <1>2, StaysAlive DEF BeginWork, LiveWorker
<1>3. CASE ~row[target[c]].exists
  <2>1. Holder' = [Holder EXCEPT ![target[c]] = {}] /\ Used' = Used
    BY <1>1, <1>3, Frees DEF BeginWork
  <2> QED BY <1>1, <1>3, <2>1 DEF Slot!Leave, Holder, Used
<1> QED BY <1>2, <1>3

LEMMA PersistRefines ==
  ASSUME Calm, NEW c \in Ops, Persist(c)
  PROVE  \/ \E r \in {"done", "failed"} : Slot!Conclude(target[c], c, r)
         \/ Slot!Leave(target[c])
<1> DEFINE s == target[c]
<1>1. Live(c) /\ s \in Stages /\ lock[s] = None /\ result[c] \in {"done", "failed"}
  BY SoleHolder DEF Calm, Always, Owned, TypeOK, OutcomeKnown, Persist, Live, LiveWorker
<1>2. Holder' = [Holder EXCEPT ![s] = {}] /\ Used' = Used
  BY <1>1, Frees DEF Persist
<1>3. CASE row[s].exists
  <2>1. row[s].op_state = "running" /\ row[s].label = c
    BY <1>1, <1>3, StageOpsAssumption DEF Calm, Always, Owned, Owner, Running
  <2>2. row[s] \in Row
    BY <1>1 DEF Calm, Always, Owned, TypeOK
  <2>3. row[s].shown = None
    BY <1>1, <1>3, <2>1 DEF Calm, Always, RunningShowsNothing, Running
  <2>4. row[s] = Slot!AtWork(c)
    BY <1>3, <2>1, <2>2, <2>3 DEF Row, Slot!AtWork
  <2>5. row' = [row EXCEPT ![s] = Slot!Ended(c, result[c])] /\ UNCHANGED reported
    BY <1>3, <2>1 DEF Persist, Shows, Slot!Ended
  <2>6. Holder[s] = {c}
    BY <1>1, SoleHolder DEF Holder
  <2> QED BY <1>1, <1>2, <2>4, <2>5, <2>6 DEF Slot!Conclude, Holder, Used
<1>4. CASE ~row[s].exists
  BY <1>2, <1>4 DEF Persist, Slot!Leave, Holder, Used
<1> QED BY <1>3, <1>4

LEMMA PersistConflictRefines ==
  ASSUME Calm, NEW c \in Ops, PersistConflict(c)
  PROVE  Slot!Leave(target[c]) \/ UNCHANGED Slot!slots
<1>1. Live(c) /\ target[c] \in Stages /\ UNCHANGED <<row, target>>
  BY SoleHolder DEF PersistConflict, Live, LiveWorker
<1>2. CASE RetryPersist(c)
  BY <1>1, <1>2, StaysAlive DEF RetryPersist, LiveWorker
<1>3. CASE GiveUp(c)
  <2>1. Holder' = [Holder EXCEPT ![target[c]] = {}] /\ Used' = Used
    BY <1>1, <1>3, Frees DEF GiveUp
  <2> QED BY <1>1, <1>3, <2>1 DEF GiveUp, Slot!Leave, Holder, Used
<1> QED BY <1>2, <1>3 DEF PersistConflict

LEMMA DeleteRefines ==
  ASSUME NEW s \in Stages, Delete(s)
  PROVE  Slot!Remove(s)
BY DEF Delete, Deleted, Slot!Remove, Slot!Idle, Live

LEMMA RestartRefines ==
  ASSUME Calm, RestartService
  PROVE  Slot!Restart
<1>1. worker' = [c \in Ops |-> IF Live(c) /\ home[c] \in Procs THEN "killed" ELSE worker[c]]
  BY DEF RestartService, Kill
<1>2. \A c \in Ops : /\ worker'[c] \notin LiveWorker
                     /\ worker'[c] # "none" <=> worker[c] # "none"
  BY <1>1 DEF Calm, Always, Owned, TypeOK, HasHome, Live, LiveWorker
<1>3. Holder' = [s \in Stages |-> {}] /\ Used' = Used
  BY <1>2 DEF Holder, Used, Live
<1>4. \/ /\ row' = [s \in Stages |->
                      IF Running(s) THEN Shows("failed", row[s].label, None) ELSE row[s]]
         /\ reported' = {}
      \/ /\ reported' = reported \union {s \in Stages : Running(s)}
         /\ UNCHANGED row
  BY DEF RestartService, RegisterHook
<1>5. \/ /\ row' = [s \in Stages |->
                      IF Slot!ShownRunning(s) THEN Slot!Interrupted(row[s].label) ELSE row[s]]
         /\ reported' = {}
      \/ /\ reported' = reported \union {s \in Stages : Slot!ShownRunning(s)}
         /\ UNCHANGED row
  BY <1>4 DEF Running, Shows, Slot!ShownRunning, Slot!Interrupted
<1> QED BY <1>3, <1>5 DEF Slot!Restart, Holder, Used

-----------------------------------------------------------------------------
LEMMA StepRefines ==
  ASSUME Calm, [Next]_vars, Undisturbed'
  PROVE  [Slot!Next]_(Slot!slots)
<1>1. CASE UNCHANGED vars
  BY <1>1, Unseen DEF vars
<1>2. (\A p \in Procs : ~ReloadRegistry(p)) /\ (\A c \in Ops : ~LoseRequest(c))
  BY StaysCounted DEF Calm, Always
<1>3. ASSUME NEW c \in Ops, NEW s \in Stages, NEW p \in Procs, OpenRequest(c, s, p)
      PROVE  UNCHANGED Slot!slots
  <2>1. worker[c] = "none" /\ UNCHANGED <<worker, row, reported>>
    BY <1>3 DEF Calm, Always, Owned, Lifecycle, OpenRequest
  <2>2. \A d \in Ops : Live(d) => target'[d] = target[d]
    BY <1>3, <2>1 DEF Calm, Always, Owned, TypeOK, OpenRequest, Live, LiveWorker
  <2> QED BY <2>1, <2>2 DEF Slot!slots, Live
<1>4. ASSUME NEW c \in Ops, RetryRequest(c) \/ Busy(c) PROVE UNCHANGED Slot!slots
  BY <1>4, Unseen DEF RetryRequest, Busy
<1>5. ASSUME NEW c \in Ops, Launch(c) \/ CommitRequest(c) PROVE Slot!Next
  <2>1. target[c] \in Stages
    BY <1>5 DEF Calm, Always, Owned, Lifecycle, Launch, CommitRequest
  <2>2. Slot!Acquire(target[c], c) \/ Slot!Announce(target[c], c)
    BY <1>5, LaunchRefines, CommitRefines
  <2> QED BY <2>1, <2>2 DEF Slot!Next, Slot!Acquire, Slot!Announce
<1>6. ASSUME NEW c \in Ops, FinishWork(c) \/ CrashBeforeWork(c) \/ BeginPersist(c)
      PROVE  UNCHANGED Slot!slots
  <2>1. CASE FinishWork(c)
    BY <2>1, StaysAlive DEF FinishWork, Live, LiveWorker
  <2>2. CASE BeginPersist(c)
    BY <2>2, StaysAlive DEF BeginPersist, Live, LiveWorker
  <2>3. CASE CrashBeforeWork(c)
    BY <2>3, StaysAlive DEF CrashBeforeWork, Live, LiveWorker
  <2> QED BY <1>6, <2>1, <2>2, <2>3
<1>7. ASSUME NEW c \in Ops, BeginWork(c) \/ Persist(c) \/ PersistConflict(c)
      PROVE  Slot!Next \/ UNCHANGED Slot!slots
  <2>1. target[c] \in Stages
    BY <1>7, SoleHolder DEF BeginWork, Persist, PersistConflict, Live, LiveWorker
  <2>2. \/ \E r \in {"done", "failed"} : Slot!Conclude(target[c], c, r)
        \/ Slot!Leave(target[c])
        \/ UNCHANGED Slot!slots
    BY <1>7, BeginWorkRefines, PersistRefines, PersistConflictRefines
  <2> QED BY <2>1, <2>2 DEF Slot!Next, Slot!Conclude, Slot!Leave
<1>8. ASSUME NEW s \in Stages, CronWrite(s) PROVE UNCHANGED Slot!slots
  BY <1>8, Unseen DEF CronWrite
<1>9. ASSUME NEW s \in Stages, Delete(s) PROVE Slot!Next
  BY <1>9, DeleteRefines DEF Slot!Next
<1>10. ASSUME RestartService PROVE Slot!Next
  BY <1>10, RestartRefines DEF Slot!Next
<1> QED
  BY <1>1, <1>2, <1>3, <1>4, <1>5, <1>6, <1>7, <1>8, <1>9, <1>10
  DEF Next, RequestStep, WorkerStep

\* The runner of one-instance operations, with its locks, snapshots, retries,
\* threads and restarts of the service, implements the one-slot promise in
\* every behaviour that nothing disturbs.
THEOREM Implements == Spec /\ []Undisturbed => ImplementsOpSlot
<1>1. Inv /\ Undisturbed /\ Undisturbed' /\ [Next]_vars => [Slot!Next]_(Slot!slots)
  BY StepRefines DEF Inv, Calm
<1> QED BY <1>1, InitRefines, InvHolds, PTL DEF Spec, Slot!Spec, ImplementsOpSlot

=============================================================================
