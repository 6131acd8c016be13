------------------------ MODULE BackupFreshnessProofs ------------------------
(***************************************************************************)
(* Proofs about BackupFreshness for any server, database lists, clock grid *)
(* and freshness windows.  A stamp bounds the age of the backups it stands *)
(* for from the moment it is written, and time preserves the bound because *)
(* stamps and objects age together.                                        *)
(***************************************************************************)
EXTENDS BackupFreshness, TLAPS

\* A stamp that is not too old yet is at most DailyAge younger than the objects
\* of the databases it was given for.
StampBounds ==
  \A s \in Stages : \A d \in covered[s] : stamp[s] <= MaxAge => object[d] <= stamp[s] + DailyAge

Inv == TypeOK /\ StampBounds

-----------------------------------------------------------------------------
LEMMA MaxOfTwo ==
  ASSUME NEW x \in Nat, NEW y \in Nat
  PROVE  Max({x, y}) = IF x >= y THEN x ELSE y
BY SMT DEF Max

LEMMA MinOfTwo ==
  ASSUME NEW x \in Nat, NEW y \in Nat
  PROVE  Min({x, y}) = IF x <= y THEN x ELSE y
BY SMT DEF Min

\* The windows are numbers of hours, the daily one the shorter.
LEMMA Windows ==
  /\ MaxAge \in Nat /\ MaxAge >= 24
  /\ DailyAge \in Nat /\ DailyAge >= 1 /\ DailyAge <= MaxAge - 4
<1>1. MaxAge \in Nat /\ MaxAge >= 24
  BY MaxOfTwo, FreshnessAssumption DEF MaxAge
<1>2. Min({DailyAgeParam, MaxAge - 4}) \in Nat /\ Min({DailyAgeParam, MaxAge - 4}) <= MaxAge - 4
  BY <1>1, MinOfTwo, FreshnessAssumption
<1>3. DailyAge = IF 1 >= Min({DailyAgeParam, MaxAge - 4}) THEN 1 ELSE Min({DailyAgeParam, MaxAge - 4})
  BY <1>2, MaxOfTwo DEF DailyAge
<1> QED BY <1>1, <1>2, <1>3

\* One tick of the clock on an age.
LEMMA Ageing ==
  ASSUME NEW x \in Ages
  PROVE  /\ Older(x) \in Ages
         /\ Older(x) <= x + TickHours
         /\ Older(x) <= MaxAge => Older(x) = x + TickHours
BY Windows, MinOfTwo, FreshnessAssumption DEF Ages, Old, Older

LEMMA UploadedAges ==
  ASSUME TypeOK, NEW S
  PROVE  Uploaded(S) \in [DBs -> Ages] /\ \A d \in DBs : Uploaded(S)[d] <= object[d]
BY Windows, FreshnessAssumption DEF TypeOK, Uploaded, Ages, Old

-----------------------------------------------------------------------------
LEMMA InitInv == Init => Inv
<1> SUFFICES ASSUME Init PROVE Inv
  OBVIOUS
<1>1. Old \in Ages /\ 0 \in 0..MaxDelay
  BY Windows, FreshnessAssumption DEF Ages, Old
<1>2. TypeOK
  BY <1>1, FreshnessAssumption DEF Init, TypeOK
<1>3. StampBounds
  BY DEF Init, StampBounds
<1> QED BY <1>2, <1>3 DEF Inv

\* Stamping writes the age `age` for instances whose objects are fresh now, and
\* so does not break the bound, whatever the lists are.
LEMMA Stamping ==
  ASSUME Inv, NEW lists \in [Stages -> SUBSET DBs], NEW age \in Ages, NEW hostAge \in Ages,
         object' \in [DBs -> Ages], \A d \in DBs : object'[d] <= object[d],
         StampAll(lists, object', age, hostAge)
  PROVE  /\ stamp' \in [Stages -> Ages] /\ hostStamp' \in Ages
         /\ review' \in [Stages -> BOOLEAN] /\ hostReview' \in BOOLEAN
         /\ covered' \in [Stages -> SUBSET DBs]
         /\ StampBounds'
<1> DEFINE fresh == {s \in Expecting(lists) : AllFresh(s, lists, object')}
<1>1. /\ stamp' = [s \in Stages |-> IF s \in fresh THEN age ELSE stamp[s]]
      /\ covered' = [s \in Stages |-> IF s \in fresh THEN lists[s] ELSE covered[s]]
      /\ review' = [s \in Stages |-> IF s \in Expecting(lists) THEN s \notin fresh ELSE review[s]]
      /\ hostReview' = (fresh # Expecting(lists))
      /\ hostStamp' = IF fresh = Expecting(lists) THEN age ELSE hostAge
  BY DEF StampAll
<1>2. \A s \in fresh : \A d \in lists[s] : object'[d] <= DailyAge
  BY DEF AllFresh
<1>3. stamp' \in [Stages -> Ages] /\ covered' \in [Stages -> SUBSET DBs]
  BY <1>1 DEF Inv, TypeOK
<1>4. review' \in [Stages -> BOOLEAN] /\ hostReview' \in BOOLEAN /\ hostStamp' \in Ages
  BY <1>1 DEF Inv, TypeOK
<1>5. ASSUME NEW s \in Stages, NEW d \in covered'[s], stamp'[s] <= MaxAge
      PROVE  object'[d] <= stamp'[s] + DailyAge
  <2>1. d \in DBs
    BY <1>3
  <2>2. CASE s \in fresh
    BY <1>1, <1>2, <1>3, <2>1, <2>2, Windows DEF Ages, Old
  <2>3. CASE s \notin fresh
    BY <1>1, <1>5, <2>1, <2>3, Windows DEF Inv, TypeOK, StampBounds, Ages, Old
  <2> QED BY <2>2, <2>3
<1> QED BY <1>3, <1>4, <1>5 DEF StampBounds

\* Whoever leaves the stamps alone and does not let objects grow older keeps
\* the bound.
LEMMA Unstamped ==
  ASSUME Inv, UNCHANGED <<stamp, covered>>,
         object' \in [DBs -> Ages], \A d \in DBs : object'[d] <= object[d]
  PROVE  StampBounds'
BY Windows DEF Inv, TypeOK, StampBounds, Ages, Old

\* Reconciliation, with or without an instance that expects a backup.
LEMMA Reconciling ==
  ASSUME Inv, NEW lists \in [Stages -> SUBSET DBs], NEW hostAge \in Ages,
         object' \in [DBs -> Ages], \A d \in DBs : object'[d] <= object[d],
         Reconcile(lists, object', hostAge)
  PROVE  /\ stamp' \in [Stages -> Ages] /\ hostStamp' \in Ages
         /\ review' \in [Stages -> BOOLEAN] /\ hostReview' \in BOOLEAN
         /\ covered' \in [Stages -> SUBSET DBs]
         /\ StampBounds'
<1>1. CASE NothingExpected(hostAge)
  BY <1>1, Unstamped DEF NothingExpected, Inv, TypeOK
<1>2. CASE StampAll(lists, object', 0, hostAge)
  BY <1>2, Stamping, Windows, FreshnessAssumption DEF Ages, Old
<1> QED BY <1>1, <1>2 DEF Reconcile

LEMMA SmallAges == 0 \in Ages /\ 0..MaxDelay \subseteq Ages
BY Windows, FreshnessAssumption DEF Ages, Old

LEMMA DailyBackupStep == ASSUME Inv, DailyBackup PROVE Inv'
<1> DEFINE Outcome(lists, S) ==
      /\ object' = Uploaded(S)
      /\ \/ dbs' = lists /\ Reconcile(lists, object', RunStamp(S))
         \/ dbs' = lists /\ hostStamp' = RunStamp(S)
            /\ UNCHANGED <<stamp, review, hostReview, covered>>
         \/ UNCHANGED <<dbs, stamp, hostStamp, review, hostReview, covered>>
<1> PICK lists \in Lists : \E S \in SUBSET Targets(lists) : Outcome(lists, S)
  BY DEF DailyBackup
<1>1. PICK S \in SUBSET Targets(lists) : Outcome(lists, S)
  OBVIOUS
<1>2. UNCHANGED <<hour, agent, verify, elapsed, confirmed>>
  BY DEF DailyBackup
<1>3. object' \in [DBs -> Ages] /\ \A d \in DBs : object'[d] <= object[d]
  BY <1>1, UploadedAges DEF Inv
<1>4. lists \in [Stages -> SUBSET DBs] /\ RunStamp(S) \in Ages
  BY FreshnessAssumption, SmallAges DEF RunStamp, Inv, TypeOK
<1>5. CASE dbs' = lists /\ Reconcile(lists, object', RunStamp(S))
  BY <1>2, <1>3, <1>4, <1>5, Reconciling DEF Inv, TypeOK
<1>6. CASE dbs' = lists /\ hostStamp' = RunStamp(S) /\ UNCHANGED <<stamp, review, hostReview, covered>>
  BY <1>2, <1>3, <1>4, <1>6, Unstamped DEF Inv, TypeOK
<1>7. CASE UNCHANGED <<dbs, stamp, hostStamp, review, hostReview, covered>>
  BY <1>2, <1>3, <1>7, Unstamped DEF Inv, TypeOK
<1> QED BY <1>1, <1>5, <1>6, <1>7

LEMMA AgentStep == ASSUME Inv, DeployAgent \/ AgentUpload \/ AgentReport PROVE Inv'
<1>1. CASE DeployAgent
  BY <1>1 DEF DeployAgent, Inv, TypeOK, StampBounds
<1>2. CASE AgentUpload
  <2>1. PICK S \in SUBSET Targets(dbs) : object' = Uploaded(S)
    BY <1>2 DEF AgentUpload
  <2>2. object' \in [DBs -> Ages] /\ \A d \in DBs : object'[d] <= object[d]
    BY <2>1, UploadedAges DEF Inv
  <2> QED BY <1>2, <2>2, Unstamped DEF AgentUpload, Inv, TypeOK
<1>3. CASE AgentReport
  <2>1. object' = object /\ \A d \in DBs : object'[d] <= object[d]
    BY <1>3 DEF AgentReport, Inv, TypeOK, Ages, Old
  <2>2. CASE Reconcile(dbs, object, hostStamp)
    BY <1>3, <2>1, <2>2, Reconciling DEF AgentReport, Inv, TypeOK
  <2>3. CASE UNCHANGED <<stamp, hostStamp, review, hostReview, covered>>
    BY <1>3, <2>1, <2>3, Unstamped DEF AgentReport, Inv, TypeOK
  <2> QED BY <1>3, <2>2, <2>3 DEF AgentReport
<1> QED BY <1>1, <1>2, <1>3

LEMMA RunBackupNowStep == ASSUME Inv, RunBackupNow PROVE Inv'
<1>1. PICK S \in SUBSET Targets(dbs) : object' = Uploaded(S) /\ hostStamp' \in {RunStamp(S), hostStamp}
  BY DEF RunBackupNow
<1>2. object' \in [DBs -> Ages] /\ \A d \in DBs : object'[d] <= object[d]
  BY <1>1, UploadedAges DEF Inv
<1>3. hostStamp' \in Ages
  BY <1>1, SmallAges DEF RunStamp, Inv, TypeOK
<1> QED BY <1>2, <1>3, Unstamped DEF RunBackupNow, Inv, TypeOK

LEMMA VerifyStep == ASSUME Inv, Verify PROVE Inv'
<1>1. CASE VerifyFallback
  <2>1. PICK S \in SUBSET StaleDbs : object' = Uploaded(S)
    BY <1>1 DEF VerifyFallback
  <2>2. object' \in [DBs -> Ages] /\ \A d \in DBs : object'[d] <= object[d]
    BY <2>1, UploadedAges DEF Inv
  <2> QED BY <1>1, <2>2, Unstamped DEF VerifyFallback, Inv, TypeOK
<1>2. CASE VerifyFresh \/ VerifyAfterFallback
  <2>1. /\ UNCHANGED <<hour, object, dbs, agent>>
        /\ \E done : EndPass(done) /\ done \in {{}, FreshNow}
    BY <1>2 DEF VerifyFresh, VerifyAfterFallback
  <2>2. FreshNow \subseteq Stages
    BY DEF FreshNow, Expecting
  <2>3. verify' = "idle" /\ elapsed' \in 0..MaxDelay /\ confirmed' \subseteq Stages
    BY <2>1, <2>2, FreshnessAssumption DEF EndPass
  <2>4. object' \in [DBs -> Ages] /\ \A d \in DBs : object'[d] <= object[d]
    BY <2>1 DEF Inv, TypeOK, Ages, Old
  <2>5. elapsed \in Ages /\ hostStamp \in Ages /\ dbs \in [Stages -> SUBSET DBs]
    BY SmallAges DEF Inv, TypeOK
  <2>6. \/ StampAll(dbs, object', elapsed, hostStamp)
        \/ NothingExpected(hostStamp)
        \/ UNCHANGED <<stamp, hostStamp, review, hostReview, covered>>
    BY <1>2, <2>1 DEF VerifyFresh, VerifyAfterFallback
  <2>7. CASE StampAll(dbs, object', elapsed, hostStamp)
    BY <2>1, <2>3, <2>4, <2>5, <2>7, Stamping DEF Inv, TypeOK
  <2>8. CASE NothingExpected(hostStamp)
    BY <2>1, <2>3, <2>4, <2>8, Unstamped DEF NothingExpected, Inv, TypeOK
  <2>9. CASE UNCHANGED <<stamp, hostStamp, review, hostReview, covered>>
    BY <2>1, <2>3, <2>4, <2>9, Unstamped DEF Inv, TypeOK
  <2> QED BY <2>6, <2>7, <2>8, <2>9
<1> QED BY <1>1, <1>2 DEF Verify

\* Stamps and objects age by the same step, so the bound between them stays.
LEMMA TickStep == ASSUME Inv, Tick PROVE Inv'
<1>1. /\ object' = [d \in DBs |-> Older(object[d])]
      /\ stamp' = [s \in Stages |-> Older(stamp[s])]
      /\ hostStamp' = Older(hostStamp)
      /\ UNCHANGED <<dbs, review, hostReview, agent, covered, confirmed>>
  BY DEF Tick
<1>2. object' \in [DBs -> Ages] /\ stamp' \in [Stages -> Ages] /\ hostStamp' \in Ages
  BY <1>1, Ageing DEF Inv, TypeOK
<1>3. hour' \in 0..23
  BY FreshnessAssumption DEF Tick, Inv, TypeOK
<1>4. verify' \in {"idle", "due", "fallback"} /\ elapsed' \in 0..MaxDelay
  BY FreshnessAssumption DEF Tick, Inv, TypeOK
<1>5. ASSUME NEW s \in Stages, NEW d \in covered'[s], stamp'[s] <= MaxAge
      PROVE  object'[d] <= stamp'[s] + DailyAge
  <2>1. d \in DBs /\ d \in covered[s] /\ object[d] \in Ages /\ stamp[s] \in Ages
    BY <1>1 DEF Inv, TypeOK
  <2>2. object'[d] <= object[d] + TickHours /\ stamp'[s] = stamp[s] + TickHours
    BY <1>1, <1>5, <2>1, Ageing
  <2>3. stamp[s] <= MaxAge
    BY <1>5, <2>1, <2>2, Windows, FreshnessAssumption DEF Ages, Old
  <2> QED
    BY <1>2, <2>1, <2>2, <2>3, Windows, FreshnessAssumption DEF Inv, StampBounds, Ages, Old
<1> QED BY <1>1, <1>2, <1>3, <1>4, <1>5 DEF Inv, TypeOK, StampBounds

LEMMA InvHolds == Spec => []Inv
<1>1. ASSUME Inv, [Next]_vars PROVE Inv'
  <2>1. CASE UNCHANGED vars
    BY <1>1, <2>1 DEF vars, Inv, TypeOK, StampBounds
  <2>2. CASE RefreshDatabases
    BY <1>1, <2>2, FreshnessAssumption DEF RefreshDatabases, Inv, TypeOK, StampBounds
  <2> QED
    BY <1>1, <2>1, <2>2, DailyBackupStep, AgentStep, RunBackupNowStep, VerifyStep, TickStep DEF Next
<1> QED BY <1>1, InitInv, PTL DEF Spec

-----------------------------------------------------------------------------
\* Type correctness of the freshness bookkeeping.
THEOREM TypeCorrect == Spec => []TypeOK
<1>1. Inv => TypeOK
  BY DEF Inv
<1> QED BY <1>1, InvHolds, PTL

\* An instance that is not shown overdue has, for every database it had when it
\* was stamped, an object at most DailyAge older than its stamp.
THEOREM GreenIsBackedUp == Spec => []GreenMeansBackedUp
<1>1. Inv => GreenMeansBackedUp
  BY Windows DEF Inv, TypeOK, StampBounds, GreenMeansBackedUp, Expects, Overdue, Ages, Old
<1> QED BY <1>1, InvHolds, PTL

-----------------------------------------------------------------------------
(* The clock.  The hours that pass lie on a grid that the verify hour is    *)
(* on, so no day goes by without its pass (OnTheHour); while a pass is not  *)
(* done, its delay is the time since the verify hour (ClockRuns).           *)

\* Hours since the last verify hour.
Since(h) == IF h >= VerifyHour THEN h - VerifyHour ELSE h + 24 - VerifyHour

OnGrid == hour % TickHours = VerifyHour % TickHours

LEMMA OnTheHour ==
  ASSUME NEW h \in 0..23, h % TickHours = VerifyHour % TickHours
  PROVE  /\ (h + TickHours) % 24 \in 0..23
         /\ ((h + TickHours) % 24) % TickHours = VerifyHour % TickHours
         /\ Since(h) \in 0..23 /\ Since(h) + TickHours <= 24
         /\ (h + TickHours) % 24 = VerifyHour <=> Since(h) + TickHours = 24
         /\ Since(h) + TickHours < 24 => Since((h + TickHours) % 24) = Since(h) + TickHours
         /\ (h + TickHours) % 24 = IF h + TickHours < 24 THEN h + TickHours ELSE h + TickHours - 24
<1> USE FreshnessAssumption DEF Since
<1>1. TickHours \in {1, 2, 3, 4, 6, 8, 12, 24}
  <2>1. TickHours \in 1..24
    OBVIOUS
  <2>2. \A n \in {5, 7, 9, 10, 11, 13, 14, 15, 16, 17, 18, 19, 20, 21, 22, 23} : 24 % n # 0
    OBVIOUS
  <2> QED
    BY <2>1, <2>2
<1>2. CASE TickHours = 1
  BY <1>2
<1>3. CASE TickHours = 2
  BY <1>3
<1>4. CASE TickHours = 3
  BY <1>4
<1>5. CASE TickHours = 4
  BY <1>5
<1>6. CASE TickHours = 6
  BY <1>6
<1>7. CASE TickHours = 8
  BY <1>7
<1>8. CASE TickHours = 12
  BY <1>8
<1>9. CASE TickHours = 24
  BY <1>9
<1> QED
  BY <1>1, <1>2, <1>3, <1>4, <1>5, <1>6, <1>7, <1>8, <1>9

\* A pass is done with the server on the day it began.
SameDay == MaxDelay < 24

ClockRuns == OnGrid /\ (verify # "idle" => elapsed = Since(hour))

LEMMA ClockStep ==
  ASSUME SameDay, TypeOK, ClockRuns, [Next]_vars
  PROVE  ClockRuns'
<1>1. CASE UNCHANGED <<hour, verify, elapsed>>
  BY <1>1 DEF ClockRuns, OnGrid, Since
<1>2. CASE UNCHANGED hour /\ verify' = "idle"
  BY <1>2 DEF ClockRuns, OnGrid
<1>3. CASE UNCHANGED <<hour, elapsed>> /\ verify = "due"
  BY <1>3 DEF ClockRuns, OnGrid, Since
<1>4. CASE Tick
  <2>1. /\ hour' = (hour + TickHours) % 24
        /\ verify' = IF hour' = VerifyHour THEN "due" ELSE verify
        /\ elapsed' = IF verify = "idle" THEN 0 ELSE elapsed + TickHours
        /\ verify = "idle" \/ elapsed + TickHours <= MaxDelay
    BY <1>4 DEF Tick
  <2>2. /\ hour' % TickHours = VerifyHour % TickHours
        /\ Since(hour) \in 0..23 /\ Since(hour) + TickHours <= 24
        /\ hour' = VerifyHour <=> Since(hour) + TickHours = 24
        /\ Since(hour) + TickHours < 24 => Since(hour') = Since(hour) + TickHours
    BY <2>1, OnTheHour DEF TypeOK, ClockRuns, OnGrid
  <2>3. CASE verify = "idle"
    <3>1. verify' # "idle" => hour' = VerifyHour /\ elapsed' = 0
      BY <2>1, <2>3
    <3> QED
      BY <2>2, <3>1, FreshnessAssumption DEF ClockRuns, OnGrid, Since
  <2>4. CASE verify # "idle"
    <3>1. elapsed = Since(hour) /\ elapsed + TickHours < 24 /\ elapsed' = elapsed + TickHours
      BY <2>1, <2>2, <2>4, FreshnessAssumption DEF ClockRuns, SameDay
    <3> QED
      BY <2>2, <3>1 DEF ClockRuns, OnGrid, Since
  <2> QED
    BY <2>3, <2>4
<1> QED
  BY <1>1, <1>2, <1>3, <1>4
  DEF Next, Verify, RefreshDatabases, DailyBackup, DeployAgent, AgentUpload, AgentReport, RunBackupNow,
      VerifyFresh, VerifyFallback, VerifyAfterFallback, EndPass, vars

LEMMA ClockHolds == ASSUME SameDay PROVE Spec => []ClockRuns
<1>1. Init => ClockRuns
  BY FreshnessAssumption DEF Init, ClockRuns, OnGrid
<1>2. TypeOK /\ ClockRuns /\ [Next]_vars => ClockRuns'
  BY ClockStep
<1> QED
  BY <1>1, <1>2, TypeCorrect, PTL DEF Spec

-----------------------------------------------------------------------------
(* A confirmed instance was stamped with the time of the pass, or later.   *)

StampAllowed == IF verify = "idle" THEN Since(hour) ELSE 24 + elapsed
ConfirmedIsRecent == \A s \in confirmed : stamp[s] <= StampAllowed

\* Stamping makes no stamp older, except to the age it stamps with.
LEMMA StampsOnly ==
  ASSUME TypeOK, NEW lists, NEW bucket, NEW age \in Ages, NEW hostAge,
         Reconcile(lists, bucket, hostAge) \/ UNCHANGED stamp
  PROVE  \A s \in Stages : stamp'[s] = stamp[s] \/ stamp'[s] = 0
BY DEF TypeOK, Reconcile, NothingExpected, StampAll

\* Everybody but the clock and the end of a pass.
LEMMA RecentStays ==
  ASSUME TypeOK, ConfirmedIsRecent, UNCHANGED <<hour, elapsed, confirmed>>,
         (verify' = "idle") <=> (verify = "idle"),
         \A s \in Stages : stamp'[s] = stamp[s] \/ stamp'[s] = 0
  PROVE  ConfirmedIsRecent'
<1>1. hour \in 0..23 /\ elapsed \in Nat /\ Since(hour) \in Nat
  BY FreshnessAssumption DEF TypeOK, Since
<1>2. StampAllowed' = StampAllowed /\ StampAllowed \in Nat
  BY <1>1 DEF StampAllowed, Since
<1> QED
  BY <1>2 DEF TypeOK, ConfirmedIsRecent

LEMMA RecentStep ==
  ASSUME SameDay, TypeOK, TypeOK', ClockRuns, ConfirmedIsRecent, [Next]_vars
  PROVE  ConfirmedIsRecent'
<1>0. hour \in 0..23 /\ elapsed \in 0..MaxDelay /\ 0 \in Ages /\ confirmed \subseteq Stages
  BY SmallAges DEF TypeOK
<1>1. CASE UNCHANGED vars \/ RefreshDatabases \/ DeployAgent \/ AgentUpload \/ RunBackupNow \/ VerifyFallback
  <2>1. UNCHANGED <<hour, elapsed, confirmed, stamp>> /\ ((verify' = "idle") <=> (verify = "idle"))
    BY <1>1 DEF vars, RefreshDatabases, DeployAgent, AgentUpload, RunBackupNow, VerifyFallback
  <2> QED
    BY <2>1, RecentStays
<1>2. CASE DailyBackup \/ AgentReport
  <2>1. UNCHANGED <<hour, elapsed, confirmed, verify>>
    BY <1>2 DEF DailyBackup, AgentReport
  <2>2. \A s \in Stages : stamp'[s] = stamp[s] \/ stamp'[s] = 0
    <3>1. (\E lists, bucket, hostAge : Reconcile(lists, bucket, hostAge)) \/ UNCHANGED stamp
      BY <1>2 DEF DailyBackup, AgentReport
    <3> QED
      BY <1>0, <3>1, StampsOnly
  <2> QED
    BY <2>1, <2>2, RecentStays
<1>3. CASE VerifyFresh \/ VerifyAfterFallback
  <2>1. verify # "idle" /\ verify' = "idle" /\ UNCHANGED hour
    BY <1>3 DEF VerifyFresh, VerifyAfterFallback, EndPass
  <2>2. \A s \in confirmed' : stamp'[s] = elapsed
    <3>1. confirmed' = {} \/ (StampAll(dbs, object, elapsed, hostStamp) /\ confirmed' = FreshNow)
      BY <1>3 DEF VerifyFresh, VerifyAfterFallback, EndPass
    <3> QED
      BY <3>1 DEF StampAll, FreshNow, Expecting
  <2>3. elapsed = Since(hour) /\ Since(hour) \in Nat
    BY <1>0, <2>1, FreshnessAssumption DEF ClockRuns, Since
  <2> QED
    BY <2>1, <2>2, <2>3 DEF ConfirmedIsRecent, StampAllowed, Since
<1>4. CASE Tick
  <2>1. /\ hour' = (hour + TickHours) % 24 /\ confirmed' = confirmed
        /\ stamp' = [s \in Stages |-> Older(stamp[s])]
        /\ verify' = IF hour' = VerifyHour THEN "due" ELSE verify
        /\ elapsed' = IF verify = "idle" THEN 0 ELSE elapsed + TickHours
        /\ verify = "idle" \/ elapsed + TickHours <= MaxDelay
    BY <1>4 DEF Tick
  <2>2. /\ Since(hour) \in 0..23 /\ Since(hour) + TickHours <= 24
        /\ hour' = VerifyHour <=> Since(hour) + TickHours = 24
        /\ Since(hour) + TickHours < 24 => Since(hour') = Since(hour) + TickHours
    BY <2>1, <1>0, OnTheHour DEF ClockRuns, OnGrid
  <2>3. StampAllowed \in Nat /\ StampAllowed' = StampAllowed + TickHours
    <3>1. CASE verify = "idle" /\ hour' = VerifyHour
      BY <2>1, <2>2, <3>1, FreshnessAssumption DEF StampAllowed, Since
    <3>2. CASE verify = "idle" /\ hour' # VerifyHour
      BY <2>1, <2>2, <3>2, FreshnessAssumption DEF StampAllowed, Since
    <3>3. CASE verify # "idle"
      BY <1>0, <2>1, <3>3, FreshnessAssumption DEF StampAllowed
    <3> QED
      BY <3>1, <3>2, <3>3
  <2>4. ASSUME NEW s \in confirmed PROVE stamp'[s] <= stamp[s] + TickHours /\ stamp'[s] \in Nat /\ stamp[s] \in Nat
    <3>1. stamp[s] \in Ages /\ stamp'[s] = Older(stamp[s])
      BY <1>0, <2>1 DEF TypeOK
    <3> QED
      BY <3>1, Ageing, Windows, FreshnessAssumption DEF Ages, Old
  <2> QED
    BY <2>1, <2>3, <2>4, FreshnessAssumption DEF ConfirmedIsRecent
<1> QED
  BY <1>1, <1>2, <1>3, <1>4 DEF Next, Verify

\* The delay of a pass that the overdue window leaves room for.
RoomForDelay == 24 + MaxDelay <= MaxAge

\* An instance that a verify pass confirmed does not age into 'overdue' before
\* the next pass is done with it, as long as the pass is done with its server on
\* the day it began and within the hours by which the window exceeds a day.
THEOREM ConfirmedStaysGreen == SameDay /\ RoomForDelay => (Spec => []ConfirmedNotOverdue)
<1> SUFFICES ASSUME SameDay, RoomForDelay PROVE Spec => []ConfirmedNotOverdue
  OBVIOUS
<1>1. Init => ConfirmedIsRecent
  BY DEF Init, ConfirmedIsRecent
<1>2. TypeOK /\ TypeOK' /\ ClockRuns /\ ConfirmedIsRecent /\ [Next]_vars => ConfirmedIsRecent'
  BY RecentStep
<1>3. TypeOK /\ ConfirmedIsRecent => ConfirmedNotOverdue
  <2> SUFFICES ASSUME TypeOK, ConfirmedIsRecent, NEW s \in confirmed PROVE ~(stamp[s] > MaxAge)
    BY DEF ConfirmedNotOverdue, Overdue
  <2>1. hour \in 0..23 /\ elapsed \in 0..MaxDelay /\ stamp[s] \in Nat
    BY Windows, FreshnessAssumption DEF TypeOK, Ages, Old
  <2>2. StampAllowed \in Nat /\ StampAllowed <= 24 + MaxDelay
    BY <2>1, FreshnessAssumption DEF StampAllowed, Since
  <2> QED
    BY <2>1, <2>2, Windows, FreshnessAssumption DEF ConfirmedIsRecent, RoomForDelay
<1> QED
  BY <1>1, <1>2, <1>3, TypeCorrect, ClockHolds, PTL DEF Spec

-----------------------------------------------------------------------------
(* The nightly run.  Without an agent the server's stamp is the time of an  *)
(* upload, of a reconciliation at the backup hour, or of a verify pass.     *)

UploadToday == \E d \in DBs : object[d] <= hour
StampIsUpload == agent = "none" /\ hostStamp <= hour => UploadToday \/ hour - hostStamp >= BackupHour

LEMMA StampStep ==
  ASSUME BackupHour <= VerifyHour, TypeOK, TypeOK', ClockRuns, StampIsUpload, [Next]_vars
  PROVE  /\ StampIsUpload'
         /\ hour' # hour /\ hour' = BackupHour /\ agent = "none" /\ StampedToday' => UploadToday'
<1> USE FreshnessAssumption
<1>0. /\ hour \in 0..23 /\ elapsed \in Nat /\ hostStamp \in Nat /\ hostStamp' \in Nat
      /\ \A d \in DBs : object[d] \in Nat /\ object'[d] \in Nat
  BY Windows DEF TypeOK, Ages, Old
<1>1. CASE UNCHANGED <<hour, object, agent, hostStamp>>
  BY <1>1 DEF StampIsUpload, UploadToday
<1>2. CASE DeployAgent \/ AgentUpload \/ AgentReport
  BY <1>2 DEF DeployAgent, AgentUpload, AgentReport, StampIsUpload
<1>3. CASE DailyBackup
  <2>1. hour = BackupHour /\ hour' = hour /\ agent' = agent
    BY <1>3 DEF DailyBackup
  <2>2. hostStamp' = 0 \/ (hostStamp' = hostStamp /\ hostStamp > hour)
    BY <1>0, <1>3 DEF DailyBackup, Reconcile, NothingExpected, StampAll, RunStamp, StampedToday
  <2> QED
    BY <1>0, <2>1, <2>2 DEF StampIsUpload
<1>4. CASE RunBackupNow
  <2>1. PICK S \in SUBSET Targets(dbs) : object' = Uploaded(S) /\ hostStamp' \in {RunStamp(S), hostStamp}
    BY <1>4 DEF RunBackupNow
  <2>2. UNCHANGED <<hour, agent>>
    BY <1>4 DEF RunBackupNow
  <2>3. CASE S = {}
    <3>1. \A d \in DBs : object'[d] = object[d]
      BY <2>1, <2>3 DEF Uploaded
    <3>2. hostStamp' = hostStamp
      BY <2>1, <2>3 DEF RunStamp
    <3> QED
      BY <2>2, <3>1, <3>2 DEF StampIsUpload, UploadToday
  <2>4. CASE S # {}
    <3>1. PICK d \in S : TRUE
      BY <2>4
    <3>2. d \in DBs
      BY <3>1 DEF Targets, TypeOK
    <3>3. object'[d] = 0
      BY <2>1, <3>1, <3>2 DEF Uploaded
    <3>4. UploadToday'
      <4>1. object'[d] <= hour'
        BY <1>0, <2>2, <3>3
      <4> QED
        BY <3>2, <4>1 DEF UploadToday
    <3> QED
      BY <3>4 DEF StampIsUpload
  <2> QED
    BY <2>3, <2>4
<1>5. CASE VerifyFallback
  <2>1. PICK S \in SUBSET StaleDbs : object' = Uploaded(S)
    BY <1>5 DEF VerifyFallback
  <2>2. UNCHANGED <<hour, agent, hostStamp>> /\ \A d \in DBs : object'[d] <= object[d]
    BY <1>5, <2>1, UploadedAges DEF VerifyFallback
  <2>3. UploadToday => UploadToday'
    BY <1>0, <2>2 DEF UploadToday
  <2> QED
    BY <2>2, <2>3 DEF StampIsUpload
<1>6. CASE VerifyFresh \/ VerifyAfterFallback
  <2>1. verify # "idle" /\ UNCHANGED <<hour, object, agent>>
    BY <1>6 DEF VerifyFresh, VerifyAfterFallback
  <2>2. hostStamp' = hostStamp \/ hostStamp' = elapsed
    BY <1>6 DEF VerifyFresh, VerifyAfterFallback, StampAll, NothingExpected
  <2>3. elapsed <= hour => hour - elapsed >= BackupHour
    BY <1>0, <2>1 DEF ClockRuns, Since
  <2> QED
    BY <2>1, <2>2, <2>3 DEF StampIsUpload, UploadToday
<1>7. CASE Tick
  <2>1. /\ hour' = (hour + TickHours) % 24 /\ object' = [d \in DBs |-> Older(object[d])]
        /\ hostStamp' = Older(hostStamp) /\ agent' = agent
    BY <1>7 DEF Tick
  <2>2. hour' = IF hour + TickHours < 24 THEN hour + TickHours ELSE hour + TickHours - 24
    BY <1>0, <2>1, OnTheHour DEF ClockRuns, OnGrid
  <2>3. ASSUME NEW x \in Ages
        PROVE  Older(x) <= x + TickHours /\ (Older(x) <= 23 => Older(x) = x + TickHours)
    BY <2>3, Ageing, Windows DEF Ages, Old
  <2>4. hostStamp \in Ages /\ \A d \in DBs : object[d] \in Ages
    BY DEF TypeOK
  <2>5. hour' \in 0..23
    BY DEF TypeOK
  <2>6. ASSUME hostStamp' <= hour', agent = "none"
        PROVE  /\ hostStamp' = hostStamp + TickHours /\ hour' = hour + TickHours
               /\ UploadToday' \/ hour' - hostStamp' >= BackupHour
    <3>1. hostStamp' = hostStamp + TickHours
      BY <1>0, <2>1, <2>3, <2>4, <2>5, <2>6
    <3>2. hour' = hour + TickHours /\ hostStamp <= hour
      BY <1>0, <2>2, <2>6, <3>1
    <3>3. CASE hour - hostStamp >= BackupHour
      BY <1>0, <3>1, <3>2, <3>3
    <3>4. CASE UploadToday
      <4>1. PICK d \in DBs : object[d] <= hour
        BY <3>4 DEF UploadToday
      <4>2. object'[d] <= object[d] + TickHours
        BY <2>1, <2>3, <2>4, <4>1
      <4>3. object'[d] <= hour'
        BY <1>0, <3>2, <4>1, <4>2
      <4> QED
        BY <3>1, <3>2, <4>3 DEF UploadToday
    <3> QED
      BY <2>6, <3>1, <3>2, <3>3, <3>4 DEF StampIsUpload
  <2>7. StampIsUpload'
    BY <2>1, <2>6 DEF StampIsUpload
  <2>8. ASSUME hour' = BackupHour, agent = "none", hostStamp' <= hour' PROVE UploadToday'
    BY <1>0, <2>6, <2>8
  <2> QED
    BY <2>7, <2>8 DEF StampedToday
<1> QED
  BY <1>1, <1>2, <1>3, <1>4, <1>5, <1>6, <1>7 DEF Next, Verify, RefreshDatabases, vars, DailyBackup,
     DeployAgent, AgentUpload, AgentReport, RunBackupNow, VerifyFresh, VerifyFallback, VerifyAfterFallback

\* When the backup hour is not after the verify hour, the nightly run skips a
\* server only if something was uploaded from it since midnight.
THEOREM SkipsAreJustified == SameDay /\ BackupHour <= VerifyHour => (Spec => SkipIsJustified)
<1> SUFFICES ASSUME SameDay, BackupHour <= VerifyHour PROVE Spec => SkipIsJustified
  OBVIOUS
<1>1. Init => StampIsUpload
  BY Windows, FreshnessAssumption DEF Init, StampIsUpload, Old
<1>2. TypeOK /\ TypeOK' /\ ClockRuns /\ StampIsUpload /\ [Next]_vars => StampIsUpload'
  BY StampStep
<1>3. TypeOK /\ TypeOK' /\ ClockRuns /\ StampIsUpload /\ [Next]_vars =>
        [hour' # hour /\ hour' = BackupHour /\ agent = "none" /\ StampedToday'
           => \E d \in DBs : object'[d] <= hour']_vars
  BY StampStep DEF UploadToday
<1> QED
  BY <1>1, <1>2, <1>3, TypeCorrect, ClockHolds, PTL DEF Spec, SkipIsJustified

-----------------------------------------------------------------------------
\* What takes a flag away has looked: stamping decides the flags by the lists
\* and the bucket of the moment.
LEMMA FlagsByStamping ==
  ASSUME TypeOK, NEW lists \in [Stages -> SUBSET DBs], NEW bucket, NEW age, NEW hostAge,
         StampAll(lists, bucket, age, hostAge), NEW s \in Stages, review[s], ~review'[s]
  PROVE  lists[s] # {} /\ \A d \in lists[s] : bucket[d] <= DailyAge
<1> DEFINE fresh == {z \in Expecting(lists) : AllFresh(z, lists, bucket)}
<1>1. review' = [z \in Stages |-> IF z \in Expecting(lists) THEN z \notin fresh ELSE review[z]]
  BY DEF StampAll
<1>2. s \in fresh
  BY <1>1
<1> QED
  BY <1>2 DEF Expecting, Expects, AllFresh

\* An instance's flag is taken away only by a backup, not older than DailyAge,
\* of every database it has, whoever reconciles and whatever fails on the way.
THEOREM FlagsClearByBackup == Spec => ClearedByBackup
<1> DEFINE Cleared == \A s \in Stages : review[s] /\ ~review'[s] =>
              dbs'[s] # {} /\ \A d \in dbs'[s] : object'[d] <= DailyAge
<1>1. TypeOK /\ TypeOK' /\ [Next]_vars => [Cleared]_vars
  <2> SUFFICES ASSUME TypeOK, TypeOK', Next PROVE Cleared
    OBVIOUS
  <2>1. CASE review' = review
    BY <2>1
  <2>2. ASSUME NEW age, NEW hostAge, StampAll(dbs', object', age, hostAge) PROVE Cleared
    <3>1. dbs' \in [Stages -> SUBSET DBs]
      BY DEF TypeOK
    <3> QED
      BY <2>2, <3>1, FlagsByStamping
  <2>3. CASE DailyBackup
    <3>1. review' = review \/ \E hostAge : StampAll(dbs', object', 0, hostAge)
      BY <2>3 DEF DailyBackup, Reconcile, NothingExpected
    <3> QED
      BY <2>1, <2>2, <3>1
  <2>4. CASE AgentReport
    <3>1. dbs' = dbs /\ object' = object
      BY <2>4 DEF AgentReport
    <3>2. review' = review \/ StampAll(dbs, object, 0, hostStamp)
      BY <2>4 DEF AgentReport, Reconcile, NothingExpected
    <3> QED
      BY <2>1, <2>2, <3>1, <3>2
  <2>5. CASE VerifyFresh \/ VerifyAfterFallback
    <3>1. dbs' = dbs /\ object' = object
      BY <2>5 DEF VerifyFresh, VerifyAfterFallback
    <3>2. review' = review \/ StampAll(dbs, object, elapsed, hostStamp)
      BY <2>5 DEF VerifyFresh, VerifyAfterFallback, NothingExpected
    <3> QED
      BY <2>1, <2>2, <3>1, <3>2
  <2> QED
    BY <2>1, <2>3, <2>4, <2>5 DEF Next, Verify, RefreshDatabases, DeployAgent, AgentUpload, RunBackupNow,
       VerifyFallback, Tick
<1> QED
  BY <1>1, TypeCorrect, PTL DEF Spec, ClearedByBackup, Cleared

=============================================================================
