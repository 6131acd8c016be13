--------------------------- MODULE BackupRunProofs --------------------------
(***************************************************************************)
(* Proofs about BackupRun for any number of databases, runs, agents and    *)
(* parts.  Known holds what runs, scripts and uploads carry; the safety    *)
(* invariants are proved one after the other on top of it, all of them     *)
(* whatever the constants: runs may share databases, keys and the URL map  *)
(* as they like.                                                           *)
(***************************************************************************)
EXTENDS BackupRun, FiniteSetTheorems, TLAPS

RunState == [pc : {"idle", "next", "copy", "script", "heard", "unheard", "prune", "ended", "dead"},
             todo : SUBSET Dbs, cur : Dbs \union {NoMap},
             done : SUBSET Dbs, doomed : SUBSET (Dbs \X Nightly)]
AgentState == [pc : {"idle", "next", "put", "clean"}, todo : SUBSET Dbs,
               cur : Dbs \union {NoMap}, doomed : SUBSET (Dbs \X Nightly)]
PartList == [1..Parts -> Attempts \union {NoMap}]
Script == [state : {"none", "busy", "ok", "failed"}, target : Attempts \union {NoMap}, sent : 0..Parts]
Upload == [state : {"none", "open", "completed", "aborted"}, parts : PartList \union {<<>>}]

RunsTyped == run \in [Runs -> RunState]
AgentsTyped == agent \in [Agents -> AgentState]
ScriptsTyped == script \in [Attempts -> Script] /\ urlmap \in Attempts \union {NoMap}
UploadsTyped ==
  /\ upload \in [Attempts -> Upload]
  /\ \A a \in Attempts : upload[a].state # "none" => Multi(a) /\ upload[a].parts \in PartList
BucketTyped == bucket \in [Dbs -> [Keys -> SUBSET Builders]]

\* A run works on databases it was asked for.
Working == {"copy", "script", "heard", "unheard"}
RunsKnown ==
  \A r \in Runs : /\ run[r].todo \subseteq Scope[r]
                  /\ run[r].pc \in Working => run[r].cur \in Scope[r]

\* The agent lists the folder of a database.
AgentsKnown == \A g \in Agents : agent[g].pc \in {"put", "clean"} => agent[g].cur \in Dbs

\* A script that was started has a map of some run, and parts left while it runs.
Asked(t) == t \in Attempts /\ t[2] \in Scope[t[1]]
ScriptsKnown ==
  /\ urlmap # NoMap => Asked(urlmap)
  /\ \A a \in Attempts :
       /\ IF script[a].state = "none" THEN script[a].target = NoMap
                                     ELSE Asked(script[a].target)
       /\ script[a].state = "busy" => script[a].sent < Parts

\* The upload of an attempt at work has been created.
UploadsKnown ==
  \A r \in Runs : run[r].pc \in Working /\ Multi(At(r)) => upload[At(r)].state # "none"

Known ==
  /\ RunsTyped /\ AgentsTyped /\ ScriptsTyped /\ UploadsTyped /\ BucketTyped
  /\ RunsKnown /\ AgentsKnown /\ ScriptsKnown /\ UploadsKnown

-----------------------------------------------------------------------------
(* What the operators of the model give.                                   *)

LEMMA ThreeAges ==
  /\ Nightly = {"older", "old", "today"}
  /\ Keys = {"older", "old", "today", "zip", "sql"}
  /\ Age["older"] = 1 /\ Age["old"] = 2 /\ Age["today"] = 3
BY DEF Nightly, Keys, Age

LEMMA AttemptParts ==
  ASSUME NEW a \in Attempts
  PROVE  a[1] \in Runs /\ a[2] \in Dbs /\ a = <<a[1], a[2]>>
BY DEF Attempts

LEMMA AreaIsKey ==
  ASSUME NEW r \in Runs
  PROVE  Area(r) \in Keys /\ (Kind[r] = "daily" => Area(r) = "today")
BY BackupRunAssumption, ThreeAges DEF Area

\* A run that works is on an attempt it was asked for.
LEMMA AtIsAsked ==
  ASSUME Known, NEW r \in Runs, run[r].pc \in Working
  PROVE  At(r) \in Attempts /\ At(r)[1] = r /\ At(r)[2] = run[r].cur /\ run[r].cur \in Dbs /\ Asked(At(r))
BY BackupRunAssumption DEF Known, RunsKnown, At, Attempts, Asked

\* What is past its retention is not of today.
LEMMA RetentionTyped ==
  ASSUME NEW d \in Dbs
  PROVE  PastRetention(d) \subseteq Dbs \X Nightly
BY DEF PastRetention, Stored

-----------------------------------------------------------------------------
LEMMA InitKnown == Init => Known
<1> SUFFICES ASSUME Init PROVE Known
  OBVIOUS
<1> USE BackupRunAssumption
<1>1. RunsTyped /\ AgentsTyped /\ RunsKnown /\ AgentsKnown
  BY DEF Init, RunsTyped, AgentsTyped, RunsKnown, AgentsKnown, RunState, AgentState, Working
<1>2. ScriptsTyped /\ ScriptsKnown
  BY DEF Init, ScriptsTyped, ScriptsKnown, Script
<1>3. UploadsTyped
  BY DEF Init, UploadsTyped, Upload
<1>4. BucketTyped
  BY ThreeAges DEF Init, BucketTyped, Builders
<1>5. UploadsKnown
  BY DEF Init, UploadsKnown, Working
<1> QED
  BY <1>1, <1>2, <1>3, <1>4, <1>5 DEF Known

-----------------------------------------------------------------------------
(* Every action keeps what is known.                                      *)

LEMMA BeginKnown ==
  ASSUME Known, NEW r \in Runs, Begin(r)
  PROVE  Known'
<1> USE BackupRunAssumption DEF Begin
<1>0. PICK items \in SUBSET Scope[r] : /\ items \subseteq Dbs
                                      /\ run' = [run EXCEPT ![r].pc = "next", ![r].todo = items]
  BY DEF Sized
<1>1. RunsTyped'
  <2>1. run[r] \in RunState
    BY DEF Known, RunsTyped
  <2>2. [run[r] EXCEPT !.pc = "next", !.todo = items] \in RunState
    BY <2>1, <1>0 DEF RunState
  <2>3. run' = [run EXCEPT ![r] = [run[r] EXCEPT !.pc = "next", !.todo = items]]
    BY <1>0 DEF Known, RunsTyped
  <2> QED
    BY <2>2, <2>3 DEF Known, RunsTyped
<1>2. RunsKnown'
  BY <1>0 DEF Known, RunsKnown, RunsTyped, RunState, Working
<1>3. UploadsKnown'
  BY <1>0 DEF Known, UploadsKnown, RunsTyped, RunState, Working, At
<1>4. AgentsTyped' /\ ScriptsTyped' /\ UploadsTyped' /\ BucketTyped' /\ AgentsKnown' /\ ScriptsKnown'
  BY DEF Known, AgentsTyped, ScriptsTyped, UploadsTyped, BucketTyped, AgentsKnown, ScriptsKnown
<1> QED
  BY <1>1, <1>2, <1>3, <1>4 DEF Known

\* An upload that was created is open, and no other has changed.
LEMMA CreatedUpload ==
  ASSUME Known, NEW a \in Attempts, Multi(a), upload' = Created(a)
  PROVE  /\ UploadsTyped'
         /\ upload'[a].state = "open"
         /\ \A b \in Attempts \ {a} : upload'[b] = upload[b]
BY DEF Known, UploadsTyped, Upload, PartList, Created, Multi

LEMMA MintFailsKnown ==
  ASSUME Known, NEW r \in Runs, NEW d \in Dbs, MintFails(r, d)
  PROVE  Known'
<1> USE BackupRunAssumption DEF MintFails
<1>1. RunsTyped'
  BY DEF Known, RunsTyped, RunState
<1>2. RunsKnown'
  BY DEF Known, RunsKnown, RunsTyped, RunState, Working
<1>0. <<r, d>> \in Attempts
  BY DEF Attempts
<1>3. UploadsTyped' /\ \A a \in Attempts : upload[a].state # "none" => upload'[a].state # "none"
  <2>1. CASE UNCHANGED upload
    BY <2>1 DEF Known, UploadsTyped
  <2>2. CASE Multi(<<r, d>>) /\ upload' = Created(<<r, d>>)
    BY <1>0, <2>2, CreatedUpload
  <2> QED
    BY <2>1, <2>2
<1>4. UploadsKnown'
  <2> SUFFICES ASSUME NEW q \in Runs, run'[q].pc \in Working, Multi(At(q)')
               PROVE  upload'[At(q)'].state # "none"
    BY DEF UploadsKnown, At, Multi
  <2>1. run'[q].pc = run[q].pc /\ run'[q].cur = run[q].cur
    BY DEF Known, RunsTyped, RunState
  <2>2. At(q)' = At(q) /\ At(q) \in Attempts
    BY <2>1, AtIsAsked DEF At
  <2> QED
    BY <1>3, <2>1, <2>2 DEF Known, UploadsKnown
<1>5. AgentsTyped' /\ ScriptsTyped' /\ BucketTyped' /\ AgentsKnown' /\ ScriptsKnown'
  BY DEF Known, AgentsTyped, ScriptsTyped, BucketTyped, AgentsKnown, ScriptsKnown
<1> QED
  BY <1>1, <1>2, <1>3, <1>4, <1>5 DEF Known

LEMMA MintKnown ==
  ASSUME Known, NEW r \in Runs, NEW d \in Dbs, Mint(r, d)
  PROVE  Known'
<1> USE BackupRunAssumption DEF Mint
<1>1. RunsTyped'
  BY DEF Known, RunsTyped, RunState
<1>2. RunsKnown'
  BY DEF Known, RunsKnown, RunsTyped, RunState, Working
<1>0. <<r, d>> \in Attempts
  BY DEF Attempts
<1>3. UploadsTyped'
  BY <1>0, CreatedUpload DEF Known, UploadsTyped
<1>4. UploadsKnown'
  <2>1. <<r, d>> \in Attempts
    BY DEF Attempts
  <2> SUFFICES ASSUME NEW q \in Runs, run'[q].pc \in Working, Multi(<<q, run'[q].cur>>)
               PROVE  upload'[<<q, run'[q].cur>>].state # "none"
    BY DEF UploadsKnown, At
  <2>2. CASE q = r
    BY <2>1, <2>2, CreatedUpload DEF Known, RunsTyped, RunState
  <2>3. CASE q # r
    <3>1. run'[q] = run[q] /\ upload'[<<q, run[q].cur>>] = upload[<<q, run[q].cur>>]
      BY <2>3 DEF Known, UploadsTyped, RunsTyped, Created
    <3> QED
      BY <3>1 DEF Known, UploadsKnown, At
  <2> QED
    BY <2>2, <2>3
<1>5. AgentsTyped' /\ ScriptsTyped' /\ BucketTyped' /\ AgentsKnown' /\ ScriptsKnown'
  BY DEF Known, AgentsTyped, ScriptsTyped, BucketTyped, AgentsKnown, ScriptsKnown
<1> QED
  BY <1>1, <1>2, <1>3, <1>4, <1>5 DEF Known

LEMMA CopyMapKnown ==
  ASSUME Known, NEW r \in Runs, CopyMap(r)
  PROVE  Known'
<1> USE BackupRunAssumption DEF CopyMap
<1>0. Asked(At(r)) /\ At(r) \in Attempts
  BY AtIsAsked DEF Working
<1>1. RunsTyped'
  BY DEF Known, RunsTyped, RunState
<1>2. RunsKnown'
  BY DEF Known, RunsKnown, RunsTyped, RunState, Working
<1>3. UploadsKnown'
  BY DEF Known, UploadsKnown, RunsTyped, RunState, Working, At
<1>4. ScriptsTyped'
  BY <1>0 DEF Known, ScriptsTyped, Script
<1>5. ScriptsKnown'
  BY <1>0 DEF Known, ScriptsKnown, ScriptsTyped, Script
<1>6. AgentsTyped' /\ UploadsTyped' /\ BucketTyped' /\ AgentsKnown'
  BY DEF Known, AgentsTyped, UploadsTyped, BucketTyped, AgentsKnown
<1> QED
  BY <1>1, <1>2, <1>3, <1>4, <1>5, <1>6 DEF Known

LEMMA StartScriptKnown ==
  ASSUME Known, NEW r \in Runs, StartScript(r)
  PROVE  Known'
<1> USE BackupRunAssumption DEF StartScript
<1>0. At(r) \in Attempts
  BY AtIsAsked DEF Working
<1>1. ScriptsTyped'
  BY <1>0 DEF Known, ScriptsTyped, Script
<1>2. ScriptsKnown'
  BY <1>0 DEF Known, ScriptsKnown, ScriptsTyped, Script
<1>3. RunsTyped' /\ AgentsTyped' /\ UploadsTyped' /\ BucketTyped' /\ RunsKnown' /\ AgentsKnown' /\ UploadsKnown'
  BY DEF Known, RunsTyped, AgentsTyped, UploadsTyped, BucketTyped, RunsKnown, AgentsKnown, UploadsKnown, At
<1> QED
  BY <1>1, <1>2, <1>3 DEF Known

LEMMA ScriptHasNoMapKnown ==
  ASSUME Known, NEW r \in Runs, ScriptHasNoMap(r)
  PROVE  Known'
<1> USE BackupRunAssumption DEF ScriptHasNoMap
<1>1. RunsTyped'
  BY DEF Known, RunsTyped, RunState
<1>2. RunsKnown'
  BY DEF Known, RunsKnown, RunsTyped, RunState, Working
<1>3. UploadsKnown'
  BY DEF Known, UploadsKnown, RunsTyped, RunState, Working, At
<1>4. AgentsTyped' /\ ScriptsTyped' /\ UploadsTyped' /\ BucketTyped' /\ AgentsKnown' /\ ScriptsKnown'
  BY DEF Known, AgentsTyped, ScriptsTyped, UploadsTyped, BucketTyped, AgentsKnown, ScriptsKnown
<1> QED
  BY <1>1, <1>2, <1>3, <1>4 DEF Known

LEMMA RemoveMapKnown ==
  ASSUME Known, NEW r \in Runs, RemoveMap(r)
  PROVE  Known'
<1> USE BackupRunAssumption DEF RemoveMap
<1>1. RunsTyped'
  BY DEF Known, RunsTyped, RunState
<1>2. RunsKnown'
  BY DEF Known, RunsKnown, RunsTyped, RunState, Working
<1>3. UploadsKnown'
  BY DEF Known, UploadsKnown, RunsTyped, RunState, Working, At
<1>4. ScriptsTyped'
  BY DEF Known, ScriptsTyped, Script
<1>5. ScriptsKnown'
  BY DEF Known, ScriptsKnown, ScriptsTyped, Script
<1>6. AgentsTyped' /\ UploadsTyped' /\ BucketTyped' /\ AgentsKnown'
  BY DEF Known, AgentsTyped, UploadsTyped, BucketTyped, AgentsKnown
<1> QED
  BY <1>1, <1>2, <1>3, <1>4, <1>5, <1>6 DEF Known

LEMMA GiveUpKnown ==
  ASSUME Known, NEW r \in Runs, GiveUp(r)
  PROVE  Known'
<1> USE BackupRunAssumption DEF GiveUp
<1>1. RunsTyped'
  BY DEF Known, RunsTyped, RunState
<1>2. RunsKnown'
  BY DEF Known, RunsKnown, RunsTyped, RunState, Working
<1>3. UploadsKnown'
  BY DEF Known, UploadsKnown, RunsTyped, RunState, Working, At
<1>4. AgentsTyped' /\ ScriptsTyped' /\ UploadsTyped' /\ BucketTyped' /\ AgentsKnown' /\ ScriptsKnown'
  BY DEF Known, AgentsTyped, ScriptsTyped, UploadsTyped, BucketTyped, AgentsKnown, ScriptsKnown
<1> QED
  BY <1>1, <1>2, <1>3, <1>4 DEF Known

LEMMA CompleteKnown ==
  ASSUME Known, NEW r \in Runs, Complete(r)
  PROVE  Known'
<1> USE BackupRunAssumption DEF Complete
<1>0. At(r) \in Attempts /\ run[r].cur \in Dbs
  BY AtIsAsked DEF Working, SaidOk
<1>1. RunsTyped'
  <2>1. run[r] \in RunState
    BY DEF Known, RunsTyped
  <2>2. [run[r] EXCEPT !.pc = "next", !.cur = NoMap, !.done = @ \union {run[r].cur}] \in RunState
    BY <2>1, <1>0 DEF RunState
  <2>3. run' = [run EXCEPT ![r] = [run[r] EXCEPT !.pc = "next", !.cur = NoMap, !.done = @ \union {run[r].cur}]]
    BY <1>0 DEF Known, RunsTyped, NextDb
  <2> QED
    BY <2>2, <2>3 DEF Known, RunsTyped
<1>2. RunsKnown'
  BY DEF Known, RunsKnown, RunsTyped, RunState, Working, NextDb
<1>3. UploadsKnown'
  BY <1>0 DEF Known, UploadsKnown, RunsTyped, RunState, UploadsTyped, Upload, Working, At, NextDb
<1>4. UploadsTyped'
  <2>1. upload[At(r)] \in Upload
    BY <1>0 DEF Known, UploadsTyped
  <2>2. [upload[At(r)] EXCEPT !.state = "completed"] \in Upload
    BY <2>1 DEF Upload
  <2>3. upload' = [upload EXCEPT ![At(r)] = [upload[At(r)] EXCEPT !.state = "completed"]]
    BY <1>0 DEF Known, UploadsTyped
  <2>4. Multi(At(r)) /\ upload[At(r)].parts \in PartList
    BY <1>0 DEF Known, UploadsTyped, UploadsKnown, SaidOk, Working
  <2> QED
    BY <1>0, <2>1, <2>2, <2>3, <2>4 DEF Known, UploadsTyped, Upload
<1>5. BucketTyped'
  <2>1. {upload[At(r)].parts[i] : i \in 1..Parts} \subseteq Builders
    BY <1>0 DEF Matching, Builders
  <2> QED
    BY <1>0, <2>1, AreaIsKey DEF Known, BucketTyped
<1>6. AgentsTyped' /\ ScriptsTyped' /\ AgentsKnown' /\ ScriptsKnown'
  BY DEF Known, AgentsTyped, ScriptsTyped, AgentsKnown, ScriptsKnown
<1> QED
  BY <1>1, <1>2, <1>3, <1>4, <1>5, <1>6 DEF Known

LEMMA AcceptKnown ==
  ASSUME Known, NEW r \in Runs, Accept(r)
  PROVE  Known'
<1> USE BackupRunAssumption DEF Accept
<1>0. At(r) \in Attempts /\ run[r].cur \in Dbs
  BY AtIsAsked DEF Working, SaidOk
<1>1. RunsTyped'
  <2>1. run[r] \in RunState
    BY DEF Known, RunsTyped
  <2>2. [run[r] EXCEPT !.pc = "next", !.cur = NoMap, !.done = @ \union {run[r].cur}] \in RunState
    BY <2>1, <1>0 DEF RunState
  <2>3. run' = [run EXCEPT ![r] = [run[r] EXCEPT !.pc = "next", !.cur = NoMap, !.done = @ \union {run[r].cur}]]
    BY <1>0 DEF Known, RunsTyped, NextDb
  <2> QED
    BY <2>2, <2>3 DEF Known, RunsTyped
<1>2. RunsKnown'
  BY DEF Known, RunsKnown, RunsTyped, RunState, Working, NextDb
<1>3. UploadsKnown'
  BY <1>0 DEF Known, UploadsKnown, RunsTyped, RunState, UploadsTyped, Upload, Working, At, NextDb
<1>4. AgentsTyped' /\ ScriptsTyped' /\ UploadsTyped' /\ BucketTyped' /\ AgentsKnown' /\ ScriptsKnown'
  BY DEF Known, AgentsTyped, ScriptsTyped, UploadsTyped, BucketTyped, AgentsKnown, ScriptsKnown
<1> QED
  BY <1>1, <1>2, <1>3, <1>4 DEF Known

LEMMA AbortKnown ==
  ASSUME Known, NEW r \in Runs, Abort(r)
  PROVE  Known'
<1> USE BackupRunAssumption DEF Abort
<1>0. At(r) \in Attempts /\ run[r].cur \in Dbs
  BY AtIsAsked DEF Working
<1>1. RunsTyped'
  <2>1. run[r] \in RunState
    BY DEF Known, RunsTyped
  <2>2. [run[r] EXCEPT !.pc = "next", !.cur = NoMap] \in RunState
    BY <2>1, <1>0 DEF RunState
  <2>3. run' = [run EXCEPT ![r] = [run[r] EXCEPT !.pc = "next", !.cur = NoMap]]
    BY <1>0 DEF Known, RunsTyped, NextDb
  <2> QED
    BY <2>2, <2>3 DEF Known, RunsTyped
<1>2. RunsKnown'
  BY DEF Known, RunsKnown, RunsTyped, RunState, Working, NextDb
<1>3. UploadsKnown'
  <2>1. \A a \in Attempts : upload[a].state # "none" => upload'[a].state # "none"
    BY <1>0 DEF Known, UploadsTyped, Upload, AbortUpload
  <2> SUFFICES ASSUME NEW q \in Runs, run'[q].pc \in Working, Multi(At(q)')
               PROVE  upload'[At(q)'].state # "none"
    BY DEF UploadsKnown, At, Multi
  <2>2. run'[q] = run[q]
    BY DEF Known, RunsTyped, RunState, NextDb, Working
  <2>3. At(q)' = At(q) /\ At(q) \in Attempts
    BY <2>2, AtIsAsked DEF At
  <2> QED
    BY <2>1, <2>2, <2>3 DEF Known, UploadsKnown
<1>4. UploadsTyped'
  <2>1. CASE UNCHANGED upload
    BY <2>1 DEF Known, UploadsTyped
  <2>2. CASE Multi(At(r)) /\ upload' = [upload EXCEPT ![At(r)].state = "aborted"]
    <3>1. upload[At(r)] \in Upload /\ upload[At(r)].parts \in PartList
      BY <1>0, <2>2 DEF Known, UploadsTyped, UploadsKnown, Working
    <3>2. [upload[At(r)] EXCEPT !.state = "aborted"] \in Upload
      BY <3>1 DEF Upload
    <3>3. upload' = [upload EXCEPT ![At(r)] = [upload[At(r)] EXCEPT !.state = "aborted"]]
      BY <1>0, <2>2 DEF Known, UploadsTyped
    <3> QED
      BY <1>0, <2>2, <3>1, <3>2, <3>3 DEF Known, UploadsTyped, Upload
  <2> QED
    BY <2>1, <2>2 DEF AbortUpload
<1>5. AgentsTyped' /\ ScriptsTyped' /\ BucketTyped' /\ AgentsKnown' /\ ScriptsKnown'
  BY DEF Known, AgentsTyped, ScriptsTyped, BucketTyped, AgentsKnown, ScriptsKnown
<1> QED
  BY <1>1, <1>2, <1>3, <1>4, <1>5 DEF Known

LEMMA RunRaisesKnown ==
  ASSUME Known, NEW r \in Runs, RunRaises(r)
  PROVE  Known'
<1> USE BackupRunAssumption DEF RunRaises
<1>0. At(r) \in Attempts /\ run[r].cur \in Dbs
  BY AtIsAsked DEF Working
<1>1. RunsTyped'
  <2>1. run[r] \in RunState
    BY DEF Known, RunsTyped
  <2>2. [run[r] EXCEPT !.pc = "next", !.cur = NoMap] \in RunState
    BY <2>1, <1>0 DEF RunState
  <2>3. run' = [run EXCEPT ![r] = [run[r] EXCEPT !.pc = "next", !.cur = NoMap]]
    BY <1>0 DEF Known, RunsTyped, NextDb
  <2> QED
    BY <2>2, <2>3 DEF Known, RunsTyped
<1>2. RunsKnown'
  BY DEF Known, RunsKnown, RunsTyped, RunState, Working, NextDb
<1>3. UploadsKnown'
  BY <1>0 DEF Known, UploadsKnown, RunsTyped, RunState, UploadsTyped, Upload, Working, At, NextDb
<1>4. AgentsTyped' /\ ScriptsTyped' /\ UploadsTyped' /\ BucketTyped' /\ AgentsKnown' /\ ScriptsKnown'
  BY DEF Known, AgentsTyped, ScriptsTyped, UploadsTyped, BucketTyped, AgentsKnown, ScriptsKnown
<1> QED
  BY <1>1, <1>2, <1>3, <1>4 DEF Known

LEMMA EndOfLoopKnown ==
  ASSUME Known, NEW r \in Runs, EndOfLoop(r)
  PROVE  Known'
<1> USE BackupRunAssumption DEF EndOfLoop
<1>1. RunsTyped'
  <2> DEFINE listed == UNION {PastRetention(d) : d \in Dbs}
  <2>1. run[r] \in RunState /\ listed \in SUBSET (Dbs \X Nightly)
    BY RetentionTyped DEF Known, RunsTyped
  <2> HIDE DEF listed
  <2>2. /\ [run[r] EXCEPT !.pc = "prune", !.doomed = listed] \in RunState
        /\ [run[r] EXCEPT !.pc = "ended"] \in RunState
    BY <2>1 DEF RunState
  <2>3. \/ run' = [run EXCEPT ![r] = [run[r] EXCEPT !.pc = "prune", !.doomed = listed]]
        \/ run' = [run EXCEPT ![r] = [run[r] EXCEPT !.pc = "ended"]]
    BY DEF Known, RunsTyped, listed
  <2> QED
    BY <2>2, <2>3 DEF Known, RunsTyped
<1>2. RunsKnown'
  BY DEF Known, RunsKnown, RunsTyped, RunState, Working
<1>3. UploadsKnown'
  BY DEF Known, UploadsKnown, RunsTyped, RunState, Working, At
<1>4. AgentsTyped' /\ ScriptsTyped' /\ UploadsTyped' /\ BucketTyped' /\ AgentsKnown' /\ ScriptsKnown'
  BY DEF Known, AgentsTyped, ScriptsTyped, UploadsTyped, BucketTyped, AgentsKnown, ScriptsKnown
<1> QED
  BY <1>1, <1>2, <1>3, <1>4 DEF Known

LEMMA PruneKnown ==
  ASSUME Known, NEW r \in Runs, Prune(r)
  PROVE  Known'
<1> USE BackupRunAssumption DEF Prune
<1>1. RunsTyped'
  <2>1. run[r] \in RunState
    BY DEF Known, RunsTyped
  <2>2. [run[r] EXCEPT !.pc = "ended", !.doomed = {}] \in RunState
    BY <2>1 DEF RunState
  <2>3. run' = [run EXCEPT ![r] = [run[r] EXCEPT !.pc = "ended", !.doomed = {}]]
    BY DEF Known, RunsTyped
  <2> QED
    BY <2>2, <2>3 DEF Known, RunsTyped
<1>2. RunsKnown'
  BY DEF Known, RunsKnown, RunsTyped, RunState, Working
<1>3. UploadsKnown'
  BY DEF Known, UploadsKnown, RunsTyped, RunState, Working, At
<1>4. BucketTyped'
  BY DEF Known, BucketTyped, Delete
<1>5. AgentsTyped' /\ ScriptsTyped' /\ UploadsTyped' /\ AgentsKnown' /\ ScriptsKnown'
  BY DEF Known, AgentsTyped, ScriptsTyped, UploadsTyped, AgentsKnown, ScriptsKnown
<1> QED
  BY <1>1, <1>2, <1>3, <1>4, <1>5 DEF Known

LEMMA StopKnown ==
  ASSUME Known, Stop
  PROVE  Known'
<1> USE BackupRunAssumption DEF Stop
<1>1. RunsTyped'
  <2>1. \A r \in Runs : run[r] \in RunState
    BY DEF Known, RunsTyped
  <2>2. \A r \in Runs : [run[r] EXCEPT !.pc = "dead"] \in RunState
    BY <2>1 DEF RunState
  <2> QED
    BY <2>1, <2>2 DEF RunsTyped
<1>2. RunsKnown'
  BY DEF Known, RunsKnown, RunsTyped, RunState, Working
<1>3. UploadsKnown'
  BY DEF Known, UploadsKnown, RunsTyped, RunState, Working, At
<1>4. AgentsTyped' /\ ScriptsTyped' /\ UploadsTyped' /\ BucketTyped' /\ AgentsKnown' /\ ScriptsKnown'
  BY DEF Known, AgentsTyped, ScriptsTyped, UploadsTyped, BucketTyped, AgentsKnown, ScriptsKnown
<1> QED
  BY <1>1, <1>2, <1>3, <1>4 DEF Known

LEMMA PurgeManualKnown ==
  ASSUME Known, PurgeManual
  PROVE  Known'
<1> USE BackupRunAssumption DEF PurgeManual
<1>1. BucketTyped'
  BY DEF Known, BucketTyped
<1>2. RunsTyped' /\ AgentsTyped' /\ ScriptsTyped' /\ UploadsTyped' /\ RunsKnown' /\ AgentsKnown' /\ ScriptsKnown' /\ UploadsKnown'
  BY DEF Known, RunsTyped, AgentsTyped, ScriptsTyped, UploadsTyped, RunsKnown, AgentsKnown, ScriptsKnown, UploadsKnown, At
<1> QED
  BY <1>1, <1>2 DEF Known

LEMMA PutPartKnown ==
  ASSUME Known, NEW a \in Attempts, PutPart(a)
  PROVE  Known'
<1> USE BackupRunAssumption DEF PutPart
<1>0. script[a].target \in Attempts /\ script[a].sent < Parts /\ script[a].sent \in Nat
  BY DEF Known, ScriptsKnown, ScriptsTyped, Script, Asked
<1>1. UploadsKnown'
  BY <1>0 DEF Known, UploadsKnown, RunsTyped, RunState, UploadsTyped, Upload, At
<1>2. ScriptsTyped'
  <2>1. script[a] \in Script
    BY DEF Known, ScriptsTyped
  <2>2. script[a].sent + 1 \in 0..Parts
    BY <1>0
  <2>3. \A state \in {"ok", "busy"} : [script[a] EXCEPT !.sent = @ + 1, !.state = state] \in Script
    BY <2>1, <2>2 DEF Script
  <2>4. script' = [script EXCEPT ![a] = [script[a] EXCEPT !.sent = @ + 1,
                                   !.state = IF script[a].sent + 1 = Parts THEN "ok" ELSE "busy"]]
    BY DEF Known, ScriptsTyped
  <2> DEFINE state == IF script[a].sent + 1 = Parts THEN "ok" ELSE "busy"
  <2>5. state \in {"ok", "busy"}
    OBVIOUS
  <2>6. [script[a] EXCEPT !.sent = @ + 1, !.state = state] \in Script
    BY <2>3, <2>5
  <2> QED
    BY <2>4, <2>6 DEF Known, ScriptsTyped
<1>3. ScriptsKnown'
  <2>1. /\ script'[a].target = script[a].target
        /\ script'[a].sent = script[a].sent + 1
        /\ script'[a].state = IF script[a].sent + 1 = Parts THEN "ok" ELSE "busy"
        /\ \A b \in Attempts \ {a} : script'[b] = script[b]
    BY DEF Known, ScriptsTyped, Script
  <2>2. script'[a].state = "busy" => script'[a].sent < Parts
    BY <1>0, <2>1
  <2>3. script[a].state # "none" /\ script'[a].state # "none"
    BY <2>1
  <2>4. Asked(script'[a].target)
    BY <2>1, <2>3 DEF Known, ScriptsKnown
  <2>5. ASSUME NEW b \in Attempts \ {a}
        PROVE  /\ IF script'[b].state = "none" THEN script'[b].target = NoMap ELSE Asked(script'[b].target)
               /\ script'[b].state = "busy" => script'[b].sent < Parts
    BY <2>1 DEF Known, ScriptsKnown
  <2>6. urlmap' # NoMap => Asked(urlmap')
    BY DEF Known, ScriptsKnown
  <2> QED
    BY <2>2, <2>3, <2>4, <2>5, <2>6 DEF ScriptsKnown, Asked
<1>4. UploadsTyped'
  <2> DEFINE t == script[a].target
  <2>1. upload[t] \in Upload /\ upload[t].parts \in PartList /\ t \in Attempts
    BY <1>0 DEF Known, UploadsTyped
  <2>2. script[a].sent + 1 \in 1..Parts
    BY <1>0
  <2>3. [upload[t].parts EXCEPT ![script[a].sent + 1] = a] \in PartList
    BY <2>1, <2>2 DEF PartList
  <2>4. upload' = [upload EXCEPT ![t] = [upload[t] EXCEPT
                     !.parts = [upload[t].parts EXCEPT ![script[a].sent + 1] = a]]]
    BY <2>1 DEF Known, UploadsTyped
  <2>5. [upload[t] EXCEPT !.parts = [upload[t].parts EXCEPT ![script[a].sent + 1] = a]] \in Upload
    BY <2>1, <2>3 DEF Upload
  <2> QED
    BY <2>1, <2>3, <2>4, <2>5 DEF Known, UploadsTyped, Upload
<1>5. RunsTyped' /\ AgentsTyped' /\ BucketTyped' /\ RunsKnown' /\ AgentsKnown'
  BY DEF Known, RunsTyped, AgentsTyped, BucketTyped, RunsKnown, AgentsKnown
<1> QED
  BY <1>1, <1>2, <1>3, <1>4, <1>5 DEF Known

LEMMA PutWholeKnown ==
  ASSUME Known, NEW a \in Attempts, PutWhole(a)
  PROVE  Known'
<1> USE BackupRunAssumption DEF PutWhole
<1>0. script[a].target \in Attempts /\ script[a].sent < Parts /\ script[a].sent \in Nat
  BY DEF Known, ScriptsKnown, ScriptsTyped, Script, Asked
<1>1. ScriptsTyped'
  BY <1>0 DEF Known, ScriptsTyped, Script
<1>2. ScriptsKnown'
  BY <1>0 DEF Known, ScriptsKnown, ScriptsTyped, Script
<1>3. BucketTyped'
  BY <1>0, AttemptParts, AreaIsKey DEF Known, BucketTyped, Builders
<1>4. RunsTyped' /\ AgentsTyped' /\ UploadsTyped' /\ RunsKnown' /\ AgentsKnown' /\ UploadsKnown'
  BY DEF Known, RunsTyped, AgentsTyped, UploadsTyped, RunsKnown, AgentsKnown, UploadsKnown, At
<1> QED
  BY <1>1, <1>2, <1>3, <1>4 DEF Known

LEMMA ScriptFailsKnown ==
  ASSUME Known, NEW a \in Attempts, ScriptFails(a)
  PROVE  Known'
<1> USE BackupRunAssumption DEF ScriptFails
<1>0. script[a].target \in Attempts /\ script[a].sent < Parts /\ script[a].sent \in Nat
  BY DEF Known, ScriptsKnown, ScriptsTyped, Script, Asked
<1>1. ScriptsTyped'
  BY <1>0 DEF Known, ScriptsTyped, Script
<1>2. ScriptsKnown'
  BY <1>0 DEF Known, ScriptsKnown, ScriptsTyped, Script
<1>3. RunsTyped' /\ AgentsTyped' /\ UploadsTyped' /\ BucketTyped' /\ RunsKnown' /\ AgentsKnown' /\ UploadsKnown'
  BY DEF Known, RunsTyped, AgentsTyped, UploadsTyped, BucketTyped, RunsKnown, AgentsKnown, UploadsKnown, At
<1> QED
  BY <1>1, <1>2, <1>3 DEF Known

LEMMA AgentBeginKnown ==
  ASSUME Known, NEW g \in Agents, AgentBegin(g)
  PROVE  Known'
<1> USE BackupRunAssumption DEF AgentBegin
<1>0. PICK items \in SUBSET Dbs : agent' = [agent EXCEPT ![g].pc = "next", ![g].todo = items]
  OBVIOUS
<1>1. AgentsTyped'
  <2>1. agent[g] \in AgentState
    BY DEF Known, AgentsTyped
  <2>2. [agent[g] EXCEPT !.pc = "next", !.todo = items] \in AgentState
    BY <2>1, <1>0 DEF AgentState
  <2>3. agent' = [agent EXCEPT ![g] = [agent[g] EXCEPT !.pc = "next", !.todo = items]]
    BY <1>0 DEF Known, AgentsTyped
  <2> QED
    BY <2>2, <2>3 DEF Known, AgentsTyped
<1>2. AgentsKnown'
  BY <1>0 DEF Known, AgentsKnown, AgentsTyped
<1>3. RunsTyped' /\ ScriptsTyped' /\ UploadsTyped' /\ BucketTyped' /\ RunsKnown' /\ ScriptsKnown' /\ UploadsKnown'
  BY DEF Known, RunsTyped, ScriptsTyped, UploadsTyped, BucketTyped, RunsKnown, ScriptsKnown, UploadsKnown, At
<1> QED
  BY <1>1, <1>2, <1>3 DEF Known

LEMMA AgentSkipsKnown ==
  ASSUME Known, NEW g \in Agents, NEW d \in Dbs, AgentSkips(g, d)
  PROVE  Known'
<1> USE BackupRunAssumption DEF AgentSkips
<1>1. AgentsTyped'
  BY DEF Known, AgentsTyped, AgentState
<1>2. AgentsKnown'
  BY DEF Known, AgentsKnown, AgentsTyped, AgentState
<1>3. RunsTyped' /\ ScriptsTyped' /\ UploadsTyped' /\ BucketTyped' /\ RunsKnown' /\ ScriptsKnown' /\ UploadsKnown'
  BY DEF Known, RunsTyped, ScriptsTyped, UploadsTyped, BucketTyped, RunsKnown, ScriptsKnown, UploadsKnown, At
<1> QED
  BY <1>1, <1>2, <1>3 DEF Known

LEMMA AgentPutKnown ==
  ASSUME Known, NEW g \in Agents, NEW d \in Dbs, AgentPut(g, d)
  PROVE  Known'
<1> USE BackupRunAssumption DEF AgentPut
<1>1. AgentsTyped'
  BY DEF Known, AgentsTyped, AgentState
<1>2. AgentsKnown'
  BY DEF Known, AgentsKnown, AgentsTyped, AgentState
<1>3. BucketTyped'
  BY ThreeAges DEF Known, BucketTyped, Builders
<1>4. RunsTyped' /\ ScriptsTyped' /\ UploadsTyped' /\ RunsKnown' /\ ScriptsKnown' /\ UploadsKnown'
  BY DEF Known, RunsTyped, ScriptsTyped, UploadsTyped, RunsKnown, ScriptsKnown, UploadsKnown, At
<1> QED
  BY <1>1, <1>2, <1>3, <1>4 DEF Known

LEMMA AgentListKnown ==
  ASSUME Known, NEW g \in Agents, AgentList(g)
  PROVE  Known'
<1> USE BackupRunAssumption DEF AgentList
<1>0. PastRetention(agent[g].cur) \in SUBSET (Dbs \X Nightly)
  BY RetentionTyped DEF Known, AgentsKnown
<1>1. AgentsTyped'
  <2>1. agent[g] \in AgentState
    BY DEF Known, AgentsTyped
  <2>2. [agent[g] EXCEPT !.pc = "clean", !.doomed = PastRetention(agent[g].cur)] \in AgentState
    BY <2>1, <1>0 DEF AgentState
  <2>3. agent' = [agent EXCEPT ![g] = [agent[g] EXCEPT !.pc = "clean", !.doomed = PastRetention(agent[g].cur)]]
    BY <1>0 DEF Known, AgentsTyped
  <2> QED
    BY <2>2, <2>3 DEF Known, AgentsTyped
<1>2. AgentsKnown'
  BY DEF Known, AgentsKnown, AgentsTyped, AgentState
<1>3. RunsTyped' /\ ScriptsTyped' /\ UploadsTyped' /\ BucketTyped' /\ RunsKnown' /\ ScriptsKnown' /\ UploadsKnown'
  BY DEF Known, RunsTyped, ScriptsTyped, UploadsTyped, BucketTyped, RunsKnown, ScriptsKnown, UploadsKnown, At
<1> QED
  BY <1>1, <1>2, <1>3 DEF Known

LEMMA AgentCleanKnown ==
  ASSUME Known, NEW g \in Agents, AgentClean(g)
  PROVE  Known'
<1> USE BackupRunAssumption DEF AgentClean
<1>1. AgentsTyped'
  <2>1. agent[g] \in AgentState
    BY DEF Known, AgentsTyped
  <2>2. [agent[g] EXCEPT !.pc = "next", !.doomed = {}, !.cur = NoMap] \in AgentState
    BY <2>1 DEF AgentState
  <2>3. agent' = [agent EXCEPT ![g] = [agent[g] EXCEPT !.pc = "next", !.doomed = {}, !.cur = NoMap]]
    BY DEF Known, AgentsTyped
  <2> QED
    BY <2>2, <2>3 DEF Known, AgentsTyped
<1>2. AgentsKnown'
  BY DEF Known, AgentsKnown, AgentsTyped, AgentState
<1>3. BucketTyped'
  BY DEF Known, BucketTyped, Delete
<1>4. RunsTyped' /\ ScriptsTyped' /\ UploadsTyped' /\ RunsKnown' /\ ScriptsKnown' /\ UploadsKnown'
  BY DEF Known, RunsTyped, ScriptsTyped, UploadsTyped, RunsKnown, ScriptsKnown, UploadsKnown, At
<1> QED
  BY <1>1, <1>2, <1>3, <1>4 DEF Known

LEMMA KnownStep == Known /\ [Next]_vars => Known'
<1> SUFFICES ASSUME Known, [Next]_vars PROVE Known'
  OBVIOUS
<1>1. ASSUME NEW r \in Runs, Step(r) PROVE Known'
  BY <1>1, BeginKnown, MintFailsKnown, MintKnown, CopyMapKnown, StartScriptKnown, ScriptHasNoMapKnown,
     RemoveMapKnown, GiveUpKnown, CompleteKnown, AcceptKnown, AbortKnown,
     RunRaisesKnown, EndOfLoopKnown, PruneKnown
  DEF Step
<1>2. ASSUME NEW a \in Attempts, PutPart(a) \/ PutWhole(a) \/ ScriptFails(a) PROVE Known'
  BY <1>2, PutPartKnown, PutWholeKnown, ScriptFailsKnown
<1>3. ASSUME NEW g \in Agents,
             \/ AgentBegin(g) \/ AgentList(g) \/ AgentClean(g)
             \/ \E d \in Dbs : AgentPut(g, d) \/ AgentSkips(g, d)
      PROVE  Known'
  BY <1>3, AgentBeginKnown, AgentListKnown, AgentCleanKnown, AgentPutKnown, AgentSkipsKnown
<1>4. CASE Stop \/ PurgeManual
  BY <1>4, StopKnown, PurgeManualKnown
<1>5. CASE UNCHANGED vars
  BY <1>5 DEF vars, Known, RunsTyped, AgentsTyped, ScriptsTyped, UploadsTyped, BucketTyped,
              RunsKnown, AgentsKnown, ScriptsKnown, UploadsKnown, At
<1> QED
  BY <1>1, <1>2, <1>3, <1>4, <1>5 DEF Next

LEMMA AlwaysKnown == Spec => []Known
BY InitKnown, KnownStep, PTL DEF Spec

-----------------------------------------------------------------------------
(* Objects.                                                                *)

LEMMA BucketStep ==
  ASSUME [Next]_vars
  PROVE  \/ UNCHANGED bucket
         \/ \E r \in Runs : Complete(r) \/ Prune(r)
         \/ \E a \in Attempts : PutWhole(a)
         \/ \E g \in Agents : AgentClean(g) \/ \E d \in Dbs : AgentPut(g, d)
         \/ PurgeManual
BY ZenonT(60) DEF Next, vars, Step, Begin, CopyMap, StartScript, ScriptHasNoMap, RemoveMap, GiveUp, Accept, Abort, RunRaises,
       EndOfLoop, Mint, MintFails, PutPart, ScriptFails, AgentBegin, AgentList, AgentSkips, Stop

\* The bucket accepts a list of parts only if one script has sent them all.
LEMMA CompletedIsOwn ==
  ASSUME Known, NEW r \in Runs, Complete(r)
  PROVE  /\ run[r].cur \in Dbs
         /\ \A d \in Dbs, k \in Keys :
              bucket'[d][k] = IF d = run[r].cur /\ k = Area(r) THEN {At(r)} ELSE bucket[d][k]
<1>1. 1 \in 1..Parts
  BY BackupRunAssumption
<1>2. {upload[At(r)].parts[i] : i \in 1..Parts} = {At(r)}
  BY <1>1 DEF Complete, Matching
<1>3. run[r].cur \in Dbs
  BY AtIsAsked DEF Complete, SaidOk, Working
<1>4. bucket' = [bucket EXCEPT ![run[r].cur][Area(r)] = {At(r)}]
  BY <1>2 DEF Complete
<1>5. Area(r) \in Keys
  BY AreaIsKey
<1> QED
  BY <1>3, <1>4, <1>5 DEF Known, BucketTyped

LEMMA WholeStep == Known /\ WholeObjects /\ [Next]_vars => WholeObjects'
<1> SUFFICES ASSUME Known, WholeObjects, [Next]_vars, NEW d \in Dbs, NEW k \in Keys
             PROVE  Cardinality(bucket'[d][k]) <= 1
  BY DEF WholeObjects
<1>1. Cardinality({}) = 0 /\ \A x : Cardinality({x}) = 1
  BY FS_EmptySet, FS_Singleton
<1>2. Cardinality(bucket[d][k]) <= 1
  BY DEF WholeObjects
<1> DEFINE Fine == bucket'[d][k] = bucket[d][k] \/ bucket'[d][k] = {} \/ \E x : bucket'[d][k] = {x}
<1>3. Fine
  <2>1. ASSUME NEW r \in Runs, Complete(r) PROVE Fine
    <3>1. bucket'[d][k] = {At(r)} \/ bucket'[d][k] = bucket[d][k]
      BY <2>1, CompletedIsOwn, ZenonT(60)
    <3> QED
      BY <3>1
  <2>2. ASSUME NEW r \in Runs, Prune(r) PROVE Fine
    BY <2>2 DEF Prune, Delete
  <2>3. ASSUME NEW a \in Attempts, PutWhole(a) PROVE Fine
    BY <2>3, AreaIsKey DEF Known, BucketTyped, PutWhole
  <2>4. ASSUME NEW g \in Agents, AgentClean(g) PROVE Fine
    BY <2>4 DEF AgentClean, Delete
  <2>5. ASSUME NEW g \in Agents, NEW e \in Dbs, AgentPut(g, e) PROVE Fine
    BY <2>5 DEF Known, BucketTyped, AgentPut
  <2>6. CASE PurgeManual
    BY <2>6 DEF PurgeManual
  <2> QED
    BY <2>1, <2>2, <2>3, <2>4, <2>5, <2>6, BucketStep
<1> QED
  BY <1>1, <1>2, <1>3

\* An object is one run's dump, whatever other script wrote to its upload.
THEOREM StoredWhole == Spec => []WholeObjects
<1>1. Init => WholeObjects
  <2>1. Cardinality({}) = 0 /\ \A x : Cardinality({x}) = 1
    BY FS_EmptySet, FS_Singleton
  <2> SUFFICES ASSUME Init, NEW d \in Dbs, NEW k \in Keys PROVE Cardinality(bucket[d][k]) <= 1
    BY DEF WholeObjects
  <2>2. bucket[d][k] = {} \/ bucket[d][k] = {<<Past, d>>}
    BY DEF Init
  <2>3. Cardinality(bucket[d][k]) = 0 \/ Cardinality(bucket[d][k]) = 1
    BY <2>1, <2>2
  <2> QED
    BY <2>3
<1> QED
  BY <1>1, WholeStep, AlwaysKnown, PTL DEF Spec

-----------------------------------------------------------------------------
(* A backup always remains.  Lists of what may be deleted grow stale while *)
(* other pruners delete; what keeps them harmless is that each names an    *)
(* object only if a newer one is stored, and that the newest kind of       *)
(* object, today's, is never named.                                        *)

Has(d, k) == bucket[d][k] # {}

Replaceable(S) ==
  \A d \in Dbs : /\ <<d, "today">> \notin S
                 /\ <<d, "old">> \in S => Has(d, "today")
                 /\ <<d, "older">> \in S => Has(d, "today") \/ Has(d, "old")

DoomedReplaceable ==
  /\ \A r \in Runs : Replaceable(run[r].doomed)
  /\ \A g \in Agents : Replaceable(agent[g].doomed)

\* A step deletes no object of today, and one of before only when newer is there.
MovesOn ==
  \A d \in Dbs : /\ Has(d, "today") => Has(d, "today")'
                 /\ Has(d, "old") => Has(d, "old")' \/ Has(d, "today")'
                 /\ Has(d, "older") => Has(d, "older")' \/ Has(d, "old")' \/ Has(d, "today")'

LEMMA StoredIs ==
  ASSUME NEW d \in Dbs
  PROVE  Stored(d) # {} <=> Has(d, "today") \/ Has(d, "old") \/ Has(d, "older")
BY ThreeAges DEF Stored, Has

LEMMA ListedReplaceable ==
  ASSUME NEW e \in Dbs
  PROVE  Replaceable(PastRetention(e))
<1> SUFFICES ASSUME NEW d \in Dbs, NEW k, <<d, k>> \in PastRetention(e)
             PROVE  /\ k # "today"
                    /\ k = "old" => Has(d, "today")
                    /\ k = "older" => Has(d, "today") \/ Has(d, "old")
  BY DEF Replaceable
<1>1. d = e /\ k \in Stored(e) /\ k # "today" /\ k \notin Newest(e)
  BY DEF PastRetention
<1>2. PICK j \in Stored(e) : ~(Age[j] <= Age[k])
  BY <1>1 DEF Newest
<1>3. j \in Nightly /\ Has(e, j)
  BY <1>2 DEF Stored, Has
<1> QED
  BY <1>1, <1>2, <1>3, ThreeAges

LEMMA DeleteMovesOn ==
  ASSUME NEW S, Replaceable(S), Delete(S)
  PROVE  MovesOn
<1>1. PICK gone \in SUBSET S :
        bucket' = [d \in Dbs |-> [k \in Keys |-> IF <<d, k>> \in gone THEN {} ELSE bucket[d][k]]]
  BY DEF Delete
<1>2. ASSUME NEW d \in Dbs, NEW k \in Keys, <<d, k>> \notin gone PROVE bucket'[d][k] = bucket[d][k]
  BY <1>1, <1>2
<1> SUFFICES ASSUME NEW d \in Dbs
             PROVE  /\ Has(d, "today") => Has(d, "today")'
                    /\ Has(d, "old") => Has(d, "old")' \/ Has(d, "today")'
                    /\ Has(d, "older") => Has(d, "older")' \/ Has(d, "old")' \/ Has(d, "today")'
  BY DEF MovesOn
<1>3. Has(d, "today") => Has(d, "today")'
  BY <1>2, ThreeAges DEF Replaceable, Has
<1>4. Has(d, "old") => Has(d, "old")' \/ Has(d, "today")'
  BY <1>2, <1>3, ThreeAges DEF Replaceable, Has
<1>5. Has(d, "older") => Has(d, "older")' \/ Has(d, "old")' \/ Has(d, "today")'
  BY <1>2, <1>3, <1>4, ThreeAges DEF Replaceable, Has
<1> QED
  BY <1>3, <1>4, <1>5

LEMMA StepMovesOn == Known /\ DoomedReplaceable /\ [Next]_vars => MovesOn
<1> SUFFICES ASSUME Known, DoomedReplaceable, [Next]_vars PROVE MovesOn
  OBVIOUS
<1>1. ASSUME NEW r \in Runs, Complete(r) PROVE MovesOn
  <2>1. ASSUME NEW d \in Dbs, NEW k \in Keys
        PROVE  bucket'[d][k] = {At(r)} \/ bucket'[d][k] = bucket[d][k]
    BY <1>1, CompletedIsOwn, ZenonT(60)
  <2> QED
    BY <2>1, ThreeAges DEF MovesOn, Has
<1>2. ASSUME NEW r \in Runs, Prune(r) PROVE MovesOn
  BY <1>2, DeleteMovesOn DEF Prune, DoomedReplaceable
<1>3. ASSUME NEW a \in Attempts, PutWhole(a) PROVE MovesOn
  BY <1>3, AreaIsKey, ThreeAges DEF Known, BucketTyped, PutWhole, MovesOn, Has
<1>4. ASSUME NEW g \in Agents, AgentClean(g) PROVE MovesOn
  BY <1>4, DeleteMovesOn DEF AgentClean, DoomedReplaceable
<1>5. ASSUME NEW g \in Agents, NEW e \in Dbs, AgentPut(g, e) PROVE MovesOn
  BY <1>5, ThreeAges DEF Known, BucketTyped, AgentPut, MovesOn, Has
<1>6. CASE PurgeManual
  BY <1>6, ThreeAges DEF PurgeManual, MovesOn, Has
<1>7. CASE UNCHANGED bucket
  BY <1>7 DEF MovesOn, Has
<1> QED
  BY <1>1, <1>2, <1>3, <1>4, <1>5, <1>6, <1>7, BucketStep

\* A list is only ever emptied, or made from what is stored.
LEMMA DoomedStep ==
  ASSUME Known, [Next]_vars
  PROVE  /\ \A r \in Runs : run'[r].doomed \in
              {run[r].doomed, {}, UNION {PastRetention(d) : d \in Dbs}}
         /\ \A g \in Agents : agent'[g].doomed \in
              {agent[g].doomed, {}} \union {PastRetention(d) : d \in Dbs}
<1>1. UNCHANGED run \/ (\E r \in Runs : Step(r)) \/ Stop
  BY DEF Next, vars, PutPart, PutWhole, ScriptFails, AgentBegin, AgentList, AgentClean, AgentPut,
         AgentSkips, PurgeManual
<1>2. ASSUME NEW r \in Runs, Step(r), NEW q \in Runs
      PROVE  run'[q].doomed \in {run[q].doomed, {}, UNION {PastRetention(d) : d \in Dbs}}
  <2> DEFINE listed == UNION {PastRetention(d) : d \in Dbs}
  <2> HIDE DEF listed
  <2>1. CASE Begin(r) \/ CopyMap(r) \/ ScriptHasNoMap(r) \/ RemoveMap(r) \/ GiveUp(r)
    BY <2>1 DEF Known, RunsTyped, RunState, Begin, CopyMap, ScriptHasNoMap, RemoveMap, GiveUp
  <2>2. CASE Complete(r) \/ Accept(r) \/ Abort(r) \/ RunRaises(r)
    BY <2>2 DEF Known, RunsTyped, RunState, Complete, Accept, Abort, RunRaises, NextDb
  <2>3. CASE StartScript(r) \/ \E d \in Dbs : Mint(r, d) \/ MintFails(r, d)
    <3>1. ASSUME NEW d \in Dbs, Mint(r, d) PROVE run'[q].doomed = run[q].doomed
      BY <3>1 DEF Known, RunsTyped, RunState, Mint
    <3>2. ASSUME NEW d \in Dbs, MintFails(r, d) PROVE run'[q].doomed = run[q].doomed
      BY <3>2 DEF Known, RunsTyped, RunState, MintFails
    <3> QED
      BY <2>3, <3>1, <3>2 DEF StartScript
  <2>4. CASE EndOfLoop(r)
    BY <2>4 DEF Known, RunsTyped, RunState, EndOfLoop, listed
  <2>5. CASE Prune(r)
    BY <2>5 DEF Known, RunsTyped, RunState, Prune
  <2> QED
    BY <1>2, <2>1, <2>2, <2>3, <2>4, <2>5 DEF Step, listed
<1>3. ASSUME Stop, NEW q \in Runs PROVE run'[q].doomed = run[q].doomed
  BY <1>3 DEF Known, RunsTyped, RunState, Stop
<1>4. ASSUME NEW g \in Agents
      PROVE  agent'[g].doomed \in {agent[g].doomed, {}} \union {PastRetention(d) : d \in Dbs}
  <2>1. \/ UNCHANGED agent
        \/ \E h \in Agents : \/ AgentBegin(h) \/ AgentList(h) \/ AgentClean(h)
                             \/ \E d \in Dbs : AgentPut(h, d) \/ AgentSkips(h, d)
    BY ZenonT(60) DEF Next, vars, Step, PutPart, PutWhole, ScriptFails, PurgeManual, Stop, Begin, CopyMap,
           StartScript, ScriptHasNoMap, RemoveMap, GiveUp, Complete, Accept, Abort, RunRaises, EndOfLoop, Prune,
           Mint, MintFails
  <2>2. ASSUME NEW h \in Agents, AgentBegin(h) PROVE agent'[g].doomed = agent[g].doomed
    BY <2>2 DEF Known, AgentsTyped, AgentState, AgentBegin
  <2>3. ASSUME NEW h \in Agents, AgentList(h)
        PROVE  agent'[g].doomed \in {agent[g].doomed} \union {PastRetention(d) : d \in Dbs}
    BY <2>3 DEF Known, AgentsTyped, AgentState, AgentList, AgentsKnown
  <2>4. ASSUME NEW h \in Agents, AgentClean(h) PROVE agent'[g].doomed \in {agent[g].doomed, {}}
    BY <2>4 DEF Known, AgentsTyped, AgentState, AgentClean
  <2>5. ASSUME NEW h \in Agents, NEW d \in Dbs, AgentPut(h, d) \/ AgentSkips(h, d)
        PROVE  agent'[g].doomed = agent[g].doomed
    BY <2>5 DEF Known, AgentsTyped, AgentState, AgentPut, AgentSkips
  <2> QED
    BY <2>1, <2>2, <2>3, <2>4, <2>5
<1> QED
  BY <1>1, <1>2, <1>3, <1>4

LEMMA FloorStep ==
  Known /\ DoomedReplaceable /\ AlwaysABackup /\ [Next]_vars => DoomedReplaceable' /\ AlwaysABackup'
<1> SUFFICES ASSUME Known, DoomedReplaceable, AlwaysABackup, [Next]_vars
             PROVE  DoomedReplaceable' /\ AlwaysABackup'
  OBVIOUS
<1>1. MovesOn
  BY StepMovesOn
<1>2. AlwaysABackup'
  <2> SUFFICES ASSUME NEW d \in Dbs PROVE Stored(d)' # {}
    BY DEF AlwaysABackup
  <2>1. Has(d, "today") \/ Has(d, "old") \/ Has(d, "older")
    BY StoredIs DEF AlwaysABackup
  <2>2. Has(d, "today")' \/ Has(d, "old")' \/ Has(d, "older")'
    BY <1>1, <2>1 DEF MovesOn
  <2> QED
    BY <2>2, ThreeAges DEF Stored, Has
<1>3. ASSUME NEW S, Replaceable(S) PROVE Replaceable(S)'
  BY <1>1, <1>3 DEF MovesOn, Replaceable
<1>4. Replaceable({}) /\ Replaceable(UNION {PastRetention(d) : d \in Dbs})
  BY ListedReplaceable DEF Replaceable
<1>5. DoomedReplaceable'
  <2>1. ASSUME NEW r \in Runs PROVE Replaceable(run[r].doomed)'
    <3>1. Replaceable(run'[r].doomed)
      BY <1>4, DoomedStep DEF DoomedReplaceable
    <3> QED
      BY <1>1, <3>1 DEF MovesOn, Replaceable
  <2>2. ASSUME NEW g \in Agents PROVE Replaceable(agent[g].doomed)'
    <3>1. Replaceable(agent'[g].doomed)
      BY <1>4, ListedReplaceable, DoomedStep DEF DoomedReplaceable
    <3> QED
      BY <1>1, <3>1 DEF MovesOn, Replaceable
  <2> QED
    BY <2>1, <2>2 DEF DoomedReplaceable
<1> QED
  BY <1>2, <1>5

LEMMA AlwaysFloor == Spec => [](DoomedReplaceable /\ AlwaysABackup)
<1>1. Init => DoomedReplaceable /\ AlwaysABackup
  <2> SUFFICES ASSUME Init PROVE DoomedReplaceable /\ AlwaysABackup
    OBVIOUS
  <2>1. DoomedReplaceable
    BY DEF Init, DoomedReplaceable, Replaceable
  <2>2. PICK k \in Nightly : k \in Stock
    BY BackupRunAssumption, ThreeAges
  <2>3. \A d \in Dbs : bucket[d][k] # {}
    BY <2>2, ThreeAges DEF Init
  <2>4. AlwaysABackup
    BY <2>2, <2>3 DEF AlwaysABackup, Stored
  <2> QED
    BY <2>1, <2>4
<1> QED
  BY <1>1, FloorStep, AlwaysKnown, PTL DEF Spec

\* However many pruners work side by side, on lists that are no longer true,
\* a database with a nightly backup is never left without one.
THEOREM NeverWithoutBackup == Spec => []AlwaysABackup
BY AlwaysFloor, PTL

-----------------------------------------------------------------------------
(* Runs that share the server's URL map.  A script may have taken the map  *)
(* of another run, for good: the map a script executes stays the same, and *)
(* so does what the log holds.                                             *)

LEMMA TargetStays ==
  ASSUME Known, [Next]_vars, NEW a \in Attempts, script[a].target # NoMap
  PROVE  script'[a].target = script[a].target
<1>1. ASSUME NEW b \in Attempts, PutPart(b) \/ PutWhole(b) \/ ScriptFails(b)
      PROVE  script'[a].target = script[a].target
  BY <1>1 DEF PutPart, PutWhole, ScriptFails, Known, ScriptsTyped, Script
<1>2. ASSUME NEW r \in Runs, StartScript(r) PROVE script'[a].target = script[a].target
  <2>1. At(r) # a
    BY <1>2 DEF StartScript, Known, ScriptsKnown
  <2> QED
    BY <1>2, <2>1 DEF StartScript, Known, ScriptsTyped
<1>3. \/ \E b \in Attempts : PutWhole(b) \/ PutPart(b) \/ ScriptFails(b)
      \/ \E r \in Runs : StartScript(r)
      \/ UNCHANGED script
  BY ZenonT(60) DEF Next, vars, Step, Begin, CopyMap, ScriptHasNoMap, RemoveMap, GiveUp, Complete, Accept, Abort,
         RunRaises, EndOfLoop, Prune, Mint, MintFails, AgentBegin, AgentList, AgentClean, AgentPut, AgentSkips,
         Stop, PurgeManual
<1> QED
  BY <1>1, <1>2, <1>3

LEMMA LogGrows ==
  ASSUME [Next]_vars
  PROVE  logged \subseteq logged'
<1>1. ASSUME NEW r \in Runs, Step(r) PROVE logged \subseteq logged'
  <2>1. CASE Abort(r) \/ RunRaises(r) \/ \E d \in Dbs : MintFails(r, d)
    BY <2>1 DEF Abort, AbortUpload, RunRaises, MintFails, Log
  <2>2. CASE ~(Abort(r) \/ RunRaises(r) \/ \E d \in Dbs : MintFails(r, d))
    <3>1. UNCHANGED logged
      BY <1>1, <2>2, ZenonT(60) DEF Step, Begin, CopyMap, StartScript, ScriptHasNoMap, RemoveMap, GiveUp,
            Complete, Accept, EndOfLoop, Prune, Mint
    <3> QED
      BY <3>1
  <2> QED
    BY <2>1, <2>2
<1>2. (\E r \in Runs : Step(r)) \/ UNCHANGED logged
  BY DEF Next, vars, PutPart, PutWhole, ScriptFails, AgentBegin, AgentList, AgentClean, AgentPut,
         AgentSkips, Stop, PurgeManual
<1> QED
  BY <1>1, <1>2

\* The reasons for an open upload that no step takes back.
Explained(a) ==
  \/ run[a[1]].pc = "dead"
  \/ a \in logged
  \/ script[a].target # NoMap /\ ~Multi(script[a].target)

Owned(a) == AtWork(a) \/ Explained(a)

\* Another run's step leaves an attempt alone.
LEMMA OtherStep ==
  ASSUME Known, NEW a \in Attempts, NEW q \in Runs, q # a[1], Step(q)
  PROVE  run'[a[1]] = run[a[1]] /\ upload'[a] = upload[a]
<1>0. a[1] \in Runs /\ a[2] \in Dbs /\ a = <<a[1], a[2]>>
  BY AttemptParts
<1>1. CASE Begin(q) \/ CopyMap(q) \/ StartScript(q) \/ ScriptHasNoMap(q) \/ RemoveMap(q) \/ GiveUp(q)
           \/ EndOfLoop(q) \/ Prune(q) \/ RunRaises(q)
  BY <1>0, <1>1 DEF Known, RunsTyped, Begin, CopyMap, StartScript, ScriptHasNoMap, RemoveMap,
                    GiveUp, EndOfLoop, Prune, RunRaises, NextDb
<1>2. CASE Complete(q) \/ Accept(q) \/ Abort(q)
  <2>1. run'[a[1]] = run[a[1]]
    BY <1>0, <1>2 DEF Known, RunsTyped, Complete, Accept, Abort, NextDb
  <2>2. At(q) # a
    BY <1>0 DEF At
  <2>3. upload'[a] = upload[a]
    BY <1>2, <2>2 DEF Known, UploadsTyped, Complete, Accept, Abort, AbortUpload
  <2> QED
    BY <2>1, <2>3
<1>3. ASSUME NEW e \in Dbs, Mint(q, e) \/ MintFails(q, e)
      PROVE  run'[a[1]] = run[a[1]] /\ upload'[a] = upload[a]
  <2>1. <<q, e>> # a
    BY <1>0
  <2>2. run'[a[1]] = run[a[1]]
    BY <1>0, <1>3 DEF Known, RunsTyped, Mint, MintFails
  <2>3. upload'[a] = upload[a]
    BY <1>3, <2>1 DEF Known, UploadsTyped, Mint, MintFails, Created
  <2> QED
    BY <2>2, <2>3
<1> QED
  BY <1>1, <1>2, <1>3 DEF Step

LEMMA ExplainedStays ==
  ASSUME Known, [Next]_vars, NEW a \in Attempts, Explained(a)
  PROVE  Explained(a)'
<1>1. CASE run[a[1]].pc = "dead"
  <2>1. a[1] \in Runs
    BY AttemptParts
  <2>2. ASSUME NEW q \in Runs, Step(q) PROVE run'[a[1]].pc = "dead"
    <3>1. q # a[1]
      BY <1>1, <2>2 DEF Step, Begin, CopyMap, StartScript, ScriptHasNoMap, RemoveMap, GiveUp, Complete,
                        Accept, Abort, RunRaises, EndOfLoop, Prune, Mint, MintFails, SaidOk
    <3>2. run'[a[1]] = run[a[1]]
      BY <2>2, <3>1, OtherStep
    <3> QED
      BY <1>1, <3>2
  <2>3. ASSUME Stop PROVE run'[a[1]].pc = "dead"
    BY <1>1, <2>1, <2>3 DEF Stop, Known, RunsTyped, RunState
  <2>4. (\E q \in Runs : Step(q)) \/ Stop \/ UNCHANGED run
    BY DEF Next, vars, PutPart, PutWhole, ScriptFails, AgentBegin, AgentList, AgentClean, AgentPut,
           AgentSkips, PurgeManual
  <2>5. run'[a[1]].pc = "dead"
    BY <1>1, <2>2, <2>3, <2>4
  <2> QED
    BY <2>5 DEF Explained
<1>2. CASE a \in logged
  BY <1>2, LogGrows DEF Explained
<1>3. CASE script[a].target # NoMap /\ ~Multi(script[a].target)
  <2>1. script'[a].target = script[a].target
    BY <1>3, TargetStays
  <2> QED
    BY <1>3, <2>1 DEF Explained, Multi
<1> QED
  BY <1>1, <1>2, <1>3 DEF Explained

\* What the last step of a run's work on a database does to its upload.
LEMMA WorkEnds ==
  ASSUME Known, NEW r \in Runs, Complete(r) \/ Accept(r) \/ Abort(r) \/ RunRaises(r),
         NEW a \in Attempts
  PROVE  IF a = At(r) THEN upload'[a].state = "open" => Explained(a)'
                      ELSE upload'[a] = upload[a] /\ <<r, run[r].cur>> # a
<1>1. At(r) \in Attempts /\ At(r) = <<r, run[r].cur>> /\ At(r)[1] = r
  BY AtIsAsked DEF Complete, Accept, Abort, RunRaises, SaidOk, Working, At
<1>2. CASE a # At(r)
  BY <1>1, <1>2 DEF Known, UploadsTyped, Complete, Accept, Abort, AbortUpload, RunRaises
<1> SUFFICES ASSUME upload'[a].state = "open", a = At(r) PROVE Explained(a)'
  BY <1>1, <1>2
<1>3. CASE Complete(r)
  BY <1>1, <1>3 DEF Known, UploadsTyped, Upload, Complete
<1>4. CASE Accept(r)
  <2>1. upload[a].state = "open"
    BY <1>4 DEF Accept
  <2>2. Multi(a)
    BY <1>1, <2>1 DEF Known, UploadsTyped
  <2>3. Asked(script[a].target) /\ ~Multi(script[a].target) /\ UNCHANGED script
    BY <1>1, <1>4, <2>2 DEF Accept, SaidOk, Known, ScriptsKnown
  <2>4. script[a].target # NoMap
    BY <2>3, BackupRunAssumption DEF Asked
  <2> QED
    BY <2>3, <2>4 DEF Explained, Multi
<1>5. CASE Abort(r)
  <2>1. CASE UNCHANGED upload
    <3>1. upload[a].state = "open"
      BY <2>1
    <3>2. Multi(a)
      BY <1>1, <3>1 DEF Known, UploadsTyped
    <3>3. upload[a].state = "aborted" \/ a \in logged'
      BY <1>1, <1>5, <3>2 DEF Abort, AbortUpload, Log, Known, UploadsTyped, Upload
    <3> QED
      BY <3>1, <3>3 DEF Explained
  <2>2. CASE upload' = [upload EXCEPT ![At(r)].state = "aborted"]
    BY <1>1, <2>2 DEF Known, UploadsTyped, Upload
  <2> QED
    BY <1>5, <2>1, <2>2 DEF Abort, AbortUpload
<1>6. CASE RunRaises(r)
  <2>1. upload[a].state = "open"
    BY <1>6 DEF RunRaises
  <2>2. Multi(a)
    BY <1>1, <2>1 DEF Known, UploadsTyped
  <2>3. a \in logged'
    BY <1>6, <2>2 DEF RunRaises, Log
  <2> QED
    BY <2>3 DEF Explained
<1> QED
  BY <1>3, <1>4, <1>5, <1>6

\* What a step does to the upload of an attempt and to the run that owns it.
LEMMA OwnedStep ==
  ASSUME Known, [Next]_vars, NEW a \in Attempts,
         upload[a].state = "open" => Owned(a),
         upload'[a].state = "open"
  PROVE  Owned(a)'
<1> DEFINE r == a[1]
           d == a[2]
<1>0. r \in Runs /\ d \in Dbs /\ a = <<r, d>>
  BY AttemptParts
<1> HIDE DEF r, d
<1>1. ASSUME upload[a].state = "open", run'[r].pc = run[r].pc, run'[r].cur = run[r].cur
      PROVE  Owned(a)'
  <2>1. CASE AtWork(a)
    BY <1>1, <2>1 DEF Owned, AtWork, r
  <2>2. CASE Explained(a)
    BY <2>2, ExplainedStays DEF Owned
  <2> QED
    BY <1>1, <2>1, <2>2 DEF Owned
\* Where the run is at work on nothing, or on another database.
<1>2. ASSUME upload[a].state = "open", ~AtWork(a) PROVE Owned(a)'
  BY <1>2, ExplainedStays DEF Owned
<1>3. ASSUME Step(r) PROVE Owned(a)'
  <2>1. CASE Begin(r) \/ EndOfLoop(r) \/ Prune(r)
    <3>1. upload[a].state = "open" /\ run[r].pc \in {"idle", "next", "prune"}
      BY <2>1 DEF Begin, EndOfLoop, Prune
    <3> QED
      BY <1>2, <3>1 DEF AtWork, r
  <2>2. CASE CopyMap(r) \/ StartScript(r) \/ ScriptHasNoMap(r) \/ RemoveMap(r) \/ GiveUp(r)
    <3>1. upload[a].state = "open" /\ run[r].pc \in {"copy", "script"}
      BY <2>2 DEF CopyMap, StartScript, ScriptHasNoMap, RemoveMap, GiveUp
    <3>2. run'[r].pc \in Working /\ run'[r].cur = run[r].cur
      BY <1>0, <2>2, <3>1 DEF Known, RunsTyped, RunState, Working, CopyMap, StartScript, ScriptHasNoMap,
                        RemoveMap, GiveUp
    <3>3. AtWork(a) => AtWork(a)'
      BY <3>1, <3>2 DEF AtWork, Working, r
    <3> QED
      BY <1>2, <3>1, <3>3 DEF Owned
  <2>3. CASE Complete(r) \/ Accept(r) \/ Abort(r) \/ RunRaises(r)
    <3>1. CASE a = At(r)
      BY <1>0, <2>3, <3>1, WorkEnds DEF Owned
    <3>2. CASE a # At(r)
      <4>1. upload[a].state = "open" /\ <<r, run[r].cur>> # <<r, d>>
        BY <1>0, <2>3, <3>2, WorkEnds
      <4>2. ~AtWork(a)
        BY <4>1 DEF AtWork, r, d
      <4> QED
        BY <1>2, <4>1, <4>2
    <3> QED
      BY <3>1, <3>2
  <2>4. ASSUME NEW e \in Dbs, Mint(r, e) PROVE Owned(a)'
    <3>1. run[r].pc = "next" /\ run'[r].pc = "copy" /\ run'[r].cur = e
      BY <1>0, <2>4 DEF Known, RunsTyped, RunState, Mint
    <3>2. CASE d = e
      BY <3>1, <3>2 DEF Owned, AtWork, r, d
    <3>3. CASE d # e
      <4>1. a # <<r, e>>
        BY <1>0, <3>3
      <4>2. upload'[a] = upload[a]
        BY <2>4, <4>1 DEF Known, UploadsTyped, Mint, Created
      <4>3. ~AtWork(a)
        BY <3>1 DEF AtWork, r
      <4> QED
        BY <1>2, <4>2, <4>3
    <3> QED
      BY <3>2, <3>3
  <2>5. ASSUME NEW e \in Dbs, MintFails(r, e) PROVE Owned(a)'
    <3>1. ~AtWork(a)
      BY <2>5 DEF MintFails, AtWork, r
    <3>2. CASE upload'[a] = upload[a]
      BY <1>2, <3>1, <3>2
    <3>3. CASE upload'[a] # upload[a]
      <4>1. a = <<r, e>> /\ Multi(<<r, e>>)
        BY <2>5, <3>3 DEF Known, UploadsTyped, MintFails, Created
      <4>2. a \in logged'
        BY <2>5, <4>1 DEF MintFails, Log
      <4> QED
        BY <4>2 DEF Owned, Explained
    <3> QED
      BY <3>2, <3>3
  <2> QED
    BY <1>3, <2>1, <2>2, <2>3, <2>4, <2>5 DEF Step
<1>4. ASSUME NEW b \in Attempts, PutPart(b) PROVE Owned(a)'
  <2> DEFINE t == script[b].target
  <2>1. t \in Attempts /\ upload[t].state = "open"
    BY <1>4 DEF PutPart, Known, ScriptsKnown, Asked
  <2>2. upload' = [upload EXCEPT ![t] = [upload[t] EXCEPT !.parts[script[b].sent + 1] = b]]
    BY <1>4 DEF PutPart, Known, UploadsTyped
  <2>3. upload'[a].state = upload[a].state
    <3> HIDE DEF t
    <3>1. CASE a = t
      BY <2>1, <2>2, <3>1 DEF Known, UploadsTyped, Upload
    <3>2. CASE a # t
      BY <2>2, <3>2 DEF Known, UploadsTyped
    <3> QED
      BY <3>1, <3>2
  <2> QED
    BY <1>1, <1>4, <2>3 DEF PutPart
<1>5. CASE Stop
  <2>1. upload[a].state = "open"
    BY <1>5 DEF Stop
  <2>2. CASE AtWork(a)
    <3>1. run'[r].pc = "dead"
      BY <1>0, <1>5, <2>2 DEF Known, RunsTyped, RunState, Stop, AtWork, r
    <3> QED
      BY <3>1 DEF Owned, Explained, r
  <2> QED
    BY <1>2, <2>1, <2>2
<1>6. CASE UNCHANGED <<run, upload>>
  BY <1>1, <1>6
<1>7. \/ \E q \in Runs : Step(q)
      \/ \E b \in Attempts : PutPart(b)
      \/ Stop \/ UNCHANGED <<run, upload>>
  BY DEF Next, vars, PutWhole, ScriptFails, AgentBegin, AgentList, AgentClean, AgentPut, AgentSkips, PurgeManual
<1>8. ASSUME NEW q \in Runs, q # r, Step(q) PROVE Owned(a)'
  <2>1. run'[r] = run[r] /\ upload'[a] = upload[a]
    BY <1>8, OtherStep DEF r
  <2> QED
    BY <1>1, <2>1
<1> QED
  BY <1>3, <1>4, <1>5, <1>6, <1>7, <1>8

\* A multipart upload that a run leaves open behind it is in the log, or its
\* script executed the map of a run that stores the database with one PUT.
THEOREM NoOpenLeftovers == Spec => []OpenIsOwned
<1>1. Init => OpenIsOwned
  BY DEF Init, OpenIsOwned
<1>2. Known /\ OpenIsOwned /\ [Next]_vars => OpenIsOwned'
  <2> SUFFICES ASSUME Known, OpenIsOwned, [Next]_vars, NEW a \in Attempts, upload'[a].state = "open"
               PROVE  Owned(a)'
    BY DEF OpenIsOwned, Owned, Explained
  <2>1. upload[a].state = "open" => Owned(a)
    BY DEF OpenIsOwned, Owned, Explained
  <2> QED
    BY <2>1, OwnedStep
<1> QED
  BY <1>1, <1>2, AlwaysKnown, PTL DEF Spec

\* A script that said ok after one PUT to a nightly key has stored there.
OkIsStored ==
  \A a \in Attempts :
    LET t == script[a].target IN
    script[a].state = "ok" /\ ~Multi(t) /\ Kind[t[1]] = "daily" => Has(t[2], "today")

LEMMA OkStep ==
  ASSUME Known, MovesOn, OkIsStored, [Next]_vars
  PROVE  OkIsStored'
<1> SUFFICES ASSUME NEW a \in Attempts, script'[a].state = "ok", ~Multi(script'[a].target),
                    Kind[script'[a].target[1]] = "daily"
             PROVE  bucket'[script'[a].target[2]]["today"] # {}
  BY DEF OkIsStored, Multi, Has
<1>1. ASSUME script'[a] = script[a] PROVE bucket'[script'[a].target[2]]["today"] # {}
  <2>1. Asked(script[a].target)
    BY <1>1 DEF Known, ScriptsKnown
  <2>2. script[a].target[2] \in Dbs
    BY <2>1, AttemptParts DEF Asked
  <2>3. Has(script[a].target[2], "today")
    BY <1>1 DEF OkIsStored
  <2>4. bucket'[script[a].target[2]]["today"] # {}
    BY <2>2, <2>3 DEF MovesOn, Has
  <2> QED
    BY <1>1, <2>4
<1>2. ASSUME NEW b \in Attempts, PutWhole(b), b = a PROVE bucket'[script'[a].target[2]]["today"] # {}
  <2> DEFINE t == script[a].target
  <2>1. Asked(t)
    BY <1>2 DEF PutWhole, Known, ScriptsKnown
  <2>2. t \in Attempts /\ t[1] \in Runs /\ t[2] \in Dbs
    BY <2>1, AttemptParts DEF Asked
  <2>3. script'[a].target = t
    BY <1>2 DEF PutWhole, Known, ScriptsTyped, Script
  <2>4. Area(t[1]) = "today"
    BY <2>3 DEF Area
  <2>5. bucket' = [bucket EXCEPT ![t[2]]["today"] = {a}]
    BY <1>2, <2>4 DEF PutWhole
  <2>6. bucket'[t[2]]["today"] = {a}
    BY <2>2, <2>5, ThreeAges DEF Known, BucketTyped
  <2> QED
    BY <2>3, <2>6
<1>3. ASSUME NEW b \in Attempts, PutWhole(b), b # a PROVE script'[a] = script[a]
  BY <1>3 DEF PutWhole, Known, ScriptsTyped
<1>4. ASSUME NEW b \in Attempts, PutPart(b) PROVE script'[a] = script[a]
  <2>1. CASE b = a
    <3>1. script'[a].target = script[a].target
      BY <1>4, <2>1 DEF PutPart, Known, ScriptsTyped, Script
    <3> QED
      BY <1>4, <2>1, <3>1 DEF PutPart
  <2>2. CASE b # a
    BY <1>4, <2>2 DEF PutPart, Known, ScriptsTyped
  <2> QED
    BY <2>1, <2>2
<1>5. ASSUME NEW b \in Attempts, ScriptFails(b) PROVE script'[a] = script[a]
  BY <1>5 DEF ScriptFails, Known, ScriptsTyped, Script
<1>6. ASSUME NEW r \in Runs, StartScript(r) PROVE script'[a] = script[a]
  BY <1>6, AtIsAsked DEF StartScript, Known, ScriptsTyped, Script, Working
<1>7. \/ \E b \in Attempts : PutWhole(b) \/ PutPart(b) \/ ScriptFails(b)
      \/ \E r \in Runs : StartScript(r)
      \/ UNCHANGED script
  BY DEF Next, vars, Step, Begin, CopyMap, ScriptHasNoMap, RemoveMap, GiveUp, Complete, Accept, Abort,
         RunRaises, EndOfLoop, Prune, Mint, MintFails, AgentBegin, AgentList, AgentClean, AgentPut, AgentSkips,
         Stop, PurgeManual
<1> QED
  BY <1>1, <1>2, <1>3, <1>4, <1>5, <1>6, <1>7

\* What a daily run adds to what it has stored is stored.
LEMMA DoneStep ==
  ASSUME Known, MovesOn, OkIsStored, DoneIsStored, [Next]_vars
  PROVE  DoneIsStored'
<1> SUFFICES ASSUME NEW r \in Runs, Kind[r] = "daily", NEW d \in run'[r].done
             PROVE  Has(d, "today")' \/ Misled(r, d)'
  BY DEF DoneIsStored, Has
<1>1. ASSUME d \in run[r].done PROVE Has(d, "today")' \/ Misled(r, d)'
  <2>1. d \in Dbs /\ <<r, d>> \in Attempts /\ (Has(d, "today") \/ Misled(r, d))
    BY <1>1 DEF DoneIsStored, Has, Known, RunsTyped, RunState, Attempts
  <2>2. CASE Has(d, "today")
    BY <2>1, <2>2 DEF MovesOn
  <2>3. CASE Misled(r, d)
    <3>1. script'[<<r, d>>].target = script[<<r, d>>].target
      BY <2>1, <2>3, TargetStays DEF Misled
    <3> QED
      BY <2>3, <3>1 DEF Misled
  <2> QED
    BY <2>1, <2>2, <2>3
<1>2. ASSUME Complete(r), d = run[r].cur PROVE Has(d, "today")'
  <2>1. d \in Dbs /\ Area(r) = "today" /\ "today" \in Keys
    BY <1>2, CompletedIsOwn, AreaIsKey, ThreeAges
  <2>2. bucket'[d]["today"] = {At(r)}
    BY <1>2, <2>1, CompletedIsOwn
  <2> QED
    BY <2>2 DEF Has
<1>3. ASSUME Accept(r), d = run[r].cur PROVE Has(d, "today")' \/ Misled(r, d)'
  <2> DEFINE t == script[<<r, d>>].target
  <2>1. /\ At(r) = <<r, d>> /\ <<r, d>> \in Attempts /\ d \in Dbs
        /\ script[<<r, d>>].state = "ok" /\ t[2] = d
    BY <1>3, AtIsAsked DEF Accept, SaidOk, Working, At
  <2>2. t \in Attempts /\ t[1] \in Runs
    BY <2>1, AttemptParts DEF Known, ScriptsKnown, Asked
  <2>3. CASE Kind[t[1]] # "daily"
    <3>1. t # NoMap /\ UNCHANGED script
      BY <1>3, <2>2, BackupRunAssumption DEF Accept
    <3> QED
      BY <2>1, <2>3, <3>1 DEF Misled
  <2>4. CASE Kind[t[1]] = "daily"
    <3>1. Multi(<<r, d>>) <=> Multi(t)
      BY <2>1, <2>4 DEF Multi
    <3>2. ~Multi(t)
      BY <1>3, <2>1, <3>1 DEF Accept
    <3>3. Has(d, "today")
      BY <2>1, <2>4, <3>2 DEF OkIsStored
    <3> QED
      BY <2>1, <3>3 DEF MovesOn
  <2> QED
    BY <2>3, <2>4
<1>4. ASSUME NEW q \in Runs, Step(q)
      PROVE  d \in run[r].done \/ ((Complete(r) \/ Accept(r)) /\ d = run[r].cur)
  <2>1. CASE Begin(q) \/ CopyMap(q) \/ StartScript(q) \/ ScriptHasNoMap(q) \/ RemoveMap(q) \/ GiveUp(q)
             \/ EndOfLoop(q) \/ Prune(q)
    <3>1. run'[r].done = run[r].done
      BY <2>1 DEF Known, RunsTyped, RunState, Begin, CopyMap, StartScript, ScriptHasNoMap, RemoveMap,
                  GiveUp, EndOfLoop, Prune
    <3> QED
      BY <3>1
  <2>2. CASE Complete(q) \/ Accept(q) \/ Abort(q) \/ RunRaises(q)
    <3>1. CASE q = r
      <4>1. run'[r].done = run[r].done 
             \/ (~Abort(r) /\ ~RunRaises(r) /\ run'[r].done = run[r].done \union {run[r].cur})
        BY <2>2, <3>1 DEF Known, RunsTyped, RunState, Complete, Accept, Abort, RunRaises, NextDb, SaidOk
      <4> QED
        BY <2>2, <3>1, <4>1
    <3>2. CASE q # r
      <4>1. run'[r] = run[r]
        BY <2>2, <3>2 DEF Known, RunsTyped, Complete, Accept, Abort, RunRaises, NextDb
      <4> QED
        BY <4>1
    <3> QED
      BY <3>1, <3>2
  <2>3. ASSUME NEW e \in Dbs, Mint(q, e) \/ MintFails(q, e) PROVE d \in run[r].done
    <3>1. run'[r].done = run[r].done
      BY <2>3 DEF Known, RunsTyped, RunState, Mint, MintFails
    <3> QED
      BY <3>1
  <2> QED
    BY <1>4, <2>1, <2>2, <2>3 DEF Step
<1>5. CASE Stop
  BY <1>1, <1>5 DEF Known, RunsTyped, RunState, Stop
<1>6. (\E q \in Runs : Step(q)) \/ Stop \/ UNCHANGED run
  BY DEF Next, vars, PutPart, PutWhole, ScriptFails, AgentBegin, AgentList, AgentClean, AgentPut,
         AgentSkips, PurgeManual
<1> QED
  BY <1>1, <1>2, <1>3, <1>4, <1>5, <1>6

\* What a daily run reports as uploaded is in the bucket, unless its script took
\* the map of a Backup Now of that database.
THEOREM ReportedIsStored == Spec => []DoneIsStored
<1>1. Init => OkIsStored /\ DoneIsStored
  BY DEF Init, OkIsStored, DoneIsStored
<1>2. Known /\ DoomedReplaceable /\ OkIsStored /\ DoneIsStored /\ [Next]_vars => OkIsStored' /\ DoneIsStored'
  BY StepMovesOn, OkStep, DoneStep
<1> QED
  BY <1>1, <1>2, AlwaysKnown, AlwaysFloor, PTL DEF Spec

=============================================================================
