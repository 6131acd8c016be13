------------------------------- MODULE BackupRun -------------------------------
(***************************************************************************)
(* One day of backups of one server.  A manager-driven run (Run Backup,    *)
(* the nightly cron, the verify pass's fallback, or Backup Now for a       *)
(* single database) mints pre-signed URLs for one database, starts a       *)
(* playbook that writes them to a file on the server, and finishes the     *)
(* multipart upload from what smart_backup.py printed.  Runs are not       *)
(* serialised, and all of them use the same file.  The server's own agent  *)
(* uploads under the same keys.  Both prune old objects afterwards.        *)
(*                                                                         *)
(* An attempt <<r, d>> is run r's work on database d; it also names the    *)
(* multipart upload created for it, and the ETag of what its script PUTs.  *)
(***************************************************************************)
EXTENDS Naturals, FiniteSets

CONSTANTS
  Dbs,       \* the databases of the server
  Runs,      \* manager-driven runs, each one used once
  Kind,      \* Kind[r]: "daily", or Backup Now as "zip" or "sql"
  Agents,    \* runs of the agent, each one used once
  Scope,     \* Scope[r]: the databases a run (or agent) may be asked for
  Stock,     \* which past nightly objects every database has at the start
  Large,     \* databases whose zip needs a multipart upload
  LargeSql,  \* databases whose plain dump alone needs one
  Parts,     \* parts of a multipart upload
  NoMap, Past

Attempts == Runs \X Dbs
\* Where a run stores: the dated nightly folder, or manual/ by extension.
Area(r) == IF Kind[r] = "daily" THEN "today" ELSE Kind[r]
\* Nightly objects, the first two past their retention; larger is newer.
Age == [older |-> 1, old |-> 2, today |-> 3]
Nightly == DOMAIN Age
Keys == Nightly \union {"zip", "sql"}
Multi(a) == IF Kind[a[1]] = "sql" THEN a[2] \in LargeSql ELSE a[2] \in Large
Builders == Attempts \union (Agents \X Dbs) \union {<<Past, d>> : d \in Dbs}

ASSUME BackupRunAssumption ==
  /\ Kind \in [Runs -> {"daily", "zip", "sql"}]
  /\ Scope \in [Runs \union Agents -> SUBSET Dbs]
  /\ Stock \subseteq {"older", "old"} /\ Stock # {}
  /\ Parts \in Nat \ {0}
  /\ NoMap \notin Attempts
  /\ Runs \intersect Agents = {} /\ Past \notin Runs \union Agents

VARIABLES
  run,     \* the manager's side of each run
  agent,   \* each run of the server's own agent
  urlmap,  \* /tmp/.odoo_backup_targets.json: the attempt it was written for
  script,  \* smart_backup.py on the server, one per attempt
  upload,  \* the multipart uploads in the bucket
  bucket,  \* bucket[d][k]: whose dumps the object is made of ({}: no object)
  logged   \* multipart attempts of which the log has an exception

vars == <<run, agent, urlmap, script, upload, bucket, logged>>

At(r) == <<r, run[r].cur>>

Init ==
  /\ run = [r \in Runs |-> [pc |-> "idle", todo |-> {}, cur |-> NoMap,
                            done |-> {}, doomed |-> {}]]
  /\ agent = [g \in Agents |-> [pc |-> "idle", todo |-> {}, cur |-> NoMap, doomed |-> {}]]
  /\ urlmap = NoMap
  /\ script = [a \in Attempts |-> [state |-> "none", target |-> NoMap, sent |-> 0]]
  /\ upload = [a \in Attempts |-> [state |-> "none", parts |-> <<>>]]
  /\ bucket = [d \in Dbs |-> [k \in Keys |->
                 IF k \in Stock THEN {<<Past, d>>} ELSE {}]]
  /\ logged = {}

-----------------------------------------------------------------------------
(* The manager.                                                            *)

\* What the sizing playbook may return of the databases asked for: one that
\* cannot be reached is left out.
Sized(r) ==
  {items \in SUBSET Scope[r] : Kind[r] = "daily" \/ Cardinality(items) <= 1}

\* Without any database the run is over.
Begin(r) ==
  /\ run[r].pc = "idle"
  /\ \E items \in Sized(r) : run' = [run EXCEPT ![r].pc = "next", ![r].todo = items]
  /\ UNCHANGED <<agent, urlmap, script, upload, bucket, logged>>

\* The upload of an attempt as the bucket creates it.
Created(a) ==
  [upload EXCEPT ![a] = [state |-> "open", parts |-> [i \in 1..Parts |-> NoMap]]]

\* An exception of an attempt goes to the log.
Log(a) == logged' = IF Multi(a) THEN logged \union {a} ELSE logged

\* Minting the URLs of d raises: the daily loop logs it and goes on, Backup Now
\* ends.  A multipart upload may have been created by then; nobody aborts it.
MintFails(r, d) ==
  /\ run[r].pc = "next" /\ d \in run[r].todo
  /\ run' = [run EXCEPT ![r].todo = @ \ {d}]
  /\ \/ UNCHANGED upload
     \/ Multi(<<r, d>>) /\ upload' = Created(<<r, d>>)
  /\ Log(<<r, d>>)
  /\ UNCHANGED <<agent, urlmap, script, bucket>>

\* _backup_db_to_key up to the playbook
Mint(r, d) ==
  /\ run[r].pc = "next" /\ d \in run[r].todo
  /\ run' = [run EXCEPT ![r].pc = "copy", ![r].todo = @ \ {d}, ![r].cur = d]
  /\ upload' = IF Multi(<<r, d>>) THEN Created(<<r, d>>) ELSE upload
  /\ UNCHANGED <<agent, urlmap, script, bucket, logged>>

\* backup_run.yml: write the map, run the script, remove the map.
CopyMap(r) ==
  /\ run[r].pc = "copy"
  /\ urlmap' = At(r)
  /\ run' = [run EXCEPT ![r].pc = "script"]
  /\ UNCHANGED <<agent, script, upload, bucket, logged>>

StartScript(r) ==
  /\ run[r].pc = "script" /\ script[At(r)].state = "none" /\ urlmap # NoMap
  /\ script' = [script EXCEPT ![At(r)] = [state |-> "busy", target |-> urlmap, sent |-> 0]]
  /\ UNCHANGED <<run, agent, urlmap, upload, bucket, logged>>

\* The map is gone: the script fails, and the playbook with it.
ScriptHasNoMap(r) ==
  /\ run[r].pc = "script" /\ script[At(r)].state = "none" /\ urlmap = NoMap
  /\ run' = [run EXCEPT ![r].pc = "unheard"]
  /\ UNCHANGED <<agent, urlmap, script, upload, bucket, logged>>

RemoveMap(r) ==
  /\ run[r].pc = "script" /\ script[At(r)].state \in {"ok", "failed"}
  /\ urlmap' = NoMap
  /\ run' = [run EXCEPT ![r].pc = "heard"]
  /\ UNCHANGED <<agent, script, upload, bucket, logged>>

\* The server is unreachable or six hours are over.  The map stays, and a
\* script that runs goes on.
GiveUp(r) ==
  /\ run[r].pc \in {"copy", "script"}
  /\ run' = [run EXCEPT ![r].pc = "unheard"]
  /\ UNCHANGED <<agent, urlmap, script, upload, bucket, logged>>

\* Wrong: any result of the script will do.
SaidOkOfAny(r) == run[r].pc = "heard" /\ script[At(r)].state = "ok"

\* The script's result for the run's own database says ok.
SaidOk(r) ==
  /\ run[r].pc = "heard" /\ script[At(r)].state = "ok"
  /\ script[At(r)].target[2] = run[r].cur

NextDb(r, stored) ==
  run' = [run EXCEPT ![r].pc = "next", ![r].cur = NoMap,
                     ![r].done = IF stored THEN @ \union {run[r].cur} ELSE @]

\* Wrong: complete with the parts the bucket has, whoever sent them.
MatchingAny(r) == \A i \in 1..Parts : upload[At(r)].parts[i] # NoMap

\* The bucket accepts the list of ETags the script returned.
Matching(r) == \A i \in 1..Parts : upload[At(r)].parts[i] = At(r)

Complete(r) ==
  /\ SaidOk(r) /\ Multi(At(r)) /\ Multi(script[At(r)].target)
  /\ Matching(r)
  /\ bucket' = [bucket EXCEPT ![run[r].cur][Area(r)] =
                  {upload[At(r)].parts[i] : i \in 1..Parts}]
  /\ upload' = [upload EXCEPT ![At(r)].state = "completed"]
  /\ NextDb(r, TRUE)
  /\ UNCHANGED <<agent, urlmap, script, logged>>

\* A single PUT, as far as the run can tell.
Accept(r) ==
  /\ SaidOk(r) /\ ~(Multi(At(r)) /\ Multi(script[At(r)].target))
  /\ NextDb(r, TRUE)
  /\ UNCHANGED <<agent, urlmap, script, upload, bucket, logged>>

\* Wrong: an upload is aborted only when the script said that it failed.
AbortUploadWhenHeard(a) ==
  /\ upload' = IF Multi(a) /\ run[a[1]].pc = "heard"
               THEN [upload EXCEPT ![a].state = "aborted"] ELSE upload
  /\ UNCHANGED logged

\* _abort_multipart: the exception of an abort that fails is logged and
\* swallowed, and the upload stays open.
AbortUpload(a) ==
  \/ /\ upload' = IF Multi(a) THEN [upload EXCEPT ![a].state = "aborted"] ELSE upload
     /\ UNCHANGED logged
  \/ /\ Multi(a) /\ Log(a)
     /\ UNCHANGED upload

\* No result for the database, an error, or a complete that the bucket refuses
\* (for whatever reason).
Abort(r) ==
  /\ run[r].pc \in {"heard", "unheard"}
  /\ SaidOk(r) => Multi(At(r)) /\ Multi(script[At(r)].target)
  /\ AbortUpload(At(r))
  /\ NextDb(r, FALSE)
  /\ UNCHANGED <<agent, urlmap, script, bucket>>

\* _run raises: before the playbook, in it, or when its log entry cannot be
\* written.  The daily loop logs it and goes on; nobody aborts the upload.
RunRaises(r) ==
  /\ run[r].pc \in {"copy", "script", "heard", "unheard"}
  /\ Log(At(r))
  /\ NextDb(r, FALSE)
  /\ UNCHANGED <<agent, urlmap, script, upload, bucket>>

Stored(d) == {k \in Nightly : bucket[d][k] # {}}
Newest(d) == {k \in Stored(d) : \A j \in Stored(d) : Age[j] <= Age[k]}

\* Wrong: no floor.
PastRetentionAll(d) == {d} \X (Stored(d) \ {"today"})

\* What pruning would delete in the folder of d: all that is past its
\* retention except the newest.
PastRetention(d) == {d} \X (Stored(d) \ (Newest(d) \union {"today"}))

\* Each object of a listing is deleted or not: a batch may fail, and the
\* exception is swallowed.
Delete(doomed) ==
  \E gone \in SUBSET doomed :
    bucket' = [d \in Dbs |-> [k \in Keys |-> IF <<d, k>> \in gone THEN {} ELSE bucket[d][k]]]

\* A daily run that stored something lists the server's folders for _prune.
EndOfLoop(r) ==
  /\ run[r].pc = "next" /\ run[r].todo = {}
  /\ run' = IF Kind[r] = "daily" /\ run[r].done # {}
            THEN [run EXCEPT ![r].pc = "prune",
                             ![r].doomed = UNION {PastRetention(d) : d \in Dbs}]
            ELSE [run EXCEPT ![r].pc = "ended"]
  /\ UNCHANGED <<agent, urlmap, script, upload, bucket, logged>>

Prune(r) ==
  /\ run[r].pc = "prune"
  /\ Delete(run[r].doomed)
  /\ run' = [run EXCEPT ![r].pc = "ended", ![r].doomed = {}]
  /\ UNCHANGED <<agent, urlmap, script, upload, logged>>

\* Odoo stops: its threads end where they are.
Stop ==
  /\ \E r \in Runs : run[r].pc \notin {"idle", "ended", "dead"}
  /\ run' = [r \in Runs |-> IF run[r].pc \in {"idle", "ended"} THEN run[r]
                            ELSE [run[r] EXCEPT !.pc = "dead"]]
  /\ UNCHANGED <<agent, urlmap, script, upload, bucket, logged>>

\* _cron_purge_manual
PurgeManual ==
  /\ bucket' = [d \in Dbs |-> [k \in Keys |-> IF k \in Nightly THEN bucket[d][k] ELSE {}]]
  /\ UNCHANGED <<run, agent, urlmap, script, upload, logged>>

-----------------------------------------------------------------------------
(* The server: scripts (also those the manager no longer waits for) and    *)
(* the agent.                                                              *)

\* _StreamingMultipart: the next part
PutPart(a) ==
  LET t == script[a].target IN
  /\ script[a].state = "busy" /\ Multi(t) /\ upload[t].state = "open"
  /\ upload' = [upload EXCEPT ![t].parts[script[a].sent + 1] = a]
  /\ script' = [script EXCEPT ![a].sent = @ + 1,
                              ![a].state = IF script[a].sent + 1 = Parts THEN "ok" ELSE "busy"]
  /\ UNCHANGED <<run, agent, urlmap, bucket, logged>>

\* A small database: one PUT of the whole file
PutWhole(a) ==
  LET t == script[a].target IN
  /\ script[a].state = "busy" /\ ~Multi(t)
  /\ bucket' = [bucket EXCEPT ![t[2]][Area(t[1])] = {a}]
  /\ script' = [script EXCEPT ![a].state = "ok"]
  /\ UNCHANGED <<run, agent, urlmap, upload, logged>>

\* Dump or upload fails (the upload was aborted, the agent wiped the scratch
\* directory, ...), or the process is killed.
ScriptFails(a) ==
  /\ script[a].state = "busy"
  /\ script' = [script EXCEPT ![a].state = "failed"]
  /\ UNCHANGED <<run, agent, urlmap, upload, bucket, logged>>

\* The agent's list, from the manager or by its own detection
AgentBegin(g) ==
  /\ agent[g].pc = "idle"
  /\ \E items \in SUBSET Scope[g] : agent' = [agent EXCEPT ![g].pc = "next", ![g].todo = items]
  /\ UNCHANGED <<run, urlmap, script, upload, bucket, logged>>

AgentSkips(g, d) ==
  /\ agent[g].pc = "next" /\ d \in agent[g].todo
  /\ agent' = [agent EXCEPT ![g].todo = @ \ {d}]
  /\ UNCHANGED <<run, urlmap, script, upload, bucket, logged>>

\* dumpfile, unzip -t and s3cmd put
AgentPut(g, d) ==
  /\ agent[g].pc = "next" /\ d \in agent[g].todo
  /\ agent' = [agent EXCEPT ![g].pc = "put", ![g].todo = @ \ {d}, ![g].cur = d]
  /\ bucket' = [bucket EXCEPT ![d]["today"] = {<<g, d>>}]
  /\ UNCHANGED <<run, urlmap, script, upload, logged>>

\* cleanup_old_backups
AgentList(g) ==
  /\ agent[g].pc = "put"
  /\ agent' = [agent EXCEPT ![g].pc = "clean", ![g].doomed = PastRetention(agent[g].cur)]
  /\ UNCHANGED <<run, urlmap, script, upload, bucket, logged>>

AgentClean(g) ==
  /\ agent[g].pc = "clean"
  /\ Delete(agent[g].doomed)
  /\ agent' = [agent EXCEPT ![g].pc = "next", ![g].doomed = {}, ![g].cur = NoMap]
  /\ UNCHANGED <<run, urlmap, script, upload, logged>>

-----------------------------------------------------------------------------
Step(r) ==
  \/ Begin(r) \/ CopyMap(r) \/ StartScript(r) \/ ScriptHasNoMap(r) \/ RemoveMap(r)
  \/ GiveUp(r) \/ Complete(r) \/ Accept(r) \/ Abort(r) \/ RunRaises(r)
  \/ EndOfLoop(r) \/ Prune(r)
  \/ \E d \in Dbs : Mint(r, d) \/ MintFails(r, d)

Next ==
  \/ \E r \in Runs : Step(r)
  \/ \E a \in Attempts : PutPart(a) \/ PutWhole(a) \/ ScriptFails(a)
  \/ \E g \in Agents :
       \/ AgentBegin(g) \/ AgentList(g) \/ AgentClean(g)
       \/ \E d \in Dbs : AgentPut(g, d) \/ AgentSkips(g, d)
  \/ Stop \/ PurgeManual

Spec == Init /\ [][Next]_vars

-----------------------------------------------------------------------------
(* Properties.                                                             *)

\* Runs, scripts and uploads hold what their code gives them; a script sends
\* at most the parts there are, and an upload is open or finished only for an
\* attempt that needs one.
TypeOK ==
  /\ run \in [Runs -> [pc : {"idle", "next", "copy", "script", "heard", "unheard",
                             "prune", "ended", "dead"},
                       todo : SUBSET Dbs, cur : Dbs \union {NoMap},
                       done : SUBSET Dbs, doomed : SUBSET (Dbs \X Nightly)]]
  /\ agent \in [Agents -> [pc : {"idle", "next", "put", "clean"}, todo : SUBSET Dbs,
                           cur : Dbs \union {NoMap}, doomed : SUBSET (Dbs \X Nightly)]]
  /\ urlmap \in Attempts \union {NoMap}
  /\ \A a \in Attempts :
       /\ script[a].state \in {"none", "busy", "ok", "failed"}
       /\ script[a].target \in Attempts \union {NoMap}
       /\ script[a].sent \in 0..Parts
       /\ upload[a].state \in {"none", "open", "completed", "aborted"}
       /\ upload[a].state # "none" =>
            Multi(a) /\ upload[a].parts \in [1..Parts -> Attempts \union {NoMap}]
  /\ bucket \in [Dbs -> [Keys -> SUBSET Builders]]
  /\ logged \subseteq {a \in Attempts : Multi(a)}

\* Every object is one run's dump from its first to its last part, whatever
\* other script has written to the same upload.
WholeObjects == \A d \in Dbs, k \in Keys : Cardinality(bucket[d][k]) <= 1

\* Run r's script executed the map that a Backup Now of the same database wrote.
Misled(r, d) ==
  LET t == script[<<r, d>>].target IN
  t # NoMap /\ t[2] = d /\ Kind[t[1]] # "daily"

\* A database that a daily run reports as uploaded is in the bucket under
\* today's key, whichever other run's map its script executed, except that of a
\* Backup Now of the same database.
DoneIsStored ==
  \A r \in Runs : Kind[r] = "daily" =>
    \A d \in run[r].done : bucket[d]["today"] # {} \/ Misled(r, d)

\* What _backup_db_to_key says of its result: a database that a daily run
\* reports as uploaded is in the bucket under today's key.
TrueMeansStored ==
  \A r \in Runs : Kind[r] = "daily" => \A d \in run[r].done : bucket[d]["today"] # {}

\* A database that has a nightly backup is never left without one, whoever
\* prunes beside whom.
AlwaysABackup == \A d \in Dbs : Stored(d) # {}

AtWork(a) == run[a[1]].pc \in {"copy", "script", "heard", "unheard"} /\ run[a[1]].cur = a[2]

\* A multipart upload that is open is explained: its run is at work on it or was
\* stopped with Odoo, the log has an exception of that attempt, or its script
\* executed a map that needs no multipart upload.
OpenIsOwned ==
  \A a \in Attempts : upload[a].state = "open" =>
    \/ AtWork(a)
    \/ run[a[1]].pc = "dead"
    \/ a \in logged
    \/ script[a].target # NoMap /\ ~Multi(script[a].target)

\* What _backup_db_to_key says of its upload: while Odoo runs it is completed or
\* aborted when the run goes on.
UploadIsClosed ==
  \A a \in Attempts : upload[a].state = "open" => AtWork(a) \/ run[a[1]].pc = "dead"

=============================================================================
