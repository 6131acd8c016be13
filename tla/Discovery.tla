------------------------------ MODULE Discovery ------------------------------
(***************************************************************************)
(* Discovery: a scan lists the Odoo services of a server, and              *)
(* ServerHost._sync_instances makes the server.stage records follow: one   *)
(* per service, named after the domain (or ip:port) that serves it, with a *)
(* name that is unique over all servers, keeping what a user corrected by  *)
(* hand, and pruning what is gone.  The scan and the sync run in a         *)
(* background thread: nothing keeps two of them apart, nor users and the   *)
(* refresh crons.  The sync is one REPEATABLE READ transaction with a      *)
(* savepoint around every instance.                                        *)
(*                                                                         *)
(* A base name is a domain, or a host for its <ip>:<port> (two services of *)
(* a host that share a port share it).  Paths, ports, passwords, modules   *)
(* and repositories of an instance follow the name's fate and are left     *)
(* out, except that recording the repositories may raise.                  *)
(***************************************************************************)
EXTENDS Naturals, FiniteSets, SequencesExt

CONSTANTS
  Hosts,        \* server.host records
  Order,        \* Order[h]: the units that may exist on host h, in the sorted order of a scan
  Domains,      \* nginx domains
  None,         \* no name, no service, no host
  Ids,          \* bound: server.stage ids, numbers, reused when free
  Scans,        \* discoveries that may be in flight at the same time
  EditNames,    \* names a user may type
  MaxAttempts,  \* tries of the sync (5 in the code)
  MaxChanges,   \* bound: changes of what is installed on the servers
  MaxEdits,     \* bound: user edits (rename, resume, delete, create)
  MaxCrons,     \* bound: commits of the status cron to a stage row
  MaxMissed,    \* bound: units a scan skips because reading them raised
  MaxBroken,    \* bound: instances a sync skips because recording their repositories raised
  MaxEvents     \* bound: changes, edits, cron commits and broken instances together

Services == UNION {ToSet(Order[h]) : h \in Hosts}
HostOf(s) == CHOOSE h \in Hosts : s \in ToSet(Order[h])
Bases == Domains \union Hosts

\* The name `base`, `base (service)` or `base (service #n)`.
Plain(base) == [base |-> base, svc |-> None, n |-> 1]
Suffixed(base, s, n) == [base |-> base, svc |-> s, n |-> n]
Names == [base: Bases, svc: Services \union {None}, n: Nat \ {0}]

ASSUME DiscoveryAssumption ==
  /\ None \notin Services \union Bases \union Scans \union Names
  /\ IsFiniteSet(Services) /\ IsFiniteSet(Ids)
  /\ \A h \in Hosts : Order[h] \in Seq(ToSet(Order[h]))
  /\ \A h, g \in Hosts : h # g => ToSet(Order[h]) \cap ToSet(Order[g]) = {}
  /\ Ids \subseteq Nat /\ EditNames \subseteq Names
  /\ MaxAttempts \in Nat \ {0}
  /\ {MaxChanges, MaxEdits, MaxCrons, MaxMissed, MaxBroken, MaxEvents} \subseteq Nat

VARIABLES
  site,     \* what serves each unit now (None: not installed)
  stage,    \* the server.stage table
  worker,   \* phase of each discovery: idle, scanned (phase 1 done), open (phase 2 began)
  host,     \* host of each discovery
  payload,  \* what its scan found
  snap,     \* the table as its transaction sees it
  late,     \* stages and hosts whose row others committed since its snapshot
  attempt,  \* failed tries of phase 2
  budget    \* what is left of the bounds

vars == <<site, stage, worker, host, payload, snap, late, attempt, budget>>

Absent == [host |-> None, svc |-> None, name |-> None, kept |-> FALSE]
Record(h, s, name, kept) == [host |-> h, svc |-> s, name |-> name, kept |-> kept]
Exists(i) == stage[i] # Absent
NameFree(name) == \A i \in Ids : stage[i].name # name

\* The units a scan reported, and what it would report of h now, skipping `missed`.
Detected(found) == {s \in Services : found[s] # None}
Found(h, missed) ==
  [s \in Services |-> IF s \in ToSet(Order[h]) \ missed THEN site[s] ELSE None]

NoTable == [i \in Ids |-> Absent]
NoPayload == [s \in Services |-> None]

Init ==
  /\ site \in {f \in [Services -> Bases \union {None}] :
                 \A s \in Services : f[s] \in Domains \union {HostOf(s), None}}
  /\ stage = NoTable
  /\ worker = [d \in Scans |-> "idle"]
  /\ host = [d \in Scans |-> None]
  /\ payload = [d \in Scans |-> NoPayload]
  /\ snap = [d \in Scans |-> NoTable]
  /\ late = [d \in Scans |-> {}]
  /\ attempt = [d \in Scans |-> 0]
  /\ budget = [site |-> MaxChanges, edit |-> MaxEdits, cron |-> MaxCrons,
                miss |-> MaxMissed, broken |-> MaxBroken, event |-> MaxEvents]

\* A commit of the rows in `written` overtakes the snapshots that are open.
Overtake(written, committer) ==
  late' = [d \in Scans |->
             IF d = committer THEN {}
             ELSE IF worker[d] = "open" THEN late[d] \union written ELSE late[d]]

-----------------------------------------------------------------------------
(* The sync, from the host h, what the scan found, the table as the        *)
(* transaction sees it (its snapshot) and the ids others wrote since.      *)
(* An operator that no action uses is a wrong variant of the operator      *)
(* after it, for checking the properties.                                  *)

\* A name is taken if this run assigned it, or if a record of another pair has it.
TakenOnHost(h, s, n, sync) ==
  n \in sync.used \/ \E i \in Ids : sync.view[i].name = n /\ sync.view[i].host = h
                                    /\ sync.view[i].svc # s

Taken(h, s, n, sync) ==
  \/ n \in sync.used
  \/ \E i \in Ids : sync.view[i].name = n /\ (sync.view[i].host # h \/ sync.view[i].svc # s)

\* _unique_stage_name: `base`, then with the service, then numbered until the name is
\* free.  One of more numbers than there are names to avoid is free.
UniqueName(h, s, base, sync) ==
  LET numbers == 1..(Cardinality(sync.used) + Cardinality(Ids) + 1)
      free == {n \in numbers : ~Taken(h, s, Suffixed(base, s, n), sync)}
  IN IF ~Taken(h, s, Plain(base), sync) THEN Plain(base) ELSE Suffixed(base, s, Min(free))

\* What is written to a record: not the fields its user keeps.
WriteAll(row, new) == new
WriteNothing(row, new) == row
WriteVals(row, new) == IF row.kept THEN row ELSE new

\* The records of (h, s) in a table: at most one, OneStagePerService.
RecordsOf(h, s, table) == {i \in Ids : table[i].host = h /\ table[i].svc = s}
FreeIds(table) == {i \in Ids : table[i] = Absent /\ stage[i] = Absent}

\* One instance in its savepoint.  `sync` is the transaction so far: the view it
\* sees, the ids it wrote, the names it assigned, the instances it skipped because
\* the row had been overtaken (raced), because the name was taken by a row it cannot
\* see or because its repositories could not be recorded (failed).  Skipping undoes
\* the instance's writes and keeps the assigned name reserved.
SyncOne(h, found, overtaken, broken, sync, s) ==
  LET v == sync.view
      name == UniqueName(h, s, found[s], sync)
      old == RecordsOf(h, s, v)
      id == IF old # {} THEN Min(old) ELSE Min(FreeIds(v))
      new == Record(h, s, name, FALSE)
      row == IF old # {} THEN WriteVals(v[id], new) ELSE new
      current(i) == IF i \in sync.mine THEN v[i] ELSE stage[i]
      clash == \E i \in Ids \ {id} : current(i).name = row.name
      next == [sync EXCEPT !.used = @ \union {name}]
  IN IF s \notin Detected(found) THEN sync
     ELSE IF old # {} /\ id \in overtaken THEN [next EXCEPT !.raced = @ \union {s}]
     ELSE IF clash \/ s \in broken THEN [next EXCEPT !.failed = @ \union {s}]
     ELSE [next EXCEPT !.view = [v EXCEPT ![id] = row], !.mine = @ \union {id}]

\* All instances, in the order of the scan: sync[n] is after the first n.
Synced(h, found, table, overtaken, broken) ==
  LET start == [view |-> table, mine |-> {}, used |-> {}, raced |-> {}, failed |-> {}]
      sync[n \in 0..Len(Order[h])] ==
        IF n = 0 THEN start ELSE SyncOne(h, found, overtaken, broken, sync[n - 1], Order[h][n])
  IN sync[Len(Order[h])]

PrunedUnlessSynced(h, found, sync) ==
  {i \in Ids : sync.view[i].host = h
               /\ sync.view[i].svc \notin Detected(found) \ (sync.raced \union sync.failed)}

PrunedEverywhere(h, found, sync) ==
  {i \in Ids : sync.view[i] # Absent /\ sync.view[i].svc \notin Detected(found)}

\* The records of h whose service the scan did not report, whether or not the
\* reported ones could be synced.
Pruned(h, found, sync) ==
  {i \in Ids : sync.view[i].host = h /\ sync.view[i].svc \notin Detected(found)}

After(sync, gone) ==
  [i \in Ids |-> IF i \in gone THEN Absent
                 ELSE IF i \in sync.mine THEN sync.view[i] ELSE stage[i]]

-----------------------------------------------------------------------------
(* A discovery.                                                            *)

\* The click writes the host's op fields; phase 1 runs the scan: up to budget.miss
\* units raise and are skipped.  A scan that reports nothing fails without writing
\* a stage.
Scan(d, h) ==
  /\ worker[d] = "idle"
  /\ \E missed \in SUBSET {s \in ToSet(Order[h]) : site[s] # None} :
       /\ Cardinality(missed) <= budget.miss
       /\ Detected(Found(h, missed)) # {}
       /\ payload' = [payload EXCEPT ![d] = Found(h, missed)]
       /\ budget' = [budget EXCEPT !.miss = @ - Cardinality(missed)]
  /\ worker' = [worker EXCEPT ![d] = "scanned"]
  /\ host' = [host EXCEPT ![d] = h]
  /\ attempt' = [attempt EXCEPT ![d] = 0]
  /\ Overtake({h}, d)
  /\ UNCHANGED <<site, stage, snap>>

\* Phase 2 opens its transaction.
BeginSync(d) ==
  /\ worker[d] = "scanned"
  /\ worker' = [worker EXCEPT ![d] = "open"]
  /\ snap' = [snap EXCEPT ![d] = stage]
  /\ UNCHANGED <<site, stage, host, payload, late, attempt, budget>>

\* What a worker holds is dropped when its transaction ends.
Close(d, phase) ==
  /\ worker' = [worker EXCEPT ![d] = phase]
  /\ snap' = [snap EXCEPT ![d] = NoTable]
  /\ host' = [host EXCEPT ![d] = IF phase = "idle" THEN None ELSE @]
  /\ payload' = [payload EXCEPT ![d] = IF phase = "idle" THEN NoPayload ELSE @]

\* Bound: Ids has a free one for every service that needs a record.
HasRoom(d) ==
  Cardinality({s \in Detected(payload[d]) : RecordsOf(host[d], s, snap[d]) = {}})
    <= Cardinality(FreeIds(snap[d]))

UnprotectedPrune(d, gone) == gone

\* The rows the transaction writes outside the savepoints: what it prunes, and the
\* host (last_discovery, op_state).  If one was overtaken the transaction fails.
Unprotected(d, gone) == gone \union {host[d]}

\* The whole sync and its commit, when _sync_repos raises for the services in broken.
SyncCommits(d, broken) ==
  LET sync == Synced(host[d], payload[d], snap[d], late[d], broken)
      gone == Pruned(host[d], payload[d], sync)
  IN /\ worker[d] = "open"
     /\ Close(d, "idle")
     /\ HasRoom(d)
     /\ Cardinality(broken) <= budget.broken /\ Cardinality(broken) <= budget.event
     /\ Unprotected(d, gone) \intersect late[d] = {}
     /\ stage' = After(sync, gone)
     /\ Overtake(sync.mine \union Unprotected(d, gone), d)
     /\ attempt' = [attempt EXCEPT ![d] = 0]
     /\ budget' = [budget EXCEPT !.broken = @ - Cardinality(broken), !.event = @ - Cardinality(broken)]
     /\ UNCHANGED site

CommitSync(d) == \E broken \in SUBSET Detected(payload[d]) : SyncCommits(d, broken)

\* The next try, or the end after the last one.
AfterFailureLate(d) == IF attempt[d] = MaxAttempts THEN "idle" ELSE "scanned"
AfterFailure(d) == IF attempt[d] + 1 = MaxAttempts THEN "idle" ELSE "scanned"

\* Whatever was skipped: what a sync prunes does not depend on it.
FailSync(d) ==
  LET sync == Synced(host[d], payload[d], snap[d], late[d], {})
      gone == Pruned(host[d], payload[d], sync)
  IN /\ worker[d] = "open"
     /\ HasRoom(d)
     /\ Unprotected(d, gone) \intersect late[d] # {}
     /\ attempt' = [attempt EXCEPT ![d] = @ + 1]
     /\ Close(d, AfterFailure(d))
     /\ late' = [late EXCEPT ![d] = {}]
     /\ UNCHANGED <<site, stage, budget>>

-----------------------------------------------------------------------------
(* The servers, the users and the crons.                                   *)

Left(kind) == budget[kind] > 0 /\ budget.event > 0
Spend(kind) == budget' = [budget EXCEPT ![kind] = @ - 1, !.event = @ - 1]

SiteChange(s, base) ==
  /\ Left("site") /\ site[s] # base
  /\ base \in Domains \union {HostOf(s), None}
  /\ site' = [site EXCEPT ![s] = base]
  /\ Spend("site")
  /\ UNCHANGED <<stage, worker, host, payload, snap, late, attempt>>

UserWrites(i, row) ==
  /\ Left("edit")
  /\ stage' = [stage EXCEPT ![i] = row]
  /\ Overtake({i}, None)
  /\ Spend("edit")
  /\ UNCHANGED <<site, worker, host, payload, snap, attempt>>

\* Stage.write by a user: the name is the user's from now on.
EditName(i, name) ==
  /\ Exists(i) /\ NameFree(name)
  /\ UserWrites(i, [stage[i] EXCEPT !.name = name, !.kept = TRUE])

\* action_resume_discovery_sync
ResumeDiscoverySync(i) ==
  /\ Exists(i) /\ stage[i].kept
  /\ UserWrites(i, [stage[i] EXCEPT !.kept = FALSE])

Delete(i) ==
  /\ Exists(i)
  /\ UserWrites(i, Absent)

\* Stage.create by a user: the service is not on the form.
CreateByHand(h, name) ==
  /\ NameFree(name)
  /\ \E i \in Ids : stage[i] = Absent /\ UserWrites(i, Record(h, None, name, FALSE))

\* _refresh_status commits stage rows, the backup crons commit host rows: of the
\* fields here they change none.
CronWrite(row) ==
  /\ Left("cron")
  /\ row \in Ids => Exists(row)
  /\ \E d \in Scans : worker[d] = "open" /\ row \notin late[d]
  /\ Overtake({row}, None)
  /\ Spend("cron")
  /\ UNCHANGED <<site, stage, worker, host, payload, snap, attempt>>

Next ==
  \/ \E d \in Scans, h \in Hosts : Scan(d, h)
  \/ \E d \in Scans : BeginSync(d)
  \/ \E d \in Scans : CommitSync(d)
  \/ \E d \in Scans : FailSync(d)
  \/ \E s \in Services, base \in Bases \union {None} : SiteChange(s, base)
  \/ \E i \in Ids, name \in EditNames : EditName(i, name)
  \/ \E i \in Ids : ResumeDiscoverySync(i)
  \/ \E i \in Ids : Delete(i)
  \/ \E h \in Hosts, name \in EditNames : CreateByHand(h, name)
  \/ \E row \in Ids \union Hosts : CronWrite(row)

Spec == Init /\ [][Next]_vars

-----------------------------------------------------------------------------
(* Properties.                                                             *)

Rows == [host: Hosts, svc: Services \union {None}, name: Names, kept: BOOLEAN] \union {Absent}

\* The variables keep their types.
TypeOK ==
  /\ site \in [Services -> Bases \union {None}]
  /\ stage \in [Ids -> Rows]
  /\ worker \in [Scans -> {"idle", "scanned", "open"}]
  /\ host \in [Scans -> Hosts \union {None}]
  /\ payload \in [Scans -> [Services -> Bases \union {None}]]
  /\ snap \in [Scans -> [Ids -> Rows]]
  /\ late \in [Scans -> SUBSET (Ids \union Hosts)]
  /\ attempt \in [Scans -> 0..MaxAttempts]
  /\ budget \in [site: 0..MaxChanges, edit: 0..MaxEdits, cron: 0..MaxCrons,
                 miss: 0..MaxMissed, broken: 0..MaxBroken, event: 0..MaxEvents]

\* No service ever has two stages, whatever two discoveries of its host found and
\* in which order they commit: their writes of the host row make one of them retry.
OneStagePerService ==
  \A h \in Hosts, s \in Services : Cardinality(RecordsOf(h, s, stage)) <= 1

\* What a user typed survives every sync: a sync in flight when the name was typed
\* does not write over it either.
OverrideSticks ==
  [][\A d \in Scans : CommitSync(d) =>
       \A i \in Ids : Exists(i) /\ stage[i].kept => stage'[i] \in {stage[i], Absent}]_vars

\* "A detected service must never be pruned, even if its per-instance sync fails":
\* a sync removes only records of its own host whose service it was not told of.
DetectedNotPruned ==
  [][\A d \in Scans : CommitSync(d) =>
       \A i \in Ids : Exists(i) /\ stage'[i] = Absent =>
          stage[i].host = host[d] /\ stage[i].svc \notin Detected(payload[d])]_vars

\* A sync that no commit overtook mirrors the scan: every reported service has one
\* record, named after what serves it unless a user keeps the name, the services
\* whose repositories could not be recorded keep the record they had, if any, and
\* the host has no other record.
MirrorsScan(h, found, broken, before, after) ==
  /\ \A s \in Services :
       IF s \in broken
       THEN \A i \in Ids : i \in RecordsOf(h, s, before) \union RecordsOf(h, s, after)
                             => after[i] = before[i]
       ELSE Cardinality(RecordsOf(h, s, after)) = IF s \in Detected(found) THEN 1 ELSE 0
  /\ \A i \in Ids : after[i].host = h /\ after[i].svc \notin broken =>
       /\ after[i].svc # None
       /\ after[i].kept \/ after[i].name.base = found[after[i].svc]

QuietSyncMirrorsScan ==
  [][\A d \in Scans : late[d] = {} =>
       \A broken \in SUBSET Detected(payload[d]) : SyncCommits(d, broken) =>
          MirrorsScan(host[d], payload[d], broken, stage, stage')]_vars

\* With no change on the servers: only what is gone is pruned.
PruneOnlyGone ==
  [][\A d \in Scans : CommitSync(d) =>
       \A i \in Ids : Exists(i) /\ stage'[i] = Absent /\ stage[i].svc \in Services =>
          site[stage[i].svc] = None]_vars

\* A record that names no service is not one "for a service that no longer exists".
HandMadeSurvives ==
  [][\A d \in Scans : CommitSync(d) =>
       \A i \in Ids : Exists(i) /\ stage[i].svc = None => stage'[i] # Absent]_vars

\* A sync that met a concurrent update is retried until it meets none: a finished
\* one skipped no instance for that reason.
ConflictIsRetried ==
  [][\A d \in Scans : CommitSync(d) =>
       Synced(host[d], payload[d], snap[d], late[d], {}).raced = {}]_vars

\* "A stage keeps its name across re-scans": a sync repeated at once, on the same
\* report, renames nothing.
KeepsName ==
  [][\A d \in Scans : SyncCommits(d, {}) /\ late[d] = {} =>
       \A h \in {host[d]}, found \in {payload[d]} :
          (Synced(h, found, stage, {}, {}).view = stage)']_vars

=============================================================================
