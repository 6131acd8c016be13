------------------------------ MODULE AccessGrid ------------------------------
(***************************************************************************)
(* Who may act on which instance.  A server.stage.access row holds what    *)
(* one user may do on one stage; without a row a default that depends on   *)
(* the user's role and on the stage's type decides.  Rows are materialised *)
(* for every Developer and Tech Lead when a user is saved, when a stage is *)
(* created and from the Access menu, each in the transaction of its        *)
(* request (REPEATABLE READ), and re-defaulted when Tech Lead membership   *)
(* flips.  The grid hears of a role change only when groups_id itself is   *)
(* written.  DevOps and Administrators (one role here) need no row.        *)
(*                                                                         *)
(* A worker's request reads at Open and writes at Commit; what others      *)
(* commit in between is what makes its reading stale.                      *)
(***************************************************************************)
EXTENDS FiniteSets

CONSTANTS
  Users, Stages, Actions,
  NoRow,       \* the pair has no row
  Workers,     \* requests in flight at the same time
  Existing,    \* Existing[s]: type of stage s at the start ("absent": may be created)
  Moves,       \* <<from, to>>: the role changes the grid hears of
  UnseenMoves, \* <<from, to>>: those made on the user form or on a group's form
  Flippable,   \* stages whose Client Server switch is used
  Deletable,   \* stages that may be deleted
  Unlinkable   \* users whose rows may be deleted from the Access page

Roles == {"none", "dev", "lead", "devops"}
Types == {"absent", "normal", "client"}
Pairs == Users \X Stages
Row == [view: BOOLEAN, act: SUBSET Actions]

ASSUME AccessAssumption ==
  /\ Existing \in [Stages -> Types]
  /\ Moves \subseteq Roles \X Roles /\ UnseenMoves \subseteq Roles \X Roles
  /\ Flippable \subseteq Stages /\ Deletable \subseteq Stages
  /\ Unlinkable \subseteq Users
  /\ NoRow \notin Row

VARIABLES
  role,    \* the groups of each user
  type,    \* the server.stage table: Client Server or not
  row,     \* the server.stage.access table
  edited,  \* history: pairs toggled by hand since their row took a default
  tx       \* the request of each worker

vars == <<role, type, row, edited, tx>>

-----------------------------------------------------------------------------
(* What the code decides from the tables.                                  *)

HasTechLead(r) == r \in {"lead", "devops"}
Developer(r) == r \in {"dev", "lead"}      \* in the grid: no DevOps/Admin
Present == {s \in Stages : type[s] # "absent"}

\* _check_action_access: the actions the server lets u run on s.
Allowed(u, s) ==
  IF role[u] = "none" THEN {}
  ELSE IF role[u] = "devops" THEN Actions
  ELSE IF row[<<u, s>>] # NoRow THEN row[<<u, s>>].act
  ELSE IF type[s] = "normal" \/ HasTechLead(role[u]) THEN Actions
  ELSE {}

\* Wrong: the buttons forget that a Tech Lead acts on Client Servers.
ShownWithoutLead(u, s) ==
  IF role[u] = "devops" THEN Actions
  ELSE IF row[<<u, s>>] # NoRow THEN row[<<u, s>>].act
  ELSE {a \in Actions : type[s] # "client"}

\* _compute_action_perms: the buttons u is shown on s.
Shown(u, s) ==
  IF role[u] = "devops" THEN Actions
  ELSE IF row[<<u, s>>] # NoRow THEN row[<<u, s>>].act
  ELSE {a \in Actions : type[s] # "client" \/ role[u] = "lead"}

\* The record rules with stage_denied_ids: the stages u sees.
Sees(u) ==
  CASE role[u] = "none" -> {}
    [] role[u] = "devops" -> Present
    [] OTHER -> {s \in Present : ~(row[<<u, s>>] # NoRow /\ ~row[<<u, s>>].view)}

\* Wrong: a new row on a Client Server denies everyone.
DefaultClosed(r, t) == IF t = "client" THEN {} ELSE Actions

\* The actions of a new row.
Default(r, t) == IF t = "client" /\ ~HasTechLead(r) THEN {} ELSE Actions

-----------------------------------------------------------------------------
(* What a request writes, given the roles and types it sees.               *)

\* The pairs the grid is about among these users and stages.
InGrid(us, ss, roles) == {p \in us \X ss : Developer(roles[p[1]])}

\* Wrong: a plain Developer needs no row where no row means that he may do nothing.
MissingOpen(us, ss, roles, types) ==
  [p \in {q \in InGrid(us, ss, roles) : row[q] = NoRow /\ Default(roles[q[1]], types[q[2]]) # {}} |->
     [view |-> TRUE, act |-> Default(roles[p[1]], types[p[2]])]]

\* _create_missing
Missing(us, ss, roles, types) ==
  [p \in {q \in InGrid(us, ss, roles) : row[q] = NoRow} |->
     [view |-> TRUE, act |-> Default(roles[p[1]], types[p[2]])]]

\* Wrong: only a promotion resets the rows.
ResetPromoted(u, roles) ==
  [p \in {q \in {u} \X Stages : /\ roles[u] = "lead"
                                /\ row[q] # NoRow /\ type[q[2]] = "client"} |->
     Default(roles[u], "client")]

\* Wrong: normal stages are reset too.
ResetEverywhere(u, roles) ==
  [p \in {q \in {u} \X Stages : Developer(roles[u]) /\ row[q] # NoRow} |->
     Default(roles[u], type[p[2]])]

\* _reset_client_defaults, for one user
Reset(u, roles) ==
  [p \in {q \in {u} \X Stages : /\ Developer(roles[u])
                                /\ row[q] # NoRow /\ type[q[2]] = "client"} |->
     Default(roles[u], "client")]

Nothing == [x \in {} |-> {}]
\* current is a history: the pairs the request read to fill the grid, of which
\* nobody has changed the user's role, the stage's type or the row since.
Request(op, roles, types, new, reset, read) ==
  [op |-> op, role |-> roles, type |-> types, new |-> new, reset |-> reset,
   current |-> read, doomed |-> FALSE]
Idle == Request("idle", Nothing, Nothing, Nothing, Nothing, {})

\* Another transaction has just written: a request that updates the same is in
\* conflict, one that has read it goes on with what it read.
Overtake(users, pairs, others) ==
  [w \in Workers |->
     IF w \notin others THEN tx[w]
     ELSE [tx[w] EXCEPT
             !.doomed = @ \/ DOMAIN tx[w].role \intersect users # {}
                          \/ DOMAIN tx[w].reset \intersect pairs # {},
             !.current = {p \in @ : p[1] \notin users /\ p \notin pairs}]]

-----------------------------------------------------------------------------
Init ==
  /\ role = [u \in Users |-> "none"]
  /\ type = Existing
  /\ row = [p \in Pairs |-> NoRow]
  /\ edited = {}
  /\ tx = [w \in Workers |-> Idle]

Free(w) == tx[w].op \in {"idle", "undone"}

Open(w, request) ==
  /\ Free(w)
  /\ tx' = [tx EXCEPT ![w] = request]
  /\ UNCHANGED <<role, type, row, edited>>

\* res.users.create, whatever the values say, and write with groups_id (the
\* signup, a script): the grid hears of the role.
SaveUser(w, u, r) ==
  LET roles == [role EXCEPT ![u] = r]
      flipped == HasTechLead(role[u]) # HasTechLead(r) IN
  /\ <<role[u], r>> \in Moves
  /\ Open(w, Request("user", [v \in {u} |-> r], Nothing,
                     Missing({u}, Present, roles, type),
                     IF flipped THEN Reset(u, roles) ELSE Nothing,
                     InGrid({u}, Present, roles)))

\* res.users.write from Settings > Users, whose values hold sel_groups_* and
\* in_group_* keys that become groups_id only further down, and a write on a
\* group's users: nothing but the role is written.
SaveGroups(w, u, r) ==
  /\ <<role[u], r>> \in UnseenMoves
  /\ Open(w, Request("user", [v \in {u} |-> r], Nothing, Nothing, Nothing, {}))

\* server.stage.create, by hand or by discovery.  Ids are not reused while a
\* request still refers to the old stage.
CreateStage(w, s, t) ==
  /\ type[s] = "absent" /\ t # "absent"
  /\ \A v \in Workers : s \notin DOMAIN tx[v].type \union {p[2] : p \in DOMAIN tx[v].new}
  /\ Open(w, Request("stage", Nothing, [z \in {s} |-> t],
                     Missing(Users, {s}, role, [type EXCEPT ![s] = t]), Nothing,
                     InGrid(Users, {s}, role)))

\* The Access menu and its Refresh button: _sync_matrix
Refresh(w) ==
  Open(w, Request("refresh", Nothing, Nothing,
                  Missing(Users, Present, role, type), Nothing,
                  InGrid(Users, Present, role)))

\* A row to insert is there already (unique stage_user_uniq), or its stage is gone.
Clash(t) ==
  \E p \in DOMAIN t.new : \/ row[p] # NoRow
                          \/ type[p[2]] = "absent" /\ p[2] \notin DOMAIN t.type

\* Wrong: what a failed request had written stays.
FailedHalfway(t) == [t EXCEPT !.op = IF t.op = "refresh" THEN "idle" ELSE "undone"]

\* After a failed insert: the grid's except clauses swallow the error, the
\* transaction of the save is aborted all the same.
Failed(t) == [Idle EXCEPT !.op = IF t.op = "refresh" THEN "idle" ELSE "undone"]

\* The request ends: it commits, fails on an insert, or is run again by the
\* framework because it conflicts with a committed write.
Commit(w) ==
  LET t == tx[w] IN
  /\ ~Free(w) /\ ~t.doomed /\ ~Clash(t)
  /\ role' = [u \in Users |-> IF u \in DOMAIN t.role THEN t.role[u] ELSE role[u]]
  /\ type' = [s \in Stages |-> IF s \in DOMAIN t.type THEN t.type[s] ELSE type[s]]
  /\ row' = [p \in Pairs |->
               IF p \in DOMAIN t.new THEN t.new[p]
               ELSE IF p \in DOMAIN t.reset THEN [row[p] EXCEPT !.act = t.reset[p]]
               ELSE row[p]]
  /\ edited' = edited \ DOMAIN t.reset
  /\ tx' = [Overtake(DOMAIN t.role, DOMAIN t.reset, Workers \ {w}) EXCEPT ![w] = Idle]

Fail(w) ==
  /\ ~Free(w) /\ ~tx[w].doomed /\ Clash(tx[w])
  /\ tx' = [tx EXCEPT ![w] = Failed(tx[w])]
  /\ UNCHANGED <<role, type, row, edited>>

Retry(w) ==
  /\ ~Free(w) /\ tx[w].doomed
  /\ tx' = [tx EXCEPT ![w] = Idle]
  /\ UNCHANGED <<role, type, row, edited>>

\* A toggle on the Access page.
Toggle(u, s, r) ==
  /\ row[<<u, s>>] \notin {NoRow, r}
  /\ row' = [row EXCEPT ![<<u, s>>] = r]
  /\ edited' = edited \union {<<u, s>>}
  /\ tx' = Overtake({}, {<<u, s>>}, Workers)
  /\ UNCHANGED <<role, type>>

\* Rows deleted from the Access page.
Unlink(u, s) ==
  /\ u \in Unlinkable /\ row[<<u, s>>] # NoRow
  /\ row' = [row EXCEPT ![<<u, s>>] = NoRow]
  /\ edited' = edited \ {<<u, s>>}
  /\ tx' = Overtake({}, {<<u, s>>}, Workers)
  /\ UNCHANGED <<role, type>>

\* The Client Server switch of the stage form; the stored related field of the
\* rows is rewritten.
FlipClient(s) ==
  /\ s \in Flippable /\ s \in Present
  /\ type' = [type EXCEPT ![s] = IF @ = "client" THEN "normal" ELSE "client"]
  /\ tx' = Overtake({}, Users \X {s}, Workers)
  /\ UNCHANGED <<role, row, edited>>

\* A stage deleted, or pruned by discovery: its rows go with it.
DeleteStage(s) ==
  /\ s \in Deletable /\ s \in Present
  /\ type' = [type EXCEPT ![s] = "absent"]
  /\ row' = [p \in Pairs |-> IF p[2] = s THEN NoRow ELSE row[p]]
  /\ edited' = edited \ (Users \X {s})
  /\ tx' = Overtake({}, Users \X {s}, Workers)
  /\ UNCHANGED role

Next ==
  \/ \E w \in Workers :
       \/ \E u \in Users, r \in Roles : SaveUser(w, u, r) \/ SaveGroups(w, u, r)
       \/ \E s \in Stages, t \in Types : CreateStage(w, s, t)
       \/ Refresh(w) \/ Commit(w) \/ Fail(w) \/ Retry(w)
  \/ \E u \in Users, s \in Stages : Unlink(u, s) \/ \E r \in Row : Toggle(u, s, r)
  \/ \E s \in Stages : FlipClient(s) \/ DeleteStage(s)

Spec == Init /\ [][Next]_vars

-----------------------------------------------------------------------------
(* Properties.                                                             *)

Writes(f, dom, ran) == DOMAIN f \subseteq dom /\ \A x \in DOMAIN f : f[x] \in ran

\* Every table and request holds what its fields admit, and a request that
\* ended holds nothing.
TypeOK ==
  /\ role \in [Users -> Roles]
  /\ type \in [Stages -> Types]
  /\ row \in [Pairs -> Row \union {NoRow}]
  /\ edited \subseteq Pairs
  /\ \A w \in Workers :
       /\ tx[w].op \in {"idle", "undone", "user", "stage", "refresh"}
       /\ Writes(tx[w].role, Users, Roles) /\ Writes(tx[w].type, Stages, Types)
       /\ Writes(tx[w].new, Pairs, Row) /\ Writes(tx[w].reset, Pairs, SUBSET Actions)
       /\ tx[w].current \subseteq Pairs /\ tx[w].doomed \in BOOLEAN
       /\ Free(w) => tx[w] = [Idle EXCEPT !.op = tx[w].op]

\* A row nobody toggled since it took its default still says what the user's
\* role gives by default on that stage.  Not what the code does.
DefaultsHold ==
  \A u \in Users, s \in Present :
    Developer(role[u]) /\ row[<<u, s>>] # NoRow /\ <<u, s>> \notin edited
      => row[<<u, s>>].act = Default(role[u], type[s])

\* The page never misses a new instance or a new developer: every developer
\* has a row for every stage, unless rows of that user were deleted by hand.
\* Not what the code does.
NeverMisses ==
  \A u \in Users \ Unlinkable, s \in Present :
    Developer(role[u]) => row[<<u, s>>] # NoRow

\* The buttons a user is shown on a stage he sees are those the server runs,
\* with and without a row.
ShownIsAllowed ==
  \A u \in Users : \A s \in Sees(u) : Shown(u, s) = Allowed(u, s)

\* On a Client Server stage a plain Developer runs nothing unless a toggle
\* granted it.  Not what the code does.
ClientIsOptIn ==
  \A u \in Users, s \in Present :
    role[u] = "dev" /\ type[s] = "client" /\ <<u, s>> \notin edited
      => Allowed(u, s) = {}

\* A grid that cannot be completed never undoes the save of a user or a stage.
\* Not what the code does.
SaveSurvives == \A w \in Workers : tx[w].op # "undone"

\* What an administrator toggled survives every request, however stale the
\* tables it read: a hidden stage stays hidden, and the actions of a row change
\* only on a Client Server stage, with the Tech Lead membership of the user.
TogglesStick ==
  [][(\E w \in Workers : Commit(w)) =>
       \A p \in Pairs : row[p] # NoRow =>
         /\ row'[p] # NoRow /\ row'[p].view = row[p].view
         /\ p \in edited /\ row'[p].act # row[p].act =>
              /\ type[p[2]] = "client"
              /\ HasTechLead(role[p[1]]) # HasTechLead(role'[p[1]])]_vars

\* A save, a creation or a Refresh that commits leaves a row for every pair it
\* read, whatever committed beside it: only pairs that came into the grid or
\* changed behind its back are left for the next Refresh.
EnrolsWhatItRead ==
  [][\A w \in Workers : Commit(w) => \A p \in tx[w].current : row'[p] # NoRow]_vars

\* The row a commit adds, and on a Client Server every row of a user whose Tech
\* Lead membership it changes and the grid hears of, has the default of the role
\* and the type as they are then, unless they were changed behind its back.
DefaultsOfTheMoment ==
  [][\A w \in Workers : Commit(w) =>
       \A p \in tx[w].current :
         \/ row[p] = NoRow
         \/ type'[p[2]] = "client" /\ HasTechLead(role[p[1]]) # HasTechLead(role'[p[1]])
         => row'[p].act = Default(role'[p[1]], type'[p[2]])]_vars

\* Pairs w is about to insert from a reading that is out of date.
OutOfDate(w) == DOMAIN tx[w].new \ tx[w].current

\* Materialising rows changes what no user may do or see, but for rows
\* inserted from a reading that is out of date.
RefreshKeepsRights ==
  [][\A w \in Workers : tx[w].op = "refresh" /\ Commit(w) =>
       \A u \in Users :
         /\ Sees(u)' = Sees(u)
         /\ \A s \in Present : <<u, s>> \notin OutOfDate(w) => Allowed(u, s)' = Allowed(u, s)]_vars

=============================================================================
