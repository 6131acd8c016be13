--------------------------- MODULE AccessGridProofs ---------------------------
(***************************************************************************)
(* Proofs about AccessGrid for any number of users, stages, actions and    *)
(* requests, however these overlap: buttons and server agree, toggles      *)
(* survive, a commit leaves a row with the default of the moment for every *)
(* pair whose reading is still current, and Refresh changes no right but   *)
(* by rows read out of date.                                               *)
(***************************************************************************)
EXTENDS AccessGrid, TLAPS

Partial(D, R) == UNION {[S -> R] : S \in SUBSET D}
Tx == [op : {"idle", "undone", "user", "stage", "refresh"},
       role : Partial(Users, Roles), type : Partial(Stages, Types),
       new : Partial(Pairs, Row), reset : Partial(Pairs, SUBSET Actions),
       current : SUBSET Pairs, doomed : BOOLEAN]

Typed ==
  /\ role \in [Users -> Roles] /\ type \in [Stages -> Types]
  /\ row \in [Pairs -> Row \union {NoRow}] /\ edited \subseteq Pairs
  /\ tx \in [Workers -> Tx]

\* A request that ended holds nothing.
FreeIsEmpty == \A w \in Workers : Free(w) => tx[w] = [Idle EXCEPT !.op = tx[w].op]

\* A stage is created by one request, and is not there before it.
CreatesAbsent ==
  \A w \in Workers : \A s \in DOMAIN tx[w].type :
    /\ type[s] = "absent"
    /\ \A v \in Workers \ {w} : s \notin DOMAIN tx[v].type

\* A request resets rows of a user whose Tech Lead membership it flips, on
\* Client Servers; when somebody else changes any of these, it is doomed.
ResetsCurrent ==
  \A w \in Workers : ~tx[w].doomed =>
    \A p \in DOMAIN tx[w].reset :
      /\ row[p] # NoRow /\ type[p[2]] = "client"
      /\ p[1] \in DOMAIN tx[w].role
      /\ HasTechLead(role[p[1]]) # HasTechLead(tx[w].role[p[1]])

Known == Typed /\ FreeIsEmpty /\ CreatesAbsent /\ ResetsCurrent

LEMMA KnownIsTyped == Known => Typed
BY DEF Known

-----------------------------------------------------------------------------
(* What the operators of the model give.                                   *)

LEMMA PartialIs ==
  ASSUME NEW D, NEW R, NEW f \in Partial(D, R)
  PROVE  DOMAIN f \subseteq D /\ f \in [DOMAIN f -> R]
BY DEF Partial

LEMMA NothingIs ==
  DOMAIN Nothing = {} /\ \A D, R : Nothing \in Partial(D, R)
<1>1. DOMAIN Nothing = {}
  BY DEF Nothing
<1>2. ASSUME NEW D, NEW R PROVE Nothing \in Partial(D, R)
  <2>1. Nothing \in [{} -> R]
    BY DEF Nothing
  <2> QED
    BY <2>1 DEF Partial
<1> QED
  BY <1>1, <1>2

LEMMA MissingTyped ==
  ASSUME NEW us \in SUBSET Users, NEW ss \in SUBSET Stages, NEW roles, NEW types
  PROVE  Missing(us, ss, roles, types) \in Partial(Pairs, Row)
<1> DEFINE S == {q \in InGrid(us, ss, roles) : row[q] = NoRow}
           f == Missing(us, ss, roles, types)
<1>1. S \subseteq Pairs
  BY DEF Pairs, InGrid
<1>2. \A p \in S : [view |-> TRUE, act |-> Default(roles[p[1]], types[p[2]])] \in Row
  BY DEF Default, Row
<1>3. f \in [S -> Row]
  BY <1>2 DEF Missing
<1> QED
  BY <1>1, <1>3 DEF Partial

LEMMA ResetTyped ==
  ASSUME NEW u \in Users, NEW roles
  PROVE  Reset(u, roles) \in Partial(Pairs, SUBSET Actions)
<1> DEFINE S == {q \in {u} \X Stages : Developer(roles[u]) /\ row[q] # NoRow /\ type[q[2]] = "client"}
<1>1. S \subseteq Pairs
  BY DEF Pairs
<1>2. Reset(u, roles) \in [S -> SUBSET Actions]
  BY DEF Reset, Default
<1> QED
  BY <1>1, <1>2 DEF Partial

\* What the write of somebody else leaves of a request.
LEMMA OvertakeIs ==
  ASSUME Typed, NEW users, NEW pairs, NEW others, NEW w \in Workers
  PROVE  LET t == Overtake(users, pairs, others)[w] IN
         /\ t \in Tx /\ t.op = tx[w].op /\ t.role = tx[w].role /\ t.type = tx[w].type
         /\ t.new = tx[w].new /\ t.reset = tx[w].reset
         /\ t.current \subseteq tx[w].current
         /\ w \in others => \A p \in t.current : p[1] \notin users /\ p \notin pairs
         /\ tx[w].doomed => t.doomed
         /\ ~t.doomed /\ w \in others => /\ DOMAIN tx[w].role \intersect users = {}
                                         /\ DOMAIN tx[w].reset \intersect pairs = {}
         /\ tx[w].reset = Nothing /\ tx[w].role = Nothing => t.doomed = tx[w].doomed
<1> DEFINE hit == \/ DOMAIN tx[w].role \intersect users # {}
                  \/ DOMAIN tx[w].reset \intersect pairs # {}
           still == {p \in tx[w].current : p[1] \notin users /\ p \notin pairs}
           left == [tx[w] EXCEPT !.doomed = tx[w].doomed \/ hit, !.current = still]
<1>1. Overtake(users, pairs, others)[w] = IF w \notin others THEN tx[w] ELSE left
  BY DEF Overtake
<1>2. tx[w] \in Tx
  BY DEF Typed
<1>3. tx[w].reset = Nothing /\ tx[w].role = Nothing => ~hit
  BY NothingIs
<1>4. still \subseteq tx[w].current /\ \A p \in still : p[1] \notin users /\ p \notin pairs
  OBVIOUS
<1>7. hit \in BOOLEAN /\ (~hit => /\ DOMAIN tx[w].role \intersect users = {}
                                  /\ DOMAIN tx[w].reset \intersect pairs = {})
  OBVIOUS
<1> HIDE DEF hit, still
<1>5. CASE w \notin others
  BY <1>1, <1>2, <1>5
<1>6. CASE w \in others
  <2>1. /\ left \in Tx /\ left.op = tx[w].op /\ left.role = tx[w].role /\ left.type = tx[w].type
        /\ left.new = tx[w].new /\ left.reset = tx[w].reset /\ left.current = still
        /\ left.doomed = (tx[w].doomed \/ hit)
    BY <1>2, <1>4, <1>7 DEF Tx
  <2>2. Overtake(users, pairs, others)[w] = left /\ tx[w].doomed \in BOOLEAN
    BY <1>1, <1>2, <1>6 DEF Tx
  <2> HIDE DEF left
  <2>3. (tx[w].doomed => left.doomed) /\ (~left.doomed => ~hit)
    BY <2>1
  <2>4. tx[w].reset = Nothing /\ tx[w].role = Nothing => left.doomed = tx[w].doomed
    BY <1>3, <2>1, <2>2
  <2> QED
    BY <1>4, <1>7, <2>1, <2>2, <2>3, <2>4
<1> QED
  BY <1>5, <1>6

\* A request that holds nothing is left as it is.
LEMMA OvertakeIdle ==
  ASSUME Typed, NEW users, NEW pairs, NEW others, NEW w \in Workers,
         tx[w] = [Idle EXCEPT !.op = tx[w].op]
  PROVE  Overtake(users, pairs, others)[w] = tx[w]
<1>1. /\ tx[w].role = Nothing /\ tx[w].reset = Nothing /\ tx[w].current = {} /\ tx[w].doomed = FALSE
      /\ tx[w] \in Tx
  BY DEF Idle, Request, Typed
<1>2. [tx[w] EXCEPT !.doomed = FALSE, !.current = {}] = tx[w]
  BY <1>1 DEF Tx
<1>3. {p \in tx[w].current : p[1] \notin users /\ p \notin pairs} = {}
  BY <1>1
<1>4. (tx[w].doomed \/ DOMAIN tx[w].role \intersect users # {}
                    \/ DOMAIN tx[w].reset \intersect pairs # {}) = FALSE
  BY <1>1, NothingIs
<1> QED
  BY <1>2, <1>3, <1>4 DEF Overtake

-----------------------------------------------------------------------------
LEMMA IdleIs ==
  /\ Idle \in Tx /\ Idle.op = "idle" /\ Idle.role = Nothing /\ Idle.type = Nothing
  /\ Idle.new = Nothing /\ Idle.reset = Nothing /\ Idle.current = {} /\ ~Idle.doomed
BY NothingIs DEF Idle, Request, Tx

LEMMA InitKnown == Init => Known
<1> SUFFICES ASSUME Init PROVE Known
  OBVIOUS
<1>1. Typed
  BY IdleIs, AccessAssumption DEF Init, Typed, Roles
<1>2. \A w \in Workers : tx[w] = Idle
  BY DEF Init
<1>3. FreeIsEmpty
  BY <1>2, IdleIs DEF FreeIsEmpty, Tx
<1>4. CreatesAbsent /\ ResetsCurrent
  BY <1>2, IdleIs, NothingIs DEF CreatesAbsent, ResetsCurrent
<1> QED
  BY <1>1, <1>3, <1>4 DEF Known

\* A request opens with what it read of the tables.
LEMMA OpenKnown ==
  ASSUME Known, NEW w \in Workers,
         UNCHANGED <<role, type, row, edited>>,
         tx' \in [Workers -> Tx], \A v \in Workers \ {w} : tx'[v] = tx[v],
         ~Free(w)', ~tx'[w].doomed,
         \A s \in DOMAIN tx'[w].type :
           type[s] = "absent" /\ \A v \in Workers : s \notin DOMAIN tx[v].type,
         \A p \in DOMAIN tx'[w].reset :
           /\ row[p] # NoRow /\ type[p[2]] = "client" /\ p[1] \in DOMAIN tx'[w].role
           /\ HasTechLead(role[p[1]]) # HasTechLead(tx'[w].role[p[1]])
  PROVE  Known'
<1>1. Typed'
  BY DEF Known, Typed
<1>2. FreeIsEmpty'
  BY DEF Known, FreeIsEmpty, Free
<1>3. CreatesAbsent'
  BY DEF Known, CreatesAbsent
<1>4. ResetsCurrent'
  BY DEF Known, ResetsCurrent
<1> QED
  BY <1>1, <1>2, <1>3, <1>4 DEF Known

\* What the opening of a request that saves a user leaves behind.
SaveUserOpened(w, u, r) ==
  LET t == tx'[w]
      roles == [role EXCEPT ![u] = r] IN
  /\ tx' = [tx EXCEPT ![w] = t] /\ t \in Tx /\ t.op = "user" /\ ~t.doomed
  /\ DOMAIN t.role = {u} /\ t.role[u] = r /\ t.type = Nothing
  /\ t.new = Missing({u}, Present, roles, type)
  /\ t.reset = IF HasTechLead(role[u]) # HasTechLead(r) THEN Reset(u, roles) ELSE Nothing
  /\ t.current = InGrid({u}, Present, roles)
  /\ <<role[u], r>> \in Moves /\ Free(w) /\ UNCHANGED <<role, type, row, edited>>

LEMMA SaveUserIs ==
  ASSUME Typed, NEW w \in Workers, NEW u \in Users, NEW r \in Roles, SaveUser(w, u, r)
  PROVE  SaveUserOpened(w, u, r)
<1> DEFINE roles == [role EXCEPT ![u] = r]
           new == Missing({u}, Present, roles, type)
           reset == IF HasTechLead(role[u]) # HasTechLead(r) THEN Reset(u, roles) ELSE Nothing
           read == InGrid({u}, Present, roles)
           t == Request("user", [v \in {u} |-> r], Nothing, new, reset, read)
<1>1. [v \in {u} |-> r] \in Partial(Users, Roles)
  <2>1. {u} \in SUBSET Users /\ [v \in {u} |-> r] \in [{u} -> Roles]
    OBVIOUS
  <2> QED
    BY <2>1 DEF Partial
<1>2. new \in Partial(Pairs, Row)
  BY MissingTyped DEF Present
<1>3. reset \in Partial(Pairs, SUBSET Actions)
  BY ResetTyped, NothingIs
<1>4. tx' = [tx EXCEPT ![w] = t] /\ <<role[u], r>> \in Moves /\ Free(w) /\ UNCHANGED <<role, type, row, edited>>
  BY DEF SaveUser, Open
<1>7. read \subseteq Pairs
  BY DEF InGrid, Pairs, Present
<1> HIDE DEF new, reset, read
<1>5. t \in Tx /\ t.op = "user" /\ ~t.doomed /\ t.role = [v \in {u} |-> r] /\ t.type = Nothing
      /\ t.new = new /\ t.reset = reset /\ t.current = read
  BY <1>1, <1>2, <1>3, <1>7, NothingIs DEF Request, Tx
<1>6. tx'[w] = t
  BY <1>4 DEF Typed
<1> QED
  BY <1>4, <1>5, <1>6 DEF new, reset, read, SaveUserOpened

\* What the opening of a save the grid does not hear of leaves behind.
LEMMA SaveGroupsIs ==
  ASSUME Typed, NEW w \in Workers, NEW u \in Users, NEW r \in Roles, SaveGroups(w, u, r)
  PROVE  LET t == tx'[w] IN
         /\ tx' = [tx EXCEPT ![w] = t] /\ t \in Tx /\ t.op = "user" /\ ~t.doomed
         /\ DOMAIN t.role = {u} /\ t.type = Nothing /\ t.new = Nothing /\ t.reset = Nothing
         /\ t.current = {} /\ UNCHANGED <<role, type, row, edited>>
<1> DEFINE t == Request("user", [v \in {u} |-> r], Nothing, Nothing, Nothing, {})
<1>1. [v \in {u} |-> r] \in Partial(Users, Roles)
  <2>1. {u} \in SUBSET Users /\ [v \in {u} |-> r] \in [{u} -> Roles]
    OBVIOUS
  <2> QED
    BY <2>1 DEF Partial
<1>2. tx' = [tx EXCEPT ![w] = t] /\ UNCHANGED <<role, type, row, edited>>
  BY DEF SaveGroups, Open
<1>3. t \in Tx /\ t.op = "user" /\ ~t.doomed /\ t.role = [v \in {u} |-> r] /\ t.type = Nothing
      /\ t.new = Nothing /\ t.reset = Nothing /\ t.current = {}
  BY <1>1, NothingIs DEF Request, Tx
<1>4. tx'[w] = t
  BY <1>2 DEF Typed
<1> QED
  BY <1>2, <1>3, <1>4

\* What the opening of a request that creates a stage leaves behind.
CreateStageOpened(w, s, k) ==
  LET t == tx'[w] IN
  /\ tx' = [tx EXCEPT ![w] = t] /\ t \in Tx /\ t.op = "stage" /\ ~t.doomed
  /\ t.role = Nothing /\ DOMAIN t.type = {s} /\ t.type[s] = k /\ t.reset = Nothing
  /\ t.new = Missing(Users, {s}, role, [type EXCEPT ![s] = k]) /\ t.current = InGrid(Users, {s}, role)
  /\ type[s] = "absent" /\ k # "absent"
  /\ Free(w) /\ UNCHANGED <<role, type, row, edited>>

LEMMA CreateStageIs ==
  ASSUME Typed, NEW w \in Workers, NEW s \in Stages, NEW k \in Types, CreateStage(w, s, k)
  PROVE  CreateStageOpened(w, s, k)
<1> DEFINE new == Missing(Users, {s}, role, [type EXCEPT ![s] = k])
           read == InGrid(Users, {s}, role)
           t == Request("stage", Nothing, [z \in {s} |-> k], new, Nothing, read)
<1>1. [z \in {s} |-> k] \in Partial(Stages, Types)
  <2>1. {s} \in SUBSET Stages /\ [z \in {s} |-> k] \in [{s} -> Types]
    OBVIOUS
  <2> QED
    BY <2>1 DEF Partial
<1>2. new \in Partial(Pairs, Row)
  BY MissingTyped
<1>4. tx' = [tx EXCEPT ![w] = t] /\ Free(w) /\ UNCHANGED <<role, type, row, edited>>
  BY DEF CreateStage, Open
<1>7. read \subseteq Pairs
  BY DEF InGrid, Pairs
<1> HIDE DEF new, read
<1>5. t \in Tx /\ t.op = "stage" /\ ~t.doomed /\ t.role = Nothing /\ t.type = [z \in {s} |-> k]
      /\ t.new = new /\ t.reset = Nothing /\ t.current = read
  BY <1>1, <1>2, <1>7, NothingIs DEF Request, Tx
<1>6. tx'[w] = t
  BY <1>4 DEF Typed
<1> QED
  BY <1>4, <1>5, <1>6 DEF new, read, CreateStage, CreateStageOpened

LEMMA RefreshIs ==
  ASSUME Typed, NEW w \in Workers, Refresh(w)
  PROVE  LET t == tx'[w] IN
         /\ tx' = [tx EXCEPT ![w] = t] /\ t \in Tx /\ t.op = "refresh" /\ ~t.doomed
         /\ t.role = Nothing /\ t.type = Nothing /\ t.reset = Nothing
         /\ t.new = Missing(Users, Present, role, type) /\ t.current = InGrid(Users, Present, role)
         /\ Free(w) /\ UNCHANGED <<role, type, row, edited>>
<1> DEFINE new == Missing(Users, Present, role, type)
           read == InGrid(Users, Present, role)
           t == Request("refresh", Nothing, Nothing, new, Nothing, read)
<1>2. new \in Partial(Pairs, Row)
  BY MissingTyped DEF Present
<1>4. tx' = [tx EXCEPT ![w] = t] /\ Free(w) /\ UNCHANGED <<role, type, row, edited>>
  BY DEF Refresh, Open
<1>7. read \subseteq Pairs
  BY DEF InGrid, Pairs, Present
<1> HIDE DEF new, read
<1>5. t \in Tx /\ t.op = "refresh" /\ ~t.doomed /\ t.role = Nothing /\ t.type = Nothing
      /\ t.new = new /\ t.reset = Nothing /\ t.current = read
  BY <1>2, <1>7, NothingIs DEF Request, Tx
<1>6. tx'[w] = t
  BY <1>4 DEF Typed
<1> QED
  BY <1>4, <1>5, <1>6 DEF new, read

LEMMA OpensKnown ==
  ASSUME Known, NEW w \in Workers,
         \/ \E u \in Users, r \in Roles : SaveUser(w, u, r) \/ SaveGroups(w, u, r)
         \/ \E s \in Stages, k \in Types : CreateStage(w, s, k)
         \/ Refresh(w)
  PROVE  Known'
<1> USE DEF Known
<1>1. ASSUME NEW u \in Users, NEW r \in Roles, SaveUser(w, u, r) PROVE Known'
  <2> DEFINE t == tx'[w]
             roles == [role EXCEPT ![u] = r]
  <2>1. /\ tx' = [tx EXCEPT ![w] = t] /\ t \in Tx /\ t.op = "user" /\ ~t.doomed
        /\ DOMAIN t.role = {u} /\ t.role[u] = r /\ t.type = Nothing
        /\ t.reset = IF HasTechLead(role[u]) # HasTechLead(r) THEN Reset(u, roles) ELSE Nothing
        /\ UNCHANGED <<role, type, row, edited>>
    <3>1. SaveUserOpened(w, u, r)
      BY <1>1, SaveUserIs
    <3> QED
      BY <3>1 DEF SaveUserOpened
  <2>2. tx' \in [Workers -> Tx] /\ (\A v \in Workers \ {w} : tx'[v] = tx[v]) /\ ~Free(w)'
    BY <2>1 DEF Typed, Free
  <2>3. \A s \in DOMAIN t.type : FALSE
    BY <2>1, NothingIs
  <2>4. ASSUME NEW p \in DOMAIN t.reset
        PROVE  /\ row[p] # NoRow /\ type[p[2]] = "client" /\ p[1] \in DOMAIN t.role
               /\ HasTechLead(role[p[1]]) # HasTechLead(t.role[p[1]])
    <3>1. HasTechLead(role[u]) # HasTechLead(r) /\ p \in DOMAIN Reset(u, roles)
      BY <2>1, <2>4, NothingIs
    <3>2. p[1] = u /\ type[p[2]] = "client" /\ row[p] # NoRow
      BY <3>1 DEF Reset
    <3> QED
      BY <2>1, <3>1, <3>2
  <2> QED
    BY <2>1, <2>2, <2>3, <2>4, OpenKnown
<1>2. ASSUME NEW s \in Stages, NEW k \in Types, CreateStage(w, s, k) PROVE Known'
  <2> DEFINE t == tx'[w]
  <2>1. /\ tx' = [tx EXCEPT ![w] = t] /\ t \in Tx /\ t.op = "stage" /\ ~t.doomed
        /\ DOMAIN t.type = {s} /\ t.reset = Nothing
        /\ type[s] = "absent" /\ UNCHANGED <<role, type, row, edited>>
    <3>1. CreateStageOpened(w, s, k)
      BY <1>2, CreateStageIs
    <3> QED
      BY <3>1 DEF CreateStageOpened
  <2>5. \A v \in Workers : s \notin DOMAIN tx[v].type
    BY <1>2 DEF CreateStage
  <2>2. tx' \in [Workers -> Tx] /\ (\A v \in Workers \ {w} : tx'[v] = tx[v]) /\ ~Free(w)'
    BY <2>1 DEF Typed, Free
  <2>3. \A p \in DOMAIN t.reset : FALSE
    BY <2>1, NothingIs
  <2>4. \A z \in DOMAIN t.type : z = s
    BY <2>1
  <2> QED
    BY <2>1, <2>2, <2>3, <2>4, <2>5, OpenKnown
<1>3. ASSUME Refresh(w) PROVE Known'
  <2> DEFINE t == tx'[w]
  <2>1. /\ tx' = [tx EXCEPT ![w] = t] /\ t \in Tx /\ t.op = "refresh" /\ ~t.doomed
        /\ t.type = Nothing /\ t.reset = Nothing /\ UNCHANGED <<role, type, row, edited>>
    BY <1>3, RefreshIs
  <2>2. tx' \in [Workers -> Tx] /\ (\A v \in Workers \ {w} : tx'[v] = tx[v]) /\ ~Free(w)'
    BY <2>1 DEF Typed, Free
  <2>3. (\A p \in DOMAIN t.reset : FALSE) /\ (\A s \in DOMAIN t.type : FALSE)
    BY <2>1, NothingIs
  <2> QED
    BY <2>1, <2>2, <2>3, OpenKnown
<1>4. ASSUME NEW u \in Users, NEW r \in Roles, SaveGroups(w, u, r) PROVE Known'
  <2> DEFINE t == tx'[w]
  <2>1. /\ tx' = [tx EXCEPT ![w] = t] /\ t \in Tx /\ t.op = "user" /\ ~t.doomed
        /\ t.type = Nothing /\ t.reset = Nothing /\ UNCHANGED <<role, type, row, edited>>
    BY <1>4, SaveGroupsIs
  <2>2. tx' \in [Workers -> Tx] /\ (\A v \in Workers \ {w} : tx'[v] = tx[v]) /\ ~Free(w)'
    BY <2>1 DEF Typed, Free
  <2>3. (\A p \in DOMAIN t.reset : FALSE) /\ (\A s \in DOMAIN t.type : FALSE)
    BY <2>1, NothingIs
  <2> QED
    BY <2>1, <2>2, <2>3, OpenKnown
<1> QED
  BY <1>1, <1>2, <1>3, <1>4

-----------------------------------------------------------------------------
(* The end of a request.                                                   *)

\* The tables as they are after a commit of t.
RoleAfter(t, u) == IF u \in DOMAIN t.role THEN t.role[u] ELSE role[u]
TypeAfter(t, s) == IF s \in DOMAIN t.type THEN t.type[s] ELSE type[s]
RowAfter(t, p) ==
  IF p \in DOMAIN t.new THEN t.new[p]
  ELSE IF p \in DOMAIN t.reset THEN [row[p] EXCEPT !.act = t.reset[p]]
  ELSE row[p]

LEMMA AfterTyped ==
  ASSUME Known, NEW w \in Workers, ~tx[w].doomed
  PROVE  /\ \A u \in Users : RoleAfter(tx[w], u) \in Roles
         /\ \A s \in Stages : TypeAfter(tx[w], s) \in Types
         /\ \A p \in Pairs : RowAfter(tx[w], p) \in Row \union {NoRow}
<1> DEFINE t == tx[w]
<1> USE DEF Known
<1>1. /\ t.role \in Partial(Users, Roles) /\ t.type \in Partial(Stages, Types)
      /\ t.new \in Partial(Pairs, Row) /\ t.reset \in Partial(Pairs, SUBSET Actions)
  BY DEF Typed, Tx
<1>2. /\ \A u \in DOMAIN t.role : t.role[u] \in Roles
      /\ \A s \in DOMAIN t.type : t.type[s] \in Types
      /\ \A p \in DOMAIN t.new : t.new[p] \in Row
      /\ \A p \in DOMAIN t.reset : t.reset[p] \in SUBSET Actions
  BY <1>1, PartialIs
<1>6. \A p \in DOMAIN t.reset : row[p] # NoRow
  BY DEF ResetsCurrent
<1> HIDE DEF t
<1>3. \A p \in Pairs : p \in DOMAIN t.reset => [row[p] EXCEPT !.act = t.reset[p]] \in Row
  BY <1>2, <1>6 DEF Typed, Row
<1>4. ASSUME NEW p \in Pairs PROVE RowAfter(t, p) \in Row \union {NoRow}
  BY <1>2, <1>3 DEF RowAfter, Typed, t
<1>5. /\ \A u \in Users : RoleAfter(t, u) \in Roles
      /\ \A s \in Stages : TypeAfter(t, s) \in Types
  BY <1>2 DEF RoleAfter, TypeAfter, Typed
<1> QED
  BY <1>4, <1>5 DEF t

\* What a commit does.
LEMMA CommitIs ==
  ASSUME Known, NEW w \in Workers, Commit(w)
  PROVE  LET t == tx[w] IN
         /\ ~Free(w) /\ ~t.doomed /\ ~Clash(t)
         /\ \A u \in Users : role'[u] = RoleAfter(t, u)
         /\ \A s \in Stages : type'[s] = TypeAfter(t, s)
         /\ \A p \in Pairs : row'[p] = RowAfter(t, p)
         /\ edited' = edited \ DOMAIN t.reset
         /\ tx' = [Overtake(DOMAIN t.role, DOMAIN t.reset, Workers \ {w}) EXCEPT ![w] = Idle]
         /\ \A v \in Workers \ {w} : tx'[v] = Overtake(DOMAIN t.role, DOMAIN t.reset, Workers \ {w})[v]
         /\ tx'[w] = Idle
BY DEF Known, Typed, Commit, RoleAfter, TypeAfter, RowAfter, Overtake

\* A commit removes no row, and touches no type but that of a new stage.
LEMMA CommitKeeps ==
  ASSUME Known, NEW w \in Workers, Commit(w)
  PROVE  /\ \A p \in Pairs : row[p] # NoRow => row'[p] # NoRow
         /\ \A s \in Stages : type[s] # "absent" => type'[s] = type[s]
         /\ \A u \in Users \ DOMAIN tx[w].role : role'[u] = role[u]
<1> DEFINE t == tx[w]
<1>1. /\ ~t.doomed /\ ~Clash(t)
      /\ \A u \in Users : role'[u] = RoleAfter(t, u)
      /\ \A s \in Stages : type'[s] = TypeAfter(t, s)
      /\ \A p \in Pairs : row'[p] = RowAfter(t, p)
  BY CommitIs
<1>2. /\ t.new \in Partial(Pairs, Row) /\ t.reset \in Partial(Pairs, SUBSET Actions)
  BY DEF Known, Typed, Tx
<1>3. /\ \A p \in DOMAIN t.new : t.new[p] \in Row
      /\ \A p \in DOMAIN t.reset : t.reset[p] \in SUBSET Actions
  BY <1>2, PartialIs
<1>4. \A s \in Stages : type[s] # "absent" => s \notin DOMAIN t.type
  BY DEF Known, CreatesAbsent
<1> HIDE DEF t
<1>5. ASSUME NEW p \in Pairs, row[p] # NoRow PROVE row'[p] # NoRow
  <2>1. p \notin DOMAIN t.new
    BY <1>1, <1>5 DEF Clash
  <2>2. row[p] \in Row
    BY <1>5 DEF Known, Typed
  <2>3. p \in DOMAIN t.reset => [row[p] EXCEPT !.act = t.reset[p]] \in Row
    BY <1>3, <2>2 DEF Row
  <2> QED
    BY <1>1, <1>5, <2>1, <2>2, <2>3, AccessAssumption DEF RowAfter
<1> QED
  BY <1>1, <1>4, <1>5 DEF RoleAfter, TypeAfter, t

LEMMA CommitKnown ==
  ASSUME Known, NEW w \in Workers, Commit(w)
  PROVE  Known'
<1> DEFINE t == tx[w]
           D == Overtake(DOMAIN t.role, DOMAIN t.reset, Workers \ {w})
<1>1. /\ ~t.doomed
      /\ \A u \in Users : role'[u] = RoleAfter(t, u)
      /\ \A s \in Stages : type'[s] = TypeAfter(t, s)
      /\ \A p \in Pairs : row'[p] = RowAfter(t, p)
      /\ \A v \in Workers \ {w} : tx'[v] = D[v]
      /\ tx'[w] = Idle
  BY CommitIs
<1>2. \A v \in Workers \ {w} :
        /\ D[v] \in Tx /\ D[v].op = tx[v].op /\ D[v].role = tx[v].role /\ D[v].type = tx[v].type
        /\ D[v].reset = tx[v].reset /\ (tx[v].doomed => D[v].doomed)
        /\ ~D[v].doomed => DOMAIN tx[v].role \intersect DOMAIN t.role = {}
  BY OvertakeIs DEF Known
<1>9. \A v \in Workers : tx[v] = [Idle EXCEPT !.op = tx[v].op] => D[v] = tx[v]
  BY OvertakeIdle DEF Known
<1>3. /\ role' = [u \in Users |-> RoleAfter(t, u)] /\ type' = [s \in Stages |-> TypeAfter(t, s)]
      /\ row' = [p \in Pairs |-> RowAfter(t, p)] /\ edited' = edited \ DOMAIN t.reset
      /\ tx' = [D EXCEPT ![w] = Idle]
  BY DEF Commit, RoleAfter, TypeAfter, RowAfter
<1>4. DOMAIN D = Workers
  BY DEF Overtake
<1> HIDE DEF t, D
<1>5. Typed'
  <2>1. tx' \in [Workers -> Tx]
    BY <1>1, <1>2, <1>3, <1>4, IdleIs
  <2>2. /\ \A u \in Users : RoleAfter(t, u) \in Roles
        /\ \A s \in Stages : TypeAfter(t, s) \in Types
        /\ \A p \in Pairs : RowAfter(t, p) \in Row \union {NoRow}
    BY <1>1, AfterTyped DEF t
  <2> QED
    BY <1>3, <2>1, <2>2 DEF Known, Typed
<1>6. FreeIsEmpty'
  <2> SUFFICES ASSUME NEW v \in Workers, Free(v)' PROVE tx'[v] = [Idle EXCEPT !.op = tx'[v].op]
    BY DEF FreeIsEmpty, Idle, Request, Nothing
  <2>1. CASE v = w
    BY <1>1, <2>1 DEF Idle, Request
  <2>2. CASE v # w
    <3>1. Free(v)
      BY <1>1, <1>2, <2>2 DEF Free
    <3>2. tx[v] = [Idle EXCEPT !.op = tx[v].op]
      BY <3>1 DEF Known, FreeIsEmpty
    <3>4. tx'[v] = tx[v]
      BY <1>1, <1>9, <2>2, <3>2
    <3> QED
      BY <3>2, <3>4
  <2> QED
    BY <2>1, <2>2
<1>7. CreatesAbsent'
  <2> SUFFICES ASSUME NEW v \in Workers, NEW s \in DOMAIN tx'[v].type
               PROVE  /\ type'[s] = "absent"
                      /\ \A x \in Workers \ {v} : s \notin DOMAIN tx'[x].type
    BY DEF CreatesAbsent
  <2>1. v # w
    BY <1>1, IdleIs, NothingIs
  <2>2. s \in DOMAIN tx[v].type
    BY <1>1, <1>2, <2>1
  <2>3. type[s] = "absent" /\ \A x \in Workers \ {v} : s \notin DOMAIN tx[x].type
    BY <2>2 DEF Known, CreatesAbsent
  <2>4. s \in Stages
    BY <2>2, PartialIs DEF Known, Typed, Tx
  <2>5. type'[s] = type[s]
    BY <1>1, <2>1, <2>3, <2>4 DEF TypeAfter, t
  <2>6. ASSUME NEW x \in Workers \ {v} PROVE s \notin DOMAIN tx'[x].type
    BY <1>1, <1>2, <2>3, IdleIs, NothingIs
  <2> QED
    BY <2>3, <2>5, <2>6
<1>8. ResetsCurrent'
  <2> SUFFICES ASSUME NEW v \in Workers, ~tx'[v].doomed, NEW p \in DOMAIN tx'[v].reset
               PROVE  /\ row'[p] # NoRow /\ type'[p[2]] = "client"
                      /\ p[1] \in DOMAIN tx'[v].role
                      /\ HasTechLead(role'[p[1]]) # HasTechLead(tx'[v].role[p[1]])
    BY DEF ResetsCurrent, HasTechLead
  <2>1. v # w
    BY <1>1, IdleIs, NothingIs
  <2>2. /\ ~tx[v].doomed /\ p \in DOMAIN tx[v].reset /\ tx'[v].role = tx[v].role
        /\ DOMAIN tx[v].role \intersect DOMAIN t.role = {}
    BY <1>1, <1>2, <2>1 DEF Known, Typed, Tx
  <2>3. /\ row[p] # NoRow /\ type[p[2]] = "client" /\ p[1] \in DOMAIN tx[v].role
        /\ HasTechLead(role[p[1]]) # HasTechLead(tx[v].role[p[1]])
    BY <2>2 DEF Known, ResetsCurrent
  <2>4. p \in Pairs /\ p[1] \in Users /\ p[2] \in Stages
    BY <2>2, PartialIs DEF Known, Typed, Tx, Pairs
  <2>5. row'[p] # NoRow /\ type'[p[2]] = "client" /\ role'[p[1]] = role[p[1]]
    BY <2>2, <2>3, <2>4, CommitKeeps DEF t
  <2> QED
    BY <2>2, <2>3, <2>5
<1> QED
  BY <1>5, <1>6, <1>7, <1>8 DEF Known

\* A request that fails, or is run again, leaves nothing.
LEMMA EndsKnown ==
  ASSUME Known, NEW w \in Workers, Fail(w) \/ Retry(w)
  PROVE  Known'
<1>1. /\ tx' \in [Workers -> Tx] /\ (\A v \in Workers \ {w} : tx'[v] = tx[v])
      /\ tx'[w] = [Idle EXCEPT !.op = tx'[w].op] /\ tx'[w].op \in {"idle", "undone"}
      /\ tx'[w].type = Nothing /\ tx'[w].reset = Nothing
  <2>1. CASE Retry(w)
    <3>1. tx' = [tx EXCEPT ![w] = Idle] /\ tx'[w] = Idle
      BY <2>1 DEF Retry, Known, Typed
    <3> QED
      BY <3>1, IdleIs DEF Known, Typed, Tx
  <2>2. CASE Fail(w)
    <3>1. tx' = [tx EXCEPT ![w] = Failed(tx[w])] /\ tx'[w] = Failed(tx[w])
      BY <2>2 DEF Fail, Known, Typed
    <3>2. PICK op \in {"idle", "undone"} : Failed(tx[w]) = [Idle EXCEPT !.op = op]
      BY DEF Failed
    <3>3. [Idle EXCEPT !.op = op] \in Tx
      BY IdleIs DEF Tx
    <3>4. /\ [Idle EXCEPT !.op = op].op = op /\ [Idle EXCEPT !.op = op].type = Nothing
          /\ [Idle EXCEPT !.op = op].reset = Nothing
      BY IdleIs DEF Tx
    <3> QED
      BY <3>1, <3>2, <3>3, <3>4 DEF Known, Typed
  <2> QED
    BY <2>1, <2>2
<1>2. UNCHANGED <<role, type, row, edited>>
  BY DEF Fail, Retry
<1>3. Typed'
  BY <1>1, <1>2 DEF Known, Typed
<1>4. FreeIsEmpty'
  BY <1>1 DEF Known, FreeIsEmpty, Free, Idle, Request, Nothing
<1>5. CreatesAbsent' /\ ResetsCurrent'
  BY <1>1, <1>2, NothingIs DEF Known, CreatesAbsent, ResetsCurrent, HasTechLead
<1> QED
  BY <1>3, <1>4, <1>5 DEF Known

\* Somebody else's write: requests it conflicts with are doomed.
LEMMA WriteKnown ==
  ASSUME Known, NEW pairs,
         tx' = Overtake({}, pairs, Workers), UNCHANGED role,
         type' \in [Stages -> Types], row' \in [Pairs -> Row \union {NoRow}], edited' \subseteq Pairs,
         \A s \in Stages : type[s] = "absent" => type'[s] = "absent",
         \A p \in Pairs : p \notin pairs /\ row[p] # NoRow /\ type[p[2]] = "client" =>
           row'[p] # NoRow /\ type'[p[2]] = "client"
  PROVE  Known'
<1> DEFINE D == Overtake({}, pairs, Workers)
<1>1. \A v \in Workers :
        /\ D[v] \in Tx /\ D[v].op = tx[v].op /\ D[v].role = tx[v].role /\ D[v].type = tx[v].type
        /\ D[v].reset = tx[v].reset /\ (tx[v].doomed => D[v].doomed)
        /\ ~D[v].doomed => DOMAIN tx[v].reset \intersect pairs = {}
  BY OvertakeIs DEF Known
<1>9. \A v \in Workers : tx[v] = [Idle EXCEPT !.op = tx[v].op] => D[v] = tx[v]
  BY OvertakeIdle DEF Known
<1>2. D \in [Workers -> Tx]
  <2>1. DOMAIN D = Workers /\ D = [v \in Workers |-> D[v]]
    BY DEF Overtake
  <2> HIDE DEF D
  <2> QED
    BY <1>1, <2>1
<1>3. tx' = D
  OBVIOUS
<1> HIDE DEF D
<1>4. Typed'
  BY <1>2, <1>3 DEF Known, Typed
<1>5. FreeIsEmpty'
  <2> SUFFICES ASSUME NEW v \in Workers, Free(v)' PROVE tx'[v] = [Idle EXCEPT !.op = tx'[v].op]
    BY DEF FreeIsEmpty, Idle, Request, Nothing
  <2>1. tx[v] = [Idle EXCEPT !.op = tx[v].op]
    BY <1>1, <1>3 DEF Known, FreeIsEmpty, Free
  <2> QED
    BY <1>3, <1>9, <2>1
<1>6. CreatesAbsent'
  <2> SUFFICES ASSUME NEW v \in Workers, NEW s \in DOMAIN tx'[v].type
               PROVE  /\ type'[s] = "absent"
                      /\ \A x \in Workers \ {v} : s \notin DOMAIN tx'[x].type
    BY DEF CreatesAbsent
  <2>1. s \in DOMAIN tx[v].type
    BY <1>1, <1>3
  <2>2. s \in Stages
    BY <2>1, PartialIs DEF Known, Typed, Tx
  <2>3. type[s] = "absent" /\ \A x \in Workers \ {v} : s \notin DOMAIN tx[x].type
    BY <2>1 DEF Known, CreatesAbsent
  <2> QED
    BY <1>1, <1>3, <2>2, <2>3
<1>7. ResetsCurrent'
  <2> SUFFICES ASSUME NEW v \in Workers, ~tx'[v].doomed, NEW p \in DOMAIN tx'[v].reset
               PROVE  /\ row'[p] # NoRow /\ type'[p[2]] = "client"
                      /\ p[1] \in DOMAIN tx'[v].role
                      /\ HasTechLead(role'[p[1]]) # HasTechLead(tx'[v].role[p[1]])
    BY DEF ResetsCurrent, HasTechLead
  <2>1. ~tx[v].doomed /\ p \in DOMAIN tx[v].reset /\ tx'[v].role = tx[v].role /\ p \notin pairs
    BY <1>1, <1>3 DEF Known, Typed, Tx
  <2>2. /\ row[p] # NoRow /\ type[p[2]] = "client" /\ p[1] \in DOMAIN tx[v].role
        /\ HasTechLead(role[p[1]]) # HasTechLead(tx[v].role[p[1]])
    BY <2>1 DEF Known, ResetsCurrent
  <2>3. p \in Pairs
    BY <2>1, PartialIs DEF Known, Typed, Tx
  <2> QED
    BY <2>1, <2>2, <2>3
<1> QED
  BY <1>4, <1>5, <1>6, <1>7 DEF Known

LEMMA ToggleKnown ==
  ASSUME Known, NEW u \in Users, NEW s \in Stages, NEW r \in Row, Toggle(u, s, r)
  PROVE  Known'
<1>1. <<u, s>> \in Pairs /\ r # NoRow
  BY AccessAssumption DEF Pairs
<1> QED
  BY <1>1, WriteKnown DEF Toggle, Known, Typed

LEMMA UnlinkKnown ==
  ASSUME Known, NEW u \in Users, NEW s \in Stages, Unlink(u, s)
  PROVE  Known'
<1>1. <<u, s>> \in Pairs
  BY DEF Pairs
<1> QED
  BY <1>1, WriteKnown DEF Unlink, Known, Typed

LEMMA FlipClientKnown ==
  ASSUME Known, NEW s \in Stages, FlipClient(s)
  PROVE  Known'
<1>1. /\ tx' = Overtake({}, Users \X {s}, Workers) /\ UNCHANGED <<role, row, edited>> /\ type[s] # "absent"
      /\ type' = [type EXCEPT ![s] = IF type[s] = "client" THEN "normal" ELSE "client"]
  BY DEF FlipClient, Present
<1>2. type' \in [Stages -> Types] /\ \A z \in Stages : z # s => type'[z] = type[z]
  BY <1>1 DEF Known, Typed, Types
<1>3. \A p \in Pairs : p[2] \in Stages /\ (p \notin Users \X {s} => p[2] # s)
  BY DEF Pairs
<1> QED
  BY <1>1, <1>2, <1>3, WriteKnown, ZenonT(60) DEF Known, Typed

LEMMA DeleteStageKnown ==
  ASSUME Known, NEW s \in Stages, DeleteStage(s)
  PROVE  Known'
<1>1. /\ tx' = Overtake({}, Users \X {s}, Workers) /\ UNCHANGED role /\ edited' = edited \ (Users \X {s})
      /\ type' = [type EXCEPT ![s] = "absent"]
      /\ row' = [p \in Pairs |-> IF p[2] = s THEN NoRow ELSE row[p]]
  BY DEF DeleteStage
<1>2. type' \in [Stages -> Types] /\ type'[s] = "absent" /\ \A z \in Stages : z # s => type'[z] = type[z]
  BY <1>1 DEF Known, Typed, Types
<1>3. \A p \in Pairs : p[2] \in Stages /\ (p \notin Users \X {s} => p[2] # s)
  BY DEF Pairs
<1>4. row' \in [Pairs -> Row \union {NoRow}]
  BY <1>1 DEF Known, Typed
<1>5. edited' \subseteq Pairs
  BY <1>1 DEF Known, Typed
<1>6. \A z \in Stages : type[z] = "absent" => type'[z] = "absent"
  BY <1>2
<1>7. \A p \in Pairs : p \notin Users \X {s} => row'[p] = row[p] /\ type'[p[2]] = type[p[2]]
  BY <1>1, <1>2, <1>3
<1> QED
  BY <1>1, <1>2, <1>4, <1>5, <1>6, <1>7, WriteKnown

LEMMA KnownStep == Known /\ [Next]_vars => Known'
<1> SUFFICES ASSUME Known, [Next]_vars PROVE Known'
  OBVIOUS
<1>1. CASE UNCHANGED vars
  BY <1>1 DEF vars, Known, Typed, FreeIsEmpty, Free, CreatesAbsent, ResetsCurrent, Idle, Request, Nothing,
              HasTechLead
<1> QED
  BY <1>1, OpensKnown, CommitKnown, EndsKnown, ToggleKnown, UnlinkKnown, FlipClientKnown, DeleteStageKnown
  DEF Next

LEMMA AlwaysKnown == Spec => []Known
BY InitKnown, KnownStep, PTL DEF Spec

-----------------------------------------------------------------------------
(* However requests overlap.                                               *)

\* The buttons and the server decide alike, with and without a row.
THEOREM ButtonsMatchServer == Spec => []ShownIsAllowed
<1>1. Known => ShownIsAllowed
  <2> SUFFICES ASSUME Known, NEW u \in Users, NEW s \in Sees(u) PROVE Shown(u, s) = Allowed(u, s)
    BY DEF ShownIsAllowed
  <2>1. role[u] \in Roles /\ role[u] # "none" /\ s \in Present
    BY DEF Known, Typed, Sees, Roles
  <2>2. type[s] \in {"normal", "client"}
    BY <2>1 DEF Known, Typed, Present, Types
  <2>3. CASE role[u] = "devops"
    BY <2>3 DEF Shown, Allowed
  <2>4. CASE role[u] \in {"dev", "lead"}
    <3>1. HasTechLead(role[u]) <=> role[u] = "lead"
      BY <2>4 DEF HasTechLead
    <3> QED
      BY <2>2, <2>4, <3>1 DEF Shown, Allowed
  <2> QED
    BY <2>1, <2>3, <2>4 DEF Roles
<1> QED
  BY <1>1, AlwaysKnown, PTL

\* A toggle of an administrator survives every request that commits after it.
THEOREM TogglesSurvive == Spec => TogglesStick
<1> DEFINE Sticks ==
      (\E w \in Workers : Commit(w)) =>
         \A p \in Pairs : row[p] # NoRow =>
           /\ row'[p] # NoRow /\ row'[p].view = row[p].view
           /\ p \in edited /\ row'[p].act # row[p].act =>
                /\ type[p[2]] = "client"
                /\ HasTechLead(role[p[1]]) # HasTechLead(role'[p[1]])
<1>1. Known => Sticks
  <2> SUFFICES ASSUME Known, NEW w \in Workers, Commit(w), NEW p \in Pairs, row[p] # NoRow
               PROVE  /\ row'[p] # NoRow /\ row'[p].view = row[p].view
                      /\ row'[p].act # row[p].act =>
                           /\ type[p[2]] = "client"
                           /\ HasTechLead(role[p[1]]) # HasTechLead(role'[p[1]])
    OBVIOUS
  <2> DEFINE t == tx[w]
  <2>1. /\ ~t.doomed /\ ~Clash(t) /\ row'[p] = RowAfter(t, p)
        /\ \A u \in Users : role'[u] = RoleAfter(t, u)
    BY CommitIs
  <2>2. row'[p] # NoRow
    BY CommitKeeps
  <2>3. p \notin DOMAIN t.new /\ row[p] \in Row
    BY <2>1 DEF Clash, Known, Typed
  <2>4. CASE p \notin DOMAIN t.reset
    BY <2>1, <2>2, <2>3, <2>4 DEF RowAfter
  <2>5. CASE p \in DOMAIN t.reset
    <3>1. /\ type[p[2]] = "client" /\ p[1] \in DOMAIN t.role
          /\ HasTechLead(role[p[1]]) # HasTechLead(t.role[p[1]])
      BY <2>1, <2>5 DEF Known, ResetsCurrent
    <3>2. p[1] \in Users
      BY DEF Pairs
    <3>3. role'[p[1]] = t.role[p[1]]
      BY <2>1, <3>1, <3>2 DEF RoleAfter
    <3>4. row'[p] = [row[p] EXCEPT !.act = t.reset[p]]
      BY <2>1, <2>3, <2>5 DEF RowAfter
    <3>5. row'[p].view = row[p].view
      BY <2>3, <3>4 DEF Row
    <3> QED
      BY <2>2, <3>1, <3>3, <3>5
  <2> QED
    BY <2>4, <2>5
<1>2. Known => [Sticks]_vars
  BY <1>1
<1> QED
  BY <1>2, AlwaysKnown, PTL DEF TogglesStick

-----------------------------------------------------------------------------
(* What a request read and nobody has changed since.                       *)

LEMMA FromMissing ==
  ASSUME NEW us, NEW ss, NEW roles, NEW types, NEW f, f = Missing(us, ss, roles, types), NEW p \in DOMAIN f
  PROVE  /\ p \in us \X ss /\ Developer(roles[p[1]]) /\ row[p] = NoRow
         /\ f[p].view /\ f[p].act = Default(roles[p[1]], types[p[2]])
BY DEF Missing, InGrid

LEMMA InMissing ==
  ASSUME NEW us, NEW ss, NEW roles, NEW types, NEW p \in InGrid(us, ss, roles), row[p] = NoRow
  PROVE  p \in DOMAIN Missing(us, ss, roles, types)
BY DEF Missing

\* Request t flips the Tech Lead membership of u.
Flips(t, u) == u \in DOMAIN t.role /\ HasTechLead(role[u]) # HasTechLead(t.role[u])

\* What t is about to write for a pair it read: a row if there is none, with the
\* default of the role and the type as they will be, and the new default in the
\* row there is when the pair is on a Client Server and t flips its user.
Serves(t, p) ==
  /\ TypeAfter(t, p[2]) # "absent"
  /\ row[p] = NoRow => p \in DOMAIN t.new
  /\ p \in DOMAIN t.new => t.new[p].act = Default(RoleAfter(t, p[1]), TypeAfter(t, p[2]))
  /\ p \notin DOMAIN t.new /\ TypeAfter(t, p[2]) = "client" /\ Flips(t, p[1]) =>
       p \in DOMAIN t.reset /\ t.reset[p] = Default(t.role[p[1]], "client")

\* Every new row shows its stage; what Refresh writes is rows.
Shape(t) ==
  /\ \A p \in DOMAIN t.new : t.new[p].view
  /\ t.op = "refresh" => t.role = Nothing /\ t.type = Nothing /\ t.reset = Nothing

CurrentIsServed == \A w \in Workers : Shape(tx[w]) /\ \A p \in tx[w].current : Serves(tx[w], p)

LEMMA PairIs ==
  ASSUME NEW p \in Pairs
  PROVE  p[1] \in Users /\ p[2] \in Stages /\ p = <<p[1], p[2]>>
BY DEF Pairs

\* A request that opens serves what it reads.
LEMMA OpensServe ==
  ASSUME Known, NEW w \in Workers,
         \/ \E u \in Users, r \in Roles : SaveUser(w, u, r) \/ SaveGroups(w, u, r)
         \/ \E s \in Stages, k \in Types : CreateStage(w, s, k)
         \/ Refresh(w)
  PROVE  /\ UNCHANGED <<role, type, row>> /\ tx' = [tx EXCEPT ![w] = tx'[w]]
         /\ Shape(tx'[w]) /\ \A p \in tx'[w].current : Serves(tx'[w], p)
<1> DEFINE t == tx'[w]
<1>1. ASSUME NEW u \in Users, NEW r \in Roles, SaveUser(w, u, r)
      PROVE  tx' = [tx EXCEPT ![w] = t] /\ Shape(t) /\ \A p \in t.current : Serves(t, p)
  <2> DEFINE roles == [role EXCEPT ![u] = r]
  <2>1. /\ tx' = [tx EXCEPT ![w] = t] /\ t.op = "user" /\ DOMAIN t.role = {u} /\ t.role[u] = r
        /\ t.type = Nothing /\ t.new = Missing({u}, Present, roles, type)
        /\ t.reset = IF HasTechLead(role[u]) # HasTechLead(r) THEN Reset(u, roles) ELSE Nothing
        /\ t.current = InGrid({u}, Present, roles)
    <3>1. SaveUserOpened(w, u, r)
      BY <1>1, SaveUserIs, KnownIsTyped
    <3> QED
      BY <3>1 DEF SaveUserOpened
  <2>2. \A p \in DOMAIN t.new : t.new[p].view /\ t.new[p].act = Default(roles[p[1]], type[p[2]])
    <3>1. t.new = Missing({u}, Present, roles, type)
      BY <2>1
    <3> HIDE DEF t, roles
    <3> QED
      BY <3>1, FromMissing
  <2>3. ASSUME NEW p \in t.current PROVE Serves(t, p)
    <3>1. p[1] = u /\ p[2] \in Present /\ p \in {u} \X Stages /\ Developer(roles[u])
      BY <2>1, <2>3 DEF InGrid, Present
    <3>2. roles[u] = r /\ t.role[u] = r /\ RoleAfter(t, u) = r /\ TypeAfter(t, p[2]) = type[p[2]] /\ type[p[2]] # "absent"
      BY <2>1, <3>1, NothingIs DEF RoleAfter, TypeAfter, Known, Typed, Present
    <3>3. row[p] = NoRow => p \in DOMAIN t.new
      BY <2>1, <2>3, InMissing
    <3>4. ASSUME p \notin DOMAIN t.new, type[p[2]] = "client", Flips(t, u)
          PROVE  p \in DOMAIN t.reset /\ t.reset[p] = Default(r, "client")
      <4>1. t.reset = Reset(u, roles)
        BY <2>1, <3>4 DEF Flips
      <4>2. row[p] # NoRow
        BY <3>3, <3>4
      <4> QED
        BY <3>1, <3>2, <3>4, <4>1, <4>2 DEF Reset
    <3>5. p \in DOMAIN t.new => t.new[p].act = Default(r, type[p[2]])
      BY <2>2, <3>1, <3>2
    <3> HIDE DEF t, roles
    <3> QED
      BY <3>1, <3>2, <3>3, <3>4, <3>5 DEF Serves
  <2> QED
    BY <2>1, <2>2, <2>3 DEF Shape
<1>2. ASSUME NEW u \in Users, NEW r \in Roles, SaveGroups(w, u, r)
      PROVE  tx' = [tx EXCEPT ![w] = t] /\ Shape(t) /\ \A p \in t.current : Serves(t, p)
  BY <1>2, SaveGroupsIs, KnownIsTyped, NothingIs DEF Shape
<1>3. ASSUME NEW s \in Stages, NEW k \in Types, CreateStage(w, s, k)
      PROVE  tx' = [tx EXCEPT ![w] = t] /\ Shape(t) /\ \A p \in t.current : Serves(t, p)
  <2> DEFINE types == [type EXCEPT ![s] = k]
  <2>1. /\ tx' = [tx EXCEPT ![w] = t] /\ t.op = "stage" /\ t.role = Nothing /\ DOMAIN t.type = {s}
        /\ t.type[s] = k /\ t.reset = Nothing /\ k # "absent"
        /\ t.new = Missing(Users, {s}, role, types) /\ t.current = InGrid(Users, {s}, role)
    BY <1>3, CreateStageIs, KnownIsTyped DEF CreateStageOpened
  <2>2. \A p \in DOMAIN t.new : t.new[p].view /\ t.new[p].act = Default(role[p[1]], types[p[2]])
    <3>1. t.new = Missing(Users, {s}, role, types)
      BY <2>1
    <3> HIDE DEF t, types
    <3> QED
      BY <3>1, FromMissing
  <2>3. ASSUME NEW p \in t.current PROVE Serves(t, p)
    <3>1. p[2] = s /\ p[1] \in Users
      BY <2>1, <2>3 DEF InGrid
    <3>2. types[s] = k /\ RoleAfter(t, p[1]) = role[p[1]] /\ TypeAfter(t, s) = k /\ ~Flips(t, p[1])
      BY <2>1, NothingIs DEF RoleAfter, TypeAfter, Flips, Known, Typed
    <3>3. row[p] = NoRow => p \in DOMAIN t.new
      BY <2>1, <2>3, InMissing
    <3>4. p \in DOMAIN t.new => t.new[p].act = Default(role[p[1]], k)
      BY <2>2, <3>1, <3>2
    <3>5. k # "absent"
      BY <2>1
    <3> HIDE DEF t, types
    <3> QED
      BY <3>1, <3>2, <3>3, <3>4, <3>5 DEF Serves
  <2> QED
    BY <2>1, <2>2, <2>3 DEF Shape
<1>4. ASSUME Refresh(w)
      PROVE  tx' = [tx EXCEPT ![w] = t] /\ Shape(t) /\ \A p \in t.current : Serves(t, p)
  <2>1. /\ tx' = [tx EXCEPT ![w] = t] /\ t.role = Nothing /\ t.type = Nothing /\ t.reset = Nothing
        /\ t.new = Missing(Users, Present, role, type) /\ t.current = InGrid(Users, Present, role)
    BY <1>4, RefreshIs, KnownIsTyped
  <2>2. \A p \in DOMAIN t.new : t.new[p].view /\ t.new[p].act = Default(role[p[1]], type[p[2]])
    BY <2>1, FromMissing
  <2>3. ASSUME NEW p \in t.current PROVE Serves(t, p)
    <3>1. p[2] \in Present /\ p[1] \in Users
      BY <2>1, <2>3 DEF InGrid
    <3>2. /\ RoleAfter(t, p[1]) = role[p[1]] /\ TypeAfter(t, p[2]) = type[p[2]] /\ ~Flips(t, p[1])
          /\ type[p[2]] # "absent"
      BY <2>1, <3>1, NothingIs DEF RoleAfter, TypeAfter, Flips, Present
    <3>3. row[p] = NoRow => p \in DOMAIN t.new
      BY <2>1, <2>3, InMissing
    <3> QED
      BY <2>2, <3>1, <3>2, <3>3 DEF Serves
  <2> QED
    BY <2>1, <2>2, <2>3 DEF Shape
<1>5. UNCHANGED <<role, type, row>>
  BY DEF SaveUser, SaveGroups, CreateStage, Refresh, Open
<1> QED
  BY <1>1, <1>2, <1>3, <1>4, <1>5

\* The same fields, and nothing of a pair that is still current has changed.
LEMMA StillServed ==
  ASSUME NEW v \in Workers, CurrentIsServed,
         tx'[v].op = tx[v].op, tx'[v].role = tx[v].role, tx'[v].type = tx[v].type,
         tx'[v].new = tx[v].new, tx'[v].reset = tx[v].reset, tx'[v].current \subseteq tx[v].current,
         \A p \in tx'[v].current :
           /\ role'[p[1]] = role[p[1]]
           /\ TypeAfter(tx[v], p[2]) # "absent" => TypeAfter(tx[v], p[2])' = TypeAfter(tx[v], p[2])
           /\ row'[p] = NoRow => row[p] = NoRow
  PROVE  (Shape(tx[v]) /\ \A p \in tx[v].current : Serves(tx[v], p))'
<1>1. Shape(tx[v])'
  BY DEF CurrentIsServed, Shape, Nothing
<1>2. ASSUME NEW p \in tx'[v].current PROVE Serves(tx[v], p)'
  <2>1. Serves(tx[v], p)
    BY <1>2 DEF CurrentIsServed
  <2>2. TypeAfter(tx[v], p[2])' = TypeAfter(tx[v], p[2])
    BY <1>2, <2>1 DEF Serves
  <2>3. RoleAfter(tx[v], p[1])' = RoleAfter(tx[v], p[1]) /\ (Flips(tx[v], p[1])' <=> Flips(tx[v], p[1]))
    BY <1>2 DEF RoleAfter, Flips, HasTechLead
  <2>4. row'[p] = NoRow => row[p] = NoRow
    BY <1>2
  <2> QED
    BY <2>1, <2>2, <2>3, <2>4 DEF Serves, Default, HasTechLead
<1> QED
  BY <1>1, <1>2

\* Somebody's write on the page or on a stage.
LEMMA WriteServed ==
  ASSUME Known, CurrentIsServed, NEW pairs, tx' = Overtake({}, pairs, Workers), UNCHANGED role,
         \A p \in Pairs : p \notin pairs =>
           type'[p[2]] = type[p[2]] /\ (row'[p] = NoRow => row[p] = NoRow)
  PROVE  CurrentIsServed'
<1> SUFFICES ASSUME NEW v \in Workers PROVE (Shape(tx[v]) /\ \A p \in tx[v].current : Serves(tx[v], p))'
  BY DEF CurrentIsServed
<1> DEFINE D == Overtake({}, pairs, Workers)
<1>1. /\ D[v].op = tx[v].op /\ D[v].role = tx[v].role /\ D[v].type = tx[v].type
      /\ D[v].new = tx[v].new /\ D[v].reset = tx[v].reset /\ D[v].current \subseteq tx[v].current
      /\ \A p \in D[v].current : p \notin pairs
  BY OvertakeIs DEF Known
<1>2. tx' = D
  OBVIOUS
<1> HIDE DEF D
<1>3. tx[v].current \subseteq Pairs
  BY DEF Known, Typed, Tx
<1>4. ASSUME NEW p \in tx'[v].current
      PROVE  /\ role'[p[1]] = role[p[1]]
             /\ TypeAfter(tx[v], p[2])' = TypeAfter(tx[v], p[2])
             /\ row'[p] = NoRow => row[p] = NoRow
  <2>1. p \in Pairs /\ p \notin pairs
    BY <1>1, <1>2, <1>3, <1>4
  <2> QED
    BY <1>1, <1>2, <2>1 DEF TypeAfter
<1> QED
  BY <1>1, <1>2, <1>4, StillServed

\* The commit of another request.
LEMMA CommitServed ==
  ASSUME Known, CurrentIsServed, NEW w \in Workers, Commit(w)
  PROVE  CurrentIsServed'
<1> SUFFICES ASSUME NEW v \in Workers PROVE (Shape(tx[v]) /\ \A p \in tx[v].current : Serves(tx[v], p))'
  BY DEF CurrentIsServed
<1> DEFINE t == tx[w]
           D == Overtake(DOMAIN t.role, DOMAIN t.reset, Workers \ {w})
<1>1. tx'[w] = Idle /\ \A x \in Workers \ {w} : tx'[x] = D[x]
  BY CommitIs
<1>2. CASE v = w
  BY <1>1, <1>2, IdleIs, NothingIs DEF Shape, Nothing
<1>3. CASE v # w
  <2>1. /\ D[v].op = tx[v].op /\ D[v].role = tx[v].role /\ D[v].type = tx[v].type
        /\ D[v].new = tx[v].new /\ D[v].reset = tx[v].reset /\ D[v].current \subseteq tx[v].current
        /\ \A p \in D[v].current : p[1] \notin DOMAIN t.role
    BY <1>3, OvertakeIs DEF Known
  <2>2. tx'[v] = D[v]
    BY <1>1, <1>3
  <2> HIDE DEF D
  <2>3. tx[v].current \subseteq Pairs
    BY DEF Known, Typed, Tx
  <2>4. ASSUME NEW p \in tx'[v].current
        PROVE  /\ role'[p[1]] = role[p[1]]
               /\ TypeAfter(tx[v], p[2]) # "absent" => TypeAfter(tx[v], p[2])' = TypeAfter(tx[v], p[2])
               /\ row'[p] = NoRow => row[p] = NoRow
    <3>1. p \in Pairs /\ p[1] \in Users /\ p[2] \in Stages /\ p[1] \notin DOMAIN t.role
      BY <2>1, <2>2, <2>3, <2>4, PairIs
    <3>2. role'[p[1]] = role[p[1]] /\ (row'[p] = NoRow => row[p] = NoRow)
      BY <3>1, CommitKeeps
    <3>3. ASSUME TypeAfter(tx[v], p[2]) # "absent"
          PROVE  TypeAfter(tx[v], p[2])' = TypeAfter(tx[v], p[2])
      <4>1. CASE p[2] \in DOMAIN tx[v].type
        BY <2>1, <2>2, <4>1 DEF TypeAfter
      <4>2. CASE p[2] \notin DOMAIN tx[v].type
        <5>1. type[p[2]] # "absent"
          BY <3>3, <4>2 DEF TypeAfter
        <5>2. type'[p[2]] = type[p[2]]
          BY <3>1, <5>1, CommitKeeps
        <5> QED
          BY <2>1, <2>2, <4>2, <5>2 DEF TypeAfter
      <4> QED
        BY <4>1, <4>2
    <3> QED
      BY <3>2, <3>3
  <2> QED
    BY <2>1, <2>2, <2>4, StillServed
<1> QED
  BY <1>2, <1>3

LEMMA ServedStep == Known /\ CurrentIsServed /\ [Next]_vars => CurrentIsServed'
<1> SUFFICES ASSUME Known, CurrentIsServed, [Next]_vars PROVE CurrentIsServed'
  OBVIOUS
<1>1. ASSUME NEW w \in Workers,
             \/ \E u \in Users, r \in Roles : SaveUser(w, u, r) \/ SaveGroups(w, u, r)
             \/ \E s \in Stages, k \in Types : CreateStage(w, s, k)
             \/ Refresh(w)
      PROVE  CurrentIsServed'
  <2>1. /\ UNCHANGED <<role, type, row>> /\ tx' = [tx EXCEPT ![w] = tx'[w]]
        /\ Shape(tx'[w]) /\ \A p \in tx'[w].current : Serves(tx'[w], p)
    BY <1>1, OpensServe
  <2>2. ASSUME NEW v \in Workers PROVE (Shape(tx[v]) /\ \A p \in tx[v].current : Serves(tx[v], p))'
    <3>1. CASE v = w
      BY <2>1, <3>1 DEF Shape, Serves, TypeAfter, RoleAfter, Flips, Default, HasTechLead, Nothing
    <3>2. CASE v # w
      <4>1. tx'[v] = tx[v]
        BY <2>1, <3>2 DEF Known, Typed
      <4> QED
        BY <2>1, <4>1, StillServed DEF TypeAfter
    <3> QED
      BY <3>1, <3>2
  <2> QED
    BY <2>2 DEF CurrentIsServed
<1>2. ASSUME NEW w \in Workers, Fail(w) \/ Retry(w) PROVE CurrentIsServed'
  <2>1. /\ UNCHANGED <<role, type, row>> /\ \A v \in Workers \ {w} : tx'[v] = tx[v]
    BY <1>2 DEF Fail, Retry, Known, Typed
  <2>2. tx'[w].new = Nothing /\ tx'[w].current = {} /\ tx'[w].op # "refresh"
    <3>1. tx'[w] = Idle \/ tx'[w] = Failed(tx[w])
      BY <1>2 DEF Fail, Retry, Known, Typed
    <3>2. Failed(tx[w]).new = Nothing /\ Failed(tx[w]).current = {} /\ Failed(tx[w]).op # "refresh"
      BY IdleIs DEF Failed, Tx
    <3> QED
      BY <3>1, <3>2, IdleIs
  <2>3. ASSUME NEW v \in Workers PROVE (Shape(tx[v]) /\ \A p \in tx[v].current : Serves(tx[v], p))'
    <3>1. CASE v = w
      BY <2>2, <3>1, NothingIs DEF Shape
    <3>2. CASE v # w
      BY <2>1, <3>2, StillServed DEF TypeAfter
    <3> QED
      BY <3>1, <3>2
  <2> QED
    BY <2>3 DEF CurrentIsServed
<1>3. ASSUME NEW u \in Users, NEW s \in Stages,
             Unlink(u, s) \/ \E r \in Row : Toggle(u, s, r)
      PROVE  CurrentIsServed'
  <2>1. /\ tx' = Overtake({}, {<<u, s>>}, Workers) /\ UNCHANGED <<role, type>>
        /\ \A p \in Pairs : p # <<u, s>> => row'[p] = row[p]
    BY <1>3 DEF Unlink, Toggle, Known, Typed
  <2> QED
    BY <2>1, WriteServed
<1>4. ASSUME NEW s \in Stages, FlipClient(s) \/ DeleteStage(s) PROVE CurrentIsServed'
  <2>1. /\ tx' = Overtake({}, Users \X {s}, Workers) /\ UNCHANGED role
        /\ \A z \in Stages : z # s => type'[z] = type[z]
        /\ \A p \in Pairs : p[2] # s => row'[p] = row[p]
    BY <1>4 DEF FlipClient, DeleteStage, Known, Typed
  <2>2. \A p \in Pairs : p[2] \in Stages /\ (p \notin Users \X {s} => p[2] # s)
    BY DEF Pairs
  <2> QED
    BY <2>1, <2>2, WriteServed
<1>5. CASE UNCHANGED vars
  BY <1>5 DEF vars, CurrentIsServed, Shape, Serves, TypeAfter, RoleAfter, Flips, Default, HasTechLead, Nothing
<1> QED
  BY <1>1, <1>2, <1>3, <1>4, <1>5, CommitServed DEF Next

LEMMA AlwaysServed == Spec => []CurrentIsServed
<1>1. Init => CurrentIsServed
  BY IdleIs, NothingIs DEF Init, CurrentIsServed, Shape
<1> QED
  BY <1>1, ServedStep, AlwaysKnown, PTL DEF Spec

-----------------------------------------------------------------------------
\* What a commit writes for a pair that is still current.
LEMMA CommitServes ==
  ASSUME Known, CurrentIsServed, NEW w \in Workers, Commit(w), NEW p \in tx[w].current
  PROVE  /\ p \in Pairs /\ row'[p] # NoRow
         /\ \/ row[p] = NoRow
            \/ type'[p[2]] = "client" /\ HasTechLead(role[p[1]]) # HasTechLead(role'[p[1]])
            => row'[p].act = Default(role'[p[1]], type'[p[2]])
<1> DEFINE t == tx[w]
<1>1. /\ p \in Pairs /\ p[1] \in Users /\ p[2] \in Stages
      /\ t.new \in Partial(Pairs, Row) /\ t.reset \in Partial(Pairs, SUBSET Actions)
  BY PairIs DEF Known, Typed, Tx
<1>2. /\ ~t.doomed /\ ~Clash(t) /\ role'[p[1]] = RoleAfter(t, p[1]) /\ type'[p[2]] = TypeAfter(t, p[2])
      /\ row'[p] = RowAfter(t, p)
  BY <1>1, CommitIs
<1>3. Serves(t, p)
  BY DEF CurrentIsServed
<1>4. p \in DOMAIN t.new => t.new[p] \in Row /\ row[p] = NoRow
  BY <1>1, <1>2, PartialIs DEF Clash
<1>5. row[p] # NoRow => row'[p] # NoRow
  BY <1>1, CommitKeeps
<1> HIDE DEF t
<1>6. CASE p \in DOMAIN t.new
  BY <1>1, <1>2, <1>3, <1>4, <1>6, AccessAssumption DEF RowAfter, Serves
<1>7. CASE p \notin DOMAIN t.new
  <2>1. row[p] # NoRow /\ row[p] \in Row
    BY <1>1, <1>3, <1>7 DEF Serves, Known, Typed
  <2>2. ASSUME type'[p[2]] = "client", HasTechLead(role[p[1]]) # HasTechLead(role'[p[1]])
        PROVE  row'[p].act = Default(role'[p[1]], type'[p[2]])
    <3>1. Flips(t, p[1]) /\ role'[p[1]] = t.role[p[1]]
      BY <1>2, <2>2 DEF RoleAfter, Flips
    <3>2. p \in DOMAIN t.reset /\ t.reset[p] = Default(t.role[p[1]], "client")
      BY <1>2, <1>3, <1>7, <2>2, <3>1 DEF Serves
    <3>3. row'[p] = [row[p] EXCEPT !.act = t.reset[p]]
      BY <1>2, <1>7, <3>2 DEF RowAfter
    <3> QED
      BY <2>1, <2>2, <3>1, <3>2, <3>3 DEF Row
  <2> QED
    BY <1>1, <1>5, <2>1, <2>2
<1> QED
  BY <1>6, <1>7

\* A save, a creation or a Refresh that commits leaves a row for every pair it
\* read, but for those somebody changed meanwhile.
THEOREM NobodyReadIsMissed == Spec => EnrolsWhatItRead
<1> DEFINE Enrols == \A w \in Workers : Commit(w) => \A p \in tx[w].current : row'[p] # NoRow
<1>1. Known /\ CurrentIsServed => [Enrols]_vars
  BY CommitServes
<1> QED
  BY <1>1, AlwaysKnown, AlwaysServed, PTL DEF EnrolsWhatItRead

\* New rows, and on Client Servers the rows of a user whose Tech Lead membership
\* changes as groups_id is written, get the default of the role and the type as
\* they are after the commit, but for pairs somebody changed meanwhile.
THEOREM RowsTakeDefaults == Spec => DefaultsOfTheMoment
<1> DEFINE Defaults ==
      \A w \in Workers : Commit(w) =>
        \A p \in tx[w].current :
          \/ row[p] = NoRow
          \/ type'[p[2]] = "client" /\ HasTechLead(role[p[1]]) # HasTechLead(role'[p[1]])
          => row'[p].act = Default(role'[p[1]], type'[p[2]])
<1>1. Known /\ CurrentIsServed => [Defaults]_vars
  BY CommitServes
<1> QED
  BY <1>1, AlwaysKnown, AlwaysServed, PTL DEF DefaultsOfTheMoment

\* A Refresh writes down the rights everybody had without a row, but for rows it
\* inserts from a reading that is out of date.
THEOREM RefreshIsNeutral == Spec => RefreshKeepsRights
<1> DEFINE Keeps ==
      \A w \in Workers : tx[w].op = "refresh" /\ Commit(w) =>
        \A u \in Users :
          /\ Sees(u)' = Sees(u)
          /\ \A s \in Present : <<u, s>> \notin OutOfDate(w) => Allowed(u, s)' = Allowed(u, s)
<1>1. Known /\ CurrentIsServed => Keeps
  <2> SUFFICES ASSUME Known, CurrentIsServed, NEW w \in Workers, tx[w].op = "refresh", Commit(w), NEW u \in Users
               PROVE  /\ Sees(u)' = Sees(u)
                      /\ \A s \in Present : <<u, s>> \notin OutOfDate(w) => Allowed(u, s)' = Allowed(u, s)
    OBVIOUS
  <2> DEFINE t == tx[w]
  <2>1. /\ ~Clash(t) /\ \A v \in Users : role'[v] = RoleAfter(t, v)
        /\ \A s \in Stages : type'[s] = TypeAfter(t, s)
        /\ \A p \in Pairs : row'[p] = RowAfter(t, p)
    BY CommitIs
  <2>2. Shape(t) /\ t.role = Nothing /\ t.type = Nothing /\ t.reset = Nothing
    BY DEF CurrentIsServed, Shape
  <2>3. role'[u] = role[u] /\ \A s \in Stages : type'[s] = type[s]
    BY <2>1, <2>2, NothingIs DEF RoleAfter, TypeAfter
  <2>4. ASSUME NEW s \in Stages
        PROVE  \/ row'[<<u, s>>] = row[<<u, s>>]
               \/ /\ <<u, s>> \in DOMAIN t.new /\ row[<<u, s>>] = NoRow
                  /\ row'[<<u, s>>] # NoRow /\ row'[<<u, s>>].view
    <3>1. <<u, s>> \in Pairs
      BY DEF Pairs
    <3>2. CASE <<u, s>> \in DOMAIN t.new
      <4>1. t.new[<<u, s>>] \in Row
        BY <3>2, PartialIs DEF Known, Typed, Tx
      <4>2. row[<<u, s>>] = NoRow
        BY <2>1, <3>2 DEF Clash
      <4>3. row'[<<u, s>>] = t.new[<<u, s>>]
        BY <2>1, <3>1, <3>2 DEF RowAfter
      <4> QED
        BY <2>2, <3>2, <4>1, <4>2, <4>3, AccessAssumption DEF Shape
    <3>3. CASE <<u, s>> \notin DOMAIN t.new
      BY <2>1, <2>2, <3>1, <3>3, NothingIs DEF RowAfter
    <3> QED
      BY <3>2, <3>3
  <2>5. Sees(u)' = Sees(u)
    <3>1. Present' = Present
      BY <2>3 DEF Present
    <3>2. \A s \in Present : (row'[<<u, s>>] # NoRow /\ ~row'[<<u, s>>].view) <=> (row[<<u, s>>] # NoRow /\ ~row[<<u, s>>].view)
      BY <2>4 DEF Present
    <3>3. role[u] \in {"none", "devops", "dev", "lead"}
      BY DEF Known, Typed, Roles
    <3>4. CASE role[u] \in {"none", "devops"}
      BY <2>3, <3>1, <3>4 DEF Sees
    <3>5. CASE role[u] \in {"dev", "lead"}
      <4>1. Sees(u) = {s \in Present : ~(row[<<u, s>>] # NoRow /\ ~row[<<u, s>>].view)}
        BY <3>5 DEF Sees
      <4>2. Sees(u)' = {s \in Present' : ~(row'[<<u, s>>] # NoRow /\ ~row'[<<u, s>>].view)}
        BY <2>3, <3>5 DEF Sees
      <4> QED
        BY <3>1, <3>2, <4>1, <4>2
    <3> QED
      BY <3>3, <3>4, <3>5
  <2>6. ASSUME NEW s \in Present, <<u, s>> \notin OutOfDate(w) PROVE Allowed(u, s)' = Allowed(u, s)
    <3>1. s \in Stages /\ type[s] \in {"normal", "client"} /\ type'[s] = type[s]
      BY <2>3 DEF Present, Known, Typed, Types
    <3>2. CASE row'[<<u, s>>] = row[<<u, s>>]
      BY <2>3, <3>1, <3>2 DEF Allowed
    <3>3. CASE row'[<<u, s>>] # row[<<u, s>>]
      <4>1. <<u, s>> \in DOMAIN t.new /\ row[<<u, s>>] = NoRow /\ row'[<<u, s>>] # NoRow
        BY <2>4, <3>1, <3>3
      <4>2. <<u, s>> \in t.current
        BY <2>6, <4>1 DEF OutOfDate
      <4>3. row'[<<u, s>>].act = Default(role'[u], type'[s])
        BY <4>1, <4>2, CommitServes
      <4>4. row'[<<u, s>>].act = Default(role[u], type[s])
        BY <2>3, <3>1, <4>3
      <4>5. role[u] \in Roles
        BY DEF Known, Typed
      <4>6. CASE role[u] \in {"none", "devops"}
        BY <2>3, <4>6 DEF Allowed
      <4>7. CASE role[u] \in {"dev", "lead"}
        <5>1. Allowed(u, s)' = Default(role[u], type[s])
          BY <2>3, <4>1, <4>4, <4>7 DEF Allowed
        <5>2. Allowed(u, s) = Default(role[u], type[s])
          BY <3>1, <4>1, <4>7 DEF Allowed, Default
        <5> QED
          BY <5>1, <5>2
      <4> QED
        BY <4>5, <4>6, <4>7 DEF Roles
    <3> QED
      BY <3>2, <3>3
  <2> QED
    BY <2>5, <2>6
<1>2. Known /\ CurrentIsServed => [Keeps]_vars
  BY <1>1
<1> QED
  BY <1>2, AlwaysKnown, AlwaysServed, PTL DEF RefreshKeepsRights

=============================================================================
