--------------------------- MODULE DiscoveryProofs ---------------------------
(***************************************************************************)
(* Theorems of Discovery, for any servers, units, domains, scans and       *)
(* bounds.  A sync is a fold over the units of its host.  Lemma Induction  *)
(* is induction on the natural numbers from the well-foundedness of <; it  *)
(* gives the steps of the fold, and then the invariant Sound of what the   *)
(* transaction has done.  SnapFits is the other half: what the snapshot of *)
(* a sync that will commit still says of the table.  That an undisturbed   *)
(* sync mirrors its scan needs two more: names differ (NamesDiffer, Neat), *)
(* and the numbering always finds a free one (FreeNumber), so that no      *)
(* reported instance is skipped (Done).                                    *)
(***************************************************************************)
EXTENDS Discovery, FiniteSetTheorems, WellFoundedInduction, TLAPS

-----------------------------------------------------------------------------
(* Numbers.                                                                *)

LEMMA Least ==
  ASSUME NEW S \in SUBSET Nat, S # {}
  PROVE  \E n \in S : \A m \in S : n <= m
<1> DEFINE R == OpToRel(<, Nat)
<1>1. IsWellFoundedOn(R, Nat)
  BY NatLessThanWellFounded
<1>2. \A m, n \in Nat : m < n => <<m, n>> \in R
  BY DEF OpToRel
<1> HIDE DEF R
<1>3. \E n \in S : \A m \in S : <<m, n>> \notin R
  BY <1>1, WFMin
<1>4. PICK n \in S : \A m \in S : <<m, n>> \notin R
  BY <1>3
<1>5. \A m \in S : ~(m < n)
  BY <1>4, <1>2
<1> QED
  BY <1>5

\* A set of numbers with 0 and the successor of every one below N holds 0..N.
LEMMA Induction ==
  ASSUME NEW N \in Nat, NEW S, 0 \in S,
         \A n \in 1..N : n - 1 \in S => n \in S
  PROVE  \A n \in 0..N : n \in S
<1> DEFINE Bad == (0..N) \ S
<1> SUFFICES ASSUME Bad # {} PROVE FALSE
  OBVIOUS
<1>4. \E n \in Bad : \A m \in Bad : n <= m
  <2>1. Bad \in SUBSET Nat
    OBVIOUS
  <2> HIDE DEF Bad
  <2> QED
    BY <2>1, Least
<1>1. PICK n \in Bad : \A m \in Bad : n <= m
  BY <1>4
<1>2. n \in 1..N /\ n - 1 \in 0..N
  BY <1>1
<1>3. n - 1 \in S
  BY <1>1, <1>2
<1> QED
  BY <1>1, <1>2, <1>3

LEMMA MinIs ==
  ASSUME NEW S \in SUBSET Nat, S # {}
  PROVE  Min(S) \in S
<1>1. \E n \in S : \A m \in S : n <= m
  BY Least
<1> QED
  BY <1>1 DEF Min

-----------------------------------------------------------------------------
(* Units and names.                                                        *)

\* A unit that a host may have is one of the services.
LEMMA UnitIs ==
  ASSUME NEW h \in Hosts
  PROVE  /\ Order[h] \in Seq(ToSet(Order[h])) /\ Len(Order[h]) \in Nat
         /\ ToSet(Order[h]) \subseteq Services
         /\ \A n \in 1..Len(Order[h]) : Order[h][n] \in Services
<1>1. Order[h] \in Seq(ToSet(Order[h]))
  BY DiscoveryAssumption
<1>2. ToSet(Order[h]) \subseteq Services
  BY DEF Services
<1>3. Len(Order[h]) \in Nat /\ \A n \in 1..Len(Order[h]) : Order[h][n] \in ToSet(Order[h])
  BY <1>1
<1> QED
  BY <1>1, <1>2, <1>3

LEMMA HostOfIs ==
  ASSUME NEW s \in Services
  PROVE  HostOf(s) \in Hosts
<1>1. \E h \in Hosts : s \in ToSet(Order[h])
  BY DEF Services
<1> QED
  BY <1>1 DEF HostOf

\* What a transaction carries from one unit to the next.
Syncs == [view: [Ids -> Rows], mine: SUBSET Ids, used: {U \in SUBSET Names : IsFiniteSet(U)},
          raced: SUBSET Services, failed: SUBSET Services]

\* The names to avoid are finitely many, at most those that were given and one of
\* every record.
Avoided(sync) == sync.used \union {sync.view[i].name : i \in Ids}

LEMMA AvoidedIsFinite ==
  ASSUME NEW sync \in Syncs
  PROVE  /\ IsFiniteSet(sync.used) /\ Cardinality(sync.used) \in Nat /\ Cardinality(Ids) \in Nat
         /\ IsFiniteSet(Avoided(sync))
         /\ Cardinality(Avoided(sync)) <= Cardinality(sync.used) + Cardinality(Ids)
<1> DEFINE borne == {sync.view[i].name : i \in Ids}
           f == [i \in Ids |-> sync.view[i].name]
<1>1. IsFiniteSet(sync.used) /\ IsFiniteSet(Ids)
  BY DiscoveryAssumption DEF Syncs
<1>2. f \in Surjection(Ids, borne)
  BY DEF Surjection
<1> HIDE DEF f, borne
<1>3. IsFiniteSet(borne) /\ Cardinality(borne) <= Cardinality(Ids)
  BY <1>1, <1>2, FS_Surjection
<1> DEFINE used == sync.used
<1> HIDE DEF used
<1>4. IsFiniteSet(used) /\ Cardinality(used) \in Nat /\ Cardinality(Ids) \in Nat /\ Cardinality(borne) \in Nat
  BY <1>1, <1>3, FS_CardinalityType DEF used
<1>5. /\ IsFiniteSet(used \union borne)
      /\ Cardinality(used \union borne) = Cardinality(used) + Cardinality(borne) - Cardinality(used \cap borne)
  BY <1>3, <1>4, FS_Union
<1>6. Cardinality(used \cap borne) \in Nat
  BY <1>4, FS_Intersection, FS_CardinalityType
<1>7. Avoided(sync) = used \union borne
  BY DEF Avoided, used, borne
<1>8. Cardinality(used \union borne) <= Cardinality(used) + Cardinality(Ids)
  BY <1>3, <1>4, <1>5, <1>6
<1> QED
  BY <1>4, <1>5, <1>7, <1>8 DEF used

\* So one of the numbers is free: pigeonhole.
LEMMA FreeNumber ==
  ASSUME NEW h, NEW s, NEW base, NEW sync \in Syncs
  PROVE  \E n \in 1..(Cardinality(sync.used) + Cardinality(Ids) + 1) :
            ~Taken(h, s, Suffixed(base, s, n), sync)
<1> DEFINE K == Cardinality(sync.used) + Cardinality(Ids)
           f == [n \in 1..(K + 1) |-> Suffixed(base, s, n)]
           avoided == Avoided(sync)
<1> SUFFICES ASSUME \A n \in 1..(K + 1) : Taken(h, s, Suffixed(base, s, n), sync) PROVE FALSE
  OBVIOUS
<1>1. K \in Nat /\ IsFiniteSet(avoided) /\ Cardinality(avoided) <= K /\ Cardinality(avoided) \in Nat
  BY AvoidedIsFinite, FS_CardinalityType
<1>2. f \in [1..(K + 1) -> avoided]
  BY DEF Taken, Avoided
<1>3. \A m, n \in 1..(K + 1) : f[m] = f[n] => m = n
  BY DEF Suffixed
<1> HIDE DEF K, f, avoided
<1>4. IsFiniteSet(1..(K + 1)) /\ Cardinality(1..(K + 1)) = K + 1
  BY <1>1, FS_Interval
<1>5. Cardinality(avoided) < Cardinality(1..(K + 1))
  BY <1>1, <1>4
<1>6. \E m, n \in 1..(K + 1) : m # n /\ f[m] = f[n]
  BY <1>1, <1>2, <1>4, <1>5, FS_PigeonHole
<1> QED
  BY <1>3, <1>6

\* The name that is found: it is a name of the base, and free.
LEMMA NameIs ==
  ASSUME NEW h, NEW s \in Services, NEW base \in Bases, NEW sync \in Syncs
  PROVE  LET name == UniqueName(h, s, base, sync)
         IN  name \in Names /\ name.base = base /\ ~Taken(h, s, name, sync)
<1> DEFINE numbers == 1..(Cardinality(sync.used) + Cardinality(Ids) + 1)
           free == {n \in numbers : ~Taken(h, s, Suffixed(base, s, n), sync)}
           first == Min(free)
<1>1. Cardinality(sync.used) \in Nat /\ Cardinality(Ids) \in Nat
  BY AvoidedIsFinite
<1>2. free \in SUBSET Nat /\ free # {}
  <2>1. \E n \in numbers : ~Taken(h, s, Suffixed(base, s, n), sync)
    BY FreeNumber
  <2>2. free # {}
    BY <2>1
  <2> QED
    BY <1>1, <2>2
<1>3. first \in free
  <2> HIDE DEF free
  <2> QED
    BY <1>2, MinIs
<1>4. first \in Nat \ {0} /\ ~Taken(h, s, Suffixed(base, s, first), sync)
  <2> HIDE DEF first
  <2> QED
    BY <1>1, <1>3
<1>5. UniqueName(h, s, base, sync) = IF ~Taken(h, s, Plain(base), sync) THEN Plain(base) ELSE Suffixed(base, s, first)
  BY DEF UniqueName
<1> HIDE DEF first
<1>6. /\ Plain(base) \in Names /\ Plain(base).base = base
      /\ Suffixed(base, s, first) \in Names /\ Suffixed(base, s, first).base = base
  BY <1>4 DEF Plain, Suffixed, Names
<1> QED
  BY <1>4, <1>5, <1>6

-----------------------------------------------------------------------------
(* The fold: its steps, and what one step does.                            *)

Start(table) == [view |-> table, mine |-> {}, used |-> {}, raced |-> {}, failed |-> {}]

LEMMA SyncedIs ==
  ASSUME NEW h \in Hosts, NEW found, NEW table, NEW overtaken, NEW broken
  PROVE  \E f : /\ f[0] = Start(table)
                /\ \A n \in 1..Len(Order[h]) :
                      f[n] = SyncOne(h, found, overtaken, broken, f[n - 1], Order[h][n])
                /\ Synced(h, found, table, overtaken, broken) = f[Len(Order[h])]
<1> DEFINE N == Len(Order[h])
           Next1(f, n) == IF n = 0 THEN Start(table) ELSE SyncOne(h, found, overtaken, broken, f[n - 1], Order[h][n])
           Upto(n) == \E f : f = [m \in 0..n |-> Next1(f, m)]
           S == {n \in 0..N : Upto(n)}
           sync == CHOOSE f : f = [n \in 0..N |-> Next1(f, n)]
<1>1. N \in Nat
  BY UnitIs
<1>2. Synced(h, found, table, overtaken, broken) = sync[N]
  BY DEF Synced, Start
<1>3. Upto(0)
  <2> DEFINE f == [m \in 0..0 |-> Start(table)]
  <2>1. f = [m \in 0..0 |-> Next1(f, m)]
    OBVIOUS
  <2> QED
    BY <2>1
<1>4. ASSUME NEW n \in 1..N, Upto(n - 1) PROVE Upto(n)
  <2>1. PICK g : g = [m \in 0..(n - 1) |-> Next1(g, m)]
    BY <1>4
  <2> DEFINE f == [m \in 0..n |-> IF m = n THEN Next1(g, n) ELSE g[m]]
  <2>2. ASSUME NEW m \in 0..n PROVE f[m] = Next1(f, m)
    <3>1. CASE m = 0
      BY <1>1, <2>1, <3>1
    <3>2. CASE m # 0
      <4>1. m - 1 \in 0..(n - 1) /\ m - 1 # n /\ m - 1 \in 0..n
        BY <1>1, <3>2
      <4>2. f[m - 1] = g[m - 1]
        BY <4>1
      <4>3. Next1(f, m) = Next1(g, m)
        BY <4>2, <3>2
      <4>4. CASE m = n
        BY <4>3, <4>4
      <4>5. CASE m # n
        <5>1. m \in 0..(n - 1)
          BY <1>1, <4>5
        <5>2. g[m] = Next1(g, m)
          <6> HIDE DEF Next1
          <6> QED
            BY <2>1, <5>1
        <5>3. f[m] = g[m]
          BY <4>5
        <5> QED
          BY <4>3, <5>2, <5>3
      <4> QED
        BY <4>4, <4>5
    <3> QED
      BY <3>1, <3>2
  <2>3. f = [m \in 0..n |-> f[m]]
    OBVIOUS
  <2>4. f = [m \in 0..n |-> Next1(f, m)]
    <3> HIDE DEF f, Next1
    <3> QED
      BY <2>2, <2>3
  <2> QED
    BY <2>4
<1>5. N \in S
  <2> HIDE DEF Upto
  <2>1. 0 \in S /\ \A n \in 1..N : n - 1 \in S => n \in S
    BY <1>1, <1>3, <1>4
  <2> HIDE DEF S, N
  <2>2. \A n \in 0..N : n \in S
    BY <1>1, <2>1, Induction
  <2> QED
    BY <1>1, <2>2
<1>6. sync = [n \in 0..N |-> Next1(sync, n)]
  <2> HIDE DEF Next1
  <2> QED
    BY <1>5
<1>7. \A n \in 0..N : sync[n] = Next1(sync, n)
  <2> HIDE DEF sync, Next1
  <2> QED
    BY <1>6
<1>8. sync[0] = Start(table)
  BY <1>1, <1>7
<1>9. \A n \in 1..N : sync[n] = SyncOne(h, found, overtaken, broken, sync[n - 1], Order[h][n])
  BY <1>1, <1>7
<1> QED
  <2> HIDE DEF sync
  <2> QED
    BY <1>2, <1>8, <1>9

\* The rows as the database checks their names: those of the transaction, and else
\* the committed ones.
Current(sync) == [i \in Ids |-> IF i \in sync.mine THEN sync.view[i] ELSE stage[i]]

\* The record that the instance s goes to, what is written to it, and whether another
\* record has its name.
Goal(h, sync, s, i) ==
  \/ i \in RecordsOf(h, s, sync.view)
  \/ RecordsOf(h, s, sync.view) = {} /\ i \in FreeIds(sync.view)

Content(h, found, sync, s, i, row) ==
  /\ row.host = h /\ row.svc = s
  /\ i \in RecordsOf(h, s, sync.view) /\ sync.view[i].kept => row = sync.view[i]
  /\ \/ i \in RecordsOf(h, s, sync.view) /\ row = sync.view[i] /\ row.kept
     \/ row.name = UniqueName(h, s, found[s], sync)

Clash(sync, i, row) == \E j \in Ids \ {i} : Current(sync)[j].name = row.name

\* The instance s was skipped, or it was written to the record i.
Skipped(h, found, overtaken, broken, sync, s, next) ==
  /\ next.view = sync.view /\ next.mine = sync.mine
  /\ \/ s \notin Detected(found)
     \/ s \in broken
     \/ RecordsOf(h, s, sync.view) \cap overtaken # {}
     \/ \E i \in Ids, row \in Rows :
           Goal(h, sync, s, i) /\ Content(h, found, sync, s, i, row) /\ Clash(sync, i, row)

Wrote(h, found, overtaken, broken, sync, s, next, i, row) ==
  /\ s \in Detected(found) /\ s \notin broken
  /\ next.view = [sync.view EXCEPT ![i] = row] /\ next.mine = sync.mine \union {i}
  /\ Content(h, found, sync, s, i, row) /\ ~Clash(sync, i, row)
  /\ \/ i \in RecordsOf(h, s, sync.view) /\ i \notin overtaken
     \/ RecordsOf(h, s, sync.view) = {} /\ i \in FreeIds(sync.view)

LEMMA SyncOneIs ==
  ASSUME NEW h \in Hosts, NEW found \in [Services -> Bases \union {None}], NEW overtaken, NEW broken,
         NEW sync \in Syncs, NEW s \in Services,
         s \in Detected(found) /\ RecordsOf(h, s, sync.view) = {} => FreeIds(sync.view) # {}
  PROVE  LET next == SyncOne(h, found, overtaken, broken, sync, s) IN
         /\ next \in Syncs
         /\ \/ Skipped(h, found, overtaken, broken, sync, s, next)
            \/ \E i \in Ids, row \in Rows : Wrote(h, found, overtaken, broken, sync, s, next, i, row)
<1> DEFINE v == sync.view
           next == SyncOne(h, found, overtaken, broken, sync, s)
           name == UniqueName(h, s, found[s], sync)
           old == RecordsOf(h, s, v)
           id == IF old # {} THEN Min(old) ELSE Min(FreeIds(v))
           new == Record(h, s, name, FALSE)
           row == IF old # {} THEN WriteVals(v[id], new) ELSE new
           clash == \E i \in Ids \ {id} : (IF i \in sync.mine THEN v[i] ELSE stage[i]).name = row.name
           reserved == [sync EXCEPT !.used = @ \union {name}]
<1>1. next = IF s \notin Detected(found) THEN sync
             ELSE IF old # {} /\ id \in overtaken THEN [reserved EXCEPT !.raced = @ \union {s}]
             ELSE IF clash \/ s \in broken THEN [reserved EXCEPT !.failed = @ \union {s}]
             ELSE [reserved EXCEPT !.view = [v EXCEPT ![id] = row], !.mine = @ \union {id}]
  BY DEF SyncOne
<1>2. v \in [Ids -> Rows] /\ Ids \subseteq Nat /\ None \notin Hosts
  BY DiscoveryAssumption DEF Syncs, Bases
<1> SUFFICES ASSUME s \in Detected(found)
             PROVE  /\ next \in Syncs
                    /\ \/ Skipped(h, found, overtaken, broken, sync, s, next)
                       \/ \E i \in Ids, r \in Rows : Wrote(h, found, overtaken, broken, sync, s, next, i, r)
  BY <1>1 DEF Skipped
<1>3. name \in Names
  BY NameIs, DiscoveryAssumption DEF Detected
<1>4. old \subseteq Ids /\ FreeIds(v) \subseteq Ids
  BY DEF RecordsOf, FreeIds
<1>5. /\ id \in Ids
      /\ old # {} => id \in old
      /\ old = {} => id \in FreeIds(v)
  <2> HIDE DEF old, v
  <2>1. CASE old # {}
    BY <1>2, <1>4, <2>1, MinIs
  <2>2. CASE old = {}
    <3>1. FreeIds(v) # {}
      BY <2>2 DEF old, v
    <3>2. Min(FreeIds(v)) \in FreeIds(v)
      BY <1>2, <1>4, <3>1, MinIs
    <3> QED
      BY <1>4, <2>2, <3>2
  <2> QED
    BY <2>1, <2>2
<1>6. clash <=> Clash(sync, id, row)
  BY DEF Clash, Current
<1> HIDE DEF id, name, v, clash
<1>7. new \in Rows /\ new.host = h /\ new.svc = s /\ new.name = name
  BY <1>3 DEF Record, Rows
<1>8. row \in Rows /\ Content(h, found, sync, s, id, row)
  <2>1. CASE old # {}
    <3>1. v[id] \in Rows /\ v[id].host = h /\ v[id].svc = s /\ id \in old
      BY <1>2, <1>5, <2>1 DEF RecordsOf
    <3>2. row = IF v[id].kept THEN v[id] ELSE new
      BY <2>1 DEF WriteVals
    <3> HIDE DEF old, new, row
    <3>3. row \in Rows /\ row.host = h /\ row.svc = s /\ (v[id].kept => row = v[id])
      BY <1>7, <3>1, <3>2
    <3>4. (row = v[id] /\ row.kept) \/ row.name = name
      BY <1>7, <3>2
    <3> QED
      BY <3>1, <3>3, <3>4 DEF Content, old, name, v
  <2>2. CASE old = {}
    <3>1. row = new
      BY <2>2
    <3> HIDE DEF new, row
    <3> QED
      BY <1>7, <2>2, <3>1 DEF Content, old, name, v
  <2> QED
    BY <2>1, <2>2
<1>9. Goal(h, sync, s, id)
  BY <1>5 DEF Goal, v
<1> HIDE DEF row, new
<1>10. /\ reserved \in Syncs /\ reserved.view = v /\ reserved.mine = sync.mine
  <2>1. sync.used \in SUBSET Names /\ IsFiniteSet(sync.used)
    BY DEF Syncs
  <2>2. IsFiniteSet(sync.used \union {name}) /\ sync.used \union {name} \in SUBSET Names
    BY <1>3, <2>1, FS_AddElement
  <2> QED
    BY <2>2 DEF Syncs, v
<1> HIDE DEF reserved, next
<1>11. CASE (old # {} /\ id \in overtaken) \/ clash \/ s \in broken
  <2>1. \/ next = [reserved EXCEPT !.raced = @ \union {s}]
        \/ next = [reserved EXCEPT !.failed = @ \union {s}]
    BY <1>1, <1>11
  <2>2. next \in Syncs /\ next.view = reserved.view /\ next.mine = reserved.mine
    BY <1>10, <2>1 DEF Syncs
  <2>3. RecordsOf(h, s, sync.view) \cap overtaken # {} \/ Clash(sync, id, row) \/ s \in broken
    BY <1>5, <1>6, <1>11 DEF v
  <2>4. Skipped(h, found, overtaken, broken, sync, s, next)
    BY <1>5, <1>8, <1>9, <1>10, <2>2, <2>3 DEF Skipped, v
  <2> QED
    BY <2>2, <2>4
<1>12. CASE ~(old # {} /\ id \in overtaken) /\ ~clash /\ s \notin broken
  <2>1. next = [reserved EXCEPT !.view = [v EXCEPT ![id] = row], !.mine = @ \union {id}]
    BY <1>1, <1>12
  <2>2. [v EXCEPT ![id] = row] \in [Ids -> Rows]
    BY <1>2, <1>8
  <2>3. /\ next \in Syncs /\ next.view = [v EXCEPT ![id] = row] /\ next.mine = sync.mine \union {id}
    BY <1>5, <1>10, <2>1, <2>2 DEF Syncs
  <2>4. Wrote(h, found, overtaken, broken, sync, s, next, id, row)
    BY <1>5, <1>6, <1>8, <1>12, <2>3 DEF Wrote, v
  <2> QED
    BY <1>5, <1>8, <2>3, <2>4
<1> QED
  BY <1>11, <1>12

-----------------------------------------------------------------------------
(* What a transaction has done so far.                                     *)

\* The records of h have different services.
OneOf(h, table) ==
  \A s \in Services : \A i, j \in RecordsOf(h, s, table) : i = j

Needing(h, found, table) == {s \in Detected(found) : RecordsOf(h, s, table) = {}}

RoomIn(h, found, table) ==
  Cardinality(Needing(h, found, table)) <= Cardinality(FreeIds(table))

\* What it wrote is a record of h for a reported service whose savepoint did not
\* fail: a new one, or the one it had, which nobody overtook, with its name if a
\* user keeps that.
Sound(h, found, table, overtaken, broken, sync) ==
  /\ sync \in Syncs
  /\ \A i \in Ids \ sync.mine : sync.view[i] = table[i]
  /\ \A i \in sync.mine :
        /\ sync.view[i].host = h /\ sync.view[i].svc \in Detected(found) \ broken
        /\ table[i] # Absent => table[i].host = h /\ table[i].svc = sync.view[i].svc
        /\ table[i] = Absent => stage[i] = Absent
        /\ table[i] # Absent => i \notin overtaken
        /\ table[i].kept => sync.view[i] = table[i]
  /\ OneOf(h, sync.view)
  /\ RoomIn(h, found, sync.view)

LEMMA FiniteSets ==
  ASSUME NEW h, NEW found, NEW table
  PROVE  /\ IsFiniteSet(Needing(h, found, table)) /\ Cardinality(Needing(h, found, table)) \in Nat
         /\ IsFiniteSet(FreeIds(table)) /\ Cardinality(FreeIds(table)) \in Nat
<1>1. IsFiniteSet(Services) /\ IsFiniteSet(Ids)
  BY DiscoveryAssumption
<1>2. Needing(h, found, table) \in SUBSET Services /\ FreeIds(table) \in SUBSET Ids
  BY DEF Needing, Detected, FreeIds
<1>3. IsFiniteSet(Needing(h, found, table)) /\ IsFiniteSet(FreeIds(table))
  BY <1>1, <1>2, FS_Subset
<1> QED
  BY <1>3, FS_CardinalityType

LEMMA RoomMeansFree ==
  ASSUME NEW h, NEW found, NEW table, RoomIn(h, found, table),
         NEW s \in Detected(found), RecordsOf(h, s, table) = {}
  PROVE  FreeIds(table) # {}
<1>1. Needing(h, found, table) # {}
  BY DEF Needing
<1>2. Cardinality(Needing(h, found, table)) # 0 /\ Cardinality({}) = 0
  BY <1>1, FiniteSets, FS_EmptySet
<1> QED
  BY <1>2, FiniteSets DEF RoomIn

LEMMA AbsentIs ==
  ASSUME NEW h \in Hosts, NEW row, row.host = h
  PROVE  row # Absent
BY DiscoveryAssumption DEF Absent, Bases

LEMMA SoundStep ==
  ASSUME NEW h \in Hosts, NEW found \in [Services -> Bases \union {None}], NEW table, NEW overtaken, NEW broken,
         NEW sync, Sound(h, found, table, overtaken, broken, sync), NEW s \in Services
  PROVE  Sound(h, found, table, overtaken, broken, SyncOne(h, found, overtaken, broken, sync, s))
<1> DEFINE v == sync.view
           next == SyncOne(h, found, overtaken, broken, sync, s)
           w == next.view
<1>1. sync \in Syncs /\ RoomIn(h, found, v) /\ OneOf(h, v)
  BY DEF Sound
<1>2. s \in Detected(found) /\ RecordsOf(h, s, v) = {} => FreeIds(v) # {}
  BY <1>1, RoomMeansFree
<1>3. /\ next \in Syncs
      /\ \/ Skipped(h, found, overtaken, broken, sync, s, next)
         \/ \E i \in Ids, row \in Rows : Wrote(h, found, overtaken, broken, sync, s, next, i, row)
  BY <1>1, <1>2, SyncOneIs
<1> HIDE DEF next
<1>4. CASE Skipped(h, found, overtaken, broken, sync, s, next)
  <2>1. next.view = v /\ next.mine = sync.mine
    BY <1>4 DEF Skipped
  <2>2. Sound(h, found, table, overtaken, broken, next)
    BY <1>3, <2>1 DEF Sound
  <2> QED
    BY <2>2 DEF next
<1>5. ASSUME NEW i \in Ids, NEW row \in Rows, Wrote(h, found, overtaken, broken, sync, s, next, i, row)
      PROVE  Sound(h, found, table, overtaken, broken, next)
  <2>1. /\ s \in Detected(found) /\ s \notin broken /\ w = [v EXCEPT ![i] = row] /\ next.mine = sync.mine \union {i}
        /\ row.host = h /\ row.svc = s /\ row # Absent
    BY <1>5, AbsentIs DEF Wrote, Content
  <2>2. v \in [Ids -> Rows] /\ w \in [Ids -> Rows] /\ w[i] = row /\ \A j \in Ids \ {i} : w[j] = v[j]
    BY <1>1, <2>1 DEF Syncs
  <2>3. \A j \in Ids \ next.mine : w[j] = table[j]
    BY <2>1, <2>2 DEF Sound
  <2>4. CASE i \in RecordsOf(h, s, v) /\ i \notin overtaken /\ (v[i].kept => row = v[i])
    <3>1. v[i].host = h /\ v[i].svc = s /\ v[i] # Absent
      BY <2>4, AbsentIs DEF RecordsOf
    <3>2. \A t \in Services : RecordsOf(h, t, w) = RecordsOf(h, t, v)
      BY <2>1, <2>2, <3>1 DEF RecordsOf
    <3>3. FreeIds(w) = FreeIds(v)
      BY <2>1, <2>2, <3>1 DEF FreeIds
    <3>4. Needing(h, found, w) = Needing(h, found, v)
      BY <3>2 DEF Needing, Detected
    <3>5. OneOf(h, w) /\ RoomIn(h, found, w)
      BY <1>1, <3>2, <3>3, <3>4 DEF OneOf, RoomIn
    <3>6. ASSUME NEW j \in next.mine
          PROVE  /\ w[j].host = h /\ w[j].svc \in Detected(found) \ broken
                 /\ table[j] # Absent => table[j].host = h /\ table[j].svc = w[j].svc
                 /\ table[j] = Absent => stage[j] = Absent
                 /\ table[j] # Absent => j \notin overtaken
                 /\ table[j].kept => w[j] = table[j]
      <4>1. CASE j # i
        BY <1>1, <2>1, <2>2, <3>6, <4>1 DEF Sound, Syncs
      <4>2. CASE j = i /\ i \in sync.mine
        BY <2>1, <2>2, <2>4, <3>1, <4>2 DEF Sound
      <4>3. CASE j = i /\ i \notin sync.mine
        <5>1. v[i] = table[i]
          BY <4>3 DEF Sound
        <5> QED
          BY <2>1, <2>2, <2>4, <3>1, <4>3, <5>1
      <4> QED
        BY <4>1, <4>2, <4>3
    <3> QED
      BY <1>3, <2>3, <3>5, <3>6 DEF Sound
  <2>5. CASE RecordsOf(h, s, v) = {} /\ i \in FreeIds(v)
    <3>1. v[i] = Absent /\ stage[i] = Absent /\ v[i].host # h
      BY <2>5, AbsentIs DEF FreeIds
    <3>2. i \notin sync.mine /\ v[i] = table[i]
      BY <3>1 DEF Sound
    <3>3. RecordsOf(h, s, w) = {i} /\ \A t \in Services \ {s} : RecordsOf(h, t, w) = RecordsOf(h, t, v)
      <4>1. \A j \in Ids : j \notin RecordsOf(h, s, v)
        BY <2>5
      <4> QED
        BY <2>1, <2>2, <3>1, <4>1 DEF RecordsOf
    <3>4. FreeIds(w) = FreeIds(v) \ {i}
      BY <2>1, <2>2 DEF FreeIds
    <3>5. Needing(h, found, w) = Needing(h, found, v) \ {s} /\ s \in Needing(h, found, v)
      BY <2>1, <2>5, <3>3 DEF Needing, Detected
    <3>6. OneOf(h, w)
      BY <1>1, <3>3 DEF OneOf
    <3>7. RoomIn(h, found, w)
      <4>1. /\ Cardinality(FreeIds(w)) = Cardinality(FreeIds(v)) - 1
            /\ Cardinality(Needing(h, found, w)) = Cardinality(Needing(h, found, v)) - 1
        <5> DEFINE F == FreeIds(v)
                   M == Needing(h, found, v)
        <5>1. IsFiniteSet(F) /\ IsFiniteSet(M) /\ i \in F /\ s \in M
          BY <2>5, <3>5, FiniteSets
        <5>2. FreeIds(w) = F \ {i} /\ Needing(h, found, w) = M \ {s}
          BY <3>4, <3>5
        <5> HIDE DEF F, M
        <5>3. Cardinality(F \ {i}) = Cardinality(F) - 1
          BY <5>1, FS_RemoveElement
        <5>4. Cardinality(M \ {s}) = Cardinality(M) - 1
          BY <5>1, FS_RemoveElement
        <5> QED
          BY <5>2, <5>3, <5>4 DEF F, M
      <4> QED
        BY <1>1, <4>1, FiniteSets DEF RoomIn
    <3>8. ASSUME NEW j \in next.mine
          PROVE  /\ w[j].host = h /\ w[j].svc \in Detected(found) \ broken
                 /\ table[j] # Absent => table[j].host = h /\ table[j].svc = w[j].svc
                 /\ table[j] = Absent => stage[j] = Absent
                 /\ table[j] # Absent => j \notin overtaken
                 /\ table[j].kept => w[j] = table[j]
      <4>1. CASE j # i
        BY <1>1, <2>1, <2>2, <3>8, <4>1 DEF Sound, Syncs
      <4>2. CASE j = i
        BY <2>1, <2>2, <3>1, <3>2, <4>2 DEF Absent
      <4> QED
        BY <4>1, <4>2
    <3> QED
      BY <1>3, <2>3, <3>6, <3>7, <3>8 DEF Sound
  <2>6. i \in RecordsOf(h, s, v) /\ v[i].kept => row = v[i]
    BY <1>5 DEF Wrote, Content
  <2> QED
    BY <1>5, <2>4, <2>5, <2>6 DEF Wrote
<1> QED
  BY <1>3, <1>4, <1>5 DEF next

LEMMA SyncedIsSound ==
  ASSUME NEW h \in Hosts, NEW found \in [Services -> Bases \union {None}],
         NEW table \in [Ids -> Rows], NEW overtaken, NEW broken,
         OneOf(h, table), RoomIn(h, found, table)
  PROVE  Sound(h, found, table, overtaken, broken, Synced(h, found, table, overtaken, broken))
<1> DEFINE N == Len(Order[h])
<1>1. N \in Nat /\ \A n \in 1..N : Order[h][n] \in Services
  BY UnitIs
<1>2. PICK f : /\ f[0] = Start(table)
               /\ \A n \in 1..N : f[n] = SyncOne(h, found, overtaken, broken, f[n - 1], Order[h][n])
               /\ Synced(h, found, table, overtaken, broken) = f[N]
  BY SyncedIs
<1> DEFINE S == {n \in 0..N : Sound(h, found, table, overtaken, broken, f[n])}
<1> HIDE DEF N
<1>3. 0 \in S
  <2>1. /\ Start(table) \in Syncs /\ Start(table).view = table /\ Start(table).mine = {}
    BY FS_EmptySet DEF Start, Syncs
  <2>2. Sound(h, found, table, overtaken, broken, Start(table))
    BY <2>1 DEF Sound
  <2> QED
    BY <1>1, <1>2, <2>2
<1>4. ASSUME NEW n \in 1..N, n - 1 \in S PROVE n \in S
  <2>1. Sound(h, found, table, overtaken, broken, SyncOne(h, found, overtaken, broken, f[n - 1], Order[h][n]))
    BY <1>1, <1>4, SoundStep
  <2> QED
    BY <1>1, <1>2, <2>1
<1>5. N \in S
  <2> HIDE DEF S
  <2> QED
    BY <1>1, <1>3, <1>4, Induction
<1> QED
  BY <1>2, <1>5

-----------------------------------------------------------------------------
(* The invariant.                                                          *)

OneEach == \A h \in Hosts : OneOf(h, stage)

Busy ==
  \A d \in Scans : worker[d] # "idle" => host[d] \in Hosts /\ attempt[d] < MaxAttempts

\* A row that nobody wrote since is as the snapshot has it; and if no other sync of
\* the same host committed since, the host has got no record for a unit.
Fits(d) ==
  /\ \A i \in Ids \ late[d] : snap[d][i] = stage[i]
  /\ host[d] \notin late[d] =>
       \A i \in Ids : stage[i].host = host[d] /\ stage[i].svc \in Services =>
          snap[d][i].host = host[d] /\ snap[d][i].svc = stage[i].svc
  /\ \A h \in Hosts : OneOf(h, snap[d])

SnapFits == \A d \in Scans : worker[d] = "open" => Fits(d)

Inv == TypeOK /\ OneEach /\ Busy /\ SnapFits

Budget == [site: 0..MaxChanges, edit: 0..MaxEdits, cron: 0..MaxCrons, miss: 0..MaxMissed,
           broken: 0..MaxBroken, event: 0..MaxEvents]

LEMMA Lowered ==
  ASSUME NEW max \in Nat, NEW n \in 0..max, n > 0
  PROVE  n - 1 \in 0..max
OBVIOUS

LEMMA SpendTyped ==
  ASSUME budget \in Budget, NEW kind \in {"site", "edit", "cron"}, Left(kind), Spend(kind)
  PROVE  budget' \in Budget
<1>0. /\ budget' = [budget EXCEPT ![kind] = @ - 1, !.event = @ - 1]
      /\ budget[kind] > 0 /\ budget.event > 0 /\ budget.event \in 0..MaxEvents
      /\ MaxChanges \in Nat /\ MaxEdits \in Nat /\ MaxCrons \in Nat /\ MaxEvents \in Nat
  BY DiscoveryAssumption DEF Budget, Left, Spend
<1>1. CASE kind = "site"
  <2>2. budget["site"] > 0
    BY <1>0, <1>1
  <2>3. budget.site = budget["site"] /\ budget.site \in 0..MaxChanges
    BY DEF Budget
  <2>1. budget.site - 1 \in 0..MaxChanges /\ budget.event - 1 \in 0..MaxEvents
    BY <1>0, <2>2, <2>3, Lowered
  <2> QED
    BY <1>0, <1>1, <2>1 DEF Budget
<1>2. CASE kind = "edit"
  <2>2. budget["edit"] > 0
    BY <1>0, <1>2
  <2>3. budget.edit = budget["edit"] /\ budget.edit \in 0..MaxEdits
    BY DEF Budget
  <2>1. budget.edit - 1 \in 0..MaxEdits /\ budget.event - 1 \in 0..MaxEvents
    BY <1>0, <2>2, <2>3, Lowered
  <2> QED
    BY <1>0, <1>2, <2>1 DEF Budget
<1>3. CASE kind = "cron"
  <2>2. budget["cron"] > 0
    BY <1>0, <1>3
  <2>3. budget.cron = budget["cron"] /\ budget.cron \in 0..MaxCrons
    BY DEF Budget
  <2>1. budget.cron - 1 \in 0..MaxCrons /\ budget.event - 1 \in 0..MaxEvents
    BY <1>0, <2>2, <2>3, Lowered
  <2> QED
    BY <1>0, <1>3, <2>1 DEF Budget
<1> QED
  BY <1>1, <1>2, <1>3

LEMMA BrokenTyped ==
  ASSUME budget \in Budget, NEW n \in Nat, n <= budget.broken, n <= budget.event,
         budget' = [budget EXCEPT !.broken = @ - n, !.event = @ - n]
  PROVE  budget' \in Budget
<1>1. budget.broken \in 0..MaxBroken /\ budget.event \in 0..MaxEvents /\ MaxBroken \in Nat /\ MaxEvents \in Nat
  BY DiscoveryAssumption DEF Budget
<1>2. budget.broken - n \in 0..MaxBroken /\ budget.event - n \in 0..MaxEvents
  BY <1>1
<1> QED
  BY <1>2 DEF Budget

\* The snapshots that stay open across a commit of the rows in `written`.
LEMMA OvertakeFits ==
  ASSUME NEW written, NEW committer, Overtake(written, committer),
         NEW e \in Scans, e # committer, worker[e] = "open", Fits(e),
         host'[e] = host[e], snap'[e] = snap[e],
         \A i \in Ids \ written : stage'[i] = stage[i],
         host[e] \notin written =>
           \A i \in Ids : stage'[i].host = host[e] /\ stage'[i].svc \in Services =>
              stage[i].host = host[e] /\ stage[i].svc = stage'[i].svc
  PROVE  Fits(e)'
<1>1. late'[e] = late[e] \union written
  BY DEF Overtake
<1>2. \A i \in Ids \ late'[e] : snap'[e][i] = stage'[i]
  BY <1>1 DEF Fits
<1>3. ASSUME host'[e] \notin late'[e],
             NEW i \in Ids, stage'[i].host = host'[e], stage'[i].svc \in Services
      PROVE  snap'[e][i].host = host'[e] /\ snap'[e][i].svc = stage'[i].svc
  BY <1>1, <1>3 DEF Fits
<1>4. \A h \in Hosts : OneOf(h, snap'[e])
  BY DEF Fits
<1> QED
  BY <1>2, <1>3, <1>4 DEF Fits

LEMMA OvertakeTyped ==
  ASSUME TypeOK, NEW written \in SUBSET (Ids \union Hosts), NEW committer, Overtake(written, committer)
  PROVE  late' \in [Scans -> SUBSET (Ids \union Hosts)]
BY DEF TypeOK, Overtake

-----------------------------------------------------------------------------
(* The servers, the users and the crons.                                   *)

LEMMA SiteChangeInv ==
  ASSUME Inv, NEW s \in Services, NEW base \in Bases \union {None}, SiteChange(s, base)
  PROVE  Inv'
<1>1. budget' \in Budget
  BY SpendTyped DEF Inv, TypeOK, Budget, SiteChange
<1>2. TypeOK'
  BY <1>1 DEF Inv, TypeOK, SiteChange, Budget
<1>3. OneEach' /\ Busy' /\ SnapFits'
  BY DEF Inv, OneEach, Busy, SnapFits, Fits, SiteChange
<1> QED
  BY <1>2, <1>3 DEF Inv

\* A user does not give a record a service.
LEMMA UserWritesInv ==
  ASSUME Inv, NEW i \in Ids, NEW row \in Rows, UserWrites(i, row),
         row.svc \in Services => row.host = stage[i].host /\ row.svc = stage[i].svc
  PROVE  Inv'
<1>1. /\ stage' = [stage EXCEPT ![i] = row] /\ Overtake({i}, None)
      /\ UNCHANGED <<site, worker, host, payload, snap, attempt>>
  BY DEF UserWrites
<1>2. budget' \in Budget
  BY SpendTyped DEF Inv, TypeOK, Budget, UserWrites
<1>3. stage \in [Ids -> Rows] /\ stage' \in [Ids -> Rows]
  BY <1>1 DEF Inv, TypeOK
<1>4. late' \in [Scans -> SUBSET (Ids \union Hosts)]
  <2>1. {i} \in SUBSET (Ids \union Hosts)
    OBVIOUS
  <2> QED
    BY <1>1, <2>1, OvertakeTyped DEF Inv
<1>5. TypeOK'
  BY <1>1, <1>2, <1>3, <1>4 DEF Inv, TypeOK, Budget
<1>6. stage'[i] = row /\ \A j \in Ids \ {i} : stage'[j] = stage[j]
  BY <1>1, <1>3
<1>7. \A j \in Ids : stage'[j].svc \in Services =>
         stage[j].host = stage'[j].host /\ stage[j].svc = stage'[j].svc
  BY <1>6
<1>8. OneEach'
  <2>1. \A h \in Hosts, s \in Services : RecordsOf(h, s, stage') \subseteq RecordsOf(h, s, stage)
    BY <1>7 DEF RecordsOf
  <2> QED
    BY <2>1 DEF Inv, OneEach, OneOf
<1>9. Busy'
  BY <1>1 DEF Inv, Busy
<1>10. SnapFits'
  <2> SUFFICES ASSUME NEW e \in Scans, worker'[e] = "open" PROVE Fits(e)'
    BY DEF SnapFits
  <2>1. worker[e] = "open" /\ Fits(e) /\ e # None /\ host'[e] = host[e] /\ snap'[e] = snap[e]
    BY <1>1, DiscoveryAssumption DEF Inv, SnapFits
  <2> QED
    BY <1>1, <1>6, <1>7, <2>1, OvertakeFits
<1> QED
  BY <1>5, <1>8, <1>9, <1>10 DEF Inv

LEMMA EditNameInv ==
  ASSUME Inv, NEW i \in Ids, NEW name \in EditNames, EditName(i, name)
  PROVE  Inv'
<1> DEFINE row == [stage[i] EXCEPT !.name = name, !.kept = TRUE]
<1>1. stage[i] \in [host: Hosts, svc: Services \union {None}, name: Names, kept: BOOLEAN]
  BY DEF Inv, TypeOK, Rows, EditName, Exists
<1>2. name \in Names
  BY DiscoveryAssumption
<1>3. row \in Rows /\ row.host = stage[i].host /\ row.svc = stage[i].svc
  BY <1>1, <1>2 DEF Rows
<1> QED
  BY <1>3, UserWritesInv DEF EditName

LEMMA ResumeInv ==
  ASSUME Inv, NEW i \in Ids, ResumeDiscoverySync(i)
  PROVE  Inv'
<1> DEFINE row == [stage[i] EXCEPT !.kept = FALSE]
<1>1. stage[i] \in [host: Hosts, svc: Services \union {None}, name: Names, kept: BOOLEAN]
  BY DEF Inv, TypeOK, Rows, ResumeDiscoverySync, Exists
<1>2. row \in Rows /\ row.host = stage[i].host /\ row.svc = stage[i].svc
  BY <1>1 DEF Rows
<1> QED
  BY <1>2, UserWritesInv DEF ResumeDiscoverySync

LEMMA DeleteInv ==
  ASSUME Inv, NEW i \in Ids, Delete(i)
  PROVE  Inv'
<1>1. Absent \in Rows /\ Absent.svc \notin Services
  BY DiscoveryAssumption DEF Rows, Absent
<1> QED
  BY <1>1, UserWritesInv DEF Delete

LEMMA CreateByHandInv ==
  ASSUME Inv, NEW h \in Hosts, NEW name \in EditNames, CreateByHand(h, name)
  PROVE  Inv'
<1> DEFINE row == Record(h, None, name, FALSE)
<1>1. PICK i \in Ids : UserWrites(i, row)
  BY DEF CreateByHand
<1>2. row \in Rows /\ row.svc \notin Services
  BY DiscoveryAssumption DEF Rows, Record
<1> QED
  BY <1>1, <1>2, UserWritesInv

LEMMA CronWriteInv ==
  ASSUME Inv, NEW r \in Ids \union Hosts, CronWrite(r)
  PROVE  Inv'
<1>1. Overtake({r}, None) /\ UNCHANGED <<site, stage, worker, host, payload, snap, attempt>>
  BY DEF CronWrite
<1>2. budget' \in Budget
  BY SpendTyped DEF Inv, TypeOK, Budget, CronWrite
<1>3. late' \in [Scans -> SUBSET (Ids \union Hosts)]
  <2>1. {r} \in SUBSET (Ids \union Hosts)
    OBVIOUS
  <2> QED
    BY <1>1, <2>1, OvertakeTyped DEF Inv
<1>4. TypeOK'
  BY <1>1, <1>2, <1>3 DEF Inv, TypeOK, Budget
<1>5. OneEach' /\ Busy'
  BY <1>1 DEF Inv, OneEach, Busy
<1>6. SnapFits'
  <2> SUFFICES ASSUME NEW e \in Scans, worker'[e] = "open" PROVE Fits(e)'
    BY DEF SnapFits
  <2>1. worker[e] = "open" /\ Fits(e) /\ e # None /\ host'[e] = host[e] /\ snap'[e] = snap[e]
    BY <1>1, DiscoveryAssumption DEF Inv, SnapFits
  <2> QED
    BY <1>1, <2>1, OvertakeFits
<1> QED
  BY <1>4, <1>5, <1>6 DEF Inv

-----------------------------------------------------------------------------
(* A discovery.                                                            *)

LEMMA ScanInv ==
  ASSUME Inv, NEW d \in Scans, NEW h \in Hosts, Scan(d, h)
  PROVE  Inv'
<1>1. /\ worker[d] = "idle" /\ worker' = [worker EXCEPT ![d] = "scanned"]
      /\ host' = [host EXCEPT ![d] = h] /\ attempt' = [attempt EXCEPT ![d] = 0]
      /\ Overtake({h}, d) /\ UNCHANGED <<site, stage, snap>>
  BY DEF Scan
<1>2. PICK missed \in SUBSET ToSet(Order[h]) :
        /\ Cardinality(missed) <= budget.miss
        /\ payload' = [payload EXCEPT ![d] = Found(h, missed)]
        /\ budget' = [budget EXCEPT !.miss = @ - Cardinality(missed)]
  BY DEF Scan
<1>3. Found(h, missed) \in [Services -> Bases \union {None}]
  BY DEF Inv, TypeOK, Found
<1>4. budget' \in Budget
  <2>1. Cardinality(missed) \in Nat
    <3>1. missed \in SUBSET Services /\ IsFiniteSet(Services)
      BY UnitIs, DiscoveryAssumption
    <3> QED
      BY <3>1, FS_Subset, FS_CardinalityType
  <2>2. budget \in Budget /\ MaxMissed \in Nat
    BY DiscoveryAssumption DEF Inv, TypeOK, Budget
  <2>3. budget.miss \in 0..MaxMissed
    BY <2>2 DEF Budget
  <2>4. budget.miss - Cardinality(missed) \in 0..MaxMissed
    BY <1>2, <2>1, <2>2, <2>3
  <2> QED
    BY <1>2, <2>2, <2>4 DEF Budget
<1>5. late' \in [Scans -> SUBSET (Ids \union Hosts)]
  <2>1. {h} \in SUBSET (Ids \union Hosts)
    OBVIOUS
  <2> QED
    BY <1>1, <2>1, OvertakeTyped DEF Inv
<1>6. TypeOK'
  <2>1. /\ payload' \in [Scans -> [Services -> Bases \union {None}]]
        /\ worker' \in [Scans -> {"idle", "scanned", "open"}]
        /\ host' \in [Scans -> Hosts \union {None}]
        /\ attempt' \in [Scans -> 0..MaxAttempts]
    BY <1>1, <1>2, <1>3, DiscoveryAssumption DEF Inv, TypeOK
  <2> QED
    BY <1>1, <1>4, <1>5, <2>1 DEF Inv, TypeOK, Budget
<1>7. OneEach'
  BY <1>1 DEF Inv, OneEach
<1>8. Busy'
  BY <1>1, DiscoveryAssumption DEF Inv, Busy, TypeOK
<1>9. SnapFits'
  <2> SUFFICES ASSUME NEW e \in Scans, worker'[e] = "open" PROVE Fits(e)'
    BY DEF SnapFits
  <2>1. e # d /\ worker[e] = "open" /\ Fits(e) /\ host'[e] = host[e] /\ snap'[e] = snap[e]
    BY <1>1 DEF Inv, SnapFits, TypeOK
  <2> QED
    BY <1>1, <2>1, OvertakeFits
<1> QED
  BY <1>6, <1>7, <1>8, <1>9 DEF Inv

LEMMA BeginSyncInv ==
  ASSUME Inv, NEW d \in Scans, BeginSync(d)
  PROVE  Inv'
<1>1. /\ worker[d] = "scanned" /\ worker' = [worker EXCEPT ![d] = "open"]
      /\ snap' = [snap EXCEPT ![d] = stage]
      /\ UNCHANGED <<site, stage, host, payload, late, attempt, budget>>
  BY DEF BeginSync
<1>2. TypeOK'
  BY <1>1 DEF Inv, TypeOK
<1>3. OneEach' /\ Busy'
  BY <1>1 DEF Inv, OneEach, Busy, TypeOK
<1>4. SnapFits'
  <2> SUFFICES ASSUME NEW e \in Scans, worker'[e] = "open" PROVE Fits(e)'
    BY DEF SnapFits
  <2>1. CASE e = d
    <3>1. snap'[e] = stage
      BY <1>1, <2>1 DEF Inv, TypeOK
    <3> QED
      BY <1>1, <3>1 DEF Inv, OneEach, Fits
  <2>2. CASE e # d
    <3>1. worker[e] = "open" /\ snap'[e] = snap[e]
      BY <1>1, <2>2 DEF Inv, TypeOK
    <3> QED
      BY <1>1, <3>1 DEF Inv, SnapFits, Fits
  <2> QED
    BY <2>1, <2>2
<1> QED
  BY <1>2, <1>3, <1>4 DEF Inv

\* The transaction of d ends, and what d holds is dropped.
LEMMA CloseTyped ==
  ASSUME TypeOK, NEW d \in Scans, NEW phase \in {"idle", "scanned"}, Close(d, phase)
  PROVE  /\ worker' \in [Scans -> {"idle", "scanned", "open"}] /\ worker'[d] = phase
         /\ host' \in [Scans -> Hosts \union {None}]
         /\ payload' \in [Scans -> [Services -> Bases \union {None}]]
         /\ snap' \in [Scans -> [Ids -> Rows]]
         /\ phase = "scanned" => host'[d] = host[d]
         /\ \A e \in Scans \ {d} : worker'[e] = worker[e] /\ host'[e] = host[e] /\ snap'[e] = snap[e]
<1>1. NoPayload \in [Services -> Bases \union {None}] /\ NoTable \in [Ids -> Rows]
  BY DEF NoPayload, NoTable, Rows
<1> HIDE DEF NoPayload, NoTable
<1>2. worker' \in [Scans -> {"idle", "scanned", "open"}] /\ worker'[d] = phase
  BY DEF TypeOK, Close
<1>3. host' \in [Scans -> Hosts \union {None}] /\ (phase = "scanned" => host'[d] = host[d])
  BY DEF TypeOK, Close
<1>4. payload' \in [Scans -> [Services -> Bases \union {None}]] /\ snap' \in [Scans -> [Ids -> Rows]]
  BY <1>1 DEF TypeOK, Close
<1>5. \A e \in Scans \ {d} : worker'[e] = worker[e] /\ host'[e] = host[e] /\ snap'[e] = snap[e]
  BY DEF TypeOK, Close
<1> QED
  BY <1>2, <1>3, <1>4, <1>5

LEMMA FailSyncInv ==
  ASSUME Inv, NEW d \in Scans, FailSync(d)
  PROVE  Inv'
<1>1. /\ worker[d] = "open" /\ attempt' = [attempt EXCEPT ![d] = @ + 1]
      /\ Close(d, AfterFailure(d)) /\ late' = [late EXCEPT ![d] = {}]
      /\ UNCHANGED <<site, stage, budget>>
  BY DEF FailSync
<1>2. host[d] \in Hosts /\ attempt[d] < MaxAttempts /\ attempt[d] \in 0..MaxAttempts /\ MaxAttempts \in Nat
  BY <1>1, DiscoveryAssumption DEF Inv, Busy, TypeOK
<1>3. /\ AfterFailure(d) \in {"idle", "scanned"}
      /\ AfterFailure(d) = "scanned" => attempt[d] + 1 < MaxAttempts
  BY <1>2 DEF AfterFailure
<1>4. attempt' \in [Scans -> 0..MaxAttempts] /\ attempt'[d] = attempt[d] + 1
      /\ \A e \in Scans \ {d} : attempt'[e] = attempt[e]
  BY <1>1, <1>2 DEF Inv, TypeOK
<1> DEFINE phase == AfterFailure(d)
<1> HIDE DEF phase
<1>5. /\ worker' \in [Scans -> {"idle", "scanned", "open"}] /\ worker'[d] = phase
      /\ host' \in [Scans -> Hosts \union {None}]
      /\ payload' \in [Scans -> [Services -> Bases \union {None}]]
      /\ snap' \in [Scans -> [Ids -> Rows]]
      /\ phase = "scanned" => host'[d] = host[d]
      /\ \A e \in Scans \ {d} : worker'[e] = worker[e] /\ host'[e] = host[e] /\ snap'[e] = snap[e]
  BY <1>1, <1>3, CloseTyped DEF Inv, phase
<1>6. late' \in [Scans -> SUBSET (Ids \union Hosts)] /\ \A e \in Scans \ {d} : late'[e] = late[e]
  BY <1>1 DEF Inv, TypeOK
<1>7. TypeOK'
  BY <1>1, <1>4, <1>5, <1>6 DEF Inv, TypeOK
<1>8. OneEach'
  BY <1>1 DEF Inv, OneEach
<1>9. Busy'
  BY <1>2, <1>3, <1>4, <1>5 DEF Inv, Busy, phase
<1>10. SnapFits'
  <2> SUFFICES ASSUME NEW e \in Scans, worker'[e] = "open" PROVE Fits(e)'
    BY DEF SnapFits
  <2>1. e # d
    BY <1>3, <1>5 DEF phase
  <2>2. /\ worker[e] = "open" /\ host'[e] = host[e] /\ snap'[e] = snap[e] /\ late'[e] = late[e]
        /\ stage' = stage
    BY <1>1, <1>5, <1>6, <2>1
  <2>3. Fits(e)
    BY <2>2 DEF Inv, SnapFits
  <2> QED
    BY <2>2, <2>3 DEF Fits
<1> QED
  BY <1>7, <1>8, <1>9, <1>10 DEF Inv

-----------------------------------------------------------------------------
(* A commit.                                                               *)

\* What the commit of d leaves of each record.
CommitSound(d, broken, sync, gone) ==
  /\ Sound(host[d], payload[d], snap[d], late[d], broken, sync)
  /\ host[d] \in Hosts \ late[d] /\ gone \in SUBSET Ids /\ gone \cap late[d] = {}
  /\ \A i \in gone : sync.view[i].host = host[d] /\ sync.view[i].svc \notin Detected(payload[d])
  /\ stage' = After(sync, gone)
  /\ Overtake(sync.mine \union gone \union {host[d]}, d)
  /\ attempt' = [attempt EXCEPT ![d] = 0] /\ Close(d, "idle") /\ UNCHANGED site
  /\ budget' \in Budget

LEMMA SyncCommitsIs ==
  ASSUME Inv, NEW d \in Scans, NEW broken \in SUBSET Detected(payload[d]), SyncCommits(d, broken)
  PROVE  /\ worker[d] = "open" /\ Fits(d)
         /\ \E sync, gone : CommitSound(d, broken, sync, gone)
<1> DEFINE sync == Synced(host[d], payload[d], snap[d], late[d], broken)
           gone == Pruned(host[d], payload[d], sync)
<1>1. /\ worker[d] = "open" /\ HasRoom(d) /\ Unprotected(d, gone) \cap late[d] = {}
      /\ stage' = After(sync, gone) /\ Overtake(sync.mine \union Unprotected(d, gone), d)
      /\ attempt' = [attempt EXCEPT ![d] = 0] /\ Close(d, "idle") /\ UNCHANGED site
  BY DEF SyncCommits
<1>9. budget' \in Budget
  <2>1. /\ Cardinality(broken) <= budget.broken /\ Cardinality(broken) <= budget.event
        /\ budget' = [budget EXCEPT !.broken = @ - Cardinality(broken), !.event = @ - Cardinality(broken)]
    BY DEF SyncCommits
  <2>2. broken \in SUBSET Services /\ IsFiniteSet(Services)
    BY DiscoveryAssumption DEF Detected
  <2>3. Cardinality(broken) \in Nat
    BY <2>2, FS_Subset, FS_CardinalityType
  <2>4. budget \in Budget
    BY DEF Inv, TypeOK, Budget
  <2> QED
    BY <2>1, <2>3, <2>4, BrokenTyped
<1>2. /\ host[d] \in Hosts /\ Fits(d) /\ payload[d] \in [Services -> Bases \union {None}]
      /\ snap[d] \in [Ids -> Rows]
  BY <1>1 DEF Inv, Busy, SnapFits, TypeOK
<1>3. OneOf(host[d], snap[d]) /\ RoomIn(host[d], payload[d], snap[d])
  BY <1>1, <1>2 DEF Fits, HasRoom, RoomIn, Needing
<1>4. Sound(host[d], payload[d], snap[d], late[d], broken, sync)
  BY <1>2, <1>3, SyncedIsSound
<1> HIDE DEF sync
<1>5. /\ gone \in SUBSET Ids
      /\ \A i \in gone : sync.view[i].host = host[d] /\ sync.view[i].svc \notin Detected(payload[d])
  BY DEF Pruned
<1> HIDE DEF gone
<1>6. Unprotected(d, gone) = gone \union {host[d]}
  BY DEF Unprotected
<1>7. /\ host[d] \in Hosts \ late[d] /\ gone \cap late[d] = {}
      /\ Overtake(sync.mine \union gone \union {host[d]}, d)
  <2>1. sync.mine \union Unprotected(d, gone) = sync.mine \union gone \union {host[d]}
    BY <1>6
  <2> QED
    BY <1>1, <1>2, <1>6, <2>1
<1>8. CommitSound(d, broken, sync, gone)
  BY <1>1, <1>4, <1>5, <1>7, <1>9 DEF CommitSound
<1> QED
  BY <1>1, <1>2, <1>8

LEMMA CommitIs ==
  ASSUME Inv, NEW d \in Scans, CommitSync(d)
  PROVE  /\ worker[d] = "open" /\ Fits(d)
         /\ \E broken, sync, gone : CommitSound(d, broken, sync, gone)
BY SyncCommitsIs DEF CommitSync

\* Each record, after the commit.
LEMMA CommitRows ==
  ASSUME Inv, NEW d \in Scans, NEW broken, NEW sync, NEW gone, CommitSound(d, broken, sync, gone), Fits(d)
  PROVE  /\ stage' \in [Ids -> Rows]
         /\ \A i \in gone : /\ i \notin sync.mine /\ stage'[i] = Absent /\ stage[i].host = host[d]
                            /\ stage[i].svc \notin Detected(payload[d])
         /\ \A i \in sync.mine : /\ i \in Ids /\ stage'[i] = sync.view[i] /\ stage'[i].host = host[d]
                                 /\ stage'[i] # Absent
                                 /\ stage[i] # Absent /\ stage[i].kept => stage'[i] = stage[i]
         /\ \A i \in Ids \ (gone \union sync.mine) : stage'[i] = stage[i] /\ sync.view[i] = snap[d][i]
<1>1. Sound(host[d], payload[d], snap[d], late[d], broken, sync) /\ sync \in Syncs
  BY DEF CommitSound, Sound
<1>2. /\ host[d] \in Hosts /\ gone \in SUBSET Ids /\ gone \cap late[d] = {} /\ stage' = After(sync, gone)
      /\ \A i \in gone : sync.view[i].host = host[d] /\ sync.view[i].svc \notin Detected(payload[d])
  BY DEF CommitSound
<1>3. sync.mine \in SUBSET Ids /\ sync.view \in [Ids -> Rows]
  BY <1>1 DEF Syncs
<1>4. \A i \in sync.mine : /\ sync.view[i].host = host[d] /\ sync.view[i].svc \in Detected(payload[d])
                           /\ snap[d][i] = Absent => stage[i] = Absent
                           /\ snap[d][i] # Absent => i \notin late[d]
                           /\ snap[d][i].kept => sync.view[i] = snap[d][i]
  BY <1>1 DEF Sound
<1>5. \A i \in Ids \ sync.mine : sync.view[i] = snap[d][i]
  BY <1>1 DEF Sound
<1>6. \A i \in Ids \ late[d] : snap[d][i] = stage[i]
  BY DEF Fits
<1>7. \A i \in Ids : stage'[i] = IF i \in gone THEN Absent
                                 ELSE IF i \in sync.mine THEN sync.view[i] ELSE stage[i]
  BY <1>2 DEF After
<1>8. \A i \in gone : i \notin sync.mine
  BY <1>2, <1>4
<1>9. stage' \in [Ids -> Rows]
  <2>1. stage \in [Ids -> Rows] /\ Absent \in Rows
    BY DEF Inv, TypeOK, Rows
  <2> QED
    BY <1>2, <1>3, <2>1 DEF After
<1>10. \A i \in gone : /\ stage'[i] = Absent /\ stage[i].host = host[d]
                       /\ stage[i].svc \notin Detected(payload[d])
  BY <1>2, <1>5, <1>6, <1>7, <1>8
<1>11. ASSUME NEW i \in sync.mine
       PROVE  /\ i \in Ids /\ stage'[i] = sync.view[i] /\ stage'[i].host = host[d] /\ stage'[i] # Absent
              /\ stage[i] # Absent /\ stage[i].kept => stage'[i] = stage[i]
  <2>1. i \in Ids /\ stage'[i] = sync.view[i] /\ stage'[i].host = host[d]
    BY <1>3, <1>4, <1>7, <1>8
  <2>2. stage'[i] # Absent
    BY <1>2, <2>1, AbsentIs
  <2>3. stage[i] # Absent /\ stage[i].kept => stage'[i] = stage[i]
    BY <1>4, <1>6, <2>1
  <2> QED
    BY <2>1, <2>2, <2>3
<1> QED
  BY <1>5, <1>7, <1>8, <1>9, <1>10, <1>11

LEMMA CommitSyncInv ==
  ASSUME Inv, NEW d \in Scans, CommitSync(d)
  PROVE  Inv'
<1>1. PICK broken, sync, gone : CommitSound(d, broken, sync, gone)
  BY CommitIs
<1>2. worker[d] = "open" /\ Fits(d)
  BY CommitIs
<1>3. /\ stage' \in [Ids -> Rows]
      /\ \A i \in gone : i \notin sync.mine /\ stage'[i] = Absent
      /\ \A i \in sync.mine : i \in Ids /\ stage'[i] = sync.view[i] /\ stage'[i].host = host[d]
      /\ \A i \in Ids \ (gone \union sync.mine) : stage'[i] = stage[i] /\ sync.view[i] = snap[d][i]
  BY <1>1, <1>2, CommitRows
<1>4. /\ host[d] \in Hosts \ late[d] /\ gone \in SUBSET Ids /\ OneOf(host[d], sync.view)
      /\ Overtake(sync.mine \union gone \union {host[d]}, d)
      /\ attempt' = [attempt EXCEPT ![d] = 0] /\ Close(d, "idle") /\ UNCHANGED site /\ budget' \in Budget
  BY <1>1 DEF CommitSound, Sound
<1>5. /\ worker' \in [Scans -> {"idle", "scanned", "open"}] /\ worker'[d] = "idle"
      /\ host' \in [Scans -> Hosts \union {None}]
      /\ payload' \in [Scans -> [Services -> Bases \union {None}]]
      /\ snap' \in [Scans -> [Ids -> Rows]]
      /\ \A e \in Scans \ {d} : worker'[e] = worker[e] /\ host'[e] = host[e] /\ snap'[e] = snap[e]
  BY <1>4, CloseTyped DEF Inv
<1> DEFINE written == sync.mine \union gone \union {host[d]}
<1>6. written \in SUBSET (Ids \union Hosts)
  BY <1>3, <1>4
<1> HIDE DEF written
<1>7. late' \in [Scans -> SUBSET (Ids \union Hosts)]
  BY <1>4, <1>6, OvertakeTyped DEF Inv, written
<1>8. /\ attempt' \in [Scans -> 0..MaxAttempts]
      /\ \A e \in Scans \ {d} : attempt'[e] = attempt[e]
  BY <1>4, DiscoveryAssumption DEF Inv, TypeOK
<1>9. TypeOK'
  BY <1>3, <1>4, <1>5, <1>7, <1>8 DEF Inv, TypeOK, Budget
<1>10. Busy'
  BY <1>5, <1>8 DEF Inv, Busy
<1>11. None \notin Hosts
  BY DiscoveryAssumption DEF Bases
<1>12. ASSUME NEW i \in Ids, NEW h \in Hosts, h # host[d], stage'[i].host = h
       PROVE  stage'[i] = stage[i]
  BY <1>3, <1>11, <1>12 DEF Absent
<1>13. ASSUME NEW i \in Ids, stage'[i].host = host[d], stage'[i].svc \in Services
       PROVE  sync.view[i].host = host[d] /\ sync.view[i].svc = stage'[i].svc
  <2>1. i \notin gone
    BY <1>3, <1>4, <1>11, <1>13 DEF Absent
  <2>2. CASE i \in sync.mine
    BY <1>3, <1>13, <2>2
  <2>3. CASE i \notin sync.mine
    <3>1. stage'[i] = stage[i] /\ sync.view[i] = snap[d][i]
      BY <1>3, <2>1, <2>3
    <3> QED
      BY <1>2, <1>4, <1>13, <3>1 DEF Fits
  <2> QED
    BY <2>2, <2>3
<1>14. OneEach'
  <2> SUFFICES ASSUME NEW h \in Hosts, NEW s \in Services, NEW i \in RecordsOf(h, s, stage'),
                      NEW j \in RecordsOf(h, s, stage')
               PROVE  i = j
    BY DEF OneEach, OneOf
  <2>1. /\ i \in Ids /\ stage'[i].host = h /\ stage'[i].svc = s
        /\ j \in Ids /\ stage'[j].host = h /\ stage'[j].svc = s
    BY DEF RecordsOf
  <2>2. CASE h = host[d]
    <3>1. i \in RecordsOf(h, s, sync.view) /\ j \in RecordsOf(h, s, sync.view)
      BY <1>13, <2>1, <2>2 DEF RecordsOf
    <3> QED
      BY <1>4, <2>2, <3>1 DEF OneOf
  <2>3. CASE h # host[d]
    <3>1. i \in RecordsOf(h, s, stage) /\ j \in RecordsOf(h, s, stage)
      BY <1>12, <2>1, <2>3 DEF RecordsOf
    <3> QED
      BY <3>1 DEF Inv, OneEach, OneOf
  <2> QED
    BY <2>2, <2>3
<1>15. SnapFits'
  <2> SUFFICES ASSUME NEW e \in Scans, worker'[e] = "open" PROVE Fits(e)'
    BY DEF SnapFits
  <2>1. e # d
    BY <1>5
  <2>2. worker[e] = "open" /\ host'[e] = host[e] /\ snap'[e] = snap[e]
    BY <1>5, <2>1
  <2>3. Fits(e) /\ host[e] \in Hosts
    BY <2>2 DEF Inv, SnapFits, Busy
  <2>4. \A i \in Ids \ written : stage'[i] = stage[i]
    BY <1>3 DEF written
  <2>5. ASSUME host[e] \notin written, NEW i \in Ids, stage'[i].host = host[e]
        PROVE  stage'[i] = stage[i]
    BY <1>12, <2>3, <2>5 DEF written
  <2>6. Overtake(written, d)
    BY <1>4 DEF written
  <2> QED
    BY <2>1, <2>2, <2>3, <2>4, <2>5, <2>6, OvertakeFits
<1> QED
  BY <1>9, <1>10, <1>14, <1>15 DEF Inv

-----------------------------------------------------------------------------
(* Names.  They differ in every committed table, and a sync writes none that *)
(* another record bears.  As the numbering always finds a free one, a sync   *)
(* that nobody disturbs never has to skip an instance for its name.          *)

NamesDiffer(table) ==
  \A i, j \in Ids : table[i] # Absent /\ table[j].name = table[i].name => i = j

LEMMA RowIs ==
  ASSUME NEW row \in Rows
  PROVE  /\ row # Absent => /\ row.host \in Hosts /\ row.svc \in Services \union {None}
                            /\ row.name \in Names /\ row.name # None
         /\ row.name \in Names => row # Absent
<1>1. None \notin Names
  BY DiscoveryAssumption
<1>2. Absent.name = None
  BY DEF Absent
<1> QED
  BY <1>1, <1>2 DEF Rows

\* No two rows get the same name.
Neat(sync) == NamesDiffer(Current(sync))

LEMMA NeatStep ==
  ASSUME NEW h \in Hosts, NEW found \in [Services -> Bases \union {None}], NEW table, NEW overtaken, NEW broken,
         NEW sync, Sound(h, found, table, overtaken, broken, sync), Neat(sync), NEW s \in ToSet(Order[h]),
         stage \in [Ids -> Rows]
  PROVE  Neat(SyncOne(h, found, overtaken, broken, sync, s))
<1> DEFINE v == sync.view
           next == SyncOne(h, found, overtaken, broken, sync, s)
<1>1. sync \in Syncs /\ s \in Services /\ NamesDiffer(Current(sync))
  BY UnitIs DEF Sound, Neat
<1>2. s \in Detected(found) /\ RecordsOf(h, s, v) = {} => FreeIds(v) # {}
  BY RoomMeansFree DEF Sound
<1>3. \/ Skipped(h, found, overtaken, broken, sync, s, next)
      \/ \E i \in Ids, row \in Rows : Wrote(h, found, overtaken, broken, sync, s, next, i, row)
  BY <1>1, <1>2, SyncOneIs
<1> HIDE DEF next
<1>4. CASE Skipped(h, found, overtaken, broken, sync, s, next)
  <2>1. next.view = v /\ next.mine = sync.mine
    BY <1>4 DEF Skipped
  <2>2. Current(next) = Current(sync)
    BY <2>1 DEF Current
  <2> QED
    BY <1>1, <2>1, <2>2 DEF Neat, next
<1>5. ASSUME NEW i \in Ids, NEW row \in Rows, Wrote(h, found, overtaken, broken, sync, s, next, i, row)
      PROVE  Neat(next)
  <2>1. /\ next.view = [v EXCEPT ![i] = row] /\ next.mine = sync.mine \union {i}
        /\ Content(h, found, sync, s, i, row) /\ ~Clash(sync, i, row)
    BY <1>5 DEF Wrote
  <2>2. v \in [Ids -> Rows] /\ sync.mine \in SUBSET Ids
    BY <1>1 DEF Syncs
  <2>5. Current(next)[i] = row /\ \A j \in Ids \ {i} : Current(next)[j] = Current(sync)[j]
    BY <2>1, <2>2 DEF Current
  <2>6. \A j \in Ids \ {i} : Current(sync)[j].name # row.name
    BY <2>1 DEF Clash
  <2>7. NamesDiffer(Current(next))
    <3> SUFFICES ASSUME NEW j \in Ids, NEW k \in Ids, Current(next)[j] # Absent,
                        Current(next)[k].name = Current(next)[j].name
                 PROVE  j = k
      BY DEF NamesDiffer
    <3>1. CASE j # i /\ k # i
      BY <1>1, <2>5, <3>1 DEF NamesDiffer
    <3>2. CASE j = i \/ k = i
      BY <2>5, <2>6, <3>2
    <3> QED
      BY <3>1, <3>2
  <2> QED
    BY <2>7 DEF Neat
<1> QED
  BY <1>3, <1>4, <1>5 DEF next

LEMMA SyncedIsNeat ==
  ASSUME NEW h \in Hosts, NEW found \in [Services -> Bases \union {None}],
         NEW table \in [Ids -> Rows], NEW overtaken, NEW broken,
         OneOf(h, table), RoomIn(h, found, table),
         stage \in [Ids -> Rows], NamesDiffer(stage)
  PROVE  Neat(Synced(h, found, table, overtaken, broken))
<1> DEFINE N == Len(Order[h])
<1>1. N \in Nat /\ \A n \in 1..N : Order[h][n] \in Services /\ Order[h][n] \in ToSet(Order[h])
  BY UnitIs
<1>2. PICK f : /\ f[0] = Start(table)
               /\ \A n \in 1..N : f[n] = SyncOne(h, found, overtaken, broken, f[n - 1], Order[h][n])
               /\ Synced(h, found, table, overtaken, broken) = f[N]
  BY SyncedIs
<1> DEFINE S == {n \in 0..N : Sound(h, found, table, overtaken, broken, f[n]) /\ Neat(f[n])}
<1> HIDE DEF N
<1>3. 0 \in S
  <2>1. /\ Start(table) \in Syncs /\ Start(table).view = table /\ Start(table).mine = {}
    BY FS_EmptySet DEF Start, Syncs
  <2>2. Sound(h, found, table, overtaken, broken, Start(table))
    BY <2>1 DEF Sound
  <2>3. Current(Start(table)) = stage
    BY <2>1 DEF Current
  <2>4. Neat(Start(table))
    BY <2>1, <2>3 DEF Neat
  <2> QED
    BY <1>1, <1>2, <2>2, <2>4
<1>4. ASSUME NEW n \in 1..N, n - 1 \in S PROVE n \in S
  <2>1. /\ Sound(h, found, table, overtaken, broken, SyncOne(h, found, overtaken, broken, f[n - 1], Order[h][n]))
        /\ Neat(SyncOne(h, found, overtaken, broken, f[n - 1], Order[h][n]))
    BY <1>1, <1>4, SoundStep, NeatStep
  <2> QED
    BY <1>1, <1>2, <2>1
<1>5. N \in S
  <2> HIDE DEF S
  <2> QED
    BY <1>1, <1>3, <1>4, Induction
<1> QED
  BY <1>2, <1>5

\* A sync that nobody disturbed, after n units: every reported one has its record.
Agrees(found, row) == row.kept \/ row.name.base = found[row.svc]

Done(h, found, broken, n, sync) ==
  \A m \in 1..n : Order[h][m] \in Detected(found) \ broken =>
     \E i \in RecordsOf(h, Order[h][m], sync.view) : Agrees(found, sync.view[i])

\* It skips nothing that was reported, except where a savepoint failed.
LEMMA QuietWrites ==
  ASSUME NEW h \in Hosts, NEW found \in [Services -> Bases \union {None}], NEW broken, stage \in [Ids -> Rows],
         NEW sync, Sound(h, found, stage, {}, broken, sync), Neat(sync), NEW s \in ToSet(Order[h]),
         NEW next, Skipped(h, found, {}, broken, sync, s, next)
  PROVE  s \notin Detected(found) \ broken
<1> DEFINE v == sync.view
<1> SUFFICES ASSUME s \in Detected(found) \ broken PROVE FALSE
  OBVIOUS
<1>1. sync \in Syncs /\ v \in [Ids -> Rows] /\ OneOf(h, v) /\ s \in Services
  BY UnitIs DEF Sound, Neat, Syncs
<1>2. \A i \in Ids \ sync.mine : v[i] = stage[i]
  BY DEF Sound
<1>3. \A i \in Ids : Current(sync)[i] = v[i]
  BY <1>2 DEF Current
<1>4. NamesDiffer(v)
  BY <1>3 DEF Neat, NamesDiffer
<1>5. PICK i \in Ids, row \in Rows :
         Goal(h, sync, s, i) /\ Content(h, found, sync, s, i, row) /\ Clash(sync, i, row)
  BY DEF Skipped
<1>6. PICK j \in Ids \ {i} : v[j].name = row.name
  BY <1>3, <1>5 DEF Clash
<1>7. CASE i \in RecordsOf(h, s, v) /\ row = v[i]
  BY <1>4, <1>6, <1>7, AbsentIs DEF RecordsOf, NamesDiffer
<1>8. CASE row.name = UniqueName(h, s, found[s], sync)
  <2>1. found[s] \in Bases
    BY <1>1 DEF Detected
  <2>2. ~Taken(h, s, row.name, sync)
    BY <1>1, <1>8, <2>1, NameIs
  <2>3. v[j].host = h /\ v[j].svc = s
    BY <1>6, <2>2 DEF Taken
  <2>4. j \in RecordsOf(h, s, v)
    BY <2>3 DEF RecordsOf
  <2>5. i \in RecordsOf(h, s, v)
    BY <1>5, <2>4 DEF Goal
  <2> QED
    BY <1>1, <1>6, <2>4, <2>5 DEF OneOf
<1> QED
  BY <1>5, <1>7, <1>8 DEF Content

LEMMA DoneStep ==
  ASSUME NEW h \in Hosts, NEW found \in [Services -> Bases \union {None}], NEW broken, stage \in [Ids -> Rows],
         NEW n \in 1..Len(Order[h]),
         NEW sync, Sound(h, found, stage, {}, broken, sync), Neat(sync), Done(h, found, broken, n - 1, sync)
  PROVE  Done(h, found, broken, n, SyncOne(h, found, {}, broken, sync, Order[h][n]))
<1> DEFINE v == sync.view
           s == Order[h][n]
           next == SyncOne(h, found, {}, broken, sync, s)
           w == next.view
<1>1. /\ sync \in Syncs /\ s \in Services /\ s \in ToSet(Order[h]) /\ v \in [Ids -> Rows]
      /\ n \in Nat /\ n - 1 \in Nat
  BY UnitIs DEF Sound, Syncs
<1>2. s \in Detected(found) /\ RecordsOf(h, s, v) = {} => FreeIds(v) # {}
  BY RoomMeansFree DEF Sound
<1>3. \/ Skipped(h, found, {}, broken, sync, s, next)
      \/ \E i \in Ids, row \in Rows : Wrote(h, found, {}, broken, sync, s, next, i, row)
  BY <1>1, <1>2, SyncOneIs
<1>5. \A m \in 1..n : m = n \/ m \in 1..(n - 1)
  BY <1>1
<1> HIDE DEF next, s
<1>8. CASE Skipped(h, found, {}, broken, sync, s, next)
  <2>1. s \notin Detected(found) \ broken
    BY <1>1, <1>8, QuietWrites
  <2>2. w = v
    BY <1>8 DEF Skipped
  <2>3. ASSUME NEW m \in 1..n, Order[h][m] \in Detected(found) \ broken
        PROVE  \E i \in RecordsOf(h, Order[h][m], w) : Agrees(found, w[i])
    BY <1>5, <2>1, <2>2, <2>3 DEF Done, s
  <2>4. Done(h, found, broken, n, next)
    BY <2>3 DEF Done
  <2> QED
    BY <2>4 DEF next, s
<1>9. ASSUME NEW i \in Ids, NEW row \in Rows, Wrote(h, found, {}, broken, sync, s, next, i, row)
      PROVE  Done(h, found, broken, n, next)
  <2>1. w = [v EXCEPT ![i] = row] /\ row.host = h /\ row.svc = s /\ i \in RecordsOf(h, s, w)
    BY <1>1, <1>9 DEF Wrote, Content, RecordsOf
  <2>2. w[i] = row /\ \A k \in Ids \ {i} : w[k] = v[k]
    BY <1>1, <2>1
  <2>3. Agrees(found, row)
    <3>1. found[s] \in Bases
      BY <1>1, <1>9 DEF Wrote, Detected
    <3>2. UniqueName(h, s, found[s], sync).base = found[s]
      BY <1>1, <3>1, NameIs
    <3> QED
      BY <1>9, <2>1, <3>2 DEF Wrote, Content, Agrees
  <2>4. ASSUME NEW m \in 1..(n - 1), Order[h][m] \in Detected(found) \ broken
        PROVE  \E k \in RecordsOf(h, Order[h][m], w) : Agrees(found, w[k])
    <3>1. PICK k \in RecordsOf(h, Order[h][m], v) : Agrees(found, v[k])
      BY <2>4 DEF Done
    <3>2. k \in Ids /\ v[k].host = h /\ v[k].svc = Order[h][m] /\ v[k] # Absent
      BY <3>1, AbsentIs DEF RecordsOf
    <3>3. CASE k = i
      <4>1. i \in RecordsOf(h, s, v)
        BY <1>9, <3>2, <3>3 DEF Wrote, FreeIds
      <4>2. Order[h][m] = s
        BY <3>2, <3>3, <4>1 DEF RecordsOf
      <4> QED
        BY <2>1, <2>2, <2>3, <4>2
    <3>4. CASE k # i
      <4>1. w[k] = v[k]
        BY <2>2, <3>2, <3>4
      <4> QED
        BY <3>1, <3>2, <4>1 DEF RecordsOf
    <3> QED
      BY <3>3, <3>4
  <2>5. ASSUME NEW m \in 1..n, Order[h][m] \in Detected(found) \ broken
        PROVE  \E k \in RecordsOf(h, Order[h][m], w) : Agrees(found, w[k])
    <3>1. CASE m = n
      BY <2>1, <2>2, <2>3, <3>1 DEF s
    <3>2. CASE m \in 1..(n - 1)
      BY <2>4, <2>5, <3>2
    <3> QED
      BY <1>5, <3>1, <3>2
  <2> QED
    BY <2>5 DEF Done
<1> QED
  BY <1>3, <1>8, <1>9 DEF next, s

LEMMA QuietIsDone ==
  ASSUME NEW h \in Hosts, NEW found \in [Services -> Bases \union {None}], NEW broken, stage \in [Ids -> Rows],
         OneOf(h, stage), RoomIn(h, found, stage), NamesDiffer(stage)
  PROVE  Done(h, found, broken, Len(Order[h]), Synced(h, found, stage, {}, broken))
<1> DEFINE N == Len(Order[h])
<1>1. N \in Nat /\ \A n \in 1..N : Order[h][n] \in Services /\ Order[h][n] \in ToSet(Order[h])
  BY UnitIs
<1>2. PICK f : /\ f[0] = Start(stage)
               /\ \A n \in 1..N : f[n] = SyncOne(h, found, {}, broken, f[n - 1], Order[h][n])
               /\ Synced(h, found, stage, {}, broken) = f[N]
  BY SyncedIs
<1> DEFINE S == {n \in 0..N : /\ Sound(h, found, stage, {}, broken, f[n]) /\ Neat(f[n])
                              /\ Done(h, found, broken, n, f[n])}
<1>3. 0 \in S
  <2>1. /\ Start(stage) \in Syncs /\ Start(stage).view = stage /\ Start(stage).mine = {}
    BY FS_EmptySet DEF Start, Syncs
  <2>2. Sound(h, found, stage, {}, broken, Start(stage))
    BY <2>1 DEF Sound
  <2>3. Current(Start(stage)) = stage
    BY <2>1 DEF Current
  <2>4. Neat(Start(stage))
    BY <2>1, <2>3 DEF Neat
  <2>5. Done(h, found, broken, 0, Start(stage))
    BY DEF Done
  <2> QED
    BY <1>1, <1>2, <2>2, <2>4, <2>5
<1>4. ASSUME NEW n \in 1..N, n - 1 \in S PROVE n \in S
  <2> DEFINE next == SyncOne(h, found, {}, broken, f[n - 1], Order[h][n])
  <2>1. Sound(h, found, stage, {}, broken, f[n - 1]) /\ Neat(f[n - 1]) /\ Done(h, found, broken, n - 1, f[n - 1])
    BY <1>4
  <2>2. Sound(h, found, stage, {}, broken, next)
    BY <1>1, <2>1, SoundStep
  <2>3. Neat(next)
    BY <1>1, <2>1, NeatStep
  <2>4. Done(h, found, broken, n, next)
    BY <2>1, DoneStep
  <2>5. f[n] = next
    BY <1>2
  <2> HIDE DEF next
  <2> QED
    BY <1>1, <2>2, <2>3, <2>4, <2>5
<1>5. N \in S
  <2> HIDE DEF S, N
  <2> QED
    BY <1>1, <1>3, <1>4, Induction
<1> QED
  BY <1>2, <1>5

\* A scan reports units of its own host.
ReportsOwn == \A d \in Scans : worker[d] # "idle" => Detected(payload[d]) \subseteq ToSet(Order[host[d]])

Named == NamesDiffer(stage) /\ ReportsOwn

\* A user writes a row under a free name or the one it had.
LEMMA UserWritesNamed ==
  ASSUME Inv, Named, NEW i \in Ids, NEW row \in Rows, UserWrites(i, row),
         row # Absent => \A j \in Ids \ {i} : stage[j].name # row.name
  PROVE  Named'
<1>1. stage' = [stage EXCEPT ![i] = row] /\ UNCHANGED <<worker, host, payload, snap>>
  BY DEF UserWrites
<1>2. stage'[i] = row /\ \A j \in Ids \ {i} : stage'[j] = stage[j]
  BY <1>1 DEF Inv, TypeOK
<1>4. NamesDiffer(stage')
  <2> SUFFICES ASSUME NEW j \in Ids, NEW k \in Ids, stage'[j] # Absent, stage'[k].name = stage'[j].name
               PROVE  j = k
    BY DEF NamesDiffer
  <2>1. CASE j # i /\ k # i
    BY <1>2, <2>1 DEF Named, NamesDiffer
  <2>2. CASE j = i
    BY <1>2, <2>2
  <2>3. CASE j # i /\ k = i
    <3>1. stage[j] # Absent /\ stage[j].name = row.name /\ stage[j] \in Rows
      BY <1>2, <2>3 DEF Inv, TypeOK
    <3>2. row # Absent
      BY <3>1, RowIs
    <3> QED
      BY <2>3, <3>1, <3>2
  <2> QED
    BY <2>1, <2>2, <2>3
<1>5. ReportsOwn'
  BY <1>1 DEF Named, ReportsOwn
<1> QED
  BY <1>4, <1>5 DEF Named

LEMMA EditNamed ==
  ASSUME Inv, Named, NEW i \in Ids, NEW name \in EditNames, EditName(i, name)
  PROVE  Named'
<1> DEFINE row == [stage[i] EXCEPT !.name = name, !.kept = TRUE]
<1>1. /\ stage[i] \in [host: Hosts, svc: Services \union {None}, name: Names, kept: BOOLEAN]
      /\ stage[i] # Absent /\ NameFree(name) /\ UserWrites(i, row)
  BY DEF Inv, TypeOK, Rows, EditName, Exists
<1>2. name \in Names
  BY DiscoveryAssumption
<1>3. row \in Rows /\ row.host = stage[i].host /\ row.svc = stage[i].svc /\ row.name = name
  BY <1>1, <1>2 DEF Rows
<1> HIDE DEF row
<1> QED
  BY <1>1, <1>3, UserWritesNamed DEF NameFree

LEMMA ResumeNamed ==
  ASSUME Inv, Named, NEW i \in Ids, ResumeDiscoverySync(i)
  PROVE  Named'
<1> DEFINE row == [stage[i] EXCEPT !.kept = FALSE]
<1>1. /\ stage[i] \in [host: Hosts, svc: Services \union {None}, name: Names, kept: BOOLEAN]
      /\ stage[i] # Absent /\ UserWrites(i, row)
  BY DEF Inv, TypeOK, Rows, ResumeDiscoverySync, Exists
<1>2. row \in Rows /\ row.host = stage[i].host /\ row.svc = stage[i].svc /\ row.name = stage[i].name
  BY <1>1 DEF Rows
<1> HIDE DEF row
<1>4. \A j \in Ids \ {i} : stage[j].name # row.name
  BY <1>1, <1>2 DEF Named, NamesDiffer
<1> QED
  BY <1>1, <1>2, <1>4, UserWritesNamed

LEMMA DeleteNamed ==
  ASSUME Inv, Named, NEW i \in Ids, Delete(i)
  PROVE  Named'
<1>1. Absent \in Rows /\ UserWrites(i, Absent)
  BY DEF Rows, Delete
<1> QED
  BY <1>1, UserWritesNamed

LEMMA CreateNamed ==
  ASSUME Inv, Named, NEW h \in Hosts, NEW name \in EditNames, CreateByHand(h, name)
  PROVE  Named'
<1> DEFINE row == Record(h, None, name, FALSE)
<1>1. PICK i \in Ids : UserWrites(i, row)
  BY DEF CreateByHand
<1>2. name \in Names
  BY DiscoveryAssumption
<1>3. row \in Rows /\ row.svc = None /\ row.name = name
  BY <1>2 DEF Rows, Record
<1>5. NameFree(name)
  BY DEF CreateByHand
<1> HIDE DEF row
<1> QED
  BY <1>1, <1>3, <1>5, UserWritesNamed DEF NameFree

LEMMA ScanNamed ==
  ASSUME Inv, Named, NEW d \in Scans, NEW h \in Hosts, Scan(d, h)
  PROVE  Named'
<1>1. PICK missed : payload' = [payload EXCEPT ![d] = Found(h, missed)]
  BY DEF Scan
<1>2. worker' = [worker EXCEPT ![d] = "scanned"] /\ host' = [host EXCEPT ![d] = h] /\ UNCHANGED <<stage, snap>>
  BY DEF Scan
<1>3. Detected(Found(h, missed)) \subseteq ToSet(Order[h])
  BY DEF Detected, Found
<1>4. ReportsOwn'
  <2> SUFFICES ASSUME NEW e \in Scans, worker'[e] # "idle"
               PROVE  Detected(payload'[e]) \subseteq ToSet(Order[host'[e]])
    BY DEF ReportsOwn
  <2>1. CASE e = d
    <3>1. payload'[e] = Found(h, missed) /\ host'[e] = h
      BY <1>1, <1>2, <2>1 DEF Inv, TypeOK
    <3> QED
      BY <1>3, <3>1
  <2>2. CASE e # d
    <3>1. payload'[e] = payload[e] /\ host'[e] = host[e] /\ worker'[e] = worker[e]
      BY <1>1, <1>2, <2>2 DEF Inv, TypeOK
    <3> QED
      BY <3>1 DEF Named, ReportsOwn
  <2> QED
    BY <2>1, <2>2
<1> QED
  BY <1>2, <1>4 DEF Named

LEMMA BeginSyncNamed ==
  ASSUME Inv, Named, NEW d \in Scans, BeginSync(d)
  PROVE  Named'
<1>1. /\ worker[d] = "scanned" /\ worker' = [worker EXCEPT ![d] = "open"]
      /\ snap' = [snap EXCEPT ![d] = stage] /\ UNCHANGED <<stage, host, payload>>
  BY DEF BeginSync
<1>3. ReportsOwn'
  BY <1>1 DEF Inv, TypeOK, Named, ReportsOwn
<1> QED
  BY <1>1, <1>3 DEF Named

\* The end of a transaction drops, with the worker, its report.
LEMMA CloseNamed ==
  ASSUME Inv, Named, NEW d \in Scans, NEW phase \in {"idle", "scanned"}, worker[d] = "open", Close(d, phase)
  PROVE  ReportsOwn'
<1>2. \A e \in Scans : worker'[e] # "idle" =>
         worker[e] # "idle" /\ host'[e] = host[e] /\ payload'[e] = payload[e]
  BY DEF Inv, TypeOK, Close
<1> QED
  BY <1>2 DEF Named, ReportsOwn

\* What is read of a commit.
LEMMA CommitReads ==
  ASSUME Inv, NEW d \in Scans, NEW broken \in SUBSET Detected(payload[d]), SyncCommits(d, broken)
  PROVE  /\ worker[d] = "open" /\ host[d] \in Hosts /\ Close(d, "idle") /\ stage \in [Ids -> Rows]
         /\ payload[d] \in [Services -> Bases \union {None}] /\ snap[d] \in [Ids -> Rows]
         /\ OneOf(host[d], snap[d]) /\ RoomIn(host[d], payload[d], snap[d]) /\ Fits(d)
<1>1. worker[d] = "open" /\ HasRoom(d) /\ Close(d, "idle")
  BY DEF SyncCommits
<1>2. host[d] \in Hosts /\ Fits(d) /\ payload[d] \in [Services -> Bases \union {None}]
      /\ snap[d] \in [Ids -> Rows] /\ stage \in [Ids -> Rows]
  BY <1>1 DEF Inv, Busy, SnapFits, TypeOK
<1> QED
  BY <1>1, <1>2 DEF Fits, HasRoom, RoomIn, Needing

LEMMA SyncCommitsNamed ==
  ASSUME Inv, Named, NEW d \in Scans, NEW broken \in SUBSET Detected(payload[d]), SyncCommits(d, broken)
  PROVE  Named'
<1> DEFINE sync == Synced(host[d], payload[d], snap[d], late[d], broken)
           gone == Pruned(host[d], payload[d], sync)
<1>1. stage' = After(sync, gone)
  BY DEF SyncCommits
<1>2. /\ worker[d] = "open" /\ host[d] \in Hosts /\ Close(d, "idle") /\ stage \in [Ids -> Rows]
      /\ payload[d] \in [Services -> Bases \union {None}] /\ snap[d] \in [Ids -> Rows]
      /\ OneOf(host[d], snap[d]) /\ RoomIn(host[d], payload[d], snap[d])
  BY CommitReads
<1>3. Sound(host[d], payload[d], snap[d], late[d], broken, sync)
  BY <1>2, SyncedIsSound
<1>4. Neat(sync)
  <2>1. NamesDiffer(stage)
    BY DEF Named
  <2> QED
    BY <1>2, <2>1, SyncedIsNeat
<1> HIDE DEF sync, gone
<1>5. \A i \in Ids : stage'[i] = IF i \in gone THEN Absent ELSE Current(sync)[i]
  BY <1>1 DEF After, Current
<1>6. \A i \in Ids : Current(sync)[i] \in Rows
  BY <1>2, <1>3 DEF Sound, Syncs, Current
<1>8. NamesDiffer(stage')
  <2> SUFFICES ASSUME NEW i \in Ids, NEW j \in Ids, stage'[i] # Absent, stage'[j].name = stage'[i].name
               PROVE  i = j
    BY DEF NamesDiffer
  <2>1. Current(sync)[i] # Absent /\ stage'[i] = Current(sync)[i]
    BY <1>5
  <2>2. stage'[i].name # None
    BY <1>6, <2>1, RowIs
  <2>3. stage'[j] = Current(sync)[j]
    BY <1>5, <2>2 DEF Absent
  <2> QED
    BY <1>4, <2>1, <2>3 DEF Neat, NamesDiffer
<1>9. ReportsOwn'
  BY <1>2, CloseNamed
<1> QED
  BY <1>8, <1>9 DEF Named

LEMMA CommitSyncNamed ==
  ASSUME Inv, Named, NEW d \in Scans, CommitSync(d)
  PROVE  Named'
BY SyncCommitsNamed DEF CommitSync

LEMMA FailSyncNamed ==
  ASSUME Inv, Named, NEW d \in Scans, FailSync(d)
  PROVE  Named'
<1>1. worker[d] = "open" /\ Close(d, AfterFailure(d)) /\ UNCHANGED stage
  BY DEF FailSync
<1>2. AfterFailure(d) \in {"idle", "scanned"}
  BY DEF AfterFailure
<1>3. ReportsOwn'
  BY <1>1, <1>2, CloseNamed
<1> QED
  BY <1>1, <1>3 DEF Named

LEMMA InitNamed == Init => Named
<1> SUFFICES ASSUME Init PROVE Named
  OBVIOUS
<1>1. stage = NoTable /\ \A d \in Scans : worker[d] = "idle"
  BY DEF Init
<1>2. NamesDiffer(NoTable)
  BY DEF NamesDiffer, NoTable
<1> QED
  BY <1>1, <1>2 DEF Named, ReportsOwn

LEMMA StepNamed ==
  ASSUME Inv, Named, [Next]_vars
  PROVE  Named'
<1>1. ASSUME NEW d \in Scans, (\E h \in Hosts : Scan(d, h)) \/ BeginSync(d) \/ CommitSync(d) \/ FailSync(d)
      PROVE  Named'
  BY <1>1, ScanNamed, BeginSyncNamed, CommitSyncNamed, FailSyncNamed
<1>2. ASSUME NEW i \in Ids,
             (\E name \in EditNames : EditName(i, name)) \/ ResumeDiscoverySync(i) \/ Delete(i)
      PROVE  Named'
  BY <1>2, EditNamed, ResumeNamed, DeleteNamed
<1>3. ASSUME NEW h \in Hosts, NEW name \in EditNames, CreateByHand(h, name) PROVE Named'
  BY <1>3, CreateNamed
<1>4. CASE UNCHANGED <<stage, worker, host, payload, snap>>
  BY <1>4 DEF Named, ReportsOwn
<1>5. ASSUME NEW s \in Services, NEW base \in Bases \union {None}, SiteChange(s, base) PROVE Named'
  BY <1>4, <1>5 DEF SiteChange
<1>6. ASSUME NEW r \in Ids \union Hosts, CronWrite(r) PROVE Named'
  BY <1>4, <1>6 DEF CronWrite
<1> QED
  BY <1>1, <1>2, <1>3, <1>4, <1>5, <1>6 DEF Next, vars

LEMMA QuietCommit ==
  ASSUME Inv, Named, NEW d \in Scans, NEW broken \in SUBSET Detected(payload[d]), SyncCommits(d, broken), late[d] = {}
  PROVE  MirrorsScan(host[d], payload[d], broken, stage, stage')
<1> DEFINE h == host[d]
           found == payload[d]
           sync == Synced(h, found, stage, {}, broken)
           v == sync.view
           N == Len(Order[h])
<1>1. /\ h \in Hosts /\ stage \in [Ids -> Rows] /\ found \in [Services -> Bases \union {None}]
      /\ snap[d] \in [Ids -> Rows] /\ OneOf(h, snap[d]) /\ RoomIn(h, found, snap[d]) /\ Fits(d)
      /\ worker[d] = "open"
  BY CommitReads
<1>2. snap[d] = stage
  BY <1>1 DEF Fits
<1>3. stage' = After(sync, Pruned(h, found, sync))
  BY <1>2 DEF SyncCommits
<1>4. Detected(found) \subseteq ToSet(Order[h])
  BY <1>1 DEF Named, ReportsOwn
<1> HIDE DEF h, found
<1>5. Sound(h, found, stage, {}, broken, sync)
  BY <1>1, <1>2, SyncedIsSound
<1>6. Done(h, found, broken, N, sync)
  BY <1>1, <1>2, QuietIsDone DEF Named
<1> HIDE DEF sync
<1>7. \A i \in Ids : stage'[i] = IF v[i].host = h /\ v[i].svc \notin Detected(found) THEN Absent ELSE v[i]
  BY <1>3, <1>5 DEF Sound, After, Pruned
<1>8. OneOf(h, v) /\ Absent.host # h
  BY <1>1, <1>5, DiscoveryAssumption DEF Sound, Absent, Bases
<1>9. ASSUME NEW s \in Detected(found) \ broken
      PROVE  \E i \in RecordsOf(h, s, v) : Agrees(found, v[i])
  <2>1. PICK m \in DOMAIN Order[h] : s = Order[h][m]
    BY <1>4 DEF ToSet
  <2>2. m \in 1..N
    BY <1>1, <2>1, UnitIs
  <2> QED
    BY <1>6, <2>1, <2>2 DEF Done
<1>10. ASSUME NEW s \in Services \ broken
       PROVE  Cardinality(RecordsOf(h, s, stage')) = IF s \in Detected(found) THEN 1 ELSE 0
  <2>1. CASE s \in Detected(found)
    <3>1. PICK i \in RecordsOf(h, s, v) : TRUE
      BY <1>9, <2>1
    <3>2. RecordsOf(h, s, stage') = RecordsOf(h, s, v)
      BY <1>7, <1>8, <2>1 DEF RecordsOf
    <3>3. RecordsOf(h, s, v) = {i}
      BY <1>8, <3>1 DEF OneOf
    <3> QED
      BY <2>1, <3>2, <3>3, FS_Singleton
  <2>2. CASE s \notin Detected(found)
    <3>1. RecordsOf(h, s, stage') = {}
      BY <1>7, <1>8, <2>2 DEF RecordsOf
    <3> QED
      BY <2>2, <3>1, FS_EmptySet
  <2> QED
    BY <2>1, <2>2
<1>11. ASSUME NEW i \in Ids, stage'[i].host = h, stage'[i].svc \notin broken
       PROVE  /\ stage'[i].svc # None
              /\ stage'[i].kept \/ stage'[i].name.base = found[stage'[i].svc]
  <2>1. stage'[i] = v[i] /\ v[i].host = h /\ v[i].svc \in Detected(found) \ broken
    BY <1>7, <1>8, <1>11
  <2>2. v[i].svc \in Services /\ v[i].svc # None
    BY <2>1, DiscoveryAssumption DEF Detected
  <2>3. PICK j \in RecordsOf(h, v[i].svc, v) : Agrees(found, v[j])
    BY <1>9, <2>1
  <2>4. i \in RecordsOf(h, v[i].svc, v)
    BY <2>1 DEF RecordsOf
  <2>5. i = j
    BY <1>8, <2>2, <2>3, <2>4 DEF OneOf
  <2> QED
    BY <2>1, <2>2, <2>3, <2>5 DEF Agrees
<1>12. ASSUME NEW s \in broken, NEW i \in RecordsOf(h, s, stage) \union RecordsOf(h, s, stage')
       PROVE  stage'[i] = stage[i]
  <2>1. i \in Ids /\ s \in Detected(found)
    BY DEF RecordsOf, found
  <2>2. ASSUME i \in sync.mine PROVE FALSE
    <3>1. /\ v[i].host = h /\ v[i].svc \in Detected(found) \ broken
          /\ stage[i] # Absent => stage[i].svc = v[i].svc
      BY <1>5, <2>2 DEF Sound
    <3>2. stage'[i] = v[i]
      BY <1>7, <2>1, <3>1
    <3>3. stage[i].svc # s
      <4>1. CASE stage[i] # Absent
        BY <3>1, <4>1
      <4>2. CASE stage[i] = Absent
        BY <2>1, <4>2, DiscoveryAssumption DEF Absent, Detected
      <4> QED
        BY <4>1, <4>2
    <3> QED
      BY <3>1, <3>2, <3>3 DEF RecordsOf
  <2>3. v[i] = stage[i]
    BY <1>5, <2>1, <2>2 DEF Sound
  <2>4. CASE i \in RecordsOf(h, s, stage)
    BY <1>7, <2>1, <2>3, <2>4 DEF RecordsOf
  <2>5. CASE i \in RecordsOf(h, s, stage')
    BY <1>7, <1>8, <2>1, <2>3, <2>5 DEF RecordsOf
  <2> QED
    BY <2>4, <2>5
<1>13. \A s \in Services : IF s \in broken
                           THEN \A i \in Ids : i \in RecordsOf(h, s, stage) \union RecordsOf(h, s, stage')
                                                => stage'[i] = stage[i]
                           ELSE Cardinality(RecordsOf(h, s, stage')) = IF s \in Detected(found) THEN 1 ELSE 0
  BY <1>10, <1>12
<1> QED
  BY <1>11, <1>13 DEF MirrorsScan, h, found

-----------------------------------------------------------------------------
(* The theorems.                                                           *)

LEMMA InitInv == Init => Inv
<1> SUFFICES ASSUME Init PROVE Inv
  OBVIOUS
<1>1. NoTable \in [Ids -> Rows] /\ NoPayload \in [Services -> Bases \union {None}]
  BY DEF NoTable, NoPayload, Rows
<1>2. site \in [Services -> Bases \union {None}]
  <2>1. \A s \in Services : HostOf(s) \in Bases
    BY HostOfIs DEF Bases
  <2>2. Domains \subseteq Bases
    BY DEF Bases
  <2> QED
    BY <2>1, <2>2 DEF Init
<1>3. budget \in Budget
  <2>1. /\ MaxChanges \in 0..MaxChanges /\ MaxEdits \in 0..MaxEdits /\ MaxCrons \in 0..MaxCrons
        /\ MaxMissed \in 0..MaxMissed /\ MaxBroken \in 0..MaxBroken /\ MaxEvents \in 0..MaxEvents
    BY DiscoveryAssumption
  <2> QED
    BY <2>1 DEF Init, Budget
<1>4. TypeOK
  <2>1. 0 \in 0..MaxAttempts
    BY DiscoveryAssumption
  <2> QED
    BY <1>1, <1>2, <1>3, <2>1 DEF Init, TypeOK, Budget
<1>5. OneEach
  <2> SUFFICES ASSUME NEW h \in Hosts, NEW s \in Services, NEW i \in RecordsOf(h, s, stage) PROVE FALSE
    BY DEF OneEach, OneOf
  <2>1. stage[i] = Absent /\ stage[i].host = h
    BY DEF Init, NoTable, RecordsOf
  <2> QED
    BY <2>1, AbsentIs
<1>6. Busy /\ SnapFits
  BY DEF Init, Busy, SnapFits
<1> QED
  BY <1>4, <1>5, <1>6 DEF Inv

LEMMA StepInv == Inv /\ [Next]_vars => Inv'
<1> SUFFICES ASSUME Inv, [Next]_vars PROVE Inv'
  OBVIOUS
<1>1. ASSUME NEW d \in Scans, (\E h \in Hosts : Scan(d, h)) \/ BeginSync(d) \/ CommitSync(d) \/ FailSync(d)
      PROVE  Inv'
  BY <1>1, ScanInv, BeginSyncInv, CommitSyncInv, FailSyncInv
<1>2. ASSUME NEW s \in Services, NEW base \in Bases \union {None}, SiteChange(s, base) PROVE Inv'
  BY <1>2, SiteChangeInv
<1>3. ASSUME NEW i \in Ids,
             (\E name \in EditNames : EditName(i, name)) \/ ResumeDiscoverySync(i) \/ Delete(i)
      PROVE  Inv'
  BY <1>3, EditNameInv, ResumeInv, DeleteInv
<1>4. ASSUME NEW h \in Hosts, NEW name \in EditNames, CreateByHand(h, name) PROVE Inv'
  BY <1>4, CreateByHandInv
<1>5. ASSUME NEW r \in Ids \union Hosts, CronWrite(r) PROVE Inv'
  BY <1>5, CronWriteInv
<1>6. CASE UNCHANGED vars
  BY <1>6 DEF vars, Inv, TypeOK, OneEach, Busy, SnapFits, Fits
<1> QED
  BY <1>1, <1>2, <1>3, <1>4, <1>5, <1>6 DEF Next

LEMMA AlwaysInv == Spec => []Inv
BY InitInv, StepInv, PTL DEF Spec

\* The variables keep their types, whatever the sync assigns and however the
\* discoveries overlap.
THEOREM TypeCorrect == Spec => []TypeOK
<1>1. Inv => TypeOK
  BY DEF Inv
<1> QED
  BY <1>1, AlwaysInv, PTL

\* No service of a host ever has two stages: of two syncs that would both create
\* one, the second has been overtaken on the row of the host and starts again.
THEOREM OnePerService == Spec => []OneStagePerService
<1>1. Inv => OneStagePerService
  <2> SUFFICES ASSUME Inv, NEW h \in Hosts, NEW s \in Services
               PROVE  Cardinality(RecordsOf(h, s, stage)) <= 1
    BY DEF OneStagePerService
  <2> DEFINE R == RecordsOf(h, s, stage)
  <2>1. \A i, j \in R : i = j
    BY DEF Inv, OneEach, OneOf
  <2> HIDE DEF R
  <2>2. R = {} \/ \E i : R = {i}
    BY <2>1
  <2>3. Cardinality({}) = 0 /\ \A i : Cardinality({i}) = 1
    BY FS_EmptySet, FS_Singleton
  <2>4. Cardinality(R) \in {0, 1}
    BY <2>2, <2>3, Zenon
  <2>5. Cardinality(R) <= 1
    BY <2>4
  <2> QED
    BY <2>5 DEF R
<1> QED
  BY <1>1, AlwaysInv, PTL

\* What a user typed survives every sync, also one that was under way when it was
\* typed.
THEOREM OverridesStick == Spec => OverrideSticks
<1> DEFINE Sticks == \A d \in Scans : CommitSync(d) =>
                        \A i \in Ids : Exists(i) /\ stage[i].kept => stage'[i] \in {stage[i], Absent}
<1>1. Inv /\ [Next]_vars => Sticks
  <2> SUFFICES ASSUME Inv, NEW d \in Scans, CommitSync(d), NEW i \in Ids, Exists(i), stage[i].kept
               PROVE  stage'[i] \in {stage[i], Absent}
    OBVIOUS
  <2>1. PICK broken, sync, gone : CommitSound(d, broken, sync, gone)
    BY CommitIs
  <2>2. Fits(d)
    BY CommitIs
  <2> QED
    BY <2>1, <2>2, CommitRows DEF Exists
<1> QED
  BY <1>1, AlwaysInv, PTL DEF Spec, OverrideSticks

\* A sync removes only records of its own host whose service the scan did not
\* report, whether or not it could sync those that it did.
THEOREM OnlyUnreportedPruned == Spec => DetectedNotPruned
<1> DEFINE Prunes == \A d \in Scans : CommitSync(d) =>
                        \A i \in Ids : Exists(i) /\ stage'[i] = Absent =>
                           stage[i].host = host[d] /\ stage[i].svc \notin Detected(payload[d])
<1>1. Inv /\ [Next]_vars => Prunes
  <2> SUFFICES ASSUME Inv, NEW d \in Scans, CommitSync(d), NEW i \in Ids, Exists(i), stage'[i] = Absent
               PROVE  stage[i].host = host[d] /\ stage[i].svc \notin Detected(payload[d])
    OBVIOUS
  <2>1. PICK broken, sync, gone : CommitSound(d, broken, sync, gone)
    BY CommitIs
  <2>2. Fits(d)
    BY CommitIs
  <2> QED
    BY <2>1, <2>2, CommitRows DEF Exists
<1> QED
  BY <1>1, AlwaysInv, PTL DEF Spec, DetectedNotPruned

\* A sync that no commit overtook mirrors the scan, although names must be unique
\* over all servers: every reported service has one record, named after what serves
\* it unless a user keeps its name, those whose repositories could not be recorded
\* keep the record they had, and no other record of the host is left.
THEOREM QuietMirrors == Spec => QuietSyncMirrorsScan
<1> DEFINE Mirrors == \A d \in Scans : late[d] = {} =>
                         \A broken \in SUBSET Detected(payload[d]) : SyncCommits(d, broken) =>
                            MirrorsScan(host[d], payload[d], broken, stage, stage')
<1>1. Inv /\ Named /\ [Next]_vars => Mirrors
  BY QuietCommit
<1>2. Inv /\ Named /\ [Next]_vars => Named'
  BY StepNamed
<1> QED
  BY <1>1, <1>2, InitNamed, AlwaysInv, PTL DEF Spec, QuietSyncMirrorsScan

=============================================================================
