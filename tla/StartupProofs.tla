---------------------------- MODULE StartupProofs ----------------------------
(***************************************************************************)
(* Proofs about Startup, for every seed and any number of faults.          *)
(*                                                                         *)
(* The argument: while the process seeds, the tables are as the seed would *)
(* leave them after some number of rows, with auto-increment in step with  *)
(* the literal ids, but for the users: starts that died before the first   *)
(* user was stored may have used up ids.  Once a user is stored and a      *)
(* fault ends the seeding, the tables stay as they are (Referring).  As    *)
(* long as no fault has hit the seeding no id was used up (Undisturbed).   *)
(***************************************************************************)
EXTENDS Startup, FiniteSetTheorems, TLAPS

IInv == TypeOK /\ (pc = "seeding" => next \in Rows)

\* How many of the first n rows belong to a table.
Among(n, table) == {j \in 1..n : SeedTables[j] = table}

\* How far the ids of a table are off if d user ids were used up.
Shift(d, table) == IF table = "users" THEN d ELSE 0

\* The tables after the first n rows of a seed that found d user ids used up.
SeededWith(n, d, ids, counters) ==
    /\ \A k \in Rows :
        ids[k] = IF k <= n THEN LiteralId(k) + Shift(d, SeedTables[k]) ELSE 0
    /\ \A table \in Tables :
        counters[table] = Cardinality(Among(n, table)) + Shift(d, table)

Seeded(n, d) == SeededWith(n, d, rowId, auto)

\* A start that finds the tables so has nothing more to seed.
Settled == Stored \cap SeededUsers # {} /\ LiteralIdsHold

Referring ==
    \/ pc = "seeding" /\ \E d \in Nat : Seeded(next - 1, d)
    \/ pc \notin {"seeding", "serving"} /\ \E d \in Nat : Seeded(0, d)
    \/ pc # "seeding" /\ Settled

Undisturbed ==
    \/ hurt
    \/ pc = "seeding" /\ Seeded(next - 1, 0)
    \/ pc # "seeding" /\ Seeded(Len(SeedTables), 0)
    \/ pc \notin {"seeding", "serving"} /\ Seeded(0, 0)

------------------------------------------------------------------------------

LEMMA RowsAreNumbered ==
    /\ Rows = 1..Len(SeedTables)
    /\ Len(SeedTables) \in Nat \ {0}
    /\ \A k \in Rows : SeedTables[k] \in Tables
BY SeedAssumption DEF Rows, Tables

LEMMA AmongFinite ==
    ASSUME NEW n \in Nat, NEW table
    PROVE  IsFiniteSet(Among(n, table)) /\ Cardinality(Among(n, table)) \in Nat
<1>1. IsFiniteSet(1..n)
  BY FS_Interval
<1>2. IsFiniteSet(Among(n, table))
  BY <1>1, FS_Subset DEF Among
<1>. QED
  BY <1>2, FS_CardinalityType

\* The next row of a table is one more among its rows.
LEMMA NextAmong ==
    ASSUME NEW k \in Rows, NEW table
    PROVE  Cardinality(Among(k, table)) =
            Cardinality(Among(k - 1, table)) + IF SeedTables[k] = table THEN 1 ELSE 0
<1>1. k \in Nat \ {0}
  BY RowsAreNumbered
<1>2. CASE SeedTables[k] = table
  <2>1. Among(k, table) = Among(k - 1, table) \cup {k} /\ k \notin Among(k - 1, table)
    BY <1>1, <1>2 DEF Among
  <2>2. k - 1 \in Nat
    BY <1>1
  <2>3. IsFiniteSet(Among(k - 1, table))
    BY <2>2, AmongFinite
  <2>4. Cardinality(Among(k - 1, table) \cup {k}) = Cardinality(Among(k - 1, table)) + 1
    BY <2>1, <2>3, FS_AddElement
  <2>. QED
    BY <1>2, <2>1, <2>4
<1>3. CASE SeedTables[k] # table
  <2>1. Among(k, table) = Among(k - 1, table)
    BY <1>1, <1>3 DEF Among
  <2>2. k - 1 \in Nat
    BY <1>1
  <2>3. Cardinality(Among(k - 1, table)) \in Nat
    BY <2>2, AmongFinite
  <2>. QED
    BY <1>3, <2>1, <2>3
<1>. QED
  BY <1>2, <1>3

LEMMA LiteralIds ==
    ASSUME NEW k \in Rows
    PROVE  LiteralId(k) \in Nat \ {0}
<1>1. LiteralId(k) = Cardinality(Among(k, SeedTables[k]))
  BY DEF LiteralId, Among
<1>2. k - 1 \in Nat
  BY RowsAreNumbered
<1>. QED
  BY <1>1, <1>2, NextAmong, AmongFinite

\* A seed has users, and they are its first rows.
LEMMA UsersComeFirst ==
    /\ 1 \in SeededUsers
    /\ \A k \in Rows \ SeededUsers, u \in SeededUsers : u < k
<1>1. PICK u \in SeededUsers : TRUE
  BY SeedAssumption DEF Tables, SeededUsers
<1>2. SeededUsers \subseteq Nat \ {0} /\ Rows \subseteq Nat
  BY RowsAreNumbered DEF SeededUsers
<1>3. 1 \in SeededUsers
  BY <1>1, <1>2, UsersFirstAssumption
<1>4. ASSUME NEW k \in Rows \ SeededUsers, NEW v \in SeededUsers
      PROVE  v < k
  <2>1. 1..v \subseteq SeededUsers /\ v \in Nat /\ k \in Nat \ {0}
    BY <1>2, UsersFirstAssumption, RowsAreNumbered
  <2>. QED
    BY <2>1
<1>. QED
  BY <1>3, <1>4

\* The first argument above, on types, holds initially and survives every step.
THEOREM Invariance == Spec => []IInv
<1>. USE RowsAreNumbered
<1>1. Init => IInv
  <2>. SUFFICES ASSUME Init PROVE IInv
    OBVIOUS
  <2>1. /\ pc \in Phases /\ pc # "seeding" /\ hurt \in BOOLEAN
        /\ next \in 1..(Len(SeedTables) + 1) /\ faults \in 0..MaxFaults
    <3>1. pc = "down" /\ next = 1 /\ faults = 0 /\ hurt = FALSE
      BY DEF Init
    <3>2. 1 \in 1..(Len(SeedTables) + 1) /\ 0 \in 0..MaxFaults
      BY SeedAssumption
    <3>. QED
      BY <3>1, <3>2 DEF Phases
  <2>2. rowId \in [Rows -> Nat]
    BY LiteralIds DEF Init
  <2>3. auto \in [Tables -> Nat]
    <3>. DEFINE Count(table) == Cardinality({k \in Rows : SeedTables[k] = table})
    <3>1. \A table : Count(table) \in Nat
      BY AmongFinite DEF Among
    <3>2. \/ auto = [table \in Tables |-> 0]
          \/ auto = [table \in Tables |-> Count(table)]
      BY DEF Init
    <3>. HIDE DEF Count
    <3>. QED
      BY <3>1, <3>2
  <2>. QED
    BY <2>1, <2>2, <2>3 DEF IInv, TypeOK
<1>2. ASSUME IInv, [Next]_vars
      PROVE  IInv'
  <2>1. CASE Start \/ Migrate \/ CountUsers \/ UNCHANGED vars
    BY <1>2, <2>1 DEF Start, Migrate, CountUsers, vars, IInv, TypeOK, Phases
  <2>2. ASSUME Store, pc = "seeding"
        PROVE  rowId' \in [Rows -> Nat] /\ auto' \in [Tables -> Nat]
    BY <1>2, <2>2 DEF Store, IInv, TypeOK
  <2>3. CASE InsertRow
    BY <1>2, <2>2, <2>3 DEF InsertRow, IInv, TypeOK, Phases
  <2>4. CASE Fault
    <3>1. rowId' \in [Rows -> Nat] /\ auto' \in [Tables -> Nat]
      BY <1>2, <2>2, <2>4 DEF Fault, IInv, TypeOK
    <3>. QED
      BY <1>2, <2>4, <3>1, SeedAssumption DEF Fault, IInv, TypeOK, Phases
  <2>. QED
    BY <1>2, <2>1, <2>3, <2>4 DEF Next, Step
<1>. QED
  BY <1>1, <1>2, PTL DEF Spec

\* The process, the tables and the counters keep their types.
THEOREM TypeCorrect == Spec => []TypeOK
<1>1. IInv => TypeOK
  BY DEF IInv
<1>. QED
  BY <1>1, Invariance, PTL

------------------------------------------------------------------------------
(* The seed as a whole. *)

\* The seeded rows are those with an id.
LEMMA SeededStored ==
    ASSUME NEW n \in Nat, NEW d \in Nat, Seeded(n, d)
    PROVE  Stored = {k \in Rows : k <= n}
BY LiteralIds DEF Seeded, SeededWith, Shift, Stored

\* One more row keeps auto-increment in step with the literal ids.
LEMMA SeededNext ==
    ASSUME TypeOK, next \in Rows, NEW d \in Nat, Seeded(next - 1, d), Store
    PROVE  SeededWith(next, d, rowId', auto')
<1>. DEFINE t == SeedTables[next]
<1>1. next \in Nat \ {0} /\ t \in Tables
  BY RowsAreNumbered
<1>2. auto[t] + 1 = LiteralId(next) + Shift(d, t)
  <2>1. LiteralId(next) = Cardinality(Among(next, t))
    BY DEF LiteralId, Among
  <2>2. Cardinality(Among(next, t)) = Cardinality(Among(next - 1, t)) + 1
    BY NextAmong
  <2>3. auto[t] = Cardinality(Among(next - 1, t)) + Shift(d, t)
    BY <1>1 DEF Seeded, SeededWith
  <2>4. Cardinality(Among(next - 1, t)) \in Nat /\ Shift(d, t) \in Nat
    BY <1>1, AmongFinite DEF Shift
  <2>. QED
    BY <2>1, <2>2, <2>3, <2>4
<1>3. ASSUME NEW k \in Rows
      PROVE  rowId'[k] = IF k <= next THEN LiteralId(k) + Shift(d, SeedTables[k]) ELSE 0
  BY <1>1, <1>2, RowsAreNumbered DEF TypeOK, Store, Seeded, SeededWith
<1>4. ASSUME NEW table \in Tables
      PROVE  auto'[table] = Cardinality(Among(next, table)) + Shift(d, table)
  <2>1. auto'[table] = auto[table] + IF table = t THEN 1 ELSE 0
    BY <1>1 DEF TypeOK, Store
  <2>2. auto[table] = Cardinality(Among(next - 1, table)) + Shift(d, table)
    BY DEF Seeded, SeededWith
  <2>3. Cardinality(Among(next - 1, table)) \in Nat /\ Shift(d, table) \in Nat
    BY <1>1, AmongFinite DEF Shift
  <2>. QED
    BY <2>1, <2>2, <2>3, NextAmong
<1>. QED
  BY <1>3, <1>4 DEF SeededWith

\* The tables of a database that is empty, and of one that init.sql filled.
LEMMA SeededAtFirst ==
    ASSUME Init
    PROVE  Seeded(0, 0) \/ Seeded(Len(SeedTables), 0)
<1>. USE RowsAreNumbered
<1>1. CASE /\ rowId = [k \in Rows |-> 0]
           /\ auto = [table \in Tables |-> 0]
  <2>1. ASSUME NEW table PROVE Cardinality(Among(0, table)) = 0
    <3>1. Among(0, table) = {}
      BY DEF Among
    <3>. QED
      BY <3>1, FS_EmptySet
  <2>. QED
    BY <1>1, <2>1 DEF Seeded, SeededWith, Shift
<1>2. CASE /\ rowId = [k \in Rows |-> LiteralId(k)]
           /\ auto = [table \in Tables |->
                          Cardinality({k \in Rows : SeedTables[k] = table})]
  <2>1. ASSUME NEW table \in Tables
        PROVE  /\ auto[table] = Cardinality(Among(Len(SeedTables), table))
               /\ auto[table] \in Nat
    BY <1>2, AmongFinite DEF Among
  <2>. QED
    BY <1>2, <2>1, LiteralIds DEF Seeded, SeededWith, Shift
<1>. QED
  BY <1>1, <1>2 DEF Init

\* In such tables the literal ids are right, but for the user ids used up: a
\* row that names another comes after every user.
LEMMA SeededRefers ==
    ASSUME NEW n \in 0..Len(SeedTables), NEW d \in Nat, Seeded(n, d)
    PROVE  LiteralIdsHold
<1>. SUFFICES ASSUME NEW k \in Stored, RefersTo[k] # k
              PROVE  rowId[RefersTo[k]] = LiteralId(RefersTo[k])
                        + IF RefersTo[k] \in SeededUsers THEN UserIdsLost ELSE 0
  BY DEF LiteralIdsHold
<1>. DEFINE named == RefersTo[k]
<1>1. k \in Rows /\ k <= n
  BY SeededStored
<1>2. named \in Rows /\ named <= n
  BY <1>1, RowsAreNumbered, ReferenceAssumption
<1>3. rowId[named] = LiteralId(named) + Shift(d, SeedTables[named])
  BY <1>2 DEF Seeded, SeededWith
<1>4. UserIdsLost = d
  <2>1. \A u \in SeededUsers : u < k
    BY <1>1, UsersFirstAssumption, UsersComeFirst
  <2>2. Among(n, "users") = SeededUsers
    BY <1>1, <2>1, RowsAreNumbered DEF Among, SeededUsers
  <2>3. auto["users"] = Cardinality(SeededUsers) + d
    BY <2>2, SeedAssumption DEF Seeded, SeededWith, Shift
  <2>4. Cardinality(SeededUsers) \in Nat
    <3>1. n \in Nat
      BY RowsAreNumbered
    <3>. QED
      BY <2>2, <3>1, AmongFinite
  <2>. QED
    BY <2>3, <2>4 DEF UserIdsLost
<1>. QED
  BY <1>2, <1>3, <1>4 DEF Shift, SeededUsers

\* As soon as a first row is in its table, there is a user.
LEMMA SeededSettles ==
    (\E n \in 1..Len(SeedTables), d \in Nat : Seeded(n, d)) => Settled
<1>. SUFFICES ASSUME NEW n \in 1..Len(SeedTables), NEW d \in Nat, Seeded(n, d)
              PROVE  Settled
  OBVIOUS
<1>1. 1 \in Stored
  BY SeededStored, UsersComeFirst, RowsAreNumbered DEF SeededUsers
<1>. QED
  BY <1>1, SeededRefers, UsersComeFirst, RowsAreNumbered DEF Settled

LEMMA SeededSettlesNext ==
    (\E n \in 1..Len(SeedTables), d \in Nat : Seeded(n, d)') => Settled'
<1>1. (\E n \in 1..Len(SeedTables), d \in Nat : Seeded(n, d))' => Settled'
  BY SeededSettles, PTL
<1>. QED
  BY <1>1

\* An insert that only uses up an id leaves the references as they were.
LEMMA IdUsedUp ==
    ASSUME TypeOK, next \in Rows, NEW d \in Nat, Seeded(next - 1, d),
           UNCHANGED rowId,
           auto' = [auto EXCEPT ![SeedTables[next]] = @ + 1]
    PROVE  (\E e \in Nat : SeededWith(0, e, rowId', auto')) \/ Settled'
<1>. USE RowsAreNumbered
<1>1. CASE next = 1
  <2>1. SeedTables[1] = "users"
    BY UsersComeFirst DEF SeededUsers
  <2>2. SeededWith(0, d + 1, rowId', auto')
    <3>1. ASSUME NEW table \in Tables
          PROVE  auto'[table] = Cardinality(Among(0, table)) + Shift(d + 1, table)
      <4>1. auto[table] = Cardinality(Among(0, table)) + Shift(d, table)
        BY <1>1 DEF Seeded, SeededWith
      <4>2. Cardinality(Among(0, table)) \in Nat
        BY AmongFinite
      <4>3. auto'[table] = auto[table] + IF table = "users" THEN 1 ELSE 0
        BY <1>1, <2>1 DEF TypeOK
      <4>. QED
        BY <4>1, <4>2, <4>3 DEF Shift
    <3>. QED
      BY <1>1, <3>1 DEF Seeded, SeededWith
  <2>. QED
    BY <2>2
<1>2. CASE next # 1
  <2>1. next - 1 \in 1..Len(SeedTables)
    BY <1>2
  <2>2. Settled
    BY <2>1, SeededSettles
  <2>3. LiteralIdsHold'
    <3>1. CASE next \in SeededUsers
      <4>1. \A k \in Stored : RefersTo[k] = k
        BY <2>1, <3>1, SeededStored, UsersFirstAssumption
      <4>. QED
        BY <4>1 DEF LiteralIdsHold, Stored
    <3>2. CASE next \notin SeededUsers
      <4>1. auto'["users"] = auto["users"]
        BY <3>2, SeedAssumption DEF SeededUsers, TypeOK
      <4>. QED
        BY <2>2, <4>1 DEF Settled, LiteralIdsHold, UserIdsLost, Stored
    <3>. QED
      BY <3>1, <3>2
  <2>. QED
    BY <2>2, <2>3 DEF Settled, Stored
<1>. QED
  BY <1>1, <1>2

\* A start that finds a user, or a fault outside the seeding, changes nothing.
LEMMA SettledKept ==
    ASSUME UNCHANGED <<rowId, auto>>
    PROVE  /\ Settled => Settled'
           /\ \A n, d : Seeded(n, d) => Seeded(n, d)'
BY DEF Settled, Stored, LiteralIdsHold, UserIdsLost, Seeded, SeededWith

\* The argument on references holds initially and survives every step.
THEOREM References == Spec => []Referring
<1>. USE RowsAreNumbered
<1>1. Init => Referring
  <2>. SUFFICES ASSUME Init PROVE Referring
    OBVIOUS
  <2>1. CASE Seeded(0, 0)
    BY <2>1 DEF Init, Referring
  <2>2. CASE Seeded(Len(SeedTables), 0)
    <3>1. Settled
      BY <2>2, SeededSettles
    <3>. QED
      BY <3>1 DEF Init, Referring
  <2>. QED
    BY <2>1, <2>2, SeededAtFirst
<1>2. ASSUME IInv, Referring, [Next]_vars
      PROVE  Referring'
  <2>1. CASE Start \/ Migrate \/ UNCHANGED vars
    BY <1>2, <2>1, SettledKept DEF Start, Migrate, vars, Referring
  <2>2. CASE CountUsers
    <3>1. ASSUME NEW d \in Nat, Seeded(0, d)
          PROVE  Referring'
      <4>1. Stored = {}
        BY <3>1, SeededStored
      <4>2. pc' = "seeding" /\ next' - 1 = 0
        BY <2>2, <4>1 DEF CountUsers, MustSeed
      <4>. QED
        BY <2>2, <3>1, <4>2, SettledKept DEF CountUsers, Referring
    <3>2. CASE Settled
      BY <2>2, <3>2, SettledKept DEF CountUsers, MustSeed, Settled, Referring
    <3>. QED
      BY <1>2, <2>2, <3>1, <3>2 DEF CountUsers, Referring
  <2>3. ASSUME pc = "seeding", Store
        PROVE  \E d \in Nat : SeededWith(next, d, rowId', auto')
    BY <1>2, <2>3, SeededNext DEF IInv, Referring
  <2>4. ASSUME pc = "seeding", Store
        PROVE  Settled'
    <3>1. \E n \in 1..Len(SeedTables), d \in Nat : SeededWith(n, d, rowId', auto')
      BY <1>2, <2>3, <2>4 DEF IInv
    <3>2. \E n \in 1..Len(SeedTables), d \in Nat : Seeded(n, d)'
      BY <3>1 DEF Seeded
    <3>. QED
      BY <3>2, SeededSettlesNext
  <2>5. CASE InsertRow
    <3>1. CASE next = Len(SeedTables)
      BY <2>4, <2>5, <3>1 DEF InsertRow, Referring
    <3>2. CASE next # Len(SeedTables)
      <4>1. pc' = "seeding" /\ next' - 1 = next
        BY <1>2, <2>5, <3>2 DEF InsertRow, IInv
      <4>. QED
        BY <2>3, <2>5, <4>1 DEF InsertRow, Referring, Seeded
    <3>. QED
      BY <3>1, <3>2
  <2>6. CASE Fault
    <3>1. pc' = "down"
      BY <2>6 DEF Fault
    <3>2. CASE pc = "seeding" /\ Store
      BY <2>4, <3>1, <3>2 DEF Referring
    <3>3. CASE /\ pc = "seeding"
               /\ auto' = [auto EXCEPT ![SeedTables[next]] = @ + 1]
               /\ UNCHANGED rowId
      <4>1. (\E e \in Nat : Seeded(0, e)') \/ Settled'
        BY <1>2, <3>3, IdUsedUp DEF IInv, Referring, Seeded
      <4>. QED
        BY <3>1, <4>1 DEF Referring
    <3>4. CASE UNCHANGED <<rowId, auto>>
      <4>1. CASE pc = "seeding"
        <5>1. PICK d \in Nat : Seeded(next - 1, d)
          BY <1>2, <4>1 DEF Referring
        <5>2. CASE next = 1
          BY <3>1, <3>4, <5>1, <5>2, SettledKept DEF Referring
        <5>3. CASE next # 1
          BY <1>2, <3>1, <3>4, <4>1, <5>1, <5>3, SeededSettles, SettledKept
             DEF IInv, Referring
        <5>. QED
          BY <5>2, <5>3
      <4>2. CASE pc # "seeding"
        BY <1>2, <3>1, <3>4, <4>2, SettledKept DEF Referring
      <4>. QED
        BY <4>1, <4>2
    <3>. QED
      BY <2>6, <3>2, <3>3, <3>4 DEF Fault
  <2>. QED
    BY <1>2, <2>1, <2>2, <2>5, <2>6 DEF Next, Step
<1>. QED
  BY <1>1, <1>2, Invariance, PTL DEF Spec

\* However the start is cut short and repeated, a literal id in a stored row is
\* that of the row it is meant to name, except that user ids are off by the
\* number of ids used up before the first user (the order of the inserts, and
\* the count of users, in Seed).
THEOREM ReferencesHold == Spec => []LiteralIdsHold
<1>1. ASSUME IInv, Referring
      PROVE  LiteralIdsHold
  <2>1. CASE pc = "seeding"
    <3>1. next - 1 \in 0..Len(SeedTables)
      BY <1>1, <2>1, RowsAreNumbered DEF IInv
    <3>. QED
      BY <1>1, <2>1, <3>1, SeededRefers DEF Referring
  <2>2. CASE pc # "seeding"
    BY <1>1, <2>2, SeededRefers, RowsAreNumbered DEF Referring, Settled
  <2>. QED
    BY <2>1, <2>2
<1>. QED
  BY <1>1, References, Invariance, PTL

\* The argument on undisturbed seeds holds initially and survives every step.
THEOREM SeedingUndisturbed == Spec => []Undisturbed
<1>. USE RowsAreNumbered
<1>1. Init => Undisturbed
  BY SeededAtFirst DEF Init, Undisturbed
<1>2. ASSUME IInv, Undisturbed, [Next]_vars
      PROVE  Undisturbed'
  <2>1. CASE Start \/ Migrate \/ UNCHANGED vars
    BY <1>2, <2>1 DEF Start, Migrate, vars, Undisturbed, Seeded, SeededWith
  <2>2. CASE CountUsers
    <3>1. CASE hurt
      BY <2>2, <3>1 DEF CountUsers, Undisturbed
    <3>2. CASE Seeded(0, 0)
      <4>1. Stored = {}
        BY <3>2, SeededStored
      <4>2. pc' = "seeding" /\ next' - 1 = 0
        BY <2>2, <4>1 DEF CountUsers, MustSeed
      <4>. QED
        BY <2>2, <3>2, <4>2 DEF CountUsers, Undisturbed, Seeded, SeededWith
    <3>3. CASE Seeded(Len(SeedTables), 0)
      <4>1. Stored = Rows
        BY <3>3, SeededStored
      <4>2. PICK k \in Rows : SeedTables[k] = "users"
        BY SeedAssumption DEF Tables
      <4>3. pc' = "serving"
        BY <2>2, <4>1, <4>2 DEF CountUsers, MustSeed, SeededUsers
      <4>. QED
        BY <2>2, <3>3, <4>3 DEF CountUsers, Undisturbed, Seeded, SeededWith
    <3>. QED
      BY <1>2, <2>2, <3>1, <3>2, <3>3 DEF CountUsers, Undisturbed
  <2>3. CASE InsertRow
    <3>1. CASE hurt
      BY <2>3, <3>1 DEF InsertRow, Undisturbed
    <3>2. CASE Seeded(next - 1, 0)
      <4>1. SeededWith(next, 0, rowId', auto') /\ next' - 1 = next
        BY <1>2, <2>3, <3>2, SeededNext DEF InsertRow, IInv
      <4>2. CASE next = Len(SeedTables)
        <5>1. pc' = "serving"
          BY <2>3, <4>2 DEF InsertRow
        <5>. QED
          BY <4>1, <4>2, <5>1 DEF Undisturbed, Seeded
      <4>3. CASE next # Len(SeedTables)
        <5>1. pc' = "seeding"
          BY <2>3, <4>3 DEF InsertRow
        <5>. QED
          BY <4>1, <5>1 DEF Undisturbed, Seeded
      <4>. QED
        BY <4>2, <4>3
    <3>. QED
      BY <1>2, <2>3, <3>1, <3>2 DEF InsertRow, Undisturbed
  <2>4. CASE Fault
    <3>1. CASE hurt'
      BY <3>1 DEF Undisturbed
    <3>2. CASE ~hurt'
      <4>1. /\ ~hurt /\ pc # "seeding" /\ pc' = "down"
            /\ UNCHANGED <<rowId, auto>>
        BY <1>2, <2>4, <3>2 DEF Fault, IInv, TypeOK
      <4>. QED
        BY <1>2, <4>1 DEF Undisturbed, Seeded, SeededWith
    <3>. QED
      BY <3>1, <3>2
  <2>. QED
    BY <1>2, <2>1, <2>2, <2>3, <2>4 DEF Next, Step
<1>. QED
  BY <1>1, <1>2, Invariance, PTL DEF Spec

\* A process that serves, and whose seeding no fault has hit, has all of its
\* preset data, each row under the literal id by which the others name it
\* (the count in Seed that lets a start skip the seed).
THEOREM PresetDataWhole == Spec => []SeedWhole
<1>1. ASSUME Undisturbed PROVE SeedWhole
  <2>1. SUFFICES ASSUME pc = "serving", ~hurt
                 PROVE  /\ Stored = Rows
                        /\ \A k \in Rows : rowId[RefersTo[k]] = LiteralId(RefersTo[k])
    BY DEF SeedWhole
  <2>2. Seeded(Len(SeedTables), 0)
    BY <1>1, <2>1 DEF Undisturbed
  <2>3. Stored = Rows
    <3>1. Stored = {k \in Rows : k <= Len(SeedTables)}
      BY <2>2, SeededStored, RowsAreNumbered
    <3>. QED
      BY <3>1, RowsAreNumbered
  <2>4. ASSUME NEW k \in Rows
        PROVE  rowId[RefersTo[k]] = LiteralId(RefersTo[k])
    <3>1. RefersTo[k] \in Rows
      BY SeedAssumption
    <3>. QED
      BY <2>2, <3>1, RowsAreNumbered, LiteralIds DEF Seeded, SeededWith, Shift
  <2>. QED
    BY <2>3, <2>4
<1>. QED
  BY <1>1, SeedingUndisturbed, PTL

==============================================================================
