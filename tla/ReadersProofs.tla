---------------------------- MODULE ReadersProofs ----------------------------
(***************************************************************************)
(* Proofs about those who read while others write: the dashboards and      *)
(* lists of Reports, and the tab of WebClient, for any number of rows,     *)
(* pages, months, requests in flight and sessions.                         *)
(*                                                                         *)
(* The arguments.  Of a dashboard: there is one set of incidents that its  *)
(* distribution is of, and whatever is read later was in it or is noted as *)
(* arrived since (Accounted); every inspection was there when a count was  *)
(* taken, or is noted as created since (CountedOrNew); year and month are  *)
(* read from a clock that only goes on (ClockReadInOrder).  Of a list: a   *)
(* row not seen yet has as many rows ahead of it as pages were turned      *)
(* (SeenOrAhead), and an untied row has one position in every order        *)
(* (Position).  Of the tab: the dialog of a user who waits awaits one      *)
(* answer at a time, which brings the truth or leaves what was shown       *)
(* (OneAwaited); what is acknowledged has been written (ToldOfWrites); and *)
(* a request that nothing has left behind is of the session there is       *)
(* (OwnSession).                                                           *)
(***************************************************************************)
EXTENDS Reports, WebClient, FiniteSetTheorems, TLAPS

------------------------------------------------------------------------------
(* Reports: the invariant. *)

\* A dashboard is being read, or a list.
Gathering == read # NoRead /\ read.kind = "stats"
Turning == read # NoRead /\ read.kind = "list"

\* Year and month are read in this order from a clock that only goes on.
ClockReadInOrder ==
    Gathering =>
        /\ read.since <= now
        /\ read.step > 5 => Year(read.since) <= read.got.year /\ read.got.year <= Year(now)
        /\ read.step > 6 =>
            \E t \in read.since..now :
                /\ read.got.year <= Year(t)
                /\ read.got.window = Window(read.got.year, t)

\* The incidents a distribution is a distribution of.
Covers(D, got) ==
    /\ \A v \in Severities : got.distribution[v] = Cardinality(OfSeverity(D, v))
    /\ got.trend <= Cardinality(D)

\* Incidents are never unreported: whatever is read of them after the
\* distribution was there before it or has arrived since.
Accounted ==
    Gathering =>
        /\ read.step = 2 => read.got.trend <= Cardinality(Reported)
        /\ read.step > 2 =>
            \E D \in SUBSET Incidents :
                /\ Covers(D, read.got)
                /\ Reported \subseteq D \cup read.arrived
                /\ read.step > 3 => read.got.pending \ read.arrived \subseteq D

\* Inspections are never deleted and keep their month: but for what has been
\* created since a count, there is no more now than there was then.
CountedOrNew ==
    Gathering =>
        /\ read.step \in 5..7 => Cardinality(Planned \ read.newer) <= read.got.all
        /\ read.step > 7 => read.got.created <= read.got.all + Cardinality(read.newer)
        /\ read.step = 8 =>
            Cardinality(CreatedIn(read.got.window) \ read.newest) <= read.got.created
        /\ read.step > 8 => read.got.completed <=
            read.got.created + Cardinality(CompletedIn(read.got.window) \cap read.newest)

\* The rows that any order puts before this one.
Ahead(ids, id) == {j \in ids : OccurredAt[j] > OccurredAt[id]}

\* The rows of the list that is read, as it is now.
Match == Matching(incidents, read.filter)

\* A row not seen yet still has as many rows ahead of it as were turned over.
SeenOrAhead ==
    Turning /\ ~read.shrank =>
        /\ read.stayed \subseteq Match
        /\ read.phase # "done" =>
            \A id \in read.stayed : Untied(id) =>
                \/ id \in read.seen
                \/ (read.page - 1) * PageSize <= Cardinality(Ahead(Match, id))
        /\ read.phase = "select" /\ ~read.pushed => read.total = Cardinality(Match)

ReportsInv ==
    /\ TypeOK /\ ClockReadInOrder /\ Accounted /\ CountedOrNew /\ SeenOrAhead
    /\ PagesComplete

------------------------------------------------------------------------------
(* Years and months. *)

\* A month is its year and its place in the year put together.
LEMMA Calendar ==
    ASSUME NEW t \in Nat
    PROVE  /\ Year(t) \in Nat /\ t % MonthsPerYear \in Nat
           /\ t = Window(Year(t), t)
<1>1. MonthsPerYear \in Nat \ {0}
  BY ReportsAssumption
<1>2. t = (t \div MonthsPerYear) * MonthsPerYear + (t % MonthsPerYear)
  BY <1>1
<1>3. t % MonthsPerYear \in 0..(MonthsPerYear - 1) /\ t \div MonthsPerYear \in Nat
  BY <1>1
<1>. QED
  BY <1>2, <1>3 DEF Year, Window

\* A later month is of no earlier year.
LEMMA YearsInOrder ==
    ASSUME NEW t \in Nat, NEW u \in Nat, t <= u
    PROVE  Year(t) <= Year(u)
<1>1. MonthsPerYear \in Nat \ {0}
  BY ReportsAssumption
<1>. DEFINE y == Year(t)
            z == Year(u)
            k == t % MonthsPerYear
            l == u % MonthsPerYear
<1>2. /\ y \in Nat /\ z \in Nat /\ k \in 0..(MonthsPerYear - 1) /\ l \in 0..(MonthsPerYear - 1)
      /\ t = y * MonthsPerYear + k /\ u = z * MonthsPerYear + l
  <2>1. k \in 0..(MonthsPerYear - 1) /\ l \in 0..(MonthsPerYear - 1)
    BY <1>1
  <2>2. /\ y \in Nat /\ z \in Nat
        /\ t = y * MonthsPerYear + k /\ u = z * MonthsPerYear + l
    BY Calendar DEF Window
  <2>. QED
    BY <2>1, <2>2
<1>. HIDE DEF y, z, k, l
<1>3. ASSUME z < y PROVE FALSE
  <2>1. z * MonthsPerYear + MonthsPerYear <= y * MonthsPerYear
    BY <1>1, <1>2, <1>3
  <2>2. z * MonthsPerYear \in Nat /\ y * MonthsPerYear \in Nat
    BY <1>1, <1>2
  <2>. QED
    BY <1>1, <1>2, <2>1, <2>2
<1>. QED
  BY <1>2, <1>3 DEF y, z

\* A month the rate may be of: no later than the clock.
LEMMA WindowInTime ==
    ASSUME NEW year \in Nat, NEW t \in Nat, year <= Year(t)
    PROVE  Window(year, t) \in 0..t
<1>1. MonthsPerYear \in Nat \ {0}
  BY ReportsAssumption
<1>2. year * MonthsPerYear <= Year(t) * MonthsPerYear
  BY <1>1, Calendar
<1>3. year * MonthsPerYear \in Nat /\ Year(t) * MonthsPerYear \in Nat
  BY <1>1, Calendar
<1>. QED
  BY <1>2, <1>3, Calendar DEF Window

------------------------------------------------------------------------------
(* Counting. *)

\* Sets of incidents can be counted, and a smaller one has no more.
LEMMA Counted ==
    ASSUME NEW ids \in SUBSET Incidents, NEW more \in SUBSET Incidents, ids \subseteq more
    PROVE  /\ IsFiniteSet(ids) /\ Cardinality(ids) \in Nat /\ Cardinality(more) \in Nat
           /\ Cardinality(ids) <= Cardinality(more)
<1>1. IsFiniteSet(Incidents)
  BY ReportsAssumption
<1>2. IsFiniteSet(ids) /\ IsFiniteSet(more)
  BY <1>1, FS_Subset
<1>. QED
  BY <1>2, FS_Subset, FS_CardinalityType

\* The same of inspections.
LEMMA CountedPlans ==
    ASSUME NEW plans \in SUBSET Inspections, NEW more \in SUBSET Inspections,
           plans \subseteq more
    PROVE  /\ Cardinality(plans) \in Nat /\ Cardinality(more) \in Nat
           /\ Cardinality(plans) <= Cardinality(more)
<1>1. IsFiniteSet(Inspections)
  BY ReportsAssumption
<1>2. IsFiniteSet(plans) /\ IsFiniteSet(more)
  BY <1>1, FS_Subset
<1>. QED
  BY <1>2, FS_Subset, FS_CardinalityType

\* Some inspections, and the others.
LEMMA SplitPlans ==
    ASSUME NEW plans \in SUBSET Inspections, NEW part \in SUBSET Inspections
    PROVE  /\ Cardinality(plans) = Cardinality(plans \ part) + Cardinality(plans \cap part)
           /\ {Cardinality(plans), Cardinality(plans \ part), Cardinality(plans \cap part),
               Cardinality(part)} \subseteq Nat
           /\ Cardinality(plans \cap part) <= Cardinality(part)
<1>1. IsFiniteSet(plans) /\ Cardinality(plans) \in Nat
  BY CountedPlans, ReportsAssumption, FS_Subset
<1>2. Cardinality(plans \ part) = Cardinality(plans) - Cardinality(plans \cap part)
  BY <1>1, FS_Difference
<1>3. /\ plans \ part \in SUBSET Inspections /\ plans \cap part \in SUBSET Inspections
      /\ plans \cap part \subseteq part
  OBVIOUS
<1>. QED
  BY <1>1, <1>2, <1>3, CountedPlans

\* The bars of a distribution hold as many points as it counts incidents.
LEMMA TotalCounts ==
    ASSUME NEW D \in SUBSET Incidents, NEW distribution \in [Severities -> Nat],
           \A v \in Severities : distribution[v] = Cardinality(OfSeverity(D, v))
    PROVE  Total(distribution) \in Nat /\ Cardinality(D) <= Total(distribution)
<1>. DEFINE n == Cardinality(Incidents)
            points == {point \in Severities \X (1..n) : point[2] <= distribution[point[1]]}
            numbering == [v \in Severities |->
                CHOOSE f \in Bijection(1..distribution[v], OfSeverity(D, v)) : TRUE]
            place(id) == CHOOSE k \in 1..distribution[SeverityOf[id]] :
                            numbering[SeverityOf[id]][k] = id
            point == [id \in D |-> <<SeverityOf[id], place(id)>>]
<1>1. IsFiniteSet(Incidents) /\ n \in Nat /\ IsFiniteSet(Severities)
  BY ReportsAssumption, FS_CardinalityType
<1>2. IsFiniteSet(points)
  <2>1. IsFiniteSet(1..n)
    BY <1>1, FS_Interval
  <2>2. IsFiniteSet(Severities \X (1..n))
    BY <1>1, <2>1, FS_Product
  <2>. QED
    BY <2>2, FS_Subset
<1>3. ASSUME NEW v \in Severities
      PROVE  /\ numbering[v] \in Bijection(1..distribution[v], OfSeverity(D, v))
             /\ distribution[v] \in 0..n
  <2>1. OfSeverity(D, v) \in SUBSET Incidents
    BY DEF OfSeverity
  <2>2. IsFiniteSet(OfSeverity(D, v))
    BY <2>1, Counted
  <2>3. Cardinality(OfSeverity(D, v)) \in 0..n
    BY <1>1, <2>1, Counted
  <2>4. ExistsBijection(1..Cardinality(OfSeverity(D, v)), OfSeverity(D, v))
    BY <2>2, FS_CardinalityType
  <2>. QED
    BY <2>3, <2>4, Zenon DEF ExistsBijection
<1>4. ASSUME NEW id \in D
      PROVE  /\ SeverityOf[id] \in Severities
             /\ place(id) \in 1..distribution[SeverityOf[id]]
             /\ numbering[SeverityOf[id]][place(id)] = id
             /\ distribution[SeverityOf[id]] \in 0..n
  <2>. DEFINE v == SeverityOf[id]
  <2>1. v \in Severities /\ id \in OfSeverity(D, v)
    BY ReportsAssumption DEF OfSeverity
  <2>2. numbering[v] \in Bijection(1..distribution[v], OfSeverity(D, v)) /\ distribution[v] \in 0..n
    BY <1>3, <2>1
  <2>3. \E k \in 1..distribution[v] : numbering[v][k] = id
    BY <2>1, <2>2 DEF Bijection, Surjection
  <2>. QED
    BY <2>1, <2>2, <2>3, Zenon
<1>. HIDE DEF numbering, place
<1>5. point \in Injection(D, points)
  <2>1. ASSUME NEW id \in D PROVE point[id] \in points
    <3>1. place(id) \in 1..n /\ place(id) <= distribution[SeverityOf[id]]
      BY <1>1, <1>4
    <3>. QED
      BY <1>4, <3>1
  <2>2. ASSUME NEW id \in D, NEW other \in D, point[id] = point[other] PROVE id = other
    <3>1. SeverityOf[id] = SeverityOf[other] /\ place(id) = place(other)
      BY <2>2
    <3>. QED
      BY <1>4, <3>1
  <2>. QED
    <3>1. point \in [D -> points]
      BY <2>1
    <3>2. \A id, other \in D : point[id] = point[other] => id = other
      BY <2>2
    <3>. HIDE DEF point, points
    <3>. QED
      BY <3>1, <3>2 DEF Injection, IsInjective
<1>. HIDE DEF point
<1>6. Cardinality(D) <= Cardinality(points)
  BY <1>2, <1>5, FS_Injection
<1>7. Cardinality(points) \in Nat
  BY <1>2, FS_CardinalityType
<1>. QED
  BY <1>6, <1>7 DEF Total

------------------------------------------------------------------------------
(* Positions. *)

\* Every row that matches has a position, and a row that ties with none comes
\* right after those ahead of it, whatever the order of the others.
LEMMA Position ==
    ASSUME NEW ids \in SUBSET Incidents, NEW order \in Orders(ids),
           NEW id \in ids, Untied(id)
    PROVE  /\ Cardinality(Ahead(ids, id)) + 1 \in DOMAIN order
           /\ DOMAIN order = 1..Cardinality(ids)
           /\ order[Cardinality(Ahead(ids, id)) + 1] = id
<1>. DEFINE n == Cardinality(ids)
<1>1. n \in Nat /\ IsFiniteSet(ids)
  BY Counted
<1>2. /\ order \in [1..n -> ids]
      /\ \A j, k \in 1..n : j < k =>
            order[j] # order[k] /\ OccurredAt[order[j]] >= OccurredAt[order[k]]
  BY DEF Orders
<1>. HIDE DEF n
<1>3. \A j, k \in 1..n : order[j] = order[k] => j = k
  BY <1>1, <1>2
<1>4. order \in Surjection(1..n, ids)
  <2>1. order \in Injection(1..n, ids)
    BY <1>2, <1>3 DEF Injection, IsInjective
  <2>2. Cardinality(1..n) = n
    BY <1>1, FS_Interval
  <2>. QED
    BY <1>1, <2>1, <2>2, FS_Injection DEF n
<1>5. PICK k \in 1..n : order[k] = id
  BY <1>4 DEF Surjection
<1>6. ASSUME NEW j \in 1..n PROVE order[j] \in Ahead(ids, id) <=> j < k
  <2>1. OccurredAt[order[j]] \in Nat /\ OccurredAt[id] \in Nat
    BY <1>2, ReportsAssumption DEF Months
  <2>2. CASE j < k
    <3>1. order[j] # id /\ OccurredAt[order[j]] >= OccurredAt[id] /\ order[j] \in ids
      BY <1>2, <1>5, <2>2
    <3>2. OccurredAt[order[j]] # OccurredAt[id]
      BY <3>1 DEF Untied
    <3>. QED
      BY <2>1, <2>2, <3>1, <3>2 DEF Ahead
  <2>3. CASE j = k
    BY <1>5, <2>1, <2>3 DEF Ahead
  <2>4. CASE j > k
    <3>1. OccurredAt[id] >= OccurredAt[order[j]]
      BY <1>2, <1>5, <2>4
    <3>. QED
      BY <2>1, <2>4, <3>1 DEF Ahead
  <2>. QED
    BY <1>1, <2>2, <2>3, <2>4
<1>7. Cardinality(Ahead(ids, id)) = k - 1
  <2>. DEFINE f == [j \in 1..(k-1) |-> order[j]]
  <2>1. \A j \in 1..(k-1) : j \in 1..n /\ j < k
    BY <1>1
  <2>2. f \in [1..(k-1) -> Ahead(ids, id)]
    BY <1>6, <2>1
  <2>3. \A j, l \in 1..(k-1) : f[j] = f[l] => j = l
    BY <1>3, <2>1
  <2>4. \A other \in Ahead(ids, id) : \E j \in 1..(k-1) : f[j] = other
    <3>. SUFFICES ASSUME NEW other \in Ahead(ids, id)
                  PROVE  \E j \in 1..(k-1) : f[j] = other
      OBVIOUS
    <3>1. PICK j \in 1..n : order[j] = other
      BY <1>4 DEF Surjection, Ahead
    <3>2. j \in 1..(k-1)
      BY <1>1, <1>6, <3>1
    <3>. QED
      BY <3>1, <3>2
  <2>. HIDE DEF f
  <2>5. f \in Bijection(1..(k-1), Ahead(ids, id))
    BY <2>2, <2>3, <2>4 DEF Bijection, Injection, IsInjective, Surjection
  <2>6. k - 1 \in Nat
    BY <1>1
  <2>. QED
    BY <2>5, <2>6, FS_CountingElements DEF ExistsBijection
<1>. QED
  BY <1>1, <1>2, <1>5, <1>7 DEF n

\* An untied row is on the page that its position is on.
LEMMA OnItsPage ==
    ASSUME NEW ids \in SUBSET Incidents, NEW order \in Orders(ids),
           NEW id \in ids, Untied(id), NEW number \in Nat \ {0},
           (number - 1) * PageSize <= Cardinality(Ahead(ids, id)),
           Cardinality(Ahead(ids, id)) < number * PageSize
    PROVE  id \in PageOf(order, number)
<1>. DEFINE k == Cardinality(Ahead(ids, id)) + 1
<1>1. k \in DOMAIN order /\ order[k] = id
  BY Position
<1>2. PageSize \in Nat \ {0} /\ Cardinality(Ahead(ids, id)) \in Nat
  BY ReportsAssumption, Counted DEF Ahead
<1>3. (number - 1) * PageSize \in Nat /\ number * PageSize \in Nat
  BY <1>2
<1>4. (number - 1) * PageSize < k /\ k <= number * PageSize
  BY <1>2, <1>3
<1>. QED
  BY <1>1, <1>4 DEF PageOf

------------------------------------------------------------------------------
(* What a step of the system has to keep, by the kind of the read. *)

Tables ==
    /\ now \in Months
    /\ incidents \in [Incidents -> Statuses \cup {Absent}]
    /\ inspections \in [Inspections -> Inspection \cup {NoRow}]

Got == [trend: Nat, distribution: [Severities -> Nat], pending: SUBSET Incidents,
        all: Nat, year: Nat, window: Months, created: Nat, completed: Nat]

\* A read is of one of two kinds.
LEMMA ReadTypes ==
    ASSUME TypeOK
    PROVE  /\ Tables
           /\ Gathering => read \in Stats
           /\ Turning => read \in Listing
           /\ read # NoRead => Gathering \/ Turning
           /\ ~(Gathering /\ Turning)
BY DEF TypeOK, Tables, Gathering, Turning, Stats, Listing

\* No read, nothing to keep but the tables.
LEMMA NoReadKeeps ==
    ASSUME Tables', read' = NoRead
    PROVE  ReportsInv'
BY DEF Tables, ReportsInv, TypeOK, ClockReadInOrder, Accounted, CountedOrNew,
       SeenOrAhead, PagesComplete, Gathering, Turning, Paging

\* While a dashboard is read, what is said of lists is void.
LEMMA StatsKeeps ==
    ASSUME Tables', read' \in Stats,
           ClockReadInOrder', Accounted', CountedOrNew'
    PROVE  ReportsInv'
<1>1. read'.kind = "stats"
  BY DEF Stats
<1>2. TypeOK'
  BY DEF Tables, TypeOK
<1>3. SeenOrAhead' /\ PagesComplete'
  BY <1>1 DEF SeenOrAhead, PagesComplete, Turning, Paging
<1>. QED
  BY <1>2, <1>3 DEF ReportsInv

\* While a list is read, what is said of dashboards is void.
LEMMA ListKeeps ==
    ASSUME Tables', read' \in Listing, SeenOrAhead', PagesComplete'
    PROVE  ReportsInv'
<1>1. read'.kind = "list"
  BY DEF Listing
<1>2. TypeOK'
  BY DEF Tables, TypeOK
<1>3. ClockReadInOrder' /\ Accounted' /\ CountedOrNew'
  BY <1>1 DEF ClockReadInOrder, Accounted, CountedOrNew, Gathering
<1>. QED
  BY <1>2, <1>3 DEF ReportsInv

\* A read that a change does not end is a dashboard with a query left or a
\* list with a page left.
LEMMA FinishedOrOngoing ==
    ASSUME ReportsInv
    PROVE  \/ Ongoing = NoRead
           \/ Ongoing = read /\ Gathering /\ read \in Stats /\ Asking /\ read.step <= 8
           \/ /\ Ongoing = read /\ Turning /\ read \in Listing /\ ~Asking
              /\ read.phase \in {"count", "select"}
<1>1. Len(Queries) = 8
  BY DEF Queries
<1>2. CASE Gathering
  <2>1. read \in Stats /\ read.step \in 1..9
    BY <1>1, <1>2, ReadTypes DEF ReportsInv, Stats
  <2>2. Ongoing = NoRead \/ (Ongoing = read /\ ~Answered)
    BY DEF Ongoing, Finished
  <2>. QED
    BY <1>1, <1>2, <2>1, <2>2 DEF Answered, Asking, Gathering
<1>3. CASE Turning
  <2>1. read \in Listing /\ read.phase \in {"count", "select", "done"}
    BY <1>3, ReadTypes DEF ReportsInv, Listing
  <2>2. Ongoing = NoRead \/ (Ongoing = read /\ ~Paging("done"))
    BY DEF Ongoing, Finished
  <2>. QED
    BY <1>3, <2>1, <2>2 DEF Paging, Asking, Turning
<1>4. CASE ~Gathering /\ ~Turning
  <2>1. read = NoRead
    BY <1>4, ReadTypes DEF ReportsInv
  <2>. QED
    BY <2>1 DEF Ongoing
<1>. QED
  BY <1>2, <1>3, <1>4

------------------------------------------------------------------------------
(* The writers. *)

\* Time passes.
LEMMA TickKeeps ==
    ASSUME ReportsInv, Tick
    PROVE  ReportsInv'
<1>. UNCHANGED <<incidents, inspections>>
  BY DEF Tick
<1>1. now \in Nat /\ now' = now + 1 /\ read' = Ongoing /\ Tables'
  BY ReadTypes, ReportsAssumption DEF ReportsInv, Tick, Tables, Months
<1>2. CASE Ongoing = NoRead
  BY <1>1, <1>2, NoReadKeeps
<1>3. CASE Ongoing = read /\ Gathering /\ read \in Stats
  <2>. UNCHANGED read
    BY <1>1, <1>3
  <2>1. ClockReadInOrder'
    <3>1. read.since \in Nat /\ read.got.year \in Nat
      BY <1>3 DEF Stats, Months
    <3>2. Year(now) \in Nat /\ Year(now') \in Nat /\ Year(now) <= Year(now')
      BY <1>1, YearsInOrder, Calendar
    <3>. QED
      BY <1>1, <1>3, <3>1, <3>2 DEF ReportsInv, ClockReadInOrder, Gathering
  <2>2. Accounted' /\ CountedOrNew'
    BY DEF ReportsInv, Accounted, CountedOrNew, Gathering, Reported, Planned, CreatedIn, CompletedIn
  <2>. QED
    BY <1>1, <1>3, <2>1, <2>2, StatsKeeps
<1>4. CASE Ongoing = read /\ Turning /\ read \in Listing
  <2>. UNCHANGED read
    BY <1>1, <1>4
  <2>1. SeenOrAhead' /\ PagesComplete'
    BY DEF ReportsInv, SeenOrAhead, PagesComplete, Turning, Match, Matching, Paging
  <2>. QED
    BY <1>1, <1>4, <2>1, ListKeeps
<1>. QED
  BY <1>2, <1>3, <1>4, FinishedOrOngoing

\* An inspection is created, or one there is executed in its month.
LEMMA WriteInspectionKeeps ==
    ASSUME ReportsInv, NEW i \in Inspections, NEW row \in Inspection,
           inspections[i] = NoRow \/ inspections[i].month = row.month,
           WriteInspection(i, row)
    PROVE  ReportsInv'
<1>. UNCHANGED <<now, incidents>>
  BY DEF WriteInspection
<1>1. /\ inspections' = [inspections EXCEPT ![i] = row]
      /\ read' = IF Asking /\ inspections[i] = NoRow THEN Noticed(i) ELSE Ongoing
  BY DEF WriteInspection
<1>2. Tables'
  BY <1>1, ReadTypes DEF ReportsInv, Tables
<1>3. CASE Asking /\ inspections[i] = NoRow
  <2>1. Gathering /\ read \in Stats
    BY <1>3, ReadTypes DEF ReportsInv, Asking, Gathering
  <2>. DEFINE newer == IF read.step \in 5..7 THEN read.newer \cup {i} ELSE read.newer
              newest == IF read.step = 8 THEN read.newest \cup {i} ELSE read.newest
  <2>2. read' = [read EXCEPT !.newer = newer, !.newest = newest]
    BY <1>1, <1>3 DEF Noticed
  <2>3. newer \in SUBSET Inspections /\ newest \in SUBSET Inspections
    BY <2>1 DEF Stats
  <2>. HIDE DEF newer, newest
  <2>4. /\ read' \in Stats /\ read'.newer = newer /\ read'.newest = newest
        /\ read'.step = read.step
        /\ read'.since = read.since /\ read'.arrived = read.arrived /\ read'.got = read.got
    BY <2>1, <2>2, <2>3 DEF Stats
  <2>5. ClockReadInOrder' /\ Accounted'
    BY <2>1, <2>4 DEF ReportsInv, ClockReadInOrder, Accounted, Gathering, Reported
  <2>6. CountedOrNew'
    <3>1. /\ Planned' \subseteq Planned \cup {i}
          /\ \A window : CreatedIn(window)' \subseteq CreatedIn(window) \cup {i}
      BY <1>1, ReadTypes DEF ReportsInv, Tables, Planned, CreatedIn
    <3>2. read.step \in 1..8 /\ Len(Queries) = 8
      BY <1>3, <2>1 DEF Asking, Queries, Stats
    <3>3. CASE read.step \in 5..7
      <4>1. Planned' \ newer \subseteq Planned \ read.newer
        BY <3>1, <3>3 DEF newer
      <4>2. Cardinality(Planned' \ newer) <= read.got.all
        <5>1. /\ Planned \ read.newer \in SUBSET Inspections
              /\ Planned' \ newer \in SUBSET Inspections
          BY DEF Planned
        <5>2. Cardinality(Planned \ read.newer) <= read.got.all /\ read.got.all \in Nat
          BY <2>1, <3>3 DEF ReportsInv, CountedOrNew, Stats
        <5>3. /\ Cardinality(Planned' \ newer) <= Cardinality(Planned \ read.newer)
              /\ Cardinality(Planned' \ newer) \in Nat /\ Cardinality(Planned \ read.newer) \in Nat
          BY <4>1, <5>1, CountedPlans
        <5>. QED
          BY <5>2, <5>3
      <4>. QED
        BY <2>4, <3>3, <4>2 DEF CountedOrNew
    <3>4. CASE read.step = 8
      <4>. PICK month : month = read.got.window
        OBVIOUS
      <4>. DEFINE old == CreatedIn(month) \ read.newest
                  new == CreatedIn(month)' \ newest
      <4>1. new \subseteq old
        BY <2>4, <3>1, <3>4 DEF newest
      <4>2. old \in SUBSET Inspections /\ new \in SUBSET Inspections
        BY DEF CreatedIn, Planned
      <4>3. Cardinality(old) <= read.got.created /\ read.got.created \in Nat
        BY <2>1, <3>4 DEF ReportsInv, CountedOrNew, Stats
      <4>. HIDE DEF old, new
      <4>4. Cardinality(new) <= read.got.created
        <5>1. /\ Cardinality(new) <= Cardinality(old)
              /\ Cardinality(new) \in Nat /\ Cardinality(old) \in Nat
          BY <4>1, <4>2, CountedPlans
        <5>. QED
          BY <4>3, <5>1
      <4>5. read.newer = newer /\ read.got.created <= read.got.all + Cardinality(read.newer)
        BY <2>1, <3>4 DEF ReportsInv, CountedOrNew, newer
      <4>6. /\ read'.step = 8 /\ read'.newer = read.newer /\ read'.got = read.got
            /\ read'.got.window = month
            /\ Cardinality(CreatedIn(month)' \ read'.newest) <= read.got.created
        BY <2>4, <3>4, <4>4, <4>5 DEF new
      <4>7. CreatedIn(read.got.window)' = CreatedIn(month)'
        BY <4>6
      <4>. QED
        BY <4>5, <4>6, <4>7 DEF CountedOrNew
    <3>5. CASE read.step < 5
      BY <2>1, <2>4, <3>2, <3>5 DEF CountedOrNew, Stats
    <3>. QED
      BY <3>2, <3>3, <3>4, <3>5
  <2>. QED
    BY <1>2, <2>4, <2>5, <2>6, StatsKeeps
<1>4. CASE read' = Ongoing /\ Ongoing = NoRead
  BY <1>2, <1>4, NoReadKeeps
<1>5. CASE read' = Ongoing /\ Ongoing = read /\ Gathering /\ read \in Stats /\ Asking /\ read.step <= 8
  <2>1. CASE inspections[i] # NoRow
    <3>1. ClockReadInOrder' /\ Accounted'
      BY <1>5 DEF ReportsInv, ClockReadInOrder, Accounted, Gathering, Reported
    <3>2. Planned' = Planned /\ \A window : CreatedIn(window)' = CreatedIn(window)
      BY <1>1, <2>1, AbsenceAssumption, ReadTypes DEF ReportsInv, Tables, Planned, CreatedIn
    <3>3. CountedOrNew'
      <4>1. read.step \in 1..8 /\ read' = read
        <5>1. Len(Queries) = 8
          BY DEF Queries
        <5>. QED
          BY <1>5, <5>1 DEF Stats
      <4>2. CreatedIn(read.got.window)' = CreatedIn(read.got.window)
        BY <3>2, <4>1
      <4>. QED
        BY <3>2, <4>1, <4>2 DEF ReportsInv, CountedOrNew, Gathering
    <3>. QED
      BY <1>2, <1>5, <3>1, <3>3, StatsKeeps
  <2>. QED
    BY <1>3, <1>5, <2>1
<1>6. CASE read' = Ongoing /\ Ongoing = read /\ Turning /\ read \in Listing
  <2>1. SeenOrAhead' /\ PagesComplete'
    BY <1>6 DEF ReportsInv, SeenOrAhead, PagesComplete, Turning, Match, Matching, Paging
  <2>. QED
    BY <1>2, <1>6, <2>1, ListKeeps
<1>. QED
  BY <1>1, <1>3, <1>4, <1>5, <1>6, FinishedOrOngoing

\* A list read with what a change of the table means for it noted down.
Noted(list, stayed, shrank, pushed) ==
    [list EXCEPT !.stayed = stayed, !.shrank = shrank, !.pushed = pushed]

\* It is the same list otherwise.
LEMMA NotedListing ==
    ASSUME NEW list \in Listing, NEW stayed \in SUBSET Incidents,
           NEW shrank \in BOOLEAN, NEW pushed \in BOOLEAN
    PROVE  LET n == Noted(list, stayed, shrank, pushed) IN
           /\ n \in Listing /\ n.filter = list.filter /\ n.page = list.page
           /\ n.phase = list.phase /\ n.total = list.total /\ n.seen = list.seen
           /\ n.stayed = stayed /\ n.shrank = shrank /\ n.pushed = pushed
BY DEF Noted, Listing

\* An incident is reported, or one there gets another status.
LEMMA WriteIncidentKeeps ==
    ASSUME ReportsInv, NEW id \in Incidents, NEW status \in Statuses,
           WriteIncident(id, status)
    PROVE  ReportsInv'
<1>. DEFINE table == [incidents EXCEPT ![id] = status]
<1>. UNCHANGED <<now, inspections>>
  BY DEF WriteIncident
<1>1. incidents' = table /\ read' = Observed(table)
  BY DEF WriteIncident
<1>2. Tables' /\ Tables
  BY <1>1, ReadTypes DEF ReportsInv, Tables
<1>3. CASE Ongoing = NoRead
  <2>1. read' = NoRead
    BY <1>1, <1>3 DEF Observed
  <2>. QED
    BY <1>2, <2>1, NoReadKeeps
<1>4. CASE Ongoing = read /\ Gathering /\ read \in Stats
  <2>. DEFINE newcomers == {other \in Incidents : incidents[other] = Absent /\ table[other] # Absent}
              arrived == IF read.step > 2 THEN read.arrived \cup newcomers ELSE read.arrived
  <2>1. read' = [read EXCEPT !.arrived = arrived]
    BY <1>1, <1>4 DEF Observed, Gathering
  <2>2. arrived \in SUBSET Incidents /\ read.arrived \subseteq arrived
    BY <1>4 DEF Stats
  <2>3. /\ read' \in Stats /\ read'.newer = read.newer /\ read'.newest = read.newest
        /\ read'.step = read.step /\ read'.since = read.since /\ read'.arrived = arrived /\ read'.got = read.got
    BY <1>4, <2>1, <2>2 DEF Stats
  <2>4. Reported \subseteq Reported' /\ Reported' \subseteq Reported \cup newcomers
    BY <1>1, <1>2, AbsenceAssumption DEF Reported, Tables
  <2>. HIDE DEF newcomers
  <2>5. Accounted'
    <3>1. read.step = 2 => read.got.trend <= Cardinality(Reported')
      <4>. SUFFICES ASSUME read.step = 2 PROVE read.got.trend <= Cardinality(Reported')
        OBVIOUS
      <4>1. read.got.trend <= Cardinality(Reported) /\ read.got.trend \in Nat
        BY <1>4 DEF ReportsInv, Accounted, Stats
      <4>2. Reported \in SUBSET Incidents /\ Reported' \in SUBSET Incidents
        BY DEF Reported
      <4>3. /\ Cardinality(Reported) \in Nat /\ Cardinality(Reported') \in Nat
            /\ Cardinality(Reported) <= Cardinality(Reported')
        BY <2>4, <4>2, Counted
      <4>. QED
        BY <4>1, <4>3
    <3>2. ASSUME read.step > 2
          PROVE  \E D \in SUBSET Incidents :
                    /\ Covers(D, read.got)
                    /\ Reported' \subseteq D \cup arrived
                    /\ read.step > 3 => read.got.pending \ arrived \subseteq D
      BY <1>4, <2>2, <2>4, <3>2 DEF ReportsInv, Accounted
    <3>. HIDE DEF arrived
    <3>. QED
      BY <2>3, <3>1, <3>2 DEF Accounted
  <2>6. ClockReadInOrder' /\ CountedOrNew'
    BY <1>4, <2>3 DEF ReportsInv, ClockReadInOrder, CountedOrNew, Gathering,
                      Planned, CreatedIn, CompletedIn
  <2>. QED
    BY <1>2, <2>3, <2>5, <2>6, StatsKeeps
<1>5. CASE Ongoing = read /\ Turning /\ read \in Listing /\ read.phase \in {"count", "select"}
  <2>. DEFINE before == Matching(incidents, read.filter)
              after == Matching(table, read.filter)
              shrank == read.shrank \/ before \ after # {}
              pushed == read.pushed \/ after \ before # {}
  <2>1. read' = [read EXCEPT !.stayed = read.stayed \cap after, !.shrank = shrank, !.pushed = pushed]
    BY <1>1, <1>5, Zenon DEF Observed, Turning
  <2>2. read' = Noted(read, read.stayed \cap after, shrank, pushed)
    BY <2>1, Zenon DEF Noted
  <2>3. shrank \in BOOLEAN /\ pushed \in BOOLEAN /\ read.stayed \cap after \in SUBSET Incidents
    BY <1>5 DEF Listing
  <2>4. /\ read' \in Listing /\ read'.filter = read.filter /\ read'.page = read.page
        /\ read'.phase = read.phase /\ read'.total = read.total /\ read'.seen = read.seen
        /\ read'.stayed = read.stayed \cap after
        /\ read'.shrank = shrank /\ read'.pushed = pushed
    <3>1. read \in Listing
      BY <1>5
    <3>. DEFINE stayed == read.stayed \cap after
    <3>2. stayed \in SUBSET Incidents /\ read' = Noted(read, stayed, shrank, pushed)
      BY <2>2, <2>3
    <3>3. shrank \in BOOLEAN /\ pushed \in BOOLEAN
      BY <2>3
    <3>. HIDE DEF stayed, shrank, pushed
    <3>4. LET n == Noted(read, stayed, shrank, pushed) IN
           /\ n \in Listing /\ n.filter = read.filter /\ n.page = read.page
           /\ n.phase = read.phase /\ n.total = read.total /\ n.seen = read.seen
           /\ n.stayed = stayed /\ n.shrank = shrank /\ n.pushed = pushed
      BY <3>1, <3>2, <3>3, NotedListing, Zenon
    <3>. QED
      BY <3>2, <3>4, Zenon DEF stayed
  <2>5. Match = before /\ Match' = after
    BY <1>1, <2>4 DEF Match
  <2>6. SeenOrAhead'
    <3>. SUFFICES ASSUME ~shrank PROVE SeenOrAhead'
      BY <2>4 DEF SeenOrAhead
    <3>1. ~read.shrank /\ before \subseteq after
      OBVIOUS
    <3>2. read'.stayed \subseteq Match'
      BY <2>4, <2>5
    <3>3. ASSUME NEW other \in read'.stayed, Untied(other), other \notin read'.seen
          PROVE  (read'.page - 1) * PageSize <= Cardinality(Ahead(Match', other))
      <4>1. (read.page - 1) * PageSize <= Cardinality(Ahead(before, other))
        BY <1>5, <2>4, <2>5, <3>1, <3>3 DEF ReportsInv, SeenOrAhead
      <4>2. /\ Ahead(before, other) \in SUBSET Incidents /\ Ahead(after, other) \in SUBSET Incidents
            /\ Ahead(before, other) \subseteq Ahead(after, other)
        BY <3>1 DEF Ahead, Matching
      <4>3. /\ Cardinality(Ahead(before, other)) <= Cardinality(Ahead(after, other))
            /\ Cardinality(Ahead(before, other)) \in Nat /\ Cardinality(Ahead(after, other)) \in Nat
        BY <4>2, Counted
      <4>4. (read.page - 1) * PageSize \in Nat
        BY <1>5, ReportsAssumption DEF Listing
      <4>. HIDE DEF before, after
      <4>. QED
        BY <2>4, <2>5, <4>1, <4>3, <4>4
    <3>4. ASSUME read'.phase = "select", ~read'.pushed
          PROVE  read'.total = Cardinality(Match')
      <4>1. ~read.pushed /\ before = after
        BY <2>4, <3>1, <3>4
      <4>. QED
        BY <1>5, <2>4, <2>5, <3>1, <3>4, <4>1 DEF ReportsInv, SeenOrAhead
    <3>. HIDE DEF before, after, shrank, pushed
    <3>. QED
      BY <3>2, <3>3, <3>4 DEF SeenOrAhead
  <2>7. PagesComplete'
    BY <1>5, <2>4 DEF PagesComplete, Paging
  <2>. QED
    BY <1>2, <2>4, <2>6, <2>7, ListKeeps
<1>. QED
  BY <1>3, <1>4, <1>5, FinishedOrOngoing

\* Every write is one of these two.
LEMMA WriteKeeps ==
    ASSUME ReportsInv, Write
    PROVE  ReportsInv'
<1>. Tables
  BY ReadTypes DEF ReportsInv
<1>1. ASSUME NEW id \in Incidents, Report(id) PROVE ReportsInv'
  BY <1>1, WriteIncidentKeeps, ReportsAssumption DEF Report
<1>2. ASSUME NEW id \in Incidents, SaveIncident(id) PROVE ReportsInv'
  BY <1>2, WriteIncidentKeeps DEF SaveIncident
<1>3. ASSUME NEW i \in Inspections, Create(i) PROVE ReportsInv'
  <2>1. [month |-> now, status |-> "scheduled"] \in Inspection
    BY DEF Tables, Inspection
  <2>. QED
    BY <1>3, <2>1, WriteInspectionKeeps DEF Create
<1>4. ASSUME NEW i \in Inspections, Execute(i) PROVE ReportsInv'
  <2>. DEFINE row == [inspections[i] EXCEPT !.status = "completed"]
  <2>1. inspections[i] \in Inspection
    BY <1>4 DEF Execute, Tables
  <2>2. row \in Inspection /\ row.month = inspections[i].month
    BY <2>1 DEF Inspection
  <2>3. WriteInspection(i, row)
    BY <1>4 DEF Execute
  <2>. QED
    BY <2>2, <2>3, WriteInspectionKeeps
<1>. QED
  BY <1>1, <1>2, <1>3, <1>4 DEF Write

------------------------------------------------------------------------------
(* The dashboard. *)

\* A dashboard is asked for.
LEMMA BeginStatsKeeps ==
    ASSUME ReportsInv, BeginStats
    PROVE  ReportsInv'
<1>. UNCHANGED <<now, incidents, inspections>>
  BY DEF BeginStats
<1>1. Tables /\ Tables' /\ now \in Months /\ 0 \in Months
  BY ReadTypes, ReportsAssumption DEF ReportsInv, Tables, Months
<1>2. Len(Queries) = 8 /\ Nothing \in Got
  BY <1>1 DEF Queries, Nothing, Got
<1>3. /\ read' \in Stats /\ read'.step = 1 /\ read'.since = now
  BY <1>1, <1>2 DEF BeginStats, Stats, Got
<1>4. ClockReadInOrder' /\ Accounted' /\ CountedOrNew'
  BY <1>1, <1>3 DEF ClockReadInOrder, Accounted, CountedOrNew, Months
<1>. QED
  BY <1>1, <1>3, <1>4, StatsKeeps

\* The read once a query has returned.
Recorded(stats, query, result) ==
    [stats EXCEPT !.step = @ + 1, !.got[query] = result]

\* It is one step further and has the result in its place.
LEMMA RecordedStats ==
    ASSUME NEW stats \in Stats, NEW query, NEW result
    PROVE  LET next == Recorded(stats, query, result) IN
           /\ next.step = stats.step + 1 /\ next.since = stats.since
           /\ next.arrived = stats.arrived
           /\ next.newer = stats.newer /\ next.newest = stats.newest
           /\ next.got = [stats.got EXCEPT ![query] = result]
           /\ stats.step <= 8 /\ next.got \in Got => next \in Stats
<1>. DEFINE next == Recorded(stats, query, result)
            got == [stats.got EXCEPT ![query] = result]
<1>1. Len(Queries) = 8
  BY DEF Queries
<1>2. next = [stats EXCEPT !.step = @ + 1, !.got = got]
  BY DEF Stats, Recorded
<1>. HIDE DEF got, next
<1>3. /\ next.step = stats.step + 1 /\ next.since = stats.since
      /\ next.arrived = stats.arrived
      /\ next.newer = stats.newer /\ next.newest = stats.newest
      /\ next.got = got
  BY <1>2 DEF Stats
<1>4. ASSUME stats.step <= 8, got \in Got
      PROVE  next \in Stats
  <2>1. Stats = [kind: {"stats"}, step: 1..9, since: Months,
                 arrived: SUBSET Incidents, newer: SUBSET Inspections,
                 newest: SUBSET Inspections, got: Got]
    BY <1>1 DEF Stats, Got
  <2>2. stats.step + 1 \in 1..9
    BY <1>4, <2>1
  <2>. QED
    BY <1>2, <1>4, <2>1, <2>2
<1>. QED
  BY <1>3, <1>4 DEF next, got

\* One query of the dashboard, the n-th, has returned a result.
Returned(n, query, result) ==
    /\ read.step = n /\ read'.step = n + 1
    /\ read'.since = read.since /\ read'.arrived = read.arrived
    /\ read'.newer = read.newer /\ read'.newest = read.newest
    /\ read'.got = [read.got EXCEPT ![query] = result]

\* A step of the dashboard is one of its eight queries.
LEMMA QueryReturns ==
    ASSUME ReportsInv, Query
    PROVE  /\ Gathering /\ read \in Stats /\ read.got \in Got
           /\ read'.got \in Got => read' \in Stats
           /\ \/ Returned(1, "trend", Cardinality(Recent))
              \/ Returned(2, "distribution", [v \in Severities |-> CountedReported(v)])
              \/ \E list \in PendingLists : Returned(3, "pending", list)
              \/ Returned(4, "all", Cardinality(Planned))
              \/ Returned(5, "year", Year(now))
              \/ Returned(6, "window", Window(read.got.year, now))
              \/ Returned(7, "created", Cardinality(CreatedIn(read.got.window)))
              \/ Returned(8, "completed", Cardinality(CompletedIn(read.got.window)))
<1>1. Len(Queries) = 8
  BY DEF Queries
<1>2. Gathering /\ read \in Stats /\ read.got \in Got /\ read.step \in 1..8
  BY <1>1, ReadTypes DEF ReportsInv, Query, Asking, Gathering, Stats, Got
<1>3. PICK result \in Results(read.got)[Queries[read.step]] :
        read' = [read EXCEPT !.step = @ + 1, !.got[Queries[read.step]] = result]
  BY DEF Query
<1>4. /\ Returned(read.step, Queries[read.step], result)
      /\ read'.got \in Got => read' \in Stats
  <2>1. read' = Recorded(read, Queries[read.step], result) /\ read.step <= 8
    BY <1>2, <1>3 DEF Recorded
  <2>. DEFINE query == Queries[read.step]
              next == Recorded(read, query, result)
  <2>2. read' = next
    BY <2>1
  <2>3. /\ next.step = read.step + 1 /\ next.since = read.since
        /\ next.arrived = read.arrived
        /\ next.newer = read.newer /\ next.newest = read.newest
        /\ next.got = [read.got EXCEPT ![query] = result]
        /\ read.step <= 8 /\ next.got \in Got => next \in Stats
    BY <1>2, RecordedStats
  <2>. HIDE DEF next, query
  <2>. QED
    BY <2>1, <2>2, <2>3, Zenon DEF Returned, query
<1>5. \/ read.step = 1 /\ Queries[read.step] = "trend"
      \/ read.step = 2 /\ Queries[read.step] = "distribution"
      \/ read.step = 3 /\ Queries[read.step] = "pending"
      \/ read.step = 4 /\ Queries[read.step] = "all"
      \/ read.step = 5 /\ Queries[read.step] = "year"
      \/ read.step = 6 /\ Queries[read.step] = "window"
      \/ read.step = 7 /\ Queries[read.step] = "created"
      \/ read.step = 8 /\ Queries[read.step] = "completed"
  BY <1>2 DEF Queries
<1>. QED
  BY <1>2, <1>3, <1>4, <1>5 DEF Results

\* Each query keeps what the earlier ones have established.
LEMMA QueryKeeps ==
    ASSUME ReportsInv, Query
    PROVE  ReportsInv'
<1>. UNCHANGED <<now, incidents, inspections>>
  BY DEF Query
<1>1. Tables /\ Tables' /\ now \in Nat
  BY ReadTypes, ReportsAssumption DEF ReportsInv, Tables, Months
<1>2. /\ Gathering /\ read \in Stats /\ read.got \in Got
      /\ read'.got \in Got => read' \in Stats
  BY QueryReturns
<1>3. /\ Reported \in SUBSET Incidents /\ Recent \in SUBSET Incidents /\ Recent \subseteq Reported
      /\ Pending \subseteq Reported
  BY DEF Reported, Recent, Pending
<1>4. /\ Planned \in SUBSET Inspections
      /\ \A window : /\ CreatedIn(window) \in SUBSET Inspections
                     /\ CompletedIn(window) \in SUBSET Inspections
                     /\ CreatedIn(window) \subseteq Planned
                     /\ CompletedIn(window) \subseteq CreatedIn(window)
  BY DEF Planned, CreatedIn, CompletedIn
<1>5. CASE Returned(1, "trend", Cardinality(Recent))
  <2>1. /\ Cardinality(Recent) \in Nat /\ Cardinality(Recent) <= Cardinality(Reported)
    BY <1>3, Counted
  <2>2. read'.got \in Got /\ read'.got.trend = Cardinality(Recent)
    BY <1>2, <1>5, <2>1 DEF Returned, Got
  <2>3. ClockReadInOrder' /\ Accounted' /\ CountedOrNew'
    BY <1>2, <1>5, <2>1, <2>2
       DEF Returned, ReportsInv, ClockReadInOrder, Accounted, CountedOrNew, Gathering, Reported
  <2>. QED
    BY <1>1, <1>2, <2>2, <2>3, StatsKeeps
<1>6. CASE Returned(2, "distribution", [v \in Severities |-> CountedReported(v)])
  <2>1. \A v \in Severities : CountedReported(v) \in Nat
    <3>1. \A v : OfSeverity(Reported, v) \in SUBSET Incidents
      BY <1>3 DEF OfSeverity
    <3>. QED
      BY <3>1, Counted DEF CountedReported
  <2>2. /\ read'.got \in Got /\ read'.got.trend = read.got.trend
        /\ read'.got.distribution = [v \in Severities |-> CountedReported(v)]
    BY <1>2, <1>6, <2>1 DEF Returned, Got
  <2>3. Covers(Reported, read'.got)
    BY <1>2, <1>6, <2>2
       DEF Covers, CountedReported, Returned, ReportsInv, Accounted
  <2>4. Accounted'
    <3>1. Reported' = Reported
      BY DEF Reported
    <3>. QED
      BY <1>3, <1>6, <2>3, <3>1 DEF Accounted, Returned
  <2>5. ClockReadInOrder' /\ CountedOrNew'
    BY <1>2, <1>6 DEF Returned, ReportsInv, ClockReadInOrder, CountedOrNew, Gathering
  <2>. QED
    BY <1>1, <1>2, <2>2, <2>4, <2>5, StatsKeeps
<1>7. ASSUME NEW list \in PendingLists, Returned(3, "pending", list)
      PROVE  ReportsInv'
  <2>1. list \subseteq Pending
    BY DEF PendingLists, kSubset
  <2>2. /\ read'.got \in Got /\ read'.got.pending = list /\ read'.got.trend = read.got.trend
        /\ read'.got.distribution = read.got.distribution
    BY <1>2, <1>3, <1>7, <2>1 DEF Returned, Got
  <2>3. Accounted'
    <3>1. Reported' = Reported
      BY DEF Reported
    <3>2. PICK D \in SUBSET Incidents :
            Covers(D, read.got) /\ Reported \subseteq D \cup read.arrived
      BY <1>2, <1>7 DEF ReportsInv, Accounted, Returned
    <3>3. Covers(D, read'.got) /\ list \ read.arrived \subseteq D
      BY <1>3, <2>1, <2>2, <3>2 DEF Covers
    <3>. QED
      BY <1>7, <2>2, <3>1, <3>2, <3>3 DEF Accounted, Returned
  <2>4. ClockReadInOrder' /\ CountedOrNew'
    BY <1>2, <1>7 DEF Returned, ReportsInv, ClockReadInOrder, CountedOrNew, Gathering
  <2>. QED
    BY <1>1, <1>2, <2>2, <2>3, <2>4, StatsKeeps
\* The later queries are about inspections.
<1>8. ASSUME read.step > 3, read'.step = read.step + 1,
             read'.arrived = read.arrived, read'.got.trend = read.got.trend,
             read'.got.distribution = read.got.distribution,
             read'.got.pending = read.got.pending
      PROVE  Accounted'
  <2>1. Reported' = Reported
    BY DEF Reported
  <2>2. PICK D \in SUBSET Incidents :
            /\ Covers(D, read.got) /\ Reported \subseteq D \cup read.arrived
            /\ read.got.pending \ read.arrived \subseteq D
    BY <1>2, <1>8 DEF ReportsInv, Accounted, Stats
  <2>3. Covers(D, read'.got)
    BY <1>8, <2>2 DEF Covers
  <2>4. read'.step # 2
    BY <1>2, <1>8 DEF Stats
  <2>. QED
    BY <1>8, <2>1, <2>2, <2>3, <2>4 DEF Accounted
<1>9. CASE Returned(4, "all", Cardinality(Planned))
  <2>1. Cardinality(Planned) \in Nat
    BY <1>4, CountedPlans
  <2>2. /\ read'.got \in Got /\ read'.got.all = Cardinality(Planned)
        /\ read'.got.trend = read.got.trend /\ read'.got.pending = read.got.pending
        /\ read'.got.distribution = read.got.distribution
    BY <1>2, <1>9, <2>1 DEF Returned, Got
  <2>3. Cardinality(Planned \ read.newer) <= Cardinality(Planned)
    BY <1>4, CountedPlans
  <2>4. Planned' = Planned
    BY DEF Planned
  <2>5. ClockReadInOrder' /\ CountedOrNew' /\ Accounted'
    BY <1>2, <1>8, <1>9, <2>2, <2>3, <2>4
       DEF Returned, ReportsInv, ClockReadInOrder, CountedOrNew
  <2>. QED
    BY <1>1, <1>2, <2>2, <2>5, StatsKeeps
<1>10. CASE Returned(5, "year", Year(now))
  <2>1. Year(now) \in Nat
    BY <1>1, Calendar
  <2>2. /\ read'.got \in Got /\ read'.got.year = Year(now) /\ read'.got.all = read.got.all
        /\ read'.got.trend = read.got.trend /\ read'.got.pending = read.got.pending
        /\ read'.got.distribution = read.got.distribution
    BY <1>2, <1>10, <2>1 DEF Returned, Got
  <2>3. read.since \in Nat /\ read.since <= now
    BY <1>2 DEF ReportsInv, ClockReadInOrder, Stats, Months
  <2>4. Year(read.since) <= Year(now)
    BY <1>1, <2>3, YearsInOrder
  <2>5. ClockReadInOrder' /\ CountedOrNew' /\ Accounted'
    BY <1>2, <1>8, <1>10, <2>1, <2>2, <2>3, <2>4
       DEF Returned, ReportsInv, ClockReadInOrder, CountedOrNew, Gathering, Planned
  <2>. QED
    BY <1>1, <1>2, <2>2, <2>5, StatsKeeps
<1>11. CASE Returned(6, "window", Window(read.got.year, now))
  <2>1. /\ read.got.year \in Nat /\ read.got.year <= Year(now)
        /\ read.since \in Nat /\ read.since <= now
    BY <1>2, <1>11 DEF ReportsInv, ClockReadInOrder, Stats, Months, Returned
  <2>2. Window(read.got.year, now) \in Months
    <3>1. Window(read.got.year, now) \in 0..now
      BY <1>1, <2>1, WindowInTime
    <3>. QED
      BY <1>1, <3>1, ReportsAssumption DEF Tables, Months
  <2>3. /\ read'.got \in Got /\ read'.got.window = Window(read.got.year, now)
        /\ read'.got.year = read.got.year /\ read'.got.all = read.got.all
        /\ read'.got.trend = read.got.trend /\ read'.got.pending = read.got.pending
        /\ read'.got.distribution = read.got.distribution
    BY <1>2, <1>11, <2>2 DEF Returned, Got
  <2>4. ClockReadInOrder'
    <3>1. now \in read.since..now
      BY <1>1, <2>1
    <3>2. Year(read.since) <= read.got.year
      BY <1>2, <1>11 DEF ReportsInv, ClockReadInOrder, Returned
    <3>. QED
      BY <1>11, <2>1, <2>3, <3>1, <3>2 DEF Returned, ClockReadInOrder
  <2>5. CountedOrNew' /\ Accounted'
    BY <1>2, <1>8, <1>11, <2>3
       DEF Returned, ReportsInv, CountedOrNew, Gathering, Planned
  <2>. QED
    BY <1>1, <1>2, <2>3, <2>4, <2>5, StatsKeeps
\* The clock has been read for the last time.
<1>12. ASSUME read.step > 6, read'.step = read.step + 1, read'.since = read.since,
              read'.got.year = read.got.year, read'.got.window = read.got.window
       PROVE  ClockReadInOrder'
  BY <1>2, <1>12 DEF ReportsInv, ClockReadInOrder, Stats
<1>13. CASE Returned(7, "created", Cardinality(CreatedIn(read.got.window)))
  <2>1. Cardinality(CreatedIn(read.got.window)) \in Nat
    BY <1>4, CountedPlans
  <2>2. /\ read'.got \in Got /\ read'.got.created = Cardinality(CreatedIn(read.got.window))
        /\ read'.got.window = read.got.window
        /\ read'.got.year = read.got.year /\ read'.got.all = read.got.all
        /\ read'.got.trend = read.got.trend /\ read'.got.pending = read.got.pending
        /\ read'.got.distribution = read.got.distribution
    BY <1>2, <1>13, <2>1 DEF Returned, Got
  <2>3. Planned' = Planned /\ \A window : CreatedIn(window)' = CreatedIn(window)
    BY DEF Planned, CreatedIn
  <2>4. CountedOrNew'
    <3>. DEFINE created == CreatedIn(read.got.window)
    <3>1. created \in SUBSET Planned /\ read.newer \in SUBSET Inspections
      BY <1>2, <1>4 DEF Stats
    <3>2. Cardinality(created) <= read.got.all + Cardinality(read.newer)
      <4>1. Cardinality(Planned \ read.newer) <= read.got.all /\ read.got.all \in Nat
        BY <1>2, <1>13 DEF Returned, ReportsInv, CountedOrNew, Stats
      <4>2. /\ Cardinality(Planned) = Cardinality(Planned \ read.newer)
                                        + Cardinality(Planned \cap read.newer)
            /\ Cardinality(Planned \cap read.newer) <= Cardinality(read.newer)
            /\ {Cardinality(Planned \ read.newer), Cardinality(Planned \cap read.newer),
                Cardinality(read.newer)} \subseteq Nat
        BY <1>4, <3>1, SplitPlans
      <4>3. Cardinality(created) <= Cardinality(Planned) /\ Cardinality(created) \in Nat
        BY <1>4, CountedPlans
      <4>. QED
        BY <4>1, <4>2, <4>3
    <3>3. Cardinality(created \ read.newest) <= Cardinality(created)
      BY <1>4, CountedPlans
    <3>. QED
      BY <1>2, <1>13, <2>2, <2>3, <3>2, <3>3 DEF Returned, CountedOrNew
  <2>5. ClockReadInOrder' /\ Accounted'
    BY <1>8, <1>12, <1>13, <2>2 DEF Returned
  <2>. QED
    BY <1>1, <1>2, <2>2, <2>4, <2>5, StatsKeeps
<1>14. CASE Returned(8, "completed", Cardinality(CompletedIn(read.got.window)))
  <2>1. /\ Cardinality(CompletedIn(read.got.window)) \in Nat
        /\ Cardinality(CompletedIn(read.got.window)) <= Cardinality(CreatedIn(read.got.window))
    BY <1>4, CountedPlans
  <2>2. /\ read'.got \in Got /\ read'.got.completed = Cardinality(CompletedIn(read.got.window))
        /\ read'.got.created = read.got.created /\ read'.got.window = read.got.window
        /\ read'.got.year = read.got.year /\ read'.got.all = read.got.all
        /\ read'.got.trend = read.got.trend /\ read'.got.pending = read.got.pending
        /\ read'.got.distribution = read.got.distribution
    BY <1>2, <1>14, <2>1 DEF Returned, Got
  <2>3. \A window : CompletedIn(window)' = CompletedIn(window)
    BY DEF Planned, CreatedIn, CompletedIn
  <2>4. CountedOrNew'
    <3>. DEFINE completed == CompletedIn(read.got.window)
                created == CreatedIn(read.got.window)
    <3>1. /\ read.newest \in SUBSET Inspections
          /\ completed \ read.newest \subseteq created \ read.newest
          /\ completed \ read.newest \in SUBSET Inspections
          /\ created \ read.newest \in SUBSET Inspections
      BY <1>2, <1>4 DEF Stats
    <3>2. Cardinality(completed) <= read.got.created + Cardinality(completed \cap read.newest)
      <4>1. Cardinality(created \ read.newest) <= read.got.created /\ read.got.created \in Nat
        BY <1>2, <1>14 DEF Returned, ReportsInv, CountedOrNew, Stats
      <4>2. /\ Cardinality(completed) = Cardinality(completed \ read.newest)
                                        + Cardinality(completed \cap read.newest)
            /\ Cardinality(completed \cap read.newest) \in Nat
        BY <1>4, <3>1, SplitPlans
      <4>3. /\ Cardinality(completed \ read.newest) <= Cardinality(created \ read.newest)
            /\ Cardinality(completed \ read.newest) \in Nat
            /\ Cardinality(created \ read.newest) \in Nat
        BY <3>1, CountedPlans
      <4>. QED
        BY <4>1, <4>2, <4>3
    <3>3. /\ read.step = 8 /\ read'.step = 9 /\ read'.newest = read.newest
          /\ read'.newer = read.newer /\ read'.got.all = read.got.all
      BY <1>2, <1>14 DEF Returned, Got
    <3>4. read.got.created <= read.got.all + Cardinality(read.newer)
      BY <1>2, <3>3 DEF ReportsInv, CountedOrNew
    <3>5. (CompletedIn(read.got.window) \cap read.newest)' = completed \cap read.newest
      BY <2>2, <2>3, <3>3
    <3>. HIDE DEF completed, created
    <3>. QED
      <4>1. read'.step = 9 /\ ~(9 \in 5..7) /\ ~(9 = 8)
        BY <3>3
      <4>2. read'.got.created <= read'.got.all + Cardinality(read'.newer)
        BY <2>2, <3>3, <3>4
      <4>3. read'.got.completed <=
              read'.got.created + Cardinality((CompletedIn(read.got.window) \cap read.newest)')
        BY <2>2, <3>2, <3>5 DEF completed
      <4>. QED
        BY <4>1, <4>2, <4>3 DEF CountedOrNew
  <2>5. ClockReadInOrder' /\ Accounted'
    BY <1>8, <1>12, <1>14, <2>2 DEF Returned
  <2>. QED
    BY <1>1, <1>2, <2>2, <2>4, <2>5, StatsKeeps
<1>. QED
  BY <1>5, <1>6, <1>7, <1>9, <1>10, <1>11, <1>13, <1>14, QueryReturns

------------------------------------------------------------------------------
(* A list, page by page. *)

\* A list is asked for: no row is seen, and no page turned.
LEMMA BeginListKeeps ==
    ASSUME ReportsInv, NEW filter \in Statuses \cup {NoFilter}, BeginList(filter)
    PROVE  ReportsInv'
<1>. UNCHANGED <<now, incidents, inspections>>
  BY DEF BeginList
<1>1. Tables'
  BY ReadTypes DEF ReportsInv, Tables
<1>2. /\ read' \in Listing /\ read'.filter = filter /\ read'.page = 1 /\ read'.phase = "count"
      /\ read'.stayed = Matching(incidents, filter)
  BY DEF BeginList, Listing, Matching
<1>3. SeenOrAhead'
  <2>1. ASSUME NEW id \in read'.stayed
        PROVE  (read'.page - 1) * PageSize <= Cardinality(Ahead(Match', id))
    <3>1. Ahead(Match', id) \in SUBSET Incidents
      BY DEF Ahead, Match, Matching
    <3>2. Cardinality(Ahead(Match', id)) \in Nat
      BY <3>1, Counted
    <3>3. (read'.page - 1) * PageSize = 0
      BY <1>2, ReportsAssumption
    <3>. QED
      BY <3>2, <3>3
  <2>2. read'.stayed \subseteq Match'
    BY <1>2 DEF Match, Matching
  <2>. QED
    BY <1>2, <2>1, <2>2 DEF SeenOrAhead
<1>4. PagesComplete'
  BY <1>2 DEF PagesComplete, Paging
<1>. QED
  BY <1>1, <1>2, <1>3, <1>4, ListKeeps

\* The rows are counted anew for each page.
LEMMA CountRowsKeeps ==
    ASSUME ReportsInv, CountRows
    PROVE  ReportsInv'
<1>. UNCHANGED <<now, incidents, inspections>>
  BY DEF CountRows
<1>1. Tables' /\ Turning /\ read \in Listing /\ read.phase = "count"
  BY ReadTypes DEF ReportsInv, Tables, CountRows, Paging, Turning
<1>2. Match \in SUBSET Incidents
  BY DEF Match, Matching
<1>3. Cardinality(Match) \in Nat
  BY <1>2, Counted
<1>4. /\ read' \in Listing /\ read'.filter = read.filter /\ read'.page = read.page
      /\ read'.phase = "select" /\ read'.total = Cardinality(Match) /\ read'.seen = read.seen
      /\ read'.stayed = read.stayed /\ read'.shrank = read.shrank
  <2>1. ASSUME NEW pushed \in BOOLEAN, NEW total \in Nat, NEW n,
               n = [read EXCEPT !.phase = "select", !.pushed = pushed, !.total = total]
        PROVE  /\ n \in Listing /\ n.filter = read.filter /\ n.page = read.page
               /\ n.phase = "select" /\ n.total = total /\ n.seen = read.seen
               /\ n.stayed = read.stayed /\ n.shrank = read.shrank
    BY <1>1, <2>1 DEF Listing
  <2>2. FALSE \in BOOLEAN
        /\ read' = [read EXCEPT !.phase = "select", !.pushed = FALSE, !.total = Cardinality(Match)]
    BY DEF CountRows, Match
  <2>. QED
    BY <1>3, <2>1, <2>2, Zenon
<1>5. Match' = Match
  BY <1>4 DEF Match
<1>6. SeenOrAhead'
  BY <1>1, <1>4, <1>5 DEF ReportsInv, SeenOrAhead
<1>7. PagesComplete'
  BY <1>4 DEF PagesComplete, Paging
<1>. QED
  BY <1>1, <1>4, <1>6, <1>7, ListKeeps

\* The page turned adds the rows at its positions to those seen.
LEMMA SelectRowsKeeps ==
    ASSUME ReportsInv, SelectRows
    PROVE  ReportsInv'
<1>. UNCHANGED <<now, incidents, inspections>>
  BY DEF SelectRows
<1>1. Tables' /\ Turning /\ read \in Listing /\ read.phase = "select"
  BY ReadTypes DEF ReportsInv, Tables, SelectRows, Paging, Turning
<1>2. PICK order \in Orders(Match) :
        LET seen == read.seen \cup PageOf(order, read.page) IN
        read' = IF read.page * PageSize < read.total
                THEN [read EXCEPT !.seen = seen, !.page = @ + 1, !.phase = "count"]
                ELSE [read EXCEPT !.seen = seen, !.phase = "done"]
  BY DEF SelectRows, Match
<1>. DEFINE seen == read.seen \cup PageOf(order, read.page)
            last == ~(read.page * PageSize < read.total)
<1>3. Match \in SUBSET Incidents /\ seen \in SUBSET Incidents
  <2>1. Match \in SUBSET Incidents
    BY DEF Match, Matching
  <2>2. PageOf(order, read.page) \subseteq Match
    BY DEF PageOf, Orders
  <2>. QED
    BY <1>1, <2>1, <2>2 DEF Listing
<1>4. /\ read.page \in Nat \ {0} /\ read.total \in Nat /\ PageSize \in Nat \ {0}
      /\ read.page * PageSize \in Nat /\ (read.page - 1) * PageSize \in Nat
      /\ (read.page + 1 - 1) * PageSize = read.page * PageSize
  BY <1>1, ReportsAssumption DEF Listing
<1>. HIDE DEF seen
<1>5. /\ read' \in Listing /\ read'.filter = read.filter
      /\ read'.phase = IF last THEN "done" ELSE "count"
      /\ read'.page = IF last THEN read.page ELSE read.page + 1
      /\ read'.total = read.total /\ read'.seen = seen
      /\ read'.stayed = read.stayed /\ read'.shrank = read.shrank /\ read'.pushed = read.pushed
  <2>1. CASE last
    <3>1. read' = [read EXCEPT !.seen = seen, !.phase = "done"]
      BY <1>2, <2>1 DEF seen
    <3>. QED
      BY <1>1, <1>3, <2>1, <3>1 DEF Listing
  <2>2. CASE ~last
    <3>1. read' = [read EXCEPT !.seen = seen, !.page = @ + 1, !.phase = "count"]
      BY <1>2, <2>2 DEF seen
    <3>2. read.page + 1 \in Nat \ {0}
      BY <1>4
    <3>. QED
      BY <1>1, <1>3, <2>2, <3>1, <3>2 DEF Listing
  <2>. QED
    BY <2>1, <2>2
<1>6. Match' = Match
  BY <1>5 DEF Match
\* Whoever is not seen with this page comes after it.
<1>7. ASSUME ~read.shrank, NEW id \in read.stayed, Untied(id), id \notin seen
      PROVE  /\ read.page * PageSize <= Cardinality(Ahead(Match, id))
             /\ Cardinality(Ahead(Match, id)) \in Nat
             /\ Cardinality(Ahead(Match, id)) < Cardinality(Match)
  <2>1. id \in Match /\ id \notin read.seen /\ id \notin PageOf(order, read.page)
    BY <1>1, <1>7 DEF ReportsInv, SeenOrAhead, seen
  <2>2. (read.page - 1) * PageSize <= Cardinality(Ahead(Match, id))
    BY <1>1, <1>7, <2>1 DEF ReportsInv, SeenOrAhead
  <2>3. Ahead(Match, id) \in SUBSET Incidents
    BY <1>3 DEF Ahead
  <2>4. Cardinality(Ahead(Match, id)) \in Nat /\ Cardinality(Match) \in Nat
    BY <1>3, <2>3, Counted
  <2>5. ~(Cardinality(Ahead(Match, id)) < read.page * PageSize)
    BY <1>2, <1>3, <1>4, <1>7, <2>1, <2>2, OnItsPage
  <2>6. Cardinality(Ahead(Match, id)) + 1 \in 1..Cardinality(Match)
    <3>1. order \in Orders(Match) /\ id \in Match /\ Untied(id)
      BY <1>2, <1>7, <2>1
    <3>2. /\ Cardinality(Ahead(Match, id)) + 1 \in DOMAIN order
          /\ DOMAIN order = 1..Cardinality(Match)
      BY <1>3, <3>1, Position
    <3>. QED
      BY <3>2
  <2>. QED
    BY <1>4, <2>4, <2>5, <2>6
<1>8. SeenOrAhead'
  <2>. SUFFICES ASSUME ~read.shrank PROVE SeenOrAhead'
    BY <1>5 DEF SeenOrAhead
  <2>1. read'.stayed \subseteq Match'
    BY <1>1, <1>5, <1>6 DEF ReportsInv, SeenOrAhead
  <2>2. ASSUME ~last, NEW id \in read.stayed, Untied(id), id \notin seen
        PROVE  (read'.page - 1) * PageSize <= Cardinality(Ahead(Match', id))
    <3>1. read.page * PageSize <= Cardinality(Ahead(Match, id))
      BY <1>7, <2>2
    <3>2. (read'.page - 1) * PageSize = read.page * PageSize
      BY <1>4, <1>5, <2>2
    <3>. QED
      BY <1>6, <3>1, <3>2
  <2>. HIDE DEF last
  <2>. QED
    BY <1>5, <2>1, <2>2 DEF SeenOrAhead
<1>9. PagesComplete'
  <2>. SUFFICES ASSUME last, ~read.shrank, ~read.pushed, NEW id \in read.stayed, Untied(id)
                PROVE  id \in seen
    BY <1>5 DEF PagesComplete, Paging
  <2>1. read.total = Cardinality(Match)
    BY <1>1 DEF ReportsInv, SeenOrAhead
  <2>. QED
    BY <1>4, <1>7, <2>1
<1>. QED
  BY <1>1, <1>5, <1>8, <1>9, ListKeeps

------------------------------------------------------------------------------
(* The invariant, and what it shows. *)

\* No read is in progress at the start.
LEMMA ReportsStart == Init => ReportsInv
<1>. SUFFICES ASSUME Init PROVE ReportsInv
  OBVIOUS
<1>1. TypeOK
  BY ReportsAssumption DEF Init, TypeOK, Months
<1>. QED
  BY <1>1 DEF Init, ReportsInv, ClockReadInOrder, Accounted, CountedOrNew,
              SeenOrAhead, PagesComplete, Gathering, Turning, Paging

\* Every step keeps the invariant.
LEMMA ReportsStepKeeps == ReportsInv /\ [Next]_vars => ReportsInv'
<1>. SUFFICES ASSUME ReportsInv, [Next]_vars PROVE ReportsInv'
  OBVIOUS
<1>1. CASE Write
  BY <1>1, WriteKeeps
<1>2. CASE Tick
  BY <1>2, TickKeeps
<1>3. CASE BeginStats
  BY <1>3, BeginStatsKeeps
<1>4. ASSUME NEW filter \in Statuses \cup {NoFilter}, BeginList(filter) PROVE ReportsInv'
  BY <1>4, BeginListKeeps
<1>5. CASE Query
  BY <1>5, QueryKeeps
<1>6. CASE CountRows
  BY <1>6, CountRowsKeeps
<1>7. CASE SelectRows
  BY <1>7, SelectRowsKeeps
<1>8. CASE ReadFails
  <2>1. Tables' /\ read' = NoRead
    BY <1>8, ReadTypes DEF ReadFails, ReportsInv, Tables
  <2>. QED
    BY <2>1, NoReadKeeps
<1>9. CASE UNCHANGED vars
  BY <1>9 DEF vars, ReportsInv, TypeOK, ClockReadInOrder, Accounted, CountedOrNew,
              SeenOrAhead, PagesComplete, Gathering, Turning, Paging, Match, Matching,
              Reported, Planned, CreatedIn, CompletedIn
<1>. QED
  BY <1>1, <1>2, <1>3, <1>4, <1>5, <1>6, <1>7, <1>8, <1>9 DEF Next, Reading

\* The inductive invariant of Reports holds in every reachable state.
THEOREM ReportsInvariance == Spec => []ReportsInv
BY ReportsStart, ReportsStepKeeps, PTL DEF Spec

\* Tables and reads are of their types; in particular the month the rate is
\* of is a month, though it is put together from two readings of the clock.
THEOREM ReportsTypeCorrect == Spec => []TypeOK
<1>1. ReportsInv => TypeOK
  BY DEF ReportsInv
<1>. QED
  BY <1>1, ReportsInvariance, PTL

\* A dashboard is answered after its eighth query.
LEMMA AnsweredStats ==
    ASSUME ReportsInv, Answered
    PROVE  Gathering /\ read \in Stats /\ read.got \in Got /\ read.step = 9
<1>1. Len(Queries) = 8
  BY DEF Queries
<1>2. Gathering
  BY DEF Answered, Gathering
<1>3. read \in Stats
  BY <1>2, ReadTypes DEF ReportsInv
<1>. QED
  BY <1>1, <1>2, <1>3 DEF Answered, Stats, Got

\* The figures of a dashboard fit together although they are separate queries:
\* there was one set of incidents that the distribution is of, and all others
\* are counts of parts of it or of what arrived since.
THEOREM FiguresFitTogether == Spec => []FiguresAgree
<1>1. ReportsInv => FiguresAgree
  <2>. SUFFICES ASSUME ReportsInv, Answered
                PROVE  /\ read.got.trend <= Total(read.got.distribution)
                       /\ \A v \in Severities :
                            Cardinality(OfSeverity(read.got.pending \ read.arrived, v))
                                <= read.got.distribution[v]
    BY DEF FiguresAgree
  <2>1. Gathering /\ read.got \in Got /\ read.step = 9
    BY AnsweredStats
  <2>2. PICK D \in SUBSET Incidents :
            Covers(D, read.got) /\ read.got.pending \ read.arrived \subseteq D
    BY <2>1 DEF ReportsInv, Accounted
  <2>3. read.got.trend <= Total(read.got.distribution)
    <3>1. /\ Total(read.got.distribution) \in Nat
          /\ Cardinality(D) <= Total(read.got.distribution)
      BY <2>1, <2>2, TotalCounts DEF Covers, Got
    <3>2. read.got.trend <= Cardinality(D) /\ read.got.trend \in Nat /\ Cardinality(D) \in Nat
      BY <2>1, <2>2, Counted DEF Covers, Got
    <3>. QED
      BY <3>1, <3>2
  <2>4. ASSUME NEW v \in Severities
        PROVE  Cardinality(OfSeverity(read.got.pending \ read.arrived, v))
                  <= read.got.distribution[v]
    <3>1. /\ OfSeverity(read.got.pending \ read.arrived, v) \in SUBSET Incidents
          /\ OfSeverity(D, v) \in SUBSET Incidents
          /\ OfSeverity(read.got.pending \ read.arrived, v) \subseteq OfSeverity(D, v)
      BY <2>2 DEF OfSeverity
    <3>2. read.got.distribution[v] = Cardinality(OfSeverity(D, v))
      BY <2>2 DEF Covers
    <3>. QED
      BY <3>1, <3>2, Counted
  <2>. QED
    BY <2>3, <2>4
<1>. QED
  BY <1>1, ReportsInvariance, PTL

\* The counts behind the completion rate exceed one another only by what was
\* created between them, however many writers there are: above 100 per cent
\* by no more than was both created and completed between the last two.
THEOREM RateIsShareOfAll == Spec => []RateIsAShare
<1>1. ReportsInv => RateIsAShare
  <2>. SUFFICES ASSUME ReportsInv, Answered
                PROVE  RateIsAShare
    BY DEF RateIsAShare
  <2>1. Gathering /\ read.step = 9
    BY AnsweredStats
  <2>. QED
    BY <2>1 DEF ReportsInv, CountedOrNew, RateIsAShare
<1>. QED
  BY <1>1, ReportsInvariance, PTL

\* Within a year, the rate is of a month that the clock was in during the
\* request.
THEOREM RateOfAMonthOfTheRequest == Spec => []RateOfThisMonth
<1>1. ReportsInv => RateOfThisMonth
  <2>. SUFFICES ASSUME ReportsInv, Answered, Year(read.since) = Year(now)
                PROVE  read.got.window \in read.since..now
    BY DEF RateOfThisMonth
  <2>1. Gathering /\ read \in Stats /\ read.got \in Got /\ read.step = 9
    BY AnsweredStats
  <2>2. now \in Nat /\ read.since \in Nat /\ read.got.year \in Nat
    BY <2>1, ReportsAssumption DEF ReportsInv, TypeOK, Stats, Got, Months
  <2>3. PICK t \in read.since..now :
            read.got.year <= Year(t) /\ read.got.window = Window(read.got.year, t)
    BY <2>1 DEF ReportsInv, ClockReadInOrder
  <2>4. Year(read.since) <= read.got.year /\ read.got.year <= Year(now)
    BY <2>1 DEF ReportsInv, ClockReadInOrder
  <2>5. read.got.year = Year(t)
    <3>1. t \in Nat /\ read.since <= t /\ t <= now
      BY <2>2
    <3>2. Year(t) <= Year(now) /\ Year(t) \in Nat /\ Year(now) \in Nat
      BY <2>2, <3>1, YearsInOrder, Calendar
    <3>. QED
      BY <2>2, <2>3, <2>4, <3>2
  <2>6. read.got.window = t
    BY <2>2, <2>3, <2>5, Calendar
  <2>. QED
    BY <2>3, <2>6
<1>. QED
  BY <1>1, ReportsInvariance, PTL

\* The reader who turns to the last page has seen every untied row that
\* matched all along, if none left the list and none came in after its COUNT.
THEOREM PagesAreComplete == Spec => []PagesComplete
<1>1. ReportsInv => PagesComplete
  BY DEF ReportsInv
<1>. QED
  BY <1>1, ReportsInvariance, PTL

------------------------------------------------------------------------------
(* WebClient: the invariant. *)

\* A request about an incident or an inspection names one.
Addressed ==
    \A r \in Slots : InFlight(r) /\ flight[r].kind \notin {"login", "list"} =>
        flight[r].id \in Ids

LoggedOut == page = "login" <=> session = 0

LiveItems ==
    \A r \in Slots : InFlight(r) /\ flight[r].live /\ flight[r].kind = "items" =>
        page = "inspections"

ItemsOfDialog == ui.exec # NoId => ui.items = ui.exec

\* A request that no logout or second login has left behind is of the session
\* there is, or is the login when there is none.
OwnSession ==
    \A r \in Slots : InFlight(r) /\ ~flight[r].stray =>
        /\ flight[r].session = session
        /\ session = 0 => flight[r].kind = "login"

\* What an acknowledgement tells has been written.
ToldOfWrites ==
    /\ \A id \in Ids : ui.told[id] <= writes[id]
    /\ \A r \in Slots :
        InFlight(r) /\ flight[r].kind = "act" /\ flight[r].stage = "ok" =>
            flight[r].version <= writes[flight[r].id]

\* What the incident dialog waits for.
Awaited(r) == InFlight(r) /\ flight[r].live /\ flight[r].kind \in {"load", "act"}

ShowsTruth == ui.shown = ui.detail /\ ui.version >= ui.told[ui.detail]

\* A request for the dialog of a user who waits: unless a load has failed it is
\* about the incident of the dialog, and an operation was asked for with the
\* truth in view; a load of this incident that has come brings the truth.
BringsTruth(r) ==
    /\ ~ui.failed =>
        flight[r].id = ui.detail /\ (flight[r].kind = "act" => ShowsTruth)
    /\ flight[r].kind = "load" /\ flight[r].stage = "ok" /\ flight[r].id = ui.detail =>
        flight[r].version >= ui.told[ui.detail]

OneAwaited ==
    ui.detail # NoId /\ ui.calm =>
        /\ \A r, q \in Slots : Awaited(r) /\ Awaited(q) => r = q
        /\ \A r \in Slots : Awaited(r) => BringsTruth(r)
        /\ ~Busy /\ ~ui.failed => ShowsTruth

TabInv ==
    /\ TabTypeOK /\ Addressed /\ LoggedOut /\ LiveItems /\ ItemsOfDialog
    /\ ExecutesItsItems /\ OwnSession /\ ToldOfWrites /\ OneAwaited

UI == [detail: Ids \cup {NoId}, shown: Ids \cup {NoId},
       version: 0..MaxWrites, exec: Ids \cup {NoId},
       items: Ids \cup {NoId}, told: [Ids -> 0..MaxWrites], calm: BOOLEAN, failed: BOOLEAN]

------------------------------------------------------------------------------

\* A page as it is first shown has no dialog open and was told nothing.
LEMMA BlankPage ==
    /\ Blank \in UI
    /\ Blank.detail = NoId /\ Blank.exec = NoId
    /\ \A id \in Ids : Blank.told[id] = 0
BY ClientAssumption DEF Blank, UI

\* What is in flight, field by field.
LEMMA RequestTypes ==
    ASSUME NEW q \in Request
    PROVE  /\ q # NoRequest
           /\ q.kind \in Kinds /\ q.id \in Ids \cup {NoId} /\ q.items \in Ids \cup {NoId}
           /\ q.session \in 0..MaxSessions /\ q.live \in BOOLEAN /\ q.stray \in BOOLEAN
           /\ q.stage \in {"sent", "ok", "refused", "unauthorized"}
           /\ q.version \in 0..MaxWrites
BY ClientAssumption DEF Request

\* What is in flight is a request.
LEMMA InFlightTypes ==
    ASSUME TabTypeOK, NEW r \in Slots, InFlight(r)
    PROVE  flight[r] \in Request
BY DEF TabTypeOK, InFlight

\* A request as it is made, and as the user sends it.
LEMMA NewRequest ==
    ASSUME TabTypeOK, NEW kind \in Kinds, NEW id \in Ids \cup {NoId},
           NEW items \in Ids \cup {NoId}, NEW live \in BOOLEAN, NEW stray \in BOOLEAN,
           NEW q, q = New(kind, id, items, live, stray)
    PROVE  /\ q \in Request /\ q # NoRequest
           /\ q.kind = kind /\ q.id = id /\ q.items = items /\ q.live = live
           /\ q.stray = stray /\ q.session = session /\ q.stage = "sent"
<1>. session \in 0..MaxSessions /\ 0 \in 0..MaxWrites
  BY ClientAssumption DEF TabTypeOK
<1>. QED
  BY ClientAssumption DEF New, Request

\* A request q put into flight in slot r.
Sent(r, q, kind, id, items) ==
    /\ flight' = [flight EXCEPT ![r] = q]
    /\ q \in Request /\ q # NoRequest /\ q.kind = kind /\ q.id = id /\ q.items = items
    /\ q.live /\ ~q.stray /\ q.session = session /\ q.stage = "sent"

\* Whoever sends puts such a request into flight.
LEMMA SentRequest ==
    ASSUME TabInv, NEW r \in Slots, NEW kind \in Kinds, NEW id \in Ids \cup {NoId},
           NEW items \in Ids \cup {NoId}, Send(r, kind, id, items)
    PROVE  \E q : Sent(r, q, kind, id, items)
<1>. DEFINE q == New(kind, id, items, TRUE, FALSE)
<1>1. \A live, stray \in BOOLEAN :
        LET n == New(kind, id, items, live, stray) IN
        /\ n \in Request /\ n # NoRequest
        /\ n.kind = kind /\ n.id = id /\ n.items = items /\ n.live = live
        /\ n.stray = stray /\ n.session = session /\ n.stage = "sent"
  BY NewRequest DEF TabInv
<1>2. /\ q \in Request /\ q # NoRequest
      /\ q.kind = kind /\ q.id = id /\ q.items = items /\ q.live = TRUE
      /\ q.stray = FALSE /\ q.session = session /\ q.stage = "sent"
  BY <1>1, Zenon
<1>3. flight' = [flight EXCEPT ![r] = q]
  BY DEF Send
<1>4. Sent(r, q, kind, id, items)
  BY <1>2, <1>3 DEF Sent
<1>. QED
  BY <1>4

\* What may be put into flight, and what the page may become.
Fits(q) ==
    /\ q \in Request /\ q # NoRequest /\ q.stage = "sent"
    /\ q.kind \notin {"login", "list"} => q.id \in Ids
    /\ q.live /\ q.kind = "items" => page = "inspections"
    /\ q.kind = "execute" => q.items = q.id
    /\ ~q.stray => q.session = session /\ (session = 0 => q.kind = "login")

Shows(view) ==
    /\ view \in UI
    /\ page # "incidents" => view.detail = NoId
    /\ page # "inspections" => view.exec = NoId
    /\ view.exec # NoId => view.items = view.exec
    /\ \A id \in Ids : view.told[id] <= writes[id]

\* The page as it is, is such a page.
LEMMA UiShows == TabInv => Shows(ui)
BY DEF TabInv, TabTypeOK, UI, Shows, ItemsOfDialog, ToldOfWrites

\* A step of the page, which sends at most one request, drops one, or sends
\* one in the place of another, keeps all but what the dialog waits for.
LEMMA PageStep ==
    ASSUME TabInv, UNCHANGED <<writes, sessions, session, page>>, Shows(ui'),
           \/ UNCHANGED flight
           \/ \E r \in Slots : \E q :
                /\ q = NoRequest \/ Fits(q)
                /\ flight' = [flight EXCEPT ![r] = q]
    PROVE  /\ TabTypeOK' /\ Addressed' /\ LoggedOut' /\ LiveItems' /\ ItemsOfDialog'
           /\ ExecutesItsItems' /\ OwnSession' /\ ToldOfWrites'
<1>1. ASSUME NEW p \in Slots
      PROVE  flight'[p] \in {flight[p], NoRequest} \/ Fits(flight'[p])
  BY DEF TabInv, TabTypeOK
<1>2. TabTypeOK'
  <2>1. flight' \in [Slots -> Request \cup {NoRequest}]
    BY <1>1 DEF TabInv, TabTypeOK, Fits
  <2>. QED
    BY <2>1 DEF TabInv, TabTypeOK, UI, Shows
<1>3. Addressed' /\ LiveItems' /\ ExecutesItsItems'
  BY <1>1 DEF TabInv, Addressed, LiveItems, ExecutesItsItems, InFlight, Fits
<1>4. LoggedOut' /\ ItemsOfDialog'
  BY DEF TabInv, LoggedOut, ItemsOfDialog, Shows
<1>5. OwnSession'
  BY <1>1 DEF TabInv, OwnSession, InFlight, Fits
<1>6. ToldOfWrites'
  BY <1>1 DEF TabInv, ToldOfWrites, InFlight, Fits, Shows
<1>. QED
  BY <1>2, <1>3, <1>4, <1>5, <1>6

\* The user sends a request.
LEMMA SendKeeps ==
    ASSUME TabInv, NEW r \in Slots, NEW kind \in Kinds, NEW id \in Ids \cup {NoId},
           NEW items \in Ids \cup {NoId}, Send(r, kind, id, items),
           UNCHANGED <<writes, sessions, session, page>>, Shows(ui'),
           kind \notin {"login", "list"} => id \in Ids,
           kind = "login" \/ page # "login",
           kind = "items" => page = "inspections",
           kind = "execute" => items = id
    PROVE  /\ TabTypeOK' /\ Addressed' /\ LoggedOut' /\ LiveItems' /\ ItemsOfDialog'
           /\ ExecutesItsItems' /\ OwnSession' /\ ToldOfWrites'
<1>1. PICK q : Sent(r, q, kind, id, items)
  BY SentRequest
<1>2. Fits(q)
  BY <1>1 DEF Sent, Fits, TabInv, LoggedOut
<1>3. flight' = [flight EXCEPT ![r] = q]
  BY <1>1 DEF Sent
<1>. QED
  BY <1>2, <1>3, PageStep

\* What the dialog waits for is what it was, when another kind is sent.
LEMMA SendAside ==
    ASSUME TabInv, NEW r \in Slots, NEW kind \in Kinds \ {"load", "act"},
           NEW id \in Ids \cup {NoId}, NEW items \in Ids \cup {NoId},
           Send(r, kind, id, items), UNCHANGED ui
    PROVE  OneAwaited'
<1>1. PICK q : Sent(r, q, kind, id, items)
  BY SentRequest
<1>2. ~InFlight(r)
  BY DEF Send
<1>3. ASSUME NEW p \in Slots
      PROVE  Awaited(p)' <=> Awaited(p) /\ p # r
  BY <1>1, <1>2 DEF Sent, TabInv, TabTypeOK, Awaited, InFlight
<1>4. Busy' <=> Busy
  BY <1>1, <1>2 DEF Sent, TabInv, TabTypeOK, Busy, InFlight
<1>5. ASSUME NEW p \in Slots, p # r
      PROVE  BringsTruth(p)' <=> BringsTruth(p)
  BY <1>1, <1>5 DEF Sent, TabInv, TabTypeOK, BringsTruth, ShowsTruth
<1>. QED
  BY <1>3, <1>4, <1>5 DEF TabInv, OneAwaited, ShowsTruth

\* The details are opened: nothing else is awaited, or the user is not calm.
LEMMA OpenDetailKeeps ==
    ASSUME TabInv, NEW r \in Slots, NEW id \in Ids, OpenDetail(r, id)
    PROVE  TabInv'
<1>. UNCHANGED <<writes, sessions, session, page>>
  BY DEF OpenDetail
<1>1. /\ page = "incidents" /\ Send(r, "load", id, NoId)
      /\ ui' = [ui EXCEPT !.detail = id, !.calm = ~Busy, !.failed = FALSE]
  BY DEF OpenDetail
<1>2. Shows(ui')
  BY <1>1, UiShows DEF Shows, UI, Busy
<1>3. PICK q : Sent(r, q, "load", id, NoId)
  BY <1>1, SentRequest DEF Kinds
<1>4. OneAwaited'
  <2>. SUFFICES ASSUME ui'.calm PROVE OneAwaited'
    BY DEF OneAwaited
  <2>1. ui'.detail = id /\ ~Busy
    BY <1>1, UiShows DEF Shows, UI
  <2>2. \A p \in Slots : Awaited(p)' => p = r
    BY <1>3, <2>1 DEF TabInv, TabTypeOK, Awaited, Busy, InFlight, Sent
  <2>3. Awaited(r)' /\ BringsTruth(r)'
    BY <1>3, <2>1 DEF TabInv, TabTypeOK, Awaited, InFlight, BringsTruth, Sent
  <2>4. Busy'
    BY <2>3 DEF Busy, Awaited
  <2>. QED
    BY <2>2, <2>3, <2>4 DEF OneAwaited
<1>. QED
  BY <1>1, <1>2, <1>4, SendKeeps DEF TabInv, Kinds

\* An operation is asked for on the incident that is shown.
LEMMA ActKeeps ==
    ASSUME TabInv, NEW r \in Slots, Act(r)
    PROVE  TabInv'
<1>. UNCHANGED <<writes, sessions, session, page>>
  BY DEF Act
<1>1. /\ ui.detail # NoId /\ ui.shown # NoId /\ Send(r, "act", ui.shown, NoId)
      /\ ui' = [ui EXCEPT !.calm = ui.calm /\ ~Busy]
  BY DEF Act
<1>2. Shows(ui') /\ ui.shown \in Ids /\ page = "incidents"
  BY <1>1, UiShows DEF Shows, UI, Busy
<1>3. PICK q : Sent(r, q, "act", ui.shown, NoId)
  BY <1>1, <1>2, SentRequest DEF Kinds
<1>4. OneAwaited'
  <2>. SUFFICES ASSUME ui'.calm PROVE OneAwaited'
    BY DEF OneAwaited
  <2>1. ui.calm /\ ~Busy /\ (ui.failed \/ ShowsTruth)
    BY <1>1, UiShows DEF Shows, UI, TabInv, OneAwaited
  <2>2. \A p \in Slots : Awaited(p)' => p = r
    BY <1>3, <2>1 DEF TabInv, TabTypeOK, Awaited, Busy, InFlight, Sent
  <2>3. ui'.failed = ui.failed /\ (ui.failed \/ ShowsTruth')
    BY <1>1, <2>1, UiShows DEF Shows, UI, ShowsTruth
  <2>4. Awaited(r)' /\ BringsTruth(r)'
    BY <1>1, <1>3, <2>1, <2>3, UiShows
       DEF TabInv, TabTypeOK, Awaited, InFlight, BringsTruth, ShowsTruth, Sent, Shows, UI
  <2>5. Busy'
    BY <2>4 DEF Busy, Awaited
  <2>. QED
    BY <2>2, <2>4, <2>5 DEF OneAwaited
<1>. QED
  BY <1>1, <1>2, <1>4, SendKeeps DEF TabInv, Kinds

\* The other requests a user may send.
LEMMA SendAsideKeeps ==
    ASSUME TabInv, NEW r \in Slots,
           \/ SubmitLogin(r) \/ FetchList(r) \/ ConfirmExecute(r)
           \/ \E id \in Ids : OpenExecute(r, id)
    PROVE  TabInv'
<1>. UNCHANGED <<writes, sessions, session, page, ui>>
  BY DEF SubmitLogin, FetchList, ConfirmExecute, OpenExecute
<1>. Shows(ui') /\ Shows(ui)
  BY UiShows
<1>1. CASE SubmitLogin(r)
  BY <1>1, SendKeeps, SendAside DEF SubmitLogin, TabInv, Kinds
<1>2. CASE FetchList(r)
  BY <1>2, SendKeeps, SendAside DEF FetchList, TabInv, Kinds
<1>3. CASE ConfirmExecute(r)
  <2>1. ui.exec \in Ids /\ ui.items = ui.exec /\ page = "inspections"
    BY <1>3 DEF ConfirmExecute, Shows, UI
  <2>. QED
    BY <1>3, <2>1, SendKeeps, SendAside DEF ConfirmExecute, TabInv, Kinds
<1>4. ASSUME NEW id \in Ids, OpenExecute(r, id)
      PROVE  TabInv'
  BY <1>4, SendKeeps, SendAside DEF OpenExecute, TabInv, Kinds
<1>. QED
  BY <1>1, <1>2, <1>3, <1>4

\* Closing a dialog.
LEMMA CloseKeeps ==
    ASSUME TabInv, CloseDetail \/ CancelExecute
    PROVE  TabInv'
<1>. UNCHANGED <<writes, sessions, session, page, flight>>
  BY DEF CloseDetail, CancelExecute
<1>1. Shows(ui')
  BY UiShows DEF CloseDetail, CancelExecute, Shows, UI
<1>2. OneAwaited'
  <2>1. CASE CloseDetail
    <3>1. ui'.detail = NoId
      BY <2>1, UiShows DEF CloseDetail, Shows, UI
    <3>. QED
      BY <3>1 DEF OneAwaited
  <2>2. CASE CancelExecute
    <3>1. /\ ui'.detail = ui.detail /\ ui'.calm = ui.calm /\ ui'.shown = ui.shown
          /\ ui'.version = ui.version /\ ui'.told = ui.told /\ ui'.failed = ui.failed
      BY <2>2, UiShows DEF CancelExecute, Shows, UI
    <3>. QED
      BY <3>1 DEF TabInv, OneAwaited, Awaited, BringsTruth, ShowsTruth, Busy, InFlight
  <2>. QED
    BY <2>1, <2>2
<1>. QED
  BY <1>1, <1>2, PageStep DEF TabInv

\* A request that goes on without its page, and one left behind.
Fades(q, n) ==
    /\ n \in Request /\ n # NoRequest
    /\ n.kind = q.kind /\ n.id = q.id /\ n.items = q.items /\ n.session = q.session
    /\ n.stage = q.stage /\ n.version = q.version
    /\ n.live => q.live
    /\ q.stray => n.stray

\* Losing its page or being left behind changes nothing else in a request.
LEMMA FadedRequest ==
    ASSUME NEW q \in Request
    PROVE  /\ Fades(q, q)
           /\ \A live \in BOOLEAN : (live => q.live) =>
                LET n == [q EXCEPT !.live = live] IN
                Fades(q, n) /\ n.live = live /\ n.stray = q.stray
           /\ \A stray \in BOOLEAN : (q.stray => stray) =>
                LET n == [q EXCEPT !.stray = stray] IN
                Fades(q, n) /\ n.stray = stray /\ n.live = q.live
<1>1. Fades(q, q)
  BY ClientAssumption DEF Fades
<1>2. ASSUME NEW live \in BOOLEAN, live => q.live, NEW n, n = [q EXCEPT !.live = live]
      PROVE  Fades(q, n) /\ n.live = live /\ n.stray = q.stray
  BY <1>2, ClientAssumption DEF Fades, Request
<1>3. ASSUME NEW stray \in BOOLEAN, q.stray => stray, NEW n, n = [q EXCEPT !.stray = stray]
      PROVE  Fades(q, n) /\ n.stray = stray /\ n.live = q.live
  BY <1>3, ClientAssumption DEF Fades, Request
<1>. QED
  BY <1>1, <1>2, <1>3

\* All requests lose their page.
LEMMA OrphanedRequests ==
    ASSUME NEW others \in [Slots -> Request \cup {NoRequest}]
    PROVE  /\ Orphaned(others) \in [Slots -> Request \cup {NoRequest}]
           /\ \A r \in Slots :
                LET n == Orphaned(others)[r] IN
                \/ n = NoRequest
                \/ /\ others[r] \in Request /\ Fades(others[r], n)
                   /\ ~n.live /\ n.stray = others[r].stray
<1>1. ASSUME NEW r \in Slots, others[r] # NoRequest,
             NEW n, n = [others[r] EXCEPT !.live = FALSE]
      PROVE  /\ others[r] \in Request /\ Fades(others[r], n)
             /\ n.live = FALSE /\ n.stray = others[r].stray
  <2>1. others[r] \in Request /\ FALSE \in BOOLEAN
    BY <1>1
  <2>. QED
    BY <1>1, <2>1, FadedRequest, Zenon
<1>2. ASSUME NEW r \in Slots
      PROVE  LET n == Orphaned(others)[r] IN
                \/ n = NoRequest
                \/ /\ others[r] \in Request /\ Fades(others[r], n)
                   /\ ~n.live /\ n.stray = others[r].stray
  BY <1>1 DEF Orphaned
<1>3. Orphaned(others) \in [Slots -> Request \cup {NoRequest}]
  BY <1>1 DEF Orphaned, Fades
<1>. QED
  BY <1>2, <1>3

\* All requests are left behind.
LEMMA StrayedRequests ==
    ASSUME NEW others \in [Slots -> Request \cup {NoRequest}]
    PROVE  /\ Strayed(others) \in [Slots -> Request \cup {NoRequest}]
           /\ \A r \in Slots :
                LET n == Strayed(others)[r] IN
                \/ n = NoRequest
                \/ /\ others[r] \in Request /\ Fades(others[r], n)
                   /\ n.stray /\ n.live = others[r].live
<1>1. ASSUME NEW r \in Slots, others[r] # NoRequest,
             NEW n, n = [others[r] EXCEPT !.stray = TRUE]
      PROVE  /\ others[r] \in Request /\ Fades(others[r], n)
             /\ n.stray = TRUE /\ n.live = others[r].live
  <2>1. others[r] \in Request /\ TRUE \in BOOLEAN
    BY <1>1
  <2>. QED
    BY <1>1, <2>1, FadedRequest, Zenon
<1>2. ASSUME NEW r \in Slots
      PROVE  LET n == Strayed(others)[r] IN
                \/ n = NoRequest
                \/ /\ others[r] \in Request /\ Fades(others[r], n)
                   /\ n.stray /\ n.live = others[r].live
  BY <1>1 DEF Strayed
<1>3. Strayed(others) \in [Slots -> Request \cup {NoRequest}]
  BY <1>1 DEF Strayed, Fades
<1>. QED
  BY <1>2, <1>3

\* Another page, with no dialog open, on which no request in flight is alive.
LEMMA LeavingKeeps ==
    ASSUME TabInv, ui' = Blank, UNCHANGED writes,
           session' \in 0..sessions', sessions' \in 0..MaxSessions, page' \in Pages,
           LoggedOut',
           flight' \in [Slots -> Request \cup {NoRequest}],
           \A r \in Slots : \/ flight'[r] = NoRequest
                            \/ InFlight(r) /\ Fades(flight[r], flight'[r]),
           \/ page' = page
           \/ \A r \in Slots : flight'[r] = NoRequest \/ ~flight'[r].live,
           \/ session' = session
           \/ \A r \in Slots : flight'[r] = NoRequest \/ flight'[r].stray
    PROVE  TabInv'
<1>1. /\ ui' \in UI /\ ui'.detail = NoId /\ ui'.exec = NoId
      /\ \A id \in Ids : ui'.told[id] = 0
  BY BlankPage
<1>2. TabTypeOK'
  <2>1. writes' \in [Ids -> 0..MaxWrites] /\ page' # "login" => session' # 0
    BY DEF TabInv, TabTypeOK, LoggedOut
  <2>. QED
    BY <1>1, <2>1 DEF TabInv, TabTypeOK, UI, LoggedOut
<1>3. Addressed' /\ ExecutesItsItems'
  BY DEF TabInv, Addressed, ExecutesItsItems, InFlight, Fades
<1>4. LiveItems'
  BY DEF TabInv, LiveItems, InFlight, Fades
<1>5. OwnSession'
  BY DEF TabInv, OwnSession, InFlight, Fades
<1>6. ToldOfWrites'
  <2>1. \A id \in Ids : ui'.told[id] <= writes'[id]
    BY <1>1 DEF TabInv, TabTypeOK
  <2>2. ASSUME NEW r \in Slots, InFlight(r)', (flight[r].kind = "act")', (flight[r].stage = "ok")'
        PROVE  (flight[r].version <= writes[flight[r].id])'
    BY <2>2 DEF TabInv, ToldOfWrites, InFlight, Fades
  <2>. QED
    BY <2>1, <2>2 DEF ToldOfWrites
<1>7. ItemsOfDialog' /\ OneAwaited'
  BY <1>1 DEF ItemsOfDialog, OneAwaited
<1>. QED
  BY <1>2, <1>3, <1>4, <1>5, <1>6, <1>7 DEF TabInv

\* Another page.
LEMMA GoKeeps ==
    ASSUME TabInv, NEW to \in Pages, Go(to)
    PROVE  TabInv'
<1>1. /\ session # 0 /\ to # "login" /\ page' = to /\ ui' = Blank
      /\ flight' = Orphaned(flight) /\ UNCHANGED <<writes, sessions, session>>
  BY DEF Go
<1>2. flight \in [Slots -> Request \cup {NoRequest}]
  BY DEF TabInv, TabTypeOK
<1>3. flight' \in [Slots -> Request \cup {NoRequest}]
  BY <1>1, <1>2, OrphanedRequests
<1>4. ASSUME NEW r \in Slots
      PROVE  \/ flight'[r] = NoRequest
             \/ InFlight(r) /\ Fades(flight[r], flight'[r]) /\ ~flight'[r].live
  BY <1>1, <1>2, OrphanedRequests, RequestTypes DEF InFlight
<1>5. /\ session' \in 0..sessions' /\ sessions' \in 0..MaxSessions
      /\ page' \in Pages /\ LoggedOut'
  BY <1>1 DEF TabInv, TabTypeOK, LoggedOut
<1>. QED
  BY <1>1, <1>3, <1>4, <1>5, LeavingKeeps

\* The logout of the menu leaves every request behind.
LEMMA LogoutKeeps ==
    ASSUME TabInv, Logout
    PROVE  TabInv'
<1>1. /\ session' = 0 /\ page' = "login" /\ ui' = Blank
      /\ flight' = Strayed(Orphaned(flight)) /\ UNCHANGED <<writes, sessions>>
  BY DEF Logout
<1>2. flight \in [Slots -> Request \cup {NoRequest}]
  BY DEF TabInv, TabTypeOK
<1>3. /\ Orphaned(flight) \in [Slots -> Request \cup {NoRequest}]
      /\ flight' \in [Slots -> Request \cup {NoRequest}]
  BY <1>1, <1>2, OrphanedRequests, StrayedRequests
<1>4. ASSUME NEW r \in Slots
      PROVE  \/ flight'[r] = NoRequest
             \/ /\ InFlight(r) /\ Fades(flight[r], flight'[r])
                /\ ~flight'[r].live /\ flight'[r].stray
  <2>. DEFINE n == Orphaned(flight)[r]
  <2>1. flight'[r] = NoRequest \/ (n \in Request /\ Fades(n, flight'[r]) /\ flight'[r].stray /\ flight'[r].live = n.live)
    BY <1>1, <1>3, StrayedRequests
  <2>2. n = NoRequest \/ (flight[r] \in Request /\ Fades(flight[r], n) /\ ~n.live)
    BY <1>2, OrphanedRequests
  <2>3. n = NoRequest => n \notin Request
    BY ClientAssumption
  <2>. HIDE DEF n
  <2>. QED
    BY <2>1, <2>2, <2>3, RequestTypes DEF InFlight, Fades
<1>5. /\ session' \in 0..sessions' /\ sessions' \in 0..MaxSessions
      /\ page' \in Pages /\ LoggedOut'
  BY <1>1 DEF TabInv, TabTypeOK, LoggedOut, Pages
<1>. QED
  BY <1>1, <1>3, <1>4, <1>5, LeavingKeeps

\* A login leaves every other request behind: those of the session before,
\* and those without one, which can only be logins.
LEMMA LoggedInKeeps ==
    ASSUME TabInv, NEW r \in Slots, LoggedIn(r)
    PROVE  TabInv'
<1>. DEFINE Left(other) == [flight[other] EXCEPT
                              !.stray = @ \/ session # 0 \/ flight[other].kind = "login"]
            others == [other \in Slots |->
                         IF other = r \/ ~InFlight(other) THEN NoRequest ELSE Left(other)]
<1>1. /\ sessions < MaxSessions /\ sessions' = sessions + 1 /\ session' = sessions + 1
      /\ page' = "home" /\ ui' = Blank /\ flight' = Orphaned(others) /\ UNCHANGED writes
  BY DEF LoggedIn
<1>2. ASSUME NEW other \in Slots, InFlight(other)
      PROVE  /\ flight[other] \in Request /\ Fades(flight[other], Left(other))
             /\ Left(other).stray
  <2>1. flight[other] \in Request
    BY <1>2, InFlightTypes DEF TabInv
  <2>2. flight[other].stray \/ session # 0 \/ flight[other].kind = "login"
    BY <1>2 DEF TabInv, OwnSession
  <2>3. (flight[other].stray \/ session # 0 \/ flight[other].kind = "login") = TRUE
    BY <2>2
  <2>4. Left(other) = [flight[other] EXCEPT !.stray = TRUE]
    BY <2>1, <2>3 DEF Request
  <2>5. TRUE \in BOOLEAN
    OBVIOUS
  <2>6. Fades(flight[other], Left(other)) /\ Left(other).stray = TRUE
    BY <2>1, <2>4, <2>5, FadedRequest, Zenon
  <2>. QED
    BY <2>1, <2>6
<1>3. others \in [Slots -> Request \cup {NoRequest}]
  BY <1>2 DEF Fades
<1>4. ASSUME NEW p \in Slots
      PROVE  others[p] = NoRequest
             \/ (InFlight(p) /\ flight[p] \in Request /\ Fades(flight[p], others[p]) /\ others[p].stray)
  BY <1>2
<1>. HIDE DEF others, Left
<1>5. flight' \in [Slots -> Request \cup {NoRequest}]
  BY <1>1, <1>3, OrphanedRequests
<1>6. ASSUME NEW p \in Slots
      PROVE  \/ flight'[p] = NoRequest
             \/ /\ InFlight(p) /\ Fades(flight[p], flight'[p])
                /\ ~flight'[p].live /\ flight'[p].stray
  <2>1. flight'[p] = NoRequest
        \/ (others[p] \in Request /\ Fades(others[p], flight'[p]) /\ ~flight'[p].live
            /\ flight'[p].stray = others[p].stray)
    BY <1>1, <1>3, OrphanedRequests
  <2>. QED
    BY <1>4, <2>1, RequestTypes DEF Fades
<1>7. /\ session' \in 0..sessions' /\ sessions' \in 0..MaxSessions
      /\ page' \in Pages /\ LoggedOut'
  BY <1>1, ClientAssumption DEF TabInv, TabTypeOK, LoggedOut, Pages
<1>. QED
  BY <1>1, <1>5, <1>6, <1>7, LeavingKeeps

\* A 401 on the login page ends no session, and anywhere else the page is
\* loaded anew and nothing is in flight.
LEMMA ExpelledKeeps ==
    ASSUME TabInv, NEW r \in Slots, Expelled(r)
    PROVE  TabInv'
<1>1. /\ session' = 0 /\ page' = "login" /\ ui' = Blank /\ UNCHANGED <<writes, sessions>>
      /\ flight' = IF page = "login" THEN Without(r) ELSE [other \in Slots |-> NoRequest]
  BY DEF Expelled
<1>2. flight \in [Slots -> Request \cup {NoRequest}]
  BY DEF TabInv, TabTypeOK
<1>3. flight' \in [Slots -> Request \cup {NoRequest}]
  BY <1>1, <1>2 DEF Without
<1>4. ASSUME NEW p \in Slots
      PROVE  flight'[p] = NoRequest \/ (page = "login" /\ InFlight(p) /\ flight'[p] = flight[p])
  BY <1>1, <1>2 DEF Without, InFlight
<1>5. ASSUME NEW p \in Slots
      PROVE  flight'[p] = NoRequest \/ (InFlight(p) /\ Fades(flight[p], flight'[p]))
  BY <1>4, FadedRequest, InFlightTypes DEF TabInv
<1>6. \/ page' = page /\ session' = session
      \/ \A p \in Slots : flight'[p] = NoRequest
  BY <1>1, <1>4 DEF TabInv, LoggedOut
<1>7. /\ session' \in 0..sessions' /\ sessions' \in 0..MaxSessions
      /\ page' \in Pages /\ LoggedOut'
  BY <1>1 DEF TabInv, TabTypeOK, LoggedOut, Pages
<1>. QED
  BY <1>1, <1>3, <1>5, <1>6, <1>7, LeavingKeeps

\* The slot of an answer is emptied.
LEMMA Emptied ==
    ASSUME TabInv, NEW r \in Slots, flight' = Without(r)
    PROVE  /\ \E p \in Slots : \E q :
                /\ q = NoRequest \/ Fits(q)
                /\ flight' = [flight EXCEPT ![p] = q]
           /\ \A p \in Slots : InFlight(p)' <=> InFlight(p) /\ p # r
           /\ \A p \in Slots : p # r => flight'[p] = flight[p]
BY DEF TabInv, TabTypeOK, Without, InFlight

\* The slot of an answer is taken by the next request of the continuation.
LEMMA ChainedRequest ==
    ASSUME TabInv, NEW r \in Slots, InFlight(r),
           NEW kind \in {"load", "list"}, NEW id \in Ids \cup {NoId},
           flight' = Chained(r, kind, id),
           kind = "load" => id \in Ids,
           flight[r].kind # "login"
    PROVE  \E q : /\ Fits(q) /\ flight' = [flight EXCEPT ![r] = q]
                  /\ q.kind = kind /\ q.id = id /\ q.live = flight[r].live
<1>. DEFINE q == New(kind, id, NoId, flight[r].live, flight[r].stray)
<1>1. flight[r] \in Request
  BY InFlightTypes DEF TabInv
<1>2. /\ q \in Request /\ q # NoRequest
      /\ q.kind = kind /\ q.id = id /\ q.live = flight[r].live
      /\ q.stray = flight[r].stray /\ q.session = session /\ q.stage = "sent"
  <2>1. /\ flight[r].live \in BOOLEAN /\ flight[r].stray \in BOOLEAN
        /\ kind \in Kinds /\ NoId \in Ids \cup {NoId} /\ TabTypeOK
    BY <1>1, RequestTypes DEF TabInv, Kinds
  <2>2. \A live, stray \in BOOLEAN :
          LET n == New(kind, id, NoId, live, stray) IN
          /\ n \in Request /\ n # NoRequest
          /\ n.kind = kind /\ n.id = id /\ n.live = live
          /\ n.stray = stray /\ n.session = session /\ n.stage = "sent"
    BY <2>1, NewRequest
  <2>. QED
    BY <2>1, <2>2, Zenon
<1>3. Fits(q)
  <2>1. ~flight[r].stray => session # 0
    BY DEF TabInv, OwnSession
  <2>. HIDE DEF q
  <2>. QED
    BY <1>2, <2>1 DEF Fits
<1>4. flight' = [flight EXCEPT ![r] = q]
  BY DEF Chained
<1>. HIDE DEF q
<1>. QED
  BY <1>2, <1>3, <1>4

\* The incident comes: if the dialog awaits it, it was the only one awaited.
LEMMA LoadedKeeps ==
    ASSUME TabInv, NEW r \in Slots, Loaded(r)
    PROVE  TabInv'
<1>. UNCHANGED <<writes, sessions, session, page>>
  BY DEF Loaded
<1>1. /\ InFlight(r) /\ flight[r].stage = "ok" /\ flight[r].kind = "load"
      /\ flight' = Without(r)
  BY DEF Loaded, Came
<1>2. flight[r] \in Request /\ flight[r].id \in Ids
  BY <1>1, InFlightTypes DEF TabInv, Addressed
<1>3. IF flight[r].live
      THEN ui' = [ui EXCEPT !.shown = flight[r].id, !.version = flight[r].version,
                            !.failed = ui.failed /\ flight[r].id # ui.detail]
      ELSE ui' = ui
  BY DEF Loaded
<1>4. /\ Shows(ui') /\ ui'.detail = ui.detail /\ ui'.calm = ui.calm /\ ui'.told = ui.told
      /\ IF flight[r].live
         THEN /\ ui'.shown = flight[r].id /\ ui'.version = flight[r].version
              /\ ui'.failed <=> ui.failed /\ flight[r].id # ui.detail
         ELSE ui' = ui
  BY <1>2, <1>3, UiShows, RequestTypes DEF Shows, UI
<1>5. OneAwaited'
  <2>. SUFFICES ASSUME ui.detail # NoId, ui.calm PROVE OneAwaited'
    BY <1>4 DEF OneAwaited
  <2>1. \A p \in Slots : Awaited(p)' <=> Awaited(p) /\ p # r
    BY <1>1, Emptied DEF Awaited
  <2>2. CASE Awaited(r)
    <3>1. \A p \in Slots : ~Awaited(p)'
      BY <2>1, <2>2 DEF TabInv, OneAwaited
    <3>2. ~ui'.failed => ShowsTruth'
      BY <1>1, <1>4, <2>2 DEF TabInv, OneAwaited, Awaited, BringsTruth, ShowsTruth
    <3>. QED
      BY <3>1, <3>2 DEF OneAwaited
  <2>3. CASE ~Awaited(r)
    <3>1. ~flight[r].live
      BY <1>1, <2>3 DEF Awaited
    <3>2. ui' = ui /\ (ShowsTruth' <=> ShowsTruth)
      BY <1>3, <3>1 DEF ShowsTruth
    <3>3. \A p \in Slots : p # r => (BringsTruth(p)' <=> BringsTruth(p))
      BY <1>1, <3>2, Emptied DEF BringsTruth
    <3>4. Busy' <=> Busy
      BY <2>1, <2>3 DEF Busy, Awaited
    <3>. QED
      BY <2>1, <2>3, <3>2, <3>3, <3>4 DEF TabInv, OneAwaited
  <2>. QED
    BY <2>2, <2>3
<1>. QED
  BY <1>1, <1>4, <1>5, Emptied, PageStep DEF TabInv

\* An operation is acknowledged: the load that is awaited next brings what
\* the acknowledgement told.
LEMMA ActedKeeps ==
    ASSUME TabInv, NEW r \in Slots, Acted(r)
    PROVE  TabInv'
<1>. UNCHANGED <<writes, sessions, session, page>>
  BY DEF Acted
<1>1. /\ InFlight(r) /\ flight[r].stage = "ok" /\ flight[r].kind = "act"
      /\ flight' = Chained(r, "load", flight[r].id)
  BY DEF Acted, Came
<1>2. flight[r] \in Request /\ flight[r].id \in Ids
  BY <1>1, InFlightTypes DEF TabInv, Addressed
<1>3. IF flight[r].live
      THEN ui' = [ui EXCEPT !.told[flight[r].id] = flight[r].version]
      ELSE ui' = ui
  BY DEF Acted
<1>4. /\ ui'.detail = ui.detail /\ ui'.calm = ui.calm /\ ui'.shown = ui.shown
      /\ ui'.version = ui.version /\ ui'.exec = ui.exec /\ ui'.items = ui.items
      /\ ui'.failed = ui.failed
      /\ \A id \in Ids : ui'.told[id] = IF flight[r].live /\ id = flight[r].id
                                        THEN flight[r].version ELSE ui.told[id]
      /\ ui' \in UI
  BY <1>2, <1>3, UiShows, RequestTypes DEF Shows, UI
<1>5. Shows(ui')
  <2>1. flight[r].version <= writes[flight[r].id]
    BY <1>1 DEF TabInv, ToldOfWrites
  <2>. QED
    BY <1>2, <1>4, <2>1, UiShows DEF Shows
<1>6. PICK q : /\ Fits(q) /\ flight' = [flight EXCEPT ![r] = q]
               /\ q.kind = "load" /\ q.id = flight[r].id /\ q.live = flight[r].live
  BY <1>1, <1>2, ChainedRequest
<1>7. OneAwaited'
  <2>. SUFFICES ASSUME ui.detail # NoId, ui.calm PROVE OneAwaited'
    BY <1>4 DEF OneAwaited
  <2>1. \A p \in Slots : p # r => flight'[p] = flight[p]
    BY <1>6 DEF TabInv, TabTypeOK
  <2>2. flight'[r] = q
    BY <1>6 DEF TabInv, TabTypeOK
  <2>3. \A p \in Slots : Awaited(p)' <=> Awaited(p)
    BY <1>1, <1>6, <2>1, <2>2 DEF Awaited, InFlight, Fits
  <2>4. CASE Awaited(r)
    <3>1. \A p \in Slots : Awaited(p)' => p = r
      BY <2>3, <2>4 DEF TabInv, OneAwaited
    <3>2. BringsTruth(r)'
      <4>1. ~ui.failed => flight[r].id = ui.detail
        BY <2>4 DEF TabInv, OneAwaited, BringsTruth
      <4>. QED
        BY <1>4, <1>6, <2>2, <4>1 DEF BringsTruth, Fits
    <3>3. Busy'
      BY <2>3, <2>4 DEF Busy, Awaited
    <3>. QED
      BY <3>1, <3>2, <3>3 DEF OneAwaited
  <2>5. CASE ~Awaited(r)
    <3>1. ~flight[r].live
      BY <1>1, <2>5 DEF Awaited
    <3>2. ui' = ui
      BY <1>3, <3>1
    <3>3. \A p \in Slots : p # r => (BringsTruth(p)' <=> BringsTruth(p))
      BY <2>1, <3>2 DEF BringsTruth, ShowsTruth
    <3>4. Busy' <=> Busy
      BY <2>3 DEF Busy, Awaited
    <3>. QED
      BY <2>3, <2>5, <3>2, <3>3, <3>4 DEF TabInv, OneAwaited, ShowsTruth
  <2>. QED
    BY <2>4, <2>5
<1>. QED
  BY <1>5, <1>6, <1>7, PageStep DEF TabInv

\* Answers that are not about the incident dialog, and its requests' errors.
LEMMA AsideKeeps ==
    ASSUME TabInv, NEW r \in Slots, InFlight(r),
           UNCHANGED <<writes, sessions, session, page>>, Shows(ui'),
           ui'.detail = ui.detail, ui'.shown = ui.shown, ui'.version = ui.version,
           ui'.told = ui.told, ui'.calm = ui.calm, ui.failed => ui'.failed,
           Awaited(r) => ui'.failed \/ (flight[r].kind = "act"),
           \E q : /\ q = NoRequest \/ (Fits(q) /\ q.kind \notin {"load", "act"})
                  /\ flight' = [flight EXCEPT ![r] = q]
    PROVE  TabInv'
<1>1. PICK q : /\ q = NoRequest \/ (Fits(q) /\ q.kind \notin {"load", "act"})
               /\ flight' = [flight EXCEPT ![r] = q]
  OBVIOUS
<1>2. OneAwaited'
  <2>. SUFFICES ASSUME ui.detail # NoId, ui.calm PROVE OneAwaited'
    BY DEF OneAwaited
  <2>1. \A p \in Slots : p # r => flight'[p] = flight[p]
    BY <1>1 DEF TabInv, TabTypeOK
  <2>2. flight'[r] = q
    BY <1>1 DEF TabInv, TabTypeOK
  <2>3. \A p \in Slots : Awaited(p)' <=> Awaited(p) /\ p # r
    BY <1>1, <2>1, <2>2 DEF Awaited, InFlight, Fits
  <2>4. \A p \in Slots : p # r /\ BringsTruth(p) => BringsTruth(p)'
    BY <2>1 DEF BringsTruth, ShowsTruth
  <2>5. ~Busy' /\ ~ui'.failed => ShowsTruth
    <3>1. CASE Awaited(r)
      BY <3>1 DEF TabInv, OneAwaited, BringsTruth
    <3>2. CASE ~Awaited(r)
      BY <2>3, <3>2 DEF TabInv, OneAwaited, Busy, Awaited
    <3>. QED
      BY <3>1, <3>2
  <2>. QED
    BY <2>3, <2>4, <2>5 DEF TabInv, OneAwaited, ShowsTruth
<1>. QED
  BY <1>1, <1>2, PageStep DEF TabInv

\* The answers that are not about the incident dialog, and errors, which are
\* noted if they leave the dialog without its incident.
LEMMA AnsweredAsideKeeps ==
    ASSUME TabInv, NEW r \in Slots,
           ItemsLoaded(r) \/ Executed(r) \/ Listed(r) \/ Failed(r)
    PROVE  TabInv'
<1>. UNCHANGED <<writes, sessions, session, page>>
  BY DEF ItemsLoaded, Executed, Listed, Failed
<1>1. InFlight(r) /\ flight[r] \in Request
  BY InFlightTypes DEF TabInv, ItemsLoaded, Executed, Listed, Failed, Came
<1>2. CASE ItemsLoaded(r)
  <2>1. flight[r].kind = "items" /\ flight' = [flight EXCEPT ![r] = NoRequest]
    BY <1>2 DEF ItemsLoaded, Without
  <2>2. flight[r].id \in Ids /\ (flight[r].live => page = "inspections")
    BY <1>1, <2>1 DEF TabInv, Addressed, LiveItems
  <2>3. /\ Shows(ui') /\ ui'.detail = ui.detail /\ ui'.shown = ui.shown
        /\ ui'.version = ui.version /\ ui'.told = ui.told /\ ui'.calm = ui.calm
        /\ ui'.failed = ui.failed
    BY <1>2, <2>2, UiShows DEF ItemsLoaded, Shows, UI
  <2>. QED
    BY <1>1, <2>1, <2>3, AsideKeeps DEF Awaited
<1>3. CASE Executed(r)
  <2>1. flight[r].kind = "execute" /\ flight' = Chained(r, "list", NoId)
    BY <1>3 DEF Executed
  <2>2. /\ Shows(ui') /\ ui'.detail = ui.detail /\ ui'.shown = ui.shown
        /\ ui'.version = ui.version /\ ui'.told = ui.told /\ ui'.calm = ui.calm
        /\ ui'.failed = ui.failed
    BY <1>3, UiShows DEF Executed, Shows, UI
  <2>3. PICK q : Fits(q) /\ q.kind = "list" /\ flight' = [flight EXCEPT ![r] = q]
    BY <1>1, <2>1, ChainedRequest
  <2>. QED
    BY <1>1, <2>1, <2>2, <2>3, AsideKeeps DEF Awaited
<1>4. CASE Listed(r)
  <2>1. /\ flight[r].kind = "list" /\ ui' = ui
        /\ flight' = [flight EXCEPT ![r] = NoRequest]
    BY <1>4 DEF Listed, Without
  <2>. QED
    BY <1>1, <2>1, UiShows, AsideKeeps DEF Awaited
<1>5. CASE Failed(r)
  <2>1. flight' = [flight EXCEPT ![r] = NoRequest]
    BY <1>5 DEF Failed, Without
  <2>2. /\ Shows(ui') /\ ui'.detail = ui.detail /\ ui'.shown = ui.shown
        /\ ui'.version = ui.version /\ ui'.told = ui.told
        /\ ui'.calm = ui.calm /\ (ui.failed => ui'.failed)
        /\ flight[r].live /\ flight[r].kind = "load" => ui'.failed
    BY <1>5, UiShows DEF Failed, Shows, UI
  <2>. QED
    BY <1>1, <2>1, <2>2, AsideKeeps DEF Awaited
<1>. QED
  BY <1>2, <1>3, <1>4, <1>5

\* A request with its answer.
LEMMA RepliedRequest ==
    ASSUME TabInv, NEW r \in Slots, InFlight(r), flight[r].stage = "sent",
           NEW stage \in {"ok", "refused", "unauthorized"}, NEW version \in 0..MaxWrites,
           Reply(r, stage, version)
    PROVE  \E n \in Request :
              /\ flight' = [flight EXCEPT ![r] = n]
              /\ n # NoRequest /\ n.stage = stage /\ n.version = version
              /\ n.kind = flight[r].kind /\ n.id = flight[r].id /\ n.items = flight[r].items
              /\ n.session = flight[r].session /\ n.live = flight[r].live
              /\ n.stray = flight[r].stray
<1>1. flight[r] \in Request
  BY InFlightTypes DEF TabInv
<1>. DEFINE n == [flight[r] EXCEPT !.stage = stage, !.version = version]
<1>2. /\ n \in Request /\ n.stage = stage /\ n.version = version
      /\ n.kind = flight[r].kind /\ n.id = flight[r].id /\ n.items = flight[r].items
      /\ n.session = flight[r].session /\ n.live = flight[r].live
      /\ n.stray = flight[r].stray
  BY <1>1 DEF Request
<1>3. flight' = [flight EXCEPT ![r] = n]
  BY <1>1 DEF Reply, TabInv, TabTypeOK
<1>4. n # NoRequest
  BY <1>2, ClientAssumption
<1>. QED
  BY <1>2, <1>3, <1>4

\* The server's part of an answer: what it tells has been written by then.
Writes(r, stage, version) ==
    /\ Reply(r, stage, version)
    /\ writes' \in [Ids -> 0..MaxWrites]
    /\ \A id \in Ids : writes[id] <= writes'[id]
    /\ stage = "ok" /\ flight[r].kind \in {"load", "act"} =>
        version = writes'[flight[r].id]

\* That is what Serve does, whichever the answer.
LEMMA ServeWrites ==
    ASSUME TabInv, NEW r \in Slots, Serve(r)
    PROVE  \E stage \in {"ok", "refused", "unauthorized"}, version \in 0..MaxWrites :
              Writes(r, stage, version)
<1>. DEFINE request == flight[r]
<1>. writes \in [Ids -> 0..MaxWrites] /\ 0 \in 0..MaxWrites /\ InFlight(r)
  BY ClientAssumption DEF TabInv, TabTypeOK, Serve
<1>1. CASE Reply(r, "unauthorized", 0) /\ UNCHANGED writes
  <2>1. Writes(r, "unauthorized", 0)
    BY <1>1 DEF Writes
  <2>. QED
    BY <2>1
<1>2. CASE Reply(r, "refused", 0) /\ UNCHANGED writes
  <2>1. Writes(r, "refused", 0)
    BY <1>2 DEF Writes
  <2>. QED
    BY <2>1
<1>3. ASSUME IF request.kind = "act"
             THEN /\ writes[request.id] < MaxWrites
                  /\ writes' = [writes EXCEPT ![request.id] = @ + 1]
             ELSE UNCHANGED writes,
             Reply(r, "ok", IF request.kind \in {"load", "act"}
                            THEN writes'[request.id] ELSE 0)
      PROVE  \E version \in 0..MaxWrites : Writes(r, "ok", version)
  <2>1. request.kind \in {"load", "act"} => request.id \in Ids
    BY DEF TabInv, Addressed
  <2>2. writes' \in [Ids -> 0..MaxWrites] /\ \A id \in Ids : writes[id] <= writes'[id]
    <3>1. CASE request.kind = "act"
      <4>1. writes[request.id] + 1 \in 0..MaxWrites
        BY <1>3, <2>1, <3>1, ClientAssumption
      <4>. QED
        BY <1>3, <2>1, <3>1, <4>1
    <3>2. CASE request.kind # "act"
      BY <1>3, <3>2
    <3>. QED
      BY <3>1, <3>2
  <2>. DEFINE version == IF request.kind \in {"load", "act"}
                         THEN writes'[request.id] ELSE 0
  <2>3. version \in 0..MaxWrites /\ Reply(r, "ok", version)
    BY <1>3, <2>1, <2>2
  <2>4. Writes(r, "ok", version)
    BY <2>2, <2>3 DEF Writes
  <2>. QED
    BY <2>3, <2>4
<1>. QED
  BY <1>1, <1>2, <1>3 DEF Serve

\* An answer changes what the request in flight carries, and nothing else.
LEMMA ServeKeeps ==
    ASSUME TabInv, NEW r \in Slots, Serve(r)
    PROVE  TabInv'
<1>. UNCHANGED <<sessions, session, page, ui>>
  BY DEF Serve
<1>1. InFlight(r) /\ flight[r].stage = "sent"
  BY DEF Serve
<1>2. PICK stage \in {"ok", "refused", "unauthorized"}, version \in 0..MaxWrites :
        Writes(r, stage, version)
  BY ServeWrites
<1>3. PICK n \in Request :
        /\ flight' = [flight EXCEPT ![r] = n]
        /\ n # NoRequest /\ n.stage = stage /\ n.version = version
        /\ n.kind = flight[r].kind /\ n.id = flight[r].id /\ n.items = flight[r].items
        /\ n.session = flight[r].session /\ n.live = flight[r].live
        /\ n.stray = flight[r].stray
  BY <1>1, <1>2, RepliedRequest DEF Writes
<1>4. flight'[r] = n /\ \A p \in Slots : p # r => flight'[p] = flight[p]
  BY <1>3 DEF TabInv, TabTypeOK
<1>5. TabTypeOK'
  <2>1. flight' \in [Slots -> Request \cup {NoRequest}]
    BY <1>3 DEF TabInv, TabTypeOK
  <2>. QED
    BY <1>2, <2>1 DEF TabInv, TabTypeOK, Writes
<1>6. /\ Addressed' /\ LoggedOut' /\ LiveItems' /\ ItemsOfDialog' /\ ExecutesItsItems'
      /\ OwnSession'
  <2>1. \A p \in Slots : /\ InFlight(p)' <=> InFlight(p)
                         /\ InFlight(p) => 
                            /\ flight'[p].kind = flight[p].kind
                            /\ flight'[p].id = flight[p].id
                            /\ flight'[p].items = flight[p].items
                            /\ flight'[p].session = flight[p].session
                            /\ flight'[p].live = flight[p].live
                            /\ flight'[p].stray = flight[p].stray
    BY <1>1, <1>3, <1>4 DEF InFlight
  <2>2. Addressed'
    BY <2>1 DEF TabInv, Addressed
  <2>3. LoggedOut' /\ ItemsOfDialog'
    BY DEF TabInv, LoggedOut, ItemsOfDialog
  <2>4. LiveItems'
    BY <2>1 DEF TabInv, LiveItems
  <2>5. ExecutesItsItems'
    BY <2>1 DEF TabInv, ExecutesItsItems
  <2>6. OwnSession'
    BY <2>1 DEF TabInv, OwnSession
  <2>. QED
    BY <2>2, <2>3, <2>4, <2>5, <2>6
<1>7. ToldOfWrites'
  <2>1. ASSUME NEW id \in Ids PROVE ui'.told[id] <= writes'[id]
    <3>1. ui.told[id] \in Nat /\ writes[id] \in Nat /\ writes'[id] \in Nat
      BY <1>2 DEF Writes, TabInv, TabTypeOK
    <3>2. ui.told[id] <= writes[id] /\ writes[id] <= writes'[id]
      BY <1>2 DEF Writes, TabInv, ToldOfWrites
    <3>. QED
      BY <3>1, <3>2
  <2>2. ASSUME NEW p \in Slots, flight'[p] # NoRequest, flight'[p].kind = "act",
               flight'[p].stage = "ok"
        PROVE  flight'[p].version <= writes'[flight'[p].id]
    <3>1. flight'[p].id \in Ids
      BY <1>6, <2>2 DEF Addressed, InFlight
    <3>2. CASE p = r
      <4>1. flight'[p].version = writes'[flight'[p].id] /\ writes'[flight'[p].id] \in Nat
        BY <1>2, <1>3, <1>4, <2>2, <3>1, <3>2 DEF Writes
      <4>. QED
        BY <4>1
    <3>3. CASE p # r
      <4>1. flight'[p] = flight[p] /\ flight[p].version <= writes[flight[p].id]
        BY <1>4, <2>2, <3>3 DEF TabInv, ToldOfWrites, InFlight
      <4>2. flight[p].version \in Nat
        BY <2>2, <4>1, InFlightTypes, RequestTypes DEF TabInv, InFlight
      <4>3. /\ writes[flight[p].id] \in Nat /\ writes'[flight[p].id] \in Nat
            /\ writes[flight[p].id] <= writes'[flight[p].id]
        BY <1>2, <3>1, <4>1 DEF Writes, TabInv, TabTypeOK
      <4>. QED
        BY <4>1, <4>2, <4>3
    <3>. QED
      BY <3>2, <3>3
  <2>. QED
    BY <2>1, <2>2 DEF ToldOfWrites, InFlight
<1>8. OneAwaited'
  <2>. SUFFICES ASSUME ui.detail # NoId, ui.calm PROVE OneAwaited'
    BY DEF OneAwaited
  <2>1. \A p \in Slots : Awaited(p)' <=> Awaited(p)
    BY <1>1, <1>3, <1>4 DEF Awaited, InFlight
  <2>2. Busy' <=> Busy
    BY <2>1 DEF Busy, Awaited
  <2>3. ShowsTruth' <=> ShowsTruth
    BY DEF ShowsTruth
  <2>4. ASSUME NEW p \in Slots, Awaited(p) PROVE BringsTruth(p)'
    <3>1. BringsTruth(p)
      BY <2>4 DEF TabInv, OneAwaited
    <3>2. CASE p # r
      BY <1>4, <2>3, <3>1, <3>2 DEF BringsTruth
    <3>3. CASE p = r
      <4>1. ASSUME n.kind = "load", stage = "ok", n.id = ui.detail PROVE version >= ui.told[ui.detail]
        <5>1. ui.detail \in Ids /\ version = writes'[ui.detail]
          BY <1>2, <1>3, <3>1, <3>3, <4>1 DEF Writes, BringsTruth, TabInv, TabTypeOK
        <5>2. ui'.told[ui'.detail] <= writes'[ui'.detail]
          BY <1>7, <5>1 DEF ToldOfWrites
        <5>3. ui.told[ui.detail] \in Nat
          BY <5>1 DEF TabInv, TabTypeOK
        <5>. QED
          BY <5>1, <5>2, <5>3
      <4>. QED
        BY <1>3, <1>4, <2>3, <3>1, <3>3, <4>1 DEF BringsTruth
    <3>. QED
      BY <3>2, <3>3
  <2>. QED
    BY <2>1, <2>2, <2>3, <2>4 DEF TabInv, OneAwaited
<1>. QED
  BY <1>5, <1>6, <1>7, <1>8 DEF TabInv

\* Others write; no answer that has come tells less than it did.
LEMMA WriteElsewhereKeeps ==
    ASSUME TabInv, NEW id \in Ids, WriteElsewhere(id)
    PROVE  TabInv'
<1>. UNCHANGED <<sessions, session, page, ui, flight>>
  BY DEF WriteElsewhere
<1>1. writes' \in [Ids -> 0..MaxWrites] /\ \A i \in Ids : writes[i] <= writes'[i]
  BY ClientAssumption DEF WriteElsewhere, TabInv, TabTypeOK
<1>2. TabTypeOK'
  BY <1>1 DEF TabInv, TabTypeOK
<1>3. /\ Addressed' /\ LoggedOut' /\ LiveItems' /\ ItemsOfDialog' /\ ExecutesItsItems'
      /\ OwnSession'
  BY DEF TabInv, Addressed, LoggedOut, LiveItems, ItemsOfDialog, ExecutesItsItems,
         OwnSession, InFlight
<1>4. ToldOfWrites'
  <2>1. ASSUME NEW i \in Ids, NEW v \in Nat, v <= writes[i] PROVE v <= writes'[i]
    <3>1. writes[i] \in Nat /\ writes'[i] \in Nat /\ writes[i] <= writes'[i]
      BY <1>1 DEF TabInv, TabTypeOK
    <3>. QED
      BY <2>1, <3>1
  <2>2. \A i \in Ids : ui.told[i] \in Nat
    BY DEF TabInv, TabTypeOK
  <2>3. \A r \in Slots : InFlight(r) => flight[r].version \in Nat
    BY InFlightTypes, RequestTypes DEF TabInv
  <2>. QED
    BY <2>1, <2>2, <2>3 DEF TabInv, ToldOfWrites, Addressed, InFlight
<1>5. OneAwaited'
  BY DEF TabInv, OneAwaited, Awaited, BringsTruth, ShowsTruth, Busy, InFlight
<1>. QED
  BY <1>2, <1>3, <1>4, <1>5 DEF TabInv

------------------------------------------------------------------------------

\* The tab starts on the login page with nothing in flight.
LEMMA TabStarts == TabInit => TabInv
<1>. SUFFICES ASSUME TabInit PROVE TabInv
  OBVIOUS
<1>1. \A r \in Slots : ~InFlight(r)
  BY DEF TabInit, InFlight
<1>2. TabTypeOK
  BY BlankPage, ClientAssumption DEF TabInit, TabTypeOK, Pages, UI
<1>. QED
  BY <1>1, <1>2, BlankPage
     DEF TabInit, TabInv, Addressed, LoggedOut, LiveItems, ItemsOfDialog,
         ExecutesItsItems, OwnSession, ToldOfWrites, OneAwaited

\* Every step keeps the invariant.
LEMMA TabStepKeeps == TabInv /\ [TabNext]_tabVars => TabInv'
<1>. SUFFICES ASSUME TabInv, [TabNext]_tabVars PROVE TabInv'
  OBVIOUS
<1>1. ASSUME NEW r \in Slots, User(r) PROVE TabInv'
  BY <1>1, SendAsideKeeps, ActKeeps, OpenDetailKeeps DEF User
<1>2. ASSUME NEW r \in Slots, Serve(r) PROVE TabInv'
  BY <1>2, ServeKeeps
<1>3. ASSUME NEW r \in Slots, Deliver(r) PROVE TabInv'
  BY <1>3, LoggedInKeeps, LoadedKeeps, ActedKeeps, AnsweredAsideKeeps, ExpelledKeeps
     DEF Deliver
<1>4. ASSUME NEW to \in Pages, Go(to) PROVE TabInv'
  BY <1>4, GoKeeps
<1>5. CASE Logout
  BY <1>5, LogoutKeeps
<1>6. CASE CloseDetail \/ CancelExecute
  BY <1>6, CloseKeeps
<1>7. ASSUME NEW id \in Ids, WriteElsewhere(id) PROVE TabInv'
  BY <1>7, WriteElsewhereKeeps
<1>8. CASE UNCHANGED tabVars
  BY <1>8 DEF tabVars, TabInv, TabTypeOK, Addressed, LoggedOut, LiveItems, ItemsOfDialog,
              ExecutesItsItems, OwnSession, ToldOfWrites, OneAwaited, Awaited, BringsTruth,
              ShowsTruth, Busy, InFlight
<1>. QED
  BY <1>1, <1>2, <1>3, <1>4, <1>5, <1>6, <1>7, <1>8 DEF TabNext

\* The inductive invariant holds in every reachable state.
THEOREM TabInvariance == TabSpec => []TabInv
BY TabStarts, TabStepKeeps, PTL DEF TabSpec

\* Every state is of its type; a dialog is open only on its page, and only a
\* user with a session is past the login page.
THEOREM TabTypeCorrect == TabSpec => []TabTypeOK
<1>1. TabInv => TabTypeOK
  BY DEF TabInv
<1>. QED
  BY <1>1, TabInvariance, PTL

\* A user who waits for each answer is shown the incident of the dialog, as
\* new as anything acknowledged here, unless a load has failed since that
\* incident last came.
THEOREM TruthIsSeen == TabSpec => []WaitingUserSeesTruth
<1>1. TabInv => WaitingUserSeesTruth
  BY DEF TabInv, OneAwaited, ShowsTruth, WaitingUserSeesTruth
<1>. QED
  BY <1>1, TabInvariance, PTL

\* An execute request carries the items of the inspection it executes.
THEOREM OwnItemsAreSent == TabSpec => []ExecutesItsItems
<1>1. TabInv => ExecutesItsItems
  BY DEF TabInv
<1>. QED
  BY <1>1, TabInvariance, PTL

\* A 401 that ends a session answers a request of that session, or one that a
\* logout by the menu or a second login has left in flight.
THEOREM SessionsAreKept == TabSpec => SessionKept
<1>1. TabInv /\ [TabNext]_tabVars =>
        [\A r \in Slots : Expelled(r) /\ session # 0 /\ flight[r].session # session
            => flight[r].stray]_tabVars
  BY DEF TabInv, OwnSession, Expelled, Came
<1>. QED
  BY <1>1, TabInvariance, PTL DEF TabSpec, SessionKept

==============================================================================
