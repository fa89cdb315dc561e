------------------------------- MODULE Reports -------------------------------
(***************************************************************************)
(* The two kinds of read that take several queries with no common          *)
(* snapshot: the dashboard, whose Stats handler runs its queries one after *)
(* the other, and the lists, which a reader fetches page by page, each     *)
(* page by a COUNT and a SELECT with OFFSET and LIMIT.  Writers go on in   *)
(* between.  A read changes nothing, so one reader at a time loses         *)
(* nothing.  The lists of incidents, inspections, trainings,               *)
(* certifications and audit entries have the same shape; incidents stand   *)
(* for them.  The last two queries of Stats, over trainings and            *)
(* certifications, are CompletedRate of TrainingService and ExpiringSoon   *)
(* of CertificationService.                                                *)
(***************************************************************************)
EXTENDS Integers, FiniteSets, Sequences, FiniteSetsExt

CONSTANTS
    Incidents,     \* identities of incidents
    Statuses,      \* the statuses an incident may have
    Severities,
    SeverityOf,    \* the severity each incident is reported with
    OccurredAt,    \* the month each incident is reported to have occurred in
    Inspections,   \* identities of inspections
    MonthsPerYear,
    Horizon,       \* the clock stops after this month
    PageSize,
    PendingLimit,  \* LIMIT of the to-be-rectified list
    Absent, NoRow, NoFilter, NoRead

VARIABLES
    now,           \* the month the clock is in
    incidents,     \* the status of each incident, or Absent
    inspections,   \* the row of each inspection, or NoRow
    read           \* the read in progress or last finished

vars == <<now, incidents, inspections, read>>

------------------------------------------------------------------------------
(* Rows, and what the queries select. *)

Months == 0..Horizon
PendingStatuses == {"reported", "investigating"}

\* A failed inspection counts as one that is not completed.
Inspection == [month: Months, status: {"scheduled", "completed"}]

ASSUME ReportsAssumption ==
    /\ IsFiniteSet(Incidents) /\ IsFiniteSet(Inspections) /\ IsFiniteSet(Severities)
    /\ "reported" \in Statuses
    /\ SeverityOf \in [Incidents -> Severities]
    /\ OccurredAt \in [Incidents -> Months]
    /\ {MonthsPerYear, PageSize, PendingLimit} \subseteq Nat \ {0}
    /\ Horizon \in Nat
ASSUME AbsenceAssumption ==
    /\ Absent \notin Statuses /\ NoFilter \notin Statuses
    /\ NoRow \notin Inspection

Year(month) == month \div MonthsPerYear

Reported == {id \in Incidents : incidents[id] # Absent}

\* Trend30: the incidents of the last thirty days, here of this month.
Recent == {id \in Reported : OccurredAt[id] >= now}

\* SeverityDistribution: all incidents, grouped by severity.
OfSeverity(ids, v) == {id \in ids : SeverityOf[id] = v}
CountedReported(v) == Cardinality(OfSeverity(Reported, v))

\* PendingRectification: ordered by the deadline, which only the operation
\* that takes an incident off the list sets, so no order shows which ones
\* the LIMIT cuts off.
Pending == {id \in Reported : incidents[id] \in PendingStatuses}
PendingLists == kSubset(Min({Cardinality(Pending), PendingLimit}), Pending)

\* CompletedRate: year and month are read from the clock one after the other.
WindowZeroBased(year, month) == year * MonthsPerYear + (month % MonthsPerYear) - 1   \* mutant
WindowInJanuary(year, month) == year * MonthsPerYear          \* mutant
Window(year, month) == year * MonthsPerYear + (month % MonthsPerYear)

Planned == {i \in Inspections : inspections[i] # NoRow}
CreatedIn(window) == {i \in Planned : inspections[i].month = window}
CompletedEver(window) ==                                      \* mutant
    {i \in Planned : inspections[i].status = "completed"}
CompletedIn(window) ==
    {i \in CreatedIn(window) : inspections[i].status = "completed"}

------------------------------------------------------------------------------
(* The dashboard. *)

\* The queries of Stats and the two readings of the clock, in their order.
DistributionFirst ==                                          \* mutant
    <<"distribution", "trend", "pending", "all", "year", "window",
      "created", "completed">>
Queries ==
    <<"trend", "distribution", "pending", "all", "year", "window",
      "created", "completed">>

\* What each query may return, given what the earlier ones have.
Results(got) ==
    [trend        |-> {Cardinality(Recent)},
     distribution |-> {[v \in Severities |-> CountedReported(v)]},
     pending      |-> PendingLists,
     all          |-> {Cardinality(Planned)},
     year         |-> {Year(now)},
     window       |-> {Window(got.year, now)},
     created      |-> {Cardinality(CreatedIn(got.window))},
     completed    |-> {Cardinality(CompletedIn(got.window))}]

Nothing ==
    [trend |-> 0, distribution |-> [v \in Severities |-> 0], pending |-> {},
     all |-> 0, year |-> 0, window |-> 0, created |-> 0, completed |-> 0]

\* The rest is history: the month the request began in, the incidents reported
\* since the distribution was read, the inspections created between the count
\* of all and the count of those created, and between that and the count of
\* those completed.
BeginStats ==
    /\ read' = [kind |-> "stats", step |-> 1, got |-> Nothing,
                since |-> now, arrived |-> {}, newer |-> {}, newest |-> {}]
    /\ UNCHANGED <<now, incidents, inspections>>

Asking == read # NoRead /\ read.kind = "stats" /\ read.step <= Len(Queries)

Query ==
    /\ Asking
    /\ LET query == Queries[read.step] IN
       \E result \in Results(read.got)[query] :
          read' = [read EXCEPT !.step = @ + 1, !.got[query] = result]
    /\ UNCHANGED <<now, incidents, inspections>>

Answered == read # NoRead /\ read.kind = "stats" /\ read.step > Len(Queries)

------------------------------------------------------------------------------
(* A list, page by page. *)

Matching(table, filter) ==
    {id \in Incidents : table[id] # Absent /\ filter \in {NoFilter, table[id]}}

\* ORDER BY occurred_at DESC: rows that tie come in any order.
Orders(ids) ==
    {order \in [1..Cardinality(ids) -> ids] :
        \A j, k \in DOMAIN order : j < k =>
            /\ order[j] # order[k]
            /\ OccurredAt[order[j]] >= OccurredAt[order[k]]}

\* OFFSET (page - 1) * size LIMIT size.
PageAfter(order, page) ==                                     \* mutant
    {order[k] : k \in {k \in DOMAIN order :
        page * PageSize < k /\ k <= (page + 1) * PageSize}}
PageOf(order, page) ==
    {order[k] : k \in {k \in DOMAIN order :
        (page - 1) * PageSize < k /\ k <= page * PageSize}}

\* seen is what the reader has got; stayed, shrank and pushed are history:
\* the rows that have matched all along, whether any row stopped matching,
\* and whether one came in between the COUNT and the SELECT of this page.
BeginList(filter) ==
    /\ read' = [kind |-> "list", filter |-> filter, page |-> 1, phase |-> "count",
                total |-> 0, seen |-> {}, stayed |-> Matching(incidents, filter),
                shrank |-> FALSE, pushed |-> FALSE]
    /\ UNCHANGED <<now, incidents, inspections>>

Paging(phase) == read # NoRead /\ read.kind = "list" /\ read.phase = phase

CountRows ==
    /\ Paging("count")
    /\ read' = [read EXCEPT !.phase = "select", !.pushed = FALSE,
                    !.total = Cardinality(Matching(incidents, read.filter))]
    /\ UNCHANGED <<now, incidents, inspections>>

\* The reader turns the page until the last total says there is none left.
SelectRows ==
    /\ Paging("select")
    /\ \E order \in Orders(Matching(incidents, read.filter)) :
        LET seen == read.seen \cup PageOf(order, read.page) IN
        read' = IF read.page * PageSize < read.total
                THEN [read EXCEPT !.seen = seen, !.page = @ + 1, !.phase = "count"]
                ELSE [read EXCEPT !.seen = seen, !.phase = "done"]
    /\ UNCHANGED <<now, incidents, inspections>>

------------------------------------------------------------------------------
(* The writers. *)

\* A read that has its answer is over with the next change of anything.
Finished == Answered \/ Paging("done")
Ongoing == IF Finished THEN NoRead ELSE read

\* What a change of the incident table means for the history of the read.
Observed(table) ==
    IF Ongoing = NoRead THEN NoRead
    ELSE IF read.kind = "stats"
    THEN [read EXCEPT !.arrived =
            IF read.step > 2
            THEN @ \cup {id \in Incidents : incidents[id] = Absent /\ table[id] # Absent}
            ELSE @]
    ELSE LET before == Matching(incidents, read.filter)
             after  == Matching(table, read.filter)
         IN  [read EXCEPT !.stayed = @ \cap after,
                          !.shrank = @ \/ before \ after # {},
                          !.pushed = @ \/ after \ before # {}]

WriteIncident(id, status) ==
    /\ incidents' = [incidents EXCEPT ![id] = status]
    /\ read' = Observed([incidents EXCEPT ![id] = status])
    /\ UNCHANGED <<now, inspections>>

Report(id) == incidents[id] = Absent /\ WriteIncident(id, "reported")

\* A status operation; a stale save may write any status over any other.
SaveIncident(id) ==
    /\ incidents[id] # Absent
    /\ \E status \in Statuses \ {incidents[id]} : WriteIncident(id, status)

\* What a new inspection means for the history of a dashboard.
Noticed(i) ==
    [read EXCEPT !.newer  = IF read.step \in 5..7 THEN @ \cup {i} ELSE @,
                 !.newest = IF read.step = 8 THEN @ \cup {i} ELSE @]

WriteInspection(i, row) ==
    /\ inspections' = [inspections EXCEPT ![i] = row]
    /\ read' = IF Asking /\ inspections[i] = NoRow THEN Noticed(i) ELSE Ongoing
    /\ UNCHANGED <<now, incidents>>

Create(i) ==
    /\ inspections[i] = NoRow
    /\ WriteInspection(i, [month |-> now, status |-> "scheduled"])

Execute(i) ==
    /\ inspections[i] # NoRow /\ inspections[i].status = "scheduled"
    /\ WriteInspection(i, [inspections[i] EXCEPT !.status = "completed"])

Tick ==
    /\ now < Horizon
    /\ now' = now + 1
    /\ read' = Ongoing
    /\ UNCHANGED <<incidents, inspections>>

\* A query fails: the request is answered 500, and the reader begins anew.
ReadFails ==
    /\ read # NoRead
    /\ read' = NoRead
    /\ UNCHANGED <<now, incidents, inspections>>

------------------------------------------------------------------------------

Init ==
    /\ now = 0
    /\ incidents = [id \in Incidents |-> Absent]
    /\ inspections = [i \in Inspections |-> NoRow]
    /\ read = NoRead

Write ==
    \/ \E id \in Incidents : Report(id) \/ SaveIncident(id)
    \/ \E i \in Inspections : Create(i) \/ Execute(i)

Reading ==
    \/ read = NoRead /\ (BeginStats \/ \E f \in Statuses \cup {NoFilter} : BeginList(f))
    \/ Query \/ CountRows \/ SelectRows \/ ReadFails

Next == Write \/ Tick \/ Reading

Spec == Init /\ [][Next]_vars

------------------------------------------------------------------------------
(* Properties. *)

Stats ==
    [kind: {"stats"}, step: 1..(Len(Queries) + 1), since: Months,
     arrived: SUBSET Incidents, newer: SUBSET Inspections, newest: SUBSET Inspections,
     got: [trend: Nat, distribution: [Severities -> Nat], pending: SUBSET Incidents,
           all: Nat, year: Nat, window: Months, created: Nat, completed: Nat]]

Listing ==
    [kind: {"list"}, filter: Statuses \cup {NoFilter}, page: Nat \ {0},
     phase: {"count", "select", "done"}, total: Nat, seen: SUBSET Incidents,
     stayed: SUBSET Incidents, shrank: BOOLEAN, pushed: BOOLEAN]

TypeOK ==
    /\ now \in Months
    /\ incidents \in [Incidents -> Statuses \cup {Absent}]
    /\ inspections \in [Inspections -> Inspection \cup {NoRow}]
    /\ read \in Stats \cup Listing \cup {NoRead}

\* The sum of the figures of a distribution, as the number of points in its
\* bar chart.
Total(distribution) ==
    Cardinality({point \in Severities \X (1..Cardinality(Incidents)) :
                    point[2] <= distribution[point[1]]})

\* The figures of a dashboard fit together, though they are separate queries
\* and incidents are reported in between: its trend shows no more incidents
\* than its distribution, and no incident to be rectified is missing from the
\* distribution, except one reported between those two queries.
FiguresAgree ==
    Answered =>
        /\ read.got.trend <= Total(read.got.distribution)
        /\ \A v \in Severities :
            Cardinality(OfSeverity(read.got.pending \ read.arrived, v))
                <= read.got.distribution[v]

\* The three counts behind the completion rate are taken one after the other
\* while inspections are created and executed, and each may only exceed the
\* one before by what was created in between: the completed exceed the created
\* they are divided by, for a rate above 100, by no more than the inspections
\* of that month both created and completed between these two counts, and the
\* created exceed all inspections by no more than those created between those
\* two.
RateIsAShare ==
    Answered =>
        /\ read.got.completed <=
            read.got.created + Cardinality(CompletedIn(read.got.window) \cap read.newest)
        /\ read.got.created <= read.got.all + Cardinality(read.newer)

\* The month it is the rate of is one the clock was in during the request,
\* unless the year turned meanwhile: year and month come from two readings of
\* the clock, and in between December becomes January of the year before.
RateOfThisMonth ==
    Answered /\ Year(read.since) = Year(now) =>
        read.got.window \in read.since..now

Untied(id) == \A other \in Incidents \ {id} : OccurredAt[other] # OccurredAt[id]

\* A reader who turns the pages to the end has seen every row that matched
\* all along, though each page is cut out of the table as it is by then:
\* new rows only push the others to later pages.  Missed can only be rows
\* that tie with another, rows that move up because one stopped matching
\* the filter, and the row pushed off the last page after its COUNT.
PagesComplete ==
    Paging("done") /\ ~read.shrank /\ ~read.pushed =>
        \A id \in read.stayed : Untied(id) => id \in read.seen

==============================================================================
