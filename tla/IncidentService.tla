--------------------------- MODULE IncidentService ---------------------------
(***************************************************************************)
(* The safety incident service: its table, and the handlers that several   *)
(* requests run at the same time.  Report is one INSERT.  Assign,          *)
(* SubmitRectification and Close each read a row, check its status, change *)
(* the struct in memory and later write the whole row back with Save; no   *)
(* lock, version or transaction ties the write to the read, so another     *)
(* request may write the same row in between.                              *)
(***************************************************************************)
EXTENDS Naturals

CONSTANTS
    Ids,              \* identities the auto-increment key can hand out
    Slots,            \* requests in service at the same time
    Reporters,        \* user ids
    Measures,         \* non-empty rectification texts
    SeverityInputs,   \* severities a request may carry, valid or not
    SeedRows,         \* the table the service starts on
    NoRow, NoCall     \* absence of a row, of a call in progress

VARIABLES
    incidents,   \* the table safety_incidents: a row or NoRow for each id
    pending,     \* pending[s]: the row slot s has changed but not yet saved
    answer,      \* answer[s]: the HTTP status slot s last sent
    reached      \* history: reached[id], every status ever committed for id

vars == <<incidents, pending, answer, reached>>

------------------------------------------------------------------------------
(* Rows, requests and answers. *)

SeverityValues == {"near_miss", "minor", "moderate", "major", "fatal"}

Statuses == {"reported", "investigating", "resolved", "closed"}

NoMeasures == ""

Row == [status: Statuses, severity: SeverityValues,
        measures: Measures \cup {NoMeasures}, reporter: Reporters]

Call == [id: Ids, row: Row]

OK == 200
BadRequest == 400
Conflict == 409
InternalError == 500
NoAnswer == 0

Seeded == {id \in Ids : SeedRows[id] # NoRow}

ASSUME NoMeasuresAssumption == NoMeasures \notin Measures
ASSUME NoRowAssumption == NoRow \notin Row
ASSUME NoCallAssumption == NoCall \notin Call
ASSUME SeedAssumption == SeedRows \in [Ids -> Row \cup {NoRow}]

\* IsValidSeverity: the service's own check; the request binding has the
\* same list, so over HTTP an invalid value is already answered 400.
AnySeverity(sev) == TRUE                               \* mutant
IsValidSeverity(sev) == sev \in SeverityValues

\* The row Report inserts.
NewIncident(rep, sev) ==
    [status |-> "reported", severity |-> sev,
     measures |-> NoMeasures, reporter |-> rep]

\* The checks and the field assignments of the three status operations.
AnyRow(row) == TRUE                                   \* mutant: no check
CanAssign(row) == row.status = "reported"
CanRectify(row) == row.status = "investigating"
CanClose(row) == row.status = "resolved"

AssignedBlank(row) ==                                 \* mutant: blank struct
    [row EXCEPT !.status = "investigating", !.severity = "minor"]
Assigned(row) == [row EXCEPT !.status = "investigating"]
RectifiedBare(row, m) == [row EXCEPT !.status = "resolved"]  \* mutant
Rectified(row, m) == [row EXCEPT !.status = "resolved", !.measures = m]
ClosedRow(row) == [row EXCEPT !.status = "closed"]

------------------------------------------------------------------------------
(* Building blocks of the handlers. *)

Free(s) == pending[s] = NoCall

Respond(s, code) ==
    /\ answer' = [answer EXCEPT ![s] = code]
    /\ pending' = [pending EXCEPT ![s] = NoCall]

Refuse(s, code) ==
    /\ Free(s)
    /\ Respond(s, code)
    /\ UNCHANGED <<incidents, reached>>

\* FindByID returned a row.
Found(s, id) == Free(s) /\ incidents[id] # NoRow

\* The handler holds its changed copy of the row; Update has not run yet.
Hold(s, id, row) ==
    /\ pending' = [pending EXCEPT ![s] = [id |-> id, row |-> row]]
    /\ answer' = [answer EXCEPT ![s] = NoAnswer]
    /\ UNCHANGED <<incidents, reached>>

\* Create and Save: the whole row becomes the content of the table.
Write(id, row) ==
    /\ incidents' = [incidents EXCEPT ![id] = row]
    /\ reached' = [reached EXCEPT ![id] = @ \cup {row.status}]

------------------------------------------------------------------------------
(* The handlers. *)

\* POST /incidents: one INSERT under a fresh auto-increment key.
Report(s, rep, sev) ==
    /\ Free(s)
    /\ IsValidSeverity(sev)
    /\ \E id \in Ids :
        /\ incidents[id] = NoRow
        /\ Write(id, NewIncident(rep, sev))
    /\ Respond(s, OK)

\* POST /incidents/:id/assign, up to its Update.
Assign(s, id) ==
    /\ Found(s, id)
    /\ CanAssign(incidents[id])
    /\ Hold(s, id, Assigned(incidents[id]))

\* POST /incidents/:id/rectify, up to its Update.
SubmitRectification(s, id, m) ==
    /\ Found(s, id)
    /\ m # NoMeasures
    /\ CanRectify(incidents[id])
    /\ Hold(s, id, Rectified(incidents[id], m))

\* POST /incidents/:id/close, up to its Update.
Close(s, id) ==
    /\ Found(s, id)
    /\ CanClose(incidents[id])
    /\ Hold(s, id, ClosedRow(incidents[id]))

\* The Update of whichever operation slot s is running, and its 200.
Save(s) ==
    /\ ~Free(s)
    /\ Write(pending[s].id, pending[s].row)
    /\ Respond(s, OK)

\* The status check fails: CodeIncidentStatusConflict, answered 409.
StatusConflict(s, id) ==
    /\ Found(s, id)
    /\ \/ ~CanAssign(incidents[id])
       \/ ~CanRectify(incidents[id])
       \/ ~CanClose(incidents[id])
    /\ Refuse(s, Conflict)

\* No such row: ErrNotFound is not an AppError, and wrapError answers 500.
FindMisses(s, id) ==
    /\ incidents[id] = NoRow
    /\ Refuse(s, InternalError)

\* Bodies the bindings refuse: a severity outside the list, blank measures.
ReportRefused(s, sev) == ~IsValidSeverity(sev) /\ Refuse(s, BadRequest)

RectifyRefused(s, m) == m = NoMeasures /\ Refuse(s, BadRequest)

\* A read that fails, and a write that fails or whose answer is lost.
ReadFails(s) == Refuse(s, InternalError)

SaveFails(s) ==
    /\ ~Free(s)
    /\ \/ Write(pending[s].id, pending[s].row)
       \/ UNCHANGED <<incidents, reached>>
    /\ Respond(s, InternalError)

\* The process dies; the table survives, calls in progress do not.
Crash ==
    /\ pending' = [s \in Slots |-> NoCall]
    /\ answer' = [s \in Slots |-> NoAnswer]
    /\ UNCHANGED <<incidents, reached>>

------------------------------------------------------------------------------

Init ==
    /\ incidents = SeedRows
    /\ pending = [s \in Slots |-> NoCall]
    /\ answer = [s \in Slots |-> NoAnswer]
    /\ reached = [id \in Ids |->
                    IF SeedRows[id] = NoRow THEN {} ELSE {SeedRows[id].status}]

\* A status operation on id that passes its checks.
Advance(s, id) ==
    \/ Assign(s, id)
    \/ \E m \in Measures : SubmitRectification(s, id, m)
    \/ Close(s, id)

Handle(s) ==
    \/ \E rep \in Reporters, sev \in SeverityInputs : Report(s, rep, sev)
    \/ \E id \in Ids :
        \/ Advance(s, id)
        \/ StatusConflict(s, id)
        \/ FindMisses(s, id)
    \/ Save(s)
    \/ \E sev \in SeverityInputs : ReportRefused(s, sev)
    \/ \E m \in Measures \cup {NoMeasures} : RectifyRefused(s, m)

Fault == Crash \/ \E s \in Slots : ReadFails(s) \/ SaveFails(s)

Next == Fault \/ \E s \in Slots : Handle(s)

Spec == Init /\ [][Next]_vars

\* A handler that holds a row runs its Update, the managers keep working on
\* an incident that can still move, and faults come to an end.
Live ==
    /\ \A s \in Slots : WF_vars(Save(s))
    /\ \A id \in Ids : SF_vars(\E s \in Slots : Advance(s, id))
    /\ <>[][\E s \in Slots : Handle(s)]_vars

FairSpec == Spec /\ Live

------------------------------------------------------------------------------
(* Properties. *)

TypeOK ==
    /\ incidents \in [Ids -> Row \cup {NoRow}]
    /\ pending \in [Slots -> Call \cup {NoCall}]
    /\ answer \in [Slots -> {NoAnswer, OK, BadRequest, Conflict, InternalError}]
    /\ reached \in [Ids -> SUBSET Statuses]

\* PendingRectification: the dashboard's list of incidents to be rectified
\* (its LIMIT 10 is left out).
PendingRectification ==
    {id \in Ids : /\ incidents[id] # NoRow
                  /\ incidents[id].status \in {"reported", "investigating"}}

\* An incident that has left the to-be-rectified list has its measures on
\* record, whatever stale rows the racing handlers have written over it.
\* (Seeded rows are excluded: the seed inserts resolved and closed incidents
\* without measures.)
MeasuresRecorded ==
    \A id \in Ids \ Seeded :
        incidents[id] # NoRow /\ id \notin PendingRectification
            => incidents[id].measures # NoMeasures

\* A row is never lost, and the facts of the report survive every full-row
\* Save, even one that writes back a copy read long before.
RowsKept ==
    [][\A id \in Ids : incidents[id] # NoRow =>
        /\ incidents'[id] # NoRow
        /\ incidents'[id].severity = incidents[id].severity
        /\ incidents'[id].reporter = incidents[id].reporter]_vars

\* Stale Saves may move an incident back, but not for ever: with managers
\* who keep at it, every reported incident is in the end closed for good.
Converges ==
    \A id \in Ids : incidents[id] # NoRow
        ~> [](incidents[id] # NoRow /\ incidents[id].status = "closed")

\* The furthest status an incident has ever had.
furthest == [id \in Ids |->
    IF "closed" \in reached[id] THEN "closed"
    ELSE IF "resolved" \in reached[id] THEN "resolved"
    ELSE IF "investigating" \in reached[id] THEN "investigating"
    ELSE IF "reported" \in reached[id] THEN "reported"
    ELSE "absent"]

Progress == INSTANCE IncidentLifecycle WITH status <- furthest

\* Racing handlers implement the state machine as far as an incident has ever
\* got: seeded or not, it moves on one status at a time and keeps what it has
\* reached, although its row may go back and forth.
ImplementsLifecycle == Progress!Spec

\* The status in the table.
statusOf == [id \in Ids |->
    IF incidents[id] = NoRow THEN "absent" ELSE incidents[id].status]

Lifecycle == INSTANCE IncidentLifecycle WITH status <- statusOf

\* A close request that begins after the incident has been closed is refused.
RepeatedCloseRefused ==
    [][\A s \in Slots, id \in Ids :
        "closed" \in reached[id] => ~Close(s, id)]_vars

==============================================================================
