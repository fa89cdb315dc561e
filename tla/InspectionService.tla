-------------------------- MODULE InspectionService --------------------------
(***************************************************************************)
(* The safety inspection service: an inspection with its items, executed   *)
(* in a transaction that locks the inspection's row (SELECT ... FOR        *)
(* UPDATE), and reports that read the inspection and then, in a second     *)
(* query, its items.  Uncommitted writes are invisible to the other        *)
(* transactions, so what a transaction writes appears at its commit; what  *)
(* is interleaved here is waiting for the lock, the work under the lock,   *)
(* and the two reads of a report.                                          *)
(***************************************************************************)
EXTENDS Naturals, Sequences, FiniteSets

CONSTANTS
    Ids,          \* identities of inspections
    Slots,        \* execute and create requests in service at the same time
    Readers,      \* report requests in service at the same time
    ItemNos,      \* identities of items within an inspection
    Requests,     \* bodies of execute: sequences of marks
    SeedRows, SeedItems,  \* the tables the service starts on
    NoRow, Nobody, NoCall, NoView

VARIABLES
    inspections,  \* the table safety_inspections: a row or NoRow
    items,        \* the table inspection_items: items[id], its passed flags
    lock,         \* lock[id]: the transaction that holds the row lock
    call,         \* call[s]: the execute request in progress, or NoCall
    answer,       \* answer[s]: the HTTP status slot s last sent
    view          \* view[r]: what report request r has read so far

vars == <<inspections, items, lock, call, answer, view>>

------------------------------------------------------------------------------
(* Rows, marks and the tally of an execution. *)

\* The statuses the service writes.  in_progress, the fourth value of the
\* enumeration, is accepted by Execute and never written.
InspectionStatus == {"scheduled", "completed", "failed"}

Row == [status: InspectionStatus, passed: Nat, issues: Nat, score: Nat]

\* The items of one inspection: a function from its items to their flags.
ItemTable == UNION {[S -> BOOLEAN] : S \in SUBSET ItemNos}

NoItems == [i \in {} |-> FALSE]

Mark == [item: ItemNos, passed: BOOLEAN]

OK == 200
BadRequest == 400
Conflict == 409
InternalError == 500
NoAnswer == 0

Call == [phase: {"waiting", "locked"}, id: Ids, req: Requests]

View == [phase: {"half", "done"}, id: Ids, row: Row, items: ItemTable]

\* An inspection as the abstract plan sees it.
PlanRow == [verdict: InspectionStatus, items: ItemTable]

ASSUME RequestsAssumption == Requests \subseteq Seq(Mark)
ASSUME ItemNosAssumption == IsFiniteSet(ItemNos)
ASSUME SeedAssumption ==
    /\ SeedRows \in [Ids -> Row \cup {NoRow}]
    /\ SeedItems \in [Ids -> ItemTable]
ASSUME AbsenceAssumption ==
    /\ NoRow \notin Row \cup PlanRow
    /\ Nobody \notin Slots
    /\ NoCall \notin Call
    /\ NoView \notin View

Scheduled == [status |-> "scheduled", passed |-> 0, issues |-> 0, score |-> 0]

\* The positions of a request whose item belongs to the inspection; the
\* others are skipped.
Matched(req, table) == {k \in DOMAIN req : req[k].item \in DOMAIN table}

\* Each matched mark overwrites its item's flag; the last one stands.
MarkedInMemory(req, table) == table                           \* mutant
MarkedForeign(req, table) ==                                  \* mutant
    [i \in DOMAIN table \cup {req[k].item : k \in DOMAIN req} |->
        \/ i \in DOMAIN table /\ table[i]
        \/ \E k \in DOMAIN req : req[k].item = i /\ req[k].passed]
Marked(req, table) ==
    [i \in DOMAIN table |->
        LET marks == {k \in Matched(req, table) : req[k].item = i}
        IN  IF marks = {} THEN table[i]
            ELSE \E last \in marks :
                    req[last].passed /\ \A k \in marks : k <= last]

\* passed and issues count the request's marks; a request that matches
\* nothing is counted from the stored flags instead.
MarksPassed(req, table) == {k \in Matched(req, table) : req[k].passed}
MarksFailed(req, table) == Matched(req, table) \ MarksPassed(req, table)
ItemsPassed(table) == {i \in DOMAIN table : table[i]}
ItemsFailed(table) == DOMAIN table \ ItemsPassed(table)

Passed(req, table) ==
    IF Matched(req, table) = {} THEN Cardinality(ItemsPassed(table))
    ELSE Cardinality(MarksPassed(req, table))

Issues(req, table) ==
    IF Matched(req, table) = {} THEN Cardinality(ItemsFailed(table))
    ELSE Cardinality(MarksFailed(req, table))

\* int(float64(passed) / float64(total) * 100): the floor of the percentage
\* for every total below 50 (29 of 50 gives 57).
Score(passed, total) ==
    IF total = 0 THEN 0 ELSE (100 * passed) \div total

ExecutedRenamed(passed, issues) ==                            \* mutant
    [status |-> IF issues = 0 THEN "passed" ELSE "failed",
     passed |-> passed, issues |-> issues,
     score  |-> Score(passed, passed + issues)]
Executed(passed, issues) ==
    [status |-> IF issues = 0 THEN "completed" ELSE "failed",
     passed |-> passed, issues |-> issues,
     score  |-> Score(passed, passed + issues)]

IsExecuted(row) == row # NoRow /\ row.status # "scheduled"

------------------------------------------------------------------------------
(* The row lock. *)

Unlocked(id) == TRUE                                          \* mutant
Grantable(id) == lock[id] = Nobody

StillOpen(id) == inspections[id] # NoRow                      \* mutant: any status
Executable(id) == inspections[id] # NoRow /\ ~IsExecuted(inspections[id])

ReleaseNone(s) == lock                                        \* mutant
Released(s) == [id \in Ids |-> IF lock[id] = s THEN Nobody ELSE lock[id]]

\* The transaction of slot s ends and its handler answers.
Finish(s, code) ==
    /\ lock' = Released(s)
    /\ call' = [call EXCEPT ![s] = NoCall]
    /\ answer' = [answer EXCEPT ![s] = code]

------------------------------------------------------------------------------
(* Create and Execute. *)

\* Create: the inspection and its items, inserted in one transaction.  The
\* flags come from the request.  An unknown inspector, or an insert that
\* fails, leaves nothing behind and is answered 500.
Create(s) ==
    /\ call[s] = NoCall
    /\ \E id \in Ids, table \in ItemTable :
        /\ inspections[id] = NoRow
        /\ inspections' = [inspections EXCEPT ![id] = Scheduled]
        /\ items' = [items EXCEPT ![id] = table]
    /\ answer' = [answer EXCEPT ![s] = OK]
    /\ UNCHANGED <<lock, call, view>>

CreateFails(s) ==
    /\ call[s] = NoCall
    /\ answer' = [answer EXCEPT ![s] = InternalError]
    /\ UNCHANGED <<inspections, items, lock, call, view>>

\* A body or an id the binding refuses, of either request.
BindingRefused(s) ==
    /\ call[s] = NoCall
    /\ answer' = [answer EXCEPT ![s] = BadRequest]
    /\ UNCHANGED <<inspections, items, lock, call, view>>

\* Execute: the transaction starts and asks for the row lock.
BeginExecute(s, id, req) ==
    /\ call[s] = NoCall
    /\ call' = [call EXCEPT ![s] = [phase |-> "waiting", id |-> id, req |-> req]]
    /\ answer' = [answer EXCEPT ![s] = NoAnswer]
    /\ UNCHANGED <<inspections, items, lock, view>>

Waiting(s) == call[s] # NoCall /\ call[s].phase = "waiting"

\* FindByIDForUpdate finds the row still to be executed and locks it.
Acquire(s) ==
    LET id == call[s].id IN
    /\ Waiting(s)
    /\ Grantable(id)
    /\ Executable(id)
    /\ lock' = [lock EXCEPT ![id] = s]
    /\ call' = [call EXCEPT ![s].phase = "locked"]
    /\ UNCHANGED <<inspections, items, answer, view>>

\* FindByIDForUpdate finds no row (500), or the row has been executed (409);
\* the transaction rolls back.
Refused(s) ==
    LET id == call[s].id IN
    /\ Waiting(s)
    /\ Grantable(id)
    /\ \/ inspections[id] = NoRow /\ Finish(s, InternalError)
       \/ IsExecuted(inspections[id]) /\ Finish(s, Conflict)
    /\ UNCHANGED <<inspections, items, view>>

\* Under the lock: mark the items, count, score, set the status, commit.
Commit(s) ==
    /\ call[s] # NoCall /\ call[s].phase = "locked"
    /\ LET id  == call[s].id
           req == call[s].req
       IN  /\ items' = [items EXCEPT ![id] = Marked(req, @)]
           /\ inspections' = [inspections EXCEPT
                ![id] = Executed(Passed(req, items[id]), Issues(req, items[id]))]
    /\ Finish(s, OK)
    /\ UNCHANGED view

\* A statement under the lock fails, and everything is rolled back.
Rollback(s) ==
    /\ call[s] # NoCall /\ call[s].phase = "locked"
    /\ Finish(s, InternalError)
    /\ UNCHANGED <<inspections, items, view>>

\* The wait for the lock times out, or the read fails.
WaitFails(s) ==
    /\ Waiting(s)
    /\ Finish(s, InternalError)
    /\ UNCHANGED <<inspections, items, view>>

------------------------------------------------------------------------------
(* GetWithItems: two queries, the inspection and then its items. *)

\* The first query; a missing row ends the request (500).
ReadInspection(r, id) ==
    /\ view[r] # NoView => view[r].phase = "done"
    /\ inspections[id] # NoRow
    /\ view' = [view EXCEPT
        ![r] = [phase |-> "half", id |-> id, row |-> inspections[id], items |-> NoItems]]
    /\ UNCHANGED <<inspections, items, lock, call, answer>>

\* The second query completes the report.
ReadItems(r) ==
    /\ view[r] # NoView /\ view[r].phase = "half"
    /\ view' = [view EXCEPT
        ![r] = [view[r] EXCEPT !.phase = "done", !.items = items[view[r].id]]]
    /\ UNCHANGED <<inspections, items, lock, call, answer>>

------------------------------------------------------------------------------

\* The process dies: MySQL rolls its transactions back and frees the locks.
Crash ==
    /\ lock' = [id \in Ids |-> Nobody]
    /\ call' = [s \in Slots |-> NoCall]
    /\ answer' = [s \in Slots |-> NoAnswer]
    /\ view' = [r \in Readers |-> NoView]
    /\ UNCHANGED <<inspections, items>>

\* The seeded rows are in the tables already, with the outcomes written in
\* seed.go or init.sql, which no execution has computed.
Init ==
    /\ inspections = SeedRows
    /\ items = SeedItems
    /\ lock = [id \in Ids |-> Nobody]
    /\ call = [s \in Slots |-> NoCall]
    /\ answer = [s \in Slots |-> NoAnswer]
    /\ view = [r \in Readers |-> NoView]

Execute(s) ==
    \/ \E id \in Ids, req \in Requests : BeginExecute(s, id, req)
    \/ Acquire(s)
    \/ Refused(s)
    \/ Commit(s)
    \/ Rollback(s)
    \/ WaitFails(s)

Next ==
    \/ \E s \in Slots : Create(s) \/ CreateFails(s) \/ BindingRefused(s) \/ Execute(s)
    \/ \E r \in Readers : ReadItems(r) \/ \E id \in Ids : ReadInspection(r, id)
    \/ Crash

Spec == Init /\ [][Next]_vars

\* MySQL grants a lock to a transaction that keeps waiting for it, and a
\* transaction that holds one runs to its end.
Live ==
    \A s \in Slots : /\ SF_vars(Acquire(s) \/ Refused(s))
                     /\ WF_vars(Commit(s) \/ Rollback(s))

FairSpec == Spec /\ Live

------------------------------------------------------------------------------
(* Properties. *)

TypeOK ==
    /\ inspections \in [Ids -> Row \cup {NoRow}]
    /\ items \in [Ids -> ItemTable]
    /\ lock \in [Ids -> Slots \cup {Nobody}]
    /\ call \in [Slots -> Call \cup {NoCall}]
    /\ answer \in [Slots -> {NoAnswer, OK, BadRequest, Conflict, InternalError}]
    /\ view \in [Readers -> View \cup {NoView}]

\* A report that shows an outcome shows the stored outcome and the stored
\* items it was computed from, then and ever after, although it is read by
\* two queries outside any transaction.
ReportFinal ==
    \A r \in Readers :
        view[r] # NoView /\ view[r].phase = "done" /\ IsExecuted(view[r].row)
            => /\ view[r].row = inspections[view[r].id]
               /\ view[r].items = items[view[r].id]

\* The request has exactly one mark for each item of the inspection, as the
\* inspection page sends it; marks for other items are skipped anyway.
MarksEachOnce(req, table) ==
    \A i \in DOMAIN table :
        \E k \in Matched(req, table) :
            {j \in Matched(req, table) : req[j].item = i} = {k}

\* An execution that marks each item once stores the counts of the flags it
\* leaves, although it counts marks and never looks at the flags.
CountsMatchItems ==
    [][\A s \in Slots :
        LET id == call[s].id IN
        Commit(s) /\ MarksEachOnce(call[s].req, items[id])
            => /\ inspections'[id].passed = Cardinality(ItemsPassed(items'[id]))
               /\ inspections'[id].issues = Cardinality(ItemsFailed(items'[id]))
       ]_vars

\* An outcome is final: once an inspection has one, computed or seeded, no
\* request of any race, late, queued behind the lock or cut short, changes its
\* status, counts or score, or a flag of its items.
Frozen == \A id \in Ids : IsExecuted(inspections[id]) =>
            /\ inspections'[id] = inspections[id]
            /\ items'[id] = items[id]

OutcomeFinal == [][Frozen]_vars

\* Plans as InspectionPlan sees them: the verdict and the flags together.
PlanOf(id) ==
    IF inspections[id] = NoRow THEN NoRow
    ELSE [verdict |-> inspections[id].status, items |-> items[id]]

plans == [id \in Ids |-> PlanOf(id)]

Plan == INSTANCE InspectionPlan WITH Absent <- NoRow, plan <- plans

\* The two tables together behave as the abstract plan: planned once, decided
\* at most once and as a whole, with the items it was planned with, whatever
\* requests race, name foreign items, fail half way or die.
ImplementsPlan == Plan!Spec

\* An execute request that waits for the row is answered.
WaitingAnswered == \A s \in Slots : Waiting(s) ~> call[s] = NoCall

==============================================================================
