--------------------------- MODULE TrainingService ---------------------------
(***************************************************************************)
(* The safety training service: trainings, the record request that stores  *)
(* who signed in and the pass rate, and the completion rate the dashboard  *)
(* shows, which two separate COUNT queries compute.  Record reads the row, *)
(* changes it in memory and later saves the whole row, without lock or     *)
(* transaction.                                                            *)
(***************************************************************************)
EXTENDS Naturals, FiniteSets

CONSTANTS
    Ids,          \* identities the auto-increment key can hand out
    Slots,        \* requests in service at the same time
    SignIns,      \* lists of participants
    Rates,        \* pass rates a body may carry
    Months,       \* calendar months
    ThisMonth,    \* the month the clock is in
    Omitted,      \* a field a record body leaves out
    NoRow, NoCall, NoCount

VARIABLES
    trainings,    \* the table safety_trainings
    pending,      \* pending[s]: the record in progress, changed but not saved
    answer,       \* answer[s]: the HTTP status slot s last sent
    count,        \* the completion rate being computed
    signedIn,     \* history: the list last recorded for a training, or Omitted
    stale         \* history: the trainings a stale row was saved over since

vars == <<trainings, pending, answer, count, signedIn, stale>>

------------------------------------------------------------------------------
(* Rows and bodies. *)

Row == [participants: SignIns \cup {Omitted}, passRate: 0..100, month: Months]

\* The body of a record request: either field may be left out.
Body == [participants: SignIns \cup {Omitted}, passRate: Rates \cup {Omitted}]

\* The row as it was read, and as the request has changed it.
Call == [id: Ids, was: Row, row: Row, body: Body]

Count == [phase: {"half", "done"}, total: Nat, done: Nat]

OK == 200
BadRequest == 400
InternalError == 500
NoAnswer == 0

ASSUME IdsAssumption == IsFiniteSet(Ids)
ASSUME ThisMonthAssumption == ThisMonth \in Months
ASSUME AbsenceAssumption ==
    /\ Omitted \notin SignIns \cup Nat
    /\ NoRow \notin Row /\ NoCall \notin Call /\ NoCount \notin Count

NewTraining(who, month) == [participants |-> who, passRate |-> 0, month |-> month]

\* pass_rate is a float64, not a pointer: left out, it decodes to 0, and the
\* test passRate >= 0 holds.
Decoded(rate) == IF rate = Omitted THEN 0 ELSE rate

\* min=0,max=100 of the binding.
AnyRate(rate) == TRUE                                         \* mutant
ValidRate(rate) == Decoded(rate) \in 0..100

\* A list that is left out leaves the participants as they were.
RecordedAlways(row, body) ==                                  \* mutant
    [row EXCEPT !.participants = body.participants,
                !.passRate = Decoded(body.passRate)]
Recorded(row, body) ==
    [row EXCEPT !.participants = IF body.participants = Omitted
                                 THEN row.participants ELSE body.participants,
                !.passRate = Decoded(body.passRate)]

\* What CompletedRate counts: this month's trainings, and those of them
\* whose pass rate is above zero.
OfThisMonth == {id \in Ids : trainings[id] # NoRow /\ trainings[id].month = ThisMonth}
DoneEver == {id \in Ids : trainings[id] # NoRow /\ trainings[id].passRate > 0} \* mutant
DoneThisMonth == {id \in OfThisMonth : trainings[id].passRate > 0}

------------------------------------------------------------------------------
(* The handlers. *)

Free(s) == pending[s] = NoCall

Respond(s, code) ==
    /\ answer' = [answer EXCEPT ![s] = code]
    /\ pending' = [pending EXCEPT ![s] = NoCall]

Refuse(s, code) ==
    /\ Free(s)
    /\ Respond(s, code)
    /\ UNCHANGED <<trainings, count, signedIn, stale>>

\* POST /trainings: one INSERT, for a date in any month.
Create(s, who, month) ==
    /\ Free(s)
    /\ \E id \in Ids :
        /\ trainings[id] = NoRow
        /\ trainings' = [trainings EXCEPT ![id] = NewTraining(who, month)]
        /\ signedIn' = [signedIn EXCEPT ![id] = who]
    /\ Respond(s, OK)
    /\ UNCHANGED <<count, stale>>

\* POST /trainings/:id/record, up to its Update.
Record(s, id, body) ==
    /\ Free(s)
    /\ ValidRate(body.passRate)
    /\ trainings[id] # NoRow
    /\ pending' = [pending EXCEPT ![s] =
            [id |-> id, was |-> trainings[id],
             row |-> Recorded(trainings[id], body), body |-> body]]
    /\ answer' = [answer EXCEPT ![s] = NoAnswer]
    /\ UNCHANGED <<trainings, count, signedIn, stale>>

\* Update: the whole row is written back.
Write(s) ==
    LET id  == pending[s].id
        who == pending[s].body.participants
    IN  /\ trainings' = [trainings EXCEPT ![id] = pending[s].row]
        /\ signedIn' = [signedIn EXCEPT ![id] = IF who = Omitted THEN @ ELSE who]
        /\ stale' = IF who # Omitted THEN stale \ {id}
                    ELSE IF pending[s].was # trainings[id] THEN stale \cup {id}
                    ELSE stale

Save(s) ==
    /\ ~Free(s)
    /\ Write(s)
    /\ Respond(s, OK)
    /\ UNCHANGED count

\* The Update fails, or its answer is lost after the row was written.
SaveFails(s) ==
    /\ ~Free(s)
    /\ \/ Write(s)
       \/ UNCHANGED <<trainings, signedIn, stale>>
    /\ Respond(s, InternalError)
    /\ UNCHANGED count

RecordRefused(s, body) == ~ValidRate(body.passRate) /\ Refuse(s, BadRequest)

FindMisses(s, id) == trainings[id] = NoRow /\ Refuse(s, InternalError)

QueryFails(s) == Refuse(s, InternalError)

------------------------------------------------------------------------------
(* CompletedRate: two COUNT queries, outside any transaction. *)

CountTotal ==
    /\ count # NoCount => count.phase = "done"
    /\ count' = [phase |-> "half", total |-> Cardinality(OfThisMonth), done |-> 0]
    /\ UNCHANGED <<trainings, pending, answer, signedIn, stale>>

CompletedRate(c) == IF c.total = 0 THEN 0 ELSE (100 * c.done) \div c.total

CountDone ==
    /\ count # NoCount /\ count.phase = "half"
    /\ count' = [phase |-> "done", total |-> count.total,
                 done |-> Cardinality(DoneThisMonth)]
    /\ UNCHANGED <<trainings, pending, answer, signedIn, stale>>

------------------------------------------------------------------------------

Crash ==
    /\ pending' = [s \in Slots |-> NoCall]
    /\ answer' = [s \in Slots |-> NoAnswer]
    /\ count' = NoCount
    /\ UNCHANGED <<trainings, signedIn, stale>>

Init ==
    /\ trainings = [id \in Ids |-> NoRow]
    /\ pending = [s \in Slots |-> NoCall]
    /\ answer = [s \in Slots |-> NoAnswer]
    /\ count = NoCount
    /\ signedIn = [id \in Ids |-> Omitted]
    /\ stale = {}

Handle(s) ==
    \/ \E who \in SignIns \cup {Omitted}, month \in Months : Create(s, who, month)
    \/ \E id \in Ids, body \in Body : Record(s, id, body)
    \/ Save(s)
    \/ \E body \in Body : RecordRefused(s, body)
    \/ \E id \in Ids : FindMisses(s, id)

Fault == Crash \/ \E s \in Slots : SaveFails(s) \/ QueryFails(s)

Next == Fault \/ CountTotal \/ CountDone \/ \E s \in Slots : Handle(s)

Spec == Init /\ [][Next]_vars

------------------------------------------------------------------------------
(* Properties. *)

TypeOK ==
    /\ trainings \in [Ids -> Row \cup {NoRow}]
    /\ pending \in [Slots -> Call \cup {NoCall}]
    /\ answer \in [Slots -> {NoAnswer, OK, BadRequest, InternalError}]
    /\ count \in Count \cup {NoCount}
    /\ signedIn \in [Ids -> SignIns \cup {Omitted}]
    /\ stale \subseteq Ids

\* A sign-in list on record stays there until another list is recorded: a
\* request that only records the pass rate, as the training page sends it,
\* does not lose it, whatever else is in service, unless the training was
\* saved by another request between its read and its save.
SignInsKept ==
    \A id \in Ids \ stale :
        trainings[id] # NoRow => trainings[id].participants = signedIn[id]

\* The dashboard's completion rate never shows more than 100 per cent, as long
\* as no training of this month is created between its two counts, whatever
\* is recorded or saved late in between.
RateIsAShare ==
    count # NoCount /\ count.total = Cardinality(OfThisMonth)
        => CompletedRate(count) <= 100

==============================================================================
