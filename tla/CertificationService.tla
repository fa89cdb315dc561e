------------------------ MODULE CertificationService ------------------------
(***************************************************************************)
(* The worker certification service: certifications are submitted, and a   *)
(* manager approves or rejects a pending one.  Review reads the row,       *)
(* checks that it is pending, changes the struct in memory and later saves *)
(* the whole row, without lock or transaction: two reviews that both read  *)
(* a pending row are both carried out.  Time passes, and the dashboard     *)
(* lists what expires within a month.                                      *)
(***************************************************************************)
EXTENDS Naturals

CONSTANTS
    Ids,              \* identities the auto-increment key can hand out
    Slots,            \* requests in service at the same time
    Users, KnownUsers,\* user ids a request may name, those that exist
    Instants,         \* instants a request may give as valid_until
    DayTicks,         \* ticks in a day if the column is a DATE, else 1
    Horizon,          \* the last instant of the clock
    MonthLen,         \* MonthLen[t]: ticks in the month that instant t is in
    Notice,           \* ticks in the shortest month
    Verdicts,         \* statuses a review body may carry, valid or not
    SeedCerts,        \* the table at the start: the seed's rows, or none
    NoDate, NoRow, NoCall

VARIABLES
    certs,            \* the table worker_certifications
    pending,          \* pending[s]: the row slot s has changed but not yet saved
    answer,           \* answer[s]: the HTTP status slot s last sent
    now,              \* the clock
    decided,          \* history: decided[id], every verdict ever saved for id
    since,            \* history: since[id], when id was submitted
    listed            \* history: listed[id], the instants that ended with id on
                      \* the dashboard's list

history == <<decided, since, listed>>
vars == <<certs, pending, answer, now, history>>

------------------------------------------------------------------------------
(* Rows and checks. *)

\* The statuses the service writes; it declares a fourth one, expired.
Decisions == {"approved", "rejected"}
CertStatus == {"pending"} \cup Decisions

\* valid_until as it is stored: init.sql makes the column a DATE, which keeps
\* the day only; AutoMigrate on an empty database makes it a DATETIME.
Stored(until) == IF until = NoDate THEN NoDate ELSE until - (until % DayTicks)

Row == [status: CertStatus, user: Users, validUntil: Nat \cup {NoDate}]

Call == [id: Ids, row: Row]

OK == 200
BadRequest == 400
Conflict == 409
InternalError == 500
NoAnswer == 0

ASSUME KnownUsersAssumption == KnownUsers \subseteq Users
ASSUME CalendarAssumption ==
    /\ Instants \subseteq Nat
    /\ DayTicks \in Nat \ {0}
    /\ Horizon \in Nat
    /\ MonthLen \in [0..Horizon -> Nat]
    /\ Notice \in Nat
    /\ \A t \in 0..Horizon : Notice <= MonthLen[t]
ASSUME AbsenceAssumption == NoDate \notin Nat /\ NoRow \notin Row /\ NoCall \notin Call
ASSUME SeedAssumption == SeedCerts \in [Ids -> Row \cup {NoRow}]

NewCert(user, until) ==
    [status |-> "pending", user |-> user, validUntil |-> Stored(until)]

AnyVerdict(verdict) == TRUE                                   \* mutant
IsVerdict(verdict) == verdict \in Decisions

AnyRow(row) == TRUE                                           \* mutant
CanReview(row) == row.status = "pending"

Reviewed(row, verdict) == [row EXCEPT !.status = verdict]

------------------------------------------------------------------------------
(* The list of what expires. *)

Dated == {id \in Ids : certs[id] # NoRow /\ certs[id].validUntil # NoDate}

\* AddDate(0, 1, 0): the same day and hour of the next month, and where that
\* month has no such day as many days into the one after (31 January gives 3
\* March): in either case the length of now's own month later.
InAMonth == now + MonthLen[now]

\* The dashboard's query: from now until a month from now.
InWindowStrict(until) == until > now /\ until < InAMonth        \* mutant
InWindow(until) == until >= now /\ until <= InAMonth

ExpiringSoon == {id \in Dated : InWindow(certs[id].validUntil)}

Lapsed == {id \in Dated : certs[id].validUntil < now}

------------------------------------------------------------------------------
(* The handlers. *)

Free(s) == pending[s] = NoCall

Respond(s, code) ==
    /\ answer' = [answer EXCEPT ![s] = code]
    /\ pending' = [pending EXCEPT ![s] = NoCall]

Refuse(s, code) ==
    /\ Free(s)
    /\ Respond(s, code)
    /\ UNCHANGED <<certs, now, history>>

\* POST /certifications: the user is looked up, then the row inserted.
Submit(s, user, until) ==
    /\ Free(s)
    /\ user \in KnownUsers
    /\ \E id \in Ids :
        /\ certs[id] = NoRow
        /\ certs' = [certs EXCEPT ![id] = NewCert(user, until)]
        /\ since' = [since EXCEPT ![id] = now]
    /\ Respond(s, OK)
    /\ UNCHANGED <<now, decided, listed>>

\* No such user: ErrNotFound is not an AppError, and wrapError answers 500.
SubmitUnknown(s, user) == user \notin KnownUsers /\ Refuse(s, InternalError)

\* POST /certifications/:id/review, up to its Update.
Review(s, id, verdict) ==
    /\ Free(s)
    /\ IsVerdict(verdict)
    /\ certs[id] # NoRow
    /\ CanReview(certs[id])
    /\ pending' = [pending EXCEPT
            ![s] = [id |-> id, row |-> Reviewed(certs[id], verdict)]]
    /\ answer' = [answer EXCEPT ![s] = NoAnswer]
    /\ UNCHANGED <<certs, now, history>>

\* Update: the whole row is written back.
Write(s) ==
    LET id == pending[s].id IN
    /\ certs' = [certs EXCEPT ![id] = pending[s].row]
    /\ decided' = [decided EXCEPT ![id] = @ \cup {pending[s].row.status}]

Save(s) ==
    /\ ~Free(s)
    /\ Write(s)
    /\ Respond(s, OK)
    /\ UNCHANGED <<now, since, listed>>

\* The Update fails, or its answer is lost after the row was written.
SaveFails(s) ==
    /\ ~Free(s)
    /\ \/ Write(s)
       \/ UNCHANGED <<certs, decided>>
    /\ Respond(s, InternalError)
    /\ UNCHANGED <<now, since, listed>>

\* Already decided: CodeIncidentStatusConflict, answered 409.
ReviewConflict(s, id) ==
    /\ certs[id] # NoRow
    /\ ~CanReview(certs[id])
    /\ Refuse(s, Conflict)

FindMisses(s, id) == certs[id] = NoRow /\ Refuse(s, InternalError)

\* The binding refuses a verdict that is neither of the two.
ReviewRefused(s, verdict) == ~IsVerdict(verdict) /\ Refuse(s, BadRequest)

\* A query fails.
QueryFails(s) == Refuse(s, InternalError)

------------------------------------------------------------------------------

Crash ==
    /\ pending' = [s \in Slots |-> NoCall]
    /\ answer' = [s \in Slots |-> NoAnswer]
    /\ UNCHANGED <<certs, now, history>>

Tick ==
    /\ now < Horizon
    /\ now' = now + 1
    /\ listed' = [id \in Ids |->
            IF id \in ExpiringSoon THEN listed[id] \cup {now} ELSE listed[id]]
    /\ UNCHANGED <<certs, pending, answer, decided, since>>

Init ==
    /\ certs = SeedCerts
    /\ pending = [s \in Slots |-> NoCall]
    /\ answer = [s \in Slots |-> NoAnswer]
    /\ now = 0
    /\ decided = [id \in Ids |-> IF SeedCerts[id] = NoRow THEN {}
                                ELSE {SeedCerts[id].status} \cap Decisions]
    /\ since = [id \in Ids |-> 0]
    /\ listed = [id \in Ids |-> {}]

Submission(s) ==
    \E user \in Users :
        \/ \E until \in Instants \cup {NoDate} : Submit(s, user, until)
        \/ SubmitUnknown(s, user)

Reviewing(s) ==
    \/ \E id \in Ids, verdict \in Verdicts : Review(s, id, verdict)
    \/ \E id \in Ids : ReviewConflict(s, id) \/ FindMisses(s, id)
    \/ \E verdict \in Verdicts : ReviewRefused(s, verdict)
    \/ Save(s)

Fault == Crash \/ \E s \in Slots : SaveFails(s) \/ QueryFails(s)

Next == Tick \/ Fault \/ \E s \in Slots : Submission(s) \/ Reviewing(s)

Spec == Init /\ [][Next]_vars

------------------------------------------------------------------------------
(* Properties. *)

TypeOK ==
    /\ certs \in [Ids -> Row \cup {NoRow}]
    /\ pending \in [Slots -> Call \cup {NoCall}]
    /\ answer \in [Slots -> {NoAnswer, OK, BadRequest, Conflict, InternalError}]
    /\ now \in 0..Horizon
    /\ decided \in [Ids -> SUBSET Decisions]
    /\ since \in [Ids -> 0..Horizon]
    /\ listed \in [Ids -> SUBSET (0..Horizon)]

\* A review that begins after a verdict has been saved is refused: whatever
\* stale rows the racing reviews write, none takes the row back to pending.
RepeatedReviewRefused ==
    [][\A s \in Slots, id \in Ids, verdict \in Verdicts :
        decided[id] # {} => ~Review(s, id, verdict)]_vars

\* The racing reviews stop: a certification that was decided once is in the
\* end approved for good or rejected for good.  (No fairness is needed: only
\* reviews that were already in progress can still change it.)
Settles ==
    \A id \in Ids : decided[id] # {}
        ~> \E verdict \in Decisions :
                [](certs[id] # NoRow /\ certs[id].status = verdict)

\* No certification lapses without a month's warning: one that has lapsed was
\* on the dashboard's list at every instant of the shortest month's length
\* before its date, or from its submission if that came later, whatever
\* reviews were saved over it meanwhile.  More than the shortest month cannot
\* be asked: AddDate looks 31 days ahead on 31 January and 28 the day after,
\* so a row can come on the list, leave it, and come back.  A row that is
\* stored with a date already past, the day it was submitted included where
\* the column is a DATE, was owed no instant: this list never shows it.
WarnedInTime ==
    \A id \in Lapsed : \A t \in since[id]..certs[id].validUntil :
        certs[id].validUntil - t <= Notice => t \in listed[id]

==============================================================================
