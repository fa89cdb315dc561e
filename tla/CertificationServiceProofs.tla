--------------------- MODULE CertificationServiceProofs ---------------------
(***************************************************************************)
(* Proofs about CertificationService, for any number of certifications and *)
(* of racing requests and for every calendar.                              *)
(*                                                                         *)
(* The argument: whatever a handler holds is a decided copy of its row,    *)
(* with the date of the table, however long ago the row was read           *)
(* (HeldDecided), so a Save can only replace a verdict by a verdict and    *)
(* never moves a date (DecidedStays); and the date that the dashboard's    *)
(* query sees was the same at every instant so far (Watched).              *)
(***************************************************************************)
EXTENDS CertificationService, TLAPS

\* Answers take no part in the argument.
Typed ==
    /\ certs \in [Ids -> Row \cup {NoRow}]
    /\ pending \in [Slots -> Call \cup {NoCall}]
    /\ now \in 0..Horizon
    /\ decided \in [Ids -> SUBSET Decisions]
    /\ since \in [Ids -> 0..Horizon]
    /\ listed \in [Ids -> SUBSET (0..Horizon)]

HeldDecided ==
    \A s \in Slots : pending[s] # NoCall =>
        /\ certs[pending[s].id] # NoRow
        /\ pending[s].row.validUntil = certs[pending[s].id].validUntil
        /\ pending[s].row.status \in Decisions

DecidedStays ==
    \A id \in Ids : decided[id] # {} =>
        certs[id] # NoRow /\ certs[id].status \in Decisions

\* What WarnedInTime asks of the instants gone by, of every dated row.
Watched ==
    \A id \in Dated :
        /\ since[id] <= now
        /\ \A t \in since[id]..certs[id].validUntil :
            t < now /\ certs[id].validUntil - t <= Notice => t \in listed[id]

IInv == Typed /\ HeldDecided /\ DecidedStays /\ Watched

\* The steps of Next, by what they do to the table and to the held rows.
Drops ==
    /\ UNCHANGED <<certs, decided, since>>
    /\ pending' \in [Slots -> Call \cup {NoCall}]
    /\ \A s \in Slots : pending'[s] \in {pending[s], NoCall}

Inserts(s) ==
    /\ \E user \in KnownUsers, until \in Instants \cup {NoDate}, id \in Ids :
        /\ certs[id] = NoRow
        /\ certs' = [certs EXCEPT ![id] = NewCert(user, until)]
        /\ since' = [since EXCEPT ![id] = now]
    /\ pending' = [pending EXCEPT ![s] = NoCall]
    /\ UNCHANGED <<now, decided, listed>>

Writes(s) ==
    /\ ~Free(s)
    /\ Write(s)
    /\ pending' = [pending EXCEPT ![s] = NoCall]
    /\ UNCHANGED <<now, since, listed>>

------------------------------------------------------------------------------

\* A date keeps its type in either kind of column.
LEMMA StoredType ==
    ASSUME NEW until \in Instants \cup {NoDate}
    PROVE  Stored(until) \in Nat \cup {NoDate}
<1>1. CASE until = NoDate
  BY <1>1 DEF Stored
<1>2. CASE until # NoDate
  <2>1. until \in Nat /\ DayTicks \in Nat \ {0}
    BY <1>2, CalendarAssumption
  <2>2. until % DayTicks \in 0..(DayTicks - 1) /\ until % DayTicks <= until
    BY <2>1, SMT
  <2>. QED
    BY <1>2, <2>1, <2>2, SMT DEF Stored
<1>. QED
  BY <1>1, <1>2

\* Every step drops held rows, holds a row, inserts one, or writes one.
LEMMA StepKinds ==
    ASSUME IInv, Next
    PROVE  \/ Drops /\ (Tick \/ UNCHANGED <<now, listed>>)
           \/ \E s \in Slots, id \in Ids, verdict \in Verdicts : Review(s, id, verdict)
           \/ \E s \in Slots : Inserts(s)
           \/ \E s \in Slots : Writes(s)
<1>. USE DEF IInv, Typed
<1>1. CASE Tick
  BY <1>1 DEF Tick, Drops
<1>2. CASE Crash
  BY <1>2 DEF Crash, Drops, history
<1>3. ASSUME NEW s \in Slots, NEW code, Refuse(s, code)
      PROVE  Drops /\ UNCHANGED <<now, listed>>
  BY <1>3 DEF Refuse, Respond, Drops, history
<1>4. ASSUME NEW s \in Slots, SaveFails(s)
      PROVE  (Drops /\ UNCHANGED <<now, listed>>) \/ Writes(s)
  BY <1>4 DEF SaveFails, Respond, Drops, Writes
<1>5. ASSUME NEW s \in Slots, Submission(s)
      PROVE  (Drops /\ UNCHANGED <<now, listed>>) \/ Inserts(s)
  BY <1>3, <1>5 DEF Submission, Submit, SubmitUnknown, Respond, Inserts
<1>6. ASSUME NEW s \in Slots, Save(s)
      PROVE  Writes(s)
  BY <1>6 DEF Save, Respond, Writes
<1>7. ASSUME NEW s \in Slots, Reviewing(s)
      PROVE  \/ Drops /\ UNCHANGED <<now, listed>>
             \/ \E id \in Ids, verdict \in Verdicts : Review(s, id, verdict)
             \/ Writes(s)
  BY <1>3, <1>6, <1>7 DEF Reviewing, ReviewConflict, FindMisses, ReviewRefused
<1>8. ASSUME NEW s \in Slots, QueryFails(s)
      PROVE  Drops /\ UNCHANGED <<now, listed>>
  BY <1>3, <1>8 DEF QueryFails
<1>. QED
  BY <1>1, <1>2, <1>4, <1>5, <1>7, <1>8 DEF Next, Fault

\* A review gives its slot a decided copy of the row.
LEMMA ReviewHolds ==
    ASSUME IInv, NEW s \in Slots, NEW id \in Ids, NEW verdict \in Verdicts,
           Review(s, id, verdict)
    PROVE  /\ pending' = [pending EXCEPT
                    ![s] = [id |-> id, row |-> Reviewed(certs[id], verdict)]]
           /\ UNCHANGED <<certs, now, decided, since, listed>>
           /\ certs[id] # NoRow
           /\ Reviewed(certs[id], verdict) \in Row
           /\ Reviewed(certs[id], verdict).validUntil = certs[id].validUntil
           /\ Reviewed(certs[id], verdict).status \in Decisions
<1>1. certs[id] \in Row
  BY DEF IInv, Typed, Review
<1>. QED
  BY <1>1 DEF Review, IsVerdict, Reviewed, Row, CertStatus, history

\* A tick lists every row whose date is no further off than the shortest month.
LEMMA TickLists ==
    ASSUME IInv, Tick
    PROVE  Typed' /\ Watched'
<1>1. /\ now \in 0..Horizon /\ now < Horizon /\ now' = now + 1
      /\ UNCHANGED <<certs, pending, decided, since>>
      /\ Horizon \in Nat /\ Notice \in Nat
      /\ MonthLen[now] \in Nat /\ Notice <= MonthLen[now]
  BY CalendarAssumption DEF IInv, Typed, Tick
<1>2. /\ listed' \in [Ids -> SUBSET (0..Horizon)]
      /\ \A id \in Ids : listed[id] \subseteq listed'[id]
      /\ \A id \in ExpiringSoon : now \in listed'[id]
  BY <1>1 DEF IInv, Typed, Tick, ExpiringSoon, Dated
<1>3. Typed'
  BY <1>1, <1>2 DEF IInv, Typed
<1>4. ASSUME NEW id \in Dated,
             NEW t \in since[id]..certs[id].validUntil,
             t < now + 1, certs[id].validUntil - t <= Notice
      PROVE  t \in listed'[id]
  <2>1. id \in Ids /\ certs[id].validUntil \in Nat /\ since[id] \in Nat
    BY DEF IInv, Typed, Dated, Row
  <2>2. CASE t < now
    BY <1>2, <1>4, <2>1, <2>2 DEF IInv, Watched
  <2>3. CASE t = now
    <3>1. InWindow(certs[id].validUntil)
      BY <1>1, <1>4, <2>1, <2>3 DEF InWindow, InAMonth
    <3>. QED
      BY <1>2, <2>3, <3>1 DEF ExpiringSoon
  <2>. QED
    BY <1>1, <1>4, <2>1, <2>2, <2>3
<1>5. \A id \in Dated : since[id] <= now + 1
  BY <1>1 DEF IInv, Watched, Typed, Dated
<1>6. Watched'
  BY <1>1, <1>4, <1>5 DEF Watched, Dated
<1>. QED
  BY <1>3, <1>6

\* The argument above holds initially and survives every step.
THEOREM Invariance == Spec => []IInv
<1>1. Init => IInv
  <2>. SUFFICES ASSUME Init
                PROVE  IInv
    OBVIOUS
  <2>1. Typed
    BY CalendarAssumption, SeedAssumption DEF Init, Typed
  <2>2. HeldDecided
    BY DEF Init, HeldDecided
  <2>3. DecidedStays
    BY DEF Init, DecidedStays
  <2>4. Watched
    <3>1. now = 0 /\ \A id \in Dated : since[id] = 0 /\ certs[id].validUntil \in Nat
      BY <2>1 DEF Init, Typed, Dated, Row
    <3>. QED
      BY <3>1 DEF Watched
  <2>. QED
    BY <2>1, <2>2, <2>3, <2>4 DEF IInv
<1>2. ASSUME IInv, [Next]_vars
      PROVE  IInv'
  <2>. USE DEF IInv
  <2>1. CASE UNCHANGED vars
    BY <1>2, <2>1 DEF vars, history, Typed, HeldDecided, DecidedStays, Watched, Dated
  <2>2. CASE Drops /\ (Tick \/ UNCHANGED <<now, listed>>)
    <3>1. Typed' /\ Watched'
      <4>1. CASE Tick
        BY <1>2, <4>1, TickLists
      <4>2. CASE UNCHANGED <<now, listed>>
        BY <1>2, <2>2, <4>2 DEF Drops, Typed, Watched, Dated
      <4>. QED
        BY <2>2, <4>1, <4>2
    <3>2. HeldDecided'
      BY <1>2, <2>2 DEF Drops, HeldDecided
    <3>. QED
      BY <1>2, <2>2, <3>1, <3>2 DEF Drops, DecidedStays
  <2>3. ASSUME NEW s \in Slots, NEW id \in Ids, NEW verdict \in Verdicts,
               Review(s, id, verdict)
        PROVE  IInv'
    <3>1. Typed'
      BY <1>2, <2>3, ReviewHolds DEF Typed, Call
    <3>2. HeldDecided'
      BY <1>2, <2>3, ReviewHolds DEF Typed, HeldDecided
    <3>3. DecidedStays'
      BY <1>2, <2>3, ReviewHolds DEF DecidedStays
    <3>4. Watched'
      BY <1>2, <2>3, ReviewHolds DEF Watched, Dated
    <3>. QED
      BY <3>1, <3>2, <3>3, <3>4
  <2>4. ASSUME NEW s \in Slots, Inserts(s)
        PROVE  IInv'
    <3>1. PICK user \in KnownUsers, until \in Instants \cup {NoDate}, id \in Ids :
            /\ certs[id] = NoRow
            /\ certs' = [certs EXCEPT ![id] = NewCert(user, until)]
            /\ since' = [since EXCEPT ![id] = now]
      BY <2>4 DEF Inserts
    <3>2. NewCert(user, until) \in Row
      BY StoredType, KnownUsersAssumption DEF NewCert, Row, CertStatus
    <3>3. Typed'
      BY <1>2, <2>4, <3>1, <3>2 DEF Inserts, Typed
    <3>4. HeldDecided'
      BY <1>2, <2>4, <3>1 DEF Inserts, Typed, HeldDecided
    <3>5. DecidedStays'
      BY <1>2, <2>4, <3>1 DEF Inserts, Typed, DecidedStays
    <3>6. Watched'
      <4>1. ASSUME NEW i \in Dated', i # id
            PROVE  i \in Dated /\ certs'[i] = certs[i] /\ since'[i] = since[i]
        BY <1>2, <3>1, <4>1 DEF Dated, Typed
      <4>2. ASSUME NEW i \in Dated', i = id
            PROVE  since'[i] = now /\ now \in Nat /\ certs'[i].validUntil \in Nat
        BY <1>2, <3>1, <3>3, <4>2, CalendarAssumption DEF Dated, Typed, Row
      <4>3. ASSUME NEW i \in Dated'
            PROVE  /\ since'[i] <= now
                   /\ \A t \in since'[i]..certs'[i].validUntil :
                        t < now /\ certs'[i].validUntil - t <= Notice => t \in listed[i]
        BY <1>2, <4>1, <4>2, <4>3 DEF Watched
      <4>. QED
        BY <2>4, <4>3 DEF Watched, Inserts
    <3>. QED
      BY <3>3, <3>4, <3>5, <3>6
  <2>5. ASSUME NEW s \in Slots, Writes(s)
        PROVE  IInv'
    <3>1. pending[s] \in Call /\ pending[s] # NoCall
      BY <1>2, <2>5 DEF Writes, Free, Typed
    <3>2. /\ pending[s].id \in Ids
          /\ pending[s].row \in Row
          /\ pending[s].row # NoRow
          /\ pending[s].row.status \in Decisions
          /\ pending[s].row.validUntil = certs[pending[s].id].validUntil
      BY <1>2, <3>1, AbsenceAssumption DEF Call, HeldDecided
    <3>3. Typed'
      BY <1>2, <2>5, <3>2 DEF Writes, Write, Typed
    <3>4. HeldDecided'
      BY <1>2, <2>5, <3>2 DEF Writes, Write, Typed, HeldDecided
    <3>5. DecidedStays'
      BY <1>2, <2>5, <3>2 DEF Writes, Write, Typed, DecidedStays
    <3>6. \A id \in Dated' : id \in Dated /\ certs'[id].validUntil = certs[id].validUntil
      BY <1>2, <2>5, <3>1, <3>2 DEF Writes, Write, Typed, Dated, HeldDecided
    <3>7. Watched'
      BY <1>2, <2>5, <3>6 DEF Writes, Watched
    <3>. QED
      BY <3>3, <3>4, <3>5, <3>7
  <2>. QED
    BY <1>2, <2>1, <2>2, <2>3, <2>4, <2>5, StepKinds
<1>. QED
  BY <1>1, <1>2, PTL DEF Spec

------------------------------------------------------------------------------

\* Types are kept, answers included.
THEOREM TypeCorrect == Spec => []TypeOK
<1>. DEFINE Codes == {NoAnswer, OK, BadRequest, Conflict, InternalError}
            Answered == answer \in [Slots -> Codes]
<1>1. Init => Answered
  BY DEF Init
<1>2. ASSUME Answered, [Next]_vars
      PROVE  Answered'
  <2>1. ASSUME NEW s \in Slots, NEW code \in Codes, Respond(s, code)
        PROVE  Answered'
    BY <1>2, <2>1 DEF Respond
  <2>2. ASSUME NEW s \in Slots, Submission(s)
        PROVE  Answered'
    BY <2>1, <2>2 DEF Submission, Submit, SubmitUnknown, Refuse
  <2>3. ASSUME NEW s \in Slots, Reviewing(s)
        PROVE  Answered'
    <3>1. ASSUME NEW id \in Ids, NEW verdict \in Verdicts, Review(s, id, verdict)
          PROVE  Answered'
      BY <1>2, <3>1 DEF Review
    <3>. QED
      BY <2>1, <2>3, <3>1 DEF Reviewing, ReviewConflict, FindMisses, ReviewRefused,
                              Refuse, Save
  <2>4. CASE Fault
    BY <1>2, <2>1, <2>4 DEF Fault, Crash, SaveFails, QueryFails, Refuse
  <2>5. CASE Tick \/ UNCHANGED vars
    BY <1>2, <2>5 DEF Tick, vars
  <2>. QED
    BY <1>2, <2>2, <2>3, <2>4, <2>5 DEF Next
<1>3. IInv /\ Answered => TypeOK
  BY DEF IInv, Typed, TypeOK
<1>. QED
  BY <1>1, <1>2, <1>3, Invariance, PTL DEF Spec

\* Once a verdict has been saved, no later review request gets past its
\* check: the row it reads is decided.
THEOREM DecidedIsRefused == Spec => RepeatedReviewRefused
<1>1. IInv => \A s \in Slots, id \in Ids, verdict \in Verdicts :
                decided[id] # {} => ~Review(s, id, verdict)
  BY DEF IInv, DecidedStays, Decisions, Review, CanReview
<1>. QED
  BY <1>1, Invariance, PTL DEF RepeatedReviewRefused

\* A certification that has lapsed was on the dashboard's list at every instant
\* of a shortest month before its date, or since it was submitted, in every
\* calendar; a row that was stored with its date past was owed none.
THEOREM LapseIsAnnounced == Spec => []WarnedInTime
<1>1. ASSUME IInv, NEW id \in Lapsed, NEW t \in since[id]..certs[id].validUntil,
             certs[id].validUntil - t <= Notice
      PROVE  t \in listed[id]
  <2>1. id \in Dated /\ certs[id].validUntil < now
    BY DEF Lapsed
  <2>2. certs[id].validUntil \in Nat /\ since[id] \in Nat /\ now \in Nat
    BY <1>1, <2>1, CalendarAssumption DEF IInv, Typed, Dated, Row
  <2>3. t < now
    BY <2>1, <2>2
  <2>. QED
    BY <1>1, <2>1, <2>3 DEF IInv, Watched
<1>2. IInv => WarnedInTime
  BY <1>1 DEF WarnedInTime
<1>. QED
  BY <1>2, Invariance, PTL

------------------------------------------------------------------------------
(* How verdicts settle. *)

\* Decided, and every review still in progress agrees.
Agreed(id, verdict) ==
    /\ certs[id] # NoRow
    /\ certs[id].status = verdict
    /\ \A s \in Slots : pending[s] # NoCall /\ pending[s].id = id
            => pending[s].row.status = verdict

\* No step disturbs an agreed verdict: a later review finds it and is refused.
LEMMA AgreedStep ==
    ASSUME IInv, [Next]_vars, NEW id \in Ids, NEW verdict \in Decisions,
           Agreed(id, verdict)
    PROVE  Agreed(id, verdict)'
<1>1. CASE UNCHANGED vars
  BY <1>1 DEF vars, Agreed
<1>2. CASE Drops
  BY <1>2 DEF Drops, Agreed
<1>3. ASSUME NEW s \in Slots, NEW i \in Ids, NEW v \in Verdicts, Review(s, i, v)
      PROVE  Agreed(id, verdict)'
  <2>1. i # id
    BY <1>3 DEF Review, CanReview, Agreed, Decisions
  <2>. QED
    BY <1>3, <2>1, ReviewHolds DEF Agreed, IInv, Typed
<1>4. ASSUME NEW s \in Slots, Inserts(s)
      PROVE  Agreed(id, verdict)'
  BY <1>4 DEF Inserts, Agreed, IInv, Typed
<1>5. ASSUME NEW s \in Slots, Writes(s)
      PROVE  Agreed(id, verdict)'
  <2>1. pending[s] \in Call /\ pending[s] # NoCall
    BY <1>5 DEF Writes, Free, IInv, Typed
  <2>2. pending[s].row # NoRow
    BY <2>1, AbsenceAssumption DEF Call
  <2>. QED
    BY <1>5, <2>1, <2>2 DEF Writes, Write, Agreed, IInv, Typed, Call
<1>. QED
  BY <1>1, <1>2, <1>3, <1>4, <1>5, StepKinds

\* Racing reviews stop changing a verdict as soon as those in progress agree
\* with it: from then on it stands, for any number of requests.
THEOREM AgreedVerdictStands ==
    Spec => \A id \in Ids, verdict \in Decisions :
                [](Agreed(id, verdict) => []Agreed(id, verdict))
<1>. SUFFICES ASSUME NEW id \in Ids, NEW verdict \in Decisions
              PROVE  Spec => [](Agreed(id, verdict) => []Agreed(id, verdict))
  OBVIOUS
<1>1. IInv /\ Agreed(id, verdict) /\ [Next]_vars => Agreed(id, verdict)'
  BY AgreedStep
<1>. QED
  BY <1>1, Invariance, PTL DEF Spec

OneSlot == \A s, t \in Slots : s = t

\* A held copy is of a row that is still pending.
HeldPending ==
    \A s \in Slots : pending[s] # NoCall => certs[pending[s].id].status = "pending"

\* With one request at a time a row changes only from pending to its verdict.
LEMMA SerialStep ==
    ASSUME OneSlot, IInv, HeldPending, [Next]_vars
    PROVE  /\ HeldPending'
           /\ \A id \in Ids : decided[id] # {} => certs'[id] = certs[id]
<1>1. CASE UNCHANGED vars
  BY <1>1 DEF vars, HeldPending
<1>2. CASE Drops
  BY <1>2 DEF Drops, HeldPending
<1>3. ASSUME NEW s \in Slots, NEW i \in Ids, NEW v \in Verdicts, Review(s, i, v)
      PROVE  HeldPending' /\ UNCHANGED certs
  BY <1>3, ReviewHolds DEF Review, CanReview, OneSlot, HeldPending, IInv, Typed
<1>4. ASSUME NEW s \in Slots, Inserts(s)
      PROVE  HeldPending' /\ \A id \in Ids : decided[id] # {} => certs'[id] = certs[id]
  BY <1>4 DEF Inserts, OneSlot, HeldPending, IInv, Typed, DecidedStays
<1>5. ASSUME NEW s \in Slots, Writes(s)
      PROVE  HeldPending' /\ \A id \in Ids : decided[id] # {} => certs'[id] = certs[id]
  <2>1. pending[s] \in Call /\ pending[s] # NoCall
    BY <1>5 DEF Writes, Free, IInv, Typed
  <2>2. decided[pending[s].id] = {}
    BY <2>1 DEF Call, HeldPending, IInv, DecidedStays, Decisions
  <2>. QED
    BY <1>5, <2>1, <2>2 DEF Writes, Write, OneSlot, HeldPending, IInv, Typed, Call
<1>. QED
  BY <1>1, <1>2, <1>3, <1>4, <1>5, StepKinds DEF vars

\* With one request at a time the first verdict is the last: it takes a race
\* for a second review to change it.
THEOREM SerialVerdictIsFinal ==
    OneSlot => (Spec => [][\A id \in Ids : decided[id] # {} => certs'[id] = certs[id]]_vars)
<1>. SUFFICES ASSUME OneSlot
              PROVE  Spec => [][\A id \in Ids : decided[id] # {}
                                    => certs'[id] = certs[id]]_vars
  OBVIOUS
<1>1. Init => HeldPending
  BY DEF Init, HeldPending
<1>2. IInv /\ HeldPending /\ [Next]_vars
        => /\ HeldPending'
           /\ [\A id \in Ids : decided[id] # {} => certs'[id] = certs[id]]_vars
  BY SerialStep
<1>. QED
  BY <1>1, <1>2, Invariance, PTL DEF Spec

==============================================================================
