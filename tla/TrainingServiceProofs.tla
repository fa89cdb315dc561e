------------------------ MODULE TrainingServiceProofs ------------------------
(***************************************************************************)
(* Proofs about TrainingService, for any number of trainings, requests in  *)
(* service, sign-in lists and months.                                      *)
(*                                                                         *)
(* The arguments: what a request holds is what its body makes of the row   *)
(* it read, and has the month of the row it will be saved over             *)
(* (HeldRows).  So a save either stores the list it was sent, or puts back *)
(* the list it read, which is the one on record unless the row has changed *)
(* since; and since no row leaves its month, the trainings of this month   *)
(* only become more, and those found done stay at most as many             *)
(* (DoneCounted).                                                          *)
(***************************************************************************)
EXTENDS TrainingService, FiniteSetTheorems, TLAPS

HeldRow(c) ==
    /\ c.row = Recorded(c.was, c.body)
    /\ trainings[c.id] # NoRow
    /\ trainings[c.id].month = c.was.month

HeldRows == \A s \in Slots : ~Free(s) => HeldRow(pending[s])

DoneCounted == count # NoCount => count.done <= Cardinality(OfThisMonth)

IInv == TypeOK /\ HeldRows /\ SignInsKept /\ DoneCounted

\* Rows stay, each in its month.
MonthsStay ==
    \A id \in Ids : trainings[id] # NoRow =>
        /\ trainings'[id] # NoRow
        /\ trainings'[id].month = trainings[id].month

Codes == {NoAnswer, OK, BadRequest, InternalError}

------------------------------------------------------------------------------

\* What a record request makes of a row is a row, in the same month.
LEMMA RecordedRow ==
    ASSUME NEW row \in Row, NEW body \in Body, ValidRate(body.passRate)
    PROVE  /\ Recorded(row, body) \in Row
           /\ Recorded(row, body).month = row.month
           /\ Recorded(row, body).participants =
                IF body.participants = Omitted THEN row.participants
                                               ELSE body.participants
BY DEF Row, Body, ValidRate, Recorded

LEMMA NewTrainingRow ==
    ASSUME NEW who \in SignIns \cup {Omitted}, NEW month \in Months
    PROVE  /\ NewTraining(who, month) \in Row
           /\ NewTraining(who, month) # NoRow
           /\ NewTraining(who, month).participants = who
BY AbsenceAssumption DEF NewTraining, Row

LEMMA CallTypes ==
    ASSUME NEW c \in Call
    PROVE  /\ c.id \in Ids /\ c.was \in Row /\ c.row \in Row /\ c.body \in Body
           /\ c # NoCall
BY AbsenceAssumption DEF Call

\* Both counts are of finite sets, and the second counts some of the first.
LEMMA CountsAreNatural ==
    /\ Cardinality(OfThisMonth) \in Nat
    /\ Cardinality(DoneThisMonth) \in Nat
    /\ Cardinality(DoneThisMonth) <= Cardinality(OfThisMonth)
<1>1. IsFiniteSet(OfThisMonth)
  BY IdsAssumption, FS_Subset DEF OfThisMonth
<1>2. DoneThisMonth \subseteq OfThisMonth
  BY DEF DoneThisMonth
<1>. QED
  BY <1>1, <1>2, FS_Subset, FS_CardinalityType

\* The trainings of this month only become more.
LEMMA MonthGrows ==
    ASSUME MonthsStay
    PROVE  /\ Cardinality(OfThisMonth)' \in Nat
           /\ Cardinality(OfThisMonth) <= Cardinality(OfThisMonth)'
<1>1. IsFiniteSet(OfThisMonth')
  BY IdsAssumption, FS_Subset DEF OfThisMonth
<1>2. OfThisMonth \subseteq OfThisMonth'
  BY DEF MonthsStay, OfThisMonth
<1>. QED
  BY <1>1, <1>2, FS_Subset, FS_CardinalityType

\* A step that only answers or drops requests changes nothing in the tables.
LEMMA Dropped ==
    ASSUME IInv,
           \A s \in Slots : pending'[s] \in {pending[s], NoCall},
           pending' \in [Slots -> Call \cup {NoCall}],
           answer' \in [Slots -> Codes],
           UNCHANGED <<trainings, signedIn, stale>>,
           count' \in {count, NoCount}
    PROVE  IInv'
<1>1. TypeOK'
  BY DEF IInv, TypeOK, Codes
<1>2. HeldRows'
  BY DEF IInv, HeldRows, HeldRow, Free
<1>3. SignInsKept' /\ DoneCounted'
  BY DEF IInv, SignInsKept, DoneCounted, OfThisMonth
<1>. QED
  BY <1>1, <1>2, <1>3 DEF IInv

\* A write of the held row, whatever is answered, keeps all of the invariant.
LEMMA Written ==
    ASSUME IInv, NEW s \in Slots, ~Free(s), Write(s), NEW code \in Codes,
           Respond(s, code), UNCHANGED count
    PROVE  IInv'
<1>. DEFINE c == pending[s]
<1>1. c \in Call /\ HeldRow(c)
  BY DEF IInv, TypeOK, HeldRows, Free
<1>2. c.id \in Ids /\ c.was \in Row /\ c.row \in Row /\ c.body \in Body
  BY <1>1, CallTypes
<1>3. /\ trainings' = [trainings EXCEPT ![c.id] = c.row]
      /\ c.row # NoRow /\ c.row.month = c.was.month
  BY <1>1, <1>2, AbsenceAssumption DEF Write, HeldRow, Recorded, Row
<1>4. MonthsStay
  BY <1>1, <1>2, <1>3 DEF IInv, TypeOK, MonthsStay, HeldRow
<1>5. TypeOK'
  <2>1. trainings' \in [Ids -> Row \cup {NoRow}]
    BY <1>2, <1>3 DEF IInv, TypeOK
  <2>2. c.body.participants \in SignIns \cup {Omitted}
    BY <1>2 DEF Body
  <2>3. signedIn' \in [Ids -> SignIns \cup {Omitted}] /\ stale' \subseteq Ids
    BY <1>2, <2>2 DEF IInv, TypeOK, Write
  <2>. QED
    BY <2>1, <2>3 DEF IInv, TypeOK, Respond, Codes
<1>6. HeldRows'
  <2>. SUFFICES ASSUME NEW r \in Slots, pending'[r] # NoCall
                PROVE  HeldRow(pending[r])' /\ pending'[r] = pending[r]
    BY DEF HeldRows, HeldRow, Free
  <2>1. r # s /\ pending'[r] = pending[r] /\ HeldRow(pending[r]) /\ pending[r] \in Call
    BY DEF IInv, TypeOK, Respond, HeldRows, Free
  <2>2. pending[r].id \in Ids
    BY <2>1, CallTypes
  <2>. QED
    BY <1>4, <2>1, <2>2 DEF HeldRow, MonthsStay
<1>7. SignInsKept'
  <2>. SUFFICES ASSUME NEW id \in Ids, id \notin stale', trainings'[id] # NoRow
                PROVE  trainings'[id].participants = signedIn'[id]
    BY DEF SignInsKept
  <2>1. CASE id # c.id
    BY <1>2, <1>3, <2>1 DEF IInv, TypeOK, SignInsKept, Write
  <2>2. CASE id = c.id /\ c.body.participants = Omitted
    <3>1. /\ c.row.participants = c.was.participants
          /\ trainings'[id] = c.row /\ signedIn'[id] = signedIn[id]
      BY <1>1, <1>2, <1>3, <2>2 DEF IInv, TypeOK, Write, HeldRow, Recorded, Row
    <3>2. c.was = trainings[id] /\ id \notin stale
      BY <1>2, <2>2 DEF Write
    <3>. QED
      BY <1>1, <2>2, <3>1, <3>2 DEF IInv, SignInsKept, HeldRow
  <2>3. CASE id = c.id /\ c.body.participants # Omitted
    BY <1>1, <1>2, <1>3, <2>3 DEF IInv, TypeOK, Write, HeldRow, Recorded, Row
  <2>. QED
    BY <2>1, <2>2, <2>3
<1>8. DoneCounted'
  <2>1. count' = count
    OBVIOUS
  <2>2. count # NoCount => count.done \in Nat
    BY DEF IInv, TypeOK, Count
  <2>. QED
    BY <1>4, <2>1, <2>2, MonthGrows, CountsAreNatural DEF IInv, DoneCounted
<1>. QED
  BY <1>5, <1>6, <1>7, <1>8 DEF IInv
LEMMA Created ==
    ASSUME IInv, NEW s \in Slots, NEW who \in SignIns \cup {Omitted},
           NEW month \in Months, Create(s, who, month)
    PROVE  IInv'
<1>. DEFINE new == NewTraining(who, month)
<1>1. PICK id \in Ids : /\ trainings[id] = NoRow
                        /\ trainings' = [trainings EXCEPT ![id] = new]
                        /\ signedIn' = [signedIn EXCEPT ![id] = who]
  BY DEF Create
<1>2. /\ Respond(s, OK) /\ UNCHANGED <<count, stale>>
      /\ new \in Row /\ new # NoRow /\ new.participants = who
  BY NewTrainingRow DEF Create
<1>. HIDE DEF new
<1>3. TypeOK'
  BY <1>1, <1>2 DEF IInv, TypeOK, Respond
<1>4. MonthsStay
  BY <1>1 DEF IInv, TypeOK, MonthsStay
<1>5. HeldRows'
  <2>. SUFFICES ASSUME NEW r \in Slots, pending'[r] # NoCall
                PROVE  HeldRow(pending[r])' /\ pending'[r] = pending[r]
    BY DEF HeldRows, HeldRow, Free
  <2>1. pending'[r] = pending[r] /\ HeldRow(pending[r]) /\ pending[r] \in Call
    BY <1>2 DEF IInv, TypeOK, Respond, HeldRows, Free
  <2>2. pending[r].id \in Ids
    BY <2>1, CallTypes
  <2>. QED
    BY <1>4, <2>1, <2>2 DEF HeldRow, MonthsStay
<1>6. SignInsKept'
  BY <1>1, <1>2 DEF IInv, TypeOK, SignInsKept
<1>7. DoneCounted'
  <2>1. count # NoCount => count.done \in Nat
    BY DEF IInv, TypeOK, Count
  <2>. QED
    BY <1>2, <1>4, <2>1, MonthGrows, CountsAreNatural DEF IInv, DoneCounted
<1>. QED
  BY <1>3, <1>5, <1>6, <1>7 DEF IInv

LEMMA RecordBegun ==
    ASSUME IInv, NEW s \in Slots, NEW id \in Ids, NEW body \in Body,
           Record(s, id, body)
    PROVE  IInv'
<1>. DEFINE c == [id |-> id, was |-> trainings[id],
                  row |-> Recorded(trainings[id], body), body |-> body]
<1>1. trainings[id] \in Row /\ ValidRate(body.passRate)
  BY DEF IInv, TypeOK, Record
<1>2. c \in Call /\ c # NoCall
  BY <1>1, RecordedRow, AbsenceAssumption DEF Call
<1>3. HeldRow(c)
  BY <1>1 DEF HeldRow, Record
<1>4. /\ pending' = [pending EXCEPT ![s] = c]
      /\ answer' = [answer EXCEPT ![s] = NoAnswer]
      /\ UNCHANGED <<trainings, count, signedIn, stale>>
  BY DEF Record
<1>. HIDE DEF c
<1>5. TypeOK'
  BY <1>2, <1>4 DEF IInv, TypeOK
<1>6. HeldRows'
  BY <1>3, <1>4 DEF IInv, TypeOK, HeldRows, HeldRow, Free
<1>7. SignInsKept' /\ DoneCounted'
  BY <1>4 DEF IInv, SignInsKept, DoneCounted, OfThisMonth
<1>. QED
  BY <1>5, <1>6, <1>7 DEF IInv

LEMMA Counted ==
    ASSUME IInv, CountTotal \/ CountDone
    PROVE  IInv'
<1>. UNCHANGED <<trainings, pending, answer, signedIn, stale>>
  BY DEF CountTotal, CountDone
<1>1. OfThisMonth' = OfThisMonth
  BY DEF OfThisMonth
<1>2. /\ count' \in Count
      /\ count'.done <= Cardinality(OfThisMonth)
  <2>1. CASE CountTotal
    BY <2>1, CountsAreNatural DEF CountTotal, Count
  <2>2. CASE CountDone
    BY <2>2, CountsAreNatural DEF IInv, TypeOK, CountDone, Count
  <2>. QED
    BY <2>1, <2>2
<1>3. TypeOK' /\ DoneCounted'
  BY <1>1, <1>2 DEF IInv, TypeOK, DoneCounted
<1>4. HeldRows' /\ SignInsKept'
  BY DEF IInv, HeldRows, HeldRow, Free, SignInsKept
<1>. QED
  BY <1>3, <1>4 DEF IInv

\* A request that is answered without a write.
LEMMA Refused ==
    ASSUME IInv, NEW s \in Slots, NEW code \in Codes, Refuse(s, code)
    PROVE  IInv'
BY Dropped DEF Refuse, Respond, IInv, TypeOK, Codes

\* Types and both arguments above hold initially and survive every step.
THEOREM Invariance == Spec => []IInv
<1>1. Init => IInv
  <2>. SUFFICES ASSUME Init PROVE IInv
    OBVIOUS
  <2>1. TypeOK
    BY DEF Init, TypeOK
  <2>2. HeldRows /\ SignInsKept /\ DoneCounted
    BY DEF Init, HeldRows, Free, SignInsKept, DoneCounted
  <2>. QED
    BY <2>1, <2>2 DEF IInv
<1>2. ASSUME IInv, [Next]_vars
      PROVE  IInv'
  <2>1. CASE UNCHANGED vars
    BY <1>2, <2>1, Dropped DEF vars, IInv, TypeOK, Codes
  <2>2. CASE Crash
    BY <1>2, <2>2, Dropped DEF Crash, IInv, TypeOK, Codes
  <2>3. CASE CountTotal \/ CountDone
    BY <1>2, <2>3, Counted
  <2>4. ASSUME NEW s \in Slots, SaveFails(s) \/ Save(s)
        PROVE  IInv'
    <3>1. PICK code \in Codes : Respond(s, code) /\ UNCHANGED count
      BY <2>4 DEF SaveFails, Save, Codes
    <3>2. CASE Write(s)
      BY <1>2, <2>4, <3>1, <3>2, Written DEF SaveFails, Save
    <3>3. CASE UNCHANGED <<trainings, signedIn, stale>>
      BY <1>2, <3>1, <3>3, Dropped DEF Respond, IInv, TypeOK, Codes
    <3>. QED
      BY <2>4, <3>2, <3>3 DEF SaveFails, Save
  <2>5. ASSUME NEW s \in Slots,
               \/ QueryFails(s)
               \/ \E body \in Body : RecordRefused(s, body)
               \/ \E id \in Ids : FindMisses(s, id)
        PROVE  IInv'
    BY <1>2, <2>5, Refused DEF QueryFails, RecordRefused, FindMisses, Codes
  <2>6. ASSUME NEW s \in Slots,
               NEW who \in SignIns \cup {Omitted}, NEW month \in Months,
               Create(s, who, month)
        PROVE  IInv'
    BY <1>2, <2>6, Created
  <2>7. ASSUME NEW s \in Slots, NEW id \in Ids, NEW body \in Body,
               Record(s, id, body)
        PROVE  IInv'
    BY <1>2, <2>7, RecordBegun
  <2>. QED
    BY <1>2, <2>1, <2>2, <2>3, <2>4, <2>5, <2>6, <2>7 DEF Next, Fault, Handle
<1>. QED
  BY <1>1, <1>2, PTL DEF Spec

\* Trainings, held rows, answers and counts keep their types.
THEOREM TypeCorrect == Spec => []TypeOK
<1>1. IInv => TypeOK
  BY DEF IInv
<1>. QED
  BY <1>1, Invariance, PTL

\* A sign-in list on record stays until another is recorded, unless a stale
\* row is saved over it (the whole-row save of Record).
THEOREM SignInsAreKept == Spec => []SignInsKept
<1>1. IInv => SignInsKept
  BY DEF IInv
<1>. QED
  BY <1>1, Invariance, PTL

\* No more than 100 per cent of this month's trainings are shown as completed,
\* unless one was created between the two counts of CompletedRate.
THEOREM RateStaysAShare == Spec => []RateIsAShare
<1>1. ASSUME IInv PROVE RateIsAShare
  <2>. SUFFICES ASSUME count # NoCount, count.total = Cardinality(OfThisMonth)
                PROVE  CompletedRate(count) <= 100
    BY DEF RateIsAShare
  <2>1. count.total \in Nat /\ count.done \in Nat /\ count.done <= count.total
    BY <1>1, CountsAreNatural DEF IInv, TypeOK, Count, DoneCounted
  <2>2. CASE count.total = 0
    BY <2>2 DEF CompletedRate
  <2>3. ASSUME NEW t \in Nat \ {0}, NEW d \in Nat, d <= t
        PROVE  (100 * d) \div t <= 100
    BY <2>3
  <2>. QED
    BY <2>1, <2>2, <2>3 DEF CompletedRate
<1>. QED
  BY <1>1, Invariance, PTL

------------------------------------------------------------------------------
(* One request at a time: the row it holds was read from the table as it     *)
(* still is, so nothing is ever saved over a newer row.                      *)

OneSlot == \A s, t \in Slots : s = t

HeldFresh ==
    /\ \A s \in Slots : ~Free(s) => pending[s].was = trainings[pending[s].id]
    /\ stale = {}

LEMMA SerialStep ==
    ASSUME OneSlot, IInv, HeldFresh, [Next]_vars
    PROVE  HeldFresh'
<1>1. ASSUME UNCHANGED <<trainings, stale>>,
             \A s \in Slots : pending'[s] \in {pending[s], NoCall}
      PROVE  HeldFresh'
  BY <1>1 DEF HeldFresh, Free
<1>3. CASE Crash \/ CountTotal \/ CountDone \/ UNCHANGED vars
  BY <1>1, <1>3 DEF Crash, CountTotal, CountDone, vars, IInv, TypeOK
<1>4. ASSUME NEW s \in Slots, Save(s) \/ SaveFails(s)
      PROVE  HeldFresh'
  <2>1. /\ pending' = [pending EXCEPT ![s] = NoCall]
        /\ ~Free(s) /\ pending[s] \in Call
    BY <1>4 DEF Save, SaveFails, Respond, Free, IInv, TypeOK
  <2>2. stale' = {}
    BY <1>4, <2>1 DEF Save, SaveFails, Write, HeldFresh
  <2>3. \A t \in Slots : pending'[t] = NoCall
    BY <2>1 DEF OneSlot, IInv, TypeOK
  <2>. QED
    BY <2>2, <2>3 DEF HeldFresh, Free
<1>5. ASSUME NEW s \in Slots, NEW who \in SignIns \cup {Omitted}, NEW month \in Months,
             Create(s, who, month)
      PROVE  HeldFresh'
  <2>1. \A t \in Slots : pending'[t] = NoCall
    BY <1>5 DEF Create, Respond, OneSlot, IInv, TypeOK
  <2>. QED
    BY <1>5, <2>1 DEF Create, HeldFresh, Free
<1>6. ASSUME NEW s \in Slots, NEW id \in Ids, NEW body \in Body, Record(s, id, body)
      PROVE  HeldFresh'
  BY <1>6 DEF Record, HeldFresh, OneSlot, IInv, TypeOK
<1>7. ASSUME NEW s \in Slots,
             \/ QueryFails(s)
             \/ \E body \in Body : RecordRefused(s, body)
             \/ \E id \in Ids : FindMisses(s, id)
      PROVE  HeldFresh'
  <2>1. \E code \in Codes : Refuse(s, code)
    BY <1>7 DEF QueryFails, RecordRefused, FindMisses, Codes
  <2>. QED
    BY <1>1, <2>1 DEF Refuse, Respond, IInv, TypeOK
<1>. QED
  BY <1>3, <1>4, <1>5, <1>6, <1>7 DEF Next, Fault, Handle

\* With one request at a time no sign-in list is lost: the exception of
\* SignInsKept is a race between a read and a save, and nothing else.
THEOREM SerialSignInsAreKept ==
    OneSlot => (Spec => [](\A id \in Ids :
        trainings[id] # NoRow => trainings[id].participants = signedIn[id]))
<1>. SUFFICES ASSUME OneSlot
              PROVE  Spec => [](\A id \in Ids :
                        trainings[id] # NoRow => trainings[id].participants = signedIn[id])
  OBVIOUS
<1>1. Init => HeldFresh
  BY DEF Init, HeldFresh, Free
<1>2. IInv /\ HeldFresh /\ [Next]_vars => HeldFresh'
  BY SerialStep
<1>3. IInv /\ HeldFresh => \A id \in Ids :
        trainings[id] # NoRow => trainings[id].participants = signedIn[id]
  BY DEF IInv, HeldFresh, SignInsKept
<1>. QED
  BY <1>1, <1>2, <1>3, Invariance, PTL DEF Spec

==============================================================================
