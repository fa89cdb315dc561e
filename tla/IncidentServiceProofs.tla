------------------------ MODULE IncidentServiceProofs ------------------------
(***************************************************************************)
(* Proofs about IncidentService, for every set of incidents, handlers,     *)
(* reporters and measures and every seeded table.                          *)
(*                                                                         *)
(* Every step does one of four things: it drops what handlers hold         *)
(* (Refuse, a Save that fails, Crash), gives one handler a changed copy    *)
(* of the row it just read (Hold), writes a held copy (Save), or inserts   *)
(* a fresh row (Report).  The lemmas follow that division.                 *)
(***************************************************************************)
EXTENDS IncidentService, TLAPS

\* The steps of Next, by what they do.
Drops ==
    /\ UNCHANGED <<incidents, reached>>
    /\ \A s \in Slots : pending'[s] \in {pending[s], NoCall}
    /\ pending' \in [Slots -> Call \cup {NoCall}]

HoldsNext(s, id) ==
    /\ Found(s, id)
    /\ \/ CanAssign(incidents[id]) /\ Hold(s, id, Assigned(incidents[id]))
       \/ \E m \in Measures :
            CanRectify(incidents[id]) /\ Hold(s, id, Rectified(incidents[id], m))
       \/ CanClose(incidents[id]) /\ Hold(s, id, ClosedRow(incidents[id]))

Writes(s) ==
    /\ ~Free(s)
    /\ Write(pending[s].id, pending[s].row)
    /\ pending' = [pending EXCEPT ![s] = NoCall]

Inserts(s, rep, sev) ==
    /\ Free(s)
    /\ IsValidSeverity(sev)
    /\ \E id \in Ids :
        incidents[id] = NoRow /\ Write(id, NewIncident(rep, sev))
    /\ pending' = [pending EXCEPT ![s] = NoCall]

\* Slot s now holds row, one lifecycle move ahead of the row of id.
HeldFrom(s, id, row) ==
    /\ pending' = [pending EXCEPT ![s] = [id |-> id, row |-> row]]
    /\ UNCHANGED <<incidents, reached>>
    /\ incidents[id] # NoRow
    /\ row.severity = incidents[id].severity
    /\ row.reporter = incidents[id].reporter
    /\ <<incidents[id].status, row.status>> \in Lifecycle!Moves
    /\ row.status # "reported"
    /\ row.status = "resolved" => row.measures # NoMeasures
    /\ row.status = "closed" => row.measures = incidents[id].measures

\* Answers take no part in the arguments below.
Typed ==
    /\ incidents \in [Ids -> Row \cup {NoRow}]
    /\ pending \in [Slots -> Call \cup {NoCall}]
    /\ reached \in [Ids -> SUBSET Statuses]

RowsReached ==
    \A id \in Ids :
        IF incidents[id] = NoRow THEN reached[id] = {}
                                 ELSE incidents[id].status \in reached[id]

\* No race lets an incident skip a status: each status it ever had was
\* preceded by the one before it in the state machine.
StatusesEarned ==
    \A id \in Ids \ Seeded :
        /\ "closed" \in reached[id] => "resolved" \in reached[id]
        /\ "resolved" \in reached[id] => "investigating" \in reached[id]
        /\ "investigating" \in reached[id] => "reported" \in reached[id]

\* What a handler may be holding, however long ago it read the row: a copy
\* that still agrees with the table on the facts of the report, whose status
\* the incident has earned, and that has measures if it says "rectified".
HeldEarned(s) ==
    LET id  == pending[s].id
        row == pending[s].row
    IN  /\ incidents[id] # NoRow
        /\ row.severity = incidents[id].severity
        /\ row.reporter = incidents[id].reporter
        /\ row.status # "reported"
        /\ row.status = "investigating" => "reported" \in reached[id]
        /\ row.status = "resolved" => "investigating" \in reached[id]
        /\ row.status = "closed" => "resolved" \in reached[id]
        /\ id \notin Seeded /\ row.status \in {"resolved", "closed"}
            => row.measures # NoMeasures

HeldRowsEarned == \A s \in Slots : pending[s] # NoCall => HeldEarned(s)

IInv ==
    /\ Typed
    /\ RowsReached
    /\ HeldRowsEarned
    /\ StatusesEarned
    /\ MeasuresRecorded

------------------------------------------------------------------------------

\* The table, the held rows, the answers and the history keep their types
\* through every handler and every fault.
THEOREM TypeCorrect == Spec => []TypeOK
<1>1. Init => TypeOK
  BY SeedAssumption, NoRowAssumption
     DEF Init, TypeOK, Row, NoAnswer, Statuses
<1>2. ASSUME TypeOK, [Next]_vars
      PROVE  TypeOK'
  <2>1. CASE Fault
    <3>1. CASE Crash
      BY <1>2, <3>1 DEF TypeOK, Crash, NoAnswer
    <3>2. ASSUME NEW s \in Slots, ReadFails(s)
          PROVE  TypeOK'
      BY <1>2, <3>2 DEF TypeOK, ReadFails, Refuse, Respond, InternalError
    <3>3. ASSUME NEW s \in Slots, SaveFails(s)
          PROVE  TypeOK'
      BY <1>2, <3>3 DEF TypeOK, SaveFails, Free, Respond, Write, Call, Row,
                        InternalError
    <3>4. QED BY <2>1, <3>1, <3>2, <3>3 DEF Fault
  <2>2. ASSUME NEW s \in Slots, Handle(s)
        PROVE  TypeOK'
    <3>1. ASSUME NEW rep \in Reporters, NEW sev \in SeverityInputs,
                 Report(s, rep, sev)
          PROVE  TypeOK'
      <4>1. NewIncident(rep, sev) \in Row
        BY <3>1 DEF Report, IsValidSeverity, NewIncident, Row, Statuses, NoMeasures
      <4>2. QED BY <1>2, <3>1, <4>1 DEF TypeOK, Report, Write, Respond, Row, OK
    <3>2. ASSUME NEW id \in Ids, Assign(s, id)
          PROVE  TypeOK'
      BY <1>2, <3>2 DEF TypeOK, Assign, Found, Hold, Assigned, Call, Row,
                        Statuses, NoAnswer
    <3>3. ASSUME NEW id \in Ids, NEW m \in Measures, SubmitRectification(s, id, m)
          PROVE  TypeOK'
      BY <1>2, <3>3 DEF TypeOK, SubmitRectification, Found, Hold, Rectified,
                        Call, Row, Statuses, NoAnswer
    <3>4. ASSUME NEW id \in Ids, Close(s, id)
          PROVE  TypeOK'
      BY <1>2, <3>4 DEF TypeOK, Close, Found, Hold, ClosedRow, Call, Row,
                        Statuses, NoAnswer
    <3>5. CASE Save(s)
      BY <1>2, <3>5 DEF TypeOK, Save, Free, Write, Respond, Call, Row, OK
    <3>6. ASSUME NEW id \in Ids, StatusConflict(s, id) \/ FindMisses(s, id)
          PROVE  TypeOK'
      BY <1>2, <3>6 DEF TypeOK, StatusConflict, FindMisses, Refuse, Respond,
                        Conflict, InternalError
    <3>7. ASSUME NEW sev, NEW m, ReportRefused(s, sev) \/ RectifyRefused(s, m)
          PROVE  TypeOK'
      BY <1>2, <3>7 DEF TypeOK, ReportRefused, RectifyRefused, Refuse, Respond,
                        BadRequest
    <3>8. QED BY <2>2, <3>1, <3>2, <3>3, <3>4, <3>5, <3>6, <3>7
              DEF Handle, Advance
  <2>3. CASE UNCHANGED vars
    BY <1>2, <2>3 DEF TypeOK, vars
  <2>4. QED BY <1>2, <2>1, <2>2, <2>3 DEF Next
<1>3. QED BY <1>1, <1>2, PTL DEF Spec

------------------------------------------------------------------------------

\* The type invariant gives the part of it the argument uses.
LEMMA TypedHolds == TypeOK => Typed
  BY DEF TypeOK, Typed

\* Every step is of one of the four kinds.
LEMMA StepKinds ==
  ASSUME Typed, [Next]_vars
  PROVE  \/ Drops
         \/ \E s \in Slots, id \in Ids : HoldsNext(s, id)
         \/ \E s \in Slots : Writes(s)
         \/ \E s \in Slots, rep \in Reporters, sev \in SeverityInputs :
                Inserts(s, rep, sev)
<1>2. ASSUME NEW s \in Slots, NEW c, Refuse(s, c)
      PROVE  Drops
  BY <1>2 DEF Refuse, Respond, Drops, Typed
<1>3. CASE Fault
  <2>1. CASE Crash
    BY <2>1 DEF Crash, Drops, Typed
  <2>2. ASSUME NEW s \in Slots, ReadFails(s)
        PROVE  Drops
    BY <1>2, <2>2 DEF ReadFails
  <2>3. ASSUME NEW s \in Slots, SaveFails(s)
        PROVE  Drops \/ Writes(s)
    BY <2>3 DEF SaveFails, Respond, Drops, Writes, Typed
  <2>4. QED BY <1>3, <2>1, <2>2, <2>3 DEF Fault
<1>4. ASSUME NEW s \in Slots, Handle(s)
      PROVE  \/ Drops
             \/ \E id \in Ids : HoldsNext(s, id)
             \/ Writes(s)
             \/ \E rep \in Reporters, sev \in SeverityInputs :
                    Inserts(s, rep, sev)
  <2>1. ASSUME NEW rep \in Reporters, NEW sev \in SeverityInputs,
               Report(s, rep, sev)
        PROVE  Inserts(s, rep, sev)
    BY <2>1 DEF Report, Inserts, Respond
  <2>2. ASSUME NEW id \in Ids, Advance(s, id)
        PROVE  HoldsNext(s, id)
    BY <2>2 DEF Advance, Assign, SubmitRectification, Close, HoldsNext
  <2>3. CASE Save(s)
    BY <2>3 DEF Save, Writes, Respond
  <2>4. ASSUME NEW id \in Ids, StatusConflict(s, id) \/ FindMisses(s, id)
        PROVE  Drops
    BY <1>2, <2>4 DEF StatusConflict, FindMisses
  <2>5. ASSUME NEW sev, NEW m, ReportRefused(s, sev) \/ RectifyRefused(s, m)
        PROVE  Drops
    BY <1>2, <2>5 DEF ReportRefused, RectifyRefused
  <2>6. QED BY <1>4, <2>1, <2>2, <2>3, <2>4, <2>5 DEF Handle
<1>5. CASE UNCHANGED vars
  BY <1>5 DEF vars, Drops, Typed
<1>6. QED BY <1>3, <1>4, <1>5 DEF Next

\* What Hold leaves in pending, whichever operation runs.
LEMMA HeldCopy ==
  ASSUME IInv, NEW s \in Slots, NEW id \in Ids, HoldsNext(s, id)
  PROVE  \E row \in Row : HeldFrom(s, id, row)
<1>1. incidents[id] \in Row
  BY DEF IInv, Typed, HoldsNext, Found
<1>2. CASE CanAssign(incidents[id]) /\ Hold(s, id, Assigned(incidents[id]))
  <2> DEFINE row == Assigned(incidents[id])
  <2>1. /\ row \in Row /\ row.status = "investigating"
        /\ row.severity = incidents[id].severity
        /\ row.reporter = incidents[id].reporter
    BY <1>1 DEF Assigned, Row, Statuses
  <2>2. QED BY <1>2, <2>1 DEF HeldFrom, Hold, HoldsNext, Found, CanAssign,
                              Lifecycle!Moves
<1>3. ASSUME NEW m \in Measures, CanRectify(incidents[id]),
             Hold(s, id, Rectified(incidents[id], m))
      PROVE  \E row \in Row : HeldFrom(s, id, row)
  <2> DEFINE row == Rectified(incidents[id], m)
  <2>1. /\ row \in Row /\ row.status = "resolved"
        /\ row.severity = incidents[id].severity
        /\ row.reporter = incidents[id].reporter
        /\ row.measures = m /\ m # NoMeasures
    BY <1>1, NoMeasuresAssumption DEF Rectified, Row, Statuses
  <2>2. QED BY <1>3, <2>1 DEF HeldFrom, Hold, HoldsNext, Found, CanRectify,
                              Lifecycle!Moves
<1>4. CASE CanClose(incidents[id]) /\ Hold(s, id, ClosedRow(incidents[id]))
  <2> DEFINE row == ClosedRow(incidents[id])
  <2>1. /\ row \in Row /\ row.status = "closed"
        /\ row.severity = incidents[id].severity
        /\ row.reporter = incidents[id].reporter
        /\ row.measures = incidents[id].measures
    BY <1>1 DEF ClosedRow, Row, Statuses
  <2>2. QED BY <1>4, <2>1 DEF HeldFrom, Hold, HoldsNext, Found, CanClose,
                              Lifecycle!Moves
<1>5. QED BY <1>2, <1>3, <1>4 DEF HoldsNext
------------------------------------------------------------------------------
(* The inductive invariant, one lemma per kind of step. *)

\* Dropping held rows, by an answer or a crash, keeps the invariant.
LEMMA DropsKeep ==
  ASSUME IInv, Drops
  PROVE  IInv'
<1>1. Typed' /\ RowsReached' /\ StatusesEarned'
  BY DEF IInv, Drops, Typed, RowsReached, StatusesEarned
<1>2. MeasuresRecorded'
  BY DEF IInv, Drops, MeasuresRecorded, PendingRectification
<1>3. HeldRowsEarned'
  BY DEF IInv, Drops, HeldRowsEarned, HeldEarned
<1>4. QED BY <1>1, <1>2, <1>3 DEF IInv

\* A copy of a row just read, one status further, is earned when it is taken.
LEMMA HoldsKeep ==
  ASSUME IInv, NEW s \in Slots, NEW id \in Ids, HoldsNext(s, id)
  PROVE  IInv'
<1>1. PICK row \in Row : HeldFrom(s, id, row)
  BY HeldCopy
<1>2. Typed'
  BY <1>1 DEF IInv, Typed, HeldFrom, Call
<1>3. RowsReached' /\ StatusesEarned' /\ MeasuresRecorded'
  BY <1>1 DEF IInv, HeldFrom, RowsReached, StatusesEarned, MeasuresRecorded,
              PendingRectification
<1>4. HeldRowsEarned'
  <2> SUFFICES ASSUME NEW t \in Slots, pending'[t] # NoCall
               PROVE  HeldEarned(t)'
    BY <1>1 DEF HeldRowsEarned
  <2>1. CASE t # s
    BY <1>1, <2>1 DEF IInv, HeldFrom, HeldRowsEarned, HeldEarned, Typed
  <2>2. CASE t = s
    <3>1. pending'[t].id = id /\ pending'[t].row = row
      BY <1>1, <2>2 DEF IInv, HeldFrom, Typed
    <3>2. incidents[id].status \in reached[id]
      BY <1>1 DEF IInv, RowsReached, HeldFrom
    <3>3. ASSUME id \notin Seeded, row.status = "closed"
          PROVE  row.measures # NoMeasures
      <4>1. incidents[id].status = "resolved" /\ incidents[id] # NoRow
        BY <1>1, <3>3 DEF HeldFrom, Lifecycle!Moves
      <4>2. incidents[id].measures # NoMeasures
        BY <3>3, <4>1 DEF IInv, MeasuresRecorded, PendingRectification
      <4>3. QED BY <1>1, <3>3, <4>2 DEF HeldFrom
    <3>4. /\ row.status = "investigating" => incidents[id].status = "reported"
          /\ row.status = "resolved" => incidents[id].status = "investigating"
          /\ row.status = "closed" => incidents[id].status = "resolved"
      BY <1>1 DEF HeldFrom, Lifecycle!Moves
    <3>5. QED BY <1>1, <3>1, <3>2, <3>3, <3>4 DEF HeldFrom, HeldEarned
  <2>3. QED BY <2>1, <2>2
<1>5. QED BY <1>2, <1>3, <1>4 DEF IInv

\* Writing a held copy, however stale, keeps the invariant.
LEMMA WritesKeep ==
  ASSUME IInv, NEW s \in Slots, Writes(s)
  PROVE  IInv'
<1> DEFINE id  == pending[s].id
           row == pending[s].row
<1>1. /\ pending[s] # NoCall /\ id \in Ids /\ row \in Row
      /\ incidents' = [incidents EXCEPT ![id] = row]
      /\ reached' = [reached EXCEPT ![id] = @ \cup {row.status}]
      /\ pending' = [pending EXCEPT ![s] = NoCall]
  BY DEF IInv, Typed, Writes, Free, Write, Call
<1>2. row.status \in Statuses /\ row # NoRow
  BY <1>1, NoRowAssumption DEF Row
<1>3. /\ incidents[id] # NoRow
      /\ row.severity = incidents[id].severity
      /\ row.reporter = incidents[id].reporter
      /\ row.status # "reported"
      /\ row.status = "investigating" => "reported" \in reached[id]
      /\ row.status = "resolved" => "investigating" \in reached[id]
      /\ row.status = "closed" => "resolved" \in reached[id]
      /\ id \notin Seeded /\ row.status \in {"resolved", "closed"}
            => row.measures # NoMeasures
  BY <1>1 DEF IInv, HeldRowsEarned, HeldEarned
<1> HIDE DEF id, row
<1>4. Typed'
  BY <1>1, <1>2 DEF IInv, Typed
<1>5. RowsReached'
  BY <1>1, <1>2 DEF IInv, Typed, RowsReached
<1>6. StatusesEarned'
  BY <1>1, <1>3 DEF IInv, Typed, StatusesEarned
<1>7. MeasuresRecorded'
  BY <1>1, <1>2, <1>3
     DEF IInv, Typed, MeasuresRecorded, PendingRectification, Statuses
<1>8. HeldRowsEarned'
  <2> SUFFICES ASSUME NEW t \in Slots, pending'[t] # NoCall
               PROVE  HeldEarned(t)'
    BY DEF HeldRowsEarned, HeldEarned
  <2>1. pending'[t] = pending[t] /\ pending[t] \in Call
    BY <1>1 DEF IInv, Typed
  <2>2. HeldEarned(t)
    BY <2>1 DEF IInv, HeldRowsEarned, HeldEarned
  <2>3. QED BY <1>1, <1>2, <1>3, <2>1, <2>2 DEF IInv, Typed, HeldEarned, Call
<1>9. QED BY <1>4, <1>5, <1>6, <1>7, <1>8 DEF IInv

\* A fresh report keeps the invariant.
LEMMA InsertsKeep ==
  ASSUME IInv, NEW s \in Slots, NEW rep \in Reporters, NEW sev \in SeverityInputs,
         Inserts(s, rep, sev)
  PROVE  IInv'
<1> DEFINE row == NewIncident(rep, sev)
<1>1. PICK id \in Ids :
        /\ incidents[id] = NoRow
        /\ incidents' = [incidents EXCEPT ![id] = row]
        /\ reached' = [reached EXCEPT ![id] = @ \cup {row.status}]
  BY DEF Inserts, Write
<1>2. row \in Row /\ row # NoRow /\ row.status = "reported"
  <2>1. row \in Row /\ row.status = "reported"
    BY DEF Inserts, IsValidSeverity, NewIncident, Row, Statuses, NoMeasures
  <2>2. QED BY <2>1, NoRowAssumption
<1>3. pending' = [pending EXCEPT ![s] = NoCall]
  BY DEF Inserts
<1> HIDE DEF row
<1>4. Typed'
  BY <1>1, <1>2, <1>3 DEF IInv, Typed, Statuses
<1>5. RowsReached'
  BY <1>1, <1>2 DEF IInv, Typed, RowsReached
<1>6. StatusesEarned'
  BY <1>1, <1>2 DEF IInv, Typed, StatusesEarned
<1>7. MeasuresRecorded'
  BY <1>1, <1>2 DEF IInv, Typed, MeasuresRecorded, PendingRectification
<1>8. HeldRowsEarned'
  BY <1>1, <1>2, <1>3 DEF IInv, Typed, HeldRowsEarned, HeldEarned, Call
<1>9. QED BY <1>4, <1>5, <1>6, <1>7, <1>8 DEF IInv

\* The seeded table satisfies the invariant.
LEMMA InitIInv == Init => IInv
<1> SUFFICES ASSUME Init PROVE IInv
  OBVIOUS
<1>1. Typed /\ RowsReached
  BY SeedAssumption, NoRowAssumption DEF Init, Typed, RowsReached, Row
<1>2. HeldRowsEarned
  BY DEF Init, HeldRowsEarned
<1>3. StatusesEarned /\ MeasuresRecorded
  BY DEF Init, StatusesEarned, MeasuresRecorded, Seeded
<1>4. QED BY <1>1, <1>2, <1>3 DEF IInv

\* Every step keeps the invariant.
LEMMA StepIInv == IInv /\ [Next]_vars => IInv'
  BY StepKinds, DropsKeep, HoldsKeep, WritesKeep, InsertsKeep DEF IInv

\* The inductive invariant: rows, held rows and history agree as IInv says,
\* under every interleaving, fault and crash.
THEOREM Invariance == Spec => []IInv
<1>1. QED BY InitIInv, StepIInv, PTL DEF Spec

\* An incident that has left the to-be-rectified list has its measures, for
\* every interleaving of the handlers, every fault and every crash.
THEOREM MeasuresAreRecorded == Spec => []MeasuresRecorded
<1>1. IInv => MeasuresRecorded
  BY DEF IInv
<1>2. QED BY <1>1, Invariance, PTL

\* No incident skips a status.
THEOREM NoStatusSkipped == Spec => []StatusesEarned
<1>1. IInv => StatusesEarned
  BY DEF IInv
<1>2. QED BY <1>1, Invariance, PTL

\* A copy held by a handler, however stale, agrees with the table on the
\* facts of the report.
THEOREM HeldRowsAreEarned == Spec => []HeldRowsEarned
<1>1. IInv => HeldRowsEarned
  BY DEF IInv
<1>2. QED BY <1>1, Invariance, PTL

\* No step, of a handler or a fault, loses a row or rewrites its report.
THEOREM RowsAreKept == Spec => RowsKept
<1> DEFINE Kept == \A id \in Ids : incidents[id] # NoRow =>
                      /\ incidents'[id] # NoRow
                      /\ incidents'[id].severity = incidents[id].severity
                      /\ incidents'[id].reporter = incidents[id].reporter
<1>1. IInv /\ [Next]_vars => Kept
  <2> SUFFICES ASSUME IInv, [Next]_vars PROVE Kept
    OBVIOUS
  <2>1. CASE Drops
    BY <2>1 DEF Drops
  <2>2. ASSUME NEW s \in Slots, NEW id \in Ids, HoldsNext(s, id)
        PROVE  Kept
    BY <2>2, HeldCopy DEF HeldFrom
  <2>3. ASSUME NEW s \in Slots, Writes(s)
        PROVE  Kept
    <3>1. pending[s] \in Call /\ pending[s] # NoCall
      BY <2>3 DEF IInv, Typed, Writes, Free
    <3>2. pending[s].row # NoRow
      BY <3>1, NoRowAssumption DEF Call
    <3>3. HeldEarned(s)
      BY <3>1 DEF IInv, HeldRowsEarned
    <3>4. QED BY <2>3, <3>1, <3>2, <3>3 DEF IInv, Typed, Writes, Write, HeldEarned, Call
  <2>4. ASSUME NEW s \in Slots, NEW rep \in Reporters, NEW sev \in SeverityInputs,
               Inserts(s, rep, sev)
        PROVE  Kept
    BY <2>4 DEF IInv, Typed, Inserts, Write
  <2>5. QED BY <2>1, <2>2, <2>3, <2>4, StepKinds DEF IInv
<1>2. QED BY <1>1, Invariance, PTL DEF Spec, RowsKept

------------------------------------------------------------------------------
(* Racing handlers.  A held row is one status ahead of one its incident has  *)
(* had, so writing it moves the furthest status on by one, or not at all.    *)

\* Every step is a move of the lifecycle in furthest, or a stutter.
LEMMA ProgressStep ==
  ASSUME IInv, [Next]_vars
  PROVE  [Progress!Next]_furthest
<1>1. CASE Drops
  BY <1>1 DEF Drops, furthest
<1>2. ASSUME NEW s \in Slots, NEW id \in Ids, HoldsNext(s, id)
      PROVE  UNCHANGED furthest
  BY <1>2, HeldCopy DEF HeldFrom, furthest
<1>3. ASSUME NEW s \in Slots, Writes(s)
      PROVE  UNCHANGED furthest \/ Progress!Next
  <2> DEFINE id == pending[s].id
             st == pending[s].row.status
  <2>1. /\ id \in Ids /\ st \in Statuses \ {"reported"}
        /\ reached' = [reached EXCEPT ![id] = @ \cup {st}]
        /\ st = "investigating" => "reported" \in reached[id]
        /\ st = "resolved" => "investigating" \in reached[id]
        /\ st = "closed" => "resolved" \in reached[id]
    BY <1>3 DEF IInv, Typed, Writes, Free, Write, Call, Row, HeldRowsEarned,
                HeldEarned
  <2> HIDE DEF id, st
  <2>2. \/ UNCHANGED furthest
        \/ /\ furthest' = [furthest EXCEPT ![id] = st]
           /\ <<furthest[id], st>> \in Progress!Moves
    <3>1. \A i \in Ids : i # id => furthest'[i] = furthest[i]
      BY <2>1 DEF IInv, Typed, furthest
    <3>2. reached'[id] = reached[id] \cup {st}
      BY <2>1 DEF IInv, Typed
    <3>3. \/ furthest'[id] = furthest[id]
          \/ furthest'[id] = st /\ <<furthest[id], st>> \in Progress!Moves
      <4>1. CASE st = "investigating"
        BY <2>1, <3>2, <4>1 DEF furthest, Progress!Moves
      <4>2. CASE st = "resolved"
        BY <2>1, <3>2, <4>2 DEF furthest, Progress!Moves
      <4>3. CASE st = "closed"
        BY <2>1, <3>2, <4>3 DEF furthest, Progress!Moves
      <4>4. QED BY <2>1, <4>1, <4>2, <4>3 DEF Statuses
    <3>4. furthest = [i \in Ids |-> furthest[i]] /\ furthest' = [i \in Ids |-> furthest'[i]]
      BY DEF furthest
    <3>5. QED BY <2>1, <3>1, <3>3, <3>4
  <2>3. QED BY <2>1, <2>2 DEF Progress!Next, Progress!Move, Progress!Statuses, Statuses
<1>4. ASSUME NEW s \in Slots, NEW rep \in Reporters, NEW sev \in SeverityInputs,
             Inserts(s, rep, sev)
      PROVE  Progress!Next
  <2>1. PICK id \in Ids :
          /\ incidents[id] = NoRow
          /\ reached' = [reached EXCEPT ![id] = @ \cup {"reported"}]
    BY <1>4 DEF Inserts, Write, NewIncident
  <2>2. furthest[id] = "absent" /\ reached'[id] = {"reported"}
    BY <2>1 DEF IInv, Typed, RowsReached, furthest
  <2>3. furthest' = [furthest EXCEPT ![id] = "reported"]
    BY <2>1, <2>2 DEF IInv, Typed, furthest
  <2>4. QED BY <2>2, <2>3
            DEF Progress!Next, Progress!Move, Progress!Moves,
                Progress!Statuses, Progress!Absent
<1>5. QED BY <1>1, <1>2, <1>3, <1>4, StepKinds DEF IInv

\* Under every interleaving, fault and crash the service implements the state
\* machine, read as how far each incident has ever got.
THEOREM ProgressRefinement == Spec => ImplementsLifecycle
<1>1. Init => Progress!Init
  BY DEF Init, Progress!Init, Progress!Statuses, Progress!Absent, furthest
<1>2. IInv /\ [Next]_vars => [Progress!Next]_furthest
  BY ProgressStep
<1>3. QED BY <1>1, <1>2, Invariance, PTL DEF Spec, ImplementsLifecycle, Progress!Spec

------------------------------------------------------------------------------
(* One handler at a time.  What it holds is then one lifecycle move ahead   *)
(* of the row in the table, because nothing else can write in between.      *)

OneSlot == \A s, t \in Slots : s = t

HeldRowsFresh ==
    \A s \in Slots : pending[s] # NoCall =>
        <<incidents[pending[s].id].status, pending[s].row.status>>
            \in Lifecycle!Moves

SerialInv == IInv /\ HeldRowsFresh

\* With one handler, the row it holds is the row of the table one move
\* further, so every step is a move of the lifecycle or a stutter.
LEMMA SerialStep ==
  ASSUME OneSlot, SerialInv, [Next]_vars
  PROVE  HeldRowsFresh' /\ [Lifecycle!Next]_statusOf
<1>1. CASE Drops
  BY <1>1 DEF Drops, SerialInv, HeldRowsFresh, statusOf
<1>2. ASSUME NEW s \in Slots, NEW id \in Ids, HoldsNext(s, id)
      PROVE  HeldRowsFresh' /\ UNCHANGED statusOf
  <2>1. PICK row \in Row : HeldFrom(s, id, row)
    BY <1>2, HeldCopy DEF SerialInv
  <2>2. UNCHANGED statusOf
    BY <2>1 DEF HeldFrom, statusOf
  <2>3. pending'[s] = [id |-> id, row |-> row]
    BY <2>1 DEF HeldFrom, SerialInv, IInv, Typed
  <2>4. QED BY <2>1, <2>2, <2>3 DEF OneSlot, HeldFrom, HeldRowsFresh
<1>3. ASSUME NEW s \in Slots, Writes(s)
      PROVE  HeldRowsFresh' /\ Lifecycle!Next
  <2> DEFINE id  == pending[s].id
             row == pending[s].row
  <2>1. /\ id \in Ids /\ row \in Row /\ pending[s] # NoCall
        /\ incidents' = [incidents EXCEPT ![id] = row]
    BY <1>3 DEF SerialInv, IInv, Typed, Writes, Free, Write, Call
  <2>2. row # NoRow /\ row.status \in Statuses
    BY <2>1, NoRowAssumption DEF Row
  <2>3. incidents[id] # NoRow /\ <<incidents[id].status, row.status>> \in Lifecycle!Moves
    BY <2>1 DEF SerialInv, IInv, HeldRowsFresh, HeldRowsEarned, HeldEarned
  <2>4. HeldRowsFresh'
    BY <1>3 DEF Writes, OneSlot, HeldRowsFresh, SerialInv, IInv, Typed
  <2>5. statusOf' = [statusOf EXCEPT ![id] = row.status]
    BY <2>1, <2>2 DEF statusOf, SerialInv, IInv, Typed
  <2>6. statusOf[id] = incidents[id].status
    BY <2>1, <2>3 DEF statusOf
  <2>7. Lifecycle!Move(id)
    BY <2>2, <2>3, <2>5, <2>6 DEF Lifecycle!Move, Lifecycle!Statuses, Statuses
  <2>8. QED BY <2>1, <2>4, <2>7 DEF Lifecycle!Next
<1>4. ASSUME NEW s \in Slots, NEW rep \in Reporters, NEW sev \in SeverityInputs,
             Inserts(s, rep, sev)
      PROVE  HeldRowsFresh' /\ Lifecycle!Next
  <2> DEFINE row == NewIncident(rep, sev)
  <2>1. PICK id \in Ids :
          incidents[id] = NoRow /\ incidents' = [incidents EXCEPT ![id] = row]
    BY <1>4 DEF Inserts, Write
  <2>2. row \in Row /\ row.status = "reported"
    BY <1>4 DEF Inserts, IsValidSeverity, NewIncident, Row, Statuses, NoMeasures
  <2>3. row # NoRow
    BY <2>2, NoRowAssumption
  <2>4. HeldRowsFresh'
    BY <1>4 DEF Inserts, OneSlot, HeldRowsFresh, SerialInv, IInv, Typed
  <2> HIDE DEF row
  <2>5. statusOf' = [statusOf EXCEPT ![id] = "reported"] /\ statusOf[id] = "absent"
    BY <2>1, <2>2, <2>3 DEF statusOf, SerialInv, IInv, Typed
  <2>6. Lifecycle!Move(id)
    BY <2>5 DEF Lifecycle!Move, Lifecycle!Moves, Lifecycle!Statuses, Lifecycle!Absent
  <2>7. QED BY <2>1, <2>4, <2>6 DEF Lifecycle!Next
<1>5. QED BY <1>1, <1>2, <1>3, <1>4, StepKinds DEF SerialInv, IInv

\* With one handler at a time the service implements the state machine, for
\* every seeded table and with every fault.
THEOREM SerialRefinement == OneSlot => (Spec => Lifecycle!Spec)
<1> SUFFICES ASSUME OneSlot PROVE Spec => Lifecycle!Spec
  OBVIOUS
<1>1. Init => SerialInv /\ Lifecycle!Init
  <2>1. Init => HeldRowsFresh
    BY DEF Init, HeldRowsFresh
  <2>2. Init => Lifecycle!Init
    BY SeedAssumption
       DEF Init, Lifecycle!Init, Lifecycle!Statuses, Lifecycle!Absent,
           statusOf, Row, Statuses
  <2>3. QED BY <2>1, <2>2, InitIInv DEF SerialInv
<1>2. SerialInv /\ [Next]_vars => SerialInv' /\ [Lifecycle!Next]_statusOf
  BY SerialStep, StepIInv DEF SerialInv
<1>3. QED BY <1>1, <1>2, PTL DEF Spec, Lifecycle!Spec

------------------------------------------------------------------------------
(* What is left of closing.  A closed incident can only be moved back by a   *)
(* handler that has held its copy since before: without such a copy none is  *)
(* ever taken again, and with one handler at a time there never is one.      *)

\* Closed, and no handler holds a copy of it that says anything else.
AtRest(id) ==
    /\ incidents[id] # NoRow
    /\ incidents[id].status = "closed"
    /\ \A s \in Slots : pending[s] # NoCall /\ pending[s].id = id
            => pending[s].row.status = "closed"

\* No step disturbs an incident at rest: whoever reads it finds it closed.
LEMMA RestStep ==
  ASSUME IInv, [Next]_vars, NEW id \in Ids, AtRest(id)
  PROVE  AtRest(id)'
<1>1. CASE Drops
  BY <1>1 DEF Drops, AtRest
<1>2. ASSUME NEW s \in Slots, NEW i \in Ids, HoldsNext(s, i)
      PROVE  AtRest(id)'
  <2>1. PICK row \in Row : HeldFrom(s, i, row)
    BY <1>2, HeldCopy
  <2>2. i # id
    BY <2>1 DEF HeldFrom, AtRest, Lifecycle!Moves, Lifecycle!Absent
  <2>3. QED BY <2>1, <2>2 DEF HeldFrom, AtRest, IInv, Typed
<1>3. ASSUME NEW s \in Slots, Writes(s)
      PROVE  AtRest(id)'
  <2>1. pending[s] \in Call /\ pending[s] # NoCall
    BY <1>3 DEF IInv, Typed, Writes, Free
  <2>2. pending[s].row # NoRow
    BY <2>1, NoRowAssumption DEF Call
  <2>3. QED BY <1>3, <2>1, <2>2 DEF IInv, Typed, Writes, Write, AtRest, Call
<1>4. ASSUME NEW s \in Slots, NEW rep \in Reporters, NEW sev \in SeverityInputs,
             Inserts(s, rep, sev)
      PROVE  AtRest(id)'
  BY <1>4 DEF IInv, Typed, Inserts, Write, AtRest
<1>5. QED BY <1>1, <1>2, <1>3, <1>4, StepKinds DEF IInv

\* The stale Saves that take a closed incident back end for good: once no
\* handler holds a copy that says anything else, it is closed for ever, for
\* any number of handlers, whatever they read, and through every fault.
THEOREM RestIsFinal == Spec => \A id \in Ids : [](AtRest(id) => []AtRest(id))
<1> SUFFICES ASSUME NEW id \in Ids
             PROVE  Spec => [](AtRest(id) => []AtRest(id))
  OBVIOUS
<1>1. IInv /\ AtRest(id) /\ [Next]_vars => AtRest(id)'
  BY RestStep
<1>2. QED BY <1>1, Invariance, PTL DEF Spec

ClosedStay ==
    \A id \in Ids : "closed" \in reached[id] =>
        incidents[id] # NoRow /\ incidents[id].status = "closed"

\* With one handler at a time nothing is held of an incident that is closed.
LEMMA SerialClosedStay ==
  ASSUME OneSlot, SerialInv, ClosedStay, [Next]_vars
  PROVE  ClosedStay'
<1>1. CASE Drops
  BY <1>1 DEF Drops, ClosedStay
<1>2. ASSUME NEW s \in Slots, NEW id \in Ids, HoldsNext(s, id)
      PROVE  ClosedStay'
  BY <1>2, HeldCopy DEF SerialInv, HeldFrom, ClosedStay
<1>3. ASSUME NEW s \in Slots, Writes(s)
      PROVE  ClosedStay'
  <2>1. /\ pending[s] \in Call /\ pending[s] # NoCall
        /\ incidents[pending[s].id] # NoRow
        /\ incidents[pending[s].id].status # "closed"
    BY <1>3 DEF SerialInv, IInv, Typed, Writes, Free, HeldRowsFresh, HeldRowsEarned,
                HeldEarned, Lifecycle!Moves, Lifecycle!Absent
  <2>2. "closed" \notin reached[pending[s].id]
    BY <2>1 DEF ClosedStay, Call
  <2>3. pending[s].row # NoRow
    BY <2>1, NoRowAssumption DEF Call
  <2>4. QED BY <1>3, <2>1, <2>2, <2>3 DEF SerialInv, IInv, Typed, Writes, Write, ClosedStay, Call
<1>4. ASSUME NEW s \in Slots, NEW rep \in Reporters, NEW sev \in SeverityInputs,
             Inserts(s, rep, sev)
      PROVE  ClosedStay'
  BY <1>4 DEF SerialInv, IInv, Typed, RowsReached, Inserts, Write, NewIncident, ClosedStay
<1>5. QED BY <1>1, <1>2, <1>3, <1>4, StepKinds DEF SerialInv, IInv

\* The race is all that is wrong: with one handler at a time a repeated close
\* is refused, whatever faults there are (with two it may be accepted, as the
\* run IncidentService_repeat shows).
THEOREM SerialCloseIsRefused == OneSlot => (Spec => RepeatedCloseRefused)
<1> SUFFICES ASSUME OneSlot PROVE Spec => RepeatedCloseRefused
  OBVIOUS
<1>1. Init => SerialInv /\ ClosedStay
  BY InitIInv DEF Init, SerialInv, HeldRowsFresh, ClosedStay
<1>2. SerialInv /\ ClosedStay /\ [Next]_vars => SerialInv' /\ ClosedStay'
  BY SerialStep, StepIInv, SerialClosedStay DEF SerialInv
<1>3. ClosedStay => \A s \in Slots, id \in Ids : "closed" \in reached[id] => ~Close(s, id)
  BY DEF ClosedStay, Close, CanClose
<1>4. QED BY <1>1, <1>2, <1>3, PTL DEF Spec, RepeatedCloseRefused

==============================================================================
