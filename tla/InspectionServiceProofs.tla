----------------------- MODULE InspectionServiceProofs -----------------------
(***************************************************************************)
(* Proofs about InspectionService, for every set of inspections, of items, *)
(* of request bodies, and any number of execute and report requests.       *)
(***************************************************************************)
EXTENDS InspectionService, FiniteSetTheorems, TLAPS

(* What the tally of a request computes. *)

\* The matched marks and the items of an inspection are finite sets.
LEMMA MatchedFinite ==
  ASSUME NEW req \in Requests, NEW table \in ItemTable
  PROVE  /\ IsFiniteSet(Matched(req, table))
         /\ IsFiniteSet(DOMAIN table)
<1>1. IsFiniteSet(DOMAIN req)
  BY RequestsAssumption, FS_Interval
<1>2. DOMAIN table \subseteq ItemNos
  BY DEF ItemTable
<1>3. QED BY <1>1, <1>2, ItemNosAssumption, FS_Subset DEF Matched

\* The counts of a request are natural numbers.
LEMMA CountsAreNat ==
  ASSUME NEW req \in Requests, NEW table \in ItemTable
  PROVE  Passed(req, table) \in Nat /\ Issues(req, table) \in Nat
<1>1. /\ IsFiniteSet(MarksPassed(req, table))
      /\ IsFiniteSet(MarksFailed(req, table))
      /\ IsFiniteSet(ItemsPassed(table))
      /\ IsFiniteSet(ItemsFailed(table))
  BY MatchedFinite, FS_Subset
     DEF MarksPassed, MarksFailed, ItemsPassed, ItemsFailed
<1>2. QED BY <1>1, FS_CardinalityType DEF Passed, Issues

\* Marking changes flags, not which items there are.
LEMMA MarkedIsTable ==
  ASSUME NEW req \in Requests, NEW table \in ItemTable
  PROVE  Marked(req, table) \in ItemTable
<1>1. PICK S \in SUBSET ItemNos : table \in [S -> BOOLEAN]
  BY DEF ItemTable
<1>2. Marked(req, table) \in [S -> BOOLEAN]
  BY <1>1, Zenon DEF Marked
<1>3. QED BY <1>2 DEF ItemTable

\* The score is a natural number.
LEMMA ScoreIsNat ==
  ASSUME NEW p \in Nat, NEW t \in Nat
  PROVE  Score(p, t) \in Nat
  BY DEF Score

\* What Execute stores is a row, and an executed one.
LEMMA ExecutedIsRow ==
  ASSUME NEW p \in Nat, NEW i \in Nat
  PROVE  Executed(p, i) \in Row /\ IsExecuted(Executed(p, i))
<1>1. Score(p, p + i) \in Nat
  BY ScoreIsNat
<1>2. Executed(p, i) \in Row
  BY <1>1 DEF Executed, Row, InspectionStatus
<1>3. QED BY <1>2, AbsenceAssumption DEF IsExecuted, Executed

------------------------------------------------------------------------------
(* The inductive invariant. *)

\* A row is locked exactly while one transaction works on it, and that
\* inspection is still to be executed: no lock outlives its transaction, and
\* nobody works on an inspection that somebody else has decided.
LocksMatchWork ==
    /\ \A id \in Ids, s \in Slots :
        lock[id] = s <=> /\ call[s] # NoCall
                         /\ call[s].phase = "locked"
                         /\ call[s].id = id
    /\ \A id \in Ids :
        lock[id] # Nobody
            => inspections[id] # NoRow /\ ~IsExecuted(inspections[id])

\* What a report has read of an executed inspection is what is stored.
ViewsSettled ==
    \A r \in Readers :
        view[r] # NoView /\ IsExecuted(view[r].row)
            => /\ view[r].row = inspections[view[r].id]
               /\ view[r].phase = "done" => view[r].items = items[view[r].id]

IInv == TypeOK /\ LocksMatchWork /\ ViewsSettled

\* Steps that leave the tables and the reports alone keep the views settled.
LEMMA QuietViews ==
  ASSUME IInv, UNCHANGED <<inspections, items, view>>
  PROVE  ViewsSettled' /\ Frozen
  BY DEF IInv, ViewsSettled, IsExecuted, Frozen

\* A transaction that ends releases its own locks and no others.
LEMMA ReleasedLocks ==
  ASSUME IInv, NEW s \in Slots
  PROVE  /\ Released(s) \in [Ids -> Slots \cup {Nobody}]
         /\ \A id \in Ids, t \in Slots :
                Released(s)[id] = t <=> t # s /\ lock[id] = t
         /\ \A id \in Ids : Released(s)[id] # Nobody => lock[id] # Nobody
  BY AbsenceAssumption DEF Released, IInv, TypeOK

\* A transaction that ends without touching the tables.
LEMMA FinishKeeps ==
  ASSUME IInv, NEW s \in Slots, NEW code \in {OK, Conflict, InternalError},
         Finish(s, code), UNCHANGED <<inspections, items, view>>
  PROVE  IInv'
<1>1. TypeOK'
  BY ReleasedLocks DEF IInv, TypeOK, Finish
<1>2. LocksMatchWork'
  BY ReleasedLocks DEF IInv, TypeOK, LocksMatchWork, Finish, IsExecuted
<1>3. QED BY <1>1, <1>2, QuietViews DEF IInv

\* Create puts a scheduled inspection where there was none.
LEMMA CreateKeeps ==
  ASSUME IInv, NEW s \in Slots, Create(s)
  PROVE  IInv' /\ Frozen
<1>1. PICK id \in Ids, table \in ItemTable :
        /\ inspections[id] = NoRow
        /\ inspections' = [inspections EXCEPT ![id] = Scheduled]
        /\ items' = [items EXCEPT ![id] = table]
  BY DEF Create
<1>2. UNCHANGED <<lock, call, view>> /\ answer' = [answer EXCEPT ![s] = OK]
  BY DEF Create
<1>3. Scheduled \in Row /\ Scheduled.status = "scheduled"
  BY DEF Scheduled, Row, InspectionStatus
<1>4. TypeOK'
  BY <1>1, <1>2, <1>3 DEF IInv, TypeOK
<1>5. LocksMatchWork'
  BY <1>1, <1>2, <1>3 DEF IInv, TypeOK, LocksMatchWork, IsExecuted
<1>6. ViewsSettled'
  BY <1>1, <1>2 DEF IInv, TypeOK, ViewsSettled, IsExecuted, View
<1>7. Frozen
  BY <1>1 DEF IInv, TypeOK, Frozen, IsExecuted
<1>8. QED BY <1>4, <1>5, <1>6, <1>7 DEF IInv

\* Taking the row lock keeps the invariant.
LEMMA AcquireKeeps ==
  ASSUME IInv, NEW s \in Slots, Acquire(s)
  PROVE  IInv' /\ Frozen
<1> DEFINE id == call[s].id
<1>1. /\ call[s] \in Call /\ call[s] # NoCall /\ call[s].phase = "waiting"
      /\ id \in Ids /\ lock[id] = Nobody
      /\ inspections[id] # NoRow /\ ~IsExecuted(inspections[id])
      /\ lock' = [lock EXCEPT ![id] = s]
      /\ call' = [call EXCEPT ![s] = [call[s] EXCEPT !.phase = "locked"]]
      /\ UNCHANGED <<inspections, items, answer, view>>
  BY DEF IInv, TypeOK, Acquire, Waiting, Grantable, Executable, Call
<1>2. /\ [call[s] EXCEPT !.phase = "locked"] \in Call
      /\ [call[s] EXCEPT !.phase = "locked"].id = id
      /\ [call[s] EXCEPT !.phase = "locked"].phase = "locked"
  BY <1>1 DEF Call
<1> HIDE DEF id
<1>3. TypeOK'
  BY <1>1, <1>2 DEF IInv, TypeOK
<1>4. LocksMatchWork'
  BY <1>1, <1>2, AbsenceAssumption DEF IInv, TypeOK, LocksMatchWork, IsExecuted
<1>5. QED BY <1>1, <1>3, <1>4, QuietViews DEF IInv

\* A commit under the lock keeps the invariant: the row was not executed
\* before, and no complete report had shown an outcome of it.
LEMMA CommitKeeps ==
  ASSUME IInv, NEW s \in Slots, Commit(s)
  PROVE  IInv' /\ Frozen
<1> DEFINE id  == call[s].id
           row == Executed(Passed(call[s].req, items[id]), Issues(call[s].req, items[id]))
           table == Marked(call[s].req, items[id])
<1>1. /\ call[s] \in Call /\ call[s] # NoCall /\ call[s].phase = "locked"
      /\ id \in Ids /\ call[s].req \in Requests /\ items[id] \in ItemTable
      /\ inspections' = [inspections EXCEPT ![id] = row]
      /\ items' = [items EXCEPT ![id] = table]
      /\ Finish(s, OK) /\ view' = view
  BY DEF IInv, TypeOK, Commit, Call
<1>2. row \in Row /\ IsExecuted(row) /\ table \in ItemTable
  BY <1>1, CountsAreNat, MarkedIsTable, ExecutedIsRow
<1> HIDE DEF id, row, table
<1>3. lock[id] = s
  BY <1>1 DEF IInv, LocksMatchWork, id
<1>4. inspections[id] # NoRow /\ ~IsExecuted(inspections[id])
  BY <1>1, <1>3, AbsenceAssumption DEF IInv, LocksMatchWork
<1>5. TypeOK'
  BY <1>1, <1>2, ReleasedLocks DEF IInv, TypeOK, Finish
<1>6. LocksMatchWork'
  <2>1. ASSUME NEW i \in Ids, NEW t \in Slots
        PROVE  lock'[i] = t <=> /\ call'[t] # NoCall
                                /\ call'[t].phase = "locked"
                                /\ call'[t].id = i
    BY <1>1, ReleasedLocks DEF IInv, TypeOK, LocksMatchWork, Finish
  <2>2. ASSUME NEW i \in Ids, lock'[i] # Nobody
        PROVE  i # id /\ lock[i] # Nobody
    BY <1>1, <1>3, <2>2, ReleasedLocks DEF Finish, Released
  <2>3. ASSUME NEW i \in Ids, lock'[i] # Nobody
        PROVE  inspections'[i] # NoRow /\ ~IsExecuted(inspections'[i])
    BY <1>1, <2>2, <2>3 DEF IInv, TypeOK, LocksMatchWork
  <2>4. QED BY <2>1, <2>3 DEF LocksMatchWork, IsExecuted
<1>7. Frozen
  BY <1>1, <1>4 DEF IInv, TypeOK, Frozen
<1>8. ViewsSettled'
  BY <1>1, <1>4 DEF IInv, TypeOK, ViewsSettled, View, IsExecuted
<1>9. QED BY <1>5, <1>6, <1>7, <1>8 DEF IInv

\* The two queries of a report.
LEMMA ReadsKeep ==
  ASSUME IInv, NEW r \in Readers,
         ReadItems(r) \/ \E id \in Ids : ReadInspection(r, id)
  PROVE  IInv' /\ Frozen
<1>1. UNCHANGED <<inspections, items, lock, call, answer>>
  BY DEF ReadItems, ReadInspection
<1>2. LocksMatchWork' /\ Frozen
  BY <1>1 DEF IInv, LocksMatchWork, Frozen, IsExecuted
<1>3. ASSUME NEW id \in Ids, ReadInspection(r, id)
      PROVE  TypeOK' /\ ViewsSettled'
  <2> DEFINE v == [phase |-> "half", id |-> id, row |-> inspections[id],
                   items |-> NoItems]
  <2>1. view' = [view EXCEPT ![r] = v] /\ inspections[id] \in Row
    BY <1>3 DEF ReadInspection, IInv, TypeOK
  <2>2. NoItems \in ItemTable
    <3>1. NoItems \in [{} -> BOOLEAN]
      BY DEF NoItems
    <3>2. QED BY <3>1 DEF ItemTable
  <2>3. v \in View /\ v.row = inspections[v.id] /\ v.phase = "half"
    BY <2>1, <2>2 DEF View
  <2> HIDE DEF v
  <2>4. TypeOK'
    BY <1>1, <2>1, <2>3 DEF IInv, TypeOK
  <2>5. ViewsSettled'
    BY <1>1, <2>1, <2>3 DEF IInv, TypeOK, ViewsSettled, IsExecuted
  <2>6. QED BY <2>4, <2>5
<1>4. CASE ReadItems(r)
  <2> DEFINE v == [view[r] EXCEPT !.phase = "done", !.items = items[view[r].id]]
  <2>1. view[r] \in View /\ view[r] # NoView
    BY <1>4 DEF ReadItems, IInv, TypeOK
  <2>2. view' = [view EXCEPT ![r] = v]
    BY <1>4 DEF ReadItems
  <2>3. /\ v \in View /\ v.row = view[r].row /\ v.id = view[r].id
        /\ v.items = items[view[r].id]
    BY <2>1 DEF View, IInv, TypeOK
  <2> HIDE DEF v
  <2>4. TypeOK'
    BY <1>1, <2>1, <2>2, <2>3 DEF IInv, TypeOK
  <2>5. ViewsSettled'
    BY <1>1, <2>1, <2>2, <2>3 DEF IInv, TypeOK, ViewsSettled, IsExecuted
  <2>6. QED BY <1>2, <2>4, <2>5 DEF IInv
<1>5. QED BY <1>2, <1>3, <1>4 DEF IInv

\* The tables the service starts on satisfy the invariant, whatever outcomes
\* were seeded: no lock is held, and no report has been read.
LEMMA InitIInv == Init => IInv
<1>1. Init => TypeOK
  BY SeedAssumption DEF Init, TypeOK
<1>2. Init => LocksMatchWork /\ ViewsSettled
  BY AbsenceAssumption DEF Init, LocksMatchWork, ViewsSettled
<1>3. QED BY <1>1, <1>2 DEF IInv

\* Every step keeps the invariant and leaves executed inspections alone.
LEMMA StepIInv ==
  ASSUME IInv, [Next]_vars
  PROVE  IInv' /\ Frozen
<1>1. ASSUME NEW s \in Slots, Execute(s)
      PROVE  IInv' /\ Frozen
  <2>1. ASSUME NEW id \in Ids, NEW req \in Requests, BeginExecute(s, id, req)
        PROVE  IInv' /\ Frozen
    <3> DEFINE c == [phase |-> "waiting", id |-> id, req |-> req]
    <3>1. /\ c \in Call /\ c.phase = "waiting" /\ call[s] = NoCall
          /\ call' = [call EXCEPT ![s] = c]
          /\ answer' = [answer EXCEPT ![s] = NoAnswer]
          /\ UNCHANGED <<inspections, items, lock, view>>
      BY <2>1 DEF BeginExecute, Call
    <3> HIDE DEF c
    <3>2. TypeOK'
      BY <3>1 DEF IInv, TypeOK
    <3>3. LocksMatchWork'
      BY <3>1 DEF IInv, TypeOK, LocksMatchWork, IsExecuted
    <3>4. QED BY <3>1, <3>2, <3>3, QuietViews DEF IInv
  <2>2. CASE Refused(s)
    BY <2>2, FinishKeeps, QuietViews DEF Refused
  <2>3. CASE Rollback(s) \/ WaitFails(s)
    BY <2>3, FinishKeeps, QuietViews DEF Rollback, WaitFails
  <2>4. QED BY <1>1, <2>1, <2>2, <2>3, AcquireKeeps, CommitKeeps DEF Execute
<1>2. ASSUME NEW s \in Slots, CreateFails(s) \/ BindingRefused(s)
      PROVE  IInv' /\ Frozen
  <2>1. /\ UNCHANGED <<inspections, items, lock, call, view>>
        /\ answer' \in [Slots -> {NoAnswer, OK, BadRequest, Conflict, InternalError}]
    BY <1>2 DEF CreateFails, BindingRefused, IInv, TypeOK
  <2>2. TypeOK' /\ LocksMatchWork'
    BY <2>1 DEF IInv, TypeOK, LocksMatchWork, IsExecuted
  <2>3. QED BY <2>1, <2>2, QuietViews DEF IInv
<1>3. CASE Crash
  <2>1. TypeOK'
    BY <1>3 DEF Crash, IInv, TypeOK
  <2>2. LocksMatchWork' /\ ViewsSettled' /\ Frozen
    BY <1>3, AbsenceAssumption
       DEF Crash, LocksMatchWork, ViewsSettled, Frozen
  <2>3. QED BY <2>1, <2>2 DEF IInv
<1>4. CASE UNCHANGED vars
  <2>1. TypeOK' /\ LocksMatchWork'
    BY <1>4 DEF vars, IInv, TypeOK, LocksMatchWork, IsExecuted
  <2>2. QED BY <1>4, <2>1, QuietViews DEF vars, IInv
<1>5. QED BY <1>1, <1>2, <1>3, <1>4, CreateKeeps, ReadsKeep DEF Next

\* The inductive invariant: types, locks and reports, under every
\* interleaving of transactions, reports and crashes.
THEOREM Invariance == Spec => []IInv
  BY InitIInv, StepIInv, PTL DEF Spec

\* The tables, the locks, the calls and the reports keep their types.
THEOREM TypeCorrect == Spec => []TypeOK
<1>1. IInv => TypeOK
  BY DEF IInv
<1>2. QED BY <1>1, Invariance, PTL

\* Locks are held exactly by the transactions at work, on inspections that
\* are still to be executed.
THEOREM LocksAreMatched == Spec => []LocksMatchWork
<1>1. IInv => LocksMatchWork
  BY DEF IInv
<1>2. QED BY <1>1, Invariance, PTL

\* What a report shows of an executed inspection never goes out of date.
THEOREM ReportsAreFinal == Spec => []ReportFinal
<1>1. IInv => ReportFinal
  BY DEF IInv, ViewsSettled, ReportFinal
<1>2. QED BY <1>1, Invariance, PTL

\* An outcome is final: an inspection is executed at most once, under any
\* race, and one that was seeded with an outcome never.
THEOREM ExecutedAtMostOnce == Spec => OutcomeFinal
<1>1. IInv /\ [Next]_vars => Frozen
  BY StepIInv
<1>2. QED BY <1>1, Invariance, PTL DEF Spec, OutcomeFinal

------------------------------------------------------------------------------
(* What the stored counts say. *)

\* A request with one mark for each item counts exactly the flags it leaves.
LEMMA PageTally ==
  ASSUME NEW req \in Requests, NEW table \in ItemTable,
         MarksEachOnce(req, table)
  PROVE  /\ Passed(req, table) = Cardinality(ItemsPassed(Marked(req, table)))
         /\ Issues(req, table) = Cardinality(ItemsFailed(Marked(req, table)))
<1> DEFINE new == Marked(req, table)
<1>1. PICK S \in SUBSET ItemNos : table \in [S -> BOOLEAN]
  BY DEF ItemTable
<1>2. DOMAIN table = S /\ DOMAIN new = S
  BY <1>1 DEF Marked
<1>3. DOMAIN req \subseteq Nat /\ \A k \in DOMAIN req : req[k] \in Mark
  BY RequestsAssumption
<1>4. ASSUME NEW k \in Matched(req, table)
      PROVE  new[req[k].item] = req[k].passed
  <2>1. req[k].item \in DOMAIN table
    BY <1>4 DEF Matched
  <2>2. {j \in Matched(req, table) : req[j].item = req[k].item} = {k}
    BY <1>4 DEF MarksEachOnce, Matched
  <2>3. k <= k /\ req[k].passed \in BOOLEAN
    BY <1>3, <1>4 DEF Matched, Mark
  <2>4. new[req[k].item] = \E last \in {k} :
                                req[last].passed /\ \A j \in {k} : j <= last
    BY <2>1, <2>2, Zenon DEF Marked
  <2>5. QED BY <2>3, <2>4
<1>5. \A i \in DOMAIN table : \E k \in Matched(req, table) : req[k].item = i
  BY <1>1, <1>2 DEF MarksEachOnce
<1>6. IsFiniteSet(Matched(req, table))
  BY MatchedFinite
<1>7. CASE Matched(req, table) = {}
  <2>1. S = {}
    BY <1>2, <1>5, <1>7
  <2>2. /\ ItemsPassed(table) = {} /\ ItemsFailed(table) = {}
        /\ ItemsPassed(new) = {} /\ ItemsFailed(new) = {}
    BY <1>2, <2>1 DEF ItemsPassed, ItemsFailed
  <2>3. QED BY <1>7, <2>2 DEF Passed, Issues
<1>8. CASE Matched(req, table) # {}
  <2> DEFINE f(K) == [k \in K |-> req[k].item]
  <2>1. f(MarksPassed(req, table)) \in
            Bijection(MarksPassed(req, table), ItemsPassed(new))
    BY <1>2, <1>4, <1>5
       DEF MarksEachOnce, Matched, MarksPassed, ItemsPassed, Bijection,
           Injection, Surjection, IsInjective
  <2>2. f(MarksFailed(req, table)) \in
            Bijection(MarksFailed(req, table), ItemsFailed(new))
    BY <1>2, <1>4, <1>5
       DEF MarksEachOnce, Matched, MarksPassed, MarksFailed, ItemsPassed,
           ItemsFailed, Bijection, Injection, Surjection, IsInjective
  <2>3. IsFiniteSet(MarksPassed(req, table)) /\ IsFiniteSet(MarksFailed(req, table))
    BY <1>6, FS_Subset DEF MarksPassed, MarksFailed
  <2>4. /\ Cardinality(MarksPassed(req, table)) = Cardinality(ItemsPassed(new))
        /\ Cardinality(MarksFailed(req, table)) = Cardinality(ItemsFailed(new))
    BY <2>1, <2>2, <2>3, FS_Bijection DEF ExistsBijection
  <2>5. QED BY <1>8, <2>4 DEF Passed, Issues
<1>9. QED BY <1>7, <1>8

\* What an execution with one mark for each item stores.
LEMMA CommitCounts ==
  ASSUME IInv, NEW s \in Slots, Commit(s),
         MarksEachOnce(call[s].req, items[call[s].id])
  PROVE  LET id == call[s].id IN
         /\ inspections'[id].passed = Cardinality(ItemsPassed(items'[id]))
         /\ inspections'[id].issues = Cardinality(ItemsFailed(items'[id]))
<1> DEFINE id  == call[s].id
           req == call[s].req
<1>1. id \in Ids /\ req \in Requests
  <2>1. call[s] \in Call
    BY DEF IInv, TypeOK, Commit
  <2>2. QED BY <2>1 DEF Call
<1>2. items[id] \in ItemTable
  BY <1>1 DEF IInv, TypeOK
<1>3. /\ items'[id] = Marked(req, items[id])
      /\ inspections'[id] = Executed(Passed(req, items[id]),
                                     Issues(req, items[id]))
  BY <1>1 DEF IInv, TypeOK, Commit
<1>4. /\ inspections'[id].passed = Passed(req, items[id])
      /\ inspections'[id].issues = Issues(req, items[id])
  BY <1>3 DEF Executed
<1>5. QED BY <1>1, <1>2, <1>3, <1>4, PageTally

\* With one mark for each item, as the page sends them, the stored counts are
\* those of the flags stored with them.
THEOREM CountsAreOfItems == Spec => CountsMatchItems
<1>1. IInv /\ [Next]_vars =>
        \A s \in Slots :
            LET id == call[s].id IN
            Commit(s) /\ MarksEachOnce(call[s].req, items[id])
                => /\ inspections'[id].passed = Cardinality(ItemsPassed(items'[id]))
                   /\ inspections'[id].issues = Cardinality(ItemsFailed(items'[id]))
  BY CommitCounts
<1>2. QED BY <1>1, Invariance, PTL DEF Spec, CountsMatchItems

------------------------------------------------------------------------------
(* The abstract plan. *)

\* A row, read together with its items, is a plan and is not absent.
LEMMA RowIsPlan ==
  ASSUME IInv, NEW id \in Ids, inspections[id] # NoRow
  PROVE  /\ plans[id] = [verdict |-> inspections[id].status, items |-> items[id]]
         /\ plans[id] # NoRow
<1>1. plans[id] = [verdict |-> inspections[id].status, items |-> items[id]]
  BY DEF plans, PlanOf
<1>2. inspections[id] \in Row /\ items[id] \in ItemTable
  BY DEF IInv, TypeOK
<1>3. plans[id] \in PlanRow
  BY <1>1, <1>2 DEF Row, PlanRow
<1>4. QED BY <1>1, <1>3, AbsenceAssumption

\* A creation draws up a plan.
LEMMA CreateDrawsUp ==
  ASSUME IInv, NEW s \in Slots, Create(s)
  PROVE  Plan!Next
<1>1. PICK id \in Ids, table \in ItemTable :
        /\ inspections[id] = NoRow
        /\ inspections' = [inspections EXCEPT ![id] = Scheduled]
        /\ items' = [items EXCEPT ![id] = table]
  BY DEF Create
<1>2. PICK S \in SUBSET ItemNos : table \in [S -> BOOLEAN]
  BY DEF ItemTable
<1>3. plans[id] = NoRow
  BY <1>1 DEF plans, PlanOf
<1>4. plans' = [plans EXCEPT ![id] = [verdict |-> "scheduled", items |-> table]]
  <2>1. Scheduled \in Row /\ Scheduled # NoRow /\ Scheduled.status = "scheduled"
    BY AbsenceAssumption DEF Scheduled, Row, InspectionStatus
  <2>2. inspections \in [Ids -> Row \cup {NoRow}] /\ items \in [Ids -> ItemTable]
    BY DEF IInv, TypeOK
  <2>3. \A other \in Ids : PlanOf(other)' =
            IF other = id THEN [verdict |-> "scheduled", items |-> table]
            ELSE PlanOf(other)
    BY <1>1, <2>1, <2>2 DEF PlanOf
  <2>4. QED BY <2>3 DEF plans
<1>5. Plan!DrawUp(id)
  BY <1>2, <1>3, <1>4 DEF Plan!DrawUp, Plan!Flags
<1>6. QED BY <1>5 DEF Plan!Next

\* The commit of an execution decides the plan.
LEMMA CommitDecides ==
  ASSUME IInv, NEW s \in Slots, Commit(s)
  PROVE  Plan!Next
<1> DEFINE id    == call[s].id
           req   == call[s].req
           table == items[id]
           row   == Executed(Passed(req, table), Issues(req, table))
<1>1. call[s] \in Call /\ call[s] # NoCall /\ call[s].phase = "locked"
  BY DEF Commit, IInv, TypeOK
<1>2. id \in Ids /\ req \in Requests
  BY <1>1 DEF Call
<1>3. /\ inspections \in [Ids -> Row \cup {NoRow}] /\ items \in [Ids -> ItemTable]
      /\ table \in ItemTable
  BY <1>2 DEF IInv, TypeOK
<1>4. lock[id] = s /\ inspections[id] # NoRow /\ inspections[id].status = "scheduled"
  <2>1. lock[id] = s
    BY <1>1, <1>2 DEF IInv, LocksMatchWork
  <2>2. QED BY <1>2, <2>1, AbsenceAssumption DEF IInv, LocksMatchWork, IsExecuted
<1>5. plans[id] # NoRow /\ plans[id].verdict = "scheduled" /\ plans[id].items = table
  <2> HIDE DEF id, table
  <2>1. plans[id] = [verdict |-> inspections[id].status, items |-> items[id]]
        /\ plans[id] # NoRow
    BY <1>2, <1>4, RowIsPlan
  <2>2. QED BY <1>4, <2>1 DEF table
<1>6. /\ inspections' = [inspections EXCEPT ![id] = row]
      /\ items' = [items EXCEPT ![id] = Marked(req, table)]
  BY <1>2, <1>3 DEF Commit
<1>7. row \in Row /\ row # NoRow /\ row.status \in {"completed", "failed"}
  <2>1. row \in Row
    BY <1>2, <1>3, CountsAreNat, ExecutedIsRow
  <2>2. QED BY <2>1, AbsenceAssumption DEF Executed
<1>8. Marked(req, table) \in [DOMAIN table -> BOOLEAN]
  <2>1. PICK S \in SUBSET ItemNos : table \in [S -> BOOLEAN]
    BY <1>3 DEF ItemTable
  <2>2. QED BY <2>1, Zenon DEF Marked
<1>9. plans' = [plans EXCEPT ![id] =
            [verdict |-> row.status, items |-> Marked(req, table)]]
  <2> HIDE DEF row, id, req, table
  <2>1. \A other \in Ids : PlanOf(other)' =
            IF other = id THEN [verdict |-> row.status, items |-> Marked(req, table)]
            ELSE PlanOf(other)
    BY <1>2, <1>3, <1>6, <1>7 DEF PlanOf
  <2>2. QED BY <1>2, <2>1 DEF plans
<1>10. Plan!Decide(id)
  <2> HIDE DEF row, id, req, table
  <2>1. QED BY <1>5, <1>7, <1>8, <1>9 DEF Plan!Decide, Plan!Flags
<1>11. QED BY <1>2, <1>10 DEF Plan!Next

\* Whatever requests race, fail or die, the two tables together implement the
\* abstract plan: each step draws up a plan, decides one, or changes none.
THEOREM PlanRefinement == Spec => ImplementsPlan
<1>1. Init => Plan!Init
  <2> SUFFICES ASSUME Init, NEW id \in Ids PROVE PlanOf(id) \in Plan!Plans \cup {NoRow}
    BY DEF Plan!Init, plans
  <2>1. inspections[id] \in Row \cup {NoRow} /\ items[id] \in ItemTable
    BY SeedAssumption DEF Init
  <2>2. PICK S \in SUBSET ItemNos : items[id] \in [S -> BOOLEAN]
    BY <2>1 DEF ItemTable
  <2>3. inspections[id] # NoRow =>
            [verdict |-> inspections[id].status, items |-> items[id]]
                \in [verdict: {"scheduled", "completed", "failed"}, items: Plan!Flags(S)]
    BY <2>1, <2>2 DEF Row, InspectionStatus, Plan!Flags
  <2>4. QED BY <2>3 DEF PlanOf, Plan!Plans
<1>2. IInv /\ [Next]_vars => [Plan!Next]_plans
  <2> SUFFICES ASSUME IInv, [Next]_vars PROVE [Plan!Next]_plans
    OBVIOUS
  <2>1. \/ \E s \in Slots : Create(s) \/ Commit(s)
        \/ UNCHANGED <<inspections, items>>
    BY DEF Next, Execute, CreateFails, BindingRefused, BeginExecute, Acquire,
           Refused, Rollback, WaitFails, ReadItems, ReadInspection, Crash, vars
  <2>2. CASE UNCHANGED <<inspections, items>>
    BY <2>2 DEF plans, PlanOf
  <2>3. QED BY <2>1, <2>2, CreateDrawsUp, CommitDecides
<1>3. QED BY <1>1, <1>2, Invariance, PTL DEF Spec, ImplementsPlan, Plan!Spec

==============================================================================
