--------------------------- MODULE InspectionPlan ---------------------------
(***************************************************************************)
(* What the inspection service promises about each inspection: it is       *)
(* planned once, with the items it will ever have, and decided at most     *)
(* once, in one step that sets the verdict and the flags of the items      *)
(* together.  There are no requests, locks, marks or reports here;         *)
(* InspectionService is the detailed specification, and its two tables,    *)
(* read together, implement this one however its requests race.            *)
(***************************************************************************)

CONSTANTS
    Ids,        \* identities of inspections
    ItemNos,    \* identities of items within an inspection
    Absent

VARIABLE plan   \* plan[id]: Absent, or the verdict and the flags of the items

\* The flags of a set of items.
Flags(S) == [S -> BOOLEAN]

Plans ==
    UNION {[verdict: {"scheduled", "completed", "failed"}, items: Flags(S)] :
                S \in SUBSET ItemNos}

\* Some inspections are planned, or decided, from the start: the seeded ones.
Init == plan \in [Ids -> Plans \cup {Absent}]

DrawUp(id) ==
    /\ plan[id] = Absent
    /\ \E S \in SUBSET ItemNos : \E flags \in Flags(S) :
        plan' = [plan EXCEPT ![id] = [verdict |-> "scheduled", items |-> flags]]

Decide(id) ==
    /\ plan[id] # Absent
    /\ plan[id].verdict = "scheduled"
    /\ \E verdict \in {"completed", "failed"}, flags \in Flags(DOMAIN plan[id].items) :
        plan' = [plan EXCEPT ![id] = [verdict |-> verdict, items |-> flags]]

Next == \E id \in Ids : DrawUp(id) \/ Decide(id)

Spec == Init /\ [][Next]_plan

==============================================================================
