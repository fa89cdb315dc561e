------------------------------- MODULE Startup -------------------------------
(***************************************************************************)
(* The start of the service: main connects to the database, migrates the   *)
(* tables, seeds them if there is no user, and serves; any error exits,    *)
(* and the container runtime starts the process again.  The seed inserts   *)
(* its rows one by one, each in a transaction of its own, and its rows     *)
(* name each other by literal ids, on the assumption that auto-increment   *)
(* counts from one.                                                        *)
(***************************************************************************)
EXTENDS Naturals, Sequences, FiniteSets

CONSTANTS
    SeedTables,   \* the table of each seed row, in the order of insertion
    RefersTo,     \* the row a seed row names by a literal id, or itself
    MaxFaults     \* bound on crashes and failed statements

VARIABLES
    pc,           \* where the process is
    next,         \* the seed row it inserts next
    rowId,        \* the id each seed row got, 0 if it is not in its table
    auto,         \* the last auto-increment value given out in each table
    faults,       \* faults so far
    hurt          \* history: whether a fault has hit the seeding

vars == <<pc, next, rowId, auto, faults, hurt>>

------------------------------------------------------------------------------

Rows == DOMAIN SeedTables
Tables == {SeedTables[k] : k \in Rows}

Phases == {"down", "migrating", "counting", "seeding", "serving"}

ASSUME SeedAssumption ==
    /\ SeedTables \in Seq(Tables)
    /\ Len(SeedTables) > 0
    /\ "users" \in Tables
    /\ RefersTo \in [Rows -> Rows]
    /\ MaxFaults \in Nat

\* A row is inserted after the row it names.
ASSUME ReferenceAssumption == \A k \in Rows : RefersTo[k] \in 1..k

Stored == {k \in Rows : rowId[k] # 0}

SeededUsers == {k \in Rows : SeedTables[k] = "users"}

\* The users come first, and name no other row.
ASSUME UsersFirstAssumption ==
    \A k \in SeededUsers : 1..k \subseteq SeededUsers /\ RefersTo[k] = k

\* Seed returns at once when the users table is not empty.  (Users that have
\* registered since do not matter: a served process had users before.)
AlwaysSeed(stored) == TRUE                                    \* mutant
MustSeed(stored) == stored \cap SeededUsers = {}

\* The unique index on phone refuses a user who is there already; the start
\* would end there.
IndexAdmits(k) == SeedTables[k] = "users" => rowId[k] = 0

\* The literal id the seed uses for row k: its place among its table's rows.
LiteralId(k) == Cardinality({j \in 1..k : SeedTables[j] = SeedTables[k]})

------------------------------------------------------------------------------

Start ==
    /\ pc = "down"
    /\ pc' = "migrating"
    /\ UNCHANGED <<next, rowId, auto, faults, hurt>>

\* AutoMigrate creates what is missing and is harmless to repeat.
Migrate ==
    /\ pc = "migrating"
    /\ pc' = "counting"
    /\ UNCHANGED <<next, rowId, auto, faults, hurt>>

CountFromZero ==                                              \* mutant
    /\ pc = "counting"
    /\ pc' = IF MustSeed(Stored) THEN "seeding" ELSE "serving"
    /\ next' = 0
    /\ UNCHANGED <<rowId, auto, faults, hurt>>
CountUsers ==
    /\ pc = "counting"
    /\ pc' = IF MustSeed(Stored) THEN "seeding" ELSE "serving"
    /\ next' = 1
    /\ UNCHANGED <<rowId, auto, faults, hurt>>

\* The row at next is inserted under the next auto-increment value.
Store ==
    LET table == SeedTables[next] IN
    /\ IndexAdmits(next)
    /\ auto' = [auto EXCEPT ![table] = auto[table] + 1]
    /\ rowId' = [rowId EXCEPT ![next] = auto[table] + 1]

InsertUnchecked ==                  \* mutant: the error of Create is ignored
    /\ pc = "seeding"
    /\ Store \/ UNCHANGED <<rowId, auto>>
    /\ next' = next + 1
    /\ pc' = IF next = Len(SeedTables) THEN "serving" ELSE "seeding"
    /\ UNCHANGED <<faults, hurt>>
InsertRow ==
    /\ pc = "seeding"
    /\ Store
    /\ next' = next + 1
    /\ pc' = IF next = Len(SeedTables) THEN "serving" ELSE "seeding"
    /\ UNCHANGED <<faults, hurt>>

\* The process dies, or a statement fails and main exits.  An insert in
\* flight may be in the table, may be rolled back, and may have used up an id.
Fault ==
    /\ pc # "down"
    /\ faults < MaxFaults
    /\ faults' = faults + 1
    /\ pc' = "down"
    /\ hurt' = (hurt \/ pc = "seeding")
    /\ \/ pc = "seeding" /\ Store
       \/ /\ pc = "seeding"
          /\ auto' = [auto EXCEPT ![SeedTables[next]] = @ + 1]
          /\ UNCHANGED rowId
       \/ UNCHANGED <<rowId, auto>>
    /\ UNCHANGED next

------------------------------------------------------------------------------

\* The database is empty, or init.sql has filled it when the database
\* container was created.
Init ==
    /\ pc = "down"
    /\ next = 1
    /\ \/ /\ rowId = [k \in Rows |-> 0]
          /\ auto = [table \in Tables |-> 0]
       \/ /\ rowId = [k \in Rows |-> LiteralId(k)]
          /\ auto = [table \in Tables |->
                        Cardinality({k \in Rows : SeedTables[k] = table})]
    /\ faults = 0
    /\ hurt = FALSE

Step == Start \/ Migrate \/ CountUsers \/ InsertRow

Next == Step \/ Fault

Spec == Init /\ [][Next]_vars

\* The container runtime restarts the process, and a process that is not
\* disturbed goes on.
FairSpec == Spec /\ WF_vars(Step)

------------------------------------------------------------------------------
(* Properties. *)

TypeOK ==
    /\ pc \in Phases
    /\ next \in 1..(Len(SeedTables) + 1)
    /\ rowId \in [Rows -> Nat]
    /\ auto \in [Tables -> Nat]
    /\ faults \in 0..MaxFaults
    /\ hurt \in BOOLEAN

\* A start that was cut short anywhere, even half way through the seed, does
\* not keep the service from coming up: once the faults are over it serves.
ServesInTheEnd == <>[](pc = "serving")

\* The auto-increment values that no user got, once the users are all stored.
UserIdsLost == auto["users"] - Cardinality(SeededUsers)

\* Wherever a start was cut short, and however often, the literal id in a
\* stored row is the id of the row it is meant to name: always if that is an
\* inspection or any row but a user.  If it is a user, the true id is higher by
\* the number of ids that faults used up before the first user was stored, all
\* alike: with none the reference is right, and with any it names another
\* user, or nobody.
LiteralIdsHold ==
    \A k \in Stored : LET named == RefersTo[k] IN named # k =>
        rowId[named] = LiteralId(named)
                        + IF named \in SeededUsers THEN UserIdsLost ELSE 0

\* Seeding is idempotent as far as it goes: after any number of starts, cut
\* short anywhere outside the seeding, a service that is up has all of its
\* preset data, each row once, and the literal ids in it name the rows they
\* are meant to.  A fault in the seeding itself is never made good: the next
\* start finds a user and skips the rest, or finds an id used up.
SeedWhole ==
    pc = "serving" /\ ~hurt =>
        /\ Stored = Rows
        /\ \A k \in Rows : rowId[RefersTo[k]] = LiteralId(RefersTo[k])

==============================================================================
