-------------------------- MODULE MCIncidentService --------------------------
(* Instances of IncidentService for TLC.  Seeds are rows of the shapes that  *)
(* seed.go and database/init.sql insert.                                     *)
EXTENDS IncidentService

CONSTANT seeded      \* the id the seed takes

Seed(status, measures) ==
    [status |-> status, severity |-> "major",
     measures |-> measures, reporter |-> CHOOSE r \in Reporters : TRUE]

\* An empty table.
EmptyTable == [id \in Ids |-> NoRow]

\* init.sql: an incident under investigation that already has measures.
InvestigatedSeed ==
    [id \in Ids |->
        IF id = seeded
        THEN Seed("investigating", CHOOSE m \in Measures : TRUE)
        ELSE NoRow]

==============================================================================
