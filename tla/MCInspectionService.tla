------------------------- MODULE MCInspectionService -------------------------
(* Instances of InspectionService for TLC.  A request is a sequence of marks;  *)
(* a number in ItemNos that an inspection does not have stands for every item  *)
(* of a request that is not the inspection's.                                  *)
EXTENDS InspectionService, SequencesExt

\* What the endpoint accepts, up to two marks: none, some, the same item
\* twice, items of another inspection.  Two marks begin with one for item 1:
\* the items are alike, and marks of different items do not meet.
ShortRequests ==
    {req \in BoundedSeq(Mark, 2) : Len(req) = 2 => req[1].item = 1}

CONSTANT seeded      \* the inspection the seed has completed

\* As in seed.go: completed in spite of an issue, with a score that is not the
\* one Execute would compute.
SeedInspections ==
    [id \in Ids |->
        IF id = seeded
        THEN [status |-> "completed", passed |-> 1, issues |-> 1, score |-> 92]
        ELSE NoRow]

SeedInspectionItems ==
    [id \in Ids |-> IF id = seeded THEN [i \in ItemNos |-> i = 1] ELSE NoItems]

==============================================================================
