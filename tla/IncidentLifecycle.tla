-------------------------- MODULE IncidentLifecycle --------------------------
(***************************************************************************)
(* What the incident service promises about each incident: it is reported  *)
(* once and then moves forward through                                     *)
(*     reported -> investigating -> resolved -> closed                     *)
(* one status at a time, and a closed incident stays closed.  There is no  *)
(* request, no row and no concurrency here; IncidentService is the         *)
(* detailed specification.  Its table implements this one when handlers    *)
(* run one at a time; when they race, the furthest status each incident    *)
(* has ever had does.                                                      *)
(***************************************************************************)

CONSTANT Ids        \* the identities an incident can get

VARIABLE status     \* status[id]: Absent, or the status of incident id

Absent == "absent"

\* The four values of IncidentStatus.
Statuses == {"reported", "investigating", "resolved", "closed"}

\* The moves of the state machine, one per operation of the service.
Moves == { <<Absent,          "reported">>,
           <<"reported",      "investigating">>,
           <<"investigating", "resolved">>,
           <<"resolved",      "closed">> }

\* The table may be seeded with incidents at any status.
Init == status \in [Ids -> Statuses \cup {Absent}]

Move(id) ==
    \E to \in Statuses :
        /\ <<status[id], to>> \in Moves
        /\ status' = [status EXCEPT ![id] = to]

Next == \E id \in Ids : Move(id)

Spec == Init /\ [][Next]_status

==============================================================================
