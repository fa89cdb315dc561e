--------------------------- MODULE RequestPipeline ---------------------------
(***************************************************************************)
(* What a request passes around its handler: recovery, the audit           *)
(* middleware, the rate limiter or the token check, and the role check.    *)
(* The audit entry is written after the handler has returned, by an insert *)
(* of its own whose error is only logged; so the operation and its entry   *)
(* are two steps, and a fault may come between them.  The handlers         *)
(* themselves are those of the service modules; here a handler is what it  *)
(* answers and whether it has carried its operation out.                   *)
(***************************************************************************)
EXTENDS Naturals

CONSTANTS
    Slots,        \* requests in service at the same time
    Users,        \* users who hold a valid token
    RoleOf,       \* RoleOf[user]: the role in the user's token
    Nobody,       \* the operator of a request without claims, id 0
    BadToken,     \* an Authorization header that is missing or does not parse
    Asked,        \* the routes that requests name
    MaxRequests,  \* bound on the requests that reach a handler
    NoRequest

VARIABLES
    request,      \* request[s]: the request slot s serves, past its checks
    answer,       \* answer[s]: the HTTP status slot s last sent
    trail,        \* the table audit_logs, without the sample rows of init.sql
    carried,      \* history: the writing operations carried out
    hit,          \* history: the numbers of the requests a fault has hit
    reached       \* history: requests that have reached a handler so far

vars == <<request, answer, trail, carried, hit, reached>>

------------------------------------------------------------------------------
(* The routes and who may use them. *)

Public == {"register", "login"}

\* Method GET, which the audit middleware lets pass.
Reads == {"me", "listUsers", "listIncidents", "getIncident", "listInspections",
          "getInspection", "inspectionReport", "inspectionItems",
          "listTrainings", "getTraining", "listCertifications",
          "certificationsByUser", "dashboard", "auditLogs"}

\* Methods POST and PUT.
Posts == Public \cup
         {"report", "assign", "rectify", "close", "createInspection", "execute",
          "createTraining", "record", "submitCertification", "review", "upload"}
Writes == Posts \cup {"updateProfile"}

Routes == Reads \cup Writes

UserRoles == {"admin", "safety_manager", "inspector", "worker"}
Managers == {"admin", "safety_manager"}

\* The argument of RequireRole; a route without it takes every role.
RequiredRoles(route) ==
    CASE route \in {"assign", "rectify", "close",
                    "createTraining", "record", "review"} -> Managers
      [] route \in {"createInspection", "execute"} -> Managers \cup {"inspector"}
      [] route \in {"listUsers", "auditLogs"} -> {"admin"}
      [] OTHER -> UserRoles

ASSUME RolesAssumption == RoleOf \in [Users -> UserRoles]
ASSUME AskedAssumption == Asked \subseteq Routes
ASSUME BoundAssumption == MaxRequests \in Nat

\* What a request has done, and what its audit entry says of it.  The number
\* no tells requests apart and is not in the table.
Operation == [no: 1..MaxRequests, route: Routes, user: Users \cup {Nobody}]

\* Who may be on record for an operation.
Admitted(op) ==
    IF op.route \in Public THEN op.user = Nobody
    ELSE op.user \in Users /\ RoleOf[op.user] \in RequiredRoles(op.route)

OK == 200
BadRequest == 400
Unauthorized == 401
Forbidden == 403
Conflict == 409
Unprocessable == 422
TooManyRequests == 429
InternalError == 500
NoAnswer == 0

HandlerErrors == {BadRequest, Unauthorized, Conflict, Unprocessable, InternalError}

Request == [operation: Operation, status: {NoAnswer, OK} \cup HandlerErrors]

ASSUME AbsenceAssumption ==
    /\ NoRequest \notin Request
    /\ {Nobody, BadToken} \cap Users = {}

------------------------------------------------------------------------------
(* Before the handler. *)

Free(s) == request[s] = NoRequest

Refuse(s, code) ==
    /\ Free(s)
    /\ answer' = [answer EXCEPT ![s] = code]
    /\ UNCHANGED <<request, trail, carried, hit, reached>>

\* Register and Login are behind the rate limiter and carry no claims.
Limited(s, route) == route \in Public /\ Refuse(s, TooManyRequests)

\* AuthRequired: no header, or a token that does not parse or has expired.
TokenRefused(s, route, token) ==
    /\ route \notin Public
    /\ token = BadToken
    /\ Refuse(s, Unauthorized)

\* RequireRole: the role of the claims is not in its list.
RoleRefused(s, route, token) ==
    /\ route \notin Public
    /\ token \in Users
    /\ RoleOf[token] \notin RequiredRoles(route)
    /\ Refuse(s, Forbidden)

\* The request reaches its handler as user.
Enter(s, route, user) ==
    /\ Free(s)
    /\ reached < MaxRequests
    /\ reached' = reached + 1
    /\ request' = [request EXCEPT ![s] =
            [operation |-> [no |-> reached + 1, route |-> route, user |-> user],
             status |-> NoAnswer]]
    /\ answer' = [answer EXCEPT ![s] = NoAnswer]
    /\ UNCHANGED <<trail, carried, hit>>

EnterPublic(s, route) == route \in Public /\ Enter(s, route, Nobody)

EnterAs(s, route, token) ==
    /\ route \notin Public
    /\ token \in Users
    /\ RoleOf[token] \in RequiredRoles(route)
    /\ Enter(s, route, token)

------------------------------------------------------------------------------
(* The handler. *)

Handling(s) == ~Free(s) /\ request[s].status = NoAnswer

\* The operation is carried out; a read leaves nothing behind.
Perform(s) ==
    carried' = IF request[s].operation.route \in Writes
               THEN carried \cup {request[s].operation} ELSE carried

Returns(s, code) ==
    /\ request' = [request EXCEPT ![s].status = code]
    /\ UNCHANGED <<answer, trail, reached>>

Hit(s) == hit' = hit \cup {request[s].operation.no}

HandlerSucceeds(s) ==
    /\ Handling(s)
    /\ Perform(s)
    /\ Returns(s, OK)
    /\ UNCHANGED hit

HandlerRefuses(s, code) ==
    /\ Handling(s)
    /\ Returns(s, code)
    /\ UNCHANGED <<carried, hit>>

\* The write was carried out and its answer was lost: the handler says 500.
AnswerLost(s) ==
    /\ Handling(s)
    /\ Perform(s)
    /\ Returns(s, InternalError)
    /\ Hit(s)

------------------------------------------------------------------------------
(* After the handler: the audit entry. *)

Handled(s) == ~Free(s) /\ request[s].status # NoAnswer

\* AuditLog writes an entry unless the method is GET or the status an error.
AuditedReads(route, status) == status < 400                   \* mutant
AuditedErrors(route, status) == route \in Writes              \* mutant
AuditedPosts(route, status) == route \in Posts /\ status < 400 \* mutant
Audited(route, status) == route \in Writes /\ status < 400

MustAudit(s) ==
    Handled(s) /\ Audited(request[s].operation.route, request[s].status)

\* The answer of the handler goes out and the slot is free.
Finish(s, code) ==
    /\ answer' = [answer EXCEPT ![s] = code]
    /\ request' = [request EXCEPT ![s] = NoRequest]
    /\ UNCHANGED <<carried, reached>>

\* The operator is taken from the claims, whatever other requests do.
AuditInserts(s) ==
    /\ MustAudit(s)
    /\ trail' = trail \cup {request[s].operation}
    /\ Finish(s, request[s].status)
    /\ UNCHANGED hit

\* The insert fails, or was done and its answer lost: a line in the log.
AuditFails(s) ==
    /\ MustAudit(s)
    /\ trail' \in {trail, trail \cup {request[s].operation}}
    /\ Finish(s, request[s].status)
    /\ Hit(s)

NotAudited(s) ==
    /\ Handled(s)
    /\ ~MustAudit(s)
    /\ Finish(s, request[s].status)
    /\ UNCHANGED <<trail, hit>>

\* The handler panics, before its write or after it: gin.Recovery answers,
\* and the code behind Next in the audit middleware does not run.
Panic(s) ==
    /\ Handling(s)
    /\ Perform(s) \/ UNCHANGED carried
    /\ answer' = [answer EXCEPT ![s] = InternalError]
    /\ request' = [request EXCEPT ![s] = NoRequest]
    /\ Hit(s)
    /\ UNCHANGED <<trail, reached>>

\* The process dies, with what it had in service.
Crash ==
    /\ hit' = hit \cup {request[s].operation.no : s \in {t \in Slots : ~Free(t)}}
    /\ request' = [s \in Slots |-> NoRequest]
    /\ answer' = [s \in Slots |-> NoAnswer]
    /\ UNCHANGED <<trail, carried, reached>>

------------------------------------------------------------------------------

Init ==
    /\ request = [s \in Slots |-> NoRequest]
    /\ answer = [s \in Slots |-> NoAnswer]
    /\ trail = {}
    /\ carried = {}
    /\ hit = {}
    /\ reached = 0

Arrive(s) ==
    \E route \in Asked :
        \/ Limited(s, route)
        \/ EnterPublic(s, route)
        \/ \E token \in Users \cup {BadToken} :
            \/ TokenRefused(s, route, token)
            \/ RoleRefused(s, route, token)
            \/ EnterAs(s, route, token)

Serve(s) ==
    \/ HandlerSucceeds(s)
    \/ \E code \in HandlerErrors : HandlerRefuses(s, code)
    \/ AuditInserts(s)
    \/ NotAudited(s)

Fault == Crash \/ \E s \in Slots : AnswerLost(s) \/ AuditFails(s) \/ Panic(s)

Next == Fault \/ \E s \in Slots : Arrive(s) \/ Serve(s)

Spec == Init /\ [][Next]_vars

------------------------------------------------------------------------------
(* Properties. *)

TypeOK ==
    /\ request \in [Slots -> Request \cup {NoRequest}]
    /\ answer \in [Slots -> HandlerErrors \cup
                    {NoAnswer, OK, Forbidden, TooManyRequests}]
    /\ trail \subseteq {op \in Operation : op.route \in Writes}
    /\ carried \subseteq {op \in Operation : op.route \in Writes}
    /\ hit \subseteq 1..MaxRequests
    /\ reached \in 0..MaxRequests

\* The trail tells no tales: each entry is of an operation that was carried
\* out, on that route, by that operator, whose role admits it (no operator on
\* the public routes), although the entry is written after the handler and
\* other requests, failures and restarts come between.
AuditSound ==
    /\ trail \subseteq carried
    /\ \A op \in trail : Admitted(op)

\* Nothing is done off the record, short of a fault that hits the very request:
\* an operation that was carried out has its entry, or is about to get it in
\* the slot that serves it.
AuditComplete ==
    \A op \in carried \ trail :
        \/ op.no \in hit
        \/ \E s \in Slots : MustAudit(s) /\ request[s].operation = op

==============================================================================
