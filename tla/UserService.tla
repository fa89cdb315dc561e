----------------------------- MODULE UserService -----------------------------
(***************************************************************************)
(* The user service: registration, login and profile updates.  Register    *)
(* looks for the phone and only then, after hashing the password, inserts  *)
(* the user; what keeps phones apart when two requests pass the look-up    *)
(* together is the unique index.  UpdateProfile reads the user and later   *)
(* saves the whole row.  Login copies phone and role into a token that is  *)
(* trusted as long as it lives.                                            *)
(***************************************************************************)
EXTENDS Naturals

CONSTANTS
    Uids,             \* identities the auto-increment key can hand out
    Slots,            \* requests in service at the same time
    Phones, Passwords,
    Names, Avatars,   \* texts a profile body may carry
    Blank,            \* a text left out or empty
    NoRow, NoCall

VARIABLES
    users,            \* the table users
    call,             \* call[s]: the registration or update slot s is in
    answer,           \* answer[s]: the HTTP status slot s last sent
    tokens            \* the tokens issued so far

vars == <<users, call, answer, tokens>>

------------------------------------------------------------------------------
(* Rows, bodies and tokens. *)

UserRoles == {"admin", "safety_manager", "inspector", "worker"}

Row == [phone: Phones, password: Passwords, role: UserRoles,
        name: Names \cup {Blank}, avatar: Avatars \cup {Blank}]

\* A phone as it is typed, with or without a space in front of it.
Typed == [phone: Phones, spaced: BOOLEAN]

Call == [op: {"register"}, row: Row] \cup
        [op: {"update"}, uid: Uids, row: Row]

Token == [uid: Uids, phone: Phones, role: UserRoles]

OK == 200
BadRequest == 400
Unauthorized == 401
InternalError == 500
NoAnswer == 0

ASSUME AbsenceAssumption ==
    /\ Blank \notin Names \cup Avatars
    /\ NoRow \notin Row
    /\ NoCall \notin Call

\* A role left out of the body is a worker's.
RoleAsGiven(role) == role                                     \* mutant
RoleOf(role) == IF role = Blank THEN "worker" ELSE role

\* The body's phone is trimmed before anything else.
NewUser(typed, password, name, role) ==
    [phone |-> typed.phone, password |-> password, role |-> RoleOf(role),
     name |-> name, avatar |-> Blank]

\* The unique index on phone.
NoIndex(phone) == TRUE                                        \* mutant
IndexAdmits(phone) == \A uid \in Uids : users[uid] # NoRow => users[uid].phone # phone

PhoneTaken(phone) == \E uid \in Uids : users[uid] # NoRow /\ users[uid].phone = phone

\* An empty name or avatar leaves the old one.
Given(text, old) == IF text = Blank THEN old ELSE text

UpdatedWorker(row, name, avatar) ==                           \* mutant
    [row EXCEPT !.name = Given(name, row.name), !.role = "worker"]
Updated(row, name, avatar) ==
    [row EXCEPT !.name = Given(name, row.name),
                !.avatar = Given(avatar, row.avatar)]

\* GenerateToken: the claims are those of the row at login.
TokenFor(uid) ==
    [uid |-> uid, phone |-> users[uid].phone, role |-> users[uid].role]

------------------------------------------------------------------------------
(* The handlers. *)

Free(s) == call[s] = NoCall

Respond(s, code) ==
    /\ answer' = [answer EXCEPT ![s] = code]
    /\ call' = [call EXCEPT ![s] = NoCall]

Refuse(s, code) ==
    /\ Free(s)
    /\ Respond(s, code)
    /\ UNCHANGED <<users, tokens>>

Hold(s, c) ==
    /\ Free(s)
    /\ call' = [call EXCEPT ![s] = c]
    /\ answer' = [answer EXCEPT ![s] = NoAnswer]
    /\ UNCHANGED <<users, tokens>>

\* POST /auth/register, up to its Create: the phone is not taken.
Register(s, typed, password, name, role) ==
    /\ ~PhoneTaken(typed.phone)
    /\ Hold(s, [op |-> "register", row |-> NewUser(typed, password, name, role)])

\* The phone is taken: CodeUserExists is answered 400.
RegisterTaken(s, typed) == PhoneTaken(typed.phone) /\ Refuse(s, BadRequest)

\* Create: the insert, if the unique index lets it in.
Inserted(s) ==
    /\ IndexAdmits(call[s].row.phone)
    /\ \E uid \in Uids :
        /\ users[uid] = NoRow
        /\ users' = [users EXCEPT ![uid] = call[s].row]

Insert(s) ==
    /\ ~Free(s) /\ call[s].op = "register"
    /\ Inserted(s)
    /\ Respond(s, OK)
    /\ UNCHANGED tokens

\* The index refuses the row of the request that came second: 500.
InsertRefused(s) ==
    /\ ~Free(s) /\ call[s].op = "register"
    /\ ~IndexAdmits(call[s].row.phone)
    /\ Respond(s, InternalError)
    /\ UNCHANGED <<users, tokens>>

\* POST /auth/login: the phone is looked up as it was typed.
Login(s, typed, password) ==
    /\ Free(s)
    /\ ~typed.spaced
    /\ \E uid \in Uids :
        /\ users[uid] # NoRow
        /\ users[uid].phone = typed.phone
        /\ users[uid].password = password
        /\ tokens' = tokens \cup {TokenFor(uid)}
    /\ Respond(s, OK)
    /\ UNCHANGED users

LoginRefused(s, typed, password) ==
    /\ \/ typed.spaced
       \/ \A uid \in Uids : users[uid] # NoRow /\ users[uid].phone = typed.phone
                                => users[uid].password # password
    /\ Refuse(s, Unauthorized)

\* PUT /users/me with a token, up to its Update.
UpdateProfile(s, token, name, avatar) ==
    /\ users[token.uid] # NoRow
    /\ Hold(s, [op |-> "update", uid |-> token.uid,
                row |-> Updated(users[token.uid], name, avatar)])

\* Update: the whole row is written back.
Write(s) == users' = [users EXCEPT ![call[s].uid] = call[s].row]

Save(s) ==
    /\ ~Free(s) /\ call[s].op = "update"
    /\ Write(s)
    /\ Respond(s, OK)
    /\ UNCHANGED tokens

\* The write of either operation fails, or its answer is lost after the row
\* was written.
WriteFails(s) ==
    /\ ~Free(s)
    /\ \/ call[s].op = "register" /\ Inserted(s)
       \/ call[s].op = "update" /\ Write(s)
       \/ UNCHANGED users
    /\ Respond(s, InternalError)
    /\ UNCHANGED tokens

\* A body the bindings refuse.
BindingRefused(s) == Refuse(s, BadRequest)

\* A query fails.
QueryFails(s) == Refuse(s, InternalError)

------------------------------------------------------------------------------

Crash ==
    /\ call' = [s \in Slots |-> NoCall]
    /\ answer' = [s \in Slots |-> NoAnswer]
    /\ UNCHANGED <<users, tokens>>

Init ==
    /\ users = [uid \in Uids |-> NoRow]
    /\ call = [s \in Slots |-> NoCall]
    /\ answer = [s \in Slots |-> NoAnswer]
    /\ tokens = {}

Handle(s) ==
    \/ \E typed \in Typed, password \in Passwords :
        \/ \E name \in Names \cup {Blank}, role \in UserRoles \cup {Blank} :
            Register(s, typed, password, name, role)
        \/ Login(s, typed, password)
        \/ LoginRefused(s, typed, password)
    \/ \E typed \in Typed : RegisterTaken(s, typed)
    \/ \E token \in tokens, name \in Names \cup {Blank}, avatar \in Avatars \cup {Blank} :
        UpdateProfile(s, token, name, avatar)
    \/ Insert(s)
    \/ InsertRefused(s)
    \/ Save(s)
    \/ BindingRefused(s)

Fault == Crash \/ \E s \in Slots : WriteFails(s) \/ QueryFails(s)

Next == Fault \/ \E s \in Slots : Handle(s)

Spec == Init /\ [][Next]_vars

------------------------------------------------------------------------------
(* Properties. *)

TypeOK ==
    /\ users \in [Uids -> Row \cup {NoRow}]
    /\ call \in [Slots -> Call \cup {NoCall}]
    /\ answer \in [Slots -> {NoAnswer, OK, BadRequest, Unauthorized, InternalError}]
    /\ tokens \subseteq Token

\* However many registrations of one phone pass the look-up together, one
\* user comes of them; and no profile update changes a phone.
PhonesUnique ==
    \A uid, other \in Uids :
        /\ users[uid] # NoRow /\ users[other] # NoRow
        /\ users[uid].phone = users[other].phone
        => uid = other

\* A token says what its user's row says, for as long as it lives: no profile
\* update, not even one that saves a row read long before, changes the role
\* or the phone, or takes the user away.
TokensAgree ==
    \A token \in tokens :
        /\ users[token.uid] # NoRow
        /\ token = TokenFor(token.uid)

==============================================================================
