-------------------------- MODULE UserServiceProofs --------------------------
(***************************************************************************)
(* Proofs about UserService, for any number of users, phones and racing    *)
(* requests.                                                               *)
(*                                                                         *)
(* The argument: the index admits a row only when no other row has its     *)
(* phone, and whatever an update holds has the phone and the role of its   *)
(* user's row, however long ago that was read (HeldUpdates).  So a Save    *)
(* changes neither, and what was unique or copied into a token stays so.   *)
(***************************************************************************)
EXTENDS UserService, TLAPS

\* A registration or update that is held, and agrees with the table.
HeldOf(c) ==
    c.op = "update" =>
        /\ users[c.uid] # NoRow
        /\ c.row.phone = users[c.uid].phone
        /\ c.row.role = users[c.uid].role

HeldUpdates == \A s \in Slots : ~Free(s) => HeldOf(call[s])

IInv == TypeOK /\ HeldUpdates /\ PhonesUnique /\ TokensAgree

\* The steps of Next, by what they do to the tables and the held rows.
Answers(s) ==
    /\ call' = [call EXCEPT ![s] = NoCall]
    /\ answer' \in [Slots -> {NoAnswer, OK, BadRequest, Unauthorized, InternalError}]

Drops ==
    /\ call' \in [Slots -> Call \cup {NoCall}]
    /\ \A s \in Slots : call'[s] \in {call[s], NoCall}
    /\ answer' \in [Slots -> {NoAnswer, OK, BadRequest, Unauthorized, InternalError}]
    /\ UNCHANGED <<users, tokens>>

Holds(s) == \E c \in Call : HeldOf(c) /\ Hold(s, c)

Registers(s) ==
    /\ ~Free(s) /\ call[s].op = "register"
    /\ Inserted(s)
    /\ Answers(s)
    /\ UNCHANGED tokens

Writes(s) ==
    /\ ~Free(s) /\ call[s].op = "update"
    /\ Write(s)
    /\ Answers(s)
    /\ UNCHANGED tokens

Issues(s) ==
    /\ \E uid \in Uids : users[uid] # NoRow /\ tokens' = tokens \cup {TokenFor(uid)}
    /\ Answers(s)
    /\ UNCHANGED users

------------------------------------------------------------------------------

\* What a held call is made of.
LEMMA CallTypes ==
    ASSUME NEW c \in Call
    PROVE  /\ c.row \in Row
           /\ c.op \in {"register", "update"}
           /\ c.op = "update" => c.uid \in Uids
BY DEF Call

\* A registration is a row, whatever the body says.
LEMMA NewUserIsRow ==
    ASSUME NEW typed \in Typed, NEW password \in Passwords,
           NEW name \in Names \cup {Blank}, NEW role \in UserRoles \cup {Blank}
    PROVE  NewUser(typed, password, name, role) \in Row
BY DEF Typed, NewUser, RoleOf, Row, UserRoles

\* An update keeps the phone and the role, and is a row.
LEMMA UpdatedIsRow ==
    ASSUME NEW row \in Row, NEW name \in Names \cup {Blank},
           NEW avatar \in Avatars \cup {Blank}
    PROVE  /\ Updated(row, name, avatar) \in Row
           /\ Updated(row, name, avatar).phone = row.phone
           /\ Updated(row, name, avatar).role = row.role
BY DEF Updated, Given, Row

\* A row the update holds agrees with the table it was just read from.
LEMMA UpdateHolds ==
    ASSUME TypeOK, NEW s \in Slots, NEW token \in tokens,
           NEW name \in Names \cup {Blank}, NEW avatar \in Avatars \cup {Blank},
           UpdateProfile(s, token, name, avatar)
    PROVE  Holds(s)
<1>. DEFINE c == [op |-> "update", uid |-> token.uid,
                  row |-> Updated(users[token.uid], name, avatar)]
<1>1. token.uid \in Uids
  BY DEF TypeOK, Token
<1>2. users[token.uid] \in Row
  BY <1>1 DEF TypeOK, UpdateProfile
<1>3. c \in Call
  BY <1>1, <1>2, UpdatedIsRow DEF Call
<1>4. HeldOf(c)
  BY <1>2, UpdatedIsRow DEF HeldOf, UpdateProfile
<1>5. Hold(s, c)
  BY DEF UpdateProfile
<1>. QED
  BY <1>3, <1>4, <1>5 DEF Holds

\* A registration holds a row.
LEMMA RegisterHolds ==
    ASSUME NEW s \in Slots, NEW typed \in Typed, NEW password \in Passwords,
           NEW name \in Names \cup {Blank}, NEW role \in UserRoles \cup {Blank},
           Register(s, typed, password, name, role)
    PROVE  Holds(s)
<1>. DEFINE c == [op |-> "register", row |-> NewUser(typed, password, name, role)]
<1>1. c \in Call
  BY NewUserIsRow DEF Call
<1>2. HeldOf(c) /\ Hold(s, c)
  BY DEF HeldOf, Register
<1>. QED
  BY <1>1, <1>2 DEF Holds

\* Every step drops calls, holds one, inserts, writes, or issues a token.
LEMMA StepKinds ==
    ASSUME TypeOK, Next
    PROVE  \/ Drops
           \/ \E s \in Slots : Holds(s) \/ Registers(s) \/ Writes(s) \/ Issues(s)
<1>. USE DEF TypeOK
<1>1. CASE Crash
  BY <1>1 DEF Crash, Drops
<1>2. ASSUME NEW s \in Slots,
             NEW code \in {OK, BadRequest, Unauthorized, InternalError}, Respond(s, code)
      PROVE  Answers(s) /\ (UNCHANGED <<users, tokens>> => Drops)
  BY <1>2 DEF Respond, Answers, Drops
<1>3. ASSUME NEW s \in Slots,
             NEW code \in {OK, BadRequest, Unauthorized, InternalError}, Refuse(s, code)
      PROVE  Drops
  BY <1>2, <1>3 DEF Refuse
<1>4. ASSUME NEW s \in Slots, WriteFails(s)
      PROVE  Drops \/ Registers(s) \/ Writes(s)
  BY <1>2, <1>4 DEF WriteFails, Registers, Writes
<1>5. ASSUME NEW s \in Slots, QueryFails(s) \/ BindingRefused(s)
      PROVE  Drops
  BY <1>3, <1>5 DEF QueryFails, BindingRefused
<1>6. ASSUME NEW s \in Slots, NEW typed \in Typed, NEW password \in Passwords,
             Login(s, typed, password)
      PROVE  Issues(s)
  BY <1>2, <1>6 DEF Login, Issues
<1>7. ASSUME NEW s \in Slots, NEW typed \in Typed, NEW password \in Passwords,
             LoginRefused(s, typed, password) \/ RegisterTaken(s, typed)
      PROVE  Drops
  BY <1>3, <1>7 DEF LoginRefused, RegisterTaken
<1>8. ASSUME NEW s \in Slots, NEW typed \in Typed, RegisterTaken(s, typed)
      PROVE  Drops
  BY <1>3, <1>8 DEF RegisterTaken
<1>9. ASSUME NEW s \in Slots, Insert(s) \/ InsertRefused(s) \/ Save(s)
      PROVE  Drops \/ Registers(s) \/ Writes(s)
  BY <1>2, <1>9 DEF Insert, InsertRefused, Save, Registers, Writes
<1>10. ASSUME NEW s \in Slots, Handle(s)
       PROVE  Drops \/ Holds(s) \/ Registers(s) \/ Writes(s) \/ Issues(s)
  BY <1>5, <1>6, <1>7, <1>8, <1>9, <1>10, RegisterHolds, UpdateHolds DEF Handle
<1>. QED
  BY <1>1, <1>4, <1>5, <1>10 DEF Next, Fault

------------------------------------------------------------------------------

LEMMA DropsKeeps ==
    ASSUME IInv, Drops
    PROVE  IInv'
<1>1. TypeOK'
  BY DEF IInv, TypeOK, Drops
<1>2. HeldUpdates'
  BY DEF IInv, HeldUpdates, HeldOf, Free, Drops
<1>3. PhonesUnique' /\ TokensAgree'
  BY DEF IInv, PhonesUnique, TokensAgree, TokenFor, Drops
<1>. QED
  BY <1>1, <1>2, <1>3 DEF IInv

LEMMA HoldsKeeps ==
    ASSUME IInv, NEW s \in Slots, Holds(s)
    PROVE  IInv'
<1>1. PICK c \in Call : HeldOf(c) /\ Hold(s, c)
  BY DEF Holds
<1>2. TypeOK'
  BY <1>1 DEF IInv, TypeOK, Hold
<1>3. HeldUpdates'
  BY <1>1 DEF IInv, TypeOK, HeldUpdates, HeldOf, Free, Hold
<1>4. PhonesUnique' /\ TokensAgree'
  BY <1>1 DEF IInv, PhonesUnique, TokensAgree, TokenFor, Hold
<1>. QED
  BY <1>2, <1>3, <1>4 DEF IInv

\* The index keeps phones apart; an insert takes no row away.
LEMMA RegistersKeeps ==
    ASSUME IInv, NEW s \in Slots, Registers(s)
    PROVE  IInv'
<1>1. call[s] \in Call
  BY DEF IInv, TypeOK, Registers, Free
<1>2. call[s].row \in Row
  BY <1>1, CallTypes
<1>3. PICK uid \in Uids : /\ users[uid] = NoRow
                          /\ users' = [users EXCEPT ![uid] = call[s].row]
  BY DEF Registers, Inserted
<1>4. TypeOK'
  BY <1>2, <1>3 DEF IInv, TypeOK, Registers, Answers
<1>5. \A other \in Uids : users[other] # NoRow => users'[other] = users[other]
  BY <1>3 DEF IInv, TypeOK
<1>6. HeldUpdates'
  <2>1. SUFFICES ASSUME NEW t \in Slots, call'[t] # NoCall
                 PROVE  HeldOf(call[t])'
    BY DEF HeldUpdates, Free
  <2>2. call'[t] = call[t] /\ call[t] \in Call
    BY <2>1 DEF IInv, TypeOK, Registers, Answers
  <2>3. HeldOf(call[t])
    BY <2>1, <2>2 DEF IInv, HeldUpdates, Free
  <2>. QED
    BY <1>5, <2>2, <2>3, CallTypes DEF HeldOf
<1>7. PhonesUnique'
  BY <1>3 DEF IInv, TypeOK, PhonesUnique, Registers, Inserted, IndexAdmits
<1>8. TokensAgree'
  BY <1>5 DEF IInv, TypeOK, Token, TokensAgree, TokenFor, Registers
<1>. QED
  BY <1>4, <1>6, <1>7, <1>8 DEF IInv

\* A save puts a row in the place of one with the same phone and role.
LEMMA WritesKeeps ==
    ASSUME IInv, NEW s \in Slots, Writes(s)
    PROVE  IInv'
<1>1. call[s] \in Call /\ HeldOf(call[s])
  BY DEF IInv, TypeOK, HeldUpdates, Writes, Free
<1>2. /\ call[s].row \in Row /\ call[s].uid \in Uids
      /\ users[call[s].uid] # NoRow
      /\ call[s].row.phone = users[call[s].uid].phone
      /\ call[s].row.role = users[call[s].uid].role
  BY <1>1, CallTypes DEF HeldOf, Writes
<1>3. TypeOK'
  BY <1>2 DEF IInv, TypeOK, Writes, Write, Answers
<1>4. ASSUME NEW uid \in Uids
      PROVE  /\ users'[uid] # NoRow <=> users[uid] # NoRow
             /\ users[uid] # NoRow => /\ users'[uid].phone = users[uid].phone
                                      /\ users'[uid].role = users[uid].role
  BY <1>2, AbsenceAssumption DEF IInv, TypeOK, Writes, Write
<1>5. HeldUpdates'
  <2>1. SUFFICES ASSUME NEW t \in Slots, call'[t] # NoCall
                 PROVE  HeldOf(call[t])'
    BY DEF HeldUpdates, Free
  <2>2. call'[t] = call[t] /\ call[t] \in Call
    BY <2>1 DEF IInv, TypeOK, Writes, Answers
  <2>3. HeldOf(call[t])
    BY <2>1, <2>2 DEF IInv, HeldUpdates, Free
  <2>. QED
    BY <1>4, <2>2, <2>3, CallTypes DEF HeldOf
<1>6. PhonesUnique'
  BY <1>4 DEF IInv, PhonesUnique
<1>7. TokensAgree'
  BY <1>4 DEF IInv, TypeOK, Token, TokensAgree, TokenFor, Writes
<1>. QED
  BY <1>3, <1>5, <1>6, <1>7 DEF IInv

\* A token is issued with what the row says.
LEMMA IssuesKeeps ==
    ASSUME IInv, NEW s \in Slots, Issues(s)
    PROVE  IInv'
<1>1. PICK uid \in Uids : users[uid] # NoRow /\ tokens' = tokens \cup {TokenFor(uid)}
  BY DEF Issues
<1>2. TokenFor(uid) \in Token
  BY <1>1 DEF IInv, TypeOK, Row, TokenFor, Token
<1>3. TypeOK'
  BY <1>1, <1>2 DEF IInv, TypeOK, Issues, Answers
<1>4. HeldUpdates'
  BY DEF IInv, TypeOK, HeldUpdates, HeldOf, Free, Issues, Answers
<1>5. PhonesUnique' /\ TokensAgree'
  BY <1>1 DEF IInv, PhonesUnique, TokensAgree, TokenFor, Issues
<1>. QED
  BY <1>3, <1>4, <1>5 DEF IInv

\* The argument above holds initially and survives every step.
THEOREM Invariance == Spec => []IInv
<1>1. Init => IInv
  BY DEF Init, IInv, TypeOK, HeldUpdates, PhonesUnique, TokensAgree, Free
<1>2. ASSUME IInv, [Next]_vars
      PROVE  IInv'
  <2>1. CASE UNCHANGED vars
    BY <1>2, <2>1 DEF vars, IInv, TypeOK, HeldUpdates, HeldOf, Free, PhonesUnique,
                      TokensAgree, TokenFor
  <2>2. CASE Next
    BY <1>2, <2>2, StepKinds, DropsKeeps, HoldsKeeps, RegistersKeeps, WritesKeeps,
       IssuesKeeps DEF IInv
  <2>. QED
    BY <1>2, <2>1, <2>2
<1>. QED
  BY <1>1, <1>2, PTL DEF Spec

\* Users, calls, answers and tokens keep their types.
THEOREM TypeCorrect == Spec => []TypeOK
<1>1. IInv => TypeOK
  BY DEF IInv
<1>. QED
  BY <1>1, Invariance, PTL

\* One user for a phone, however many registrations race for it (Register,
\* Create and the unique index).
THEOREM OneUserForAPhone == Spec => []PhonesUnique
<1>1. IInv => PhonesUnique
  BY DEF IInv
<1>. QED
  BY <1>1, Invariance, PTL

\* The claims of a token agree with its user's row for as long as it lives,
\* whatever updates are saved late (GenerateToken and UpdateProfile).
THEOREM ClaimsHold == Spec => []TokensAgree
<1>1. IInv => TokensAgree
  BY DEF IInv
<1>. QED
  BY <1>1, Invariance, PTL

------------------------------------------------------------------------------
(* One request at a time: what the look-up of Register found still holds at  *)
(* the insert.                                                               *)

OneSlot == \A s, t \in Slots : s = t

HeldAdmitted ==
    \A s \in Slots : ~Free(s) /\ call[s].op = "register" => IndexAdmits(call[s].row.phone)

LEMMA SerialStep ==
    ASSUME OneSlot, TypeOK, HeldAdmitted, [Next]_vars
    PROVE  HeldAdmitted'
<1>1. CASE UNCHANGED vars
  BY <1>1 DEF vars, HeldAdmitted, IndexAdmits, Free
<1>2. CASE Crash
  BY <1>2 DEF Crash, HeldAdmitted, Free
<1>3. ASSUME NEW s \in Slots, \E code : Respond(s, code)
      PROVE  HeldAdmitted'
  <2>1. \A t \in Slots : call'[t] = NoCall
    BY <1>3 DEF Respond, OneSlot, TypeOK
  <2>. QED
    BY <2>1 DEF HeldAdmitted, Free
<1>4. ASSUME NEW s \in Slots, NEW c, Hold(s, c),
             c.op = "register" => IndexAdmits(c.row.phone)
      PROVE  HeldAdmitted'
  <2>1. \A t \in Slots : call'[t] = c
    BY <1>4 DEF Hold, OneSlot, TypeOK
  <2>2. \A phone : IndexAdmits(phone)' <=> IndexAdmits(phone)
    BY <1>4 DEF Hold, IndexAdmits
  <2>. QED
    BY <1>4, <2>1, <2>2 DEF HeldAdmitted
<1>5. ASSUME NEW s \in Slots, NEW typed \in Typed, NEW password \in Passwords,
             NEW name \in Names \cup {Blank}, NEW role \in UserRoles \cup {Blank},
             Register(s, typed, password, name, role)
      PROVE  HeldAdmitted'
  <2>1. NewUser(typed, password, name, role).phone = typed.phone
    BY DEF NewUser
  <2>2. IndexAdmits(typed.phone)
    BY <1>5 DEF Register, PhoneTaken, IndexAdmits
  <2>. QED
    BY <1>4, <1>5, <2>1, <2>2 DEF Register
<1>6. ASSUME NEW s \in Slots, NEW token \in tokens,
             NEW name \in Names \cup {Blank}, NEW avatar \in Avatars \cup {Blank},
             UpdateProfile(s, token, name, avatar)
      PROVE  HeldAdmitted'
  BY <1>4, <1>6 DEF UpdateProfile
<1>7. ASSUME NEW s \in Slots, WriteFails(s) \/ QueryFails(s)
      PROVE  HeldAdmitted'
  BY <1>3, <1>7 DEF WriteFails, QueryFails, Refuse
<1>8. ASSUME NEW s \in Slots, Handle(s)
      PROVE  HeldAdmitted'
  <2>1. ASSUME NEW typed \in Typed, NEW password \in Passwords,
               \/ Login(s, typed, password)
               \/ LoginRefused(s, typed, password)
               \/ RegisterTaken(s, typed)
        PROVE  HeldAdmitted'
    BY <1>3, <2>1 DEF Login, LoginRefused, RegisterTaken, Refuse
  <2>2. ASSUME NEW typed \in Typed, RegisterTaken(s, typed)
        PROVE  HeldAdmitted'
    BY <1>3, <2>2 DEF RegisterTaken, Refuse
  <2>3. CASE Insert(s) \/ InsertRefused(s) \/ Save(s) \/ BindingRefused(s)
    BY <1>3, <2>3 DEF Insert, InsertRefused, Save, BindingRefused, Refuse
  <2>. QED
    BY <1>5, <1>6, <1>8, <2>1, <2>2, <2>3 DEF Handle
<1>. QED
  BY <1>1, <1>2, <1>7, <1>8 DEF Next, Fault

\* With one request at a time the unique index never has to refuse what the
\* look-up has let through: a registration answered 500 with a generic text
\* (InsertRefused) has lost a race.
THEOREM SerialInsertsAreAdmitted ==
    OneSlot => (Spec => [][\A s \in Slots : ~InsertRefused(s)]_vars)
<1>. SUFFICES ASSUME OneSlot
              PROVE  Spec => [][\A s \in Slots : ~InsertRefused(s)]_vars
  OBVIOUS
<1>1. Init => HeldAdmitted
  BY DEF Init, HeldAdmitted, Free
<1>2. TypeOK /\ HeldAdmitted /\ [Next]_vars
        => HeldAdmitted' /\ [\A s \in Slots : ~InsertRefused(s)]_vars
  BY SerialStep DEF HeldAdmitted, InsertRefused
<1>. QED
  BY <1>1, <1>2, TypeCorrect, PTL DEF Spec

==============================================================================
